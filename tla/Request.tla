------------------------------- MODULE Request -------------------------------
(***************************************************************************)
(* One unary call (src/nebius/aio/request.py): the coroutine that          *)
(* authenticates, sends, retries and publishes the outcome on the SDK      *)
(* loop, and the threads that wait for the request, cancel it or give up   *)
(* at its deadline meanwhile.  The two sides meet in the flags guarded by  *)
(* _future_lock, so every locked section is a step of its own.             *)
(*                                                                         *)
(* Time is two flags: the request budget or the authorization budget has   *)
(* run out.  An attempt may fail with any of a few kinds of error; which   *)
(* of them are retriable is service_error's business.                      *)
(***************************************************************************)
EXTENDS Naturals

CONSTANTS
    Envs,       \* the circumstances of a request, see EnvType
    MaxRounds   \* how often the authenticator can agree to a retry

EnvType == [auth: BOOLEAN,        \* an authorization provider is configured
            override: {"none", "own", "foreign"}, \* grpc_channel_override and its loop
            timed: BOOLEAN,       \* timeout and auth_timeout are not None
            hints: BOOLEAN,       \* UNAUTHENTICATED may carry the retry hint CALL
            wrapperFails: BOOLEAN, \* result_wrapper may raise
            closing: BOOLEAN,     \* the SDK may be closed during the request
            retries: Nat]

VARIABLES
    env,
    pc,           \* where the coroutine is
    fut,          \* the shared handle: "none", "pending", or how it was settled
    task,         \* task.cancel(): "no", "posted" to the loop, "taken"
    native,       \* the latest native call: "none", "open", or its outcome
    attempt,      \* attempt of _retry_loop
    rounds,       \* retries granted by the authenticator
    err,          \* the exception under way
    inTime,       \* the deadline had not passed when it was last looked at
    lease,        \* _grpc_channel
    dirty,        \* a transport went back to the pool under an open call
    cancelled,    \* _cancelled
    terminal,     \* _native_terminal
    pending,      \* _retry_decision_pending
    attTerm,      \* _native_attempt_terminal
    cancelAfter,  \* _cancel_after_terminal_attempt
    expired,      \* _deadline_expired
    reqLate,      \* _request_deadline has passed
    authLate,     \* _authorization_deadline has passed
    waiter        \* the caller that awaits the request

flags == <<cancelled, terminal, pending, attTerm, cancelAfter, expired>>
clocks == <<reqLate, authLate>>
transport == <<lease, dirty>>
requestVars == <<env, pc, fut, task, native, attempt, rounds, err, inTime, transport, flags, clocks, waiter>>

NativeErrors == {"unavailable", "unauth", "hinted", "final"}
Unauthenticated == {"unauth", "hinted"}
Retriable == {"unavailable", "hinted", "localRetry"}
Errors == NativeErrors \cup {"none", "local", "localRetry", "isCancelled", "timeout", "cancelledError"}
Settled == {"ok", "error", "cancelled"}
Steps == {"new", "rejected", "queued", "authTop", "auth", "loop", "send", "open", "calling",
          "complete", "failed", "except", "decide", "raised", "authDecide", "unwind", "end"}

RequestInit ==
    /\ env \in Envs
    /\ pc = "new" /\ fut = "none" /\ task = "no" /\ native = "none"
    /\ attempt = 0 /\ rounds = 0 /\ err = "none" /\ inTime = TRUE
    /\ lease = (IF env.override = "none" THEN "none" ELSE "override") /\ dirty = FALSE
    /\ cancelled = FALSE /\ terminal = FALSE /\ pending = FALSE
    /\ attTerm = FALSE /\ cancelAfter = FALSE /\ expired = FALSE
    /\ reqLate = FALSE /\ authLate = FALSE
    /\ waiter = "no"

(* The deadline of _retry_loop, min(own, outer), has passed. *)
Late == reqLate \/ authLate

InFlight == native \in {"open", "cancelling"}

(* _release_grpc_channel: forget the lease, then return or discard it. *)
Release(discard) ==
    /\ lease' = "none"
    /\ dirty' = (dirty \/ (lease # "none" /\ ~discard /\ InFlight))

(* The coroutine ends; its outcome reaches a handle that was not cancelled. *)
Finish(outcome) ==
    /\ pc' = "end"
    /\ fut' = IF fut = "pending" THEN outcome ELSE fut

-----------------------------------------------------------------------------
(* The caller's side *)

(* _ensure_submitted, by the first await or wait. *)
Submit ==
    /\ pc = "new" /\ waiter = "no"
    /\ waiter' = "waiting"
    /\ pc' = "queued" /\ fut' = "pending"
    /\ UNCHANGED <<env, task, native, attempt, rounds, err, transport, flags, clocks, inTime>>

(* The channel refuses the work: an override is discarded, nothing was sent. *)
SubmitRejected ==
    /\ pc = "new" /\ waiter = "no"
    /\ waiter' = "answered"
    /\ pc' = "rejected"
    /\ Release(TRUE)
    /\ UNCHANGED <<env, fut, task, native, attempt, rounds, err, flags, clocks, inTime>>

(* An accepted cancel(): an unclassified attempt only records the intent, an *)
(* unsubmitted request is flagged, otherwise the handle is cancelled and the *)
(* runtime posts task.cancel().                                              *)
CancelAccepted ==
    /\ ~cancelled /\ ~(terminal /\ ~pending)
    /\ cancelled' = TRUE
    /\ \/ /\ attTerm
          /\ cancelAfter' = TRUE
          /\ UNCHANGED <<fut, task>>
       \/ /\ ~attTerm /\ fut = "none"
          /\ UNCHANGED <<fut, task, cancelAfter>>
       \/ /\ ~attTerm /\ fut = "pending"
          /\ fut' = "cancelled"
          /\ task' = IF task = "no" THEN "posted" ELSE task
          /\ UNCHANGED cancelAfter

Cancel ==
    /\ CancelAccepted
    /\ UNCHANGED <<env, pc, native, attempt, rounds, err, transport,
                   terminal, pending, attTerm, expired, clocks, waiter, inTime>>

(* What cancel() leaves alone when it returns False. *)
CancelRefused ==
    /\ cancelled \/ (terminal /\ ~pending) \/ (~attTerm /\ fut \in Settled)
    /\ UNCHANGED <<fut, task, cancelled, cancelAfter>>

(* The awaiting task is cancelled: _await_result cancels the request and raises. *)
WaiterCancelled ==
    /\ waiter \in {"waiting", "outcome"}
    /\ waiter' = "left"
    /\ CancelAccepted \/ CancelRefused
    /\ UNCHANGED <<env, pc, native, attempt, rounds, err, transport,
                   terminal, pending, attTerm, expired, clocks, inTime>>

(* _submission_deadline, or _dispatch_deadline before the coroutine started. *)
WaitOver == IF env.auth THEN authLate \/ (pc = "queued" /\ reqLate) ELSE reqLate

(* _expire_wait for a handle that is not done. *)
ExpireWait ==
    \/ /\ terminal /\ ~pending
       /\ expired' = TRUE /\ waiter' = "outcome"
       /\ UNCHANGED <<fut, task, cancelled, cancelAfter>>
    \/ /\ attTerm \/ (terminal /\ pending)
       /\ ~(terminal /\ ~pending)
       /\ waiter' = "outcome"
       /\ expired' = (expired \/ ~cancelled)
       /\ cancelled' = TRUE
       /\ cancelAfter' = (cancelAfter \/ ~cancelled)
       /\ UNCHANGED <<fut, task>>
    \/ /\ ~terminal /\ ~attTerm
       /\ waiter' = "expired"
       /\ CancelAccepted \/ CancelRefused
       /\ UNCHANGED expired

WaitExpires ==
    /\ waiter = "waiting" /\ fut = "pending" /\ WaitOver
    /\ ExpireWait
    /\ UNCHANGED <<env, pc, native, attempt, rounds, err, transport, terminal, pending, attTerm, clocks, inTime>>

WaitReturns ==
    /\ waiter \in {"waiting", "outcome"} /\ fut \in Settled
    /\ waiter' = "answered"
    /\ UNCHANGED <<env, pc, fut, task, native, attempt, rounds, err, transport, flags, clocks, inTime>>

(* AsyncRuntime.cancel_submissions cancels the task, not the handle. *)
ShutdownCancels ==
    /\ env.closing /\ pc \notin {"new", "rejected", "end"} /\ task = "no"
    /\ task' = "posted"
    /\ UNCHANGED <<env, pc, fut, native, attempt, rounds, err, transport, flags, clocks, waiter, inTime>>

(* The request budget stands still while authorization runs. *)
RequestClock ==
    /\ env.timed /\ ~reqLate
    /\ pc \in {"queued", "loop", "send", "open", "calling", "complete", "failed", "except", "decide"}
    /\ reqLate' = TRUE
    /\ UNCHANGED <<env, pc, fut, task, native, attempt, rounds, err, transport, flags, authLate, waiter, inTime>>

AuthorizationClock ==
    /\ env.timed /\ env.auth /\ ~authLate
    /\ pc \notin {"new", "rejected", "end"}
    /\ authLate' = TRUE
    /\ UNCHANGED <<env, pc, fut, task, native, attempt, rounds, err, transport, flags, reqLate, waiter, inTime>>

-----------------------------------------------------------------------------
(* The coroutine: start_request and the authorization loop *)

caller == <<env, waiter, clocks>>

(* The request is only entered when its dispatch deadline has not passed.    *)
Start ==
    /\ pc = "queued" /\ task # "posted"
    /\ \/ /\ env.auth /\ Late
          /\ cancelled' = TRUE
          /\ Release(TRUE)
          /\ Finish("error")
       \/ /\ ~(env.auth /\ Late)
          /\ pc' = IF env.auth THEN "authTop" ELSE "loop"
          /\ UNCHANGED <<fut, cancelled, transport>>
    /\ UNCHANGED <<caller, task, native, attempt, rounds, err, terminal, pending, attTerm, cancelAfter, expired, inTime>>

(* release_if_unstarted: the task was cancelled before its first step. *)
NeverStarts ==
    /\ pc = "queued" /\ task = "posted"
    /\ task' = "taken"
    /\ Release(TRUE)
    /\ Finish("cancelled")
    /\ UNCHANGED <<caller, native, attempt, rounds, err, flags, inTime>>

AuthTop ==
    /\ pc = "authTop"
    /\ \/ /\ authLate
          /\ Release(FALSE)
          /\ err' = "timeout" /\ pc' = "unwind"
       \/ /\ ~authLate
          /\ pc' = "auth"
          /\ UNCHANGED <<err, transport>>
    /\ UNCHANGED <<caller, fut, task, native, attempt, rounds, flags, inTime>>

(* run_request_attempts: every authenticated cycle has a fresh request budget. *)
Authenticated ==
    /\ pc = "auth"
    /\ pc' = "loop" /\ attempt' = 0
    /\ reqLate' = FALSE
    /\ UNCHANGED <<env, waiter, authLate, fut, task, native, rounds, err, transport, flags, inTime>>

(* _resolve_authorization_retry *)
Resolve(retry) ==
    LET stopped == retry /\ pending /\ cancelled
    IN  /\ pending' = FALSE /\ attTerm' = FALSE /\ cancelAfter' = FALSE
        /\ terminal' = (terminal /\ ~(retry /\ ~stopped))
        /\ cancelled' = (cancelled /\ retry)
        /\ UNCHANGED expired

AuthenticationFails ==
    /\ pc = "auth"
    /\ \/ /\ authLate
          /\ Resolve(FALSE)
          /\ Release(FALSE)
          /\ err' = "local" /\ pc' = "unwind"
          /\ UNCHANGED rounds
       \/ /\ ~authLate
          /\ Release(FALSE)
          /\ err' = "local" /\ pc' = "unwind"
          /\ UNCHANGED <<rounds, flags>>
       \/ /\ ~authLate /\ rounds < MaxRounds   \* can_retry
          /\ rounds' = rounds + 1
          /\ pc' = "authTop"
          /\ UNCHANGED <<err, transport, flags>>
    /\ UNCHANGED <<caller, fut, task, native, attempt, inTime>>

(* The authorization loop receives what _retry_loop raised and looks at its  *)
(* clock.                                                                    *)
AuthorizationReceives ==
    /\ pc = "raised"
    /\ inTime' = ~authLate
    /\ pc' = IF env.auth /\ err \in NativeErrors THEN "authDecide" ELSE "unwind"
    /\ UNCHANGED <<caller, fut, task, native, attempt, rounds, err, transport, flags>>

(* Only an UNAUTHENTICATED answer that came in time is retried, if the       *)
(* authenticator agrees.                                                     *)
AuthorizationDecides ==
    /\ pc = "authDecide"
    /\ \/ /\ Resolve(FALSE)
          /\ Release(FALSE)
          /\ pc' = "unwind"
          /\ UNCHANGED <<err, rounds>>
       \/ /\ err \in Unauthenticated /\ inTime /\ rounds < MaxRounds
          /\ rounds' = rounds + 1
          /\ Resolve(TRUE)
          /\ \/ /\ pending /\ cancelled
                /\ Release(TRUE)
                /\ err' = "isCancelled" /\ pc' = "unwind"
             \/ /\ ~(pending /\ cancelled)
                /\ IF env.override = "none" THEN Release(FALSE) ELSE UNCHANGED transport
                /\ pc' = "authTop"
                /\ UNCHANGED err
    /\ UNCHANGED <<caller, fut, task, native, attempt, inTime>>

(* The outer guard of _request_with_authorization_loop. *)
Unwind ==
    /\ pc = "unwind"
    /\ Release(native # "none" /\ ~terminal)
    /\ Finish(IF err = "cancelledError" THEN "cancelled" ELSE "error")
    /\ UNCHANGED <<caller, task, native, attempt, rounds, err, flags, inTime>>

-----------------------------------------------------------------------------
(* The coroutine: _retry_loop *)

TopOfLoop ==
    /\ pc = "loop"
    /\ \/ /\ cancelled
          /\ err' = "isCancelled" /\ pc' = "unwind"
          /\ UNCHANGED attempt
       \/ /\ ~cancelled /\ Late
          /\ err' = "timeout" /\ pc' = "unwind"
          /\ UNCHANGED attempt
       \/ /\ ~cancelled /\ ~Late
          /\ attempt' = attempt + 1
          /\ pc' = "send"
          /\ UNCHANGED err
    /\ UNCHANGED <<caller, fut, task, native, rounds, transport, flags, inTime>>

(* _send, up to the lease: a cancelled request is not sent, a missing lease  *)
(* is taken from the pool (which may refuse), an override of another loop is *)
(* discarded.                                                                *)
Send ==
    /\ pc = "send"
    /\ \/ /\ cancelled
          /\ err' = "isCancelled" /\ pc' = "except"
          /\ UNCHANGED transport
       \/ /\ ~cancelled /\ lease = "none"
          /\ err' = "local" /\ pc' = "except"
          /\ UNCHANGED transport
       \/ /\ ~cancelled /\ lease = "override" /\ env.override = "foreign"
          /\ Release(TRUE)
          /\ err' = "local" /\ pc' = "except"
       \/ /\ ~cancelled /\ ~(lease = "override" /\ env.override = "foreign")
          /\ lease' = IF lease = "none" THEN "pooled" ELSE lease
          /\ pc' = "open"
          /\ UNCHANGED <<err, dirty>>
    /\ UNCHANGED <<caller, fut, task, native, attempt, rounds, flags, inTime>>

(* The native call starts; a thread may have cancelled since the test in Send. *)
OpenCall ==
    /\ pc = "open"
    /\ native' = "open" /\ pc' = "calling"
    /\ UNCHANGED <<caller, fut, task, attempt, rounds, err, transport, flags, inTime>>

(* The server or the attempt's own timeout ends the call, and the done       *)
(* callback _mark_native_attempt_terminal runs before its awaiter resumes.   *)
NativeDone(outcome) ==
    /\ native = "open"
    /\ outcome = "hinted" => env.hints
    /\ native' = outcome
    /\ attTerm' = (attTerm \/ ~terminal)
    /\ UNCHANGED <<caller, pc, fut, task, attempt, rounds, err, transport,
                   cancelled, terminal, pending, cancelAfter, expired, inTime>>

(* The callback of a call that was cancelled with its awaiter. *)
NativeCancelled ==
    /\ native = "cancelling"
    /\ native' = "cancelled"
    /\ attTerm' = (attTerm \/ ~terminal)
    /\ UNCHANGED <<caller, pc, fut, task, attempt, rounds, err, transport,
                   cancelled, terminal, pending, cancelAfter, expired, inTime>>

(* Mutant: wrapper cancellation replaces a completed result. *)
AwaitNativeNoRecovery(published) == TRUE

(* _await_native_call lets a cancellation through only when the attempt has  *)
(* not been published as complete.                                           *)
AwaitNativeRaises(published) == ~published

(* Mutant: the transport of a cancelled call is returned to the pool. *)
CancelledAttemptReturns == Release(FALSE)

(* The except CancelledError branch of _retry_loop. *)
CancelledAttempt == Release(TRUE)

(* CancelledError reaches the coroutine at an await: it ends authentication  *)
(* or an unfinished native call; the completion of a success is shielded.    *)
CancelDelivered ==
    /\ task = "posted"
    /\ task' = "taken"
    /\ \/ /\ pc = "auth"
          /\ err' = "cancelledError" /\ pc' = "unwind"
          /\ UNCHANGED <<native, transport>>
       \/ /\ pc = "calling" /\ AwaitNativeRaises(attTerm)
          /\ native' = IF native = "open" THEN "cancelling" ELSE native
          /\ CancelledAttempt
          /\ err' = "cancelledError" /\ pc' = "unwind"
       \/ /\ (pc = "calling" /\ ~AwaitNativeRaises(attTerm)) \/ pc = "complete"
          /\ UNCHANGED <<pc, native, err, transport>>
    /\ UNCHANGED <<caller, fut, attempt, rounds, flags, inTime>>

(* The locked section after a successful await of the native call. *)
PublishSuccess ==
    /\ terminal' = TRUE /\ attTerm' = FALSE
    /\ cancelled' = (cancelled /\ ~cancelAfter)
    /\ cancelAfter' = FALSE
    /\ UNCHANGED <<pending, expired>>

NativeSucceeded ==
    /\ pc = "calling" /\ native = "ok"
    /\ PublishSuccess
    /\ pc' = "complete"
    /\ UNCHANGED <<caller, fut, task, native, attempt, rounds, err, transport, inTime>>

(* The error of an attempt does not decide the request yet: the call, or its *)
(* authorization, may be retried.                                            *)
Undecided(error) ==
    /\ inTime
    /\ \/ error \in Retriable /\ attempt < env.retries
       \/ env.auth /\ error \in Unauthenticated

(* The except AioRpcError branch classifies the error ...                    *)
NativeFails ==
    /\ pc = "calling" /\ native \in NativeErrors
    /\ err' = native /\ inTime' = ~Late
    /\ pc' = "failed"
    /\ UNCHANGED <<caller, fut, task, native, attempt, rounds, transport, flags>>

(* ... and publishes it under the lock.                                      *)
NativeFailed ==
    /\ pc = "failed"
    /\ LET undecided == Undecided(err)
       IN  /\ terminal' = TRUE
           /\ attTerm' = (env.auth /\ inTime /\ err \in Unauthenticated)
           /\ pending' = undecided
           /\ cancelled' = (cancelled /\ ~(cancelAfter /\ ~undecided))
           /\ cancelAfter' = (cancelAfter /\ undecided)
    /\ pc' = "except"
    /\ UNCHANGED <<caller, fut, task, native, attempt, rounds, err, inTime, transport, expired>>

(* _complete_authoritative_success *)
Complete ==
    /\ pc = "complete"
    /\ Release(FALSE)
    /\ Finish("ok")
    /\ UNCHANGED <<caller, task, native, attempt, rounds, err, flags, inTime>>

CompletionFails(error) ==
    /\ pc = "complete" /\ env.wrapperFails
    /\ err' = error /\ pc' = "except"
    /\ UNCHANGED <<caller, fut, task, native, attempt, rounds, transport, flags, inTime>>

(* cancelled_during_decision *)
StopRetry(retry, done) == retry /\ done /\ pending /\ cancelled

(* retry, as the locked section of the except Exception branch leaves it. *)
MayRetry ==
    /\ inTime /\ err \in Retriable /\ attempt < env.retries
    /\ ~(expired /\ ~pending)

(* The except Exception branch of _retry_loop looks at the clock, and then   *)
(* decides under the lock.                                                   *)
Except ==
    /\ pc = "except"
    /\ inTime' = ~Late
    /\ pc' = "decide"
    /\ UNCHANGED <<caller, fut, task, native, attempt, rounds, err, transport, flags>>

(* The end of the handler: retry, stop for a cancellation that was accepted  *)
(* meanwhile, or raise; the transport is kept only for a retry.              *)
Decide ==
    /\ pc = "decide"
    /\ LET deferred == env.auth /\ err \in Unauthenticated
           done == terminal \/ attTerm
           retry == MayRetry
           stopped == StopRetry(retry, done)
       IN  /\ terminal' = (done /\ (~retry \/ stopped))
           /\ attTerm' = (attTerm /\ deferred)
           /\ pending' = (pending /\ deferred)
           /\ cancelAfter' = (cancelAfter /\ ~(done /\ ~deferred))
           /\ cancelled' = (cancelled /\ ~(done /\ ~retry /\ ~deferred))
           /\ inTime' = TRUE
           /\ \/ /\ stopped
                 /\ Release(TRUE)
                 /\ err' = "isCancelled" /\ pc' = "unwind"
              \/ /\ retry /\ ~stopped
                 /\ pc' = "loop"
                 /\ UNCHANGED <<err, transport>>
              \/ /\ ~retry /\ Late /\ err \in NativeErrors  \* no request id came back
                 /\ Release(TRUE)
                 /\ pc' = "raised"
                 /\ UNCHANGED err
              \/ /\ ~retry
                 /\ IF deferred THEN UNCHANGED transport ELSE Release(FALSE)
                 /\ pc' = "raised"
                 /\ UNCHANGED err
    /\ UNCHANGED <<caller, fut, task, native, attempt, rounds, expired>>

Outcomes == NativeErrors \cup {"ok"}

LoopStep ==
    \/ Start \/ NeverStarts \/ AuthTop \/ Authenticated \/ AuthenticationFails
    \/ AuthorizationReceives \/ AuthorizationDecides \/ Unwind \/ TopOfLoop \/ Send \/ OpenCall \/ CancelDelivered
    \/ NativeSucceeded \/ NativeFails \/ NativeFailed \/ Complete \/ Except \/ Decide
    \/ \E e \in {"local", "localRetry"} : CompletionFails(e)

CallerStep ==
    \/ Submit \/ SubmitRejected \/ Cancel \/ WaiterCancelled \/ WaitExpires \/ WaitReturns
    \/ ShutdownCancels

NativeStep == (\E o \in Outcomes : NativeDone(o)) \/ NativeCancelled

RequestNext == LoopStep \/ CallerStep \/ NativeStep \/ RequestClock \/ AuthorizationClock

RequestSpec == RequestInit /\ [][RequestNext]_requestVars

(* gRPC ends a call whose timeout has run out. *)
NativeTimesOut == reqLate /\ NativeDone("unavailable")

(* Clocks advance, woken callers resume and gRPC enforces timeouts; each of  *)
(* these happens finitely often, so one fairness condition serves them all.  *)
Advances == NativeTimesOut \/ WaitReturns \/ WaitExpires \/ RequestClock \/ AuthorizationClock

(* The loop runs what is ready.  The server owes nothing: a call without     *)
(* timeout may never end.                                                    *)
Fairness == WF_requestVars(LoopStep) /\ WF_requestVars(Advances)

FairSpec == RequestSpec /\ Fairness

-----------------------------------------------------------------------------
(* The variables of a request have the values the code gives them. *)
RequestTypeOK ==
    /\ env \in EnvType
    /\ pc \in Steps
    /\ fut \in {"none", "pending"} \cup Settled
    /\ task \in {"no", "posted", "taken"}
    /\ native \in {"none", "open", "cancelling", "cancelled"} \cup Outcomes
    /\ attempt \in 0..env.retries /\ rounds \in 0..MaxRounds
    /\ err \in Errors
    /\ lease \in {"none", "pooled", "override"}
    /\ {inTime, dirty, cancelled, terminal, pending, attTerm, cancelAfter, expired, reqLate, authLate} \subseteq BOOLEAN
    /\ waiter \in {"no", "waiting", "outcome", "expired", "answered", "left"}

(* request.done() *)
Done == (terminal /\ ~pending) \/ fut \in Settled

(* However a request ends - success, any error, cancellation before or after *)
(* its start, a rejected submission - its transport has been given back.     *)
NoLeak == pc \in {"end", "rejected"} => lease = "none"

(* _release_grpc_channel never returns for reuse a transport whose call is   *)
(* still running; such a transport is discarded.                             *)
CleanReturn == ~dirty

(* A request gives its transport back, and clean: NoLeak and CleanReturn.    *)
TransportKept == NoLeak /\ CleanReturn

(* An attempt that finished with a response decides the request: neither     *)
(* cancel(), nor an expiring wait, nor a closing SDK turns it into a         *)
(* cancellation (docstring of Request.cancel).                               *)
KeepsSuccess ==
        (fut = "pending" /\ native = "ok" /\ pc \in {"calling", "complete"}) =>
            /\ fut' # "cancelled"
            /\ pc' \in {"end", "unwind"} => fut' = "ok"

(* A request that succeeded does not report cancelled(), although cancel()   *)
(* may have accepted an intent before the success was classified.            *)
SucceedsPlain == fut' = "ok" => ~cancelled'

(* A cancellation accepted while a native call is running settles the handle *)
(* at once, so that the call is cancelled with its task.                     *)
ReachesCall == (native = "open" /\ ~cancelled /\ cancelled') => fut' # "pending"

(* Cancellation and success of a request exclude each other, whichever side  *)
(* of _future_lock comes first: KeepsSuccess, SucceedsPlain and ReachesCall  *)
(* in every step.                                                            *)
OutcomeStep == KeepsSuccess /\ SucceedsPlain /\ ReachesCall
OutcomeKept == [][OutcomeStep]_requestVars

(* done() is final, except that a response whose processing failed may be    *)
(* requested again and that an UNAUTHENTICATED answer may be classified      *)
(* after the request budget ran out.                                         *)
StaysDone == (Done /\ ~env.wrapperFails /\ ~(env.auth /\ reqLate)) => Done'

(* An accepted cancellation settles the request, and a settled request gives *)
(* its transport back, although the server never answers - unless SDK close  *)
(* has spent the one cancellation of the task.                               *)
ToEnd == fut \in Settled \/ (cancelled /\ fut = "pending")
EndedClean == fut # "pending" /\ (env.closing \/ lease = "none")
CancelEnds == ToEnd ~> EndedClean

(* A caller that waits with a deadline is answered although the server never *)
(* answers.                                                                  *)
Waiting == env.timed /\ waiter = "waiting"
WaiterAnswered == Waiting ~> ~Waiting
=============================================================================
