-------------------------------- MODULE Stream --------------------------------
(***************************************************************************)
(* One streaming call (src/nebius/aio/stream.py) on a channel of the SDK.  *)
(* Operations (a read, a write, the awaited result of a client stream, an  *)
(* aclose) are submitted to the SDK loop by callers on any thread; the     *)
(* first to get there starts the native call under _start_lock.  cancel()  *)
(* may come from any thread: it sets a flag under _state_lock and submits  *)
(* the abort to the loop.                                                  *)
(*                                                                         *)
(* The part of _start between authentication and the published call has    *)
(* no await, so other loop work cannot run inside it, but cancel() of      *)
(* another thread can: it is two steps here.  Deadlines are one flag.      *)
(***************************************************************************)
EXTENDS Naturals

CONSTANTS
    Ops,          \* the operations a program performs on the stream
    None,
    StreamEnvs    \* per behaviour: the kind of each operation and the circumstances

StreamEnvType == [kind: [Ops -> {"read", "write", "result", "close"}],
                  override: {"none", "own", "foreign"},
                  auth: BOOLEAN, timed: BOOLEAN,
                  closing: BOOLEAN]     \* the channel may close meanwhile

VARIABLES
    senv,
    op,           \* where each operation is
    ans,          \* what its caller got
    posted,       \* operations whose task was cancelled
    holder,       \* the holder of _start_lock, or None
    startEntered, \* _start_entered
    startErr,     \* _start_error
    address,      \* _address_channel: "none", "pooled", "override"
    released,     \* _released
    releases,     \* how often a transport of this stream was given back
    unclean,      \* a transport was returned for reuse under a running call
    nat,          \* the native call
    natTerm,      \* _native_terminal
    opened,       \* how many native calls were started
    cancelReq,    \* _cancel_requested
    aborted,      \* _cancelled
    event,        \* _cancel_event
    canceller,    \* the thread in cancel(): "no", "flagged"
    abort,        \* submissions of _aclose by cancel() that have not run
    closed,       \* the channel rejects submissions
    slate         \* the applicable deadline has passed

flags == <<cancelReq, aborted, event, canceller, abort>>
ops == <<op, ans, posted>>
starting == <<holder, startEntered, startErr>>
leasing == <<address, released, releases, unclean>>
calling == <<nat, natTerm, opened>>
vars == <<senv, ops, starting, leasing, calling, flags, closed, slate>>

Busy == {"queued", "lock", "auth", "ready", "addressed", "incall"}

Init ==
    /\ senv \in StreamEnvs
    /\ op = [o \in Ops |-> "idle"] /\ ans = [o \in Ops |-> "none"] /\ posted = {}
    /\ holder = None /\ startEntered = FALSE /\ startErr = FALSE
    /\ address = (IF senv.override = "none" THEN "none" ELSE "override")
    /\ released = FALSE /\ releases = 0 /\ unclean = FALSE
    /\ nat = "none" /\ natTerm = FALSE /\ opened = 0
    /\ cancelReq = FALSE /\ aborted = FALSE /\ event = FALSE
    /\ canceller = "no" /\ abort = 0
    /\ closed = FALSE /\ slate = FALSE

Flagged == cancelReq \/ aborted
Running == nat \in {"open", "cancelling"}

(* The loop is not inside the await-free part of _start. *)
LoopFree == \A o \in Ops : op[o] \notin {"ready", "addressed"}

(* _release and _release_soon: the first to claim the lease gives it back. *)
Release(discard) ==
    IF released \/ address = "none" THEN UNCHANGED leasing
    ELSE /\ released' = TRUE
         /\ releases' = releases + 1
         /\ unclean' = (unclean \/ (~discard /\ Running))
         /\ UNCHANGED address

(* _abort *)
Abort ==
    /\ aborted' = TRUE /\ event' = TRUE
    /\ nat' = IF nat = "open" THEN "cancelling" ELSE nat
    /\ Release(TRUE)

(* The submitted coroutine of o ends, and its caller unless already gone; a  *)
(* caller that gets CancelledError still has to go through cancel().         *)
End(o, answer) ==
    /\ op' = [op EXCEPT ![o] = "ended"]
    /\ ans' = [ans EXCEPT ![o] = IF @ # "none" THEN @
                                  ELSE IF answer = "cancelled" THEN "unwinding" ELSE answer]

-----------------------------------------------------------------------------
(* cancel(), on any thread: the locked section, then the submission. *)

(* cancel() returns at once: it came before, or there is nothing to cancel.  *)
CancelIdle == Flagged \/ released \/ (natTerm /\ \E o \in Ops : senv.kind[o] = "result")

RequestCancel ==
    \/ CancelIdle /\ UNCHANGED <<cancelReq, canceller>>
    \/ /\ ~CancelIdle /\ canceller = "no"
       /\ cancelReq' = TRUE /\ canceller' = "flagged"

Cancel ==
    /\ ~CancelIdle /\ RequestCancel
    /\ UNCHANGED <<senv, ops, starting, leasing, calling, aborted, event, abort, closed, slate>>

(* Mutant: the abort is not submitted. *)
CancelSubmitForgets ==
    /\ canceller = "flagged"
    /\ canceller' = "no"
    /\ UNCHANGED <<senv, ops, starting, leasing, calling, cancelReq, aborted, event, abort, closed, slate>>

CancelSubmit ==
    /\ canceller = "flagged"
    /\ canceller' = "no"
    /\ \/ /\ ~closed
          /\ abort' = abort + 1
          /\ UNCHANGED <<leasing, cancelReq>>
       \/ /\ closed          \* rejected: release here, cancellation stays retryable
          /\ Release(TRUE)
          /\ cancelReq' = FALSE
          /\ UNCHANGED abort
    /\ UNCHANGED <<senv, ops, starting, calling, aborted, event, closed, slate>>

AbortRuns ==
    /\ abort > 0 /\ LoopFree
    /\ abort' = abort - 1
    /\ Abort
    /\ UNCHANGED <<senv, ops, starting, natTerm, opened, cancelReq, canceller, closed, slate>>

(* _cancel_submission_finished: the channel closed before the abort ran. *)
AbortDropped ==
    /\ abort > 0 /\ closed
    /\ abort' = abort - 1
    /\ cancelReq' = (cancelReq /\ released) /\ aborted' = (aborted /\ released)
    /\ UNCHANGED <<senv, ops, starting, leasing, calling, event, canceller, closed, slate>>

-----------------------------------------------------------------------------
(* _on_sdk_loop, the caller's side *)

Call(o) ==
    /\ op[o] = "idle" /\ ~closed
    /\ op' = [op EXCEPT ![o] = "queued"]
    /\ UNCHANGED <<senv, ans, posted, starting, leasing, calling, flags, closed, slate>>

(* The submission is rejected: only a stream nobody has started is released, *)
(* unless a close was rejected, which aborts on the owner loop.              *)
CallRejected(o) ==
    /\ op[o] = "idle" /\ closed /\ LoopFree
    /\ End(o, "error")
    /\ \/ /\ ~startEntered
          /\ Release(TRUE)
          /\ UNCHANGED <<aborted, event, nat>>
       \/ startEntered /\ senv.kind[o] = "close" /\ Abort
       \/ /\ startEntered /\ senv.kind[o] # "close"
          /\ UNCHANGED <<leasing, aborted, event, nat>>
    /\ UNCHANGED <<senv, posted, starting, natTerm, opened, cancelReq, canceller, abort, closed, slate>>

(* The caller is cancelled or its deadline passes: it leaves, its task is    *)
(* cancelled, and it goes through cancel().                                  *)
Leaves(o, answer) ==
    /\ op[o] \in Busy /\ ans[o] = "none"
    /\ answer = "timeout" => slate /\ senv.kind[o] # "close"
    /\ ans' = [ans EXCEPT ![o] = answer]
    /\ posted' = posted \cup {o}
    /\ RequestCancel
    /\ UNCHANGED <<senv, op, starting, leasing, calling, aborted, event, abort, closed, slate>>

(* The caller of a task that the runtime cancelled. *)
Unwinds(o) ==
    /\ ans[o] = "unwinding"
    /\ ans' = [ans EXCEPT ![o] = "cancelled"]
    /\ RequestCancel
    /\ UNCHANGED <<senv, op, posted, starting, leasing, calling, aborted, event, abort, closed, slate>>

(* cancel_submissions of a closing channel cancels the task only. *)
ShutdownCancels(o) ==
    /\ closed /\ op[o] \in Busy /\ o \notin posted
    /\ posted' = posted \cup {o}
    /\ UNCHANGED <<senv, op, ans, starting, leasing, calling, flags, closed, slate>>

ChannelCloses ==
    /\ senv.closing /\ ~closed
    /\ closed' = TRUE
    /\ UNCHANGED <<senv, ops, starting, leasing, calling, flags, slate>>

DeadlinePasses ==
    /\ senv.timed /\ ~slate /\ \E o \in Ops : op[o] # "idle"
    /\ slate' = TRUE
    /\ UNCHANGED <<senv, ops, starting, leasing, calling, flags, closed>>

-----------------------------------------------------------------------------
(* On the SDK loop: start_operation and _start *)

Proceeds(o, step) == op[o] = step /\ o \notin posted /\ LoopFree

Dispatched(o) ==
    /\ Proceeds(o, "queued") /\ senv.kind[o] # "close"
    /\ \/ /\ slate          \* too late: the operation is disposed of
          /\ cancelReq' = TRUE /\ aborted' = TRUE
          /\ Release(TRUE)
          /\ End(o, "timeout")
          /\ UNCHANGED startEntered
       \/ /\ ~slate
          /\ startEntered' = TRUE
          /\ \/ /\ nat # "none" /\ ~startErr
                /\ op' = [op EXCEPT ![o] = "incall"]
                /\ UNCHANGED ans
             \/ startErr /\ End(o, "error")
             \/ /\ nat = "none" /\ ~startErr
                /\ op' = [op EXCEPT ![o] = "lock"]
                /\ UNCHANGED ans
          /\ UNCHANGED <<leasing, cancelReq, aborted>>
    /\ UNCHANGED <<senv, posted, holder, startErr, calling, event, canceller, abort, closed, slate>>

(* aclose disregards the deadline unless it has passed before dispatch. *)
CloseRuns(o) ==
    /\ Proceeds(o, "queued") /\ senv.kind[o] = "close"
    /\ \/ /\ slate
          /\ cancelReq' = TRUE /\ aborted' = TRUE
          /\ Release(TRUE)
          /\ End(o, "timeout")
          /\ UNCHANGED <<event, nat>>
       \/ ~slate /\ Abort /\ End(o, "ok") /\ UNCHANGED cancelReq
    /\ UNCHANGED <<senv, posted, starting, natTerm, opened, canceller, abort, closed, slate>>

(* Mutant: the call is not looked at again under the lock. *)
StartedBlind == FALSE

(* The second test of self._call, under _start_lock. *)
Started == nat # "none" /\ ~startErr

LockStart(o) ==
    /\ Proceeds(o, "lock") /\ holder = None
    /\ \/ /\ Started
          /\ op' = [op EXCEPT ![o] = "incall"]
          /\ UNCHANGED <<ans, holder>>
       \/ ~Started /\ startErr /\ End(o, "error") /\ UNCHANGED holder
       \/ ~Started /\ ~startErr /\ Flagged /\ End(o, "cancelled") /\ UNCHANGED holder
       \/ /\ ~Started /\ ~startErr /\ ~Flagged
          /\ holder' = o
          /\ op' = [op EXCEPT ![o] = IF senv.auth THEN "auth" ELSE "ready"]
          /\ UNCHANGED ans
    /\ UNCHANGED <<senv, posted, startEntered, startErr, leasing, calling, flags, closed, slate>>

(* The first except branch of _start. *)
SetupFails(o, answer) ==
    /\ holder' = None /\ startErr' = TRUE
    /\ Release(answer = "cancelled")
    /\ End(o, answer)
    /\ UNCHANGED startEntered

Authenticated(o) ==
    /\ Proceeds(o, "auth") /\ ~event
    /\ \/ /\ Flagged
          /\ SetupFails(o, "cancelled")
       \/ /\ ~Flagged
          /\ op' = [op EXCEPT ![o] = "ready"]
          /\ UNCHANGED <<ans, starting, leasing>>
    /\ UNCHANGED <<senv, posted, calling, flags, closed, slate>>

AuthenticationFails(o) ==
    /\ Proceeds(o, "auth") /\ ~event
    /\ SetupFails(o, IF slate THEN "timeout" ELSE "error")
    /\ UNCHANGED <<senv, posted, calling, flags, closed, slate>>

(* The cancel event wakes _authenticate. *)
AuthenticationCancelled(o) ==
    /\ Proceeds(o, "auth") /\ event
    /\ SetupFails(o, "cancelled")
    /\ UNCHANGED <<senv, posted, calling, flags, closed, slate>>

(* A lease is taken, and published unless the stream was cancelled since. *)
TakeAddress(o) ==
    /\ op[o] = "ready"
    /\ \/ /\ address # "none"
          /\ op' = [op EXCEPT ![o] = "addressed"]
          /\ UNCHANGED <<ans, holder, leasing>>
       \/ /\ address = "none"    \* the pool refuses
          /\ holder' = None
          /\ End(o, "error")
          /\ UNCHANGED leasing
       \/ /\ address = "none" /\ ~Flagged /\ ~released
          /\ address' = "pooled"
          /\ op' = [op EXCEPT ![o] = "addressed"]
          /\ UNCHANGED <<ans, holder, released, releases, unclean>>
       \/ /\ address = "none" /\ (Flagged \/ released)   \* handed back directly
          /\ holder' = None
          /\ End(o, "cancelled")
          /\ UNCHANGED leasing
    /\ UNCHANGED <<senv, posted, startEntered, startErr, calling, flags, closed, slate>>

(* publish_call *)
PublishCall == ~Flagged /\ ~released

OpenCall(o) ==
    /\ op[o] = "addressed"
    /\ holder' = None
    /\ \/ /\ senv.override = "foreign" \/ slate
          /\ startErr' = TRUE
          /\ Release(TRUE)
          /\ End(o, IF slate THEN "timeout" ELSE "error")
          /\ UNCHANGED <<nat, opened>>
       \/ /\ senv.override # "foreign" /\ ~slate
          /\ opened' = opened + 1
          /\ \/ /\ PublishCall
                /\ nat' = "open"
                /\ op' = [op EXCEPT ![o] = "incall"]
                /\ UNCHANGED <<ans, startErr, leasing>>
             \/ /\ ~PublishCall
                /\ startErr' = TRUE
                /\ Release(TRUE)
                /\ End(o, "cancelled")
                /\ UNCHANGED nat
    /\ UNCHANGED <<senv, posted, startEntered, natTerm, flags, closed, slate>>

-----------------------------------------------------------------------------
(* On the SDK loop: the native call and the operations that use it *)

NativeEnds(outcome) ==
    /\ nat = "open"
    /\ nat' = outcome /\ natTerm' = TRUE
    /\ UNCHANGED <<senv, ops, starting, leasing, opened, flags, closed, slate>>

NativeCancelled ==
    /\ nat = "cancelling"
    /\ nat' = "cancelled" /\ natTerm' = TRUE
    /\ UNCHANGED <<senv, ops, starting, leasing, opened, flags, closed, slate>>

(* A message is read or written; the stream goes on. *)
Transfers(o) ==
    /\ Proceeds(o, "incall") /\ senv.kind[o] \in {"read", "write"}
    /\ nat = "open" \/ (senv.kind[o] = "read" /\ nat = "ok")
    /\ End(o, "ok")
    /\ UNCHANGED <<senv, posted, starting, leasing, calling, flags, closed, slate>>

(* StopAsyncIteration, or the response of a client stream: the transport is  *)
(* returned for reuse.                                                       *)
Completes(o) ==
    /\ Proceeds(o, "incall") /\ senv.kind[o] \in {"read", "result"} /\ nat = "ok"
    /\ natTerm' = TRUE
    /\ Release(FALSE)
    /\ End(o, IF senv.kind[o] = "read" THEN "stop" ELSE "ok")
    /\ UNCHANGED <<senv, posted, starting, nat, opened, flags, closed, slate>>

(* The native call failed or was cancelled, or a write found it finished. *)
Fails(o) ==
    /\ Proceeds(o, "incall")
    /\ nat \in {"failed", "cancelled"} \/ (senv.kind[o] = "write" /\ nat = "ok")
    /\ Abort
    /\ End(o, "error")
    /\ UNCHANGED <<senv, posted, starting, natTerm, opened, cancelReq, canceller, abort, closed, slate>>

(* Mutant: a cancelled task gives up a response that has arrived. *)
ResultLost(o) == FALSE

(* _result_internal recovers a response that is complete. *)
ResultKnown(o) == senv.kind[o] = "result" /\ natTerm

(* CancelledError reaches a task at an await. *)
TaskCancelled(o) ==
    /\ o \in posted /\ LoopFree
    /\ \/ /\ op[o] \in {"queued", "lock"}
          /\ End(o, "cancelled")
          /\ posted' = posted
          /\ UNCHANGED <<starting, leasing, nat, aborted, event>>
       \/ /\ op[o] = "auth"
          /\ SetupFails(o, "cancelled")
          /\ UNCHANGED <<posted, nat, aborted, event>>
       \/ /\ op[o] = "incall" /\ ResultKnown(o)
          /\ posted' = posted \ {o}
          /\ UNCHANGED <<op, ans, starting, leasing, nat, aborted, event>>
       \/ /\ op[o] = "incall" /\ ~ResultKnown(o)
          /\ Abort
          /\ End(o, "cancelled")
          /\ UNCHANGED <<posted, starting>>
    /\ UNCHANGED <<senv, natTerm, opened, cancelReq, canceller, abort, closed, slate>>

-----------------------------------------------------------------------------
LoopStep ==
    \/ AbortRuns \/ AbortDropped
    \/ \E o \in Ops :
          \/ Dispatched(o) \/ CloseRuns(o) \/ LockStart(o) \/ TakeAddress(o) \/ OpenCall(o)
          \/ AuthenticationCancelled(o) \/ Completes(o) \/ Fails(o) \/ TaskCancelled(o)

CallerStep ==
    \/ Cancel \/ CancelSubmit
    \/ \E o \in Ops :
          \/ Call(o) \/ CallRejected(o) \/ Unwinds(o) \/ ShutdownCancels(o)
          \/ \E a \in {"timeout", "cancelled"} : Leaves(o, a)

Next ==
    \/ LoopStep \/ CallerStep \/ ChannelCloses \/ DeadlinePasses
    \/ NativeCancelled \/ \E r \in {"ok", "failed"} : NativeEnds(r)
    \/ \E o \in Ops : Authenticated(o) \/ AuthenticationFails(o) \/ Transfers(o)

Spec == Init /\ [][Next]_vars

(* gRPC ends a call whose timeout has run out. *)
NativeTimesOut == slate /\ NativeEnds("failed")

(* Clocks advance, callers finish what they are in the middle of, gRPC       *)
(* enforces timeouts and confirms a cancellation.                            *)
Advances ==
    \/ NativeCancelled \/ NativeTimesOut \/ DeadlinePasses
    \/ \E o \in Ops : Unwinds(o) \/ Leaves(o, "timeout")

(* The loop runs ready work.  Neither the server nor the authorization       *)
(* provider owes an answer.                                                  *)
Fairness == WF_vars(LoopStep) /\ WF_vars(Advances) /\ WF_vars(CancelSubmit)

FairSpec == Spec /\ Fairness

-----------------------------------------------------------------------------
(* The variables have the values the code gives them. *)
TypeOK ==
    /\ senv \in StreamEnvType
    /\ op \in [Ops -> Busy \cup {"idle", "ended"}]
    /\ ans \in [Ops -> {"none", "ok", "stop", "error", "timeout", "unwinding", "cancelled"}]
    /\ posted \subseteq Ops /\ holder \in Ops \cup {None}
    /\ {startEntered, startErr, released, unclean, natTerm, cancelReq, aborted, event, closed, slate} \subseteq BOOLEAN
    /\ address \in {"none", "pooled", "override"} /\ releases \in Nat
    /\ nat \in {"none", "open", "cancelling", "ok", "failed", "cancelled"}
    /\ opened \in Nat /\ abort \in 0..2
    /\ canceller \in {"no", "flagged"}

(* However many operations race to start the stream, at most one native call *)
(* is made for it.                                                           *)
OneNativeCall == opened <= 1

(* The transport of a stream is given back at most once, by whichever of     *)
(* completion, abort, a rejected task or a rejected cancel() comes first,    *)
(* and never for reuse while its call is running.                            *)
GivenBackOnce == releases <= 1 /\ ~unclean

(* A stream whose transport was given back has no native call that nobody    *)
(* will cancel: the abort that gave it back cancelled the call, or the call  *)
(* ends at the deadline or with the channel.                                 *)
NoOrphanCall == (released /\ nat = "open") => slate \/ closed

(* Once a stream is aborted and no start is under way, no transport is held. *)
AbortedHoldsNothing ==
    (aborted /\ \A o \in Ops : op[o] \notin {"auth", "ready", "addressed"}) =>
        released \/ address = "none" \/ closed

(* The response of a client stream that arrived is returned, although the    *)
(* SDK is closed before its task resumes.                                    *)
KeepsResult ==
    \A o \in Ops :
          (senv.kind[o] = "result" /\ op[o] = "incall" /\ nat = "ok" /\ ans[o] = "none") =>
              ans'[o] \notin {"error", "unwinding"}
ResultKept == [][KeepsResult]_vars

(* An accepted cancel() ends the native call and gives the transport back,   *)
(* although neither server nor authorization provider answers.               *)
ToCancel == cancelReq /\ ~closed
CancelledClean == closed \/ (nat # "open" /\ (released \/ address = "none"))
CancelCleansUp == ToCancel ~> CancelledClean

(* A caller with a deadline is answered. *)
Waiting == \E o \in Ops : senv.timed /\ op[o] \in Busy /\ senv.kind[o] # "close" /\ ans[o] = "none"
OperationAnswered == Waiting ~> ~Waiting
=============================================================================
