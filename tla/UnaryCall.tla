------------------------------ MODULE UnaryCall ------------------------------
(***************************************************************************)
(* The call object that a generated stub returns, _CrossLoopUnaryUnaryCall *)
(* (src/nebius/aio/channel.py): its coroutine _invoke on the SDK loop,     *)
(* threads that await the call, cancel it or read its status, and an SDK   *)
(* that closes meanwhile.  The sides meet in _terminal_lock, so a locked   *)
(* section is a step.  Of the terminal values only the status code is      *)
(* kept; the debug string matters only as the awaitable that may be left.  *)
(***************************************************************************)
CONSTANTS
    UnaryEnvs    \* circumstances of a call: [debug, closing: BOOLEAN, reads: {"code", "connection"}]

VARIABLES
    uenv,
    step,       \* where _invoke is
    result,     \* how the task of _invoke ended
    handle,     \* _submitted
    signal,     \* task.cancel(): "no", "posted" to the loop, "taken"
    rpc,        \* the native call
    leased,     \* the transport: "none", "held", "returned" or "discarded"
    published,  \* _call is not None
    ready,      \* _call_ready
    rpcDone,    \* _rpc_done
    termReady,  \* _terminal_ready
    natEnded,   \* _native_terminal
    asked,      \* _cancel_requested
    code,       \* _terminal["code"]
    debug,      \* _pending_debug_result
    captured,   \* _terminal_capture_closed
    awaiter,    \* a task that awaits the call
    reader,     \* a task in code() or wait_for_connection()
    got,        \* what the reader was given
    sdk         \* "open" or "closing"

gates == <<ready, rpcDone, termReady>>
others == <<uenv, awaiter, reader, got, sdk>>
unaryVars == <<step, result, handle, signal, rpc, leased, published, gates, natEnded, asked, code, debug,
               captured, others>>

RpcEnded == {"ok", "error", "cancelled"}
Settled == {"ok", "error", "cancelled"}

UnaryInit ==
    /\ uenv \in UnaryEnvs
    /\ step = "queued" /\ result = "none" /\ handle = "pending" /\ signal = "no"
    /\ rpc = "none" /\ leased = "none" /\ published = FALSE
    /\ ready = FALSE /\ rpcDone = FALSE /\ termReady = FALSE
    /\ natEnded = FALSE /\ asked = FALSE /\ code = "none" /\ debug = "none" /\ captured = FALSE
    /\ awaiter = "no" /\ reader = "no" /\ got = "none" /\ sdk = "open"

(* _publish_rpc_done, _publish_terminal_ready and the event _call_ready. *)
OpenGates == ready' = TRUE /\ rpcDone' = TRUE /\ termReady' = TRUE

(* The handle is settled, and its callback _submission_finished opens the    *)
(* gates of a call that was never created.                                   *)
SettleHandle(outcome) ==
    /\ handle' = outcome
    /\ IF published
       THEN UNCHANGED <<code, gates>>
       ELSE /\ code' = IF outcome = "cancelled" THEN "cancelled" ELSE code
            /\ OpenGates

(* The finally block of _invoke. *)
Finally(outcome, status, discard) ==
    /\ step' = "over" /\ result' = outcome
    /\ code' = status
    /\ leased' = IF leased # "held" THEN leased ELSE IF discard THEN "discarded" ELSE "returned"
    /\ captured' = TRUE /\ debug' = "none"
    /\ OpenGates

-----------------------------------------------------------------------------
(* The SDK loop *)

(* start_on_loop of the submission; the task factory may refuse. *)
StartTask ==
    /\ step = "queued"
    /\ \/ /\ handle = "pending"
          /\ step' = "created"
          /\ UNCHANGED <<handle, code, gates>>
       \/ /\ handle = "pending"
          /\ step' = "end"
          /\ SettleHandle("error")
       \/ /\ handle # "pending"
          /\ step' = "end"
          /\ UNCHANGED <<handle, code, gates>>
    /\ UNCHANGED <<result, signal, rpc, leased, published, natEnded, asked, debug, captured, others>>

(* The task is cancelled before its first step: no block of _invoke runs. *)
NeverStarts ==
    /\ step = "created" /\ signal = "posted"
    /\ signal' = "taken" /\ step' = "over" /\ result' = "cancelled"
    /\ UNCHANGED <<handle, rpc, leased, published, gates, natEnded, asked, code, debug, captured, others>>

(* Resolving the address or leasing its transport fails. *)
NoTransport ==
    /\ step = "created"
    /\ Finally("error", code, TRUE)
    /\ UNCHANGED <<handle, signal, rpc, published, natEnded, asked, others>>

(* A transport leased for a call cancelled meanwhile is discarded at once.   *)
Lease ==
    /\ step = "created"
    /\ \/ /\ ~asked
          /\ leased' = "held" /\ step' = "opening"
          /\ UNCHANGED <<result, code, captured, debug, gates>>
       \/ /\ asked
          /\ step' = "over" /\ result' = "cancelled" /\ code' = "cancelled"
          /\ leased' = "discarded"
          /\ captured' = TRUE /\ debug' = "none"
          /\ OpenGates
    /\ UNCHANGED <<handle, signal, rpc, published, natEnded, asked, others>>

(* The native call is created, or that fails; a call cancelled meanwhile is  *)
(* cancelled and not published.                                              *)
Open ==
    /\ step = "opening"
    /\ \/ /\ ~asked
          /\ rpc' = "open" /\ published' = TRUE /\ ready' = TRUE /\ step' = "calling"
          /\ UNCHANGED <<result, leased, rpcDone, termReady, code, captured, debug>>
       \/ /\ asked
          /\ rpc' = "cancelling"
          /\ Finally("cancelled", "cancelled", TRUE)
          /\ UNCHANGED published
       \/ /\ Finally("error", code, TRUE)
          /\ UNCHANGED <<rpc, published>>
    /\ UNCHANGED <<handle, signal, natEnded, asked, others>>

(* _mark_native_terminal, the done callback of a published call: an async    *)
(* debug accessor becomes a task that someone has to await or dispose of.    *)
MarkTerminal ==
    /\ natEnded' = TRUE /\ rpcDone' = TRUE
    /\ debug' = IF uenv.debug /\ ~captured THEN "pending" ELSE debug
    /\ UNCHANGED <<ready, termReady>>

(* Every task of the loop but _invoke waits while _invoke does not await. *)
LoopFree == step # "opening"

RpcEnds(outcome) ==
    /\ rpc = "open" /\ LoopFree
    /\ rpc' = outcome
    /\ MarkTerminal
    /\ UNCHANGED <<step, result, handle, signal, leased, published, asked, code, captured, others>>

RpcCancelled ==
    /\ rpc = "cancelling" /\ LoopFree
    /\ rpc' = "cancelled"
    /\ IF published THEN MarkTerminal ELSE UNCHANGED <<natEnded, debug, gates>>
    /\ UNCHANGED <<step, result, handle, signal, leased, published, asked, code, captured, others>>

(* "await call" ends; the wrapper goes on to copy the terminal values. *)
AwaitCallEnds ==
    /\ step = "calling" /\ rpc \in {"ok", "error"}
    /\ natEnded' = TRUE /\ rpcDone' = TRUE
    /\ result' = rpc /\ step' = "capturing"
    /\ UNCHANGED <<handle, signal, rpc, leased, published, ready, termReady, asked, code, debug, captured, others>>

(* Mutant: a cancellation replaces an outcome the native call has reached. *)
RecoversNever == FALSE

(* A cancelled await recovers the outcome if the done callback came first. *)
Recovers == natEnded

(* The loop delivers task.cancel().  While the terminal values are copied    *)
(* the cancellation is absorbed.                                             *)
CancelDelivered ==
    /\ signal = "posted" /\ signal' = "taken"
    /\ \/ /\ step = "calling" /\ ~Recovers
          /\ rpc' = IF rpc = "open" THEN "cancelling" ELSE rpc
          /\ natEnded' = TRUE
          /\ Finally("cancelled", "cancelled", TRUE)
       \/ /\ step \in {"capturing", "over", "end"} \/ (step = "calling" /\ Recovers)
          /\ UNCHANGED <<step, result, rpc, leased, natEnded, code, captured, debug, gates>>
    /\ UNCHANGED <<handle, published, asked, others>>

(* _capture_authoritative_terminal ends and with it _invoke. *)
Capture ==
    /\ step = "capturing"
    /\ Finally(result, result, result # "ok")
    /\ UNCHANGED <<handle, signal, rpc, published, natEnded, asked, others>>

(* copy_outcome of the submission *)
CopyOutcome ==
    /\ step = "over" /\ step' = "end"
    /\ IF handle = "pending" THEN SettleHandle(result) ELSE UNCHANGED <<handle, code, gates>>
    /\ UNCHANGED <<result, signal, rpc, leased, published, natEnded, asked, debug, captured, others>>

-----------------------------------------------------------------------------
(* Other threads *)

(* The submission is cancelled; a task that exists is told so. *)
CancelHandle ==
    IF handle = "pending"
    THEN /\ SettleHandle("cancelled")
         /\ signal' = IF step # "queued" /\ signal = "no" THEN "posted" ELSE signal
    ELSE UNCHANGED <<handle, code, gates, signal>>

(* cancel(), refused once the native call has ended. *)
CancelCall ==
    IF natEnded
    THEN UNCHANGED <<handle, code, gates, signal, asked>>
    ELSE asked' = TRUE /\ CancelHandle

Cancel ==
    /\ ~natEnded
    /\ CancelCall
    /\ UNCHANGED <<step, result, rpc, leased, published, natEnded, debug, captured, others>>

ClosingBegins ==
    /\ uenv.closing /\ sdk = "open"
    /\ sdk' = "closing"
    /\ UNCHANGED <<step, result, handle, signal, rpc, leased, published, gates, natEnded, asked, code, debug,
                   captured, uenv, awaiter, reader, got>>

(* cancel_submissions: tasks are cancelled, handles without one settled. *)
ShutdownCancels ==
    /\ sdk = "closing" /\ LoopFree
    /\ \/ /\ step \in {"created", "calling", "capturing"} /\ signal = "no"
          /\ signal' = "posted"
          /\ UNCHANGED <<handle, code, gates>>
       \/ /\ step = "queued" /\ handle = "pending"
          /\ CancelHandle
    /\ UNCHANGED <<step, result, rpc, leased, published, natEnded, asked, debug, captured, others>>

coroutine == <<step, result, rpc, leased, published, natEnded, debug, captured>>
call == <<handle, code, gates, signal, asked>>

Await ==
    /\ awaiter = "no" /\ awaiter' = "waiting"
    /\ UNCHANGED <<coroutine, call, uenv, reader, got, sdk>>

(* _await_submitted resumes with the handle, and waits for the terminal      *)
(* values unless it was cancelled.                                           *)
AwaitResumes ==
    /\ awaiter = "waiting" /\ handle \in Settled
    /\ IF handle = "cancelled"
       THEN awaiter' = "cancelled" /\ CancelCall
       ELSE awaiter' = "gate" /\ UNCHANGED call
    /\ UNCHANGED <<coroutine, uenv, reader, got, sdk>>

AwaitReturns ==
    /\ awaiter = "gate" /\ termReady
    /\ awaiter' = "returned"
    /\ UNCHANGED <<coroutine, call, uenv, reader, got, sdk>>

(* The awaiting task is cancelled, which cancels the call for everyone. *)
AwaiterCancelled ==
    /\ awaiter \in {"waiting", "gate"} /\ awaiter' = "cancelled"
    /\ IF awaiter = "waiting" THEN CancelCall ELSE UNCHANGED call
    /\ UNCHANGED <<coroutine, uenv, reader, got, sdk>>

-----------------------------------------------------------------------------
(* A reader: _public_call_result, on the SDK loop _call_result *)

Known == code # "none" /\ uenv.reads = "code"

Answer(value) == reader' = "returned" /\ got' = value

(* The cache answers; otherwise the SDK runs the accessor or, closing,       *)
(* refuses to.                                                               *)
Read ==
    /\ reader = "no"
    /\ \/ Known /\ Answer(code)
       \/ ~Known /\ sdk = "open" /\ reader' = "queued" /\ UNCHANGED got
       \/ ~Known /\ sdk = "closing" /\ reader' = "refused" /\ UNCHANGED got
    /\ UNCHANGED <<coroutine, call, uenv, awaiter, sdk>>

(* The accessor on the loop waits for the call and then for its value. *)
ReaderRuns ==
    /\ LoopFree
    /\ \/ /\ reader = "queued" /\ Known
          /\ Answer(code)
       \/ /\ reader = "queued" /\ ~Known
          /\ reader' = "forCall" /\ UNCHANGED got
       \/ /\ reader = "forCall" /\ ready
          /\ reader' = IF published THEN "forRpc" ELSE "forHandle"
          /\ UNCHANGED got
       \/ /\ reader = "forRpc" /\ rpc \in RpcEnded
          /\ Answer(rpc)
       \/ /\ reader = "forHandle" /\ handle \in Settled
          /\ reader' = IF handle = "ok" THEN "internal" ELSE "raised"
          /\ UNCHANGED got
    /\ UNCHANGED <<coroutine, call, uenv, awaiter, sdk>>

(* A refused reader waits for _terminal_ready, then for the handle. *)
RefusedResumes == reader = "refused" /\ termReady

ReaderRefused ==
    /\ \/ RefusedResumes /\ Known /\ Answer(code)
       \/ RefusedResumes /\ ~Known /\ reader' = "owner" /\ UNCHANGED got
       \/ /\ reader = "owner" /\ handle = "ok" /\ uenv.reads = "connection"
          /\ Answer("ok")
       \/ /\ reader = "owner" /\ handle \in Settled
          /\ ~(handle = "ok" /\ uenv.reads = "connection")
          /\ reader' = IF handle = "ok" THEN "internal" ELSE "raised"
          /\ UNCHANGED got
    /\ UNCHANGED <<coroutine, call, uenv, awaiter, sdk>>

(* The reader is cancelled by its caller or by shutdown; one that awaits the *)
(* handle directly takes the submission along.                               *)
ReaderCancelled ==
    /\ reader \in {"queued", "forCall", "forRpc", "forHandle", "refused", "owner"}
    /\ reader' = "cancelled"
    /\ IF reader = "forHandle" THEN CancelHandle /\ UNCHANGED asked ELSE UNCHANGED call
    /\ UNCHANGED <<coroutine, uenv, awaiter, got, sdk>>

-----------------------------------------------------------------------------
(* What the loop and woken tasks do; a native call is not bound to end. *)
UnaryProgress ==
    \/ StartTask \/ NeverStarts \/ Lease \/ Open \/ AwaitCallEnds \/ CancelDelivered \/ Capture \/ CopyOutcome
    \/ RpcCancelled \/ AwaitResumes \/ AwaitReturns \/ ReaderRuns \/ ReaderRefused

UnaryNext ==
    \/ UnaryProgress \/ NoTransport \/ (\E o \in {"ok", "error"} : RpcEnds(o))
    \/ Cancel \/ ClosingBegins \/ ShutdownCancels \/ Await \/ AwaiterCancelled \/ Read \/ ReaderCancelled

UnarySpec == UnaryInit /\ [][UnaryNext]_unaryVars /\ WF_unaryVars(UnaryProgress)

(* The variables of a call have the values the code gives them. *)
UnaryTypeOK ==
    /\ uenv \in UnaryEnvs
    /\ step \in {"queued", "created", "opening", "calling", "capturing", "over", "end"}
    /\ result \in {"none"} \cup Settled /\ handle \in {"pending"} \cup Settled
    /\ signal \in {"no", "posted", "taken"}
    /\ rpc \in {"none", "open", "cancelling"} \cup RpcEnded
    /\ leased \in {"none", "held", "returned", "discarded"}
    /\ {published, ready, rpcDone, termReady, natEnded, asked, captured} \subseteq BOOLEAN
    /\ code \in {"none"} \cup Settled /\ got \in {"none"} \cup Settled
    /\ debug \in {"none", "pending"}
    /\ awaiter \in {"no", "waiting", "gate", "returned", "cancelled"}
    /\ reader \in {"no", "queued", "forCall", "forRpc", "forHandle", "refused", "owner",
                   "returned", "raised", "cancelled", "internal"}

(* A finished call has given its transport back, and only a transport whose  *)
(* call ended well goes back to the pool.                                    *)
TransportGivenBack ==
    /\ step \in {"over", "end"} => leased # "held" /\ rpc # "open"
    /\ leased = "returned" => rpc = "ok"

(* A task that got the result finds the call done and its status cached; a   *)
(* reader, also one that the closing SDK refused, is given that status or    *)
(* the error of the call, never one of the accessor's own RuntimeErrors; and *)
(* no debug accessor is left unobserved.                                     *)
StatusConsistent ==
    /\ awaiter = "returned" => rpcDone /\ (handle = "ok" => code = "ok")
    /\ reader # "internal"
    /\ reader = "returned" /\ code # "none" /\ uenv.reads = "code" => got = code
    /\ captured => debug = "none"

(* The status of a call is cached once, and the outcome of a native call     *)
(* that ended before a cancellation was accepted reaches the handle          *)
(* (cancel(), "The method rejects cancellation after the native RPC ends").  *)
UnaryKeeps ==
    /\ code # "none" => code' = code
    /\ natEnded /\ rpc \in {"ok", "error"} /\ handle = "pending" => handle' \in {"pending", rpc}

(* Once a call is settled its gates open, its native call is cancelled if it *)
(* still ran, and whoever waits for it is answered.                          *)
UnaryEnding == handle \in Settled
UnaryEnded ==
    /\ ready /\ rpcDone /\ termReady
    /\ rpc \notin {"open", "cancelling"} /\ leased # "held"
    /\ awaiter \notin {"waiting", "gate"}
    /\ reader \in {"no", "returned", "raised", "cancelled"}
UnaryEnds == UnaryEnding ~> UnaryEnded
=============================================================================
