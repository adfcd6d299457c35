----------------------------- MODULE Submission -----------------------------
(***************************************************************************)
(* AsyncRuntime.submit and what becomes of the submitted work              *)
(* (src/nebius/aio/_runtime.py).  A caller thread admits an awaitable,     *)
(* tracks its handle and posts start_on_loop to the event loop; the loop   *)
(* creates a task; the task's outcome is copied to the handle's concurrent *)
(* future.  Any thread may cancel the handle meanwhile, the event loop may *)
(* be shutting the SDK down (cancel_submissions), and the loop may be      *)
(* closed under the SDK's feet.                                            *)
(*                                                                         *)
(* The ready queue of the event loop is a sequence: asyncio runs callbacks *)
(* first in, first out, and the drain relies on it.  What a task body does *)
(* is left open: it may return at any time, react to cancellation with a   *)
(* finalizer, or call Channel.close.                                       *)
(***************************************************************************)
EXTENDS Naturals, Sequences

CONSTANTS
    Subs,           \* the submissions
    None,           \* no submission
    EagerTasks,     \* the loop has an eager task factory
    FactoryMayFail, \* the loop's task factory may raise
    LoopMayClose,   \* a caller-owned loop may be closed at any time
    FinalizerMayClose  \* the finalizer of a cancelled task may call Channel.close

ASSUME SubmissionAssumption ==
    /\ None \notin Subs
    /\ {EagerTasks, FactoryMayFail, LoopMayClose, FinalizerMayClose} \subseteq BOOLEAN

VARIABLES
    loopUp,     \* the event loop accepts and runs callbacks
    accepting,  \* _accepting
    admitting,  \* the submission whose thread holds _shutdown_lock, or None
    ready,      \* the loop's ready queue, of <<kind, submission>>
    starting,   \* start_claimed: the submission start_on_loop is creating a task for
    fut,        \* the handle's concurrent future
    started,    \* run() has taken the work
    disposed,   \* the work was disposed of without being run
    task,       \* the asyncio task
    requested,  \* _task_cancellation_requested
    cancels,    \* how often task.cancel() was called, up to 2
    canceller,  \* progress of the thread whose future.cancel() was accepted
    tracked,    \* _submissions
    protected,  \* _protected_submissions
    shielded,   \* _protected_tasks, by their submissions
    drain,      \* progress of cancel_submissions
    waiting     \* the tasks or submissions cancel_submissions is working on

handle == <<fut, started, disposed, canceller, tracked>>
tasks == <<task, requested, cancels, protected, shielded>>
closing == <<drain, waiting>>
vars == <<loopUp, accepting, admitting, ready, starting, handle, tasks, closing>>

Init ==
    /\ loopUp = TRUE /\ accepting = TRUE /\ admitting = None
    /\ ready = <<>> /\ starting = None
    /\ fut = [s \in Subs |-> "none"]
    /\ started = {} /\ disposed = {}
    /\ task = [s \in Subs |-> "none"]
    /\ requested = {}
    /\ cancels = [s \in Subs |-> 0]
    /\ canceller = [s \in Subs |-> "no"]
    /\ tracked = {} /\ protected = {} /\ shielded = {}
    /\ drain = "no" /\ waiting = {}

Post(item) == ready' = Append(ready, item)

(* The loop thread is between two callbacks. *)
LoopFree == loopUp /\ starting = None /\ drain # "sweep"

(* The loop runs the callback at the head of its queue. *)
Runs(item) == LoopFree /\ ready # <<>> /\ Head(ready) = item

(* _run_awaitable has entered the task in _active_tasks and not yet removed it. *)
Active(s) == task[s] \in {"running", "closing", "unwinding", "lateClose"}

(* The variable task of _submit_to_loop is set, between the second section of *)
(* start_on_loop and copy_outcome.                                            *)
Published(s) == task[s] \notin {"none", "gone"} /\ starting # s

-----------------------------------------------------------------------------
(* Admission, in the submitting thread, under _shutdown_lock *)

Reject(s) ==
    /\ admitting = None /\ fut[s] = "none" /\ s \notin disposed
    /\ ~accepting \/ ~loopUp
    /\ disposed' = disposed \cup {s}
    /\ UNCHANGED <<loopUp, accepting, admitting, ready, starting, fut, started, canceller, tracked, tasks, closing>>

Admit(s) ==
    /\ admitting = None /\ fut[s] = "none" /\ s \notin disposed
    /\ accepting /\ loopUp
    /\ admitting' = s
    /\ fut' = [fut EXCEPT ![s] = "pending"]
    /\ tracked' = tracked \cup {s}
    /\ UNCHANGED <<loopUp, accepting, ready, starting, started, disposed, canceller, tasks, closing>>

Dispatch(s) ==
    /\ admitting = s /\ loopUp
    /\ Post(<<"start", s>>)
    /\ admitting' = None
    /\ UNCHANGED <<loopUp, accepting, starting, handle, tasks, closing>>

(* call_soon_threadsafe raises: the handle is cancelled on the spot, its     *)
(* callbacks run here, and submit disposes of the work.                      *)
DispatchFails(s) ==
    /\ admitting = s /\ ~loopUp
    /\ admitting' = None
    /\ disposed' = disposed \cup {s}
    /\ fut' = [fut EXCEPT ![s] = "cancelled"]
    /\ tracked' = tracked \ {s}
    /\ UNCHANGED <<loopUp, accepting, ready, starting, started, canceller, tasks, closing>>

-----------------------------------------------------------------------------
(* CrossLoopAwaitable.cancel from a thread of the application: the future is *)
(* cancelled, then its callbacks run, forward_cancellation first. Nobody     *)
(* holds the handle before submit has returned.                              *)

CancelHandle(s) ==
    /\ fut[s] = "pending" /\ admitting # s
    /\ fut' = [fut EXCEPT ![s] = "cancelled"]
    /\ canceller' = [canceller EXCEPT ![s] = "forward"]
    /\ UNCHANGED <<loopUp, accepting, admitting, ready, starting, started, disposed, tracked, tasks, closing>>

(* Mutant: start_claimed is not looked at. *)
DisposableUnclaimed(s) == ~Published(s) /\ s \notin started /\ s \notin disposed

Disposable(s) == ~Published(s) /\ starting # s /\ s \notin started /\ s \notin disposed

(* Mutant: only unstarted work is dealt with. *)
ForwardDisposesOnly(s) ==
    /\ disposed' = IF Disposable(s) THEN disposed \cup {s} ELSE disposed
    /\ UNCHANGED ready

(* The state_lock section of forward_cancellation and its consequence. *)
Forward(s) ==
    \/ /\ Disposable(s)
       /\ disposed' = disposed \cup {s}
       /\ UNCHANGED ready
    \/ /\ ~Disposable(s) /\ Published(s) /\ loopUp
       /\ Post(<<"cancel", s>>)
       /\ UNCHANGED disposed
    \/ /\ ~Disposable(s) /\ ~(Published(s) /\ loopUp)
       /\ UNCHANGED <<ready, disposed>>

ForwardCancellation(s) ==
    /\ canceller[s] = "forward"
    /\ Forward(s)
    /\ canceller' = [canceller EXCEPT ![s] = "discard"]
    /\ UNCHANGED <<loopUp, accepting, admitting, starting, fut, started, tracked, tasks, closing>>

DiscardSubmission(s) ==
    /\ canceller[s] = "discard"
    /\ tracked' = tracked \ {s}
    /\ protected' = protected \ {s}
    /\ canceller' = [canceller EXCEPT ![s] = "done"]
    /\ UNCHANGED <<loopUp, accepting, admitting, ready, starting, fut, started, disposed, task, requested, cancels, shielded, closing>>

-----------------------------------------------------------------------------
(* start_on_loop *)

(* Its first section: skip cancelled work, else reserve it. *)
StartSkip(s) ==
    /\ Runs(<<"start", s>>)
    /\ fut[s] = "cancelled" \/ s \in disposed
    /\ disposed' = disposed \cup {s}
    /\ ready' = Tail(ready)
    /\ UNCHANGED <<loopUp, accepting, admitting, starting, fut, started, canceller, tracked, tasks, closing>>

StartClaim(s) ==
    /\ Runs(<<"start", s>>)
    /\ fut[s] # "cancelled" /\ s \notin disposed
    /\ starting' = s
    /\ ready' = Tail(ready)
    /\ UNCHANGED <<loopUp, accepting, admitting, handle, tasks, closing>>

(* create_task: the first step of the task is posted, or an eager factory    *)
(* runs it at once, up to its first suspension or its end.                   *)
CreateTask(s) ==
    /\ starting = s /\ task[s] = "none"
    /\ \/ /\ Post(<<"step", s>>)
          /\ task' = [task EXCEPT ![s] = "queued"]
          /\ UNCHANGED started
       \/ /\ EagerTasks
          /\ started' = started \cup {s}
          /\ \E end \in {"running", "ended"} : task' = [task EXCEPT ![s] = end]
          /\ UNCHANGED ready
    /\ UNCHANGED <<loopUp, accepting, admitting, starting, fut, disposed, canceller, tracked, requested, cancels,
                   protected, shielded, closing>>

(* The task factory raises before the work is started. *)
CreateFails(s) ==
    /\ FactoryMayFail /\ starting = s /\ task[s] = "none"
    /\ starting' = None
    /\ disposed' = disposed \cup {s}
    /\ task' = [task EXCEPT ![s] = "gone"]
    /\ fut' = [fut EXCEPT ![s] = IF @ = "pending" THEN "finished" ELSE @]
    /\ tracked' = IF fut[s] = "pending" THEN tracked \ {s} ELSE tracked
    /\ UNCHANGED <<loopUp, accepting, admitting, ready, started, canceller, requested, cancels, protected, shielded,
                   closing>>

(* _cancel_task_once, for a set of tasks. *)
CancelOnce(S) ==
    LET hit == {s \in S : task[s] \notin {"none", "ended", "gone"} /\ s \notin requested} IN
    /\ requested' = requested \cup hit
    /\ cancels' = [s \in Subs |-> IF s \in hit /\ cancels[s] < 2 THEN cancels[s] + 1 ELSE cancels[s]]

(* Mutant: the handle is not looked at again. *)
StartPublishBlindly(s) ==
    /\ starting = s /\ task[s] # "none"
    /\ starting' = None
    /\ IF task[s] = "ended" THEN Post(<<"outcome", s>>) ELSE UNCHANGED ready
    /\ UNCHANGED <<loopUp, accepting, admitting, handle, tasks, closing>>

(* The second section publishes the task and notices a cancellation that     *)
(* came too early for forward_cancellation to see the task.                  *)
StartPublish(s) ==
    /\ starting = s /\ task[s] # "none"
    /\ starting' = None
    /\ CancelOnce(IF fut[s] = "cancelled" THEN {s} ELSE {})
    /\ IF task[s] = "ended" THEN Post(<<"outcome", s>>) ELSE UNCHANGED ready
    /\ UNCHANGED <<loopUp, accepting, admitting, handle, task, protected, shielded, closing>>

RunCancel(s) ==
    /\ Runs(<<"cancel", s>>)
    /\ ready' = Tail(ready)
    /\ CancelOnce({s})
    /\ UNCHANGED <<loopUp, accepting, admitting, starting, handle, task, protected, shielded, closing>>

-----------------------------------------------------------------------------
(* The task *)

(* The end of a task: _run_awaitable forgets it, asyncio posts copy_outcome. *)
End(s) ==
    /\ task' = [task EXCEPT ![s] = "ended"]
    /\ requested' = requested \ {s}
    /\ shielded' = shielded \ {s}
    /\ Post(<<"outcome", s>>)
    /\ UNCHANGED <<cancels, protected>>

(* The first step runs the work, or ends a task cancelled before it began:   *)
(* then run() never starts and _run_awaitable never forgets the task.        *)
FirstStep(s) ==
    /\ Runs(<<"step", s>>)
    /\ \/ /\ s \notin requested
          /\ started' = started \cup {s}
          /\ task' = [task EXCEPT ![s] = "running"]
          /\ ready' = Tail(ready)
       \/ /\ s \in requested
          /\ task' = [task EXCEPT ![s] = "ended"]
          /\ ready' = Append(Tail(ready), <<"outcome", s>>)
          /\ UNCHANGED started
    /\ UNCHANGED <<loopUp, accepting, admitting, starting, fut, disposed, canceller, tracked, requested, cancels,
                   protected, shielded, closing>>

(* The body returns or raises. *)
Return(s) ==
    /\ LoopFree /\ task[s] = "running"
    /\ End(s)
    /\ UNCHANGED <<loopUp, accepting, admitting, starting, handle, closing>>

(* CancelledError reaches the body, and its finalizers run to their end. *)
Unwind(s) ==
    /\ LoopFree /\ task[s] \in {"running", "closing"} /\ s \in requested
    /\ task' = [task EXCEPT ![s] = "unwinding"]
    /\ UNCHANGED <<loopUp, accepting, admitting, ready, starting, handle, requested, cancels, protected, shielded,
                   closing>>

Unwound(s) ==
    /\ LoopFree /\ task[s] = "unwinding"
    /\ End(s)
    /\ UNCHANGED <<loopUp, accepting, admitting, starting, handle, closing>>

(* Channel.close called by the body: protect_current_submission, then the    *)
(* shared close handle, submitted unless it already was; the task waits for  *)
(* it. One call for each task bounds the model.                              *)
CallClose(s) ==
    /\ LoopFree /\ s \notin shielded
    /\ drain = "no" => accepting /\ admitting = None
    /\ \/ /\ task[s] = "running" /\ s \notin requested
          /\ task' = [task EXCEPT ![s] = "closing"]
       \/ /\ task[s] = "unwinding" /\ FinalizerMayClose
          /\ task' = [task EXCEPT ![s] = "lateClose"]
    /\ protected' = protected \cup (tracked \cap {s})
    /\ shielded' = shielded \cup {s}
    /\ IF drain = "no"
       THEN drain' = "queued" /\ Post(<<"close", None>>)
       ELSE UNCHANGED <<drain, ready>>
    /\ UNCHANGED <<loopUp, accepting, admitting, starting, handle, requested, cancels, waiting>>

(* close returns to its caller, which goes on until it waits again. *)
CloseReturns(s) ==
    /\ LoopFree /\ task[s] \in {"closing", "lateClose"} /\ drain = "done"
    /\ task' = [task EXCEPT ![s] = IF @ = "closing" THEN "running" ELSE "unwinding"]
    /\ Post(<<"returning", s>>)
    /\ UNCHANGED <<loopUp, accepting, admitting, starting, handle, requested, cancels, protected, shielded, closing>>

(* _cancel_returning_task *)
CancelReturning(s) ==
    /\ Runs(<<"returning", s>>)
    /\ ready' = Tail(ready)
    /\ CancelOnce(IF s \in shielded /\ fut[s] # "cancelled" THEN {s} ELSE {})
    /\ UNCHANGED <<loopUp, accepting, admitting, starting, handle, task, protected, shielded, closing>>

(* copy_outcome: dispose of work that never started and publish the outcome  *)
(* unless the handle was cancelled first.                                    *)
CopyOutcome(s) ==
    /\ Runs(<<"outcome", s>>)
    /\ ready' = Tail(ready)
    /\ task' = [task EXCEPT ![s] = "gone"]
    /\ disposed' = IF s \in started THEN disposed ELSE disposed \cup {s}
    /\ IF fut[s] = "pending"
       THEN /\ \E end \in IF s \in started THEN {"finished", "cancelled"} ELSE {"cancelled"} :
                  fut' = [fut EXCEPT ![s] = end]
            /\ tracked' = tracked \ {s}
            /\ protected' = protected \ {s}
       ELSE UNCHANGED <<fut, tracked, protected>>
    /\ UNCHANGED <<loopUp, accepting, admitting, starting, started, canceller, requested, cancels, shielded, closing>>

-----------------------------------------------------------------------------
(* Closing the channel: _get_close_handle, then begin_close, then            *)
(* cancel_submissions on the loop.                                           *)

RequestClose ==
    /\ drain = "no" /\ accepting /\ loopUp /\ admitting = None
    /\ drain' = "queued"
    /\ Post(<<"close", None>>)
    /\ UNCHANGED <<loopUp, accepting, admitting, starting, handle, tasks, waiting>>

BeginClose ==
    /\ drain # "no" /\ accepting /\ admitting = None
    /\ accepting' = FALSE
    /\ UNCHANGED <<loopUp, admitting, ready, starting, handle, tasks, closing>>

(* start_on_loop for the close submission: its task, too, takes its first     *)
(* step from the ready queue.                                                 *)
StartClose ==
    /\ Runs(<<"close", None>>)
    /\ drain' = "created"
    /\ ready' = Append(Tail(ready), <<"drain", None>>)
    /\ UNCHANGED <<loopUp, accepting, admitting, starting, handle, tasks, waiting>>

Unprotected == {s \in Subs : Active(s) /\ s \notin shielded}

(* Cancel the active tasks, then wait for them. *)
DrainStart ==
    /\ Runs(<<"drain", None>>) /\ drain = "created" /\ admitting = None
    /\ accepting' = FALSE
    /\ CancelOnce(Unprotected)
    /\ waiting' = Unprotected
    /\ IF Unprotected = {}
       THEN drain' = "yield1" /\ ready' = Append(Tail(ready), <<"drain", None>>)
       ELSE drain' = "gather1" /\ ready' = Tail(ready)
    /\ UNCHANGED <<loopUp, admitting, starting, handle, task, protected, shielded>>

Gathered == LoopFree /\ \A s \in waiting : task[s] = "gone"

DrainYield ==
    /\ drain = "gather1" /\ Gathered
    /\ drain' = "yield1"
    /\ Post(<<"drain", None>>)
    /\ UNCHANGED <<loopUp, accepting, admitting, starting, handle, tasks, waiting>>

(* After sleep(0), cancel the handles that are left. *)
SweepStart ==
    /\ Runs(<<"drain", None>>) /\ drain = "yield1"
    /\ drain' = "sweep"
    /\ waiting' = tracked \ protected
    /\ ready' = Tail(ready)
    /\ UNCHANGED <<loopUp, accepting, admitting, starting, handle, tasks>>

Sweep(s) ==
    /\ drain = "sweep" /\ s \in waiting
    /\ waiting' = waiting \ {s}
    /\ IF fut[s] = "pending"
       THEN /\ fut' = [fut EXCEPT ![s] = "cancelled"]
            /\ Forward(s)
            /\ tracked' = tracked \ {s}
            /\ protected' = protected \ {s}
       ELSE UNCHANGED <<fut, ready, disposed, tracked, protected>>
    /\ UNCHANGED <<loopUp, accepting, admitting, starting, started, canceller, task, requested, cancels, shielded,
                   drain>>

SweepDone ==
    /\ drain = "sweep" /\ waiting = {}
    /\ drain' = "yield2"
    /\ Post(<<"drain", None>>)
    /\ UNCHANGED <<loopUp, accepting, admitting, starting, handle, tasks, waiting>>

(* Mutant: protected tasks are awaited as well. *)
DrainRestOfAll ==
    /\ Runs(<<"drain", None>>) /\ drain = "yield2"
    /\ drain' = "gather2"
    /\ waiting' = {s \in Subs : Active(s)}
    /\ ready' = Tail(ready)
    /\ UNCHANGED <<loopUp, accepting, admitting, starting, handle, tasks>>

(* After another sleep(0), wait for whatever started meanwhile. *)
DrainRest ==
    /\ Runs(<<"drain", None>>) /\ drain = "yield2"
    /\ drain' = "gather2"
    /\ waiting' = Unprotected
    /\ ready' = Tail(ready)
    /\ UNCHANGED <<loopUp, accepting, admitting, starting, handle, tasks>>

DrainDone ==
    /\ drain = "gather2" /\ Gathered
    /\ drain' = "done"
    /\ UNCHANGED <<loopUp, accepting, admitting, ready, starting, handle, tasks, waiting>>

CloseLoop ==
    /\ LoopMayClose /\ LoopFree
    /\ loopUp' = FALSE
    /\ UNCHANGED <<accepting, admitting, ready, starting, handle, tasks, closing>>

(* Every submission is settled and the drain is over or cannot happen. *)
Terminated ==
    /\ \A s \in Subs : /\ fut[s] = "none" => s \in disposed
                       /\ fut[s] # "pending" \/ ~loopUp
                       /\ canceller[s] \in {"no", "done"}
                       /\ task[s] \in {"none", "gone"} \/ ~loopUp
    /\ ~loopUp \/ (drain = "done" /\ ready = <<>>)
    /\ admitting = None
    /\ UNCHANGED vars

-----------------------------------------------------------------------------
CallerStep(s) ==
    \/ Reject(s) \/ Admit(s) \/ Dispatch(s) \/ DispatchFails(s)
    \/ CancelHandle(s) \/ ForwardCancellation(s) \/ DiscardSubmission(s)

StartStep(s) ==
    \/ StartSkip(s) \/ StartClaim(s) \/ CreateTask(s) \/ CreateFails(s) \/ StartPublish(s)

CallbackStep(s) ==
    RunCancel(s) \/ FirstStep(s) \/ CancelReturning(s) \/ CopyOutcome(s)

BodyStep(s) ==
    Return(s) \/ Unwind(s) \/ Unwound(s) \/ CallClose(s) \/ CloseReturns(s)

DrainStep ==
    \/ StartClose \/ DrainStart \/ DrainYield \/ SweepStart \/ (\E s \in Subs : Sweep(s))
    \/ SweepDone \/ DrainRest \/ DrainDone

Next ==
    \/ \E s \in Subs : CallerStep(s) \/ StartStep(s) \/ CallbackStep(s) \/ BodyStep(s)
    \/ RequestClose \/ BeginClose \/ DrainStep \/ CloseLoop
    \/ Terminated

Spec == Init /\ [][Next]_vars

(* What the loop thread does unprompted: its callbacks, the drain, and the   *)
(* resumption of bodies that were cancelled or whose close has finished.     *)
LoopStep ==
    \/ \E s \in Subs : StartStep(s) \/ CallbackStep(s) \/ Unwind(s) \/ Unwound(s) \/ CloseReturns(s)
    \/ DrainStep

(* Threads finish what they began and the loop thread keeps running; nothing *)
(* makes an uncancelled body return.                                         *)
Fairness ==
    /\ \A s \in Subs :
          WF_vars(Dispatch(s) \/ DispatchFails(s) \/ ForwardCancellation(s) \/ DiscardSubmission(s))
    /\ WF_vars(BeginClose)
    /\ WF_vars(LoopStep)

FairSpec == Spec /\ Fairness

-----------------------------------------------------------------------------
Items == ({"start", "step", "cancel", "returning", "outcome"} \X Subs) \cup ({"close", "drain"} \X {None})

(* The shape of the runtime's and the handles' state. *)
TypeOK ==
    /\ {loopUp, accepting} \subseteq BOOLEAN
    /\ admitting \in Subs \cup {None} /\ starting \in Subs \cup {None}
    /\ ready \in Seq(Items)
    /\ fut \in [Subs -> {"none", "pending", "cancelled", "finished"}]
    /\ task \in [Subs -> {"none", "queued", "running", "closing", "unwinding", "lateClose", "ended", "gone"}]
    /\ cancels \in [Subs -> 0..2]
    /\ canceller \in [Subs -> {"no", "forward", "discard", "done"}]
    /\ started \subseteq Subs /\ disposed \subseteq Subs /\ requested \subseteq Subs
    /\ tracked \subseteq Subs /\ protected \subseteq Subs /\ shielded \subseteq Subs
    /\ waiting \subseteq Subs
    /\ drain \in {"no", "queued", "created", "gather1", "yield1", "sweep", "yield2", "gather2", "done"}

(* Work handed to submit is run or disposed of, never both: the coroutine is *)
(* not closed under a task that has begun to run it.                         *)
RunOrDisposed == started \cap disposed = {}

(* No work is forgotten: once its handle is settled and nobody is about to   *)
(* act on it, it was run or disposed of.                                     *)
NothingForgotten ==
    \A s \in Subs :
        (/\ loopUp /\ fut[s] \in {"cancelled", "finished"}
         /\ canceller[s] \in {"no", "discard", "done"}
         /\ admitting # s /\ starting # s /\ task[s] \in {"none", "gone"})
        => s \in started \cup disposed

(* When cancel_submissions returns, no task runs but those of protected      *)
(* close callers, and no handle is left pending but theirs.                  *)
Drained ==
    drain = "done" /\ loopUp =>
        \A s \in Subs \ shielded :
            task[s] \in {"none", "ended", "gone"} /\ (fut[s] = "pending" => s \in protected)

(* Work handed to submit is run once or disposed of, and neither forgotten    *)
(* nor left behind by a close: RunOrDisposed, NothingForgotten and Drained,   *)
(* with the type invariant.                                                   *)
WorkAccounted == TypeOK /\ RunOrDisposed /\ NothingForgotten /\ Drained

(* A cancelled handle always reaches the task: it has been or will be        *)
(* cancelled, whichever of start_on_loop and forward_cancellation came first. *)
CancelNotLost ==
    \A s \in Subs :
        fut[s] = "cancelled" /\ loopUp /\ task[s] \in {"queued", "running", "closing"}
        => \/ s \in requested
           \/ canceller[s] = "forward" \/ starting = s
           \/ \E i \in DOMAIN ready : ready[i] = <<"cancel", s>>

(* The handle, close and close-return edges together inject one CancelledError *)
(* at most, so that an asynchronous finalizer is not interrupted.              *)
CancelledOnce == \A s \in Subs : cancels[s] <= 1

(* A cancellation reaches its task, and once: CancelNotLost, CancelledOnce.   *)
CancelledExactly == CancelNotLost /\ CancelledOnce

(* Once close has begun it drains. *)
DrainCompletes == drain # "no" ~> drain = "done"

(* Tasks whose handle is cancelled end, all of them. *)
CancelledEnds ==
    LET Unended(s) == fut[s] = "cancelled" /\ task[s] \notin {"none", "gone"} IN
    (\E s \in Subs : Unended(s)) ~> (\A s \in Subs : ~Unended(s))

(* Draining and cancelling come to an end: DrainCompletes and CancelledEnds.  *)
SubmissionsEnd == DrainCompletes /\ CancelledEnds

(* SDK work that calls close on the internal loop gets past its await, also   *)
(* when several pieces of work do.                                            *)
CloseCallerReturns ==
    (\E s \in Subs : task[s] \in {"closing", "lateClose"}) ~> (\A s \in Subs : task[s] \notin {"closing", "lateClose"})
=============================================================================
