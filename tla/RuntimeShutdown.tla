--------------------------- MODULE RuntimeShutdown ---------------------------
(***************************************************************************)
(* Stopping an AsyncRuntime (src/nebius/aio/_runtime.py): shutdown_async,  *)
(* the preparation it dispatches to the event loop, the synchronous        *)
(* shutdown that ends it, and the fall-backs that take over when the loop  *)
(* stops first or a thread cannot be started.                              *)
(*                                                                         *)
(* The actors are the threads that can be inside shutdown(): callers of    *)
(* shutdown_async, the loop's thread, the finalizer that joins it, the     *)
(* watcher of a borrowed loop, and the fall-back threads.  The work being  *)
(* drained is one protected close caller and one executor call; Submission *)
(* has the rest.                                                           *)
(***************************************************************************)
EXTENDS Naturals

CONSTANTS
    Callers,          \* threads that call shutdown_async, once each
    Fallbacks,        \* threads for _start_shutdown_thread
    LoopThread, Finalizer, Watcher,
    Environments      \* the circumstances of the shutdown, see Environment

Actors == Callers \cup Fallbacks \cup {LoopThread, Finalizer, Watcher}

(* owned: the runtime owns its loop; starved: starting a thread or a task may *)
(* raise; stops: the loop may stop without the runtime asking for it;         *)
(* dependent: the executor call waits for work on the loop.                   *)
Environment == [owned : BOOLEAN, starved : BOOLEAN, stops : BOOLEAN, dependent : BOOLEAN]

ASSUME RuntimeShutdownAssumption ==
    /\ Environments \subseteq Environment
    /\ LoopThread # Finalizer /\ Finalizer # Watcher /\ LoopThread # Watcher
    /\ {LoopThread, Finalizer, Watcher} \cap (Callers \cup Fallbacks) = {}
    /\ Callers \cap Fallbacks = {}

VARIABLES
    env,        \* the environment, which does not change
    loop,       \* the event loop and, if owned, where run() is
    posted,     \* callbacks accepted by the loop and not yet run
    accepting,  \* _accepting
    preparing,  \* _shutdown_preparing
    abandoned,  \* _shutdown_dispatch_abandoned
    shutdown,   \* _shutdown
    failure,    \* _shutdown_failure is set
    complete,   \* _shutdown_complete
    recover,    \* the local variables of run()'s finally block
    prep,       \* where _prepare_shutdown is
    late,       \* its task was created while run() was draining the loop
    at,         \* where each actor is
    handle,     \* the result handle of each caller
    protected,  \* a protected submission that called close
    worker      \* a call in the owned executor

flags == <<accepting, preparing, abandoned, shutdown, failure, complete>>
vars == <<loop, posted, flags, recover, prep, late, at, handle, protected, worker>>

Owned == env.owned
StartsMayFail == env.starved
LoopMayStop == env.stops

Init ==
    /\ env \in Environments
    /\ loop = "running" /\ posted = {}
    /\ accepting = TRUE /\ preparing = FALSE /\ abandoned = FALSE
    /\ shutdown = FALSE /\ failure = FALSE /\ complete = "pending"
    /\ recover = FALSE
    /\ prep = "none" /\ late = FALSE
    /\ at = [t \in Actors |-> "idle"]
    /\ handle = [c \in Callers |-> "none"]
    /\ protected \in {"none", "closing"}
    /\ worker \in IF Owned THEN {"none", "running"} ELSE {"none"}

IsRunning == loop \in {"running", "draining"}
IsClosed == loop \in {"closed", "ended"}

(* The loop runs a callback or a task step. *)
LoopRuns == IsRunning /\ at[LoopThread] = "idle"

(* A thread that has not run yet; which one does not matter. *)
NewThread == {f \in Fallbacks : at[f] = "idle"}

(* _start_shutdown_thread, called by t, which goes on at next: a new thread   *)
(* runs shutdown(), or t does when no thread can be started.                  *)
StartShutdownThread(t, next) ==
    \/ /\ complete # "pending"
       /\ at' = [at EXCEPT ![t] = next]
    \/ /\ complete = "pending"
       /\ NewThread # {} /\ at' = [at EXCEPT ![CHOOSE f \in NewThread : TRUE] = "shutdown", ![t] = next]
    \/ /\ complete = "pending" /\ StartsMayFail
       /\ at' = [at EXCEPT ![t] = "shutdown"]

-----------------------------------------------------------------------------
(* shutdown_async, in a caller's thread *)

Ask(c) ==
    /\ at[c] = "idle"
    /\ IF ~preparing /\ ~shutdown
       THEN preparing' = TRUE /\ at' = [at EXCEPT ![c] = "begin"]
       ELSE UNCHANGED preparing /\ at' = [at EXCEPT ![c] = "returned"]
    /\ UNCHANGED <<loop, posted, accepting, abandoned, shutdown, failure, complete, recover, prep, late, handle, protected, worker>>

BeginClose(c) ==
    /\ at[c] = "begin"
    /\ accepting' = FALSE
    /\ at' = [at EXCEPT ![c] = "dispatch"]
    /\ UNCHANGED <<loop, posted, preparing, abandoned, shutdown, failure, complete, recover, prep, late, handle, protected, worker>>

(* The test of is_running. *)
Dispatch(c) ==
    /\ at[c] = "dispatch"
    /\ IF IsRunning THEN at' = [at EXCEPT ![c] = "post"] ELSE StartShutdownThread(c, "returned")
    /\ UNCHANGED <<loop, posted, flags, recover, prep, late, handle, protected, worker>>

(* A loop that was closed since then rejects the callback; one that merely    *)
(* stopped accepts it.                                                        *)
PostPreparation(c) ==
    /\ at[c] = "post"
    /\ IF IsClosed
       THEN StartShutdownThread(c, "returned") /\ UNCHANGED posted
       ELSE /\ posted' = posted \cup {"prepare"}
            /\ at' = [at EXCEPT ![c] = IF Owned THEN "returned" ELSE "watch"]
    /\ UNCHANGED <<loop, flags, recover, prep, late, handle, protected, worker>>

(* The daemon thread that takes over should a borrowed loop stop.             *)
StartWatch(c) ==
    /\ at[c] = "watch"
    /\ \/ /\ at' = [at EXCEPT ![c] = "returned", ![Watcher] = "watching"]
          /\ UNCHANGED abandoned
       \/ /\ StartsMayFail
          /\ abandoned' = TRUE
          /\ StartShutdownThread(c, "returned")
    /\ UNCHANGED <<loop, posted, accepting, preparing, shutdown, failure, complete, recover, prep, late, handle, protected, worker>>

WatchEnds ==
    /\ at[Watcher] = "watching" /\ complete # "pending"
    /\ at' = [at EXCEPT ![Watcher] = "returned"]
    /\ UNCHANGED <<loop, posted, flags, recover, prep, late, handle, protected, worker>>

WatchFallsBack ==
    /\ at[Watcher] = "watching" /\ complete = "pending" /\ ~IsRunning
    /\ abandoned' = TRUE
    /\ StartShutdownThread(Watcher, "returned")
    /\ UNCHANGED <<loop, posted, accepting, preparing, shutdown, failure, complete, recover, prep, late, handle, protected, worker>>

(* The handle is given to the caller, who may cancel it; publish_shutdown     *)
(* copies the completion into it.                                             *)
GiveHandle(c) ==
    /\ at[c] = "returned" /\ handle[c] = "none"
    /\ handle' = [handle EXCEPT ![c] = "pending"]
    /\ UNCHANGED <<loop, posted, flags, recover, prep, late, at, protected, worker>>

(* Mutant: a failed shutdown is reported as done. *)
PublishDone(c) ==
    /\ handle[c] = "pending" /\ complete # "pending"
    /\ handle' = [handle EXCEPT ![c] = "ok"]
    /\ UNCHANGED <<loop, posted, flags, recover, prep, late, at, protected, worker>>

PublishShutdown(c) ==
    /\ handle[c] = "pending" /\ complete # "pending"
    /\ handle' = [handle EXCEPT ![c] = complete]
    /\ UNCHANGED <<loop, posted, flags, recover, prep, late, at, protected, worker>>

CancelHandle(c) ==
    /\ handle[c] = "pending"
    /\ handle' = [handle EXCEPT ![c] = "cancelled"]
    /\ UNCHANGED <<loop, posted, flags, recover, prep, late, at, protected, worker>>

-----------------------------------------------------------------------------
(* _start_shutdown_preparation_on_loop and _prepare_shutdown *)

StartPreparation ==
    /\ LoopRuns /\ "prepare" \in posted
    /\ posted' = posted \ {"prepare"}
    /\ \/ /\ abandoned
          /\ UNCHANGED <<prep, late, at, abandoned, failure>>
       \/ /\ ~abandoned
          /\ prep' = "callers" /\ late' = (loop = "draining")
          /\ UNCHANGED <<at, abandoned, failure>>
       \/ /\ ~abandoned /\ StartsMayFail
          /\ abandoned' = TRUE /\ failure' = TRUE
          /\ StartShutdownThread(LoopThread, "idle")
          /\ UNCHANGED <<prep, late>>
    /\ UNCHANGED <<loop, accepting, preparing, shutdown, complete, recover, handle, protected, worker>>

Prepare(from, to) ==
    /\ LoopRuns /\ prep = from
    /\ prep' = to
    /\ UNCHANGED <<loop, posted, flags, recover, late, handle, protected, worker>>

(* Every protected close caller has come back from close. *)
CallersReturned ==
    /\ protected # "closing"
    /\ Prepare("callers", "gather") /\ UNCHANGED at

(* Their tasks have ended and published their results. *)
CallersEnded ==
    /\ protected \in {"none", "done"}
    /\ Prepare("gather", "drain") /\ UNCHANGED at

(* cancel_submissions has drained the rest; a borrowed loop is left alone. *)
Drained ==
    IF Owned THEN Prepare("drain", "executor") /\ UNCHANGED at
    ELSE Prepare("drain", "over") /\ at' = [at EXCEPT ![LoopThread] = "shutdown"]

(* Mutant: the default executor is left to be stopped after the loop. *)
ExecutorIgnored ==
    Prepare("executor", "over") /\ at' = [at EXCEPT ![LoopThread] = "shutdown"]

(* Raw tasks, asynchronous generators and the default executor are finished   *)
(* while the loop still runs.                                                 *)
ExecutorDrained ==
    /\ worker # "running"
    /\ Prepare("executor", "over") /\ at' = [at EXCEPT ![LoopThread] = "shutdown"]

(* The preparation fails: it is cancelled by run(), or a step of it raises.   *)
PreparationFails ==
    /\ LoopRuns /\ prep \notin {"none", "over"}
    /\ StartsMayFail \/ (loop = "draining" /\ ~late)
    /\ prep' = "over" /\ failure' = TRUE
    /\ StartShutdownThread(LoopThread, "idle")
    /\ UNCHANGED <<loop, posted, accepting, preparing, abandoned, shutdown, complete, recover, late, handle, protected, worker>>

-----------------------------------------------------------------------------
(* shutdown(), in actor t. The loop's thread goes back to its loop. *)

Back(t) == IF t = LoopThread THEN "idle" ELSE "returned"

(* The first to come does the work. Others wait for it, except on the loop's  *)
(* thread, which must not block.                                              *)
Shutdown(t) ==
    /\ at[t] = "shutdown"
    /\ shutdown' = TRUE
    /\ at' = [at EXCEPT ![t] = IF ~shutdown THEN "stop"
                               ELSE IF t = LoopThread THEN Back(t) ELSE "await"]
    /\ UNCHANGED <<loop, posted, accepting, preparing, abandoned, failure, complete, recover, prep, late, handle, protected, worker>>

Await(t) ==
    /\ at[t] = "await" /\ complete # "pending"
    /\ at' = [at EXCEPT ![t] = "returned"]
    /\ UNCHANGED <<loop, posted, flags, recover, prep, late, handle, protected, worker>>

(* Mutant: a finalizer thread does not wait for the loop. *)
StopWithoutJoin(t) ==
    /\ at[t] = "stop"
    /\ posted' = IF Owned /\ IsRunning THEN posted \cup {"stop"} ELSE posted
    /\ at' = [at EXCEPT ![t] = "complete"]
    /\ UNCHANGED <<loop, flags, recover, prep, late, handle, protected, worker>>

(* Pending handles are cancelled and an owned loop is told to stop. Its own   *)
(* thread cannot join itself and leaves the rest to a finalizer.              *)
Stop(t) ==
    /\ at[t] = "stop"
    /\ posted' = IF Owned /\ IsRunning THEN posted \cup {"stop"} ELSE posted
    /\ \/ /\ ~Owned
          /\ at' = [at EXCEPT ![t] = "complete"]
          /\ UNCHANGED failure
       \/ /\ Owned /\ t # LoopThread
          /\ at' = [at EXCEPT ![t] = "join"]
          /\ UNCHANGED failure
       \/ /\ Owned /\ t = LoopThread
          /\ at' = [at EXCEPT ![t] = Back(t), ![Finalizer] = "join"]
          /\ UNCHANGED failure
       \/ /\ Owned /\ t = LoopThread /\ StartsMayFail
          /\ failure' = TRUE
          /\ at' = [at EXCEPT ![t] = "complete"]
    /\ UNCHANGED <<loop, accepting, preparing, abandoned, shutdown, complete, recover, prep, late, handle, protected, worker>>

(* _finish_owned_shutdown *)
Join(t) ==
    /\ at[t] = "join" /\ loop = "ended"
    /\ at' = [at EXCEPT ![t] = "executor"]
    /\ UNCHANGED <<loop, posted, flags, recover, prep, late, handle, protected, worker>>

StopExecutor(t) ==
    /\ at[t] = "executor" /\ worker # "running"
    /\ at' = [at EXCEPT ![t] = "complete"]
    /\ UNCHANGED <<loop, posted, flags, recover, prep, late, handle, protected, worker>>

Complete(t) ==
    /\ at[t] = "complete"
    /\ complete' = IF complete # "pending" THEN complete ELSE IF failure THEN "failed" ELSE "ok"
    /\ at' = [at EXCEPT ![t] = Back(t)]
    /\ UNCHANGED <<loop, posted, accepting, preparing, abandoned, shutdown, failure, recover, prep, late, handle, protected, worker>>

ShutdownStep(t) == Shutdown(t) \/ Await(t) \/ Stop(t) \/ Join(t) \/ StopExecutor(t) \/ Complete(t)

-----------------------------------------------------------------------------
(* run() of an owned loop, and the fate of a borrowed one *)

RunStop ==
    /\ loop = "running" /\ LoopRuns /\ "stop" \in posted
    /\ loop' = "ending" /\ posted' = posted \ {"stop"}
    /\ UNCHANGED <<flags, recover, prep, late, at, handle, protected, worker>>

(* A callback stops the loop, or raises out of it. *)
StopUnasked ==
    /\ LoopMayStop /\ loop = "running" /\ LoopRuns
    /\ \/ Owned /\ loop' = "ending" /\ failure' \in {failure, TRUE}
       \/ ~Owned /\ loop' = "stopped" /\ UNCHANGED failure
    /\ UNCHANGED <<posted, accepting, preparing, abandoned, shutdown, complete, recover, prep, late, at, handle, protected, worker>>

CloseBorrowed ==
    /\ loop = "stopped" /\ loop' = "closed"
    /\ UNCHANGED <<posted, flags, recover, prep, late, at, handle, protected, worker>>

(* The finally block reads _shutdown and _shutdown_preparing under two locks. *)
RunReadsShutdown ==
    /\ loop = "ending" /\ loop' = "checking"
    /\ recover' = ~shutdown
    /\ UNCHANGED <<posted, flags, prep, late, at, handle, protected, worker>>

RunReadsPreparing ==
    /\ loop = "checking" /\ loop' = "draining"
    /\ recover' = (recover /\ preparing)
    /\ abandoned' = (abandoned \/ recover')
    /\ UNCHANGED <<posted, accepting, preparing, shutdown, failure, complete, prep, late, at, handle, protected, worker>>

(* _cancel_remaining_tasks, run until the tasks that existed when it began    *)
(* have ended, or until a late stop callback makes it raise.                  *)
RunCloses ==
    /\ loop = "draining" /\ LoopRuns
    /\ \/ /\ protected \in {"none", "done"} /\ (prep \in {"none", "over"} \/ late)
          /\ UNCHANGED <<failure, posted>>
       \/ /\ "stop" \in posted
          /\ posted' = posted \ {"stop"} /\ failure' = TRUE
    /\ loop' = "closed"
    /\ UNCHANGED <<accepting, preparing, abandoned, shutdown, complete, recover, prep, late, at, handle, protected, worker>>

RunRecovers ==
    /\ Owned /\ loop = "closed" /\ recover /\ at[LoopThread] = "idle"
    /\ recover' = FALSE
    /\ StartShutdownThread(LoopThread, "idle")
    /\ UNCHANGED <<loop, posted, flags, prep, late, handle, protected, worker>>

RunEnds ==
    /\ Owned /\ loop = "closed" /\ ~recover /\ at[LoopThread] = "idle"
    /\ loop' = "ended"
    /\ UNCHANGED <<posted, flags, recover, prep, late, at, handle, protected, worker>>

-----------------------------------------------------------------------------
(* The work being drained *)

ProtectedStep ==
    /\ LoopRuns
    /\ \/ protected = "closing" /\ protected' = "returning"
       \/ protected = "returning" /\ protected' = "done"
    /\ UNCHANGED <<loop, posted, flags, recover, prep, late, at, handle, worker>>

WorkerEnds ==
    /\ worker = "running" /\ (env.dependent => IsRunning)
    /\ worker' = "done"
    /\ UNCHANGED <<loop, posted, flags, recover, prep, late, at, handle, protected>>

(* The runtime is down and every caller has its answer. *)
Terminated ==
    /\ complete # "pending" /\ loop \in {"running", "closed", "ended"}
    /\ \A c \in Callers : handle[c] \in {"ok", "failed", "cancelled"}
    /\ UNCHANGED vars

CallerStep(c) ==
    \/ BeginClose(c) \/ Dispatch(c) \/ PostPreparation(c) \/ StartWatch(c)
    \/ GiveHandle(c) \/ PublishShutdown(c)

WatchStep == WatchEnds \/ WatchFallsBack

PreparationStep == CallersReturned \/ CallersEnded \/ Drained \/ ExecutorDrained \/ PreparationFails

RunStep == RunStop \/ RunReadsShutdown \/ RunReadsPreparing \/ RunCloses \/ RunRecovers \/ RunEnds

Next ==
    /\ \/ \E c \in Callers : Ask(c) \/ CallerStep(c) \/ CancelHandle(c)
       \/ WatchStep \/ StartPreparation \/ PreparationStep
       \/ \E t \in Actors : ShutdownStep(t)
       \/ RunStep \/ StopUnasked \/ CloseBorrowed
       \/ ProtectedStep \/ WorkerEnds
       \/ Terminated
    /\ UNCHANGED env

Spec == Init /\ [][Next]_<<vars, env>>

(* Threads run, and so do the loop and what is scheduled on it. *)
Fairness ==
    /\ \A c \in Callers : WF_vars(CallerStep(c))
    /\ \A t \in Actors : WF_vars(ShutdownStep(t))
    /\ WF_vars(WatchStep)
    /\ WF_vars(StartPreparation) /\ WF_vars(PreparationStep) /\ WF_vars(ProtectedStep)
    /\ WF_vars(RunStep) /\ WF_vars(WorkerEnds)

FairSpec == Spec /\ Fairness

-----------------------------------------------------------------------------
(* The shape of the runtime's state. *)
TypeOK ==
    /\ env \in Environments
    /\ loop \in {"running", "ending", "checking", "draining", "stopped", "closed", "ended"}
    /\ posted \subseteq {"prepare", "stop"}
    /\ {accepting, preparing, abandoned, shutdown, failure, recover, late} \subseteq BOOLEAN
    /\ complete \in {"pending", "ok", "failed"}
    /\ prep \in {"none", "callers", "gather", "drain", "executor", "over"}
    /\ at \in [Actors -> {"idle", "begin", "dispatch", "post", "watch", "watching", "returned",
                          "shutdown", "await", "stop", "join", "executor", "complete"}]
    /\ handle \in [Callers -> {"none", "pending", "ok", "failed", "cancelled"}]
    /\ protected \in {"none", "closing", "returning", "done"}
    /\ worker \in {"none", "running", "done"}

(* _shutdown lets one actor at a time, and only one ever, do the work.        *)
OneFinisher ==
    \A t, u \in Actors :
        {at[t], at[u]} \subseteq {"stop", "join", "executor", "complete"} => t = u

(* A shutdown that is reported as successful has stopped an owned loop and    *)
(* its executor, and has drained the protected callers of a loop that still   *)
(* runs unless the graceful preparation had to be abandoned.                  *)
OkMeansStopped ==
    complete = "ok" =>
        IF Owned THEN loop = "ended" /\ worker # "running"
        ELSE IsRunning /\ ~abandoned => protected \in {"none", "done"}

(* One actor does the work and success means that the runtime has stopped:    *)
(* OneFinisher and OkMeansStopped, with the type invariant.                   *)
ShutdownSound == TypeOK /\ OneFinisher /\ OkMeansStopped

(* Callers see one closing, one completion and one result: see Lifecycle.     *)
Promise == INSTANCE Lifecycle WITH
    phase <- IF complete # "pending" THEN "closed" ELSE IF shutdown \/ ~accepting THEN "closing" ELSE "open",
    result <- IF complete = "pending" THEN "none" ELSE complete

KeepsPromise == Promise!Spec

Answered(c) == handle[c] \in {"ok", "failed", "cancelled"}

(* Everyone who asks for the shutdown gets an answer, although the loop of a  *)
(* caller may stop and threads may fail to start; an owned loop is not        *)
(* stopped by anyone else here.                                               *)
EveryCallerAnswered ==
    \A c \in Callers : at[c] # "idle" /\ ~(Owned /\ LoopMayStop) ~> Answered(c)

(* The same when an owned loop stops by itself: shutdown is recovered after   *)
(* loop closure "instead of stranding completion".                            *)
NobodyStranded == \A c \in Callers : at[c] # "idle" ~> Answered(c)
=============================================================================
