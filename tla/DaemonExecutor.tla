---------------------------- MODULE DaemonExecutor ----------------------------
(***************************************************************************)
(* DaemonThreadPoolExecutor of aio/_runtime.py: a bounded set of daemon    *)
(* threads that are started when no thread is known to be idle.  It is     *)
(* shut down twice, by the loop (shutdown_default_executor, which waits)   *)
(* and by the runtime (with cancel_futures), in either order or at once,   *)
(* while workers run; the runtime's call may come from a worker.           *)
(***************************************************************************)
EXTENDS Naturals, Sequences, FiniteSets

CONSTANTS
    MaxWorkers,\* max_workers
    MaxItems,  \* how many function calls are submitted
    StartFails,\* whether the system may refuse to start a thread
    Nobody

ASSUME ExecutorAssumption ==
    /\ MaxWorkers \in Nat \ {0} /\ MaxItems \in Nat
    /\ Nobody \notin {"loop", "runtime"} /\ Nobody \notin 1..MaxWorkers

Workers == 1..MaxWorkers
Items == 1..MaxItems    \* in the order of submission
Stop == 0               \* the None that ends a worker
NoItem == 0
Closers == {"loop", "runtime"}

VARIABLES
    queue,     \* _work_queue
    sem,       \* _idle_semaphore
    thread,        \* the state of every worker
    item,      \* the work item that a worker holds, or NoItem
    fut,       \* the future of every item
    shut,      \* _shutdown
    lock,      \* the closer that holds _shutdown_lock, or Nobody
    closer     \* the calls of shutdown()

executorVars == <<queue, sem, thread, item, fut, shut, lock, closer>>

(* _threads keeps the workers that have ended. *)
Threads == {w \in Workers : thread[w] # "none"}
Idle == {w \in Workers : thread[w] = "idle"}

ExecutorInit ==
    /\ queue = <<>> /\ sem = 0
    /\ thread = [w \in Workers |-> "none"] /\ item = [w \in Workers |-> NoItem]
    /\ fut = [i \in Items |-> "new"]
    /\ shut = FALSE /\ lock = Nobody
    /\ closer = [c \in Closers |-> [pc |-> "new", wait |-> FALSE, inside |-> Nobody]]

(* Mutant: an idle worker is looked for, but not reserved. *)
ReserveNotTaken ==
    sem > 0 /\ UNCHANGED <<sem, thread>>

(* A worker that has finished its work is reserved for the new item. *)
Reserve ==
    sem > 0 /\ sem' = sem - 1 /\ UNCHANGED thread

(* The next call of submit(), when no shutdown holds the lock. *)
Submitting(i) ==
    /\ fut[i] = "new" /\ \A j \in 1..(i - 1) : fut[j] # "new"
    /\ lock = Nobody

(* submit() *)
Submit(i) ==
    /\ Submitting(i) /\ ~shut
    /\ \/ Reserve
       \/ /\ sem = 0 /\ Threads # Workers
          /\ thread' = [thread EXCEPT ![Cardinality(Threads) + 1] = "idle"]
          /\ UNCHANGED sem
       \/ sem = 0 /\ Threads = Workers /\ UNCHANGED <<sem, thread>>
    /\ queue' = Append(queue, i)
    /\ fut' = [fut EXCEPT ![i] = "pending"]
    /\ UNCHANGED <<item, shut, lock, closer>>

(* submit() raises: after shutdown, or when the thread does not start. *)
SubmitRaises(i) ==
    /\ Submitting(i)
    /\ shut \/ (StartFails /\ sem = 0 /\ Threads # Workers)
    /\ fut' = [fut EXCEPT ![i] = "refused"]
    /\ UNCHANGED <<queue, sem, thread, item, shut, lock, closer>>

(* Future.cancel() by the one who submitted. *)
CancelItem(i) ==
    /\ fut[i] = "pending"
    /\ fut' = [fut EXCEPT ![i] = "cancelled"]
    /\ UNCHANGED <<queue, sem, thread, item, shut, lock, closer>>

(* _worker takes the next entry of the queue. *)
Take(w) ==
    /\ thread[w] = "idle" /\ queue # <<>>
    /\ queue' = Tail(queue)
    /\ thread' = [thread EXCEPT ![w] = IF Head(queue) = Stop THEN "ended" ELSE "taken"]
    /\ item' = [item EXCEPT ![w] = IF Head(queue) = Stop THEN NoItem ELSE Head(queue)]
    /\ UNCHANGED <<sem, fut, shut, lock, closer>>

(* _WorkItem.run claims the future, unless it has been cancelled. *)
Claim(w) ==
    /\ thread[w] = "taken"
    /\ \/ /\ fut[item[w]] = "pending"
          /\ fut' = [fut EXCEPT ![item[w]] = "running"]
          /\ thread' = [thread EXCEPT ![w] = "run"]
       \/ /\ fut[item[w]] = "cancelled"
          /\ thread' = [thread EXCEPT ![w] = "after"]
          /\ UNCHANGED fut
    /\ UNCHANGED <<queue, sem, item, shut, lock, closer>>

(* The function returns or raises, and the future has its outcome.  A        *)
(* callback of the future that raises does not end the worker.               *)
Finish(w) ==
    /\ thread[w] = "run"
    /\ \A c \in Closers : closer[c].inside = w => closer[c].pc = "done"
    /\ fut' = [fut EXCEPT ![item[w]] = "done"]
    /\ thread' = [thread EXCEPT ![w] = "after"]
    /\ UNCHANGED <<queue, sem, item, shut, lock, closer>>

(* ... finally: _idle_semaphore.release() *)
Release(w) ==
    /\ thread[w] = "after"
    /\ sem' = sem + 1
    /\ thread' = [thread EXCEPT ![w] = "idle"] /\ item' = [item EXCEPT ![w] = NoItem]
    /\ UNCHANGED <<queue, fut, shut, lock, closer>>

WorkerStep(w) == Take(w) \/ Claim(w) \/ Finish(w) \/ Release(w)

(* shutdown(): the lock is taken ... *)
CallShutdown(c, wait, w) ==
    /\ closer[c].pc = "new" /\ lock = Nobody
    /\ c = "loop" => wait /\ w = Nobody
    /\ w # Nobody => thread[w] = "run"
    /\ lock' = c /\ shut' = TRUE
    /\ closer' = [closer EXCEPT ![c] =
          [pc |-> IF c = "runtime" THEN "drain" ELSE IF shut THEN "leave" ELSE "mark",
           wait |-> wait, inside |-> w]]
    /\ UNCHANGED <<queue, sem, thread, item, fut>>

(* Mutant: a second shutdown drains the queue and puts no stop markers back. *)
DrainedFirstOnly(c) == IF \E d \in Closers \ {c} : closer[d].pc # "new" THEN "leave" ELSE "mark"

(* first_shutdown or cancel_futures *)
Drained(c) == "mark"

(* ... queued work is cancelled, one entry at a time ... *)
Drain(c) ==
    /\ closer[c].pc = "drain"
    /\ \/ /\ queue # <<>>
          /\ queue' = Tail(queue)
          /\ fut' = IF Head(queue) # Stop /\ fut[Head(queue)] = "pending"
                    THEN [fut EXCEPT ![Head(queue)] = "cancelled"] ELSE fut
          /\ UNCHANGED closer
       \/ /\ queue = <<>>
          /\ closer' = [closer EXCEPT ![c].pc = Drained(c)]
          /\ UNCHANGED <<queue, fut>>
    /\ UNCHANGED <<sem, thread, item, shut, lock>>

(* ... every thread is sent a stop marker ... *)
Mark(c) ==
    /\ closer[c].pc = "mark"
    /\ queue' = queue \o [n \in 1..Cardinality(Threads) |-> Stop]
    /\ closer' = [closer EXCEPT ![c].pc = "leave"]
    /\ UNCHANGED <<sem, thread, item, fut, shut, lock>>

(* ... the lock is released ... *)
Leave(c) ==
    /\ closer[c].pc = "leave"
    /\ lock' = Nobody
    /\ closer' = [closer EXCEPT ![c].pc = IF closer[c].wait THEN "join" ELSE "done"]
    /\ UNCHANGED <<queue, sem, thread, item, fut, shut>>

(* The threads that shutdown(wait=True) waits for have ended. *)
Joined(c) == \A w \in Threads \ {closer[c].inside} : thread[w] = "ended"

(* ... and the threads are joined, except the one that calls. *)
Join(c) ==
    /\ closer[c].pc = "join" /\ Joined(c)
    /\ closer' = [closer EXCEPT ![c].pc = "done"]
    /\ UNCHANGED <<queue, sem, thread, item, fut, shut, lock>>

CloserStep(c) == Drain(c) \/ Mark(c) \/ Leave(c) \/ Join(c)

ExecutorNext ==
    \/ \E i \in Items : Submit(i) \/ SubmitRaises(i) \/ CancelItem(i)
    \/ \E w \in Workers : WorkerStep(w)
    \/ \E c \in Closers : CloserStep(c)
    \/ \E c \in Closers, wait \in BOOLEAN, w \in Workers \cup {Nobody} : CallShutdown(c, wait, w)

ExecutorSpec ==
    /\ ExecutorInit /\ [][ExecutorNext]_executorVars
    /\ \A w \in Workers : WF_executorVars(WorkerStep(w))
    /\ \A c \in Closers : WF_executorVars(CloserStep(c))

ExecutorTypeOK ==
    /\ queue \in Seq(Items \cup {Stop}) /\ sem \in Nat
    /\ thread \in [Workers -> {"none", "idle", "taken", "run", "after", "ended"}]
    /\ item \in [Workers -> Items \cup {NoItem}]
    /\ fut \in [Items -> {"new", "refused", "pending", "running", "done", "cancelled"}]
    /\ shut \in BOOLEAN /\ lock \in Closers \cup {Nobody}
    /\ closer \in [Closers -> [pc: {"new", "drain", "mark", "leave", "join", "done"},
                               wait: BOOLEAN, inside: Workers \cup {Nobody}]]

(* Work waits in the queue only while all of max_workers threads exist:      *)
(* before that every queued item has an idle worker of its own, although     *)
(* _idle_semaphore is released only after an item and never counts threads.  *)
QueuedHasWorker ==
    ~shut /\ Threads # Workers => Len(queue) <= Cardinality(Idle)

(* Every item that submit() accepted is run or cancelled, whatever the       *)
(* callbacks of futures do and however shutdowns and workers interleave.     *)
ItemsSettle ==
    (\E i \in Items : fut[i] \in {"pending", "running"})
        ~> (\A i \in Items : fut[i] \notin {"pending", "running"})

(* Every call of shutdown() returns: a drain takes the stop markers of the   *)
(* other call away and puts new ones, and a worker does not wait for itself. *)
ShutdownReturns ==
    (\E c \in Closers : closer[c].pc \notin {"new", "done"})
        ~> (\A c \in Closers : closer[c].pc \in {"new", "done"})

(* shutdown(wait=True) returns only when no other worker can still touch     *)
(* the work: all of them have ended and nothing starts one again.            *)
WaitMeansEnded ==
    \A c \in Closers :
        closer[c].pc = "done" /\ closer[c].wait =>
            \A w \in Threads \ {closer[c].inside} : thread[w] = "ended"

(* Queued work has a worker and a finished shutdown has none: QueuedHasWorker *)
(* and WaitMeansEnded, with the type invariant.                               *)
ExecutorSound == ExecutorTypeOK /\ QueuedHasWorker /\ WaitMeansEnded
=============================================================================
