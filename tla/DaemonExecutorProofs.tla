------------------------- MODULE DaemonExecutorProofs -------------------------
(***************************************************************************)
(* The executor starts threads in time and a waiting shutdown means what   *)
(* it says, for any number of workers and items.  The semaphore that       *)
(* submit() asks is released after items and never counts threads; what    *)
(* makes it right is a balance that holds until the last thread starts:    *)
(* queued entries and semaphore together are the idle workers.             *)
(***************************************************************************)
EXTENDS DaemonExecutor, FiniteSetTheorems, SequenceTheorems, TLAPS

(* Threads are started in the order of their numbers. *)
StartedInOrder == \E n \in 0..MaxWorkers : Threads = 1..n

Balance ==
    ~shut /\ Threads # Workers =>
        queue \in Seq(Items) /\ Len(queue) + sem = Cardinality(Idle)

(* The queue is drained and marked only by a shutdown that has begun. *)
CloserMeansShut == \A c \in Closers : closer[c].pc # "new" => shut

ExecutorInv ==
    /\ ExecutorTypeOK /\ StartedInOrder /\ Balance /\ CloserMeansShut /\ WaitMeansEnded

(* The idle workers are finitely many: they are among max_workers. *)
LEMMA IdleFinite == IsFiniteSet(Idle) /\ Cardinality(Idle) \in Nat
<1>1. IsFiniteSet(Workers)
      BY FS_Interval, ExecutorAssumption DEF Workers
<1>2. Idle \in SUBSET Workers
      BY DEF Idle
<1>. QED
     BY <1>1, <1>2, FS_Subset, FS_CardinalityType

(* A new DaemonThreadPoolExecutor has no thread and no work. *)
LEMMA ExecutorInitHasInv == ExecutorInit => ExecutorInv
<1> SUFFICES ASSUME ExecutorInit PROVE ExecutorInv
    OBVIOUS
<1>1. ExecutorTypeOK
  <2>1. queue \in Seq(Items \cup {Stop}) /\ sem \in Nat
        BY DEF ExecutorInit
  <2>2. closer \in [Closers -> [pc: {"new", "drain", "mark", "leave", "join", "done"},
                                 wait: BOOLEAN, inside: Workers \cup {Nobody}]]
        BY DEF ExecutorInit
  <2>. QED
       BY <2>1, <2>2 DEF ExecutorInit, ExecutorTypeOK
<1>2. Threads = {} /\ Idle = {}
      BY DEF ExecutorInit, Threads, Idle
<1>3. StartedInOrder
  <2>1. Threads = 1..0
        BY <1>2
  <2>. QED
       BY <2>1, ExecutorAssumption DEF StartedInOrder
<1>4. Balance
      BY <1>2, FS_EmptySet DEF ExecutorInit, Balance
<1>. QED
     BY <1>1, <1>3, <1>4 DEF ExecutorInv, CloserMeansShut, WaitMeansEnded, ExecutorInit

(* Every step of submitters, workers and shutdowns keeps the types. *)
LEMMA TypesKept == ExecutorTypeOK /\ [ExecutorNext]_executorVars => ExecutorTypeOK'
<1> SUFFICES ASSUME ExecutorTypeOK, [ExecutorNext]_executorVars PROVE ExecutorTypeOK'
    OBVIOUS
<1> USE ExecutorAssumption DEF ExecutorTypeOK, Closers, NoItem, Stop
<1>1. ASSUME NEW i \in Items, Submit(i) PROVE ExecutorTypeOK'
  <2>1. queue' \in Seq(Items \cup {Stop})
        BY <1>1, AppendProperties DEF Submit
  <2>2. sem' \in Nat
        BY <1>1 DEF Submit, Reserve
  <2>3. thread' \in [Workers -> {"none", "idle", "taken", "run", "after", "ended"}]
        BY <1>1 DEF Submit, Reserve
  <2>4. fut' \in [Items -> {"new", "refused", "pending", "running", "done", "cancelled"}]
        BY <1>1 DEF Submit
  <2>. QED
       BY <1>1, <2>1, <2>2, <2>3, <2>4 DEF Submit
<1>2. ASSUME NEW i \in Items, SubmitRaises(i) \/ CancelItem(i) PROVE ExecutorTypeOK'
      BY <1>2 DEF SubmitRaises, CancelItem
<1>3. ASSUME NEW w \in Workers, Take(w) PROVE ExecutorTypeOK'
  <2>1. Head(queue) \in Items \cup {Stop} /\ Tail(queue) \in Seq(Items \cup {Stop})
        BY <1>3, HeadTailProperties DEF Take
  <2>. QED
       BY <1>3, <2>1 DEF Take
<1>4. ASSUME NEW w \in Workers, Claim(w) \/ Finish(w) \/ Release(w) PROVE ExecutorTypeOK'
      BY <1>4 DEF Claim, Finish, Release
<1>5. ASSUME NEW c \in Closers, Drain(c) PROVE ExecutorTypeOK'
  <2>1. queue' \in Seq(Items \cup {Stop})
    <3>1. queue # <<>> => Tail(queue) \in Seq(Items \cup {Stop})
          BY HeadTailProperties
    <3>. QED
         BY <1>5, <3>1 DEF Drain
  <2>2. fut' \in [Items -> {"new", "refused", "pending", "running", "done", "cancelled"}]
        BY <1>5 DEF Drain
  <2>3. closer' \in [Closers -> [pc: {"new", "drain", "mark", "leave", "join", "done"},
                                 wait: BOOLEAN, inside: Workers \cup {Nobody}]]
        BY <1>5 DEF Drain, Drained
  <2>. QED
       BY <1>5, <2>1, <2>2, <2>3 DEF Drain
<1>6. ASSUME NEW c \in Closers, Mark(c) PROVE ExecutorTypeOK'
  <2>1. IsFiniteSet(Workers) /\ Threads \in SUBSET Workers
        BY FS_Interval DEF Workers, Threads
  <2>2. Cardinality(Threads) \in Nat
        BY <2>1, FS_Subset, FS_CardinalityType
  <2>3. [n \in 1..Cardinality(Threads) |-> Stop] \in Seq(Items \cup {Stop})
        BY <2>2
  <2>. QED
       BY <1>6, <2>3, ConcatProperties DEF Mark
<1>7. ASSUME NEW c \in Closers, Leave(c) \/ Join(c) PROVE ExecutorTypeOK'
  <2>1. closer' \in [Closers -> [pc: {"new", "drain", "mark", "leave", "join", "done"},
                                 wait: BOOLEAN, inside: Workers \cup {Nobody}]]
    <3>1. CASE Leave(c)
          BY <3>1 DEF Leave
    <3>2. CASE Join(c)
          BY <3>2 DEF Join
    <3>. QED
         BY <1>7, <3>1, <3>2
  <2>2. UNCHANGED <<queue, sem, thread, item, fut, shut>> /\ lock' \in {lock, Nobody}
        BY <1>7 DEF Leave, Join
  <2>. QED
       BY <2>1, <2>2
<1>8. ASSUME NEW c \in Closers, NEW wait \in BOOLEAN, NEW w \in Workers \cup {Nobody}, CallShutdown(c, wait, w)
      PROVE ExecutorTypeOK'
      BY <1>8 DEF CallShutdown
<1>9. CASE UNCHANGED executorVars
      BY <1>9 DEF executorVars
<1>. QED
     BY <1>1, <1>2, <1>3, <1>4, <1>5, <1>6, <1>7, <1>8, <1>9 DEF ExecutorNext, WorkerStep, CloserStep

(* submit() reserves an idle worker, starts the next thread, or finds that   *)
(* all of max_workers exist.                                                 *)
LEMMA SubmitKeepsInv ==
    ASSUME ExecutorInv, NEW i \in Items, Submit(i) PROVE (StartedInOrder /\ Balance)'
<1> USE ExecutorAssumption DEF ExecutorInv
<1>1. PICK n \in 0..MaxWorkers : Threads = 1..n
      BY DEF StartedInOrder
<1>2. Cardinality(Threads) = n
      BY <1>1, FS_Interval
<1>3. queue \in Seq(Items) => queue' \in Seq(Items) /\ Len(queue') = Len(queue) + 1 /\ Len(queue) \in Nat
      BY AppendProperties DEF Submit
<1>4. ~shut /\ sem \in Nat /\ ~shut'
      BY DEF Submit, ExecutorTypeOK
<1>5. CASE Reserve
  <2>1. Threads' = Threads /\ Idle' = Idle
        BY <1>5 DEF Reserve, Threads, Idle
  <2>2. sem' = sem - 1
        BY <1>5 DEF Reserve
  <2>3. StartedInOrder'
        BY <2>1 DEF StartedInOrder
  <2>4. Balance'
        BY <2>1, <2>2, <1>3, <1>4, IdleFinite DEF Balance
  <2>. QED
       BY <2>3, <2>4
<1>6. CASE /\ sem = 0 /\ Threads # Workers
           /\ thread' = [thread EXCEPT ![Cardinality(Threads) + 1] = "idle"]
           /\ UNCHANGED sem
  <2>1. n + 1 \in 1..MaxWorkers /\ n + 1 \notin Threads
        BY <1>1, <1>6 DEF Workers
  <2>2. thread[n + 1] = "none"
        BY <2>1 DEF Threads, Workers
  <2>3. thread' = [thread EXCEPT ![n + 1] = "idle"] /\ DOMAIN thread = Workers
        BY <1>2, <1>6 DEF ExecutorTypeOK
  <2>4. Threads' = Threads \cup {n + 1} /\ Idle' = Idle \cup {n + 1} /\ n + 1 \notin Idle
        BY <2>1, <2>2, <2>3 DEF Threads, Idle, Workers
  <2>5. Threads' = 1..(n + 1)
        BY <2>4, <1>1
  <2>6. StartedInOrder'
        BY <2>1, <2>5 DEF StartedInOrder
  <2>7. Cardinality(Idle') = Cardinality(Idle) + 1
        BY <2>4, IdleFinite, FS_AddElement
  <2>8. Balance'
        BY <2>7, <1>3, <1>4, <1>6, IdleFinite DEF Balance
  <2>. QED
       BY <2>6, <2>8
<1>7. CASE sem = 0 /\ Threads = Workers /\ UNCHANGED <<sem, thread>>
  <2>1. Threads' = Threads
        BY <1>7 DEF Threads
  <2>. QED
       BY <2>1, <1>7 DEF StartedInOrder, Balance, Workers
<1>. QED
     BY <1>5, <1>6, <1>7 DEF Submit

(* A worker that takes an item leaves the idle ones as the item leaves the   *)
(* queue, and a worker that has finished joins them as the semaphore counts. *)
LEMMA WorkerKeepsInv ==
    ASSUME ExecutorInv, NEW w \in Workers, WorkerStep(w) PROVE (StartedInOrder /\ Balance)'
<1> USE ExecutorAssumption DEF ExecutorInv
<1>1. thread[w] # "none" /\ thread'[w] # "none" /\ \A v \in Workers \ {w} : thread'[v] = thread[v]
      BY DEF WorkerStep, Take, Claim, Finish, Release, ExecutorTypeOK
<1>2. Threads' = Threads
      BY <1>1 DEF Threads
<1>3. StartedInOrder'
      BY <1>2 DEF StartedInOrder
<1>4. shut' = shut
      BY DEF WorkerStep, Take, Claim, Finish, Release
<1>5. Balance'
  <2> SUFFICES ASSUME ~shut, Threads # Workers
               PROVE queue' \in Seq(Items) /\ Len(queue') + sem' = Cardinality(Idle')
      BY <1>2, <1>4 DEF Balance
  <2>1. queue \in Seq(Items) /\ Len(queue) + sem = Cardinality(Idle) /\ sem \in Nat /\ Len(queue) \in Nat
        BY DEF Balance, ExecutorTypeOK
  <2>2. CASE Take(w)
    <3>1. Head(queue) \in Items /\ queue' \in Seq(Items) /\ Len(queue') = Len(queue) - 1 /\ sem' = sem
          BY <2>1, <2>2, HeadTailProperties DEF Take
    <3>2. thread'[w] = "taken"
          BY <2>2, <3>1 DEF Take, Items, Stop, ExecutorTypeOK
    <3>3. Idle' = Idle \ {w} /\ w \in Idle
          BY <1>1, <2>2, <3>2 DEF Take, Idle
    <3>4. Cardinality(Idle') = Cardinality(Idle) - 1
          BY <3>3, IdleFinite, FS_RemoveElement
    <3>. QED
         BY <2>1, <3>1, <3>4, IdleFinite
  <2>3. CASE Claim(w) \/ Finish(w)
    <3>1. thread[w] # "idle" /\ thread'[w] # "idle" /\ UNCHANGED <<queue, sem>>
          BY <2>3 DEF Claim, Finish, ExecutorTypeOK
    <3>2. Idle' = Idle
          BY <1>1, <3>1 DEF Idle
    <3>. QED
         BY <2>1, <3>1, <3>2
  <2>4. CASE Release(w)
    <3>1. thread'[w] = "idle" /\ w \notin Idle /\ queue' = queue /\ sem' = sem + 1
          BY <2>4 DEF Release, Idle, ExecutorTypeOK
    <3>2. Idle' = Idle \cup {w}
          BY <1>1, <3>1 DEF Idle
    <3>3. Cardinality(Idle') = Cardinality(Idle) + 1
          BY <3>1, <3>2, IdleFinite, FS_AddElement
    <3>. QED
         BY <2>1, <3>1, <3>3, IdleFinite
  <2>. QED
       BY <2>2, <2>3, <2>4 DEF WorkerStep
<1>. QED
     BY <1>3, <1>5

(* shutdown() and refused or cancelled calls start no thread and wake none. *)
LEMMA OthersKeepInv ==
    ASSUME ExecutorInv, UNCHANGED thread, shut => shut',
           ~shut' => UNCHANGED <<queue, sem>>
    PROVE  (StartedInOrder /\ Balance)'
<1>1. Threads' = Threads /\ Idle' = Idle
      BY DEF Threads, Idle
<1>. QED
     BY <1>1 DEF ExecutorInv, StartedInOrder, Balance

(* Threads that ended stay so, and after a shutdown none is started. *)
LEMMA EndedStays ==
    ASSUME ExecutorInv, ExecutorNext PROVE (CloserMeansShut /\ WaitMeansEnded)'
<1> USE DEF ExecutorInv, ExecutorTypeOK, CloserMeansShut, WaitMeansEnded, Threads, Closers
<1>1. ASSUME NEW i \in Items, Submit(i) PROVE (CloserMeansShut /\ WaitMeansEnded)'
      BY <1>1 DEF Submit
<1>2. ASSUME NEW i \in Items, SubmitRaises(i) \/ CancelItem(i) PROVE (CloserMeansShut /\ WaitMeansEnded)'
      BY <1>2 DEF SubmitRaises, CancelItem
<1>3. ASSUME NEW w \in Workers, WorkerStep(w) PROVE (CloserMeansShut /\ WaitMeansEnded)'
      BY <1>3 DEF WorkerStep, Take, Claim, Finish, Release
<1>4. ASSUME NEW c \in Closers, Drain(c) \/ Mark(c) PROVE (CloserMeansShut /\ WaitMeansEnded)'
      BY <1>4 DEF Drain, Drained, Mark
<1>5. ASSUME NEW c \in Closers, Leave(c) PROVE (CloserMeansShut /\ WaitMeansEnded)'
      BY <1>5 DEF Leave
<1>6. ASSUME NEW c \in Closers, Join(c) PROVE (CloserMeansShut /\ WaitMeansEnded)'
      BY <1>6 DEF Join, Joined
<1>7. ASSUME NEW c \in Closers, NEW wait \in BOOLEAN, NEW w \in Workers \cup {Nobody}, CallShutdown(c, wait, w)
      PROVE (CloserMeansShut /\ WaitMeansEnded)'
      BY <1>7 DEF CallShutdown
<1>. QED
     BY <1>1, <1>2, <1>3, <1>4, <1>5, <1>6, <1>7 DEF ExecutorNext, CloserStep

(* The invariant is inductive. *)
LEMMA ExecutorStepKeepsInv == ExecutorInv /\ [ExecutorNext]_executorVars => ExecutorInv'
<1> SUFFICES ASSUME ExecutorInv, [ExecutorNext]_executorVars PROVE ExecutorInv'
    OBVIOUS
<1>1. ExecutorTypeOK'
      BY TypesKept DEF ExecutorInv
<1>2. CASE UNCHANGED executorVars
  <2>1. (StartedInOrder /\ Balance)'
        BY <1>2, OthersKeepInv DEF executorVars
  <2>2. (CloserMeansShut /\ WaitMeansEnded)'
        BY <1>2 DEF executorVars, ExecutorInv, CloserMeansShut, WaitMeansEnded, Threads
  <2>. QED
       BY <1>1, <2>1, <2>2 DEF ExecutorInv
<1>3. CASE ExecutorNext
  <2>1. ASSUME NEW i \in Items, Submit(i) PROVE (StartedInOrder /\ Balance)'
        BY <2>1, SubmitKeepsInv
  <2>2. ASSUME NEW i \in Items, SubmitRaises(i) \/ CancelItem(i) PROVE (StartedInOrder /\ Balance)'
        BY <2>2, OthersKeepInv DEF SubmitRaises, CancelItem
  <2>3. ASSUME NEW w \in Workers, WorkerStep(w) PROVE (StartedInOrder /\ Balance)'
        BY <2>3, WorkerKeepsInv
  <2>4. ASSUME NEW c \in Closers, CloserStep(c) PROVE (StartedInOrder /\ Balance)'
    <3>1. shut /\ shut' /\ UNCHANGED thread
          BY <2>4 DEF CloserStep, Drain, Mark, Leave, Join, ExecutorInv, CloserMeansShut
    <3>. QED
         BY <3>1, OthersKeepInv
  <2>5. ASSUME NEW c \in Closers, NEW wait \in BOOLEAN, NEW w \in Workers \cup {Nobody},
               CallShutdown(c, wait, w)
        PROVE (StartedInOrder /\ Balance)'
    <3>1. shut' /\ UNCHANGED thread
          BY <2>5 DEF CallShutdown
    <3>. QED
         BY <3>1, OthersKeepInv
  <2>6. (StartedInOrder /\ Balance)'
        BY <1>3, <2>1, <2>2, <2>3, <2>4, <2>5 DEF ExecutorNext
  <2>. QED
       BY <1>1, <1>3, <2>6, EndedStays DEF ExecutorInv
<1>. QED
     BY <1>2, <1>3

(* The invariant holds of every executor. *)
THEOREM ExecutorInvariant == ExecutorSpec => []ExecutorInv
BY ExecutorInitHasInv, ExecutorStepKeepsInv, PTL DEF ExecutorSpec

(* submit() never queues an item behind busy workers while it could still    *)
(* start a thread.                                                           *)
THEOREM QueuedWorkHasWorker == ExecutorSpec => []QueuedHasWorker
<1>1. ExecutorInv => QueuedHasWorker
  <2> SUFFICES ASSUME ExecutorInv, ~shut, Threads # Workers PROVE Len(queue) <= Cardinality(Idle)
      BY DEF QueuedHasWorker
  <2>1. Len(queue) + sem = Cardinality(Idle) /\ sem \in Nat /\ Len(queue) \in Nat
        BY DEF ExecutorInv, Balance, ExecutorTypeOK
  <2>. QED
       BY <2>1, IdleFinite
<1>. QED
     BY <1>1, ExecutorInvariant, PTL

(* shutdown(wait=True) returns after all other threads, and none is started  *)
(* again, however often and from wherever shutdown is called.                *)
THEOREM WaitingShutdownMeansEnded == ExecutorSpec => []WaitMeansEnded
<1>1. ExecutorInv => WaitMeansEnded
      BY DEF ExecutorInv
<1>. QED
     BY <1>1, ExecutorInvariant, PTL

(* Both promises of the executor together, for any number of workers, items  *)
(* and calls of shutdown().                                                  *)
THEOREM ExecutorIsSound == ExecutorSpec => []ExecutorSound
<1>1. ExecutorInv => ExecutorTypeOK
      BY DEF ExecutorInv
<1>2. ExecutorTypeOK /\ QueuedHasWorker /\ WaitMeansEnded => ExecutorSound
      BY DEF ExecutorSound
<1>. QED
     BY <1>1, <1>2, ExecutorInvariant, QueuedWorkHasWorker, WaitingShutdownMeansEnded, PTL
=============================================================================
