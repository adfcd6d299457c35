----------------------- MODULE CrossLoopAwaitableProofs -----------------------
(***************************************************************************)
(* No wake-up of CrossLoopAwaitable is lost, for any number of waiters and *)
(* loops.  NoWaiterForgotten speaks of the time after the done callbacks   *)
(* have run; to be inductive it needs where a waiter's wake-up is before   *)
(* that: in the registry, posted to its loop, or lost with a closed loop.  *)
(***************************************************************************)
EXTENDS CrossLoopAwaitable, TLAPS

(* A task that awaits its relay. *)
Asleep(w) == at[w] = "wait" /\ relay[w] = "pending" /\ kind[w] \in {"direct", "shielded"}

(* Where the wake-up of a sleeping task is. *)
WakeUpSomewhere ==
    \A w \in Waiters : Asleep(w) => w \in registry \cup posted \/ LoopOf[w] \in closed

(* The callbacks run once, after the outcome; then nobody registers again.   *)
ServedAfterDone == served => Done /\ registry = {}

(* What is posted was called, has an outcome to bring, and is not registered. *)
PostedIsDue == \A w \in posted : Done /\ w \notin registry /\ at[w] # "new" /\ kind[w] # "sync"

(* A registered waiter is waiting, and is not a thread. *)
RegisteredTask == \A w \in registry : at[w] = "wait" /\ kind[w] # "sync"

(* A thread that has not returned has read nothing yet; only threads expire. *)
ThreadReadsOnce ==
    \A w \in Waiters :
        /\ at[w] = "expired" => kind[w] = "sync"
        /\ kind[w] = "sync" /\ at[w] \in {"new", "wait", "expired"} => relay[w] = "pending"

AwaitableInv ==
    /\ AwaitableTypeOK /\ WakeUpSomewhere /\ ServedAfterDone
    /\ PostedIsDue /\ RegisteredTask /\ ThreadReadsOnce

(* The constructor of CrossLoopAwaitable establishes the invariant. *)
LEMMA InitHasInv == AwaitableInit => AwaitableInv
BY AwaitableAssumption
DEF AwaitableInit, AwaitableInv, AwaitableTypeOK, WakeUpSomewhere, Asleep, ServedAfterDone, PostedIsDue,
    RegisteredTask, ThreadReadsOnce, Outcomes, Done

(* Every step of the future, its waiters and their loops keeps the           *)
(* invariant.                                                                *)
LEMMA StepKeepsInv ==
    AwaitableInv /\ [AwaitableNext]_awaitableVars => AwaitableInv'
<1> SUFFICES ASSUME AwaitableInv, [AwaitableNext]_awaitableVars PROVE AwaitableInv'
    OBVIOUS
<1> USE AwaitableAssumption
    DEF AwaitableInv, AwaitableTypeOK, WakeUpSomewhere, Asleep, ServedAfterDone, PostedIsDue,
        RegisteredTask, ThreadReadsOnce, Outcomes, Done
<1>1. CASE \E v \in Outcomes : Settle(v)
      BY <1>1 DEF Settle
<1>2. CASE Serve
      BY <1>2 DEF Serve, Sent, Scheduled, On
<1>3. ASSUME NEW w \in Waiters, Wait(w) PROVE AwaitableInv'
      BY <1>3 DEF Wait, Register, On
<1>4. ASSUME NEW w \in Waiters, CancelWaiter(w) PROVE AwaitableInv'
      BY <1>4 DEF CancelWaiter, On
<1>5. ASSUME NEW w \in Waiters, AddCallback(w) PROVE AwaitableInv'
      BY <1>5 DEF AddCallback, On
<1>6. ASSUME NEW w \in Waiters, Expire(w) PROVE AwaitableInv'
      BY <1>6 DEF Expire
<1>7. ASSUME NEW w \in Waiters, Publish(w) PROVE AwaitableInv'
      BY <1>7 DEF Publish, Published, On
<1>8. ASSUME NEW w \in Waiters, Resume(w) PROVE AwaitableInv'
      BY <1>8 DEF Resume, Unregister, On
<1>9. ASSUME NEW w \in Waiters, Read(w) PROVE AwaitableInv'
      BY <1>9 DEF Read
<1>10. ASSUME NEW w \in Waiters, Expired(w) PROVE AwaitableInv'
      BY <1>10 DEF Expired
<1>11. ASSUME NEW l \in Loops, StopLoop(l) \/ RunLoop(l) \/ CloseLoop(l) PROVE AwaitableInv'
      BY <1>11 DEF StopLoop, RunLoop, CloseLoop
<1>12. CASE UNCHANGED awaitableVars
      BY <1>12 DEF awaitableVars
<1>. QED
     BY <1>1, <1>2, <1>3, <1>4, <1>5, <1>6, <1>7, <1>8, <1>9, <1>10, <1>11, <1>12
     DEF AwaitableNext, WaiterStep

(* The invariant holds throughout, however loops stop, close and run again.  *)
THEOREM AwaitableInvariant == AwaitableSpec => []AwaitableInv
BY InitHasInv, StepKeepsInv, PTL DEF AwaitableSpec

(* No wake-up is lost between a waiter's look at the future and its          *)
(* registration in _waiters (_wait_shielded against publish_waiters).        *)
THEOREM NoWakeUpLost == AwaitableSpec => []NoWaiterForgotten
<1>1. AwaitableInv => NoWaiterForgotten
      BY DEF AwaitableInv, WakeUpSomewhere, Asleep, ServedAfterDone, NoWaiterForgotten
<1>. QED
     BY <1>1, AwaitableInvariant, PTL

(* The registry of a long-lived future holds pending waits only: the finally *)
(* of _wait_shielded and publish_waiters remove every other entry.           *)
THEOREM RegistryHoldsWaits == AwaitableSpec => []RegistryWaits
<1>1. AwaitableInv => RegistryWaits
      BY DEF AwaitableInv, RegisteredTask, RegistryWaits
<1>. QED
     BY <1>1, AwaitableInvariant, PTL

(* A relay future is answered once, by the publish callback or by the        *)
(* cancellation of its task; a thread reads its future once.                 *)
THEOREM RelayAnsweredOnce == AwaitableSpec => RelaySetOnce
<1>1. AwaitableInv /\ [AwaitableNext]_awaitableVars => [RelayKept]_awaitableVars
  <2> SUFFICES ASSUME AwaitableInv, AwaitableNext PROVE RelayKept
      OBVIOUS
  <2> USE DEF AwaitableInv, AwaitableTypeOK, PostedIsDue, ThreadReadsOnce, RelayKept
  <2>1. CASE \E v \in Outcomes : Settle(v)
        BY <2>1 DEF Settle
  <2>2. CASE Serve
        BY <2>2 DEF Serve
  <2>3. ASSUME NEW w \in Waiters, Wait(w) \/ AddCallback(w) \/ Expire(w) \/ Resume(w) PROVE RelayKept
        BY <2>3 DEF Wait, AddCallback, Expire, Resume
  <2>4. ASSUME NEW w \in Waiters, CancelWaiter(w) PROVE RelayKept
        BY <2>4 DEF CancelWaiter
  <2>5. ASSUME NEW w \in Waiters, Publish(w) PROVE RelayKept
        BY <2>5 DEF Publish, Published
  <2>6. ASSUME NEW w \in Waiters, Read(w) \/ Expired(w) PROVE RelayKept
        BY <2>6 DEF Read, Expired
  <2>7. ASSUME NEW l \in Loops, StopLoop(l) \/ RunLoop(l) \/ CloseLoop(l) PROVE RelayKept
        BY <2>7 DEF StopLoop, RunLoop, CloseLoop
  <2>. QED
       BY <2>1, <2>2, <2>3, <2>4, <2>5, <2>6, <2>7 DEF AwaitableNext, WaiterStep
<1>. QED
     BY <1>1, AwaitableInvariant, PTL DEF AwaitableSpec, RelaySetOnce

(* Waiters of a shared future are woken, once, and the registry keeps only   *)
(* pending waits: the three results above together.                          *)
THEOREM WaitersAreServed == AwaitableSpec => WaitersServed
<1>1. AwaitableInv => AwaitableTypeOK
      BY DEF AwaitableInv
<1>2. AwaitableSpec => [](AwaitableTypeOK /\ NoWaiterForgotten /\ RegistryWaits)
      BY <1>1, AwaitableInvariant, NoWakeUpLost, RegistryHoldsWaits, PTL
<1>. QED
     BY <1>2, RelayAnsweredOnce DEF WaitersServed
=============================================================================
