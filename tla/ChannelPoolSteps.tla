------------------------- MODULE ChannelPoolSteps --------------------------
(***************************************************************************)
(* What a step does to the jobs of the threads and to the wrappers that    *)
(* are on their way to a native close.                                     *)
(***************************************************************************)
EXTENDS ChannelPoolInv

(* A wrapper keeps its transport. *)
LEMMA TransportKept ==
    ASSUME PoolInv, [Next]_vars, NEW w \in Wrappers, Used(w)
    PROVE  Used(w)' /\ transport'[w] = transport[w]
BY NewWrapper DEF PoolInv, TypeOK, Used

LEMMA JobFields ==
    /\ Idle.at = "idle"
    /\ \A stage, w, addr : /\ Doing(stage, w, addr).at = stage
                           /\ Doing(stage, w, addr).w = w
    /\ \A stage, w : At(stage, w).at = stage /\ At(stage, w).w = w
    /\ \A j : AfterSchedule(j).at \in {"idle", "get"}
BY DEF Idle, Doing, At, AfterSchedule

(* Only _lease_address_channel adds to the registry of leases. *)
LEMMA LeasedShrinks ==
    ASSUME [Next]_vars, ~LeaseAddressChannel
    PROVE  leased' \subseteq leased
<1> USE DEF lifecycle, pool, wrappers, closes
<1>1. CASE \/ \E a \in Addresses : GetChannel(a) \/ GetPop(a)
           \/ SkipShutdown
           \/ \E w \in Wrappers, t \in Transports : Adopt(w, t)
           \/ \E t \in Transports : NativeShutdown(t)
  BY <1>1 DEF GetChannel, GetPop, SkipShutdown, Adopt, NativeShutdown
<1>2. CASE \/ \E w \in Wrappers, discard \in BOOLEAN : Release(w, discard)
           \/ \E c \in Callers, w \in Wrappers : ReleaseOffLoop(c, w)
           \/ \E th \in Threads, w \in Wrappers : ReleaseSoon(th, w)
           \/ ReturnToPool
           \/ CloseInsteadOfReturn
           \/ \E w \in Wrappers : RunSoon(w) \/ FailSoon(w)
  BY <1>2, Zenon DEF Release, ReleaseOffLoop, ReleaseSoon, ReturnToPool, CloseInsteadOfReturn, RunSoon,
              FailSoon, ReleaseSeesOpen, ReleaseSeesClosed
<1>3. CASE \/ \E th \in Threads : ScheduleRetire(th) \/ ScheduleRegister(th) \/ ScheduleSubmit(th)
           \/ \E w \in Wrappers, via \in Via : RunClose(w, via)
  BY <1>3 DEF ScheduleRetire, ScheduleRegister, ScheduleSubmit, RunClose
<1>4. CASE \/ RequestClose \/ SubmitClose \/ CloseSnapshot
           \/ CleanupStart \/ CleanupDone \/ DrainAndComplete
           \/ CleanupFailed \/ CloseRejected
           \/ StopLoop
           \/ Terminated
           \/ UNCHANGED vars
  BY <1>4 DEF RequestClose, SubmitClose, CloseSnapshot, CleanupStart, CleanupDone, DrainAndComplete,
              CleanupFailed, CloseRejected, StopLoop, Terminated, vars
<1> QED
  BY <1>1, <1>2, <1>3, <1>4 DEF Next

(* The wrapper the loop works on is still its own after a step. *)
StillTaken ==
    /\ job[Loop].w \notin retired' \cup handed' \cup leased'
    /\ \A a \in Addresses : job[Loop].w \notin free'[a]

(* A wrapper the loop has taken from the pool or created, and not yet leased, *)
(* is out of reach of every other thread.                                     *)
LEMMA TakenKept ==
    ASSUME PoolInv, [Next]_vars,
           job[Loop].at \in {"pooled", "created"}, job'[Loop] = job[Loop]
    PROVE  StillTaken
<1> DEFINE u == job[Loop].w
<1>1. /\ u \in Wrappers /\ Used(u)
      /\ u \notin retired \cup handed \cup leased
      /\ \A a \in Addresses : u \notin free[a]
  BY DEF PoolInv, JobsOK, JobOK, Holding, Threads
<1>2. Loop \in Threads /\ job \in [Threads -> Job] /\ free \in [Addresses -> SUBSET Wrappers]
  BY DEF PoolInv, TypeOK, Threads
<1>3. job[Loop] # Idle /\ job[Loop].at \notin {"get", "pool", "retire", "reserved", "register", "submit"}
  BY JobFields
<1> USE DEF StillTaken, lifecycle, pool, wrappers, closes
<1>4. ~LeaseAddressChannel /\ ~SkipShutdown
  BY <1>2, <1>3, JobFields DEF LeaseAddressChannel, SkipShutdown
<1>5. ASSUME NEW w \in Wrappers, NEW t \in Transports, Adopt(w, t) PROVE StillTaken
  BY <1>1, <1>5 DEF Adopt, Unused, Used
<1>6. ASSUME NEW c \in Callers, NEW w \in Wrappers, ReleaseOffLoop(c, w) PROVE StillTaken
  BY <1>1, <1>6 DEF ReleaseOffLoop, ReleaseSeesClosed
<1>7. ASSUME NEW th \in Threads, ScheduleRetire(th) PROVE StillTaken
  <2>1. th # Loop /\ job[th].w \in handed
    BY <1>3, <1>7 DEF ScheduleRetire, PoolInv, JobsOK, JobOK, Holding
  <2> QED
    BY <1>1, <1>7, <2>1 DEF ScheduleRetire
<1>8. ASSUME NEW w \in Wrappers, NEW via \in Via, RunClose(w, via) PROVE StillTaken
  <2>1. w \in retired
    BY <1>8 DEF RunClose, PoolInv, WrappersOK, Doomed
  <2> QED
    BY <1>1, <1>8, <2>1 DEF RunClose
<1>9. CASE \/ \E t \in Transports : NativeShutdown(t)
           \/ \E th \in Threads, w \in Wrappers : ReleaseSoon(th, w)
           \/ \E th \in Threads : ScheduleRegister(th) \/ ScheduleSubmit(th)
           \/ RequestClose \/ SubmitClose \/ CloseRejected
           \/ Terminated \/ UNCHANGED vars
  <2>1. UNCHANGED <<free, leased, retired, handed>>
    BY <1>9 DEF NativeShutdown, ReleaseSoon, ScheduleRegister, ScheduleSubmit, RequestClose,
                SubmitClose, CloseRejected, Terminated, vars
  <2> QED
    BY <1>1, <2>1
<1>10. CASE \/ \E a \in Addresses : GetChannel(a) \/ GetPop(a)
            \/ \E w \in Wrappers, discard \in BOOLEAN : Release(w, discard)
            \/ ReturnToPool \/ CloseInsteadOfReturn
            \/ \E w \in Wrappers : RunSoon(w) \/ FailSoon(w)
            \/ CloseSnapshot \/ CleanupStart \/ CleanupDone \/ DrainAndComplete
            \/ CleanupFailed \/ StopLoop
  BY <1>3, <1>10, Zenon DEF GetChannel, GetPop, Release, ReturnToPool, ReturnableTo, CloseInsteadOfReturn,
                     RunSoon, FailSoon, CloseSnapshot, CleanupStart, CleanupDone, DrainAndComplete,
                     CleanupFailed, StopLoop
<1> QED
  <2> HIDE DEF StillTaken
  <2> QED
    BY <1>4, <1>5, <1>6, <1>7, <1>8, <1>9, <1>10 DEF Next

(* A thread that does not move is not disturbed by the step of another one. *)
LEMMA OthersKept ==
    ASSUME PoolInv, [Next]_vars, NEW x \in Threads, job'[x] = job[x]
    PROVE  JobOK(job[x], x)'
<1>1. JobOK(job[x], x)
  BY DEF JobsOK, PoolInv
<1>2. handed \subseteq handed'
  BY Frame
<1>3. job[x].at \in Holding => job[x].w \in Wrappers /\ Used(job[x].w)'
  BY <1>1, TransportKept DEF JobOK
<1>4. job[x].at \in {"pooled", "created"} =>
          /\ x = Loop
          /\ job[x].w \notin retired' \cup handed' \cup leased'
          /\ \A a \in Addresses : job[x].w \notin free'[a]
  BY <1>1, TakenKept DEF JobOK, StillTaken
<1>5. job[x].at = "pool" => x = Loop /\ job[x].w \in handed' \ leased'
  <2>1. ASSUME job[x].at = "pool" PROVE ~LeaseAddressChannel
    BY <1>1, <2>1 DEF JobOK, LeaseAddressChannel
  <2> QED
    BY <1>1, <1>2, <2>1, LeasedShrinks DEF JobOK
<1> QED
  BY <1>1, <1>2, <1>3, <1>4, <1>5 DEF JobOK

(* Each thread goes on working on a wrapper it may work on. *)
LEMMA JobsStep ==
    ASSUME PoolInv, [Next]_vars
    PROVE  JobsOK'
<1> SUFFICES ASSUME NEW x \in Threads, job'[x] # job[x]
             PROVE  JobOK(job[x], x)'
  BY OthersKept DEF JobsOK
<1> USE DEF lifecycle, pool, wrappers, closes
<1>1. /\ job \in [Threads -> Job] /\ Loop \in Threads /\ Callers \subseteq Threads
      /\ \A a \in Addresses : free[a] \subseteq Wrappers
      /\ JobOK(job[x], x)
      /\ handed \subseteq handed'
      /\ \A w \in Wrappers : Used(w) => Used(w)'
  BY Frame, TransportKept DEF PoolInv, TypeOK, Threads, JobsOK
<1>2. /\ \A w \in handed : w \in Wrappers /\ Used(w)
      /\ soon \subseteq handed
  BY DEF PoolInv, TypeOK, WrappersOK
<1>3. ASSUME job'[x].at \in {"idle", "get"} PROVE JobOK(job[x], x)'
  BY <1>3 DEF JobOK, Holding
<1>4. ASSUME NEW w \in Wrappers, Used(w), job'[x].w = w,
             job'[x].at \in {"retire", "reserved", "register", "submit"}, x # Loop => w \in handed
      PROVE  JobOK(job[x], x)'
  BY <1>1, <1>4 DEF JobOK, Holding
<1>5. ASSUME NEW a \in Addresses, GetChannel(a) PROVE JobOK(job[x], x)'
  BY <1>1, <1>3, <1>5, JobFields DEF GetChannel
<1>6. ASSUME NEW a \in Addresses, GetPop(a) PROVE JobOK(job[x], x)'
  <2>1. x = Loop
    BY <1>1, <1>6 DEF GetPop
  <2>2. CASE job'[x] = Idle
    BY <1>3, <2>2, JobFields
  <2>3. ASSUME NEW w \in free[a], free' = [free EXCEPT ![a] = @ \ {w}], job'[x] = At("pooled", w),
               UNCHANGED <<transport, retired, leased, handed>>
        PROVE  JobOK(job[x], x)'
    <3>1. w \in Wrappers /\ Used(w) /\ w \notin retired \cup leased \cup handed
      BY <1>1, <2>3 DEF PoolInv, PoolConsistent
    <3>2. \A b \in Addresses : w \notin free'[b]
      BY <1>1, <2>3 DEF PoolInv, PoolConsistent, TypeOK
    <3> QED
      BY <1>1, <2>1, <2>3, <3>1, <3>2, JobFields DEF JobOK, Holding
  <2>4. ASSUME NEW w \in Wrappers, NEW t \in Transports, Unused(w),
               transport' = [transport EXCEPT ![w] = t], job'[x] = At("created", w),
               UNCHANGED <<free, retired, leased, handed>>
        PROVE  JobOK(job[x], x)'
    <3>1. w \notin retired \cup leased \cup handed /\ \A b \in Addresses : w \notin free[b]
      BY <2>4 DEF Unused, Used, PoolInv, PoolConsistent, WrappersOK
    <3>2. Used(w)'
      BY <2>4, PoolAssumption DEF Used, PoolInv, TypeOK
    <3>3. job'[x].w = w /\ job'[x].at = "created"
      BY <2>4, JobFields
    <3>4. \A b \in Addresses : w \notin free'[b]
      BY <2>4, <3>1
    <3>5. w \notin retired' \cup handed' \cup leased'
      BY <2>4, <3>1
    <3> QED
      BY <2>1, <3>2, <3>3, <3>4, <3>5 DEF JobOK, Holding
  <2> QED
    BY <1>1, <1>6, <2>1, <2>2, <2>3, <2>4 DEF GetPop
<1>7. CASE SkipShutdown \/ LeaseAddressChannel \/ CloseInsteadOfReturn
  <2>1. x = Loop
    BY <1>1, <1>7 DEF SkipShutdown, LeaseAddressChannel, CloseInsteadOfReturn
  <2>2. job[Loop].w \in Wrappers /\ Used(job[Loop].w)
    BY <1>1, <1>7, <2>1 DEF SkipShutdown, LeaseAddressChannel, CloseInsteadOfReturn, JobOK, Holding
  <2>3. \/ job'[x].at = "idle"
        \/ job'[x].at = "retire" /\ job'[x].w = job[Loop].w
    BY <1>1, <1>7, <2>1, JobFields DEF SkipShutdown, LeaseAddressChannel, CloseInsteadOfReturn
  <2> QED
    BY <1>3, <1>4, <2>1, <2>2, <2>3
<1>8. ASSUME NEW w \in Wrappers, NEW th \in Threads, w \in handed, ReleaseSeesClosed(th, w)
      PROVE  JobOK(job[x], x)'
  <2>1. x = th /\ (job'[x].at = "idle" \/ (job'[x].at = "retire" /\ job'[x].w = w))
    BY <1>1, <1>8, JobFields DEF ReleaseSeesClosed
  <2> QED
    BY <1>2, <1>3, <1>4, <1>8, <2>1
<1>9. ASSUME NEW w \in Wrappers, NEW discard \in BOOLEAN, w \in handed, ReleaseSeesOpen(w, discard),
             UNCHANGED <<transport, handed>>
      PROVE  JobOK(job[x], x)'
  <2>1. x = Loop
    BY <1>1, <1>9 DEF ReleaseSeesOpen
  <2>2. job'[x].at \in {"pool", "retire", "reserved"} /\ job'[x].w = w /\ w \notin leased'
    BY <1>1, <1>9, <2>1, JobFields DEF ReleaseSeesOpen
  <2> QED
    BY <1>1, <1>2, <1>4, <1>9, <2>1, <2>2 DEF JobOK, Holding
<1>10. ASSUME NEW w \in Wrappers, NEW discard \in BOOLEAN, Release(w, discard) PROVE JobOK(job[x], x)'
  BY <1>1, <1>8, <1>9, <1>10 DEF Release
<1>11. ASSUME NEW c \in Callers, NEW w \in Wrappers, ReleaseOffLoop(c, w) PROVE JobOK(job[x], x)'
  BY <1>1, <1>8, <1>11 DEF ReleaseOffLoop
<1>12. ASSUME NEW w \in Wrappers, RunSoon(w) PROVE JobOK(job[x], x)'
  BY <1>1, <1>2, <1>8, <1>9, <1>12, Zenon DEF RunSoon
<1>13. ASSUME NEW th \in Threads, NEW w \in Wrappers, ReleaseSoon(th, w) PROVE JobOK(job[x], x)'
  <2>1. x = th /\ job'[x].at = "retire" /\ job'[x].w = w
    BY <1>1, <1>13, JobFields DEF ReleaseSoon
  <2> QED
    BY <1>2, <1>4, <1>13, <2>1 DEF ReleaseSoon
<1>14. ASSUME NEW w \in Wrappers, FailSoon(w) PROVE JobOK(job[x], x)'
  <2>1. \/ job'[x].at = "idle"
        \/ job'[x].at \in {"retire", "reserved"} /\ job'[x].w = w /\ x = Loop
    BY <1>1, <1>14, JobFields DEF FailSoon
  <2> QED
    BY <1>2, <1>3, <1>4, <1>14, <2>1 DEF FailSoon
<1>15. CASE ReturnToPool
  BY <1>1, <1>3, <1>15, JobFields DEF ReturnToPool
<1>16. ASSUME NEW th \in Threads, ScheduleRetire(th) \/ ScheduleRegister(th) \/ ScheduleSubmit(th)
       PROVE  JobOK(job[x], x)'
  <2>1. x = th
    BY <1>1, <1>16, SMTT(30) DEF ScheduleRetire, ScheduleRegister, ScheduleSubmit
  <2>2. job[x].w \in Wrappers /\ Used(job[x].w) /\ (x # Loop => job[x].w \in handed)
    BY <1>1, <1>16, <2>1, SMTT(30) DEF ScheduleRetire, ScheduleRegister, ScheduleSubmit, JobOK, Holding
  <2>3. \/ job'[x].at \in {"idle", "get"}
        \/ job'[x].at \in {"register", "submit"} /\ job'[x].w = job[x].w
    BY <1>1, <1>16, <2>1, JobFields DEF ScheduleRetire, ScheduleRegister, ScheduleSubmit
  <2> QED
    BY <1>3, <1>4, <2>2, <2>3
<1>17. CASE \/ \E w \in Wrappers, t \in Transports : Adopt(w, t)
            \/ \E t \in Transports : NativeShutdown(t)
            \/ \E w \in Wrappers, via \in Via : RunClose(w, via)
            \/ RequestClose \/ SubmitClose \/ CloseSnapshot
            \/ CleanupStart \/ CleanupDone \/ DrainAndComplete
            \/ CleanupFailed \/ CloseRejected \/ StopLoop
            \/ Terminated \/ UNCHANGED vars
  <2>1. UNCHANGED job
    BY <1>17, Zenon DEF Adopt, NativeShutdown, RunClose, RequestClose, SubmitClose, CloseSnapshot,
                 CleanupStart, CleanupDone, DrainAndComplete, CleanupFailed, CloseRejected, StopLoop,
                 Terminated, vars
  <2> QED
    BY <2>1, SMTT(30)
<1> QED
  BY <1>5, <1>6, <1>7, <1>10, <1>11, <1>12, <1>13, <1>14, <1>15, <1>16, <1>17 DEF Next

-----------------------------------------------------------------------------
(* Why a wrapper gets committed to a close in a step: it was live until now,  *)
(* or it is a lease the cleanup takes over.  A failed task start is the only  *)
(* other way.                                                                 *)
NewlyDoomed(w) ==
    /\ Used(w) /\ w \in retired'
    /\ w \notin retired \/ w \in leased \/ TaskStartMayFail

LEMMA DoomedStep ==
    ASSUME PoolInv, [Next]_vars, NEW w \in Wrappers, Doomed(w)'
    PROVE  Doomed(w) \/ NewlyDoomed(w)
<1> USE DEF lifecycle, pool, wrappers, closes
<1> DEFINE Goal == Doomed(w) \/ NewlyDoomed(w)
<1>1. /\ job \in [Threads -> Job] /\ Loop \in Threads /\ Callers \subseteq Threads
      /\ \A v \in handed : v \in Wrappers /\ Used(v)
      /\ soon \subseteq handed
      /\ \A th \in Threads : job[th].at \in Holding => job[th].w \in Wrappers /\ Used(job[th].w)
  BY DEF PoolInv, TypeOK, Threads, JobsOK, JobOK, WrappersOK
<1>2. ASSUME NEW th \in Threads, Reserved(th, w)', job'[th] # job[th] PROVE Goal
  <2>1. job'[th].w = w /\ job'[th].at \in {"reserved", "register", "submit"}
    BY <1>2 DEF Reserved
  <2>2. ASSUME NEW v \in Wrappers, NEW discard \in BOOLEAN, v \in handed, ReleaseSeesOpen(v, discard)
        PROVE  Goal
    <3>1. v = w /\ discard /\ w \notin retired /\ w \in retired'
      BY <1>1, <1>2, <2>1, <2>2, JobFields DEF ReleaseSeesOpen
    <3> QED
      BY <1>1, <2>2, <3>1 DEF NewlyDoomed
  <2>3. ASSUME NEW v \in Wrappers, NEW u \in Threads, ReleaseSeesClosed(u, v) PROVE FALSE
    BY <1>1, <1>2, <2>1, <2>3, JobFields DEF ReleaseSeesClosed
  <2>4. ASSUME NEW v \in Wrappers, FailSoon(v) PROVE Goal
    <3>1. TaskStartMayFail /\ v = w /\ w \in handed /\ w \in retired /\ retired' = retired
      BY <1>1, <1>2, <2>1, <2>4, JobFields DEF FailSoon
    <3> QED
      BY <1>1, <3>1 DEF NewlyDoomed
  <2>5. ASSUME NEW u \in Threads, ScheduleRetire(u) PROVE Goal
    <3>1. u = th
      BY <1>1, <1>2, <2>5 DEF ScheduleRetire
    <3>2. /\ job[th].w = w /\ job[th].at \in {"retire", "reserved"}
          /\ job[th].at = "reserved" \/ w \notin retired
          /\ w \in retired'
      BY <1>1, <1>2, <2>1, <2>5, <3>1, JobFields DEF ScheduleRetire
    <3> QED
      BY <1>1, <3>2 DEF NewlyDoomed, Doomed, Reserved, Holding
  <2>6. ASSUME NEW u \in Threads, ScheduleRegister(u) PROVE Goal
    <3>1. u = th
      BY <1>1, <1>2, <2>6 DEF ScheduleRegister
    <3>2. job[th].w = w /\ job[th].at = "register"
      BY <1>1, <1>2, <2>1, <2>6, <3>1, JobFields DEF ScheduleRegister
    <3> QED
      BY <3>2 DEF Doomed, Reserved
  <2>7. ASSUME NEW u \in Threads, ScheduleSubmit(u) PROVE FALSE
    BY <1>1, <1>2, <2>1, <2>7, JobFields DEF ScheduleSubmit
  <2>8. ASSUME NEW u \in Threads, NEW v \in Wrappers, ReleaseSoon(u, v) PROVE FALSE
    BY <1>1, <1>2, <2>1, <2>8, JobFields DEF ReleaseSoon
  <2>9. CASE \/ \E a \in Addresses : GetChannel(a) \/ GetPop(a)
             \/ SkipShutdown \/ LeaseAddressChannel \/ ReturnToPool \/ CloseInsteadOfReturn
    <3>1. ASSUME NEW a \in Addresses, GetChannel(a) \/ GetPop(a) PROVE FALSE
      <4>1. th = Loop
        BY <1>1, <1>2, <3>1 DEF GetChannel, GetPop
      <4>2. \/ job'[Loop] \in {Idle, Doing("get", None, a)}
            \/ \E v : job'[Loop] \in {At("pooled", v), At("created", v)}
        BY <1>1, <3>1, Zenon DEF GetChannel, GetPop
      <4>3. job'[Loop].at \in {"idle", "get", "pooled", "created"}
        BY <4>2, JobFields
      <4> QED
        BY <2>1, <4>1, <4>3, SMTT(30)
    <3>2. CASE SkipShutdown \/ LeaseAddressChannel
      <4>1. th = Loop
        BY <1>1, <1>2, <3>2, Zenon DEF SkipShutdown, LeaseAddressChannel
      <4>2. \/ job'[Loop] \in {Idle, At("retire", job[Loop].w)}
            \/ \E b : job'[Loop] = Doing("retire", job[Loop].w, b)
        BY <1>1, <3>2 DEF SkipShutdown, LeaseAddressChannel
      <4>3. job'[Loop].at \in {"idle", "retire"}
        BY <4>2, JobFields, SMTT(30)
      <4> QED
        BY <2>1, <4>1, <4>3
    <3>3. CASE ReturnToPool \/ CloseInsteadOfReturn
      <4>1. th = Loop
        BY <1>1, <1>2, <3>3 DEF ReturnToPool, CloseInsteadOfReturn
      <4>2. job'[Loop] \in {Idle, At("retire", job[Loop].w)}
        BY <1>1, <3>3, Zenon DEF ReturnToPool, CloseInsteadOfReturn
      <4>3. job'[Loop].at \in {"idle", "retire"}
        BY <4>2, JobFields
      <4> QED
        BY <2>1, <4>1, <4>3
    <3> QED
      BY <2>9, <3>1, <3>2, <3>3
  <2>10. CASE \/ \E v \in Wrappers, t \in Transports : Adopt(v, t)
              \/ \E t \in Transports : NativeShutdown(t)
              \/ \E v \in Wrappers, via \in Via : RunClose(v, via)
              \/ RequestClose \/ SubmitClose \/ CloseSnapshot
              \/ CleanupStart \/ CleanupDone \/ DrainAndComplete
              \/ CleanupFailed \/ CloseRejected \/ StopLoop
              \/ Terminated \/ UNCHANGED vars
    BY <1>2, <2>10, Zenon DEF Adopt, NativeShutdown, RunClose, RequestClose, SubmitClose, CloseSnapshot,
                       CleanupStart, CleanupDone, DrainAndComplete, CleanupFailed, CloseRejected,
                       StopLoop, Terminated, vars
  <2>11. ASSUME NEW v \in Wrappers, NEW discard \in BOOLEAN, Release(v, discard) PROVE Goal
    BY <1>1, <2>2, <2>3, <2>11 DEF Release
  <2>12. ASSUME NEW c \in Callers, NEW v \in Wrappers, ReleaseOffLoop(c, v) PROVE Goal
    BY <1>1, <2>3, <2>12 DEF ReleaseOffLoop
  <2>13. ASSUME NEW v \in Wrappers, RunSoon(v) PROVE Goal
    BY <1>1, <2>2, <2>3, <2>13, Zenon DEF RunSoon
  <2> HIDE DEF Goal
  <2> QED
    BY <2>4, <2>5, <2>6, <2>7, <2>8, <2>9, <2>10, <2>11, <2>12, <2>13 DEF Next
<1>3. ASSUME NEW via \in Via, closeTask'[w][via] # "no", closeTask[w][via] = "no" PROVE Goal
  <2>1. closeTask \in [Wrappers -> [Via -> {"no", "pending", "done"}]]
    BY DEF PoolInv, TypeOK
  <2>2. ASSUME NEW th \in Threads, ScheduleRetire(th) PROVE Goal
    <3>1. /\ job[th].w = w /\ job[th].at \in {"retire", "reserved"}
          /\ job[th].at = "reserved" \/ w \notin retired
          /\ w \in retired'
      BY <1>1, <1>3, <2>1, <2>2 DEF ScheduleRetire, Holding
    <3> QED
      BY <1>1, <3>1 DEF NewlyDoomed, Doomed, Reserved, Holding
  <2>3. ASSUME NEW th \in Threads, ScheduleSubmit(th) PROVE Goal
    <3>1. job[th].w = w /\ job[th].at = "submit"
      BY <1>1, <1>3, <2>1, <2>3 DEF ScheduleSubmit, Holding
    <3> QED
      BY <3>1 DEF Doomed, Reserved
  <2>4. CASE CleanupStart
    BY <1>3, <2>1, <2>4 DEF CleanupStart, Doomed
  <2>5. CASE StopLoop
    BY <1>3, <2>1, <2>5 DEF StopLoop
  <2>6. ASSUME NEW v \in Wrappers, NEW x \in Via, RunClose(v, x) PROVE Goal
    BY <1>3, <2>1, <2>6 DEF RunClose
  <2>7. CASE UNCHANGED closeTask
    BY <1>3, <2>7
  <2>8. \/ UNCHANGED closeTask
        \/ \E th \in Threads : ScheduleRetire(th) \/ ScheduleSubmit(th)
        \/ CleanupStart \/ StopLoop
        \/ \E v \in Wrappers, x \in Via : RunClose(v, x)
    BY Zenon DEF Next, GetChannel, GetPop, SkipShutdown, LeaseAddressChannel, Adopt, NativeShutdown, Release,
           ReleaseOffLoop, ReleaseSoon, ReturnToPool, CloseInsteadOfReturn, RunSoon, FailSoon,
           ScheduleRegister, RequestClose, SubmitClose, CloseSnapshot, CleanupDone,
           DrainAndComplete, CleanupFailed, CloseRejected, Terminated, vars
  <2> HIDE DEF Goal
  <2> QED
    BY <2>2, <2>3, <2>4, <2>5, <2>6, <2>7, <2>8
<1>4. ASSUME w \in registered', w \notin registered PROVE Goal
  <2>1. ASSUME NEW th \in Threads, ScheduleRegister(th) PROVE Goal
    BY <1>4, <2>1 DEF ScheduleRegister, Doomed, Reserved
  <2>2. \/ registered' \subseteq registered
        \/ \E th \in Threads : ScheduleRegister(th)
    BY Zenon DEF Next, GetChannel, GetPop, SkipShutdown, LeaseAddressChannel, Adopt, NativeShutdown, Release,
           ReleaseOffLoop, ReleaseSoon, ReturnToPool, CloseInsteadOfReturn, RunSoon, FailSoon,
           ScheduleRetire, ScheduleSubmit, RunClose, RequestClose, SubmitClose, CloseSnapshot,
           CleanupStart, CleanupDone, DrainAndComplete, CleanupFailed, CloseRejected, StopLoop,
           Terminated, vars
  <2> QED
    BY <1>4, <2>1, <2>2
<1>5. ASSUME w \in snapshot', w \notin snapshot PROVE Goal
  <2>1. CloseSnapshot \/ UNCHANGED snapshot
    BY Zenon DEF Next, GetChannel, GetPop, SkipShutdown, LeaseAddressChannel, Adopt, NativeShutdown, Release,
           ReleaseOffLoop, ReleaseSoon, ReturnToPool, CloseInsteadOfReturn, RunSoon, FailSoon,
           ScheduleRetire, ScheduleRegister, ScheduleSubmit, RunClose, RequestClose, SubmitClose,
           CleanupStart, CleanupDone, DrainAndComplete, CleanupFailed, CloseRejected, StopLoop,
           Terminated, vars
  <2>2. w \in retired' /\ (w \in leased \/ \E a \in Addresses : w \in free[a])
    <3>1. /\ snapshot' = leased \cup UNION {free[a] : a \in Addresses}
          /\ retired' = retired \cup snapshot'
      BY <1>5, <2>1 DEF CloseSnapshot
    <3> QED
      BY <1>5, <3>1
  <2>3. Used(w) /\ (w \in leased \/ w \notin retired)
    BY <2>2 DEF PoolInv, PoolConsistent, WrappersOK
  <2> QED
    BY <2>2, <2>3 DEF NewlyDoomed
<1>6. CASE \E th \in Threads : Reserved(th, w)'
  <2>1. PICK th \in Threads : Reserved(th, w)'
    BY <1>6
  <2>2. CASE job'[th] = job[th]
    BY <2>1, <2>2 DEF Reserved, Doomed
  <2> QED
    BY <1>2, <2>1, <2>2
<1> QED
  BY <1>3, <1>4, <1>5, <1>6 DEF Doomed

=============================================================================
