-------------------------- MODULE ChannelPoolInv ---------------------------
(***************************************************************************)
(* Proofs about ChannelPool.  The inductive invariant PoolInv says, beside *)
(* the exclusive lease and the consistent pool, which wrappers each thread *)
(* may be working on, that a wrapper on its way to a native close is       *)
(* retired, and that a leased wrapper is the only one of its transport     *)
(* that may be live.  ClosingInv adds that a transport being closed has no *)
(* live wrapper at all; it needs task starts not to fail.                  *)
(***************************************************************************)
EXTENDS ChannelPool, FiniteSetTheorems, TLAPS

Holding == {"pooled", "created", "pool", "retire", "reserved", "register", "submit"}

(* A thread or the close machinery is committed to closing w. *)
Reserved(th, w) ==
    /\ job[th].w = w
    /\ job[th].at \in {"reserved", "register", "submit"}

Doomed(w) ==
    \/ \E th \in Threads : Reserved(th, w)
    \/ \E via \in Via : closeTask[w][via] # "no"
    \/ w \in registered
    \/ w \in snapshot

(* What a thread th may be doing: only the loop gets and returns wrappers; a *)
(* wrapper it has just taken is its own; the other threads work on wrappers   *)
(* that callers hold.                                                         *)
JobOK(j, th) ==
    /\ j.at \in Holding => j.w \in Wrappers /\ Used(j.w)
    /\ j.at \in Holding /\ th # Loop => j.w \in handed
    /\ j.at \in {"pooled", "created"} =>
          /\ th = Loop
          /\ j.w \notin retired \cup handed \cup leased
          /\ \A a \in Addresses : j.w \notin free[a]
    /\ j.at = "pool" => th = Loop /\ j.w \in handed \ leased

JobsOK == \A th \in Threads : JobOK(job[th], th)

WrappersOK ==
    /\ \A w \in Wrappers : w \in handed \cup leased \cup retired => Used(w)
    /\ leased \subseteq handed
    /\ soon \subseteq handed
    /\ \A w \in Wrappers : Used(w) => native[transport[w]] # "none"
    /\ \A w \in Wrappers : Doomed(w) => Used(w) /\ w \in retired

(* A leased wrapper may be retired, but no other wrapper of its transport is live. *)
LeasedSole ==
    \A v, w \in Wrappers : w \in leased /\ SameTransport(v, w) /\ v # w => v \in retired

PoolInv ==
    /\ TypeOK /\ ExclusiveLease /\ PoolConsistent
    /\ JobsOK /\ WrappersOK /\ LeasedSole

(* No wrapper of a transport that is being closed is live. *)
ClosingInv ==
    \A v, w \in Wrappers : SameTransport(v, w) /\ Doomed(w) => v \in retired

-----------------------------------------------------------------------------

(* Every record the actions put in job is a Job. *)
LEMMA JobType ==
    /\ Idle \in Job
    /\ \A stage \in Stages, w \in Wrappers \cup {None}, a \in Addresses \cup {None} :
          Doing(stage, w, a) \in Job
    /\ \A j \in Job : j.w \in Wrappers \cup {None} /\ j.addr \in Addresses \cup {None}
    /\ \A j \in Job : AfterSchedule(j) \in Job
BY SMTT(30) DEF Idle, Job, Doing, AfterSchedule, Stages

(* Each action keeps the types, given what PoolInv says about the jobs. *)
LEMMA TypeStep ==
    ASSUME PoolInv, [Next]_vars
    PROVE  TypeOK'
<1> USE PoolAssumption DEF PoolInv, TypeOK, JobsOK, JobOK, Holding, lifecycle, pool, wrappers, closes, Threads
<1>1. ASSUME NEW a \in Addresses, GetChannel(a) PROVE TypeOK'
  BY <1>1, JobType DEF GetChannel, Stages
<1>2. ASSUME NEW a \in Addresses, GetPop(a) PROVE TypeOK'
  <2>1. /\ free' \in [Addresses -> SUBSET Wrappers]
        /\ transport' \in [Wrappers -> Transports \cup {None}]
        /\ native' \in [Transports -> {"none", "open", "shutdown", "closed"}]
    BY <1>2 DEF GetPop
  <2>2. job' \in [Threads -> Job]
    <3>1. \A w \in Wrappers : At("pooled", w) \in Job /\ At("created", w) \in Job
      BY JobType DEF At, Stages
    <3> QED
      BY <1>2, <3>1, JobType DEF GetPop
  <2> QED
    BY <1>2, <2>1, <2>2 DEF GetPop
<1>3. CASE SkipShutdown
  BY <1>3, JobType DEF SkipShutdown, At, Stages, Used
<1>4. CASE LeaseAddressChannel
  BY <1>4, JobType DEF LeaseAddressChannel, At, Stages, Used
<1>5. ASSUME NEW w \in Wrappers, NEW t \in Transports, Adopt(w, t) PROVE TypeOK'
  BY <1>5, JobType DEF Adopt
<1>6. ASSUME NEW t \in Transports, NativeShutdown(t) PROVE TypeOK'
  BY <1>6, JobType DEF NativeShutdown
<1>7. ASSUME NEW w \in Wrappers, NEW discard \in BOOLEAN, Release(w, discard) PROVE TypeOK'
  BY <1>7, JobType DEF Release, ReleaseSeesOpen, ReleaseSeesClosed, At, Stages
<1>8. ASSUME NEW c \in Callers, NEW w \in Wrappers, ReleaseOffLoop(c, w) PROVE TypeOK'
  BY <1>8, JobType DEF ReleaseOffLoop, ReleaseSeesClosed, At, Stages
<1>9. ASSUME NEW th \in Threads, NEW w \in Wrappers, ReleaseSoon(th, w) PROVE TypeOK'
  BY <1>9, JobType DEF ReleaseSoon, At, Stages
<1>10. CASE ReturnToPool
  <2>1. job[Loop].w \in Wrappers /\ transport[job[Loop].w] \in Transports \cup {None}
    BY <1>10 DEF ReturnToPool, ReturnableTo
  <2>2. /\ free' \in [Addresses -> SUBSET Wrappers]
        /\ transport' \in [Wrappers -> Transports \cup {None}]
    <3> DEFINE a == AddressOf[transport[job[Loop].w]]
    <3>1. PICK lease \in Wrappers :
              /\ transport' = [transport EXCEPT ![lease] = transport[job[Loop].w]]
              /\ free' = [free EXCEPT ![a] = @ \cup {lease}]
      BY <1>10, Zenon DEF ReturnToPool
    <3>2. transport' \in [Wrappers -> Transports \cup {None}]
      BY <2>1, <3>1
    <3>3. free \in [Addresses -> SUBSET Wrappers]
      OBVIOUS
    <3>4. \A x \in Addresses : free'[x] = free[x] \/ free'[x] = free[x] \cup {lease}
      BY <3>1, <3>3
    <3>5. free' \in [Addresses -> SUBSET Wrappers]
      <4>1. free' = [x \in Addresses |-> free'[x]]
        BY <3>1, <3>3, Zenon
      <4>2. \A x \in Addresses : free'[x] \in SUBSET Wrappers
        BY <3>3, <3>4, SMTT(30)
      <4> QED
        BY <4>1, <4>2, Zenon
    <3> QED
      BY <3>2, <3>5
  <2>3. retired' \in SUBSET Wrappers
    BY <1>10, <2>1 DEF ReturnToPool
  <2>4. job' \in [Threads -> Job]
    <3>1. job' = [job EXCEPT ![Loop] = Idle]
      BY <1>10, Zenon DEF ReturnToPool
    <3> QED
      BY <3>1, JobType
  <2>5. UNCHANGED <<lifecycle, leased, closedBySdk, handed, native, closes, soon>>
    BY <1>10, Zenon DEF ReturnToPool
  <2> QED
    BY <2>2, <2>3, <2>4, <2>5, SMTT(30)
<1>11. CASE CloseInsteadOfReturn
  BY <1>11, JobType DEF CloseInsteadOfReturn, At, Stages
<1>12. ASSUME NEW w \in Wrappers, RunSoon(w) PROVE TypeOK'
  BY <1>12, JobType DEF RunSoon, ReleaseSeesOpen, ReleaseSeesClosed, At, Stages
<1>13. ASSUME NEW w \in Wrappers, FailSoon(w) PROVE TypeOK'
  BY <1>13, JobType DEF FailSoon, At, Stages
<1>14. ASSUME NEW th \in Threads, ScheduleRetire(th) PROVE TypeOK'
  <2>1. job[th] \in Job /\ job[th].w \in Wrappers
    BY <1>14 DEF ScheduleRetire
  <2>2. closeTask' \in [Wrappers -> [Via -> {"no", "pending", "done"}]]
    <3> DEFINE Tasks == [Wrappers -> [Via -> {"no", "pending", "done"}]]
               Set(phase) == [closeTask EXCEPT ![job[th].w]["scheduled"] = phase]
    <3>1. closeTask \in Tasks /\ \A phase \in {"pending", "done"} : Set(phase) \in Tasks
      BY <2>1 DEF Via
    <3>2. closeTask' = closeTask \/ \E phase \in {"pending", "done"} : closeTask' = Set(phase)
      BY <1>14, Zenon DEF ScheduleRetire
    <3>3. closeTask' \in Tasks
      <4> HIDE DEF Tasks, Set
      <4> QED
        BY <3>1, <3>2
    <3> QED
      BY <3>3
  <2>3. job' \in [Threads -> Job]
    <3>1. /\ AfterSchedule(job[th]) \in Job
          /\ Doing("register", job[th].w, job[th].addr) \in Job
          /\ Doing("submit", job[th].w, job[th].addr) \in Job
      BY <2>1, JobType DEF Stages
    <3>2. \/ job' = [job EXCEPT ![th] = AfterSchedule(job[th])]
          \/ job' = [job EXCEPT ![th] = Doing("register", job[th].w, job[th].addr)]
          \/ job' = [job EXCEPT ![th] = Doing("submit", job[th].w, job[th].addr)]
      BY <1>14, Zenon DEF ScheduleRetire
    <3> QED
      BY <3>1, <3>2
  <2> QED
    BY <1>14, <2>1, <2>2, <2>3 DEF ScheduleRetire
<1>15. ASSUME NEW th \in Threads, ScheduleRegister(th) PROVE TypeOK'
  <2>1. job[th] \in Job /\ job[th].w \in Wrappers
    BY <1>15 DEF ScheduleRegister
  <2>3. job' \in [Threads -> Job]
    <3>1. /\ AfterSchedule(job[th]) \in Job
          /\ Doing("register", job[th].w, job[th].addr) \in Job
          /\ Doing("submit", job[th].w, job[th].addr) \in Job
      BY <2>1, JobType DEF Stages
    <3> QED
      BY <1>15, <3>1 DEF ScheduleRegister
  <2> QED
    BY <1>15, <2>1, <2>3 DEF ScheduleRegister
<1>16. ASSUME NEW th \in Threads, ScheduleSubmit(th) PROVE TypeOK'
  <2>1. job[th] \in Job /\ job[th].w \in Wrappers
    BY <1>16 DEF ScheduleSubmit
  <2>2. closeTask' \in [Wrappers -> [Via -> {"no", "pending", "done"}]]
    <3> DEFINE Tasks == [Wrappers -> [Via -> {"no", "pending", "done"}]]
               Set(phase) == [closeTask EXCEPT ![job[th].w]["scheduled"] = phase]
    <3>1. closeTask \in Tasks /\ \A phase \in {"pending", "done"} : Set(phase) \in Tasks
      BY <2>1 DEF Via
    <3>2. closeTask' = closeTask \/ \E phase \in {"pending", "done"} : closeTask' = Set(phase)
      BY <1>16, Zenon DEF ScheduleSubmit
    <3>3. closeTask' \in Tasks
      <4> HIDE DEF Tasks, Set
      <4> QED
        BY <3>1, <3>2
    <3> QED
      BY <3>3
  <2>3. job' \in [Threads -> Job]
    <3>1. /\ AfterSchedule(job[th]) \in Job
          /\ Doing("register", job[th].w, job[th].addr) \in Job
          /\ Doing("submit", job[th].w, job[th].addr) \in Job
      BY <2>1, JobType DEF Stages
    <3>2. \/ job' = [job EXCEPT ![th] = AfterSchedule(job[th])]
          \/ job' = [job EXCEPT ![th] = Doing("register", job[th].w, job[th].addr)]
          \/ job' = [job EXCEPT ![th] = Doing("submit", job[th].w, job[th].addr)]
      BY <1>16, Zenon DEF ScheduleSubmit
    <3> QED
      BY <3>1, <3>2
  <2> QED
    BY <1>16, <2>1, <2>2, <2>3 DEF ScheduleSubmit
<1>17. ASSUME NEW w \in Wrappers, NEW via \in Via, RunClose(w, via) PROVE TypeOK'
  BY <1>17, JobType DEF RunClose
<1>18. CASE RequestClose
  BY <1>18, JobType DEF RequestClose
<1>19. CASE SubmitClose
  BY <1>19, JobType, Zenon DEF SubmitClose
<1>20. CASE CloseSnapshot
  BY <1>20, JobType DEF CloseSnapshot
<1>21. CASE CleanupStart
  <2>1. \A phase \in {"pending", "done"}, w \in Wrappers, via \in Via :
            [closeTask[w] EXCEPT ![via] = phase] \in [Via -> {"no", "pending", "done"}]
    OBVIOUS
  <2>2. closeTask' \in [Wrappers -> [Via -> {"no", "pending", "done"}]]
    BY <1>21, <2>1 DEF CleanupStart, Via
  <2> QED
    BY <1>21, <2>2 DEF CleanupStart
<1>22. CASE CleanupDone
  BY <1>22, JobType DEF CleanupDone
<1>23. CASE DrainAndComplete
  BY <1>23, JobType DEF DrainAndComplete
<1>24. CASE CleanupFailed
  BY <1>24, JobType DEF CleanupFailed
<1>25. CASE CloseRejected
  BY <1>25, JobType, SMTT(30) DEF CloseRejected
<1>26. CASE StopLoop
  BY <1>26, JobType, Zenon DEF StopLoop
<1>27. CASE Terminated
  BY <1>27 DEF Terminated, vars
<1>28. CASE UNCHANGED vars
  BY <1>28 DEF vars
<1> QED
  <2> HIDE DEF TypeOK
  <2> QED
    BY <1>1, <1>2, <1>3, <1>4, <1>5, <1>6, <1>7, <1>8, <1>9, <1>10, <1>11, <1>12, <1>13, <1>14, <1>15, <1>16, <1>17, <1>18, <1>19, <1>20, <1>21, <1>22, <1>23, <1>24, <1>25, <1>26, <1>27, <1>28 DEF Next

-----------------------------------------------------------------------------
(* Wrappers are made by three actions only, and retirement is permanent. *)
LEMMA Frame ==
    ASSUME [Next]_vars
    PROVE  /\ retired \subseteq retired'
           /\ handed \subseteq handed'
           /\ \/ UNCHANGED transport
              \/ \E a \in Addresses : GetPop(a)
              \/ \E w \in Wrappers, t \in Transports : Adopt(w, t)
              \/ ReturnToPool
<1> USE DEF lifecycle, pool, wrappers, closes
<1>1. CASE \/ \E a \in Addresses : GetChannel(a) \/ GetPop(a)
           \/ SkipShutdown
           \/ LeaseAddressChannel
           \/ \E w \in Wrappers, t \in Transports : Adopt(w, t)
           \/ \E t \in Transports : NativeShutdown(t)
  BY <1>1 DEF GetChannel, GetPop, SkipShutdown, LeaseAddressChannel, Adopt, NativeShutdown
<1>2. CASE \/ \E w \in Wrappers, discard \in BOOLEAN : Release(w, discard)
           \/ \E c \in Callers, w \in Wrappers : ReleaseOffLoop(c, w)
           \/ \E th \in Threads, w \in Wrappers : ReleaseSoon(th, w)
           \/ ReturnToPool
           \/ CloseInsteadOfReturn
           \/ \E w \in Wrappers : RunSoon(w) \/ FailSoon(w)
  <2>1. CASE \/ \E w \in Wrappers, discard \in BOOLEAN : Release(w, discard)
             \/ \E c \in Callers, w \in Wrappers : ReleaseOffLoop(c, w)
             \/ \E w \in Wrappers : RunSoon(w)
    BY <2>1 DEF Release, ReleaseOffLoop, RunSoon, ReleaseSeesOpen, ReleaseSeesClosed
  <2>2. CASE \/ \E th \in Threads, w \in Wrappers : ReleaseSoon(th, w)
             \/ CloseInsteadOfReturn
             \/ \E w \in Wrappers : FailSoon(w)
    BY <2>2, SMTT(30) DEF ReleaseSoon, CloseInsteadOfReturn, FailSoon
  <2>3. CASE ReturnToPool
    <3>1. retired' = retired \cup {job[Loop].w} /\ UNCHANGED handed
      BY <2>3, Zenon DEF ReturnToPool
    <3> QED
      BY <2>3, <3>1
  <2> QED
    BY <1>2, <2>1, <2>2, <2>3, Zenon
<1>3. CASE \/ \E th \in Threads : ScheduleRetire(th) \/ ScheduleRegister(th) \/ ScheduleSubmit(th)
           \/ \E w \in Wrappers, via \in Via : RunClose(w, via)
  BY <1>3, Zenon DEF ScheduleRetire, ScheduleRegister, ScheduleSubmit, RunClose
<1>4. CASE \/ RequestClose \/ SubmitClose \/ CloseSnapshot
           \/ CleanupStart \/ CleanupDone \/ DrainAndComplete
           \/ CleanupFailed \/ CloseRejected
           \/ StopLoop
           \/ Terminated
           \/ UNCHANGED vars
  BY <1>4, SMTT(30) DEF RequestClose, SubmitClose, CloseSnapshot, CleanupStart, CleanupDone, DrainAndComplete,
              CleanupFailed, CloseRejected, StopLoop, Terminated, vars
<1> QED
  BY <1>1, <1>2, <1>3, <1>4 DEF Next

(* What the three actions that make a wrapper do to the transports. *)
LEMMA NewWrapper ==
    ASSUME PoolInv, [Next]_vars
    PROVE  \/ UNCHANGED transport
           \/ \E w \in Wrappers, t \in Transports :
                 /\ ~Used(w) /\ \A v \in Wrappers : transport[v] # t
                 /\ transport' = [transport EXCEPT ![w] = t]
                 /\ UNCHANGED <<retired, leased>>
                 /\ native' = [native EXCEPT ![t] = "open"]
           \/ \E w \in Wrappers :
                 /\ ReturnToPool
                 /\ ~Used(w)
                 /\ transport' = [transport EXCEPT ![w] = transport[job[Loop].w]]
                 /\ free' = [free EXCEPT ![AddressOf[transport[job[Loop].w]]] = @ \cup {w}]
<1> USE DEF PoolInv, TypeOK, WrappersOK, Used, Unused, pool, wrappers
<1>1. ASSUME NEW a \in Addresses, GetPop(a), ~UNCHANGED transport
      PROVE  \E w \in Wrappers, t \in Transports :
                 /\ ~Used(w) /\ \A v \in Wrappers : transport[v] # t
                 /\ transport' = [transport EXCEPT ![w] = t]
                 /\ UNCHANGED <<retired, leased>>
                 /\ native' = [native EXCEPT ![t] = "open"]
  <2>1. PICK w \in Wrappers, t \in Transports :
            /\ Unused(w) /\ native[t] = "none"
            /\ transport' = [transport EXCEPT ![w] = t]
            /\ native' = [native EXCEPT ![t] = "open"]
    BY <1>1, SMTT(30) DEF GetPop
  <2>2. \A v \in Wrappers : transport[v] # t
    BY <2>1, PoolAssumption
  <2> QED
    BY <1>1, <2>1, <2>2 DEF GetPop
<1>2. ASSUME NEW w \in Wrappers, NEW t \in Transports, Adopt(w, t)
      PROVE  /\ ~Used(w) /\ \A v \in Wrappers : transport[v] # t
             /\ transport' = [transport EXCEPT ![w] = t]
             /\ UNCHANGED <<retired, leased>>
             /\ native' = [native EXCEPT ![t] = "open"]
  BY <1>2, PoolAssumption DEF Adopt
<1>3. ASSUME ReturnToPool
      PROVE  \E w \in Wrappers :
                 /\ ~Used(w)
                 /\ transport' = [transport EXCEPT ![w] = transport[job[Loop].w]]
                 /\ free' = [free EXCEPT ![AddressOf[transport[job[Loop].w]]] = @ \cup {w}]
  BY <1>3, Zenon DEF ReturnToPool
<1> QED
  BY <1>1, <1>2, <1>3, Frame, SMTT(30)

(* At most one wrapper of a transport stays live. *)
LEMMA ExclusiveStep ==
    ASSUME PoolInv, [Next]_vars
    PROVE  ExclusiveLease'
<1> USE DEF PoolInv, TypeOK, ExclusiveLease, SameTransport, Used
<1>1. retired \subseteq retired'
  BY Frame
<1>2. CASE UNCHANGED transport
  BY <1>1, <1>2
<1>3. ASSUME NEW w \in Wrappers, NEW t \in Transports,
             ~Used(w) /\ \A v \in Wrappers : transport[v] # t,
             transport' = [transport EXCEPT ![w] = t]
      PROVE  ExclusiveLease'
  BY <1>1, <1>3, PoolAssumption
<1>4. ASSUME NEW w \in Wrappers, ReturnToPool, ~Used(w),
             transport' = [transport EXCEPT ![w] = transport[job[Loop].w]]
      PROVE  ExclusiveLease'
  <2>1. job[Loop].w \in Wrappers /\ Used(job[Loop].w) /\ job[Loop].w \notin retired
    <3>1. job[Loop].at = "pool" /\ job[Loop].w \notin retired /\ JobOK(job[Loop], Loop)
      BY <1>4, Zenon DEF ReturnToPool, ReturnableTo, JobsOK, Threads
    <3> QED
      BY <3>1 DEF JobOK, Holding
  <2>2. job[Loop].w \in retired'
    <3>1. retired' = retired \cup {job[Loop].w}
      BY <1>4, Zenon DEF ReturnToPool
    <3> QED
      BY <3>1
  <2> QED
    BY <1>1, <1>4, <2>1, <2>2
<1> QED
  <2> HIDE DEF PoolInv, ExclusiveLease
  <2> QED
    BY <1>2, <1>3, <1>4, NewWrapper

-----------------------------------------------------------------------------
(* No entry of the free list is added or disturbed. *)
PoolKept ==
    \A a \in Addresses :
        /\ free'[a] \subseteq free[a]
        /\ \A w \in free'[a] : /\ w \notin retired' \cup leased' \cup handed'
                               /\ transport'[w] = transport[w]

(* The free list shrinks or keeps its entries, except in ReturnToPool. *)
LEMMA PoolKeptStep ==
    ASSUME PoolInv, [Next]_vars, ~ReturnToPool
    PROVE  PoolKept
<1> USE PoolAssumption DEF PoolInv, TypeOK, PoolConsistent, PoolKept, Used, lifecycle, pool, wrappers, closes
<1>1. ASSUME NEW a \in Addresses, GetPop(a) PROVE PoolKept
  BY <1>1, SMTT(30) DEF GetPop, Unused
<1>2. CASE LeaseAddressChannel
  <2>1. \A a \in Addresses : job[Loop].w \notin free[a]
    BY <1>2 DEF LeaseAddressChannel, JobsOK, JobOK, Threads
  <2> QED
    BY <1>2, <2>1, SMTT(30) DEF LeaseAddressChannel
<1>3. ASSUME NEW w \in Wrappers, NEW t \in Transports, Adopt(w, t) PROVE PoolKept
  BY <1>3 DEF Adopt, Unused
<1>4. ASSUME NEW w \in Wrappers, NEW discard \in BOOLEAN, Release(w, discard) PROVE PoolKept
  BY <1>4 DEF Release, ReleaseSeesOpen, ReleaseSeesClosed
<1>5. ASSUME NEW c \in Callers, NEW w \in Wrappers, ReleaseOffLoop(c, w) PROVE PoolKept
  BY <1>5 DEF ReleaseOffLoop, ReleaseSeesClosed
<1>6. ASSUME NEW w \in Wrappers, RunSoon(w) PROVE PoolKept
  BY <1>6, SMTT(30) DEF RunSoon, ReleaseSeesOpen, ReleaseSeesClosed, WrappersOK
<1>7. ASSUME NEW th \in Threads, ScheduleRetire(th) PROVE PoolKept
  BY <1>7 DEF ScheduleRetire
<1>8. ASSUME NEW w \in Wrappers, NEW via \in Via, RunClose(w, via) PROVE PoolKept
  <2>1. w \in retired
    BY <1>8 DEF RunClose, WrappersOK, Doomed
  <2> QED
    BY <1>8, <2>1 DEF RunClose
<1>9. CASE CloseSnapshot
  BY <1>9 DEF CloseSnapshot
<1>10. CASE CleanupDone \/ CleanupFailed
  BY <1>10 DEF CleanupDone, CleanupFailed
<1>11. CASE \/ \E a \in Addresses : GetChannel(a)
            \/ SkipShutdown
            \/ \E t \in Transports : NativeShutdown(t)
            \/ \E th \in Threads, w \in Wrappers : ReleaseSoon(th, w)
            \/ CloseInsteadOfReturn
            \/ \E w \in Wrappers : FailSoon(w)
            \/ \E th \in Threads : ScheduleRegister(th) \/ ScheduleSubmit(th)
  <2>1. UNCHANGED <<free, leased, retired, handed, transport>>
    BY <1>11, Zenon DEF GetChannel, SkipShutdown, NativeShutdown, ReleaseSoon, CloseInsteadOfReturn,
                        FailSoon, ScheduleRegister, ScheduleSubmit
  <2> QED
    BY <2>1
<1>12. CASE \/ RequestClose \/ SubmitClose \/ CleanupStart \/ DrainAndComplete
            \/ CloseRejected \/ StopLoop \/ Terminated \/ UNCHANGED vars
  BY <1>12 DEF RequestClose, SubmitClose, CleanupStart, DrainAndComplete, CloseRejected, StopLoop,
               Terminated, vars
<1> QED
  <2> HIDE DEF PoolInv, PoolKept
  <2> QED
    BY <1>1, <1>2, <1>3, <1>4, <1>5, <1>6, <1>7, <1>8, <1>9, <1>10, <1>11, <1>12, SMTT(30) DEF Next

(* The pool stays consistent; its length is bounded because ReturnToPool     *)
(* tests it in the critical section that appends.                            *)
LEMMA PoolStep ==
    ASSUME PoolInv, [Next]_vars
    PROVE  PoolConsistent'
<1>1. /\ free \in [Addresses -> SUBSET Wrappers]
      /\ transport \in [Wrappers -> Transports \cup {None}]
      /\ MaxFree \in Nat
      /\ PoolConsistent
  BY PoolAssumption DEF PoolInv, TypeOK
<1>2. \A a \in Addresses : IsFiniteSet(free[a]) /\ Cardinality(free[a]) \in Nat
  BY <1>1, PoolAssumption, FS_Subset, FS_CardinalityType
<1>3. CASE PoolKept
  <2>1. ASSUME NEW a \in Addresses PROVE Cardinality(free'[a]) <= MaxFree
    <3>1. Cardinality(free'[a]) <= Cardinality(free[a]) /\ Cardinality(free'[a]) \in Nat
      BY <1>2, <1>3, FS_Subset, FS_CardinalityType DEF PoolKept
    <3>2. Cardinality(free[a]) <= MaxFree
      BY <1>1 DEF PoolConsistent
    <3> QED
      BY <1>1, <1>2, <3>1, <3>2, SMTT(30)
  <2>2. ASSUME NEW a \in Addresses, NEW w \in free'[a]
        PROVE  /\ transport'[w] # None /\ AddressOf[transport'[w]] = a
               /\ w \notin retired' \cup leased' \cup handed'
    BY <1>1, <1>3 DEF PoolKept, PoolConsistent, Used
  <2> QED
    BY <2>1, <2>2, Zenon DEF PoolConsistent, Used
<1>4. CASE ReturnToPool
  <2> DEFINE w == job[Loop].w
             b == AddressOf[transport[w]]
  <2>1. w \in Wrappers /\ transport[w] # None /\ w \in handed /\ b \in Addresses
    <3>1. job[Loop].at = "pool" /\ JobOK(job[Loop], Loop)
      BY <1>4, Zenon DEF ReturnToPool, ReturnableTo, PoolInv, JobsOK, Threads
    <3>2. w \in Wrappers /\ Used(w) /\ w \in handed
      BY <3>1 DEF JobOK, Holding
    <3> QED
      BY <1>1, <3>2, PoolAssumption DEF Used
  <2>2. PICK lease \in Wrappers :
            /\ Unused(lease)
            /\ transport' = [transport EXCEPT ![lease] = transport[w]]
            /\ free' = [free EXCEPT ![b] = @ \cup {lease}]
    BY <1>4, Zenon DEF ReturnToPool
  <2>3. /\ Cardinality(free[b]) < MaxFree
        /\ retired' = retired \cup {w}
        /\ leased' = leased /\ handed' = handed
    BY <1>4, Zenon DEF ReturnToPool
  <2>4. /\ transport[lease] = None /\ lease # w
        /\ lease \notin retired \cup leased \cup handed
        /\ \A a \in Addresses : lease \notin free[a]
    BY <1>1, <2>1, <2>2, SMTT(30) DEF Unused, Used, PoolInv, WrappersOK, PoolConsistent
  <2>5. free'[b] = free[b] \cup {lease} /\ \A a \in Addresses \ {b} : free'[a] = free[a]
    BY <1>1, <2>1, <2>2
  <2>6. transport'[lease] = transport[w] /\ \A u \in Wrappers \ {lease} : transport'[u] = transport[u]
    BY <1>1, <2>2
  <2>7. b = AddressOf[transport[w]]
    OBVIOUS
  <2> HIDE DEF b
  <2>8. ASSUME NEW a \in Addresses PROVE Cardinality(free'[a]) <= MaxFree
    <3>1. CASE a # b
      BY <1>1, <2>5, <3>1 DEF PoolConsistent
    <3>2. CASE a = b
      <4>1. Cardinality(free[b] \cup {lease}) = Cardinality(free[b]) + 1
        BY <1>2, <2>1, <2>4, FS_AddElement, Zenon
      <4>2. Cardinality(free'[a]) = Cardinality(free[b]) + 1
        BY <2>5, <3>2, <4>1
      <4>3. Cardinality(free[b]) \in Nat /\ Cardinality(free[b]) < MaxFree
        BY <1>2, <2>1, <2>3
      <4> QED
        BY <1>1, <4>2, <4>3
    <3> QED
      BY <3>1, <3>2
  <2>9. ASSUME NEW a \in Addresses, NEW u \in free'[a]
        PROVE  /\ transport'[u] # None /\ AddressOf[transport'[u]] = a
               /\ u \notin retired' \cup leased' \cup handed'
    <3>1. CASE u = lease
      <4>1. a = b
        BY <2>4, <2>5, <3>1
      <4> QED
        BY <2>1, <2>3, <2>4, <2>6, <2>7, <3>1, <4>1
    <3>2. CASE u # lease
      <4>1. u \in free[a] /\ u \in Wrappers
        BY <1>1, <2>5, <3>2
      <4>2. /\ transport[u] # None /\ AddressOf[transport[u]] = a
            /\ u \notin retired \cup leased \cup handed
        BY <1>1, <4>1 DEF PoolConsistent, Used
      <4> QED
        BY <2>1, <2>3, <2>6, <3>2, <4>1, <4>2
    <3> QED
      BY <3>1, <3>2
  <2> QED
    BY <2>8, <2>9, Zenon DEF PoolConsistent, Used
<1> QED
  BY <1>3, <1>4, PoolKeptStep, Zenon

=============================================================================
