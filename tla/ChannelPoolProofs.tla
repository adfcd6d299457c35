------------------------- MODULE ChannelPoolProofs -------------------------
(***************************************************************************)
(* The theorems about ChannelPool.                                         *)
(***************************************************************************)
EXTENDS ChannelPoolSteps

(* Wrappers that are held, leased or retired exist, and so do their channels. *)
LEMMA WrappersStep ==
    ASSUME PoolInv, [Next]_vars
    PROVE  WrappersOK'
<1> USE DEF lifecycle, pool, wrappers, closes
<1>1. /\ \A w \in Wrappers : w \in handed \cup leased \cup retired => Used(w)
      /\ leased \subseteq handed /\ soon \subseteq handed
      /\ \A w \in Wrappers : Doomed(w) => Used(w) /\ w \in retired
      /\ \A th \in Threads : job[th].at \in Holding => job[th].w \in Wrappers /\ Used(job[th].w)
      /\ \A a \in Addresses : free[a] \subseteq Wrappers /\ \A w \in free[a] : Used(w)
      /\ Loop \in Threads
  BY DEF PoolInv, TypeOK, WrappersOK, JobsOK, JobOK, PoolConsistent, Threads
<1>2. /\ \A w \in Wrappers : Used(w) => Used(w)' /\ transport'[w] = transport[w]
      /\ retired \subseteq retired' /\ handed \subseteq handed'
  BY TransportKept, Frame
<1>3. leased' \subseteq handed'
  <2>1. CASE LeaseAddressChannel
    BY <1>1, <2>1 DEF LeaseAddressChannel
  <2> QED
    BY <1>1, <1>2, <2>1, LeasedShrinks
<1>4. soon' \subseteq handed'
  <2>1. soon' \subseteq soon \/ \E th \in Threads, w \in Wrappers : ReleaseSoon(th, w)
    BY Zenon DEF Next, GetChannel, GetPop, SkipShutdown, LeaseAddressChannel, Adopt, NativeShutdown, Release,
           ReleaseOffLoop, ReturnToPool, CloseInsteadOfReturn, RunSoon, FailSoon, ScheduleRetire,
           ScheduleRegister, ScheduleSubmit, RunClose, RequestClose, SubmitClose, CloseSnapshot,
           CleanupStart, CleanupDone, DrainAndComplete, CleanupFailed, CloseRejected, StopLoop,
           Terminated, vars
  <2>2. ASSUME NEW th \in Threads, NEW w \in Wrappers, ReleaseSoon(th, w) PROVE soon' \subseteq handed'
    BY <1>1, <1>2, <2>2 DEF ReleaseSoon
  <2> QED
    BY <1>1, <1>2, <2>1, <2>2
<1>5. ASSUME NEW w \in Wrappers, w \in handed', w \notin handed PROVE Used(w)'
  <2>1. CASE LeaseAddressChannel
    BY <1>1, <1>2, <1>5, <2>1 DEF LeaseAddressChannel, Holding
  <2>2. ASSUME NEW v \in Wrappers, NEW t \in Transports, Adopt(v, t) PROVE Used(w)'
    <3>1. v = w /\ transport' = [transport EXCEPT ![w] = t]
      BY <1>5, <2>2 DEF Adopt
    <3> QED
      BY <3>1, PoolAssumption DEF Used, PoolInv, TypeOK
  <2>3. \/ LeaseAddressChannel \/ \E v \in Wrappers, t \in Transports : Adopt(v, t)
        \/ UNCHANGED handed
    BY Zenon DEF Next, GetChannel, GetPop, SkipShutdown, NativeShutdown, Release, ReleaseSoon,
           ReleaseOffLoop, ReturnToPool, CloseInsteadOfReturn, RunSoon, FailSoon, ScheduleRetire,
           ScheduleRegister, ScheduleSubmit, RunClose, RequestClose, SubmitClose, CloseSnapshot,
           CleanupStart, CleanupDone, DrainAndComplete, CleanupFailed, CloseRejected, StopLoop,
           Terminated, vars
  <2> QED
    BY <1>5, <2>1, <2>2, <2>3
<1>6. ASSUME NEW w \in Wrappers, w \in retired', w \notin retired PROVE Used(w)
  <2>1. CASE \/ \E v \in Wrappers, discard \in BOOLEAN : Release(v, discard)
             \/ \E v \in Wrappers : RunSoon(v)
    BY <1>1, <1>6, <2>1, SMTT(30) DEF Release, RunSoon, ReleaseSeesOpen, ReleaseSeesClosed
  <2>2. CASE ReturnToPool
    BY <1>1, <1>6, <2>2 DEF ReturnToPool, ReturnableTo, Holding
  <2>3. CASE \E th \in Threads : ScheduleRetire(th)
    BY <1>1, <1>6, <2>3 DEF ScheduleRetire, Holding
  <2>4. CASE \E v \in Wrappers, via \in Via : RunClose(v, via)
    BY <1>1, <1>6, <2>4 DEF RunClose, Doomed
  <2>5. CASE CloseSnapshot
    BY <1>1, <1>6, <2>5 DEF CloseSnapshot
  <2>6. \/ UNCHANGED retired \/ ReturnToPool \/ CloseSnapshot
        \/ \E v \in Wrappers, discard \in BOOLEAN : Release(v, discard)
        \/ \E v \in Wrappers : RunSoon(v)
        \/ \E th \in Threads : ScheduleRetire(th)
        \/ \E v \in Wrappers, via \in Via : RunClose(v, via)
    BY Zenon DEF Next, GetChannel, GetPop, SkipShutdown, LeaseAddressChannel, Adopt, NativeShutdown,
           ReleaseOffLoop, ReleaseSeesClosed, ReleaseSoon, CloseInsteadOfReturn, FailSoon,
           ScheduleRegister, ScheduleSubmit, RequestClose, SubmitClose, CleanupStart, CleanupDone,
           DrainAndComplete, CleanupFailed, CloseRejected, StopLoop, Terminated, vars
  <2> QED
    BY <1>6, <2>1, <2>2, <2>3, <2>4, <2>5, <2>6
<1>7. ASSUME NEW w \in Wrappers, Used(w)' PROVE native'[transport'[w]] # "none"
  <2>1. /\ native \in [Transports -> {"none", "open", "shutdown", "closed"}]
        /\ transport \in [Wrappers -> Transports \cup {None}]
        /\ \A v \in Wrappers : Used(v) => native[transport[v]] # "none" /\ transport[v] \in Transports
    BY DEF PoolInv, TypeOK, WrappersOK, Used
  <2>2. \A t \in Transports : native[t] # "none" => native'[t] # "none"
    BY <2>1, Zenon DEF Next, GetChannel, GetPop, SkipShutdown, LeaseAddressChannel, Adopt, NativeShutdown,
           Release, ReleaseOffLoop, ReleaseSoon, ReturnToPool, CloseInsteadOfReturn, RunSoon, FailSoon,
           ScheduleRetire, ScheduleRegister, ScheduleSubmit, RunClose, RequestClose, SubmitClose,
           CloseSnapshot, CleanupStart, CleanupDone, DrainAndComplete, CleanupFailed, CloseRejected,
           StopLoop, Terminated, vars
  <2>3. CASE Used(w)
    BY <1>2, <2>1, <2>2, <2>3
  <2>4. CASE ~Used(w)
    <3>1. ASSUME NEW v \in Wrappers, NEW t \in Transports, transport' = [transport EXCEPT ![v] = t],
                 native' = [native EXCEPT ![t] = "open"]
          PROVE  native'[transport'[w]] # "none"
      BY <1>7, <2>1, <2>4, <3>1 DEF Used
    <3>2. ASSUME NEW v \in Wrappers, ReturnToPool,
                 transport' = [transport EXCEPT ![v] = transport[job[Loop].w]]
          PROVE  native'[transport'[w]] # "none"
      <4>1. job[Loop].w \in Wrappers /\ Used(job[Loop].w)
        BY <1>1, <3>2 DEF ReturnToPool, ReturnableTo, Holding
      <4> QED
        BY <1>7, <2>1, <2>2, <2>4, <3>2, <4>1, SMTT(30) DEF Used
    <3>3. CASE UNCHANGED transport
      BY <1>7, <2>4, <3>3 DEF Used
    <3> QED
      BY <3>1, <3>2, <3>3, NewWrapper
  <2> QED
    BY <2>3, <2>4
<1>8. \A w \in Wrappers : Doomed(w)' => Used(w)' /\ w \in retired'
  BY <1>1, <1>2, DoomedStep DEF NewlyDoomed
<1>9. \A w \in Wrappers : w \in handed' \cup leased' \cup retired' => Used(w)'
  BY <1>1, <1>2, <1>3, <1>5, <1>6
<1> QED
  BY <1>3, <1>4, <1>7, <1>8, <1>9 DEF WrappersOK

(* The other wrappers of a leased wrapper's transport stay retired. *)
LEMMA LeasedStep ==
    ASSUME PoolInv, [Next]_vars
    PROVE  LeasedSole'
<1> SUFFICES ASSUME NEW v \in Wrappers, NEW w \in Wrappers,
                    w \in leased', SameTransport(v, w)', v # w
             PROVE  v \in retired'
  BY DEF LeasedSole
<1>1. retired \subseteq retired' /\ transport \in [Wrappers -> Transports \cup {None}]
  BY Frame DEF PoolInv, TypeOK
<1>2. CASE w \in leased
  <2>1. Used(w) /\ transport'[w] = transport[w]
    BY <1>2, TransportKept DEF PoolInv, WrappersOK
  <2>2. CASE Used(v)
    <3>1. transport'[v] = transport[v]
      BY <2>2, TransportKept
    <3> QED
      BY <1>1, <1>2, <2>1, <2>2, <3>1 DEF PoolInv, LeasedSole, SameTransport
  <2>3. CASE ~Used(v)
    <3>1. ASSUME NEW u \in Wrappers, ReturnToPool,
                 transport' = [transport EXCEPT ![u] = transport[job[Loop].w]]
          PROVE  FALSE
      <4>1. /\ job[Loop].w \in Wrappers /\ Used(job[Loop].w)
            /\ job[Loop].w \notin retired /\ job[Loop].w \notin leased
        BY <3>1 DEF ReturnToPool, ReturnableTo, PoolInv, JobsOK, JobOK, Holding, Threads
      <4>2. transport[job[Loop].w] = transport[w]
        BY <1>1, <2>1, <2>3, <3>1 DEF SameTransport, Used
      <4> QED
        BY <1>2, <4>1, <4>2, SMTT(30) DEF PoolInv, LeasedSole, SameTransport
    <3>2. ASSUME NEW u \in Wrappers, NEW t \in Transports,
                 \A y \in Wrappers : transport[y] # t,
                 transport' = [transport EXCEPT ![u] = t]
          PROVE  FALSE
      BY <1>1, <2>1, <2>3, <3>2 DEF SameTransport, Used
    <3>3. CASE UNCHANGED transport
      BY <2>3, <3>3 DEF SameTransport, Used
    <3> QED
      BY <3>1, <3>2, <3>3, NewWrapper
  <2> QED
    BY <2>2, <2>3
<1>3. CASE w \notin leased
  <2>1. LeaseAddressChannel
    BY <1>3, LeasedShrinks
  <2>2. w = job[Loop].w /\ UNCHANGED transport
    BY <1>3, <2>1 DEF LeaseAddressChannel
  <2>3. w \notin retired
    BY <2>1, <2>2 DEF LeaseAddressChannel, PoolInv, JobsOK, JobOK, Threads
  <2> QED
    BY <1>1, <2>2, <2>3 DEF PoolInv, ExclusiveLease, SameTransport, Used
<1> QED
  BY <1>2, <1>3

LEMMA PoolInit == Init => PoolInv
<1> SUFFICES ASSUME Init PROVE PoolInv
  OBVIOUS
<1> USE PoolAssumption DEF Init
<1>1. TypeOK
  <2>1. job \in [Threads -> Job]
    BY JobType
  <2> QED
    BY <2>1 DEF TypeOK
<1>2. \A w \in Wrappers : ~Used(w)
  BY DEF Used
<1>3. PoolConsistent
  BY FS_EmptySet DEF PoolConsistent
<1>4. JobsOK
  BY JobFields DEF JobsOK, JobOK, Holding
<1>5. \A w \in Wrappers : ~Doomed(w)
  BY JobFields DEF Doomed, Reserved
<1> QED
  BY <1>1, <1>2, <1>3, <1>4, <1>5 DEF PoolInv, ExclusiveLease, WrappersOK, LeasedSole, SameTransport

(* PoolInv is an invariant of the pool, whatever the number of threads,       *)
(* addresses, channels and wrappers, and even if task starts fail.            *)
THEOREM PoolInvariant == Spec => []PoolInv
<1>1. PoolInv /\ [Next]_vars => PoolInv'
  BY TypeStep, ExclusiveStep, PoolStep, JobsStep, WrappersStep, LeasedStep DEF PoolInv
<1> QED
  BY <1>1, PoolInit, PTL DEF Spec

(* A wrapper of AddressChannel._new_lease is one lease: two live wrappers     *)
(* never share a native channel.                                              *)
THEOREM PoolExclusiveLease == Spec => []ExclusiveLease
<1>1. PoolInv => ExclusiveLease
  BY DEF PoolInv
<1> QED
  BY <1>1, PoolInvariant, PTL

(* The free lists of the channel are consistent and bounded by                *)
(* max_free_channels_per_address.                                             *)
THEOREM PoolIsConsistent == Spec => []PoolConsistent
<1>1. PoolInv => PoolConsistent
  BY DEF PoolInv
<1> QED
  BY <1>1, PoolInvariant, PTL

(* Type correctness of the pool's state. *)
THEOREM PoolTypeOK == Spec => []TypeOK
<1>1. PoolInv => TypeOK
  BY DEF PoolInv
<1> QED
  BY <1>1, PoolInvariant, PTL

-----------------------------------------------------------------------------
(* While every accepted task starts, a transport being closed has no live     *)
(* wrapper.                                                                   *)
LEMMA ClosingStep ==
    ASSUME ~TaskStartMayFail, PoolInv, ClosingInv, [Next]_vars
    PROVE  ClosingInv'
<1> SUFFICES ASSUME NEW v \in Wrappers, NEW w \in Wrappers, SameTransport(v, w)', Doomed(w)'
             PROVE  v \in retired'
  BY DEF ClosingInv
<1>1. retired \subseteq retired' /\ transport \in [Wrappers -> Transports \cup {None}]
  BY Frame DEF PoolInv, TypeOK
<1>2. Doomed(w) \/ (Used(w) /\ w \in retired' /\ (w \notin retired \/ w \in leased))
  BY DoomedStep DEF NewlyDoomed
<1>3. Used(w) /\ transport'[w] = transport[w]
  BY <1>2, TransportKept DEF PoolInv, WrappersOK
<1>4. CASE Used(v)
  <2>1. SameTransport(v, w)
    BY <1>3, <1>4, TransportKept DEF SameTransport
  <2>2. CASE Doomed(w)
    BY <1>1, <2>1, <2>2 DEF ClosingInv
  <2>3. CASE ~Doomed(w)
    BY <1>1, <1>2, <2>1, <2>3 DEF PoolInv, ExclusiveLease, LeasedSole
  <2> QED
    BY <2>2, <2>3
<1>5. CASE ~Used(v)
  <2>1. ASSUME NEW u \in Wrappers, NEW t \in Transports,
               \A y \in Wrappers : transport[y] # t,
               transport' = [transport EXCEPT ![u] = t]
        PROVE  FALSE
    BY <1>1, <1>3, <1>5, <2>1 DEF SameTransport, Used
  <2>2. CASE UNCHANGED transport
    BY <1>5, <2>2 DEF SameTransport, Used
  <2>3. ASSUME NEW u \in Wrappers, ReturnToPool,
               transport' = [transport EXCEPT ![u] = transport[job[Loop].w]]
        PROVE  FALSE
    <3>1. /\ job[Loop].w \in Wrappers /\ Used(job[Loop].w)
          /\ job[Loop].w \notin retired
      BY <2>3 DEF ReturnToPool, ReturnableTo, PoolInv, JobsOK, JobOK, Holding, Threads
    <3>2. transport[job[Loop].w] = transport[w]
      BY <1>1, <1>3, <1>5, <2>3 DEF SameTransport, Used
    <3>3. Doomed(w)
      <4>1. /\ job \in [Threads -> Job]
            /\ job' = [job EXCEPT ![Loop] = Idle]
            /\ UNCHANGED <<snapshot, registered, closeTask>>
        BY <2>3 DEF ReturnToPool, PoolInv, TypeOK, lifecycle, closes
      <4>2. \A th \in Threads : Reserved(th, w)' => Reserved(th, w)
        BY <4>1, JobFields DEF Reserved
      <4> QED
        BY <4>1, <4>2, SMTT(30) DEF Doomed
    <3> QED
      BY <3>1, <3>2, <3>3, SMTT(30) DEF ClosingInv, SameTransport
  <2> QED
    BY <2>1, <2>2, <2>3, NewWrapper
<1> QED
  BY <1>4, <1>5

(* The SDK never closes a native channel under a live lease, as long as the   *)
(* event loop starts every task it has accepted: discarding or returning an   *)
(* old wrapper again is harmless.                                             *)
THEOREM PoolLiveNotClosing == ~TaskStartMayFail /\ Spec => []LiveNotClosing
<1> SUFFICES ASSUME ~TaskStartMayFail PROVE Spec => []LiveNotClosing
  OBVIOUS
<1>1. Init => ClosingInv
  BY DEF Init, ClosingInv, SameTransport, Used
<1>2. PoolInv /\ ClosingInv /\ [Next]_vars => ClosingInv'
  BY ClosingStep
<1>3. ClosingInv => LiveNotClosing
  BY DEF ClosingInv, LiveNotClosing, Doomed
<1> QED
  BY <1>1, <1>2, <1>3, PoolInvariant, PTL DEF Spec

(* Retirement and closing are final, and no step puts a retired wrapper into  *)
(* the free list or the registry of leases.                                   *)
THEOREM PoolNeverRevived == Spec => NeverRevived
<1> DEFINE A == /\ retired \subseteq retired'
                /\ closed => closed'
                /\ \A w \in Wrappers :
                      w \in retired => w \notin (Pooled' \ Pooled) \cup (leased' \ leased)
<1>1. ASSUME PoolInv, [Next]_vars PROVE A
  <2>1. retired \subseteq retired'
    BY <1>1, Frame
  <2>2. closed => closed'
    BY <1>1, Zenon DEF Next, GetChannel, GetPop, SkipShutdown, LeaseAddressChannel, Adopt, NativeShutdown,
           Release, ReleaseOffLoop, ReleaseSoon, ReturnToPool, CloseInsteadOfReturn, RunSoon, FailSoon,
           ScheduleRetire, ScheduleRegister, ScheduleSubmit, RunClose, RequestClose, SubmitClose,
           CloseSnapshot, CleanupStart, CleanupDone, DrainAndComplete, CleanupFailed, CloseRejected,
           StopLoop, Terminated, vars, lifecycle
  <2>3. ASSUME NEW w \in Wrappers, w \in retired PROVE w \notin leased' \ leased
    <3>1. CASE LeaseAddressChannel
      BY <1>1, <2>3, <3>1 DEF LeaseAddressChannel, PoolInv, JobsOK, JobOK, Threads
    <3> QED
      BY <1>1, <3>1, LeasedShrinks
  <2>4. ASSUME NEW w \in Wrappers, w \in retired PROVE w \notin Pooled' \ Pooled
    <3>1. CASE PoolKept
      BY <3>1 DEF PoolKept, Pooled
    <3>2. CASE ReturnToPool
      <4>1. PICK lease \in Wrappers :
                /\ Unused(lease)
                /\ free' = [free EXCEPT ![AddressOf[transport[job[Loop].w]]] = @ \cup {lease}]
        BY <3>2, Zenon DEF ReturnToPool
      <4>2. lease # w
        BY <1>1, <2>4, <4>1 DEF Unused, Used, PoolInv, WrappersOK
      <4>3. \A a \in Addresses : w \in free'[a] => w \in free[a]
        BY <1>1, <4>1, <4>2 DEF PoolInv, TypeOK
      <4> QED
        BY <4>3 DEF Pooled
    <3> QED
      BY <1>1, <3>1, <3>2, PoolKeptStep
  <2> QED
    BY <2>1, <2>2, <2>3, <2>4
<1> HIDE DEF A
<1>2. PoolInv /\ [Next]_vars => [A]_vars
  BY <1>1
<1>3. Spec => [][A]_vars
  BY <1>2, PoolInvariant, PTL DEF Spec
<1> QED
  BY <1>3 DEF NeverRevived, A
==============================================================================
