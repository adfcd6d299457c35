----------------------------- MODULE ChannelPool -----------------------------
(***************************************************************************)
(* The transport pool of nebius.aio.channel.Channel.                       *)
(*                                                                         *)
(* A native gRPC channel (a transport) is lent to requests through         *)
(* AddressChannel wrappers.  One wrapper is one lease: when a lease is      *)
(* returned, the wrapper is retired for ever and a fresh wrapper for the   *)
(* same transport enters the free list.  Get, the body of a release, the   *)
(* native closes and _close_internal run on the SDK event loop, which runs *)
(* one of them at a time up to its next await.  Caller threads interleave  *)
(* with it at every acquisition of _channel_pool_lock or _tasks_lock, so   *)
(* an action here is one critical section.                                 *)
(*                                                                         *)
(* The list _free_channels[addr] is a set: only its length and its members *)
(* matter to the code, apart from which member a get pops.                 *)
(***************************************************************************)
EXTENDS Naturals, FiniteSets

CONSTANTS
    Callers,            \* threads other than the SDK event loop
    Loop,               \* the SDK event loop
    Addresses,
    Transports,         \* native channels that may be created
    AddressOf,          \* the address a native channel connects to
    Foreign,            \* transports whose event_loop is not the SDK loop
    Overrides,          \* transports a caller wraps by itself
    Wrappers,           \* AddressChannel objects
    MaxFree,            \* max_free_channels_per_address
    TaskStartMayFail,   \* can the loop's task factory reject a submission?
    None

ASSUME PoolAssumption ==
    /\ Loop \notin Callers
    /\ AddressOf \in [Transports -> Addresses]
    /\ Foreign \subseteq Transports
    /\ Overrides \subseteq Transports
    /\ IsFiniteSet(Wrappers)
    /\ MaxFree \in Nat
    /\ TaskStartMayFail \in BOOLEAN
    /\ None \notin Wrappers \cup Transports \cup Addresses

Threads == Callers \cup {Loop}

VARIABLES
    closed,          \* Channel._closed
    accepting,       \* AsyncRuntime._accepting
    loopUp,          \* the SDK loop is running
    closer,          \* progress of the close submission
    completion,      \* Channel._close_completion
    snapshot,        \* the local `channels` of _close_internal
    free,            \* Channel._free_channels
    leased,          \* Channel._leased_channels
    transport,       \* AddressChannel.channel, None before construction
    retired,         \* AddressChannel._retired_by_sdk
    closedBySdk,     \* AddressChannel._closed_by_sdk
    handed,          \* wrappers a caller has held at some time
    native,          \* connectivity of each native channel
    registered,      \* Channel._transport_closes, entries not yet completed
    closeTask,       \* native close work, scheduled singly or by cleanup
    soon,            \* release work submitted by _release_channel_soon
    job              \* where each thread is inside get, release or schedule

lifecycle == <<closed, accepting, loopUp, closer, completion, snapshot>>
pool      == <<free, leased>>
wrappers  == <<transport, retired, closedBySdk, handed>>
closes    == <<registered, closeTask>>

vars == <<lifecycle, pool, wrappers, native, closes, soon, job>>

Via == {"scheduled", "cleanup"}

(* Where a thread is.  "retire" and "reserved" enter                         *)
(* _schedule_address_channel_close with already_retired FALSE and TRUE.      *)
Stages == {"idle", "get", "pooled", "created", "pool", "retire", "reserved", "register", "submit"}

(* The wrapper the thread works on; after a close that a get has scheduled    *)
(* the thread goes on with the get for addr.                                 *)
Job == [at : Stages, w : Wrappers \cup {None}, addr : Addresses \cup {None}]

Doing(stage, w, addr) == [at |-> stage, w |-> w, addr |-> addr]

Idle == Doing("idle", None, None)

At(stage, w) == Doing(stage, w, None)

(* A thread that returns from _schedule_address_channel_close. *)
AfterSchedule(j) == IF j.addr = None THEN Idle ELSE Doing("get", None, j.addr)

IsForeign(w) == transport[w] \in Foreign

Unused(w) == transport[w] = None

Init ==
    /\ closed = FALSE
    /\ accepting = TRUE
    /\ loopUp = TRUE
    /\ closer = "none"
    /\ completion = "none"
    /\ snapshot = {}
    /\ free = [a \in Addresses |-> {}]
    /\ leased = {}
    /\ transport = [w \in Wrappers |-> None]
    /\ retired = {}
    /\ closedBySdk = {}
    /\ handed = {}
    /\ native = [t \in Transports |-> "none"]
    /\ registered = {}
    /\ closeTask = [w \in Wrappers |-> [v \in Via |-> "no"]]
    /\ soon = {}
    /\ job = [th \in Threads |-> Idle]

-----------------------------------------------------------------------------
(* Getting a lease: _get_channel_by_addr_internal on the SDK loop. *)

(* A request, or a caller through run_sync, asks for a channel. *)
GetChannel(a) ==
    /\ loopUp
    /\ job[Loop] = Idle
    /\ job' = [job EXCEPT ![Loop] = Doing("get", None, a)]
    /\ UNCHANGED <<lifecycle, pool, wrappers, native, closes, soon>>

(* The lock section of the search loop: fail when closed, pop a wrapper if   *)
(* there is one, else create_address_channel, which may raise.               *)
GetPop(a) ==
    /\ job[Loop].at = "get" /\ job[Loop].addr = a
    /\ \/ /\ closed
          /\ job' = [job EXCEPT ![Loop] = Idle]
          /\ UNCHANGED <<free, transport, native>>
       \/ /\ ~closed
          /\ \E w \in free[a] :
                /\ free' = [free EXCEPT ![a] = @ \ {w}]
                /\ job' = [job EXCEPT ![Loop] = At("pooled", w)]
          /\ UNCHANGED <<transport, native>>
       \/ /\ ~closed /\ free[a] = {}
          /\ \E w \in Wrappers, t \in Transports \ Overrides :
                /\ Unused(w) /\ native[t] = "none" /\ AddressOf[t] = a
                /\ transport' = [transport EXCEPT ![w] = t]
                /\ native' = [native EXCEPT ![t] = "open"]
                /\ job' = [job EXCEPT ![Loop] = At("created", w)]
          /\ UNCHANGED free
       \/ /\ ~closed /\ free[a] = {}
          /\ job' = [job EXCEPT ![Loop] = Idle]
          /\ UNCHANGED <<free, transport, native>>
    /\ UNCHANGED <<lifecycle, leased, retired, closedBySdk, handed, closes, soon>>

(* A pooled channel that is SHUTDOWN is closed and the search goes on. *)
SkipShutdown ==
    LET w == job[Loop].w IN
    /\ job[Loop].at = "pooled"
    /\ native[transport[w]] # "open"
    /\ job' = [job EXCEPT ![Loop] = Doing("retire", w, AddressOf[transport[w]])]
    /\ UNCHANGED <<lifecycle, pool, wrappers, native, closes, soon>>

(* _lease_address_channel: track the lease, or retire it when closing won. *)
LeaseAddressChannel ==
    LET w == job[Loop].w IN
    /\ \/ job[Loop].at = "created"
       \/ job[Loop].at = "pooled" /\ native[transport[w]] = "open"
    /\ \/ /\ ~closed
          /\ leased' = leased \cup {w}
          /\ handed' = handed \cup {w}
          /\ job' = [job EXCEPT ![Loop] = Idle]
       \/ /\ closed
          /\ job' = [job EXCEPT ![Loop] = At("retire", w)]
          /\ UNCHANGED <<leased, handed>>
    /\ UNCHANGED <<lifecycle, free, transport, retired, closedBySdk, native, closes, soon>>

(* A caller builds an AddressChannel of its own, to pass it as an override. *)
Adopt(w, t) ==
    /\ Unused(w) /\ t \in Overrides /\ native[t] = "none"
    /\ transport' = [transport EXCEPT ![w] = t]
    /\ native' = [native EXCEPT ![t] = "open"]
    /\ handed' = handed \cup {w}
    /\ UNCHANGED <<lifecycle, pool, retired, closedBySdk, closes, soon, job>>

(* The native channel stops by itself, or its user stops it. *)
NativeShutdown(t) ==
    /\ native[t] = "open"
    /\ native' = [native EXCEPT ![t] = "shutdown"]
    /\ UNCHANGED <<lifecycle, pool, wrappers, closes, soon, job>>

-----------------------------------------------------------------------------
(* Releasing a lease.  Any wrapper a caller once held may be released at any *)
(* time, any number of times: the pool has to cope with stale wrappers.      *)

(* Mutant: the lease is popped although the snapshot has not been taken. *)
ReleaseAlwaysPops(th, w) ==
    /\ closed
    /\ leased' = leased \ {w}
    /\ job' = [job EXCEPT ![th] =
                  IF w \notin leased /\ w \notin retired
                  THEN At("retire", w) ELSE Idle]
    /\ UNCHANGED retired

(* The first critical section of a release that finds the channel closed.    *)
(* Before the snapshot of _close_internal the lease must stay registered.    *)
ReleaseSeesClosed(th, w) ==
    /\ closed
    /\ leased' = IF completion = "none" THEN leased ELSE leased \ {w}
    /\ job' = [job EXCEPT ![th] =
                  IF w \notin leased /\ w \notin retired
                  THEN At("retire", w) ELSE Idle]
    /\ UNCHANGED retired

(* The first critical section of _release_address_channel.  A discard        *)
(* reserves the wrapper for closing under the pool lock; the second section  *)
(* then changes nothing and the close is scheduled.                          *)
ReleaseSeesOpen(w, discard) ==
    /\ ~closed
    /\ leased' = leased \ {w}
    /\ retired' = IF discard THEN retired \cup {w} ELSE retired
    /\ job' = [job EXCEPT ![Loop] =
                  At(IF ~discard THEN "pool" ELSE IF w \in retired THEN "retire" ELSE "reserved", w)]

(* release_channel, return_channel or discard_channel on the SDK loop, where  *)
(* a caller thread sends it too while the channel is open.                    *)
Release(w, discard) ==
    /\ loopUp /\ job[Loop] = Idle
    /\ w \in handed
    /\ ReleaseSeesOpen(w, discard) \/ ReleaseSeesClosed(Loop, w)
    /\ UNCHANGED <<lifecycle, free, transport, closedBySdk, handed, native, closes, soon>>

(* The same calls on a caller thread that finds the channel closed. *)
ReleaseOffLoop(c, w) ==
    /\ job[c] = Idle
    /\ w \in handed
    /\ ReleaseSeesClosed(c, w)
    /\ UNCHANGED <<lifecycle, free, transport, closedBySdk, handed, native, closes, soon>>

ReturnableTo(a, w) ==
    /\ job[Loop].at = "pool"
    /\ ~closed
    /\ w \notin retired
    /\ ~IsForeign(w)
    /\ native[transport[w]] = "open"
    /\ w \notin free[a]

(* Mutant: the returned wrapper is not retired. *)
ReturnUnretired ==
    LET w == job[Loop].w
        a == AddressOf[transport[w]] IN
    /\ ReturnableTo(a, w)
    /\ Cardinality(free[a]) < MaxFree
    /\ \E lease \in Wrappers :
          /\ Unused(lease)
          /\ transport' = [transport EXCEPT ![lease] = transport[w]]
          /\ free' = [free EXCEPT ![a] = @ \cup {lease}]
    /\ job' = [job EXCEPT ![Loop] = Idle]
    /\ UNCHANGED <<lifecycle, leased, retired, closedBySdk, handed, native, closes, soon>>

(* Mutant: the old wrapper itself goes back to the list. *)
ReturnSameWrapper ==
    LET w == job[Loop].w
        a == AddressOf[transport[w]] IN
    /\ ReturnableTo(a, w)
    /\ Cardinality(free[a]) < MaxFree
    /\ free' = [free EXCEPT ![a] = @ \cup {w}]
    /\ retired' = retired \cup {w}
    /\ job' = [job EXCEPT ![Loop] = Idle]
    /\ UNCHANGED <<lifecycle, leased, transport, closedBySdk, handed, native, closes, soon>>

(* The second critical section of _release_address_channel: the transport    *)
(* goes back to the pool under a fresh wrapper, or is scheduled for closing. *)
(* The code returns early if the wrapper itself is in the free list: no      *)
(* handed wrapper ever is, so that return is the guard w \notin free[a].     *)
(* _new_lease may raise, so closing is always a possible outcome.            *)
ReturnToPool ==
    LET w == job[Loop].w
        a == AddressOf[transport[w]] IN
    /\ ReturnableTo(a, w)
    /\ Cardinality(free[a]) < MaxFree
    /\ \E lease \in Wrappers :
          /\ Unused(lease)
          /\ transport' = [transport EXCEPT ![lease] = transport[w]]
          /\ free' = [free EXCEPT ![a] = @ \cup {lease}]
    /\ retired' = retired \cup {w}
    /\ job' = [job EXCEPT ![Loop] = Idle]
    /\ UNCHANGED <<lifecycle, leased, closedBySdk, handed, native, closes, soon>>

CloseInsteadOfReturn ==
    /\ job[Loop].at = "pool"
    /\ job' = [job EXCEPT ![Loop] = At("retire", job[Loop].w)]
    /\ UNCHANGED <<lifecycle, pool, wrappers, native, closes, soon>>

(* _release_channel_soon submits the release (its callers always discard);   *)
(* when the runtime rejects it the caller schedules the close by itself.     *)
(* One pending release per wrapper bounds the model.                          *)
ReleaseSoon(th, w) ==
    /\ job[th] = Idle /\ (th = Loop => loopUp)
    /\ w \in handed \ soon
    /\ \/ /\ accepting /\ loopUp
          /\ soon' = soon \cup {w}
          /\ UNCHANGED job
       \/ /\ ~(accepting /\ loopUp)
          /\ job' = [job EXCEPT ![th] = At("retire", w)]
          /\ UNCHANGED soon
    /\ UNCHANGED <<lifecycle, pool, wrappers, native, closes>>

(* The submitted release starts on the loop. *)
RunSoon(w) ==
    /\ loopUp /\ job[Loop] = Idle
    /\ w \in soon
    /\ soon' = soon \ {w}
    /\ ReleaseSeesOpen(w, TRUE) \/ ReleaseSeesClosed(Loop, w)
    /\ UNCHANGED <<lifecycle, free, transport, closedBySdk, handed, native, closes>>

(* finish_release: the task factory refused to start the submitted release.  *)
FailSoon(w) ==
    /\ TaskStartMayFail
    /\ loopUp /\ job[Loop] = Idle
    /\ w \in soon
    /\ soon' = soon \ {w}
    /\ job' = [job EXCEPT ![Loop] =
                  IF w \in closedBySdk THEN Idle
                  ELSE At(IF w \in retired THEN "reserved" ELSE "retire", w)]
    /\ UNCHANGED <<lifecycle, pool, wrappers, native, closes>>

-----------------------------------------------------------------------------
(* _schedule_address_channel_close, on any thread. *)

(* Mutant: a wrapper that is already retired is closed again. *)
ScheduleRetireAlways(th) ==
    LET j == job[th] IN
    /\ j.at \in {"retire", "reserved"}
    /\ retired' = retired \cup {j.w}
    /\ free' = [a \in Addresses |-> free[a] \ {j.w}]
    /\ job' = [job EXCEPT ![th] = Doing("register", j.w, j.addr)]
    /\ UNCHANGED <<lifecycle, leased, transport, closedBySdk, handed, native, closes, soon>>

(* Retire the wrapper, unless the caller already did; only one caller wins.  *)
(* Any pool entry of the wrapper goes with it.  A foreign transport is       *)
(* dispatched to its own loop, if that runs, and is not registered.          *)
ScheduleRetire(th) ==
    LET j == job[th] IN
    /\ j.at \in {"retire", "reserved"}
    /\ \/ /\ j.at = "retire" /\ j.w \in retired
          /\ job' = [job EXCEPT ![th] = AfterSchedule(j)]
          /\ UNCHANGED <<retired, free, closeTask>>
       \/ /\ j.at = "reserved" \/ j.w \notin retired
          /\ retired' = retired \cup {j.w}
          /\ free' = [a \in Addresses |-> free[a] \ {j.w}]
          /\ \/ /\ ~IsForeign(j.w)
                /\ job' = [job EXCEPT ![th] = Doing("register", j.w, j.addr)]
                /\ UNCHANGED closeTask
             \/ /\ IsForeign(j.w)
                /\ job' = [job EXCEPT ![th] = AfterSchedule(j)]
                /\ \E phase \in {"pending", "done"} :
                      closeTask' = [closeTask EXCEPT ![j.w]["scheduled"] = phase]
    /\ UNCHANGED <<lifecycle, leased, transport, closedBySdk, handed, native, registered, soon>>

(* Register the close under _tasks_lock, once. *)
ScheduleRegister(th) ==
    LET j == job[th] IN
    /\ j.at = "register"
    /\ \/ /\ j.w \in registered
          /\ job' = [job EXCEPT ![th] = AfterSchedule(j)]
          /\ UNCHANGED registered
       \/ /\ j.w \notin registered
          /\ registered' = registered \cup {j.w}
          /\ job' = [job EXCEPT ![th] = Doing("submit", j.w, j.addr)]
    /\ UNCHANGED <<lifecycle, pool, wrappers, native, closeTask, soon>>

(* Submit close_and_log to the runtime, or, when it no longer accepts work,  *)
(* as a detached close on the running loop.  With no running loop the close  *)
(* is given up and its completion settled.                                   *)
ScheduleSubmit(th) ==
    LET j == job[th] IN
    /\ j.at = "submit"
    /\ \/ /\ loopUp
          /\ closeTask' = [closeTask EXCEPT ![j.w]["scheduled"] = "pending"]
          /\ UNCHANGED registered
       \/ /\ ~loopUp
          /\ closeTask' = [closeTask EXCEPT ![j.w]["scheduled"] = "done"]
          /\ registered' = registered \ {j.w}
    /\ job' = [job EXCEPT ![th] = AfterSchedule(j)]
    /\ UNCHANGED <<lifecycle, pool, wrappers, native, soon>>

(* Mutant: a close that raises does not settle its completion. *)
RunCloseUnsettled(w, via) ==
    /\ closeTask[w][via] = "pending"
    /\ IsForeign(w) \/ (loopUp /\ job[Loop] = Idle)
    /\ closeTask' = [closeTask EXCEPT ![w][via] = "done"]
    /\ UNCHANGED <<lifecycle, pool, wrappers, native, registered, soon, job>>

(* _close_address_channel ends: the native close succeeds or raises.  The     *)
(* completion of a scheduled close is settled in either case, and also when   *)
(* the task of the close never starts (settle_rejected_submission).           *)
RunClose(w, via) ==
    /\ closeTask[w][via] = "pending"
    /\ IsForeign(w) \/ (loopUp /\ job[Loop] = Idle)
    /\ closeTask' = [closeTask EXCEPT ![w][via] = "done"]
    /\ registered' = IF via = "scheduled" THEN registered \ {w} ELSE registered
    /\ \/ /\ native' = [native EXCEPT ![transport[w]] = "closed"]
          /\ retired' = retired \cup {w}
          /\ closedBySdk' = closedBySdk \cup {w}
       \/ UNCHANGED <<native, retired, closedBySdk>>
    /\ UNCHANGED <<lifecycle, pool, transport, handed, soon, job>>

-----------------------------------------------------------------------------
(* Closing the channel. *)

(* _get_close_handle publishes the boundary before it queues the work. *)
RequestClose ==
    /\ closer = "none"
    /\ closed' = TRUE
    /\ closer' = "admitted"
    /\ UNCHANGED <<accepting, loopUp, completion, snapshot, pool, wrappers, native,
                   closes, soon, job>>

SubmitClose ==
    /\ closer = "admitted"
    /\ closer' = "queued"
    /\ accepting' = FALSE
    /\ UNCHANGED <<closed, loopUp, completion, snapshot, pool, wrappers, native,
                   closes, soon, job>>

(* _close_internal takes over every pooled and leased wrapper in one section. *)
CloseSnapshot ==
    /\ closer = "queued"
    /\ job[Loop] = Idle
    /\ closer' = "cancelling"
    /\ completion' = "pending"
    /\ snapshot' = leased \cup UNION {free[a] : a \in Addresses}
    /\ retired' = retired \cup snapshot'
    /\ free' = [a \in Addresses |-> {}]
    /\ UNCHANGED <<closed, accepting, loopUp, leased, transport, closedBySdk, handed,
                   native, closes, soon, job>>

(* After cancel_submissions, start one close per wrapper of the snapshot. A   *)
(* foreign one is dispatched to its own loop and not waited for.             *)
CleanupStart ==
    /\ closer = "cancelling"
    /\ job[Loop] = Idle
    /\ closer' = "closing"
    /\ \E dispatched \in {"pending", "done"} :
          closeTask' = [w \in Wrappers |->
              IF w \notin snapshot THEN closeTask[w]
              ELSE IF IsForeign(w) THEN [closeTask[w] EXCEPT !["scheduled"] = dispatched]
              ELSE [closeTask[w] EXCEPT !["cleanup"] = "pending"]]
    /\ UNCHANGED <<closed, accepting, loopUp, completion, snapshot, pool, wrappers,
                   native, registered, soon, job>>

(* gather returned: the leases of the snapshot are forgotten. *)
CleanupDone ==
    /\ closer = "closing"
    /\ job[Loop] = Idle
    /\ \A w \in snapshot : closeTask[w]["cleanup"] # "pending"
    /\ closer' = "draining"
    /\ leased' = leased \ snapshot
    /\ UNCHANGED <<closed, accepting, loopUp, completion, snapshot, free, wrappers,
                   native, closes, soon, job>>

(* Publish completion under _tasks_lock when no registered close is pending. *)
DrainAndComplete ==
    /\ closer = "draining"
    /\ job[Loop] = Idle
    /\ registered = {}
    /\ closer' = "done"
    /\ completion' = "done"
    /\ UNCHANGED <<closed, accepting, loopUp, snapshot, pool, wrappers, native,
                   closes, soon, job>>

(* cleanup raised, or its task was cancelled: completion carries the error.   *)
CleanupFailed ==
    /\ closer \in {"cancelling", "closing", "draining"}
    /\ job[Loop] = Idle
    /\ closer' = "done"
    /\ completion' = "failed"
    /\ leased' = leased \ snapshot
    /\ UNCHANGED <<closed, accepting, loopUp, snapshot, free, wrappers, native,
                   closes, soon, job>>

(* The close submission itself never starts: the cached handle is a failure.  *)
CloseRejected ==
    /\ TaskStartMayFail
    /\ closer = "queued"
    /\ closer' = "done"
    /\ UNCHANGED <<closed, accepting, loopUp, completion, snapshot, pool, wrappers,
                   native, closes, soon, job>>

(* Runtime shutdown waits for accepted releases and stops the loop; detached  *)
(* closes that are still pending are abandoned and their completions settled. *)
StopLoop ==
    /\ closer = "done"
    /\ loopUp
    /\ job[Loop] = Idle
    /\ soon = {}
    /\ loopUp' = FALSE
    /\ closeTask' = [w \in Wrappers |-> [v \in Via |->
          IF closeTask[w][v] = "pending" /\ ~IsForeign(w) THEN "done" ELSE closeTask[w][v]]]
    /\ registered' = {w \in registered : closeTask[w]["scheduled"] # "pending"}
    /\ UNCHANGED <<closed, accepting, closer, completion, snapshot, pool, wrappers,
                   native, soon, job>>

(* Nothing is left to do once the loop has stopped and every thread returned. *)
Terminated ==
    /\ ~loopUp
    /\ \A th \in Threads : job[th] = Idle
    /\ UNCHANGED vars

Next ==
    \/ \E a \in Addresses : GetChannel(a) \/ GetPop(a)
    \/ SkipShutdown
    \/ LeaseAddressChannel
    \/ \E w \in Wrappers, t \in Transports : Adopt(w, t)
    \/ \E t \in Transports : NativeShutdown(t)
    \/ \E w \in Wrappers, discard \in BOOLEAN : Release(w, discard)
    \/ \E c \in Callers, w \in Wrappers : ReleaseOffLoop(c, w)
    \/ \E th \in Threads, w \in Wrappers : ReleaseSoon(th, w)
    \/ ReturnToPool
    \/ CloseInsteadOfReturn
    \/ \E w \in Wrappers : RunSoon(w) \/ FailSoon(w)
    \/ \E th \in Threads : ScheduleRetire(th) \/ ScheduleRegister(th) \/ ScheduleSubmit(th)
    \/ \E w \in Wrappers, via \in Via : RunClose(w, via)
    \/ RequestClose \/ SubmitClose \/ CloseSnapshot
    \/ CleanupStart \/ CleanupDone \/ DrainAndComplete
    \/ CleanupFailed \/ CloseRejected
    \/ StopLoop
    \/ Terminated

Spec == Init /\ [][Next]_vars

(* A thread inside an operation goes on.  The event loop serves its ready     *)
(* queue in order, so queued work that needs the loop runs although other     *)
(* callbacks keep it busy: that is strong fairness, of the closes of a wrapper *)
(* and of the steps of _close_internal.                                       *)
Fairness ==
    /\ \A th \in Threads :
          WF_vars(ScheduleRetire(th) \/ ScheduleRegister(th) \/ ScheduleSubmit(th))
    /\ WF_vars(\/ \E a \in Addresses : GetPop(a)
               \/ SkipShutdown \/ LeaseAddressChannel
               \/ ReturnToPool \/ CloseInsteadOfReturn)
    /\ \A w \in Wrappers : SF_vars(\E via \in Via : RunClose(w, via))
    /\ SF_vars(\/ SubmitClose \/ CloseSnapshot \/ CleanupStart
               \/ CleanupDone \/ DrainAndComplete)

FairSpec == Spec /\ Fairness

-----------------------------------------------------------------------------
(* Every variable keeps its type; the free lists hold AddressChannel objects, *)
(* and each thread is in one of the steps of get, release or schedule.        *)
TypeOK ==
    /\ closed \in BOOLEAN /\ accepting \in BOOLEAN /\ loopUp \in BOOLEAN
    /\ closer \in {"none", "admitted", "queued", "cancelling", "closing", "draining", "done"}
    /\ completion \in {"none", "pending", "done", "failed"}
    /\ snapshot \subseteq Wrappers
    /\ free \in [Addresses -> SUBSET Wrappers]
    /\ leased \subseteq Wrappers
    /\ transport \in [Wrappers -> Transports \cup {None}]
    /\ retired \subseteq Wrappers
    /\ closedBySdk \subseteq Wrappers
    /\ handed \subseteq Wrappers
    /\ native \in [Transports -> {"none", "open", "shutdown", "closed"}]
    /\ registered \subseteq Wrappers
    /\ closeTask \in [Wrappers -> [Via -> {"no", "pending", "done"}]]
    /\ soon \subseteq Wrappers
    /\ job \in [Threads -> Job]

Used(w) == transport[w] # None

SameTransport(v, w) == Used(v) /\ transport[v] = transport[w]

Pooled == UNION {free[a] : a \in Addresses}

(* One wrapper is one lease (AddressChannel._new_lease): of all the wrappers   *)
(* ever made for a native channel at most one is not retired, so two requests *)
(* never hold the same native channel through two live leases.                *)
ExclusiveLease ==
    \A v, w \in Wrappers : SameTransport(v, w) /\ v # w => v \in retired \/ w \in retired

(* A wrapper in the free list is live, connects to that list's address, is    *)
(* unknown to every caller, and is not leased at the same time; and the list  *)
(* respects max_free_channels_per_address.                                    *)
PoolConsistent ==
    \A a \in Addresses :
        /\ Cardinality(free[a]) <= MaxFree
        /\ \A w \in free[a] :
              /\ Used(w) /\ AddressOf[transport[w]] = a
              /\ w \notin retired \cup leased \cup handed

(* The SDK never closes a native channel that still has a live lease or pool  *)
(* entry: in particular releasing or discarding an old wrapper a second time  *)
(* cannot close the channel under the request that holds it now.              *)
LiveNotClosing ==
    \A v, w \in Wrappers :
        SameTransport(v, w) /\ v \notin retired => \A via \in Via : closeTask[w][via] = "no"

(* When close() reports completion the pool is empty, no live wrapper exists  *)
(* except one a caller made by itself, and every native channel the SDK       *)
(* created has had its close run, or a thread is in the middle of scheduling  *)
(* it: a release that races close never strands an open channel.              *)
NothingStranded ==
    completion = "done" =>
        /\ Pooled = {} /\ leased = {}
        /\ \A w \in Wrappers :
              /\ Used(w) /\ w \notin retired => transport[w] \in Overrides
              /\ Used(w) /\ transport[w] \notin Overrides =>
                    \E v \in Wrappers :
                        /\ SameTransport(v, w)
                        /\ \/ \E via \in Via : closeTask[v][via] # "no"
                           \/ \E th \in Threads :
                                 job[th].w = v /\ job[th].at \in {"register", "submit"}

(* Retirement, native closing and the end of acceptance are one-way: a        *)
(* retired wrapper never becomes live, and a returned lease never comes back. *)
NeverRevived ==
    [][/\ retired \subseteq retired'
       /\ closed => closed'
       /\ \A w \in Wrappers : w \in retired => w \notin (Pooled' \ Pooled) \cup (leased' \ leased)
      ]_vars

(* Closing finishes: once close() has started its handle is settled, whatever *)
(* releases, gets and late transport closes race with it; and if the cleanup  *)
(* ever started, so is _close_completion, on which later close calls wait.    *)
CloseCompletes == closed ~> closer = "done" /\ completion # "pending"

(* A registered transport close is settled, so a drain never waits for ever.  *)
RegisteredSettles == \A w \in Wrappers : w \in registered ~> w \notin registered

(* close() and every transport close come to an end: CloseCompletes and       *)
(* RegisteredSettles.                                                         *)
ClosesSettle == CloseCompletes /\ RegisteredSettles
=============================================================================
