----------------------------- MODULE FileRenewal -----------------------------
(***************************************************************************)
(* The bearer that renews a token of the token file in the background      *)
(* (aio/token/file_cache/async_renewable_bearer.py).  Everything runs on   *)
(* one event loop, so a step is the code between two awaits.  The file is  *)
(* the atomic map that FileTokenCache implements, here with one entry; an  *)
(* access to it may fail because another process keeps the lock.           *)
(***************************************************************************)
EXTENDS Naturals

CONSTANTS
    Fetchers,     \* receivers, one per request
    Modes,        \* the ways they fetch, each one plain, report (errors) or sync
    MaxRetries,   \* fetches a receiver may make
    LockFails     \* an access to the file may time out on its lock

VARIABLES
    memory,     \* _file_cache._cached_token: "none", "live" or "expired"
    stored,     \* the entry of the file: "none" or "live"
    margin,     \* safety_margin is not None
    fresh,      \* _is_fresh
    stopped,    \* _is_stopped
    requested,  \* _renew_requested
    proceed,    \* _synchronous_can_proceed
    break,      \* _break_previous_attempt
    future,     \* _renewal_future is there and not done
    runner,     \* where the task of _run is
    source,     \* the source fetch of the attempt under way
    at,         \* where each receiver is
    mode,       \* how it fetches
    got,        \* what its fetch has returned or will return
    trial       \* its _trial

tokens == <<memory, stored, margin>>
events == <<fresh, stopped, requested, proceed, break, future>>
receivers == <<at, mode, got, trial>>
fileRenewalVars == <<tokens, events, runner, source, receivers>>

Init ==
    /\ memory = "none" /\ stored \in {"none", "live"} /\ margin = TRUE
    /\ fresh = FALSE /\ stopped = FALSE /\ requested = FALSE
    /\ proceed = TRUE /\ break = FALSE /\ future = FALSE
    /\ runner = "none" /\ source = "none"
    /\ at = [f \in Fetchers |-> "idle"]
    /\ mode \in Modes
    /\ got = [f \in Fetchers |-> "none"]
    /\ trial = [f \in Fetchers |-> 0]

Waiting(f) == at[f] \in {"proceed", "proceeding", "future", "fresh", "reread"}

(* ThrottledTokenCache.get: the copy in memory while the throttle period     *)
(* lasts, else the file, which updates the copy only if it has a token.      *)
CacheGet(v) ==
    \/ v = "live" /\ memory = "live" /\ UNCHANGED memory
    \/ v = "live" /\ stored = "live" /\ memory' = "live"
    \/ v = "none" /\ stored = "none" /\ UNCHANGED memory
    \/ v = "error" /\ LockFails /\ UNCHANGED memory

CacheAnswers == {"live", "none", "error"}

(* is_renewal_required, after the cache has been asked *)
IsRenewalRequired == memory' = "none" \/ requested

-----------------------------------------------------------------------------
(* fetch *)

(* f joins the pending renewal future or makes a new one. *)
AwaitRenewal(f) ==
    /\ requested' = TRUE /\ future' = TRUE
    /\ at' = [at EXCEPT ![f] = "future"]
    /\ got' = [got EXCEPT ![f] = "pending"]

Returns(f, v) ==
    /\ at' = [at EXCEPT ![f] = "done"]
    /\ got' = [got EXCEPT ![f] = v]

(* The cached token is fresh enough, or the cache failed. *)
FetchCached(f, v) ==
    /\ Returns(f, IF v = "live" THEN "token" ELSE "error")
    /\ runner' = IF v = "live" /\ runner = "none" THEN "look" ELSE runner
    /\ UNCHANGED <<margin, requested, break, future>>

(* It is not: the background task is started, and a renewal waited for if    *)
(* one is required.                                                          *)
FetchRenewed(f, required) ==
    LET must == IsRenewalRequired \/ required IN
    /\ margin' = FALSE
    /\ runner' = IF runner = "none" THEN "start" ELSE runner
    /\ \/ /\ ~must
          /\ at' = [at EXCEPT ![f] = "reread"]
          /\ UNCHANGED <<requested, break, future, got>>
       \/ /\ must /\ mode[f] = "sync" /\ ~future
          /\ break' = TRUE
          /\ at' = [at EXCEPT ![f] = IF proceed THEN "proceeding" ELSE "proceed"]
          /\ UNCHANGED <<requested, future, got>>
       \/ /\ must /\ mode[f] # "plain" /\ (mode[f] = "sync" => future)
          /\ AwaitRenewal(f)
          /\ UNCHANGED break
       \/ /\ must /\ mode[f] = "plain"
          /\ requested' = TRUE
          /\ at' = [at EXCEPT ![f] = IF fresh THEN "reread" ELSE "fresh"]
          /\ UNCHANGED <<break, future, got>>

(* Receiver._fetch and fetch, to the first point where it can wait after the *)
(* cache has answered.                                                       *)
Fetch(f, required) ==
    /\ at[f] = "idle"
    /\ trial' = [trial EXCEPT ![f] = @ + 1]
    /\ \E v \in CacheAnswers :
          /\ CacheGet(v)
          /\ \/ v = "error" /\ FetchCached(f, v)
             \/ v = "live" /\ ~required /\ FetchCached(f, v)
             \/ (v = "none" \/ required \/ margin) /\ v # "error" /\ FetchRenewed(f, required)
    /\ UNCHANGED <<stored, fresh, stopped, proceed, source, mode>>

(* A synchronous fetch goes on once the attempt it broke has ended. *)
Proceed(f) ==
    /\ at[f] = "proceeding"
    /\ AwaitRenewal(f)
    /\ UNCHANGED <<tokens, fresh, stopped, proceed, break, runner, source, mode, trial>>

(* The second look at the cache; RenewalError if it is empty. *)
Reread(f) ==
    /\ at[f] = "reread"
    /\ \E v \in CacheAnswers : CacheGet(v) /\ Returns(f, IF v = "live" THEN "token" ELSE "error")
    /\ UNCHANGED <<stored, margin, events, runner, source, mode, trial>>

ReturnRenewal(f) ==
    /\ at[f] = "future" /\ got[f] # "pending"
    /\ at' = [at EXCEPT ![f] = "done"]
    /\ UNCHANGED <<tokens, events, runner, source, mode, got, trial>>

(* A timeout or a cancellation of the caller; the shared future is shielded. *)
Leave(f) ==
    /\ Waiting(f)
    /\ Returns(f, "left")
    /\ UNCHANGED <<tokens, events, runner, source, mode, trial>>

(* The request fails with the token: can_retry calls request_renewal unless  *)
(* the renewal is synchronous or the bearer is stopped.                      *)
CanRetry(f) ==
    /\ at[f] = "done" /\ trial[f] < MaxRetries
    /\ at' = [at EXCEPT ![f] = "idle"]
    /\ got' = [got EXCEPT ![f] = "none"]
    /\ IF mode[f] # "sync" /\ ~stopped
       THEN fresh' = FALSE /\ requested' = TRUE
       ELSE UNCHANGED <<fresh, requested>>
    /\ UNCHANGED <<tokens, stopped, proceed, break, future, runner, source, mode, trial>>

-----------------------------------------------------------------------------
(* _run and _fetch_once *)

(* The head of the loop, where alone _is_stopped is looked at. *)
LoopHead == runner' = IF stopped THEN "ended" ELSE "sleep"

(* A task that was started after a cached token looks at the cache for the   *)
(* time to sleep, outside any handler: an exception ends the task.           *)
Run ==
    /\ \/ runner = "start" /\ LoopHead /\ UNCHANGED memory
       \/ /\ runner = "look"
          /\ \E v \in CacheAnswers :
                CacheGet(v) /\ IF v = "error" THEN runner' = "died" ELSE LoopHead
    /\ UNCHANGED <<stored, margin, events, source, receivers>>

(* The sleep ends or a renewal is requested: an attempt begins. *)
Attempt ==
    /\ runner = "sleep"
    /\ runner' = "fetch" /\ source' = "busy"
    /\ break' = FALSE /\ proceed' = FALSE
    /\ UNCHANGED <<tokens, fresh, stopped, requested, future, receivers>>

(* The wrapped bearer answers or fails, a timeout of the attempt included. *)
SourceEnds(how) ==
    /\ runner = "fetch" /\ source = "busy"
    /\ source' = how
    /\ UNCHANGED <<tokens, events, runner, receivers>>

(* The renewal future is settled with v. *)
Settle(v) ==
    /\ future' = FALSE
    /\ got' = [f \in Fetchers |-> IF got[f] = "pending" THEN v ELSE got[f]]

(* The waiters of _synchronous_can_proceed go on. *)
LetProceed == [f \in Fetchers |-> IF at[f] = "proceed" THEN "proceeding" ELSE at[f]]

(* The source has answered: the token is handed to those who wait for it,    *)
(* and then stored.                                                          *)
Received ==
    /\ runner = "fetch" /\ source = "ok"
    /\ requested' = FALSE /\ proceed' = TRUE
    /\ Settle("token") /\ at' = LetProceed
    /\ runner' = "store" /\ source' = "none"
    /\ UNCHANGED <<tokens, fresh, stopped, break, mode, trial>>

StoreOk ==
    /\ runner = "store"
    /\ memory' = "live" /\ stored' = "live" /\ fresh' = TRUE
    /\ at' = [f \in Fetchers |-> IF at[f] = "fresh" THEN "reread" ELSE at[f]]
    /\ LoopHead
    /\ UNCHANGED <<margin, stopped, requested, proceed, break, future, source, mode, got, trial>>

(* The file cannot be locked in time: the token is lost to plain fetches, a  *)
(* future made since it was received is settled with the error.              *)
StoreFails ==
    /\ LockFails /\ runner = "store"
    /\ Settle("error")
    /\ LoopHead
    /\ UNCHANGED <<tokens, fresh, stopped, requested, proceed, break, source, at, mode, trial>>

AttemptLost == source = "failed" \/ (source = "busy" /\ break)

(* Mutant: synchronous callers are let on only by a success. *)
NotReceivedNoProceed ==
    /\ runner = "fetch" /\ AttemptLost
    /\ requested' = FALSE
    /\ Settle("error")
    /\ LoopHead
    /\ source' = "none"
    /\ UNCHANGED <<tokens, fresh, stopped, proceed, break, at, mode, trial>>

(* The attempt failed, or was broken: the result of the unfinished source    *)
(* task is then an InvalidStateError, handled like any failure.              *)
NotReceived ==
    /\ runner = "fetch" /\ AttemptLost
    /\ requested' = FALSE /\ proceed' = TRUE
    /\ Settle("error") /\ at' = LetProceed
    /\ LoopHead
    /\ source' = "none"
    /\ UNCHANGED <<tokens, fresh, stopped, break, mode, trial>>

-----------------------------------------------------------------------------
(* stop and close *)

Stopped == stopped' = TRUE /\ fresh' = FALSE /\ break' = TRUE /\ requested' = TRUE

Stop ==
    /\ ~stopped
    /\ Stopped
    /\ UNCHANGED <<tokens, proceed, future, runner, source, receivers>>

(* close() stops the bearer and cancels its tasks. *)
Close ==
    /\ runner \notin {"ended", "cancelled", "died"}
    /\ Stopped
    /\ runner' = IF runner = "none" THEN "none" ELSE IF runner = "fetch" THEN "cancelled" ELSE "ended"
    /\ UNCHANGED <<tokens, proceed, future, source, receivers>>

(* A cancelled attempt ends after its source fetch has been cleaned up. *)
Cancelled ==
    /\ runner = "cancelled"
    /\ runner' = "ended" /\ source' = "none" /\ proceed' = TRUE
    /\ at' = LetProceed
    /\ UNCHANGED <<tokens, fresh, stopped, requested, break, future, mode, got, trial>>

(* Time passes, and other processes use the file. *)
TokenExpires ==
    /\ {memory, stored} \cap {"live"} # {}
    /\ memory' = IF memory = "live" THEN "expired" ELSE memory
    /\ stored' = "none"
    /\ UNCHANGED <<margin, events, runner, source, receivers>>

OtherProcessStores ==
    /\ stored = "none"
    /\ stored' = "live"
    /\ UNCHANGED <<memory, margin, events, runner, source, receivers>>

-----------------------------------------------------------------------------
FetcherStep(f) == Proceed(f) \/ Reread(f) \/ ReturnRenewal(f)

RunnerStep == Run \/ Attempt \/ Received \/ NotReceived \/ Cancelled

Next ==
    \/ \E f \in Fetchers :
          \/ \E required \in BOOLEAN : Fetch(f, required)
          \/ FetcherStep(f) \/ Leave(f) \/ CanRetry(f)
    \/ RunnerStep \/ StoreOk \/ StoreFails
    \/ SourceEnds("ok") \/ SourceEnds("failed")
    \/ Stop \/ Close \/ TokenExpires \/ OtherProcessStores

(* Tasks run, sleeps end, an attempt ends (it has a timeout), and a source   *)
(* and a lock that are tried again and again serve in the end.               *)
Fairness ==
    /\ \A f \in Fetchers : WF_fileRenewalVars(FetcherStep(f))
    /\ WF_fileRenewalVars(RunnerStep \/ StoreOk \/ SourceEnds("ok") \/ SourceEnds("failed"))
    /\ SF_fileRenewalVars(SourceEnds("ok"))
    /\ SF_fileRenewalVars(StoreOk)

Spec == Init /\ [][Next]_fileRenewalVars /\ Fairness

-----------------------------------------------------------------------------
(* The shape of the bearer's state. *)
TypeOK ==
    /\ memory \in {"none", "live", "expired"} /\ stored \in {"none", "live"}
    /\ {margin, fresh, stopped, requested, proceed, break, future} \subseteq BOOLEAN
    /\ runner \in {"none", "start", "look", "fetch", "store", "sleep", "cancelled", "ended", "died"}
    /\ source \in {"none", "busy", "ok", "failed"}
    /\ at \in [Fetchers -> {"idle", "proceed", "proceeding", "future", "fresh", "reread", "done"}]
    /\ mode \in [Fetchers -> {"plain", "report", "sync"}]
    /\ got \in [Fetchers -> {"none", "pending", "token", "error", "left"}]
    /\ trial \in [Fetchers -> Nat]

(* A shared renewal future is never forgotten: the attempt that will settle  *)
(* it is under way or requested, although an attempt clears the request at   *)
(* its end and callers set it at any moment.                                 *)
FutureServed == future /\ ~stopped /\ runner # "died" => requested \/ runner \in {"fetch", "store"}

(* A synchronous fetch that waits for its turn waits for an attempt that is  *)
(* there and will let it on, also when that attempt fails or is cancelled.   *)
SyncTurnComes == \A f \in Fetchers : at[f] = "proceed" => runner \in {"fetch", "cancelled"}

(* The background task does not end while its source fetch is still running. *)
NoSourceLeft == runner = "ended" => source = "none"

(* Every fetch ends in time or with the bearer stopped, although attempts    *)
(* fail, the file is locked, and synchronous fetches break the attempts of   *)
(* others; the one exception is a background task that died of the cache.    *)
FileFetchEnds == \A f \in Fetchers : Waiting(f) ~> ~Waiting(f) \/ stopped \/ runner = "died"
=============================================================================
