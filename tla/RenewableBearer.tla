--------------------------- MODULE RenewableBearer ---------------------------
(***************************************************************************)
(* The bearer that keeps a cached token fresh in the background            *)
(* (src/nebius/aio/token/renewable.py).  Everything runs on one event      *)
(* loop, so a step is the code between two awaits.                         *)
(*                                                                         *)
(* A token matters only by whether a receiver has reported it as rejected  *)
(* (request_renewal(invalidate=True)): cache is "none", "good" or "bad",   *)
(* and unseen holds the fetches for which the cached token is not one that *)
(* was rejected before they began.  A source never issues a token twice.   *)
(***************************************************************************)
EXTENDS Naturals

CONSTANTS
    Fetchers,     \* receivers, one per request
    Modes,        \* the ways they fetch: plain, report (errors) and sync
    MaxRetries,   \* fetches a receiver may make
    MayStop,      \* stop() may be called without close()
    MayClose,     \* close() may be called
    MayLeave      \* a fetch may time out or be cancelled

ASSUME RenewableAssumption ==
    /\ Modes \subseteq {"plain", "report", "sync"}
    /\ MaxRetries \in Nat
    /\ {MayStop, MayClose, MayLeave} \subseteq BOOLEAN

VARIABLES
    cache,      \* _cache
    fresh,      \* _is_fresh
    stopped,    \* _is_stopped
    requested,  \* _renew_requested
    proceed,    \* _synchronous_can_proceed
    break,      \* _break_previous_attempt
    future,     \* _renewal_future is there and not done
    runner,     \* where the task of _run is
    source,     \* the source fetch of the attempt under way
    at,         \* where each receiver is
    mode,       \* how it fetches
    got,        \* what its fetch has returned or will return
    trial,      \* its _trial
    unseen      \* fetches that may return the cached token, see above

events == <<fresh, stopped, requested, proceed, break, future>>
receivers == <<at, mode, got, trial>>
vars == <<cache, events, runner, source, receivers, unseen>>

Init ==
    /\ cache = "none" /\ fresh = FALSE /\ stopped = FALSE
    /\ requested = FALSE /\ proceed = TRUE /\ break = FALSE /\ future = FALSE
    /\ runner = "none" /\ source = "none"
    /\ at = [f \in Fetchers |-> "idle"]
    /\ mode \in [Fetchers -> Modes]
    /\ got = [f \in Fetchers |-> "none"]
    /\ trial = [f \in Fetchers |-> 0]
    /\ unseen = Fetchers

Waiting(f) == at[f] \in {"proceed", "proceeding", "future", "fresh", "renewed"}

IsRenewalRequired == cache = "none" \/ requested

-----------------------------------------------------------------------------
(* Bearer.fetch *)

(* The cached token as f gets it. *)
Cached(f) == IF f \in unseen THEN "token" ELSE "stale"

(* f joins the pending renewal future or makes a new one. *)
AwaitRenewal(f) ==
    /\ requested' = TRUE /\ future' = TRUE
    /\ at' = [at EXCEPT ![f] = "future"]
    /\ got' = [got EXCEPT ![f] = "pending"]

(* One trial of a receiver, to the first point where it can wait.  The first  *)
(* fetch starts the background task.  wait_for may yield on an event that is  *)
(* already set (it does before Python 3.12).                                  *)
Fetch(f, required) ==
    LET must == IsRenewalRequired \/ required IN
    /\ at[f] = "idle"
    /\ trial' = [trial EXCEPT ![f] = @ + 1]
    /\ runner' = IF runner = "none" THEN "start" ELSE runner
    /\ unseen' = IF cache = "bad" THEN unseen \ {f} ELSE unseen \cup {f}
    /\ \/ /\ ~must
          /\ at' = [at EXCEPT ![f] = "done"]
          /\ got' = [got EXCEPT ![f] = IF cache = "bad" THEN "old" ELSE "token"]
          /\ UNCHANGED <<requested, break, future>>
       \/ /\ must /\ mode[f] = "sync" /\ ~future
          /\ break' = TRUE
          /\ at' = [at EXCEPT ![f] = IF proceed THEN "proceeding" ELSE "proceed"]
          /\ UNCHANGED <<requested, future, got>>
       \/ /\ must /\ mode[f] # "plain" /\ (mode[f] = "sync" => future)
          /\ AwaitRenewal(f)
          /\ UNCHANGED break
       \/ /\ must /\ mode[f] = "plain"
          /\ requested' = TRUE
          /\ at' = [at EXCEPT ![f] = IF fresh THEN "renewed" ELSE "fresh"]
          /\ UNCHANGED <<break, future, got>>
    /\ UNCHANGED <<cache, fresh, stopped, proceed, source, mode>>

(* A synchronous fetch goes on once the attempt it broke has ended. *)
Proceed(f) ==
    /\ at[f] = "proceeding"
    /\ AwaitRenewal(f)
    /\ UNCHANGED <<cache, fresh, stopped, proceed, break, runner, source, mode, trial, unseen>>

(* A plain fetch goes on after _is_fresh was set. *)
ReturnCache(f) ==
    /\ at[f] = "renewed"
    /\ at' = [at EXCEPT ![f] = "done"]
    /\ got' = [got EXCEPT ![f] = Cached(f)]
    /\ UNCHANGED <<cache, events, runner, source, mode, trial, unseen>>

ReturnRenewal(f) ==
    /\ at[f] = "future" /\ got[f] # "pending"
    /\ at' = [at EXCEPT ![f] = "done"]
    /\ UNCHANGED <<cache, events, runner, source, mode, got, trial, unseen>>

(* A timeout or a cancellation of the caller; the shared future is shielded.  *)
Leave(f) ==
    /\ MayLeave /\ Waiting(f)
    /\ at' = [at EXCEPT ![f] = "done"]
    /\ got' = [got EXCEPT ![f] = "left"]
    /\ UNCHANGED <<cache, events, runner, source, mode, trial, unseen>>

(* Mutant: the rejected token still counts as fresh. *)
CanRetryKeepsFresh(f) ==
    /\ at[f] = "done" /\ trial[f] < MaxRetries
    /\ at' = [at EXCEPT ![f] = "idle"]
    /\ got' = [got EXCEPT ![f] = "none"]
    /\ IF mode[f] # "sync" /\ ~stopped
       THEN /\ requested' = TRUE
            /\ cache' = IF cache = "none" THEN "none" ELSE "bad"
       ELSE UNCHANGED <<requested, cache>>
    /\ UNCHANGED <<fresh, stopped, proceed, break, future, runner, source, mode, trial, unseen>>

(* The request fails with the token: Receiver.can_retry calls request_renewal *)
(* unless the renewal is synchronous or the bearer is stopped.                *)
CanRetry(f) ==
    /\ at[f] = "done" /\ trial[f] < MaxRetries
    /\ at' = [at EXCEPT ![f] = "idle"]
    /\ got' = [got EXCEPT ![f] = "none"]
    /\ IF mode[f] # "sync" /\ ~stopped
       THEN /\ fresh' = FALSE /\ requested' = TRUE
            /\ cache' = IF cache = "none" THEN "none" ELSE "bad"
       ELSE UNCHANGED <<fresh, requested, cache>>
    /\ UNCHANGED <<stopped, proceed, break, future, runner, source, mode, trial, unseen>>

-----------------------------------------------------------------------------
(* _run and _fetch_once *)

StartAttempt ==
    /\ runner' = "fetch" /\ source' = "busy"
    /\ break' = FALSE /\ proceed' = FALSE
    /\ UNCHANGED <<cache, fresh, stopped, requested, future, receivers, unseen>>

Run ==
    /\ runner = "start"
    /\ IF stopped THEN runner' = "ended" /\ UNCHANGED <<cache, events, source, receivers, unseen>>
                  ELSE StartAttempt

(* The wrapped bearer answers or fails, a timeout of the attempt included. *)
SourceOk ==
    /\ runner = "fetch" /\ source = "busy"
    /\ source' = "ok"
    /\ UNCHANGED <<cache, events, runner, receivers, unseen>>

SourceFails ==
    /\ runner = "fetch" /\ source = "busy"
    /\ source' = "failed"
    /\ UNCHANGED <<cache, events, runner, receivers, unseen>>

(* The renewal future is settled with v and the waiters of the events woken.  *)
Settle(v) ==
    /\ future' = FALSE
    /\ got' = [f \in Fetchers |-> IF got[f] = "pending" THEN v ELSE got[f]]

Wake(w) == [f \in Fetchers |->
               IF at[f] = "proceed" THEN "proceeding"
               ELSE IF at[f] = "fresh" /\ w THEN "renewed" ELSE at[f]]

Renewed ==
    /\ runner = "fetch" /\ source = "ok"
    /\ requested' = FALSE /\ proceed' = TRUE
    /\ cache' = "good" /\ fresh' = TRUE /\ unseen' = Fetchers
    /\ Settle("token") /\ at' = Wake(TRUE)
    /\ runner' = "sleep" /\ source' = "none"
    /\ UNCHANGED <<stopped, break, mode, trial>>

AttemptLost == source = "failed" \/ (source = "busy" /\ break)

(* Mutant: the failure is logged but not reported. *)
NotRenewedSilently ==
    /\ runner = "fetch" /\ AttemptLost
    /\ requested' = FALSE /\ proceed' = TRUE
    /\ at' = Wake(FALSE)
    /\ runner' = "sleep" /\ source' = "none"
    /\ UNCHANGED <<cache, fresh, stopped, break, future, got, mode, trial, unseen>>

(* The attempt failed, or was broken: the result of the unfinished source     *)
(* task is then an InvalidStateError, handled like any failure.               *)
NotRenewed ==
    /\ runner = "fetch" /\ AttemptLost
    /\ requested' = FALSE /\ proceed' = TRUE
    /\ Settle(IF source = "failed" THEN "error" ELSE "broken") /\ at' = Wake(FALSE)
    /\ runner' = "sleep" /\ source' = "none"
    /\ UNCHANGED <<cache, fresh, stopped, break, mode, trial, unseen>>

(* Mutant: no attempt is made for a fresh token. *)
RunWhileStale ==
    /\ runner = "sleep"
    /\ IF stopped \/ fresh THEN runner' = "ended" /\ UNCHANGED <<cache, events, source, receivers, unseen>>
                           ELSE StartAttempt

(* A renewal is requested or the retry timeout ends. *)
RunAgain ==
    /\ runner = "sleep"
    /\ IF stopped THEN runner' = "ended" /\ UNCHANGED <<cache, events, source, receivers, unseen>>
                  ELSE StartAttempt

-----------------------------------------------------------------------------
(* stop and close *)

Stop ==
    /\ MayStop /\ ~stopped
    /\ stopped' = TRUE /\ fresh' = FALSE /\ break' = TRUE /\ requested' = TRUE
    /\ UNCHANGED <<cache, proceed, future, runner, source, receivers, unseen>>

(* close() stops the bearer and cancels its tasks. *)
Close ==
    /\ MayClose /\ runner \notin {"ended", "cancelled"}
    /\ stopped' = TRUE /\ fresh' = FALSE /\ break' = TRUE /\ requested' = TRUE
    /\ runner' = IF runner = "none" THEN "none" ELSE IF runner = "fetch" THEN "cancelled" ELSE "ended"
    /\ UNCHANGED <<cache, proceed, future, source, receivers, unseen>>

(* A cancelled attempt ends after its source fetch has been cleaned up. *)
Cancelled ==
    /\ runner = "cancelled"
    /\ runner' = "ended" /\ source' = "none" /\ proceed' = TRUE
    /\ at' = Wake(FALSE)
    /\ UNCHANGED <<cache, fresh, stopped, requested, break, future, mode, got, trial, unseen>>

-----------------------------------------------------------------------------
FetcherStep(f) == Proceed(f) \/ ReturnCache(f) \/ ReturnRenewal(f)

RunnerStep == Run \/ Renewed \/ NotRenewed \/ RunAgain \/ Cancelled

Next ==
    \/ \E f \in Fetchers :
          \/ \E required \in BOOLEAN : Fetch(f, required)
          \/ FetcherStep(f) \/ Leave(f) \/ CanRetry(f)
    \/ RunnerStep \/ SourceOk \/ SourceFails
    \/ Stop \/ Close

Spec == Init /\ [][Next]_vars

(* Tasks run, sleeps end, an attempt ends (it has a timeout), and a source    *)
(* that is asked again and again answers.                                     *)
Fairness ==
    /\ \A f \in Fetchers : WF_vars(FetcherStep(f))
    /\ WF_vars(RunnerStep)
    /\ WF_vars(SourceOk \/ SourceFails)
    /\ SF_vars(SourceOk)

FairSpec == Spec /\ Fairness

-----------------------------------------------------------------------------
(* The shape of the bearer's state. *)
TypeOK ==
    /\ cache \in {"none", "good", "bad"}
    /\ {fresh, stopped, requested, proceed, break, future} \subseteq BOOLEAN
    /\ runner \in {"none", "start", "fetch", "sleep", "cancelled", "ended"}
    /\ source \in {"none", "busy", "ok", "failed"}
    /\ at \in [Fetchers -> {"idle", "proceed", "proceeding", "future", "fresh", "renewed", "done"}]
    /\ mode \in [Fetchers -> Modes]
    /\ got \in [Fetchers -> {"none", "pending", "token", "stale", "old", "error", "broken", "left"}]
    /\ trial \in [Fetchers -> Nat]
    /\ unseen \subseteq Fetchers

(* A fetch that had to wait for a renewal never returns a token that had been *)
(* rejected before the fetch began: _is_fresh stands for the token in _cache  *)
(* although the two are set and cleared by different tasks.                   *)
RenewedIsNew == \A f \in Fetchers : got[f] # "stale"

(* A shared renewal future is never forgotten: an attempt that will settle it *)
(* is under way or requested, although _fetch_once clears the request at its  *)
(* end and callers set it at any moment.                                      *)
NoLostRenewal == future /\ ~stopped => requested \/ runner = "fetch"

(* A synchronous fetch that waits for its turn waits for an attempt that is   *)
(* there and will let it on, also when that attempt fails or is cancelled.    *)
TurnComes == \A f \in Fetchers : at[f] = "proceed" => runner \in {"fetch", "cancelled"}

(* The background task does not end while its source fetch is still running,  *)
(* so close() leaves no work behind on a loop that stays up.                  *)
EndedIsClean == runner = "ended" => source = "none"

(* Whoever waits for the background task has work under way that will answer, *)
(* and the task ends cleanly: NoLostRenewal, TurnComes and EndedIsClean, with *)
(* the type invariant.                                                        *)
NoFetchForgotten == TypeOK /\ NoLostRenewal /\ TurnComes /\ EndedIsClean

(* Every fetch returns unless the bearer is stopped, although attempts fail   *)
(* and synchronous fetches break the attempts of others.                      *)
Answered == \A f \in Fetchers : Waiting(f) ~> at[f] = "done" \/ stopped
=============================================================================
