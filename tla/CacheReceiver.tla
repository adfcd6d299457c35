---------------------------- MODULE CacheReceiver ----------------------------
(***************************************************************************)
(* The receivers of RenewableFileCacheBearer                               *)
(* (aio/token/file_cache/renewable_bearer.py) with the copy that           *)
(* ThrottledTokenCache keeps in memory, on top of the token file.  Every   *)
(* client has one receiver at a time; the clients of a process share the   *)
(* copy in memory.                                                         *)
(***************************************************************************)
EXTENDS FileTokenCache

CONSTANTS
    Hosts, HostMaps,    \* processes, and the ways to place clients on them
    Retriers,           \* the clients whose requests are retried
    Ageing,             \* the texts whose tokens grow old
    Fractional          \* the texts whose expiry has a fraction of a second

VARIABLES
    host,       \* the process of every client
    mem,        \* ThrottledTokenCache._cached_token of every process
    rec,        \* the receiver of every client
    rejected,   \* what the server refused of a receiver since an empty token made it forget
    minted,     \* the number of tokens the wrapped bearer has issued
    near        \* the texts whose tokens are inside the safety margin

receiverVars == <<cacheVars, host, mem, rec, rejected, minted, near>>

TheName == CHOOSE n \in Names : TRUE

(* __init__ *)
NewReceiver == [pc |-> "idle", fromCache |-> TRUE, lastSaved |-> Missing, got |-> Missing]

ReceiversInit ==
    /\ host \in HostMaps
    /\ mem = [h \in Hosts |-> Missing]
    /\ rec = [c \in Clients |-> NewReceiver]
    /\ rejected = [c \in Clients |-> {}]
    /\ minted = 0 /\ near = {}

ReceiverInit == CacheInit /\ ReceiversInit

(* _is_token_fresh *)
Fresh(t) == Live(t) /\ t.id \notin near

Given(r, t) == [r EXCEPT !.pc = "given", !.got = t]

(* _fetch, once the cache has answered: the token of the last error is       *)
(* treated as missing, and a missing or old token is fetched from the        *)
(* wrapped bearer.                                                           *)
AfterCache(r, t) ==
    IF Fresh(t) /\ (r.fromCache \/ r.lastSaved # t)
    THEN [Given(r, t) EXCEPT !.fromCache = TRUE, !.lastSaved = t]
    ELSE [r EXCEPT !.pc = "wrapped", !.fromCache = FALSE]

(* ThrottledTokenCache.get without a look at the file: the throttle period   *)
(* has not passed.                                                           *)
FetchFromMemory(c) ==
    /\ rec[c].pc \in {"idle", "again"} /\ rec[c].fromCache
    /\ Live(mem[host[c]])
    /\ rec' = [rec EXCEPT ![c] = AfterCache(@, mem[host[c]])]
    /\ UNCHANGED <<cacheVars, host, mem, rejected, minted, near>>

(* ThrottledTokenCache.get or refresh: reads the file. *)
FetchFromFile(c) ==
    /\ rec[c].pc \in {"idle", "again"}
    /\ Start(c, "get", TheName, Missing)
    /\ rec' = [rec EXCEPT ![c] =
          IF op'[c].pc = "done" THEN AfterCache(@, Missing) ELSE [@ EXCEPT !.pc = "reading"]]
    /\ UNCHANGED <<host, mem, rejected, minted, near>>

(* A step of TokenCache.get on behalf of refresh(), and, when it ends, the   *)
(* rest of refresh() and of the cache's half of _fetch.                      *)
Reading(c) ==
    /\ rec[c].pc = "reading"
    /\ CacheStep(c)
    /\ \/ /\ Busy(c)' /\ UNCHANGED <<rec, mem>>
       \/ /\ op'[c].pc = "timeout"
          /\ rec' = [rec EXCEPT ![c].pc = "failed"]
          /\ UNCHANGED mem
       \/ /\ op'[c].pc = "done"
          /\ mem' = IF Live(op'[c].ret) THEN [mem EXCEPT ![host[c]] = op'[c].ret] ELSE mem
          /\ rec' = [rec EXCEPT ![c] = AfterCache(@, op'[c].ret)]
    /\ UNCHANGED <<host, rejected, minted, near>>

(* The wrapped bearer issues a new token, which _fetch goes on to store.     *)
WrappedIssues(c) ==
    /\ rec[c].pc = "wrapped"
    /\ minted + 1 \in Ids
    /\ minted' = minted + 1
    /\ Start(c, "set", TheName, [id |-> minted + 1, exact |-> minted + 1 \in Fractional])
    /\ rec' = [rec EXCEPT ![c].pc = "saving"]
    /\ UNCHANGED <<host, mem, rejected, near>>

(* It fails, or answers an empty token, which is not stored and makes the    *)
(* receiver forget the token it returned last.                               *)
WrappedFails(c) ==
    /\ rec[c].pc = "wrapped"
    /\ rec' = [rec EXCEPT ![c].pc = "failed"]
    /\ UNCHANGED <<cacheVars, host, mem, rejected, minted, near>>

WrappedEmpty(c) ==
    /\ rec[c].pc = "wrapped"
    /\ rec' = [rec EXCEPT ![c] = [Given(@, Missing) EXCEPT !.lastSaved = Missing]]
    /\ rejected' = [rejected EXCEPT ![c] = {}]
    /\ UNCHANGED <<cacheVars, host, mem, minted, near>>

(* A step of TokenCache.set and, when it ends, the rest of                   *)
(* ThrottledTokenCache.set and of _fetch.                                    *)
Saving(c) ==
    /\ rec[c].pc = "saving"
    /\ CacheStep(c)
    /\ \/ /\ Busy(c)' /\ UNCHANGED <<rec, mem>>
       \/ /\ op'[c].pc = "timeout"
          /\ rec' = [rec EXCEPT ![c].pc = "failed"]
          /\ UNCHANGED mem
       \/ /\ op'[c].pc = "done"
          /\ mem' = [mem EXCEPT ![host[c]] = op[c].tok]
          /\ rec' = [rec EXCEPT ![c] = [Given(@, op[c].tok) EXCEPT !.lastSaved = op[c].tok]]
    /\ UNCHANGED <<host, rejected, minted, near>>

(* The server refuses the token, or the fetch failed, and can_retry allows   *)
(* another attempt; whether a wrapped receiver does is its own affair.       *)
CanRetry(c) ==
    /\ c \in Retriers /\ rec[c].pc \in {"given", "failed"}
    /\ rec' = [rec EXCEPT ![c].pc = "again", ![c].fromCache = FALSE, ![c].got = Missing]
    /\ rejected' = IF rec[c].pc = "given"
                   THEN [rejected EXCEPT ![c] = @ \cup {rec[c].got}] ELSE rejected
    /\ UNCHANGED <<cacheVars, host, mem, minted, near>>

(* The request is over, and its receiver with it. *)
Dropped(c) ==
    /\ rec' = [rec EXCEPT ![c] = NewReceiver]
    /\ rejected' = [rejected EXCEPT ![c] = {}]
    /\ UNCHANGED <<host, mem, minted, near>>

(* The request succeeded or cannot be retried: the attempt did not read the  *)
(* cache.                                                                    *)
Finish(c) ==
    /\ rec[c].pc \in {"given", "failed"}
    /\ Dropped(c)
    /\ UNCHANGED cacheVars

(* The request ends while its receiver waits. *)
CancelFetch(c) ==
    /\ \/ rec[c].pc \in {"reading", "saving"} /\ CancelOp(c)
       \/ rec[c].pc = "wrapped" /\ UNCHANGED cacheVars
    /\ Dropped(c)

ProcessDies(h) ==
    /\ \E c \in Clients : host[c] = h /\ Busy(c)
    /\ Crash({c \in Clients : host[c] = h})
    /\ mem' = [mem EXCEPT ![h] = Missing]
    /\ rec' = [c \in Clients |-> IF host[c] = h THEN NewReceiver ELSE rec[c]]
    /\ rejected' = [c \in Clients |-> IF host[c] = h THEN {} ELSE rejected[c]]
    /\ UNCHANGED <<host, minted, near>>

(* Time passes: a token comes inside the safety margin, then expires. *)
Ages(i) ==
    /\ i \in Ageing /\ i <= minted /\ i \notin near
    /\ near' = near \cup {i}
    /\ UNCHANGED <<cacheVars, host, mem, rec, rejected, minted>>

Outlives(i) ==
    /\ i \in near \ expired
    /\ Expire(i)
    /\ UNCHANGED <<host, mem, rec, rejected, minted, near>>

Fetches(c) == Reading(c) \/ WrappedIssues(c) \/ WrappedFails(c) \/ Saving(c)

ReceiverNext ==
    \/ \E c \in Clients :
          \/ FetchFromMemory(c) \/ FetchFromFile(c) \/ Fetches(c) \/ WrappedEmpty(c)
          \/ CanRetry(c) \/ Finish(c) \/ CancelFetch(c)
    \/ \E h \in Hosts : ProcessDies(h)
    \/ \E i \in Ids : Ages(i) \/ Outlives(i)

(* A step of a fetch is a step of an event loop that runs, and the wrapped   *)
(* fetch has a timeout.                                                      *)
ReceiverFairness == \A c \in Clients : WF_receiverVars(Fetches(c))

ReceiverSpec == ReceiverInit /\ [][ReceiverNext]_receiverVars /\ ReceiverFairness

-----------------------------------------------------------------------------
(* The variables of receivers and memory have the values the code gives them. *)
ReceiverTypeOK ==
    /\ CacheTypeOK
    /\ host \in [Clients -> Hosts]
    /\ mem \in [Hosts -> MaybeToken]
    /\ rec \in [Clients -> [pc: {"idle", "reading", "wrapped", "saving", "given", "failed", "again"},
                            fromCache: BOOLEAN, lastSaved: MaybeToken, got: MaybeToken]]
    /\ rejected \in [Clients -> SUBSET MaybeToken]
    /\ minted \in Nat /\ near \subseteq Ids

(* A receiver does not hand out a token again that the server refused: the   *)
(* retry reads the file again, skips what it saved or returned last and      *)
(* falls back on the wrapped bearer.  This compares tokens as Token.__eq__   *)
(* does, expiry included.                                                    *)
RefusedNotEqual ==
    \A c \in Clients : rec[c].pc = "given" /\ rec[c].got # Missing => rec[c].got \notin rejected[c]

(* Every fetch ends, even when the other clients keep the lock busy or die   *)
(* with it: a wait for the lock has a timeout.                               *)
Fetching(c) == rec[c].pc \in {"reading", "wrapped", "saving"}
FetchEnds == \A c \in Clients : Fetching(c) ~> ~Fetching(c)
=============================================================================
