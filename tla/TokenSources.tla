----------------------------- MODULE TokenSources -----------------------------
(***************************************************************************)
(* The bearers at the bottom of a chain (src/nebius/aio/token): a token    *)
(* file with a copy in memory (file.py), the metadata service (imds.py),   *)
(* and the exchange of credentials (exchangeable.py) or of another         *)
(* bearer's token (impersonated.py) over a channel that may only be given  *)
(* later.  Requests that share one bearer fetch, send, are refused and ask *)
(* can_retry (authorization/token.py).  A token is its version; everything *)
(* between two awaits is one step of the SDK loop.                         *)
(***************************************************************************)
EXTENDS Naturals

CONSTANTS
    Users,          \* requests that use the bearer
    Bearers,        \* circumstances: see BearerType
    MaxVersion,     \* bound: versions of the token
    MaxTrials,      \* max_retries
    Absent

VARIABLES
    bearer,
    version,    \* the newest token there is
    filed,      \* what the token file holds: a version, or Absent when it cannot be used
    copy,       \* _cached_token
    current,    \* now < _refresh_at
    channel,    \* the deferred channel: "pending", "ready", "failed" or "cancelled"
    serviced,   \* Bearer._svc is not None
    req,        \* the receiver of each request and where the request is
    refused     \* the tokens of each request that the service refused

sourceVars == <<bearer, version, filed, copy, current, channel, serviced, req, refused>>

BearerType == [kind: {"file", "imds", "exchange", "impersonated"}, forever: BOOLEAN]

Versions == 1..MaxVersion
MaxHttp == 3

NewRequest == [pc |-> "idle", latest |-> Absent, trial |-> 0, http |-> 0, svc |-> "none",
               invalid |-> Absent, again |-> FALSE]

Exchanges == bearer.kind \in {"exchange", "impersonated"}

(* What a bearer does not use does not vary. *)
SourcesInit ==
    /\ bearer \in Bearers
    /\ version = 1 /\ filed \in {1, Absent} /\ copy = Absent /\ current = FALSE
    /\ channel \in {"pending", "ready"} /\ serviced \in {FALSE, channel = "ready"}
    /\ Exchanges \/ (channel = "ready" /\ serviced)
    /\ bearer.kind = "file" \/ filed = 1
    /\ req = [r \in Users |-> NewRequest]
    /\ refused = [r \in Users |-> {}]

-----------------------------------------------------------------------------
(* Moves of one receiver *)

Keeps(unchanged) == UNCHANGED <<bearer, version, filed, refused, unchanged>>

To(r, pc) == req' = [req EXCEPT ![r].pc = pc]

(* Receiver.fetch records the token. *)
Given(r, t) == req' = [req EXCEPT ![r].pc = "sent", ![r].latest = t, ![r].invalid = Absent]

(* Bearer.receiver(): the stub is a coroutine until some receiver ran it. *)
Begin(r) ==
    /\ req[r].pc = "idle"
    /\ req' = [req EXCEPT ![r].pc = "fetch", ![r].svc = IF serviced THEN "service" ELSE "coroutine"]
    /\ Keeps(<<copy, current, channel, serviced>>)

(* file.Bearer.fetch_token *)
FetchFile(r) ==
    /\ bearer.kind = "file" /\ req[r].pc = "fetch"
    /\ IF copy # Absent /\ (bearer.forever \/ current)
       THEN Given(r, copy) /\ UNCHANGED <<copy, current>>
       ELSE IF filed # Absent
       THEN Given(r, filed) /\ copy' = filed /\ current' = TRUE
       ELSE To(r, "error") /\ UNCHANGED <<copy, current>>
    /\ Keeps(<<channel, serviced>>)

(* imds.Receiver._fetch *)
FetchImds(r) ==
    /\ bearer.kind = "imds" /\ req[r].pc = "fetch"
    /\ req' = [req EXCEPT ![r].pc = "http", ![r].http = 1, ![r].trial = @ + 1]
    /\ Keeps(<<copy, current, channel, serviced>>)

(* A token that was rejected is not accepted again. *)
Accepts(r, t) == req[r].invalid # t

HttpAnswers(r) ==
    /\ req[r].pc = "http"
    /\ \/ \E t \in 1..version :
             IF Accepts(r, t) THEN Given(r, t)
             ELSE req' = [req EXCEPT ![r].pc = "error", ![r].invalid = Absent]
       \/ To(r, IF req[r].http < MaxHttp THEN "backoff" ELSE "error")
       \/ To(r, "error")
    /\ Keeps(<<copy, current, channel, serviced>>)

HttpAgain(r) ==
    /\ req[r].pc = "backoff"
    /\ req' = [req EXCEPT ![r].pc = "http", ![r].http = @ + 1]
    /\ Keeps(<<copy, current, channel, serviced>>)

(* exchangeable.Receiver._fetch: the request is built, then the service is   *)
(* taken, through a task of its own where it has to be awaited.              *)
FetchExchange(r) ==
    /\ bearer.kind = "exchange"
    /\ \/ /\ req[r].pc = "fetch"
          /\ req' = [req EXCEPT ![r].pc = "building", ![r].trial = @ + 1]
       \/ /\ req[r].pc = "building"
          /\ IF req[r].svc = "service" THEN To(r, "rpc")
             ELSE req' = [req EXCEPT ![r].pc = "service", ![r].svc = IF @ = "coroutine" THEN "task" ELSE @]
       \/ req[r].pc = "building" /\ To(r, "error")
    /\ Keeps(<<copy, current, channel, serviced>>)

(* _token_exchange_service_stub in that task, whether or not it is awaited. *)
StubTask(r) ==
    /\ req[r].svc = "task" /\ channel # "pending"
    /\ req' = [req EXCEPT ![r].svc = IF channel = "ready" THEN "resolved" ELSE "broken"]
    /\ serviced' = (serviced \/ channel = "ready")
    /\ Keeps(<<copy, current, channel>>)

ServiceTaken(r) ==
    /\ bearer.kind = "exchange" /\ req[r].pc = "service"
    /\ \/ /\ req[r].svc = "resolved"
          /\ req' = [req EXCEPT ![r].pc = "rpc", ![r].svc = "service"]
       \/ req[r].svc = "broken" /\ To(r, "error")
    /\ Keeps(<<copy, current, channel, serviced>>)

(* impersonated.Receiver._fetch: the token of the source comes first. *)
FetchImpersonated(r) ==
    /\ bearer.kind = "impersonated" /\ req[r].pc = "fetch"
    /\ req' = [req EXCEPT ![r].pc = "actor", ![r].trial = @ + 1, ![r].again = FALSE]
    /\ Keeps(<<copy, current, channel, serviced>>)

(* _exchange awaits the coroutine itself; one that has ended cannot be       *)
(* awaited again.                                                            *)
ExchangeActor(r) ==
    /\ req[r].pc = "actor"
    /\ \/ req' = [req EXCEPT ![r].svc = IF @ = "coroutine" THEN "awaited" ELSE @,
                             ![r].pc = CASE req[r].svc = "service" -> "rpc"
                                         [] req[r].svc = "spent" -> "error"
                                         [] OTHER -> "service"]
       \/ To(r, "error")
    /\ Keeps(<<copy, current, channel, serviced>>)

StubAwaited(r) ==
    /\ req[r].svc = "awaited" /\ channel # "pending"
    /\ req' = [req EXCEPT ![r].pc = IF channel = "ready" THEN "rpc" ELSE "error",
                          ![r].svc = IF channel = "ready" THEN "service" ELSE "spent"]
    /\ serviced' = (serviced \/ channel = "ready")
    /\ Keeps(<<copy, current, channel>>)

(* The exchange answers or fails. *)
RpcEnds(r) ==
    /\ req[r].pc = "rpc"
    /\ Given(r, version) \/ To(r, "error")
    /\ Keeps(<<copy, current, channel, serviced>>)

(* _should_retry_actor: a refused actor token may be replaced once. *)
RetryActor(r) ==
    /\ bearer.kind = "impersonated" /\ req[r].pc = "rpc" /\ ~req[r].again
    /\ req' = [req EXCEPT ![r].pc = "actor", ![r].again = TRUE]
    /\ Keeps(<<copy, current, channel, serviced>>)

Awaiting(r) == req[r].pc \in {"http", "backoff", "building", "actor", "service", "rpc"}

(* A cancelled wait: exchangeable shields the pending stub.  impersonated    *)
(* does not, and the cancellation goes on to the channel that is awaited.    *)
CancelWait(r) ==
    /\ req' = [req EXCEPT ![r].pc = "error", ![r].svc = IF @ = "awaited" THEN "spent" ELSE @]
    /\ channel' = IF req[r].svc = "awaited" /\ channel = "pending" THEN "cancelled" ELSE channel

(* wait_for of _fetch *)
FetchTimesOut(r) ==
    /\ Awaiting(r)
    /\ CancelWait(r)
    /\ Keeps(<<copy, current, serviced>>)

-----------------------------------------------------------------------------
(* The request *)

ServiceAnswers(r) ==
    /\ req[r].pc = "sent"
    /\ \/ To(r, "ok") /\ UNCHANGED refused
       \/ To(r, "refused") /\ refused' = [refused EXCEPT ![r] = @ \cup {req[r].latest}]
    /\ UNCHANGED <<bearer, version, filed, copy, current, channel, serviced>>

(* should_retry_after_error: the copy or the file is another token. *)
FileRetries(r) == {copy, filed} \ {req[r].latest, Absent} # {}

(* A metadata receiver fetches twice at most. *)
ImdsRetries(r) == req[r].trial < 2

(* can_retry of exchangeable and of impersonated *)
ExchangeRetries(r) == req[r].trial < MaxTrials

Retries(r) ==
    \/ bearer.kind = "file" /\ FileRetries(r)
    \/ bearer.kind = "imds" /\ ImdsRetries(r)
    \/ Exchanges /\ ExchangeRetries(r)

(* can_retry of a receiver that has to look at its latest token and has none *)
(* is an AttributeError.                                                     *)
Raises(r) ==
    /\ req[r].latest = Absent
    /\ bearer.kind = "file" \/ (bearer.kind = "imds" /\ ImdsRetries(r))

(* Mutant: the copy in memory survives. *)
InvalidateCacheNot == UNCHANGED <<copy, current>>

(* file.Bearer._invalidate_cache *)
InvalidateCache == copy' = Absent /\ current' = FALSE

CanRetry(r) ==
    /\ req[r].pc \in {"error", "refused"}
    /\ IF Raises(r)
       THEN To(r, "attributeError") /\ UNCHANGED <<copy, current>>
       ELSE /\ req' = [req EXCEPT ![r].pc = IF Retries(r) THEN "fetch" ELSE "denied",
                                  ![r].invalid = IF bearer.kind = "imds" /\ Retries(r) THEN req[r].latest ELSE @]
            /\ IF bearer.kind = "file" THEN InvalidateCache ELSE UNCHANGED <<copy, current>>
    /\ Keeps(<<channel, serviced>>)

(* The deadline of the authorization has passed. *)
GivesUp(r) ==
    /\ req[r].pc \in {"error", "refused"}
    /\ To(r, "denied")
    /\ Keeps(<<copy, current, channel, serviced>>)

-----------------------------------------------------------------------------
(* The world: another process rewrites the file, time passes, and the        *)
(* deferred channel is supplied.                                             *)
World ==
    \/ /\ ~Exchanges /\ version < MaxVersion /\ version' = version + 1
       /\ filed' = IF bearer.kind = "file" THEN Absent ELSE filed
       /\ UNCHANGED <<current, channel>>
    \/ /\ filed = Absent /\ filed' = version
       /\ UNCHANGED <<version, current, channel>>
    \/ /\ bearer.kind = "file" /\ current /\ current' = FALSE
       /\ UNCHANGED <<version, filed, channel>>
    \/ /\ channel = "pending" /\ channel' \in {"ready", "failed"}
       /\ UNCHANGED <<version, filed, current>>

WorldMoves == World /\ UNCHANGED <<bearer, copy, serviced, req, refused>>

Fetch(r) ==
    \/ FetchFile(r) \/ FetchImds(r) \/ HttpAnswers(r) \/ HttpAgain(r) \/ FetchExchange(r) \/ StubTask(r)
    \/ ServiceTaken(r) \/ FetchImpersonated(r) \/ ExchangeActor(r) \/ StubAwaited(r) \/ RpcEnds(r) \/ RetryActor(r)
    \/ FetchTimesOut(r)

SourcesProgress == \E r \in Users : Fetch(r) \/ ServiceAnswers(r) \/ CanRetry(r)

SourcesNext == SourcesProgress \/ WorldMoves \/ \E r \in Users : Begin(r) \/ GivesUp(r)

(* A fetch has a timeout and the service one too, so that a request goes on. *)
SourcesSpec == SourcesInit /\ [][SourcesNext]_sourceVars /\ WF_sourceVars(SourcesProgress)

-----------------------------------------------------------------------------
(* The variables have the values the code gives them. *)
SourcesTypeOK ==
    /\ bearer \in BearerType
    /\ version \in Versions /\ {filed, copy} \subseteq Versions \cup {Absent}
    /\ {current, serviced} \subseteq BOOLEAN
    /\ channel \in {"pending", "ready", "failed", "cancelled"}
    /\ req \in [Users ->
          [pc: {"idle", "fetch", "http", "backoff", "building", "actor", "service", "rpc", "sent", "refused",
                "error", "ok", "denied", "attributeError"},
           latest: Versions \cup {Absent}, invalid: Versions \cup {Absent},
           trial: 0..MaxTrials, http: 0..MaxHttp, again: BOOLEAN,
           svc: {"none", "coroutine", "task", "resolved", "broken", "awaited", "spent", "service"}]]
    /\ refused \in [Users -> SUBSET Versions]

(* A request is not sent again with a token the service refused of it,       *)
(* whatever the other requests put into the copy in memory meanwhile         *)
(* (should_retry_after_error, _invalid_token).                               *)
NotSentAgain ==
    bearer.kind \in {"file", "imds"} =>
        \A r \in Users : req[r].pc = "sent" => req[r].latest \notin refused[r]

(* A fetch that times out does not spoil the deferred channel, nor the stub  *)
(* that a retry of the same receiver awaits ("shield(pending)").             *)
DeferredKept ==
    bearer.kind = "exchange" =>
        /\ channel # "cancelled"
        /\ \A r \in Users : req[r].svc = "broken" => channel = "failed"

(* What the receivers of one bearer rely on: NotSentAgain and DeferredKept,  *)
(* with the type invariant.                                                  *)
SourcesSound == SourcesTypeOK /\ NotSentAgain /\ DeferredKept

(* The request has its answer; see MCBearers. *)
Served(r) == req[r].pc \in {"idle", "ok", "denied", "attributeError"}
=============================================================================
