------------------------------- MODULE MCTokens -------------------------------
(***************************************************************************)
(* The tokens kept in a file, for TLC: the file itself under every         *)
(* operation (FileTokenCache), the receivers that use it (CacheReceiver)   *)
(* and the bearer that renews it in the background (FileRenewal).  A       *)
(* behaviour is a behaviour of one of them, chosen by `what`; the          *)
(* variables of the others keep their initial values.                      *)
(***************************************************************************)
EXTENDS CacheReceiver, TLC

CONSTANTS a, b, h1, h2, n1, n2

VARIABLES
    what,
    memory, stored, margin, fresh, stopped, requested, proceed, break, future, runner, source,
    at, mode, got, trial

(* Two processes, or two tasks of one. *)
Placements == {(a :> h1 @@ b :> h2), (a :> h1 @@ b :> h1)}

Fetchers == {a, b}
Modes == {(a :> "plain" @@ b :> "sync"), (a :> "sync" @@ b :> "report")}
MaxRetries == 2
LockFails == TRUE

Fc == INSTANCE FileTokenCache WITH Ids <- {1}
Br == INSTANCE FileRenewal

receiversOnly == <<host, mem, rec, rejected, minted, near>>
bearerVars == <<memory, stored, margin, fresh, stopped, requested, proceed, break, future, runner, source,
                at, mode, got, trial>>
moving == <<receiverVars, bearerVars>>
vars == <<what, moving>>

Init ==
    /\ what \in {"file", "receiver", "bearer"}
    /\ ReceiverInit /\ Br!Init
    /\ what # "receiver" => host = (a :> h1 @@ b :> h2)
    /\ what # "bearer" => stored = "none" /\ mode[a] = "plain"

Next ==
    /\ UNCHANGED what
    /\ \/ what = "file" /\ Fc!CacheNext /\ UNCHANGED <<receiversOnly, bearerVars>>
       \/ what = "receiver" /\ ReceiverNext /\ UNCHANGED bearerVars
       \/ what = "bearer" /\ Br!Next /\ UNCHANGED receiverVars

(* The fairness conditions of CacheReceiver and FileRenewal; one condition   *)
(* may speak of both because only one of them moves.                         *)
Serves ==
    \/ what = "receiver" /\ Fetches(b) /\ UNCHANGED bearerVars
    \/ what = "bearer" /\ UNCHANGED receiverVars
       /\ (Br!RunnerStep \/ Br!StoreOk \/ Br!SourceEnds("ok") \/ Br!SourceEnds("failed"))

Goes ==
    \/ what = "receiver" /\ Fetches(a) /\ UNCHANGED bearerVars
    \/ what = "bearer" /\ Br!FetcherStep(a) /\ UNCHANGED receiverVars

Spec ==
    /\ Init /\ [][Next]_vars
    /\ WF_moving(Goes) /\ WF_moving(Serves)
    /\ WF_bearerVars(what = "bearer" /\ Br!FetcherStep(b))
    /\ SF_bearerVars(what = "bearer" /\ Br!SourceEnds("ok"))
    /\ SF_bearerVars(what = "bearer" /\ Br!StoreOk)

(* A token the service refused is not handed out again by its receiver, a    *)
(* pending renewal future has an attempt to settle it, a synchronous fetch   *)
(* waits only for an attempt that exists, and _run ends only after its       *)
(* source fetch.  The type invariants are checked along.                     *)
ReceiversSound ==
    /\ ReceiverTypeOK /\ RefusedNotEqual
    /\ Br!TypeOK /\ Br!FutureServed /\ Br!SyncTurnComes /\ Br!NoSourceLeft

(* FetchEnds of CacheReceiver and FileFetchEnds of FileRenewal for one of    *)
(* the clients, stated together because only one component moves.            *)
TokenFetchEnds ==
    (Fetching(a) \/ Br!Waiting(a)) ~>
        ~(Fetching(a) \/ Br!Waiting(a)) \/ stopped \/ runner = "died"
=============================================================================
