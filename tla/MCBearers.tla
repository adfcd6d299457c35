------------------------------ MODULE MCBearers ------------------------------
(***************************************************************************)
(* The bearers, for TLC: the renewable one (RenewableBearer), the sources  *)
(* at the bottom of a chain (TokenSources) and the login in the browser    *)
(* (Login).  A behaviour is a behaviour of one of them, chosen by `what`;  *)
(* the variables of the others keep their initial values.                  *)
(***************************************************************************)
EXTENDS RenewableBearer

CONSTANTS f1, f2, Users, Tabs, Absent, MaxVersion, MaxTrials

VARIABLES
    what,
    bearer, version, filed, copy, current, channel, serviced, req, refused,
    login, outcome, server, code, done, tab

Bearers == {[kind |-> k, forever |-> FALSE] : k \in {"file", "imds", "exchange", "impersonated"}}
              \cup {[kind |-> "file", forever |-> TRUE]}

So == INSTANCE TokenSources
Lg == INSTANCE Login WITH Nothing <- Absent

sources == <<bearer, version, filed, copy, current, channel, serviced, req, refused>>
logins == <<login, outcome, server, code, done, tab>>
moving == <<vars, sources, logins>>
allVars == <<what, moving>>

(* The two fetchers are alike: of two assignments of the modes that differ   *)
(* only by exchanging them, one is enough.                                   *)
ModesInOrder == <<mode[f1], mode[f2]>> \notin {<<"report", "plain">>, <<"sync", "plain">>, <<"sync", "report">>}

BearersInit ==
    /\ what \in {"renewable", "source", "login"}
    /\ Init /\ So!SourcesInit /\ Lg!LoginInit
    /\ ModesInOrder
    /\ what # "renewable" => mode = [f \in Fetchers |-> "plain"]
    /\ what # "source" =>
          bearer = [kind |-> "file", forever |-> TRUE] /\ filed = 1
    /\ what # "login" => tab = [t \in Tabs |-> "right"]

BearersNext ==
    /\ UNCHANGED what
    /\ \/ what = "renewable" /\ Next /\ UNCHANGED <<sources, logins>>
       \/ what = "source" /\ So!SourcesNext /\ UNCHANGED <<vars, logins>>
       \/ what = "login" /\ Lg!LoginNext /\ UNCHANGED <<vars, sources>>

(* The fairness conditions of the three; one condition may speak of several  *)
(* because only one component moves.                                         *)
Progress ==
    \/ what = "renewable" /\ RunnerStep /\ UNCHANGED <<sources, logins>>
    \/ what = "source" /\ So!SourcesProgress /\ UNCHANGED <<vars, logins>>
    \/ what = "login" /\ Lg!LoginProgress /\ UNCHANGED <<vars, sources>>

BearersSpec ==
    /\ BearersInit /\ [][BearersNext]_allVars
    /\ WF_moving(Progress)
    /\ \A f \in Fetchers : WF_vars(what = "renewable" /\ FetcherStep(f))
    /\ WF_vars(what = "renewable" /\ (SourceOk \/ SourceFails))
    /\ SF_vars(what = "renewable" /\ SourceOk)

(* What the receivers of the sources and the browser of a login rely on:     *)
(* a refused token is not sent again, a timeout leaves the shared channel    *)
(* intact, and a tab is told what became of its code (SourcesSound and       *)
(* LoginSound).                                                              *)
SourcesSound == So!SourcesSound /\ Lg!LoginSound

(* A fetch of the renewable bearer returns unless the bearer is stopped (its *)
(* Answered), a stopped bearer ends its task, a request is answered however  *)
(* often it is authenticated again, and a login ends.                        *)
FetchesSettle ==
    /\ Answered
    /\ (\E r \in Users : ~So!Served(r)) \/ Lg!LoginRuns \/ stopped ~>
          /\ \A r \in Users : So!Served(r)
          /\ ~Lg!LoginRuns
          /\ stopped => runner \in {"none", "ended"}
=============================================================================
