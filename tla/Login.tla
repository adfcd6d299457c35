-------------------------------- MODULE Login --------------------------------
(***************************************************************************)
(* A login in the browser (src/nebius/aio/token/federation_bearer):        *)
(* authorize, get_code and the callback server that the tabs of the        *)
(* browser answer to, with the timeout and a cancellation racing the       *)
(* callbacks.  A callback is right when it has a code and the state of     *)
(* this login.  Everything runs on the SDK loop.                           *)
(***************************************************************************)
CONSTANTS
    Tabs,       \* requests to the callback server
    Nothing

VARIABLES
    login,      \* where authorize is
    outcome,    \* how get_code leaves: the code or an error
    server,     \* "none", "up" or "down"
    code,       \* CallbackHandler._code: the tab whose code was taken
    done,       \* CallbackHandler._done
    tab         \* each request: its contents, or the answer to it

loginVars == <<login, outcome, server, code, done, tab>>

LoginInit ==
    /\ login = "idle" /\ outcome = "none" /\ server = "none"
    /\ code = Nothing /\ done = FALSE
    /\ tab \in [Tabs -> {"right", "noCode", "wrongState"}]

Answered(t) == tab[t] \in {"200", "400"}

-----------------------------------------------------------------------------
(* listen_and_serve, which may find no port *)
Listen ==
    /\ login = "idle"
    /\ \/ login' = "opening" /\ server' = "up" /\ UNCHANGED outcome
       \/ login' = "failed" /\ outcome' = "noPort" /\ UNCHANGED server
    /\ UNCHANGED <<code, done, tab>>

(* The link is shown, and opened where a browser is wanted. *)
OpenBrowser ==
    /\ login = "opening"
    /\ \/ login' = "waiting" /\ UNCHANGED outcome
       \/ login' = "stopping" /\ outcome' = "noBrowser"
    /\ UNCHANGED <<server, code, done, tab>>

(* _set_code: the first callback decides *)
SetCode(t) ==
    /\ code' = IF ~done /\ tab[t] = "right" THEN t ELSE code
    /\ done' = TRUE

(* _handle_callback; the lock of _set_code is held across no await. *)
HandleCallback(t) ==
    /\ server = "up" /\ ~Answered(t)
    /\ SetCode(t)
    /\ tab' = [tab EXCEPT ![t] = IF code' # Nothing /\ @ # "wrongState" THEN "200" ELSE "400"]
    /\ UNCHANGED <<login, outcome, server>>

(* wait_for_code: the code, none, or the timeout, which may overtake a       *)
(* callback that has been handled and not yet noticed.                       *)
WaitForCode ==
    /\ login = "waiting"
    /\ \/ done /\ outcome' = IF code # Nothing THEN "code" ELSE "noCode"
       \/ outcome' = "timeout"
    /\ login' = "stopping"
    /\ UNCHANGED <<server, code, done, tab>>

(* The caller is cancelled: the finally clause covers the wait only, and     *)
(* another cancellation ends the shutdown in it.                             *)
Cancelled ==
    /\ \/ login \in {"opening", "stopping", "exchanging"} /\ login' = "failed"
       \/ login = "waiting" /\ login' = "stopping"
    /\ outcome' = "cancelled"
    /\ UNCHANGED <<server, code, done, tab>>

(* shutdown, and then get_token where there is a code *)
StopServer ==
    /\ login = "stopping"
    /\ server' = "down"
    /\ login' = IF outcome = "code" THEN "exchanging" ELSE "failed"
    /\ UNCHANGED <<outcome, code, done, tab>>

GetToken ==
    /\ login = "exchanging"
    /\ login' \in {"token", "failed"}
    /\ UNCHANGED <<outcome, server, code, done, tab>>

LoginProgress == OpenBrowser \/ WaitForCode \/ StopServer \/ GetToken

LoginNext == Listen \/ LoginProgress \/ Cancelled \/ \E t \in Tabs : HandleCallback(t)

(* A login that has begun goes on; its wait for the browser has a timeout. *)
LoginSpec == LoginInit /\ [][LoginNext]_loginVars /\ WF_loginVars(LoginProgress)

-----------------------------------------------------------------------------
(* The variables have the values the code gives them. *)
LoginTypeOK ==
    /\ login \in {"idle", "opening", "waiting", "stopping", "exchanging", "token", "failed"}
    /\ outcome \in {"none", "code", "noCode", "noPort", "noBrowser", "timeout", "cancelled"}
    /\ server \in {"none", "up", "down"}
    /\ code \in Tabs \cup {Nothing} /\ done \in BOOLEAN
    /\ tab \in [Tabs -> {"right", "noCode", "wrongState", "200", "400"}]

(* A tab that is told "Login is successful" has left its code to the login,  *)
(* or comes after one that has; a login that gave up for want of a code has  *)
(* told nobody so, whatever callbacks arrive until its server is down.       *)
ToldTheTruth ==
    /\ (\E t \in Tabs : tab[t] = "200") => code # Nothing
    /\ code # Nothing => done /\ tab[code] = "200"
    /\ login \in {"exchanging", "token"} => code # Nothing
    /\ outcome = "noCode" => \A t \in Tabs : tab[t] # "200"

(* The callback server is stopped when the login ends, unless the caller was *)
(* cancelled outside the wait for the code.                                  *)
ServerStopped == login \in {"exchanging", "token", "failed"} /\ outcome # "cancelled" => server # "up"

(* What the browser and the caller of a login rely on. *)
LoginSound == LoginTypeOK /\ ToldTheTruth /\ ServerStopped

LoginRuns == login \in {"opening", "waiting", "stopping", "exchanging"}
=============================================================================
