------------------------------ MODULE CacheMap ------------------------------
(***************************************************************************)
(* What the token file promises its readers: one map from names to tokens  *)
(* that changes atomically and one entry at a time, that drops what has    *)
(* expired, and that may lose everything when a writer dies.               *)
(* FileTokenCache implements it.                                           *)
(***************************************************************************)
CONSTANTS Names, Tokens, Missing

VARIABLES
    map,    \* the entry of every name, or Missing
    dead    \* the tokens that have expired

mapVars == <<map, dead>>

Init ==
    /\ map = [n \in Names |-> Missing]
    /\ dead = {}

Change(n, t) ==
    /\ map' = [map EXCEPT ![n] = t]
    /\ UNCHANGED dead

Purge ==
    /\ map' = [n \in Names |-> IF map[n] \in dead THEN Missing ELSE map[n]]
    /\ UNCHANGED dead

Lose ==
    /\ map' = [n \in Names |-> Missing]
    /\ UNCHANGED dead

Expire ==
    /\ dead \subseteq dead' /\ dead' \subseteq Tokens
    /\ UNCHANGED map

Next ==
    \/ \E n \in Names, t \in Tokens \cup {Missing} : Change(n, t)
    \/ Purge \/ Lose \/ Expire

Spec == Init /\ [][Next]_mapVars
=============================================================================
