--------------------------- MODULE MCChannelPool ---------------------------
EXTENDS ChannelPool, TLC

CONSTANTS c1, loop, a1, t1, t2, t3, w1, w2, w3, w4

(* Every channel connects to the one address. *)
ThreeToOneAddress == [t \in {t1, t2, t3} |-> a1]
OneToOneAddress == [t \in {t1} |-> a1]

(* Bound: at most two of the three native channels are created, any two of   *)
(* an ordinary one, one of a foreign loop, and one that a caller wraps.      *)
TwoInUse == \E t \in Transports : native[t] = "none"

(* Wrappers are interchangeable; no liveness property uses this. *)
Symmetry == Permutations(Wrappers)
============================================================================
