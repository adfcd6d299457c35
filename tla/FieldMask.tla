------------------------------- MODULE FieldMask -------------------------------
(***************************************************************************)
(* Field masks (base/fieldmask.py): a mask is a tree whose edges are field *)
(* names or the wildcard.  The model writes it as the set of the paths     *)
(* from its root, which contains the prefixes of its members; the absence  *)
(* of a mask (None) is the empty set, the mask with no fields is {<<>>}.   *)
(* The operations are recursive in the tree as in the code; the invariants *)
(* compare them with what they mean for paths.                             *)
(***************************************************************************)
EXTENDS Naturals, Sequences, FiniteSets

CONSTANTS
    Keys,           \* field names
    Wild,           \* the wildcard
    Operands,       \* the masks a mask is combined with
    Depth           \* bound: length of the paths whose matches are compared

VARIABLE mask       \* a mask under construction

Labels == Keys \cup {Wild}
None == {}
Empty == {<<>>}

(* The part of a mask under a label: field_parts[l], or any for the wildcard. *)
Under(m, l) == {Tail(p) : p \in {q \in m \ {<<>>} : Head(q) = l}}

(* The mask with the given parts, None for the labels that have none. *)
Tree(part) == Empty \cup UNION {{<<l>> \o p : p \in part[l]} : l \in DOMAIN part}

RECURSIVE Merge(_, _)
Merge(m, o) ==
    IF o \in {None, Empty} THEN m
    ELSE Tree([l \in Labels |-> IF Under(m, l) # None THEN Merge(Under(m, l), Under(o, l))
                                ELSE Under(o, l)])

Join(m, o) == IF m = None THEN o ELSE Merge(m, o)

(* sub_mask of a key, then of a path. *)
SubMaskOfKey(m, k) ==
    IF Under(m, k) # None THEN Merge(Under(m, k), Under(m, Wild)) ELSE Under(m, Wild)

RECURSIVE SubMask(_, _)
SubMask(m, path) ==
    IF path = <<>> \/ m = None THEN m ELSE SubMask(SubMaskOfKey(m, Head(path)), Tail(path))

(* _matches_reset_mask and _matches_select_mask: whether the path matches,   *)
(* and whether the mask ends there, or above.                                *)
EitherFirst(a, b) == IF a.match THEN a ELSE b
Either(a, b) == [match |-> a.match \/ b.match, flag |-> a.flag \/ (b.match /\ b.flag)]

RECURSIVE MatchesReset(_, _)
MatchesReset(path, m) ==
    IF m = None THEN [match |-> FALSE, flag |-> FALSE]
    ELSE IF path = <<>> THEN [match |-> TRUE, flag |-> m = Empty]
    ELSE Either(MatchesReset(Tail(path), Under(m, Wild)), MatchesReset(Tail(path), Under(m, Head(path))))

RECURSIVE MatchesSelect(_, _)
MatchesPart(path, m) == IF m = None THEN [match |-> FALSE, flag |-> FALSE] ELSE MatchesSelect(path, m)
MatchesSelect(path, m) ==
    IF m \in {None, Empty} THEN [match |-> TRUE, flag |-> path # <<>>]
    ELSE IF path = <<>> THEN [match |-> TRUE, flag |-> FALSE]
    ELSE Either(MatchesPart(Tail(path), Under(m, Wild)), MatchesPart(Tail(path), Under(m, Head(path))))

RECURSIVE IntersectReset(_, _)
IntersectReset(m, o) ==
    IF None \in {m, o} THEN None
    ELSE Tree([l \in Labels |->
            IF l = Wild THEN IntersectReset(Under(m, Wild), Under(o, Wild))
            ELSE Join(Join(IntersectReset(Under(m, Wild), Under(o, l)),
                           IntersectReset(Under(o, Wild), Under(m, l))),
                      IntersectReset(Under(m, l), Under(o, l)))])

RECURSIVE IntersectDumb(_, _)
IntersectDumb(m, o) ==
    IF None \in {m, o} THEN None
    ELSE Tree([l \in Labels |-> IntersectDumb(Under(m, l), Under(o, l))])

(* What is left of a part from which something was subtracted. *)
UnlessEmpty(m) == IF m = Empty THEN None ELSE m

RECURSIVE SubtractDumb(_, _)
SubtractDumb(m, o) ==
    IF o = None THEN m
    ELSE Tree([l \in Labels |->
            IF None \in {Under(m, l), Under(o, l)} THEN Under(m, l)
            ELSE UnlessEmpty(SubtractDumb(Under(m, l), Under(o, l)))])

(* The wildcard of m is examined whether or not o has one. *)
RECURSIVE SubtractReset(_, _)
SubtractReset(m, o) ==
    IF o = None THEN m
    ELSE Tree([l \in Labels |->
            IF Under(m, l) = None THEN None
            ELSE IF l = Wild THEN UnlessEmpty(SubtractReset(Under(m, Wild), Under(o, Wild)))
            ELSE IF Under(o, Wild) = None /\ Under(o, l) = None THEN Under(m, l)
            ELSE UnlessEmpty(SubtractReset(SubtractReset(Under(m, l), Under(o, Wild)), Under(o, l)))])

-----------------------------------------------------------------------------
(* The mask under construction is changed in place, time and again. *)
MaskInit == mask = Empty

Combine(other) ==
    \/ mask' = Merge(mask, other)
    \/ mask' = IntersectReset(mask, other)
    \/ mask' = IntersectDumb(mask, other)
    \/ mask' = SubtractDumb(mask, other)
    \/ mask' = SubtractReset(mask, other)

MaskNext == \E other \in Operands : Combine(other)

-----------------------------------------------------------------------------
Paths == UNION {[1..n -> Keys] : n \in 0..Depth}
Start(q, n) == SubSeq(q, 1, n)

(* The full paths of a mask, and the mask with given full paths. *)
Ends(m) == {p \in m : \A l \in Labels : Append(p, l) \notin m}
Closure(paths) == Empty \cup UNION {{Start(p, n) : n \in 0..Len(p)} : p \in paths}

(* A path of a mask stands for the path p, name by name or by wildcards. *)
Covers(q, p) == Len(q) = Len(p) /\ \A i \in DOMAIN p : q[i] \in {p[i], Wild}

(* Masks are closed under prefixes and as deep as the operands. *)
MaskTypeOK == mask = Closure(Ends(mask)) /\ mask \subseteq UNION {[1..n -> Labels] : n \in 0..2}

(* The sub-mask for a path is what remains of every path of the mask that    *)
(* covers it, through names and wildcards mixed in any way (sub_mask).       *)
SubMaskCollects ==
    \A p \in Paths :
        SubMask(mask, p) = {SubSeq(q, Len(p) + 1, Len(q)) :
                               q \in {r \in mask : Len(r) >= Len(p) /\ Covers(Start(r, Len(p)), p)}}

(* A reset mask matches the paths its members cover, finally where one of    *)
(* them ends; a select mask matches these and all below its ends.            *)
MatchesMean ==
    \A p \in Paths :
        LET reset == MatchesReset(p, mask)
            select == MatchesSelect(p, mask)
            EndsAt(n) == \E q \in Ends(mask) : Covers(q, Start(p, n))
        IN  /\ reset.match = \E q \in mask : Covers(q, p)
            /\ reset.flag = EndsAt(Len(p))
            /\ select.match = (reset.match \/ \E n \in 0..Len(p) : EndsAt(n))
            /\ select.flag = \E n \in 0..(Len(p) - 1) : EndsAt(n)

(* The intersection of two reset masks matches exactly what both match, and  *)
(* the simple one keeps their common paths (intersect_reset_mask,            *)
(* intersect_dumb).                                                          *)
IntersectMatchesBoth ==
    \A other \in Operands :
        LET both == IntersectReset(mask, other)
        IN  /\ \A p \in Paths : MatchesReset(p, both).match
                                    = (MatchesReset(p, mask).match /\ MatchesReset(p, other).match)
            /\ IntersectDumb(mask, other) = mask \cap other

(* Subtraction removes the full paths that the other mask covers and keeps   *)
(* the rest, and leaves no empty branch behind.  Masks with a full path that *)
(* ends in the wildcard are left out: subtract_reset_mask drops those paths  *)
(* whatever it subtracts.                                                    *)
SubtractRemovesCovered ==
    \A other \in Operands :
        /\ SubtractDumb(mask, other) = Closure(Ends(mask) \ other)
        /\ (\A p \in Ends(mask) : p = <<>> \/ p[Len(p)] # Wild) =>
               SubtractReset(mask, other) = Closure({p \in Ends(mask) : \A q \in other : ~Covers(q, p)})
=============================================================================
