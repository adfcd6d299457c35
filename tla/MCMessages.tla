------------------------------ MODULE MCMessages ------------------------------
(***************************************************************************)
(* The message layer, for TLC: messages, field masks and their parser, and *)
(* the wire format.  A behaviour is one of one part, chosen by `what`; the *)
(* variables of the others keep their initial values.  Messages come       *)
(* twice: four of them, whose numbers are the default when they are set,   *)
(* and three ("values") with other numbers too.                            *)
(***************************************************************************)
EXTENDS Naturals, Sequences

VARIABLES what, objects, silent, mask, parser, text, bytes, groups, fields, skipping

(* Serialized messages: flat ones with each kind of field, and a nested one. *)
Inputs(n) ==
    {<<[plain |-> 1, number |-> 2]>>, <<[plain |-> 0, number |-> n]>>,
     <<[plain |-> 0, number |-> 2], [plain |-> 1, number |-> 2]>>}

(* The masks of one path of up to two labels, and two that mix names and     *)
(* wildcards; together they build every mask of that depth.                  *)
MaskLabels == <<"*", "a", "b">>
Prefixes(q) == {SubSeq(q, 1, n) : n \in 0..Len(q)}
MaskOperands ==
    {Prefixes(q) : q \in UNION {[1..n -> {"*", "a", "b"}] : n \in 0..2}}
        \cup {Prefixes(<<"a", "*">>) \cup Prefixes(<<"*", "b">>), Prefixes(<<"a", "b">>) \cup Prefixes(<<"*">>)}

Ms == INSTANCE DirectMessage WITH MaxObjects <- 4, Numbers <- {0}, Payloads <- Inputs(0)
Vs == INSTANCE DirectMessage WITH MaxObjects <- 3, Numbers <- {0, 1}, Payloads <- Inputs(1)
Mk == INSTANCE FieldMaskParser WITH
        Keys <- {"a", "b"}, Wild <- "*", Operands <- MaskOperands, Depth <- 3,
        Order <- MaskLabels, Words <- {"a", "b"}, MaxTokens <- 9
Wr == INSTANCE Wire WITH
        Bits <- 2, Long <- 7, Short <- 5, TypeBits <- 3, MaxType <- 5,
        MaxDepth <- 2, MaxBytes <- 5, MaxFields <- 6

messageVars == <<objects, silent>>
parserVars == <<parser, text>>
wireVars == <<bytes, groups, fields, skipping>>
vars == <<what, messageVars, mask, parserVars, wireVars>>

Init ==
    /\ what \in {"message", "values", "mask", "parser", "wire"}
    /\ Ms!MessageInit /\ Mk!MaskInit /\ Mk!ParserInit /\ Wr!WireInit

Next ==
    /\ UNCHANGED what
    /\ \/ what = "message" /\ Ms!MessageNext /\ UNCHANGED <<mask, parserVars, wireVars>>
       \/ what = "values" /\ Vs!MessageNext /\ UNCHANGED <<mask, parserVars, wireVars>>
       \/ what = "mask" /\ Mk!MaskNext /\ UNCHANGED <<messageVars, parserVars, wireVars>>
       \/ what = "parser" /\ Mk!ParserNext /\ UNCHANGED <<messageVars, mask, wireVars>>
       \/ what = "wire" /\ Wr!WireNext /\ UNCHANGED <<messageVars, mask, parserVars>>

Spec == Init /\ [][Next]_vars

(* In a tree of messages presence, values and the selected name of a oneof   *)
(* agree (_select), a child reports to the message that holds it and to no   *)
(* other (_bind_child), its content is present in the parent (_notify), the  *)
(* mask of a full update resets what carries no value, and a call leaves     *)
(* messages outside the tree of its message alone (_clone).  The type        *)
(* invariants of all parts are checked along.                                *)
MessageTree ==
    /\ [](/\ Ms!MessageTypeOK /\ Mk!MaskTypeOK /\ Wr!WireTypeOK
         /\ Ms!OneofAgrees /\ Ms!ReportsToHolder /\ Ms!ContentPresent /\ Ms!FullMaskExact)
    /\ Ms!CallsStayInTree

(* The operations on masks mean what their paths mean: the sub-mask for a    *)
(* path is the rest of all paths that cover it (sub_mask), paths match what  *)
(* the members of the mask cover (matches_reset_mask), an intersection       *)
(* matches what both match (intersect_reset_mask), and a subtraction removes *)
(* the paths the other mask covers (subtract_reset_mask).                    *)
MasksMean ==
    what = "mask" =>
        Mk!SubMaskCollects /\ Mk!MatchesMean /\ Mk!IntersectMatchesBoth /\ Mk!SubtractRemovesCovered

(* Every path a text says is in the mask it is parsed to, a text without a   *)
(* continued group is parsed to exactly what it says, and a mask survives    *)
(* being written and read back (parse, marshal).                             *)
ParserSound ==
    /\ what = "parser" => Mk!NothingLost /\ Mk!ParsedAsSaid
    /\ what = "mask" => Mk!RoundTrip

(* A varint is the number its bytes spell, cut to its width; what is written *)
(* is read back at the edges of each width; a tag is accepted exactly when   *)
(* it fits; a packed field divides into whole values or is refused; and an   *)
(* unknown group is skipped to its own end (BinaryReader, BinaryWriter).     *)
WireSound ==
    what = "wire" =>
        /\ Wr!VarintSpells /\ Wr!WrittenReadBack /\ Wr!TagsFit /\ Wr!PackedFills
        /\ Wr!GroupSkippedWhole
=============================================================================
