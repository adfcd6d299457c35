--------------------------- MODULE FieldMaskParser ---------------------------
(***************************************************************************)
(* The parser of mask strings (base/fieldmask_parser.py) and marshal of    *)
(* base/fieldmask.py.  The parser builds its mask as a graph of nodes that *)
(* it extends at several places at a time, and shares one new node between *)
(* all places that lack a name; the result is the unfolding of the graph.  *)
(* The lexer is left out: a text is a sequence of tokens.                  *)
(***************************************************************************)
EXTENDS FieldMask

CONSTANTS
    Order,          \* the labels, in the order in which marshal sorts them
    Words,          \* the labels that texts use
    MaxTokens       \* bound: length of the texts

VARIABLES
    parser,         \* the parser, after
    text            \* the tokens read so far

parserVars == <<parser, text>>

Tokens == Words \cup {".", ",", "(", ")"}
Root == 1

(* Level: starts, ends and active, each a set of nodes.  A level is pushed   *)
(* for each open parenthesis.                                                *)
FirstLevel == [starts |-> {Root}, ends |-> {}, active |-> {Root}]

Beginning == [state |-> "key", levels |-> <<FirstLevel>>, edges |-> {}, nodes |-> Root]

Top(p) == p.levels[Len(p.levels)]
WithTop(p, level) == [p EXCEPT !.levels[Len(p.levels)] = level]

Has(p, n, l) == \E e \in p.edges : e[1] = n /\ e[2] = l
Part(p, n, l) == (CHOOSE e \in p.edges : e[1] = n /\ e[2] = l)[3]

(* add_key and add_any *)
AddLabel(p, l) ==
    LET level == Top(p)
        lacking == {n \in level.active : ~Has(p, n, l)}
        new == p.nodes + 1
        active == {IF n \in lacking THEN new ELSE Part(p, n, l) : n \in level.active}
    IN  [WithTop(p, [level EXCEPT !.active = active]) EXCEPT
            !.edges = @ \cup {<<n, l, new>> : n \in lacking},
            !.nodes = IF lacking = {} THEN @ ELSE new]

NewMask(p) ==
    LET level == Top(p)
    IN  WithTop(p, [level EXCEPT !.ends = @ \cup level.active, !.active = level.starts])

PushLevel(p) ==
    [p EXCEPT !.levels = Append(@, [starts |-> Top(p).active, ends |-> {}, active |-> Top(p).active])]

PopLevelLast(p) ==
    LET outer == [p EXCEPT !.levels = SubSeq(@, 1, Len(@) - 1)]
    IN  WithTop(outer, [Top(outer) EXCEPT !.active = Top(p).active])
PopLevel(p) ==
    LET outer == [p EXCEPT !.levels = SubSeq(@, 1, Len(@) - 1)]
    IN  WithTop(outer, [Top(outer) EXCEPT !.active = Top(p).ends \cup Top(p).active])

(* One turn of the loop of parse, with the turn that only leaves LEVEL_START. *)
Step(p, t) ==
    LET at == IF p.state = "level start" THEN (IF t = ")" THEN "separator" ELSE "key") ELSE p.state
        To(q, s) == [q EXCEPT !.state = s]
    IN  CASE at = "key" /\ t \in Labels -> To(AddLabel(p, t), "separator")
          [] at = "key" /\ t = "(" -> To(PushLevel(p), "level start")
          [] at = "separator" /\ t = "." -> To(p, "key")
          [] at = "separator" /\ t = "," -> To(NewMask(p), "key")
          [] at = "separator" /\ t = ")" /\ Len(p.levels) > 1 -> To(PopLevel(p), "separator")
          [] OTHER -> To(p, "error")

Accepts(p) == p.state = "separator" /\ Len(p.levels) = 1

RECURSIVE Unfold(_, _)
Unfold(edges, n) ==
    Empty \cup UNION {{<<e[2]>> \o q : q \in Unfold(edges, e[3])} : e \in {d \in edges : d[1] = n}}

RECURSIVE ParseFrom(_, _)
ParseFrom(p, tokens) == IF tokens = <<>> THEN p ELSE ParseFrom(Step(p, Head(tokens)), Tail(tokens))

(* The mask of a text that parse accepts. *)
Parse(tokens) == IF tokens = <<>> THEN Empty ELSE Unfold(ParseFrom(Beginning, tokens).edges, Root)

(* marshal *)
Children(m) == SelectSeq(Order, LAMBDA l : Under(m, l) # None)

RECURSIVE Marshal(_)
MarshalPart(m, l) ==
    LET part == Under(m, l)
    IN  CASE part = Empty -> <<l>>
          [] part # Empty /\ Len(Children(part)) = 1 -> <<l, ".">> \o Marshal(part)
          [] part # Empty /\ Len(Children(part)) # 1 -> <<l, ".", "(">> \o Marshal(part) \o <<")">>
Marshal(m) ==
    LET labels == Children(m)
        Text[i \in 0..Len(labels)] ==
            IF i = 0 THEN <<>>
            ELSE Text[i - 1] \o (IF i = 1 THEN <<>> ELSE <<",">>) \o MarshalPart(m, labels[i])
    IN  Text[Len(labels)]

-----------------------------------------------------------------------------
ParserInit == parser = Beginning /\ text = <<>>

ParserNext ==
    /\ parser.state # "error"
    /\ Len(text) < MaxTokens
    /\ \E t \in Tokens : parser' = Step(parser, t) /\ text' = Append(text, t)

-----------------------------------------------------------------------------
(* The full paths a text says, by its grammar: a list of alternatives, each  *)
(* a product of names, wildcards and groups.                                 *)
Nesting(s, i) == Cardinality({j \in 1..i : s[j] = "("}) - Cardinality({j \in 1..i : s[j] = ")"})
Cuts(s, separator) == {i \in DOMAIN s : s[i] = separator /\ Nesting(s, i) = 0}
Left(s, i) == SubSeq(s, 1, i - 1)
Right(s, i) == SubSeq(s, i + 1, Len(s))

RECURSIVE Says(_)
Says(s) ==
    CASE s = <<>> -> Empty
      [] s # <<>> /\ Cuts(s, ",") # {} ->
             LET i == CHOOSE j \in Cuts(s, ",") : TRUE IN Says(Left(s, i)) \cup Says(Right(s, i))
      [] s # <<>> /\ Cuts(s, ",") = {} /\ Cuts(s, ".") # {} ->
             LET i == CHOOSE j \in Cuts(s, ".") : TRUE
             IN  {p \o q : p \in Says(Left(s, i)), q \in Says(Right(s, i))}
      [] OTHER -> IF Head(s) = "(" THEN Says(SubSeq(s, 2, Len(s) - 1)) ELSE {s}

(* Every path the text says is in the mask, however groups are nested and    *)
(* whichever of their branches share a node (add_key, pop_level).            *)
NothingLost == Accepts(parser) => Says(text) \subseteq Unfold(parser.edges, Root)

(* A text in which no group is continued by a "." becomes the mask it says,  *)
(* and no more (add_key, new_mask).  A group that is continued shares one    *)
(* node between its branches, and what is later said of one of them is then  *)
(* said of all.                                                              *)
ParsedAsSaid ==
    ( /\ Accepts(parser)
      /\ \A i \in 1..(Len(text) - 1) : ~(text[i] = ")" /\ text[i + 1] = ".") )
    => Unfold(parser.edges, Root) = Closure(Says(text))

(* A mask survives being written and read back (marshal, parse), with names, *)
(* wildcards and groups.                                                     *)
RoundTrip == Parse(Marshal(mask)) = mask
=============================================================================
