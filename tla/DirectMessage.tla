----------------------------- MODULE DirectMessage -----------------------------
(***************************************************************************)
(* Generated messages (base/protos/direct.py, class Message): lazily       *)
(* created children, presence, a oneof, ownership of children, copies, and *)
(* the reset mask of a full update.                                        *)
(*                                                                         *)
(* Every message of the model has the same type, with a field of each      *)
(* singular kind: "plain", a scalar without presence; "number", a scalar,  *)
(* and "message", a message, that are the two members of one oneof.        *)
(* Repeated fields, maps and extensions are left out, and so is the mask   *)
(* of recorded resets (get_mask), which decides nothing here.  The caller  *)
(* keeps every message it ever got, so a message its parent dropped is     *)
(* still used.                                                             *)
(***************************************************************************)
EXTENDS Naturals, Sequences, FiniteSets

CONSTANTS
    MaxObjects,     \* bound: messages ever created
    Numbers,        \* the numbers a caller assigns, 0 (the default) or 1
    Payloads        \* what serialized messages contain, as Content describes it

VARIABLES
    objects,        \* the messages, in the order of their creation
    silent          \* messages that MergeFromString filled

messageVars == <<objects, silent>>

Fields == {"plain", "number", "message"}
Oneof == {"number", "message"}
Absent == 0         \* no message
Unset == 2          \* the number of a message that has none; else 0, the default, or 1

(* _values, _present and _oneofs of a message, and the message to which its  *)
(* _on_mutation reports (Absent for none and for a detached child).  The     *)
(* default of plain stands for a missing entry of _values too: no code tells *)
(* them apart.                                                               *)
Blank == [plain |-> 0, number |-> Unset, message |-> Absent, present |-> {},
          selected |-> "none", owner |-> Absent]

(* There is room for n more messages. *)
Room(h, n) == Len(h) + n <= MaxObjects

NewObject(h) == Append(h, Blank)

DetachChild(h, o) ==
    IF h[o].message = Absent THEN h ELSE [h EXCEPT ![h[o].message].owner = Absent]

BindChild(h, o, c) == [h EXCEPT ![o].message = c, ![c].owner = o]

(* The state a message has without the field. *)
Without(r, f) ==
    [(CASE f = "plain" -> [r EXCEPT !.plain = 0]
        [] f = "number" -> [r EXCEPT !.number = Unset]
        [] f = "message" -> [r EXCEPT !.message = Absent])
     EXCEPT !.present = @ \ {f}, !.selected = IF @ = f THEN "none" ELSE @]

ClearStateBound(h, o, f) == [h EXCEPT ![o] = Without(@, f)]
ClearState(h, o, f) ==
    LET d == IF f = "message" THEN DetachChild(h, o) ELSE h
    IN  [d EXCEPT ![o] = Without(@, f)]

Select(h, o, f) ==
    IF f \notin Oneof THEN h
    ELSE LET previous == h[o].selected
             g == IF previous \in {"none", f} THEN h ELSE ClearState(h, o, previous)
         IN  [g EXCEPT ![o].selected = f, ![o].present = @ \cup {f}]

(* _notify of o: the parent selects the field, and notifies in its turn. *)
RECURSIVE Notify(_, _)
Notify(h, o) ==
    IF h[o].owner = Absent THEN h
    ELSE Notify(Select(h, h[o].owner, "message"), h[o].owner)

(* What a message carries over the wire or to a copy: itself and the chain   *)
(* of its present children.                                                  *)
RECURSIVE Content(_, _)
Content(h, o) ==
    <<[plain |-> h[o].plain, number |-> h[o].number]>>
        \o (IF "message" \in h[o].present THEN Content(h, h[o].message) ELSE <<>>)

(* The loops of MergeFrom and of _merge_from_string, during which o does not *)
(* notify its parent.  A child that is present takes the content; one that   *)
(* was only handed out is detached and replaced by a copy.                   *)
RECURSIVE MergeContent(_, _, _)
Clone(h, content) == MergeContent(NewObject(h), Len(h) + 1, content)
MergeContent(h, o, content) ==
    LET it == Head(content)
        g == IF it.plain = 0 THEN h ELSE [h EXCEPT ![o].plain = it.plain]
    IN  CASE it.number # Unset -> Select([g EXCEPT ![o].number = it.number], o, "number")
          [] it.number = Unset /\ Len(content) = 1 -> g
          [] it.number = Unset /\ Len(content) > 1 ->
                 IF "message" \in g[o].present
                 THEN MergeContent(g, g[o].message, Tail(content))
                 ELSE Select(BindChild(Clone(DetachChild(g, o), Tail(content)), o, Len(g) + 1),
                             o, "message")

(* MergeFrom reads the other message field by field, after the earlier       *)
(* fields changed o, which may be a part of it.                              *)
MergeObject(h, o, x) ==
    LET g == MergeContent(h, o, <<Head(Content(h, x))>>)
    IN  MergeContent(g, o, <<[plain |-> 0, number |-> Unset]>> \o Tail(Content(g, x)))

ClearAll(h, o) ==
    LET c == ClearState(ClearState(ClearState(h, o, "plain"), o, "number"), o, "message")
    IN  Notify(c, o)

-----------------------------------------------------------------------------
MessageInit == objects = <<Blank>> /\ silent = {}

(* A message of its own. *)
Construct ==
    /\ Room(objects, 1)
    /\ objects' = NewObject(objects)
    /\ UNCHANGED silent

(* Reading "message" as a view: the child is created but not present. *)
GetField(o) ==
    /\ objects[o].message = Absent
    /\ Room(objects, 1)
    /\ objects' = BindChild(NewObject(objects), o, Len(objects) + 1)
    /\ UNCHANGED silent

SetPlain(o, v) ==
    /\ objects' = Notify([objects EXCEPT ![o].plain = v], o)
    /\ UNCHANGED silent

SetNumber(o, v) ==
    /\ objects' = Notify([Select(objects, o, "number") EXCEPT ![o].number = v], o)
    /\ UNCHANGED silent

(* Assigning a message stores a copy of it. *)
SetMessage(o, x) ==
    /\ Room(objects, Len(Content(objects, x)))
    /\ LET g == Clone(objects, Content(objects, x))
       IN  objects' = Notify(BindChild(Select(DetachChild(g, o), o, "message"), o, Len(objects) + 1), o)
    /\ UNCHANGED silent

(* Assigning None, and ClearField with the name of the field or of a oneof   *)
(* in which it is selected.                                                  *)
ClearField(o, f) ==
    /\ objects' = Notify(ClearState(objects, o, f), o)
    /\ UNCHANGED silent

Clear(o) ==
    /\ objects' = ClearAll(objects, o)
    /\ UNCHANGED silent

MergeFrom(o, x) ==
    /\ Room(objects, Len(Content(objects, x)) - 1)
    /\ objects' = Notify(MergeObject(objects, o, x), o)
    /\ UNCHANGED silent

CopyFrom(o, x) ==
    /\ x # o
    /\ LET g == ClearAll(objects, o)
       IN  Room(g, Len(Content(g, x)) - 1) /\ objects' = Notify(MergeObject(g, o, x), o)
    /\ UNCHANGED silent

(* Decoding into a message does not notify the parent. *)
MergeFromString(o, payload) ==
    /\ Room(objects, Len(payload) - 1)
    /\ objects' = MergeContent(objects, o, payload)
    /\ silent' = silent \cup {o}

ParseFromString(o, payload) ==
    /\ Room(objects, Len(payload) - 1)
    /\ objects' = MergeContent(ClearAll(objects, o), o, payload)
    /\ UNCHANGED silent

Call(o) ==
    \/ GetField(o)
    \/ \E v \in 0..1 : SetPlain(o, v)
    \/ \E v \in Numbers : SetNumber(o, v)
    \/ \E x \in DOMAIN objects : SetMessage(o, x) \/ MergeFrom(o, x) \/ CopyFrom(o, x)
    \/ \E f \in Fields : ClearField(o, f)
    \/ Clear(o)
    \/ \E p \in Payloads : MergeFromString(o, p) \/ ParseFromString(o, p)

MessageNext == Construct \/ \E o \in DOMAIN objects : Call(o)

-----------------------------------------------------------------------------
(* get_full_update_reset_mask, as the set of its paths. *)
HasValue(r, f) == IF f \in Oneof THEN f \in r.present ELSE r.plain # 0

RECURSIVE FullMask(_, _)
FullMask(h, o) ==
    LET r == h[o]
    IN  {<<f>> : f \in {g \in Fields : g = "message" \/ ~HasValue(r, g) \/ (g = "number" /\ r.number = 0)}}
            \cup (IF HasValue(r, "message")
                  THEN {<<"message">> \o p : p \in FullMask(h, r.message)} ELSE {})

(* The messages have the values the code gives them. *)
MessageTypeOK ==
    /\ objects \in Seq([plain : 0..1, number : 0..2, message : 0..MaxObjects,
                          present : SUBSET Oneof, selected : Oneof \cup {"none"},
                          owner : 0..MaxObjects])
    /\ Len(objects) \in 1..MaxObjects
    /\ silent \subseteq DOMAIN objects

(* The presence of the members of a oneof, their stored values and the name  *)
(* the message keeps for WhichOneof agree after any sequence of calls,       *)
(* although a child changes them from below (_select, _child_changed).       *)
OneofAgrees ==
    \A o \in DOMAIN objects :
        LET r == objects[o]
        IN  /\ r.present = {r.selected} \ {"none"}
            /\ ("number" \in r.present) = (r.number # Unset)
            /\ "message" \in r.present => r.message # Absent

(* A child reports to the message that holds it and to no other: what was    *)
(* replaced, cleared or displaced in a oneof reports to nobody, and what is  *)
(* held always reports (_bind_child, _detach_child).                         *)
ReportsToHolder ==
    \A o, c \in DOMAIN objects : objects[o].message = c <=> objects[c].owner = o

(* What is written into a child that was only handed out is not lost when    *)
(* the parent is serialized: a held child with content is present in its     *)
(* parent, unless the content came from MergeFromString, which does not      *)
(* notify (_notify, _child_changed).                                         *)
ContentPresent ==
    \A o, c \in DOMAIN objects :
        ( /\ objects[o].message = c
          /\ objects[c].plain # 0 \/ objects[c].present # {}
          /\ "message" \notin objects[o].present ) => c \in silent

Visible(h, o) == [h[o] EXCEPT !.owner = Absent]

RECURSIVE Above(_, _)
Above(h, o) == {o} \cup (IF h[o].owner = Absent THEN {} ELSE Above(h, h[o].owner))

(* A call changes the message it is made on, its ancestors and the children  *)
(* below it, and no other: a copy, its source and a detached child live      *)
(* apart.                                                                    *)
CallsStayInTree ==
    [][\E o \in DOMAIN objects : \A q \in DOMAIN objects :
            Visible(objects', q) # Visible(objects, q) => q \in Above(objects, o) \/ o \in Above(objects, q)]_messageVars

(* A full update resets exactly the fields that carry no value, level by     *)
(* level down the children that are present: together with the message it    *)
(* determines every field (get_full_update_reset_mask).                      *)
FullMaskExact ==
    \A o \in DOMAIN objects :
        LET levels == Content(objects, o)
            Down(k) == [i \in 1..(k - 1) |-> "message"]
        IN  FullMask(objects, o) =
                {Append(Down(k), "message") : k \in DOMAIN levels}
                \cup {Append(Down(k), "plain") : k \in {j \in DOMAIN levels : levels[j].plain = 0}}
                \cup {Append(Down(k), "number") : k \in {j \in DOMAIN levels : levels[j].number # 1}}
=============================================================================
