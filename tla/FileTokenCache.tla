---------------------------- MODULE FileTokenCache ----------------------------
(***************************************************************************)
(* The token file that the processes of a user share                       *)
(* (aio/token/file_cache/token_cache.py and async_flock.py).  Every access *)
(* takes the same exclusive lock; a write truncates the file and fills it  *)
(* again, so a process that dies in between leaves it empty or cut off.    *)
(*                                                                         *)
(* A token is its text and whether its expiry has a fraction of a second:  *)
(* Token.to_dict keeps whole seconds only, so what is read back from the   *)
(* file may differ from what was stored.                                   *)
(***************************************************************************)
EXTENDS Naturals

CONSTANTS
    Clients,   \* tasks that use the file, of one process or of several
    Names,     \* names of tokens
    Ids,       \* texts of tokens, positive numbers
    Nobody

ASSUME CacheAssumption ==
    /\ Names # {} /\ Ids \subseteq Nat \ {0}
    /\ Nobody \notin Clients

VARIABLES
    file,      \* "absent", "ok", or "garbled"
    content,   \* the entries of the file
    lock,      \* the client that holds the lock on the file, or Nobody
    buf,       \* what the holder of the lock is going to write
    op,        \* the operation of every client
    expired    \* the texts whose tokens have expired

disk == <<file, content, lock, buf>>
cacheVars == <<disk, op, expired>>

Token == [id: Ids, exact: BOOLEAN]
Missing == [id |-> 0, exact |-> FALSE]
MaybeToken == Token \cup {Missing}

(* Token.from_dict(Token.to_dict(t)) *)
Stored(t) == [id |-> t.id, exact |-> FALSE]

(* not Token.is_expired *)
Live(t) == t # Missing /\ t.id \notin expired

Empty == [n \in Names |-> Missing]

(* _yaml_parse: what cannot be parsed counts as no tokens. *)
Parsed == IF file = "ok" THEN content ELSE Empty

(* _yaml_dump leaves expired tokens out. *)
Dumped(tokens) == [n \in Names |-> IF Live(tokens[n]) THEN Stored(tokens[n]) ELSE Missing]

NoOp == [pc |-> "idle", kind |-> "get", name |-> CHOOSE n \in Names : TRUE,
         tok |-> Missing, ret |-> Missing]

CacheInit ==
    /\ file = "absent" /\ content = Empty /\ lock = Nobody /\ buf = Empty
    /\ op = [c \in Clients |-> NoOp]
    /\ expired = {}

Busy(c) == op[c].pc \in {"lock", "write"}

Ended(how, t) == [NoOp EXCEPT !.pc = how, !.ret = t]
Ends(c, how, t) == op' = [op EXCEPT ![c] = Ended(how, t)]

(* All operations but set() look for the file first. *)
Start(c, kind, n, t) ==
    /\ ~Busy(c)
    /\ op' = [op EXCEPT ![c] =
          IF kind # "set" /\ file = "absent"
          THEN Ended("done", Missing)
          ELSE [pc |-> "lock", kind |-> kind, name |-> n, tok |-> t, ret |-> Missing]]
    /\ UNCHANGED <<disk, expired>>

(* Mutant: reading does without the lock. *)
MayReadUnlocked == TRUE

(* get() takes the same exclusive lock as the writers. *)
MayRead == lock = Nobody

(* The locked section of get().  An entry that is missing or has expired is  *)
(* cleaned up by a remove() with a lock of its own, unless the file could    *)
(* not be parsed.                                                            *)
Read(c) ==
    /\ op[c].pc = "lock" /\ op[c].kind = "get" /\ MayRead
    /\ \/ /\ Live(Parsed[op[c].name])
          /\ Ends(c, "done", Parsed[op[c].name])
       \/ /\ ~Live(Parsed[op[c].name]) /\ file = "garbled"
          /\ Ends(c, "done", Missing)
       \/ /\ ~Live(Parsed[op[c].name]) /\ file # "garbled"
          /\ op' = [op EXCEPT ![c].kind = "cleanup"]
    /\ UNCHANGED <<disk, expired>>

(* The entry that an operation leaves under its name. *)
NewEntry(o) ==
    IF o.kind = "set" THEN o.tok
    ELSE IF o.kind = "removeIfEqual" /\ Parsed[o.name] # o.tok THEN Parsed[o.name]
    ELSE Missing

(* Mutant: the other entries of the file are not carried over. *)
ChangedAlone(o) == [Empty EXCEPT ![o.name] = NewEntry(o)]

(* The entries of the file with the change that an operation makes. *)
Changed(o) == [Parsed EXCEPT ![o.name] = NewEntry(o)]

(* set(), remove() and remove_if_equal(): lock, read, change, truncate ... *)
Load(c) ==
    /\ op[c].pc = "lock" /\ op[c].kind # "get" /\ lock = Nobody
    /\ lock' = c
    /\ buf' = Changed(op[c])
    /\ content' = Empty /\ file' = "ok"
    /\ op' = [op EXCEPT ![c].pc = "write"]
    /\ UNCHANGED expired

(* ... write and unlock. *)
Flush(c) ==
    /\ op[c].pc = "write"
    /\ content' = Dumped(buf)
    /\ lock' = Nobody /\ buf' = Empty
    /\ Ends(c, "done", Missing)
    /\ UNCHANGED <<file, expired>>

(* Mutant: a busy lock is polled without end. *)
LockTimeoutNever(c) ==
    /\ FALSE
    /\ UNCHANGED cacheVars

(* Lock.__aenter__ polls a busy lock until flock_timeout. *)
LockTimeout(c) ==
    /\ op[c].pc = "lock" /\ lock # Nobody
    /\ Ends(c, "timeout", Missing)
    /\ UNCHANGED <<disk, expired>>

(* The steps of an operation that has begun. *)
CacheStep(c) == Read(c) \/ Load(c) \/ Flush(c) \/ LockTimeout(c)

(* The task is cancelled while it polls the lock. *)
CancelOp(c) ==
    /\ op[c].pc = "lock"
    /\ op' = [op EXCEPT ![c] = NoOp]
    /\ UNCHANGED <<disk, expired>>

(* The process of some clients dies and the system drops its lock. *)
Crash(C) ==
    /\ op' = [c \in Clients |-> IF c \in C THEN NoOp ELSE op[c]]
    /\ IF lock \in C
       THEN lock' = Nobody /\ buf' = Empty /\ file' \in {"ok", "garbled"}
       ELSE UNCHANGED <<lock, buf, file>>
    /\ UNCHANGED <<content, expired>>

Expire(i) ==
    /\ expired' = expired \cup {i}
    /\ UNCHANGED <<disk, op>>

(* An operation that a client may call. *)
Calls(c, n) ==
    \/ \E kind \in {"get", "remove"} : Start(c, kind, n, Missing)
    \/ \E kind \in {"set", "removeIfEqual"}, t \in Token : Start(c, kind, n, t)

CacheNext ==
    \/ \E c \in Clients :
          \/ \E n \in Names : Calls(c, n)
          \/ CacheStep(c) \/ CancelOp(c)
    \/ \E C \in SUBSET Clients : Crash(C)
    \/ \E i \in Ids : Expire(i)

CacheSpec == CacheInit /\ [][CacheNext]_cacheVars

-----------------------------------------------------------------------------
OpType == [pc: {"idle", "lock", "write", "done", "timeout"},
           kind: {"get", "set", "remove", "removeIfEqual", "cleanup"},
           name: Names, tok: MaybeToken, ret: MaybeToken]

(* The variables of the token file have the values the code gives them. *)
CacheTypeOK ==
    /\ file \in {"absent", "ok", "garbled"}
    /\ content \in [Names -> MaybeToken] /\ buf \in [Names -> MaybeToken]
    /\ lock \in Clients \cup {Nobody}
    /\ op \in [Clients -> OpType]
    /\ expired \subseteq Ids

(* The map the file stands for: what the holder of the lock is about to      *)
(* write, or else what is in the file.                                       *)
View == IF lock = Nobody THEN Parsed ELSE [n \in Names |-> Stored(buf[n])]

Abstract == INSTANCE CacheMap WITH
    Tokens <- {t \in Token : ~t.exact}, map <- View,
    dead <- {t \in Token : ~t.exact /\ t.id \in expired}

(* The locked rewriting of the file (set, remove, remove_if_equal and the    *)
(* cleanup of get) is an atomic map from names to tokens: no operation of    *)
(* one client undoes or hides what another one did to a different name.      *)
ImplementsMap == Abstract!Spec

(* What a get() may find: a live entry ends it, any other one does not count. *)
FindsByMap ==
    \A c \in Clients :
        LET entry == View[op[c].name] IN
        op[c].pc = "lock" /\ op[c].kind = "get" /\ op'[c] # op[c] /\ op'[c].pc \in {"lock", "done"} =>
            op'[c].ret = IF Live(entry) THEN entry ELSE Missing

(* get() finds what the map holds at that moment: a reader never takes the   *)
(* file of a writer that has truncated it, and not filled it yet, for a      *)
(* missing token, which it would then remove.                                *)
GetSeesMap == [][FindsByMap]_cacheVars
=============================================================================
