------------------------- MODULE FileTokenCacheProofs -------------------------
(***************************************************************************)
(* The token file is an atomic map for every number of clients, names and  *)
(* tokens, and a get() finds what that map holds.                          *)
(***************************************************************************)
EXTENDS FileTokenCache, TLAPS

(* Who writes holds the lock, alone; while somebody does, the file is        *)
(* truncated; the file never holds a fraction of a second; and an operation  *)
(* under way has no answer yet.                                              *)
CacheInv ==
    /\ CacheTypeOK
    /\ \A c \in Clients : op[c].pc = "write" <=> lock = c
    /\ lock # Nobody => file = "ok" /\ content = Empty
    /\ \A n \in Names : ~content[n].exact
    /\ \A c \in Clients : Busy(c) => op[c].ret = Missing

(* What the file stands for when a token is written and read back. *)
LEMMA StoredType ==
    ASSUME NEW t \in MaybeToken
    PROVE  /\ Stored(t) \in MaybeToken /\ ~Stored(t).exact
           /\ t = Missing => Stored(t) = Missing
           /\ t # Missing => Stored(t) \in Token /\ Stored(t).id = t.id
           /\ ~t.exact => Stored(t) = t
<1>1. CASE t = Missing
  BY <1>1 DEF Stored, MaybeToken, Missing
<1>2. CASE t \in Token
  BY <1>2, CacheAssumption DEF Stored, MaybeToken, Missing, Token
<1> QED
  BY <1>1, <1>2 DEF MaybeToken

(* Missing is no token: texts are positive. *)
LEMMA MissingNoToken == Missing \notin Token /\ Missing \in MaybeToken /\ ~Missing.exact
  BY CacheAssumption DEF Missing, Token, MaybeToken

(* The records of an operation that has not begun and of one that has ended. *)
LEMMA NoOpType == NoOp \in OpType /\ NoOp.pc = "idle"
<1>1. (CHOOSE n \in Names : TRUE) \in Names
  BY CacheAssumption
<1> QED
  BY <1>1, MissingNoToken DEF NoOp, OpType

(* An operation ends with the answer it is given. *)
LEMMA EndedType ==
    ASSUME NEW how \in {"done", "timeout"}, NEW t \in MaybeToken
    PROVE  Ended(how, t) \in OpType /\ Ended(how, t).pc = how /\ Ended(how, t).ret = t
  BY NoOpType DEF Ended, OpType

(* A file without tokens. *)
LEMMA EmptyType == Empty \in [Names -> MaybeToken] /\ \A n \in Names : ~Empty[n].exact
  BY MissingNoToken DEF Empty

(* What is read from the file has whole seconds only. *)
LEMMA ParsedType ==
    ASSUME CacheInv
    PROVE  Parsed \in [Names -> MaybeToken] /\ \A n \in Names : ~Parsed[n].exact
  BY EmptyType DEF CacheInv, CacheTypeOK, Parsed

(* The entry that an operation leaves is a token or missing. *)
LEMMA NewEntryType ==
    ASSUME CacheInv, NEW c \in Clients
    PROVE  NewEntry(op[c]) \in MaybeToken
  BY ParsedType, MissingNoToken DEF CacheInv, CacheTypeOK, NewEntry, OpType

(* What is written has whole seconds only. *)
LEMMA DumpedType ==
    ASSUME NEW b \in [Names -> MaybeToken]
    PROVE  Dumped(b) \in [Names -> MaybeToken] /\ \A n \in Names : ~Dumped(b)[n].exact
  BY StoredType, MissingNoToken DEF Dumped

-----------------------------------------------------------------------------
(* The invariant holds of a file that does not exist yet. *)
LEMMA CacheInvInit == CacheInit => CacheInv
  BY NoOpType, EmptyType, CacheAssumption DEF CacheInit, CacheInv, CacheTypeOK, Busy

(* Every step of a client, a crash and the passing of time keep it. *)
LEMMA CacheInvNext == CacheInv /\ [CacheNext]_cacheVars => CacheInv'
<1> SUFFICES ASSUME CacheInv, [CacheNext]_cacheVars PROVE CacheInv'
  OBVIOUS
<1> USE DEF CacheInv, CacheTypeOK, disk, Busy
<1>1. ASSUME NEW c \in Clients, NEW n \in Names, Calls(c, n) PROVE CacheInv'
  <2>1. ASSUME NEW kind \in {"get", "set", "remove", "removeIfEqual"}, NEW t \in MaybeToken,
               Start(c, kind, n, t)
        PROVE  CacheInv'
    <3>1. PICK o \in OpType : /\ op' = [op EXCEPT ![c] = o]
                              /\ o.pc \in {"lock", "done"} /\ o.ret = Missing
      <4>1. [pc |-> "lock", kind |-> kind, name |-> n, tok |-> t, ret |-> Missing] \in OpType
        BY MissingNoToken DEF OpType
      <4> QED
        BY <2>1, <4>1, EndedType, MissingNoToken DEF Start
    <3> QED
      BY <2>1, <3>1 DEF Start
  <2> QED
    BY <1>1, <2>1, MissingNoToken DEF Calls, MaybeToken
<1>2. ASSUME NEW c \in Clients, Read(c) PROVE CacheInv'
  <2>1. Parsed[op[c].name] \in MaybeToken
    BY ParsedType DEF OpType
  <2>2. PICK o \in OpType : op' = [op EXCEPT ![c] = o] /\ o.pc # "write" /\ (o.pc = "lock" => o.ret = Missing)
    <3>1. ASSUME NEW t \in MaybeToken, Ends(c, "done", t)
          PROVE  \E o \in OpType : op' = [op EXCEPT ![c] = o] /\ o.pc # "write" /\ (o.pc = "lock" => o.ret = Missing)
      BY <3>1, EndedType DEF Ends
    <3>2. ASSUME op' = [op EXCEPT ![c].kind = "cleanup"]
          PROVE  \E o \in OpType : op' = [op EXCEPT ![c] = o] /\ o.pc # "write" /\ (o.pc = "lock" => o.ret = Missing)
      <4>1. [op[c] EXCEPT !.kind = "cleanup"] \in OpType /\ [op[c] EXCEPT !.kind = "cleanup"].pc = "lock"
            /\ [op[c] EXCEPT !.kind = "cleanup"].ret = Missing
        BY <1>2 DEF Read, OpType
      <4> QED
        BY <3>2, <4>1
    <3> QED
      BY <1>2, <2>1, <3>1, <3>2, MissingNoToken DEF Read
  <2>3. \A d \in Clients : op'[d].pc = "write" <=> op[d].pc = "write"
    BY <1>2, <2>2 DEF Read
  <2> QED
    BY <1>2, <2>2, <2>3 DEF Read
<1>3. ASSUME NEW c \in Clients, Load(c) PROVE CacheInv'
  <2>1. buf' \in [Names -> MaybeToken]
    BY <1>3, ParsedType, NewEntryType DEF Load, Changed
  <2> QED
    BY <1>3, <2>1, EmptyType, CacheAssumption DEF Load, OpType
<1>4. ASSUME NEW c \in Clients, Flush(c) PROVE CacheInv'
  <2>1. content' \in [Names -> MaybeToken] /\ \A n \in Names : ~content'[n].exact
    BY <1>4, DumpedType DEF Flush
  <2>2. lock = c /\ \A d \in Clients : op'[d].pc # "write"
    BY <1>4, EndedType, MissingNoToken DEF Flush, Ends
  <2> QED
    BY <1>4, <2>1, <2>2, EndedType, EmptyType, MissingNoToken, CacheAssumption DEF Flush, Ends
<1>5. ASSUME NEW c \in Clients, LockTimeout(c) \/ CancelOp(c) PROVE CacheInv'
  BY <1>5, NoOpType, EndedType, MissingNoToken DEF LockTimeout, CancelOp, Ends
<1>6. ASSUME NEW C \in SUBSET Clients, Crash(C) PROVE CacheInv'
  <2>1. CASE lock \in C
    BY <1>6, <2>1, NoOpType, EmptyType, CacheAssumption DEF Crash
  <2>2. CASE lock \notin C
    BY <1>6, <2>2, NoOpType DEF Crash
  <2> QED
    BY <2>1, <2>2
<1>7. ASSUME NEW i \in Ids, Expire(i) PROVE CacheInv'
  BY <1>7 DEF Expire
<1>8. CASE UNCHANGED cacheVars
  BY <1>8 DEF cacheVars
<1> QED
  BY <1>1, <1>2, <1>3, <1>4, <1>5, <1>6, <1>7, <1>8 DEF CacheNext, CacheStep

(* So it always holds. *)
LEMMA CacheInvariant == CacheSpec => []CacheInv
  BY CacheInvInit, CacheInvNext, PTL DEF CacheSpec

(* The variables of the token file keep their types, for every set of        *)
(* clients, names and tokens.                                                *)
THEOREM FileTypeOK == CacheSpec => []CacheTypeOK
<1>1. CacheInv => CacheTypeOK
  BY DEF CacheInv
<1> QED
  BY <1>1, CacheInvariant, PTL

(* get() never takes a file that another client is writing for one without   *)
(* its token: MayRead asks for the lock.                                     *)
THEOREM FileGetSeesMap == CacheSpec => GetSeesMap
<1>1. CacheInv /\ [CacheNext]_cacheVars => [FindsByMap]_cacheVars
  <2> SUFFICES ASSUME CacheInv, CacheNext, NEW c \in Clients,
                      op[c].pc = "lock", op[c].kind = "get", op'[c] # op[c],
                      op'[c].pc \in {"lock", "done"}
               PROVE  op'[c].ret = IF Live(View[op[c].name]) THEN View[op[c].name] ELSE Missing
    BY DEF FindsByMap
  <2> USE DEF CacheInv, CacheTypeOK, Busy
  <2>1. Read(c)
    <3>1. ASSUME NEW d \in Clients, d # c,
                 (\E n \in Names : Calls(d, n)) \/ CacheStep(d) \/ CancelOp(d)
          PROVE  op'[c] = op[c]
      BY <3>1 DEF Calls, Start, CacheStep, Read, Load, Flush, LockTimeout, Ends, CancelOp
    <3>2. ~(\E n \in Names : Calls(c, n))
      BY DEF Calls, Start
    <3>3. ~Load(c) /\ ~Flush(c)
      BY DEF Load, Flush
    <3>4. ~LockTimeout(c) /\ ~CancelOp(c) /\ \A C \in SUBSET Clients : ~Crash(C)
      BY NoOpType, EndedType, MissingNoToken DEF LockTimeout, Ends, CancelOp, Crash
    <3>5. ASSUME NEW i \in Ids, Expire(i) PROVE op' = op
      BY <3>5 DEF Expire
    <3> QED
      BY <3>1, <3>2, <3>3, <3>4, <3>5 DEF CacheNext, CacheStep
  <2>2. lock = Nobody /\ View = Parsed
    BY <2>1 DEF Read, MayRead, View
  <2>3. CASE Live(Parsed[op[c].name])
    BY <2>1, <2>2, <2>3, ParsedType, EndedType DEF Read, Ends, OpType
  <2>4. CASE ~Live(Parsed[op[c].name]) /\ file = "garbled"
    BY <2>1, <2>2, <2>4, MissingNoToken, EndedType DEF Read, Ends
  <2>5. CASE ~Live(Parsed[op[c].name]) /\ file # "garbled"
    <3>1. op' = [op EXCEPT ![c].kind = "cleanup"]
      BY <2>1, <2>5 DEF Read
    <3> QED
      BY <2>2, <2>5, <3>1 DEF OpType
  <2> QED
    BY <2>3, <2>4, <2>5
<1> QED
  BY <1>1, CacheInvariant, PTL DEF CacheSpec, GetSeesMap

-----------------------------------------------------------------------------
(* The steps that leave the file alone leave the map alone. *)
LEMMA ViewKept == UNCHANGED disk => UNCHANGED View
  BY DEF disk, View, Parsed

(* Taking the lock to write is the change of one entry. *)
LEMMA LoadChanges ==
    ASSUME CacheInv, NEW c \in Clients, Load(c)
    PROVE  \E n \in Names, t \in {u \in Token : ~u.exact} \cup {Missing} : View' = [View EXCEPT ![n] = t]
<1> DEFINE n == op[c].name
           t == Stored(NewEntry(op[c]))
<1>1. n \in Names
  BY DEF CacheInv, CacheTypeOK, OpType
<1>2. NewEntry(op[c]) \in MaybeToken
  BY NewEntryType
<1>3. t \in {u \in Token : ~u.exact} \cup {Missing}
  BY <1>2, StoredType DEF MaybeToken
<1>4. View = Parsed
  BY DEF Load, View
<1>5. View' = [m \in Names |-> Stored(buf'[m])]
  BY CacheAssumption DEF Load, View
<1>6. buf' = [Parsed EXCEPT ![n] = NewEntry(op[c])]
  BY DEF Load, Changed
<1>7. \A m \in Names : Stored(Parsed[m]) = Parsed[m]
  BY ParsedType, StoredType
<1> HIDE DEF n, t
<1>8. View' = [View EXCEPT ![n] = t]
  BY <1>1, <1>4, <1>5, <1>6, <1>7, ParsedType DEF t
<1> QED
  BY <1>1, <1>3, <1>8

(* Writing and unlocking drops the entries that have expired. *)
LEMMA FlushPurges ==
    ASSUME CacheInv, NEW c \in Clients, Flush(c)
    PROVE  View' = [n \in Names |->
                       IF View[n] \in {t \in Token : ~t.exact /\ t.id \in expired} THEN Missing ELSE View[n]]
<1>1. lock = c /\ lock # Nobody /\ file' = "ok"
  BY CacheAssumption DEF CacheInv, Flush
<1>2. View = [n \in Names |-> Stored(buf[n])]
  BY <1>1 DEF View
<1>3. View' = Dumped(buf)
  BY <1>1 DEF View, Parsed, Flush
<1>4. ASSUME NEW n \in Names
      PROVE  Dumped(buf)[n] = IF Stored(buf[n]) \in {t \in Token : ~t.exact /\ t.id \in expired}
                              THEN Missing ELSE Stored(buf[n])
  <2>1. buf[n] \in MaybeToken
    BY DEF CacheInv, CacheTypeOK
  <2> QED
    BY <2>1, StoredType, MissingNoToken DEF Dumped, Live
<1> QED
  BY <1>2, <1>3, <1>4 DEF Dumped

(* A process that dies while it writes loses the entries, and else nothing. *)
LEMMA CrashLoses ==
    ASSUME CacheInv, NEW C \in SUBSET Clients, Crash(C)
    PROVE  View' = [n \in Names |-> Missing] \/ View' = View
<1>1. CASE lock \in C
  BY <1>1, CacheAssumption DEF CacheInv, Crash, View, Parsed, Empty
<1>2. CASE lock \notin C
  BY <1>2 DEF Crash, View, Parsed
<1> QED
  BY <1>1, <1>2

(* The token file implements the map of CacheMap for every set of clients,   *)
(* names and tokens: set, remove, remove_if_equal and the clean-up of get    *)
(* take effect when their holder of the lock has read the file.              *)
THEOREM FileImplementsMap == CacheSpec => ImplementsMap
<1> DEFINE Dead == {t \in Token : ~t.exact /\ t.id \in expired}
<1>1. CacheInit => Abstract!Init
  BY DEF CacheInit, Abstract!Init, View, Parsed, Empty
<1>2. CacheInv /\ [CacheNext]_cacheVars => [Abstract!Next]_(Abstract!mapVars)
  <2> SUFFICES ASSUME CacheInv, [CacheNext]_cacheVars
               PROVE  Abstract!Next \/ (UNCHANGED View /\ UNCHANGED Dead)
    BY DEF Abstract!mapVars
  <2>1. ASSUME UNCHANGED disk, UNCHANGED expired PROVE UNCHANGED View /\ UNCHANGED Dead
    BY <2>1, ViewKept
  <2>2. ASSUME NEW c \in Clients,
               (\E n \in Names : Calls(c, n)) \/ Read(c) \/ LockTimeout(c) \/ CancelOp(c)
        PROVE  UNCHANGED disk /\ UNCHANGED expired
    BY <2>2 DEF Calls, Start, Read, LockTimeout, CancelOp
  <2>3. ASSUME NEW c \in Clients, Load(c) PROVE Abstract!Next
    <3>1. UNCHANGED Dead
      BY <2>3 DEF Load
    <3> QED
      BY <2>3, <3>1, LoadChanges DEF Abstract!Next, Abstract!Change
  <2>4. ASSUME NEW c \in Clients, Flush(c) PROVE Abstract!Next
    <3>1. UNCHANGED Dead
      BY <2>4 DEF Flush
    <3> QED
      BY <2>4, <3>1, FlushPurges DEF Abstract!Next, Abstract!Purge
  <2>5. ASSUME NEW C \in SUBSET Clients, Crash(C)
        PROVE  Abstract!Next \/ (UNCHANGED View /\ UNCHANGED Dead)
    <3>1. UNCHANGED Dead
      BY <2>5 DEF Crash
    <3> QED
      BY <2>5, <3>1, CrashLoses DEF Abstract!Next, Abstract!Lose
  <2>6. ASSUME NEW i \in Ids, Expire(i) PROVE Abstract!Next
    <3>1. UNCHANGED View
      BY <2>6, ViewKept DEF Expire
    <3>2. Dead \subseteq Dead' /\ Dead' \subseteq {t \in Token : ~t.exact}
      BY <2>6 DEF Expire
    <3> QED
      BY <3>1, <3>2 DEF Abstract!Next, Abstract!Expire
  <2>7. CASE UNCHANGED cacheVars
    BY <2>7, <2>1 DEF cacheVars
  <2> QED
    BY <2>1, <2>2, <2>3, <2>4, <2>5, <2>6, <2>7 DEF CacheNext, CacheStep
<1> QED
  BY <1>1, <1>2, CacheInvariant, PTL DEF CacheSpec, ImplementsMap, Abstract!Spec
=============================================================================
