-------------------------- MODULE CacheReceiverProofs --------------------------
(***************************************************************************)
(* The receivers use the token file only through its operations, so what   *)
(* holds of the file under any use holds of it under theirs.               *)
(***************************************************************************)
EXTENDS CacheReceiver, FileTokenCacheProofs

(* Every step of a receiver, of a dying process or of time is a step of the  *)
(* file or leaves it alone.                                                  *)
LEMMA ReceiverStepsFile == [ReceiverNext]_receiverVars => [CacheNext]_cacheVars
<1> SUFFICES ASSUME ReceiverNext PROVE CacheNext \/ UNCHANGED cacheVars
  BY DEF receiverVars
<1>1. TheName \in Names
  BY CacheAssumption DEF TheName
<1>2. ASSUME NEW c \in Clients, FetchFromFile(c) PROVE CacheNext
  BY <1>1, <1>2 DEF FetchFromFile, CacheNext, Calls
<1>3. ASSUME NEW c \in Clients, WrappedIssues(c) PROVE CacheNext
  <2>1. [id |-> minted + 1, exact |-> minted + 1 \in Fractional] \in Token
    BY <1>3 DEF WrappedIssues, Token
  <2> QED
    BY <1>1, <1>3, <2>1 DEF WrappedIssues, CacheNext, Calls
<1>4. ASSUME NEW c \in Clients, Reading(c) \/ Saving(c) PROVE CacheNext
  BY <1>4 DEF Reading, Saving, CacheNext
<1>5. ASSUME NEW c \in Clients, CancelFetch(c) PROVE CacheNext \/ UNCHANGED cacheVars
  BY <1>5 DEF CancelFetch, CacheNext
<1>6. ASSUME NEW c \in Clients,
             FetchFromMemory(c) \/ WrappedFails(c) \/ WrappedEmpty(c) \/ CanRetry(c) \/ Finish(c)
      PROVE  UNCHANGED cacheVars
  BY <1>6 DEF FetchFromMemory, WrappedFails, WrappedEmpty, CanRetry, Finish
<1>7. ASSUME NEW h \in Hosts, ProcessDies(h) PROVE CacheNext
  BY <1>7 DEF ProcessDies, CacheNext
<1>8. ASSUME NEW i \in Ids, Ages(i) \/ Outlives(i) PROVE CacheNext \/ UNCHANGED cacheVars
  BY <1>8 DEF Ages, Outlives, CacheNext
<1> QED
  BY <1>2, <1>3, <1>4, <1>5, <1>6, <1>7, <1>8 DEF ReceiverNext, Fetches

(* The receivers of any number of clients, on any number of processes that   *)
(* may die at any moment, keep the token file an atomic map: the receivers   *)
(* of renewable_bearer.py touch the file only by TokenCache's operations.    *)
THEOREM ReceiversKeepMap == ReceiverSpec => ImplementsMap
<1>1. ReceiverInit => CacheInit
  BY DEF ReceiverInit
<1>2. ReceiverSpec => CacheSpec
  BY <1>1, ReceiverStepsFile, PTL DEF ReceiverSpec, CacheSpec
<1> QED
  BY <1>2, FileImplementsMap

(* A receiver that reads the file finds what the map holds at that moment.   *)
THEOREM ReceiversSeeMap == ReceiverSpec => GetSeesMap
<1>1. ReceiverInit => CacheInit
  BY DEF ReceiverInit
<1>2. ReceiverSpec => CacheSpec
  BY <1>1, ReceiverStepsFile, PTL DEF ReceiverSpec, CacheSpec
<1> QED
  BY <1>2, FileGetSeesMap
=============================================================================
