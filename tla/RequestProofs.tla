----------------------------- MODULE RequestProofs -----------------------------
(***************************************************************************)
(* The transport of a unary call is given back whatever happens, and a     *)
(* response that has arrived decides the call, for any number of retries   *)
(* and authorization rounds.                                               *)
(***************************************************************************)
EXTENDS Request, TLAPS

(* A running native call is the one the coroutine awaits, or it was          *)
(* cancelled and its transport discarded.                                    *)
CallOwned ==
    /\ native = "open" => pc = "calling"
    /\ native = "cancelling" => lease = "none" /\ pc \in {"unwind", "end"}

TransportInv == NoLeak /\ CleanReturn /\ CallOwned

(* A new request holds at most its override, and no call runs. *)
LEMMA InitTransport == RequestInit => TransportInv
BY DEF RequestInit, TransportInv, NoLeak, CleanReturn, CallOwned

(* What callers, clocks and shutdown do leaves the transport alone, but for  *)
(* a rejected submission, which discards an override.                        *)
LEMMA CallersTransport ==
    ASSUME TransportInv, CallerStep \/ RequestClock \/ AuthorizationClock PROVE TransportInv'
<1> USE DEF TransportInv, NoLeak, CleanReturn, CallOwned, transport
<1>1. CASE SubmitRejected
  <2>1. (NoLeak /\ CallOwned)'
        BY <1>1 DEF SubmitRejected, Release
  <2>2. CleanReturn'
        BY <1>1, Zenon DEF SubmitRejected, Release
  <2>. QED
       BY <2>1, <2>2
<1>2. CASE ~SubmitRejected
      BY <1>2 DEF CallerStep, RequestClock, AuthorizationClock, Submit, Cancel, WaiterCancelled, WaitExpires,
          WaitReturns, ShutdownCancels, transport
<1>. QED
     BY <1>1, <1>2

(* The native call ends by itself or after its cancellation. *)
LEMMA NativeTransport == ASSUME TransportInv, NativeStep PROVE TransportInv'
BY DEF TransportInv, NoLeak, CleanReturn, CallOwned, NativeStep, NativeDone, NativeCancelled, Outcomes,
    NativeErrors, caller, transport

(* Every step of the coroutine keeps track of the transport: it is held only *)
(* between _send and a release, and every end is behind a release.           *)
LEMMA LoopTransport == ASSUME TransportInv, LoopStep PROVE (NoLeak /\ CallOwned)'
<1> USE DEF TransportInv, NoLeak, CallOwned, Release, transport, caller
<1>1. CASE Start \/ NeverStarts
      BY <1>1 DEF Start, NeverStarts, Finish
<1>2. CASE AuthTop \/ Authenticated \/ AuthenticationFails
      BY <1>2 DEF AuthTop, Authenticated, AuthenticationFails
<1>3. CASE AuthorizationReceives \/ AuthorizationDecides
      BY <1>3 DEF AuthorizationReceives, AuthorizationDecides
<1>4. CASE Unwind
      BY <1>4 DEF Unwind, Finish
<1>5. CASE TopOfLoop \/ Send \/ OpenCall
      BY <1>5 DEF TopOfLoop, Send, OpenCall
<1>6. CASE CancelDelivered
      BY <1>6 DEF CancelDelivered, CancelledAttempt
<1>7. CASE NativeSucceeded \/ NativeFails \/ NativeFailed
      BY <1>7 DEF NativeSucceeded, NativeFails, NativeFailed, NativeErrors
<1>8. CASE Complete \/ \E e \in {"local", "localRetry"} : CompletionFails(e)
      BY <1>8 DEF Complete, CompletionFails, Finish
<1>9. CASE Except \/ Decide
      BY <1>9 DEF Except, Decide
<1>. QED
     BY <1>1, <1>2, <1>3, <1>4, <1>5, <1>6, <1>7, <1>8, <1>9 DEF LoopStep

(* A release for reuse finds no call running: the branches that leave a      *)
(* running call behind discard its transport.                                *)
LEMMA LoopClean == ASSUME TransportInv, LoopStep PROVE CleanReturn'
<1> USE DEF TransportInv, CleanReturn, CallOwned, Release, InFlight, transport
<1>1. CASE Start \/ NeverStarts
      BY <1>1, Zenon DEF Start, NeverStarts, Finish
<1>2. CASE AuthTop \/ Authenticated \/ AuthenticationFails
      BY <1>2, Zenon DEF AuthTop, Authenticated, AuthenticationFails
<1>3. CASE AuthorizationReceives \/ AuthorizationDecides
      BY <1>3, Zenon DEF AuthorizationReceives, AuthorizationDecides
<1>4. CASE Unwind
      BY <1>4, Zenon DEF Unwind, Finish
<1>5. CASE TopOfLoop \/ Send \/ OpenCall
      BY <1>5, Zenon DEF TopOfLoop, Send, OpenCall
<1>6. CASE CancelDelivered
      BY <1>6, Zenon DEF CancelDelivered, CancelledAttempt
<1>7. CASE NativeSucceeded \/ NativeFails \/ NativeFailed
      BY <1>7, Zenon DEF NativeSucceeded, NativeFails, NativeFailed, NativeErrors
<1>8. CASE Complete \/ \E e \in {"local", "localRetry"} : CompletionFails(e)
      BY <1>8, Zenon DEF Complete, CompletionFails, Finish
<1>9. CASE Except \/ Decide
      BY <1>9, Zenon DEF Except, Decide
<1>. QED
     BY <1>1, <1>2, <1>3, <1>4, <1>5, <1>6, <1>7, <1>8, <1>9 DEF LoopStep

(* The transport is tracked through the life of a request. *)
THEOREM TransportTracked == RequestSpec => []TransportInv
<1>1. TransportInv /\ [RequestNext]_requestVars => TransportInv'
  <2> SUFFICES ASSUME TransportInv, [RequestNext]_requestVars PROVE TransportInv'
      OBVIOUS
  <2>1. CASE UNCHANGED requestVars
        BY <2>1 DEF requestVars, transport, TransportInv, NoLeak, CleanReturn, CallOwned
  <2>. QED
       BY <2>1, CallersTransport, NativeTransport, LoopTransport, LoopClean DEF RequestNext, TransportInv
<1>. QED
     BY <1>1, InitTransport, PTL DEF RequestSpec

(* However a request ends or is rejected, _release_grpc_channel has run, and *)
(* never returned a transport under a call that was still running.           *)
THEOREM RequestTransportKept == RequestSpec => []TransportKept
<1>1. TransportInv => TransportKept
      BY DEF TransportInv, TransportKept
<1>. QED
     BY <1>1, TransportTracked, PTL

-----------------------------------------------------------------------------
(* The second argument is about the flags under _future_lock.  It excludes   *)
(* the retry hint on UNAUTHENTICATED, with which an attempt begins with the  *)
(* flags of the one before.                                                  *)

(* The outcome of the current attempt is not known to the coroutine yet. *)
BeforeCall == {"new", "rejected", "queued", "authTop", "auth", "loop", "send", "open"}

FlagsBoolean ==
    /\ cancelled \in BOOLEAN /\ terminal \in BOOLEAN /\ pending \in BOOLEAN
    /\ attTerm \in BOOLEAN /\ cancelAfter \in BOOLEAN

NoHint == ~env.hints /\ native # "hinted" /\ err # "hinted"

(* The flags of an attempt are reset before the next one, and the done       *)
(* callback of the native call sets the first of them.                       *)
AttemptFlags ==
    /\ pc \in BeforeCall => ~terminal /\ ~pending /\ ~attTerm
    /\ pc = "calling" => ~terminal /\ ~pending /\ (attTerm <=> native # "open")
    /\ pc = "complete" => terminal /\ ~pending

(* A cancellation during an attempt either settled the handle or is recorded *)
(* for the classification to come, which a success discards.                 *)
CancelRecorded ==
    /\ pc \in {"open", "calling"} /\ fut = "pending" /\ cancelled => cancelAfter
    /\ pc = "complete" /\ fut = "pending" => ~cancelled
    /\ fut = "ok" => pc = "end" /\ terminal /\ ~pending /\ ~cancelled

FlagInv == FlagsBoolean /\ NoHint /\ AttemptFlags /\ CancelRecorded

(* A new request has no flag set. *)
LEMMA InitFlags == (\A e \in Envs : ~e.hints) /\ RequestInit => FlagInv
BY DEF RequestInit, FlagInv, FlagsBoolean, NoHint, AttemptFlags, CancelRecorded, BeforeCall

(* The flags stay Boolean. *)
LEMMA BooleansKept == ASSUME FlagInv, TransportInv, RequestNext PROVE FlagsBoolean'
<1> USE DEF FlagInv, FlagsBoolean, flags, caller
<1>1. CASE Submit
      BY <1>1 DEF Submit
<1>2. CASE SubmitRejected
      BY <1>2 DEF SubmitRejected
<1>3. CASE WaitReturns \/ ShutdownCancels \/ RequestClock \/ AuthorizationClock
      BY <1>3 DEF WaitReturns, ShutdownCancels, RequestClock, AuthorizationClock
<1>4. CASE Cancel
      BY <1>4 DEF Cancel, CancelAccepted
<1>5. CASE WaiterCancelled
      BY <1>5 DEF WaiterCancelled, CancelAccepted, CancelRefused
<1>6. CASE WaitExpires
      BY <1>6 DEF WaitExpires, ExpireWait, CancelAccepted, CancelRefused
<1>7. CASE NativeStep
      BY <1>7 DEF NativeStep, NativeDone, NativeCancelled, Outcomes, NativeErrors
<1>8. CASE Start
      BY <1>8 DEF Start, Finish
<1>9. CASE NeverStarts
      BY <1>9 DEF NeverStarts, Finish
<1>10. CASE AuthTop
      BY <1>10 DEF AuthTop
<1>11. CASE Authenticated
      BY <1>11 DEF Authenticated
<1>12. CASE AuthenticationFails
      BY <1>12 DEF AuthenticationFails, Resolve
<1>13. CASE AuthorizationReceives
      BY <1>13 DEF AuthorizationReceives
<1>14. CASE AuthorizationDecides
      BY <1>14 DEF AuthorizationDecides, Resolve
<1>15. CASE Unwind
      BY <1>15 DEF Unwind, Finish
<1>16. CASE TopOfLoop
      BY <1>16 DEF TopOfLoop
<1>17. CASE Send
      BY <1>17 DEF Send
<1>18. CASE OpenCall
      BY <1>18 DEF OpenCall
<1>19. CASE CancelDelivered
      BY <1>19 DEF CancelDelivered, AwaitNativeRaises
<1>20. CASE NativeSucceeded
      BY <1>20 DEF NativeSucceeded, PublishSuccess
<1>21. CASE NativeFails
      BY <1>21 DEF NativeFails, NativeErrors
<1>22. CASE NativeFailed
      BY <1>22 DEF NativeFailed, NativeErrors, Undecided
<1>23. CASE Complete
      BY <1>23 DEF Complete, Finish
<1>24. CASE \E e \in {"local", "localRetry"} : CompletionFails(e)
      BY <1>24 DEF CompletionFails
<1>25. CASE Except
      BY <1>25 DEF Except
<1>26. CASE Decide
      BY <1>26 DEF Decide, MayRetry, StopRetry, Retriable, Unauthenticated
<1>. QED
     BY <1>1, <1>2, <1>3, <1>4, <1>5, <1>6, <1>7, <1>8, <1>9, <1>10, <1>11, <1>12, <1>13,
        <1>14, <1>15, <1>16, <1>17, <1>18, <1>19, <1>20, <1>21, <1>22, <1>23, <1>24, <1>25, <1>26
     DEF RequestNext, LoopStep, CallerStep

(* Without hints no error of an attempt carries one. *)
LEMMA NoHintKept == ASSUME FlagInv, TransportInv, RequestNext PROVE NoHint'
<1> USE DEF FlagInv, NoHint, NativeErrors, caller
<1>1. CASE Submit
      BY <1>1 DEF Submit
<1>2. CASE SubmitRejected
      BY <1>2 DEF SubmitRejected
<1>3. CASE WaitReturns \/ ShutdownCancels \/ RequestClock \/ AuthorizationClock
      BY <1>3 DEF WaitReturns, ShutdownCancels, RequestClock, AuthorizationClock
<1>4. CASE Cancel
      BY <1>4 DEF Cancel, CancelAccepted
<1>5. CASE WaiterCancelled
      BY <1>5 DEF WaiterCancelled, CancelAccepted, CancelRefused
<1>6. CASE WaitExpires
      BY <1>6 DEF WaitExpires, ExpireWait, CancelAccepted, CancelRefused
<1>7. CASE NativeStep
      BY <1>7 DEF NativeStep, NativeDone, NativeCancelled, Outcomes, NativeErrors
<1>8. CASE Start
      BY <1>8 DEF Start, Finish
<1>9. CASE NeverStarts
      BY <1>9 DEF NeverStarts, Finish
<1>10. CASE AuthTop
      BY <1>10 DEF AuthTop
<1>11. CASE Authenticated
      BY <1>11 DEF Authenticated
<1>12. CASE AuthenticationFails
      BY <1>12 DEF AuthenticationFails, Resolve
<1>13. CASE AuthorizationReceives
      BY <1>13 DEF AuthorizationReceives
<1>14. CASE AuthorizationDecides
      BY <1>14 DEF AuthorizationDecides, Resolve
<1>15. CASE Unwind
      BY <1>15 DEF Unwind, Finish
<1>16. CASE TopOfLoop
      BY <1>16 DEF TopOfLoop
<1>17. CASE Send
      BY <1>17 DEF Send
<1>18. CASE OpenCall
      BY <1>18 DEF OpenCall
<1>19. CASE CancelDelivered
      BY <1>19 DEF CancelDelivered, AwaitNativeRaises
<1>20. CASE NativeSucceeded
      BY <1>20 DEF NativeSucceeded, PublishSuccess
<1>21. CASE NativeFails
      BY <1>21 DEF NativeFails, NativeErrors
<1>22. CASE NativeFailed
      BY <1>22 DEF NativeFailed, NativeErrors, Undecided
<1>23. CASE Complete
      BY <1>23 DEF Complete, Finish
<1>24. CASE \E e \in {"local", "localRetry"} : CompletionFails(e)
      BY <1>24 DEF CompletionFails
<1>25. CASE Except
      BY <1>25 DEF Except
<1>26. CASE Decide
      BY <1>26 DEF Decide, MayRetry, StopRetry, Retriable, Unauthenticated
<1>. QED
     BY <1>1, <1>2, <1>3, <1>4, <1>5, <1>6, <1>7, <1>8, <1>9, <1>10, <1>11, <1>12, <1>13,
        <1>14, <1>15, <1>16, <1>17, <1>18, <1>19, <1>20, <1>21, <1>22, <1>23, <1>24, <1>25, <1>26
     DEF RequestNext, LoopStep, CallerStep

(* Every retry and every authorization round resets the flags of the attempt *)
(* before it.                                                                *)
LEMMA AttemptFlagsKept == ASSUME FlagInv, TransportInv, RequestNext PROVE AttemptFlags'
<1> USE DEF FlagInv, FlagsBoolean, NoHint, AttemptFlags, BeforeCall, flags, caller, TransportInv, CallOwned
<1>1. CASE Submit
      BY <1>1 DEF Submit
<1>2. CASE SubmitRejected
      BY <1>2 DEF SubmitRejected
<1>3. CASE WaitReturns \/ ShutdownCancels \/ RequestClock \/ AuthorizationClock
      BY <1>3 DEF WaitReturns, ShutdownCancels, RequestClock, AuthorizationClock
<1>4. CASE Cancel
      BY <1>4 DEF Cancel, CancelAccepted
<1>5. CASE WaiterCancelled
      BY <1>5 DEF WaiterCancelled, CancelAccepted, CancelRefused
<1>6. CASE WaitExpires
      BY <1>6 DEF WaitExpires, ExpireWait, CancelAccepted, CancelRefused
<1>7. CASE NativeStep
  <2>1. CASE NativeCancelled
        BY <1>7, <2>1 DEF NativeCancelled
  <2>2. ASSUME NEW o \in Outcomes, NativeDone(o) PROVE AttemptFlags'
    <3>1. pc = "calling" /\ native = "open" /\ native' # "open" /\ UNCHANGED <<pc, terminal, pending>>
          BY <2>2 DEF NativeDone, Outcomes, NativeErrors
    <3>2. ~terminal /\ ~pending
          BY <3>1
    <3>3. attTerm'
          BY <2>2, <3>2 DEF NativeDone
    <3>. QED
         BY <3>1, <3>2, <3>3
  <2>. QED
       BY <1>7, <2>1, <2>2 DEF NativeStep
<1>8. CASE Start
      BY <1>8 DEF Start, Finish
<1>9. CASE NeverStarts
      BY <1>9 DEF NeverStarts, Finish
<1>10. CASE AuthTop
      BY <1>10 DEF AuthTop
<1>11. CASE Authenticated
      BY <1>11 DEF Authenticated
<1>12. CASE AuthenticationFails
  <2>1. pc = "auth" /\ pc' \in {"unwind", "authTop"}
        BY <1>12 DEF AuthenticationFails
  <2>2. pc' = "authTop" => UNCHANGED <<terminal, pending, attTerm>>
        BY <1>12 DEF AuthenticationFails
  <2>. QED
       BY <2>1, <2>2
<1>13. CASE AuthorizationReceives
      BY <1>13 DEF AuthorizationReceives
<1>14. CASE AuthorizationDecides
      BY <1>14 DEF AuthorizationDecides, Resolve
<1>15. CASE Unwind
      BY <1>15 DEF Unwind, Finish
<1>16. CASE TopOfLoop
      BY <1>16 DEF TopOfLoop
<1>17. CASE Send
      BY <1>17 DEF Send
<1>18. CASE OpenCall
      BY <1>18 DEF OpenCall
<1>19. CASE CancelDelivered
      BY <1>19 DEF CancelDelivered, AwaitNativeRaises
<1>20. CASE NativeSucceeded
      BY <1>20 DEF NativeSucceeded, PublishSuccess
<1>21. CASE NativeFails
      BY <1>21 DEF NativeFails, NativeErrors
<1>22. CASE NativeFailed
      BY <1>22 DEF NativeFailed, NativeErrors, Undecided
<1>23. CASE Complete
      BY <1>23 DEF Complete, Finish
<1>24. CASE \E e \in {"local", "localRetry"} : CompletionFails(e)
      BY <1>24 DEF CompletionFails
<1>25. CASE Except
      BY <1>25 DEF Except
<1>26. CASE Decide
      BY <1>26 DEF Decide, MayRetry, StopRetry, Retriable, Unauthenticated
<1>. QED
     BY <1>1, <1>2, <1>3, <1>4, <1>5, <1>6, <1>7, <1>8, <1>9, <1>10, <1>11, <1>12, <1>13,
        <1>14, <1>15, <1>16, <1>17, <1>18, <1>19, <1>20, <1>21, <1>22, <1>23, <1>24, <1>25, <1>26
     DEF RequestNext, LoopStep, CallerStep

(* cancel() and _expire_wait record their intent where the attempt will look *)
(* for it.                                                                   *)
LEMMA CancelRecordKept == ASSUME FlagInv, TransportInv, RequestNext PROVE CancelRecorded'
<1> USE DEF FlagInv, FlagsBoolean, NoHint, AttemptFlags, CancelRecorded, BeforeCall, flags, caller, TransportInv, CallOwned
<1>1. CASE Submit
      BY <1>1 DEF Submit
<1>2. CASE SubmitRejected
      BY <1>2 DEF SubmitRejected
<1>3. CASE WaitReturns \/ ShutdownCancels \/ RequestClock \/ AuthorizationClock
      BY <1>3 DEF WaitReturns, ShutdownCancels, RequestClock, AuthorizationClock
<1>4. CASE Cancel
      BY <1>4 DEF Cancel, CancelAccepted
<1>5. CASE WaiterCancelled
      BY <1>5 DEF WaiterCancelled, CancelAccepted, CancelRefused
<1>6. CASE WaitExpires
      BY <1>6 DEF WaitExpires, ExpireWait, CancelAccepted, CancelRefused
<1>7. CASE NativeStep
      BY <1>7 DEF NativeStep, NativeDone, NativeCancelled, Outcomes, NativeErrors
<1>8. CASE Start
      BY <1>8 DEF Start, Finish
<1>9. CASE NeverStarts
      BY <1>9 DEF NeverStarts, Finish
<1>10. CASE AuthTop
      BY <1>10 DEF AuthTop
<1>11. CASE Authenticated
      BY <1>11 DEF Authenticated
<1>12. CASE AuthenticationFails
      BY <1>12 DEF AuthenticationFails, Resolve
<1>13. CASE AuthorizationReceives
      BY <1>13 DEF AuthorizationReceives
<1>14. CASE AuthorizationDecides
      BY <1>14 DEF AuthorizationDecides, Resolve
<1>15. CASE Unwind
      BY <1>15 DEF Unwind, Finish
<1>16. CASE TopOfLoop
      BY <1>16 DEF TopOfLoop
<1>17. CASE Send
      BY <1>17 DEF Send
<1>18. CASE OpenCall
      BY <1>18 DEF OpenCall
<1>19. CASE CancelDelivered
      BY <1>19 DEF CancelDelivered, AwaitNativeRaises
<1>20. CASE NativeSucceeded
      BY <1>20 DEF NativeSucceeded, PublishSuccess
<1>21. CASE NativeFails
      BY <1>21 DEF NativeFails, NativeErrors
<1>22. CASE NativeFailed
      BY <1>22 DEF NativeFailed, NativeErrors, Undecided
<1>23. CASE Complete
      BY <1>23 DEF Complete, Finish
<1>24. CASE \E e \in {"local", "localRetry"} : CompletionFails(e)
      BY <1>24 DEF CompletionFails
<1>25. CASE Except
      BY <1>25 DEF Except
<1>26. CASE Decide
      BY <1>26 DEF Decide, MayRetry, StopRetry, Retriable, Unauthenticated
<1>. QED
     BY <1>1, <1>2, <1>3, <1>4, <1>5, <1>6, <1>7, <1>8, <1>9, <1>10, <1>11, <1>12, <1>13,
        <1>14, <1>15, <1>16, <1>17, <1>18, <1>19, <1>20, <1>21, <1>22, <1>23, <1>24, <1>25, <1>26
     DEF RequestNext, LoopStep, CallerStep

(* The flags are tracked in every state of a request whose errors carry no   *)
(* retry hint.                                                               *)
THEOREM FlagsTracked == (\A e \in Envs : ~e.hints) /\ RequestSpec => []FlagInv
<1>1. FlagInv /\ UNCHANGED requestVars => FlagInv'
      BY DEF FlagInv, FlagsBoolean, NoHint, AttemptFlags, CancelRecorded, BeforeCall, requestVars,
             caller, flags, transport
<1>2. FlagInv /\ TransportInv /\ [RequestNext]_requestVars => FlagInv'
      BY <1>1, BooleansKept, NoHintKept, AttemptFlagsKept, CancelRecordKept DEF FlagInv
<1>3. CASE \A e \in Envs : ~e.hints
      BY <1>2, <1>3, InitFlags, TransportTracked, PTL DEF RequestSpec
<1>. QED
     BY <1>3

(* No step turns an attempt that has its response into anything but a success. *)
LEMMA StepKeepsSuccess == ASSUME FlagInv, TransportInv, RequestNext PROVE KeepsSuccess
<1> USE DEF FlagInv, FlagsBoolean, NoHint, AttemptFlags, CancelRecorded, BeforeCall, flags, caller,
            TransportInv, CallOwned, KeepsSuccess
<1>1. CASE Submit
      BY <1>1 DEF Submit
<1>2. CASE SubmitRejected
      BY <1>2 DEF SubmitRejected
<1>3. CASE WaitReturns \/ ShutdownCancels \/ RequestClock \/ AuthorizationClock
      BY <1>3 DEF WaitReturns, ShutdownCancels, RequestClock, AuthorizationClock
<1>4. CASE Cancel
      BY <1>4 DEF Cancel, CancelAccepted
<1>5. CASE WaiterCancelled
      BY <1>5 DEF WaiterCancelled, CancelAccepted, CancelRefused
<1>6. CASE WaitExpires
      BY <1>6 DEF WaitExpires, ExpireWait, CancelAccepted, CancelRefused
<1>7. CASE NativeStep
      BY <1>7 DEF NativeStep, NativeDone, NativeCancelled, Outcomes, NativeErrors
<1>8. CASE Start
      BY <1>8 DEF Start, Finish
<1>9. CASE NeverStarts
      BY <1>9 DEF NeverStarts, Finish
<1>10. CASE AuthTop
      BY <1>10 DEF AuthTop
<1>11. CASE Authenticated
      BY <1>11 DEF Authenticated
<1>12. CASE AuthenticationFails
      BY <1>12 DEF AuthenticationFails, Resolve
<1>13. CASE AuthorizationReceives
      BY <1>13 DEF AuthorizationReceives
<1>14. CASE AuthorizationDecides
      BY <1>14 DEF AuthorizationDecides, Resolve
<1>15. CASE Unwind
      BY <1>15 DEF Unwind, Finish
<1>16. CASE TopOfLoop
      BY <1>16 DEF TopOfLoop
<1>17. CASE Send
      BY <1>17 DEF Send
<1>18. CASE OpenCall
      BY <1>18 DEF OpenCall
<1>19. CASE CancelDelivered
      BY <1>19 DEF CancelDelivered, AwaitNativeRaises
<1>20. CASE NativeSucceeded
      BY <1>20 DEF NativeSucceeded, PublishSuccess
<1>21. CASE NativeFails
      BY <1>21 DEF NativeFails, NativeErrors
<1>22. CASE NativeFailed
      BY <1>22 DEF NativeFailed, NativeErrors, Undecided
<1>23. CASE Complete
      BY <1>23 DEF Complete, Finish
<1>24. CASE \E e \in {"local", "localRetry"} : CompletionFails(e)
      BY <1>24 DEF CompletionFails
<1>25. CASE Except
      BY <1>25 DEF Except
<1>26. CASE Decide
      BY <1>26 DEF Decide, MayRetry, StopRetry, Retriable, Unauthenticated
<1>. QED
     BY <1>1, <1>2, <1>3, <1>4, <1>5, <1>6, <1>7, <1>8, <1>9, <1>10, <1>11, <1>12, <1>13,
        <1>14, <1>15, <1>16, <1>17, <1>18, <1>19, <1>20, <1>21, <1>22, <1>23, <1>24, <1>25, <1>26
     DEF RequestNext, LoopStep, CallerStep

(* No step accepts a cancellation of a running call and leaves the handle    *)
(* pending.                                                                  *)
LEMMA StepReachesCall == ASSUME FlagInv, TransportInv, RequestNext PROVE ReachesCall
<1> USE DEF FlagInv, FlagsBoolean, NoHint, AttemptFlags, CancelRecorded, BeforeCall, flags, caller,
            TransportInv, CallOwned, ReachesCall
<1>1. CASE Submit
      BY <1>1 DEF Submit
<1>2. CASE SubmitRejected
      BY <1>2 DEF SubmitRejected
<1>3. CASE WaitReturns \/ ShutdownCancels \/ RequestClock \/ AuthorizationClock
      BY <1>3 DEF WaitReturns, ShutdownCancels, RequestClock, AuthorizationClock
<1>4. CASE Cancel
      BY <1>4 DEF Cancel, CancelAccepted
<1>5. CASE WaiterCancelled
      BY <1>5 DEF WaiterCancelled, CancelAccepted, CancelRefused
<1>6. CASE WaitExpires
      BY <1>6 DEF WaitExpires, ExpireWait, CancelAccepted, CancelRefused
<1>7. CASE NativeStep
      BY <1>7 DEF NativeStep, NativeDone, NativeCancelled, Outcomes, NativeErrors
<1>8. CASE Start
      BY <1>8 DEF Start, Finish
<1>9. CASE NeverStarts
      BY <1>9 DEF NeverStarts, Finish
<1>10. CASE AuthTop
      BY <1>10 DEF AuthTop
<1>11. CASE Authenticated
      BY <1>11 DEF Authenticated
<1>12. CASE AuthenticationFails
      BY <1>12 DEF AuthenticationFails, Resolve
<1>13. CASE AuthorizationReceives
      BY <1>13 DEF AuthorizationReceives
<1>14. CASE AuthorizationDecides
      BY <1>14 DEF AuthorizationDecides, Resolve
<1>15. CASE Unwind
      BY <1>15 DEF Unwind, Finish
<1>16. CASE TopOfLoop
      BY <1>16 DEF TopOfLoop
<1>17. CASE Send
      BY <1>17 DEF Send
<1>18. CASE OpenCall
      BY <1>18 DEF OpenCall
<1>19. CASE CancelDelivered
      BY <1>19 DEF CancelDelivered, AwaitNativeRaises
<1>20. CASE NativeSucceeded
      BY <1>20 DEF NativeSucceeded, PublishSuccess
<1>21. CASE NativeFails
      BY <1>21 DEF NativeFails, NativeErrors
<1>22. CASE NativeFailed
      BY <1>22 DEF NativeFailed, NativeErrors, Undecided
<1>23. CASE Complete
      BY <1>23 DEF Complete, Finish
<1>24. CASE \E e \in {"local", "localRetry"} : CompletionFails(e)
      BY <1>24 DEF CompletionFails
<1>25. CASE Except
      BY <1>25 DEF Except
<1>26. CASE Decide
      BY <1>26 DEF Decide, MayRetry, StopRetry, Retriable, Unauthenticated
<1>. QED
     BY <1>1, <1>2, <1>3, <1>4, <1>5, <1>6, <1>7, <1>8, <1>9, <1>10, <1>11, <1>12, <1>13,
        <1>14, <1>15, <1>16, <1>17, <1>18, <1>19, <1>20, <1>21, <1>22, <1>23, <1>24, <1>25, <1>26
     DEF RequestNext, LoopStep, CallerStep

(* Cancellation and success exclude each other: a response that arrived is   *)
(* not turned into a cancellation by cancel(), an expiring wait or a closing *)
(* SDK, a request that succeeded does not report cancelled(), and an         *)
(* accepted cancellation of a running call takes effect.                     *)
THEOREM RequestOutcomeKept == (\A e \in Envs : ~e.hints) /\ RequestSpec => OutcomeKept
<1>1. FlagInv' => SucceedsPlain
      BY DEF FlagInv, CancelRecorded, SucceedsPlain
<1>2. FlagInv /\ FlagInv' /\ TransportInv /\ [RequestNext]_requestVars => [OutcomeStep]_requestVars
      BY <1>1, StepKeepsSuccess, StepReachesCall DEF OutcomeStep
<1>3. CASE \A e \in Envs : ~e.hints
      BY <1>2, <1>3, FlagsTracked, TransportTracked, PTL DEF RequestSpec, OutcomeKept
<1>. QED
     BY <1>3
=============================================================================
