------------------------------- MODULE MCCalls -------------------------------
(***************************************************************************)
(* The kinds of call the SDK offers, for TLC: Request, Stream, Operation   *)
(* and the raw UnaryCall of a generated stub.  They share no state, so a   *)
(* behaviour is a behaviour of one of them, chosen by `what`; the others   *)
(* stay in an initial state.                                               *)
(***************************************************************************)
EXTENDS Request, Sequences, TLC

CONSTANTS a, b, None

VARIABLES
    what,
    senv, op, ans, posted, holder, startEntered, startErr, address, released, releases, unclean,
    nat, natTerm, opened, cancelReq, aborted, event, canceller, abort, closed, slate,
    set, server, stored, lockq, call, work, reply, late, cancel, since, faults,
    uenv, step, result, handle, signal, rpc, leased, published, ready, rpcDone, termReady, natEnded, asked,
    code, debug, captured, awaiter, reader, got, sdk

Plain == [auth |-> FALSE, override |-> "none", timed |-> TRUE, hints |-> FALSE,
          wrapperFails |-> FALSE, closing |-> FALSE, retries |-> 2]

(* A retry hint on UNAUTHENTICATED is left out: the loop then retries before *)
(* the authenticator decides, with flags of the attempt before.              *)
RequestEnvs == {[Plain EXCEPT !.auth = u, !.override = o] :
            u \in BOOLEAN, o \in {"none", "own"}}
        \cup {[Plain EXCEPT !.auth = u, !.closing = TRUE, !.wrapperFails = ~u] : u \in BOOLEAN}
        \cup {[Plain EXCEPT !.override = "foreign"], [Plain EXCEPT !.timed = FALSE, !.auth = TRUE]}

Ops == {a, b}
Does(first, second) == (a :> first @@ b :> second)
Quick == [kind |-> Does("read", "write"), override |-> "none", auth |-> TRUE, timed |-> TRUE, closing |-> FALSE]
StreamEnvs ==
    {Quick,
     [Quick EXCEPT !.override = "own", !.timed = FALSE, !.closing = TRUE],
     [Quick EXCEPT !.kind = Does("read", "close"), !.auth = FALSE],
     [Quick EXCEPT !.kind = Does("read", "close"), !.closing = TRUE],
     [Quick EXCEPT !.kind = Does("result", "write"), !.auth = FALSE, !.closing = TRUE],
     [Quick EXCEPT !.kind = Does("result", "write"), !.auth = FALSE, !.override = "foreign"]}

Callers == {a, b}
Final == 1
MaxFaults == 1
Settings ==
    {[kind |-> Does("update", "wait"), timed |-> {a, b}, auth |-> TRUE, fails |-> FALSE, silent |-> TRUE],
     [kind |-> Does("wait", "wait"), timed |-> {a}, auth |-> FALSE, fails |-> TRUE, silent |-> FALSE],
     [kind |-> Does("update", "update"), timed |-> {a}, auth |-> FALSE, fails |-> FALSE, silent |-> FALSE]}

streamVars == <<senv, op, ans, posted, holder, startEntered, startErr, address, released, releases, unclean,
                nat, natTerm, opened, cancelReq, aborted, event, canceller, abort, closed, slate>>
UnaryEnvs == [debug: BOOLEAN, closing: BOOLEAN, reads: {"code", "connection"}]
unaryVars == <<uenv, step, result, handle, signal, rpc, leased, published, ready, rpcDone, termReady, natEnded, asked,
               code, debug, captured, awaiter, reader, got, sdk>>

operationVars == <<set, server, stored, lockq, call, work, reply, late, cancel, since, faults>>

St == INSTANCE Stream
Op == INSTANCE Operation
Un == INSTANCE UnaryCall

vars == <<what, requestVars, streamVars, operationVars, unaryVars>>

Init ==
    /\ what \in {"request", "stream", "operation", "unary"}
    /\ RequestInit /\ St!Init /\ Op!Init /\ Un!UnaryInit
    /\ what # "request" => env = Plain
    /\ what # "stream" => senv = Quick
    /\ what # "operation" => set.silent
    /\ what # "unary" => uenv = [debug |-> FALSE, closing |-> FALSE, reads |-> "code"]

Next ==
    /\ UNCHANGED what
    /\ \/ what = "request" /\ RequestNext /\ UNCHANGED <<streamVars, operationVars, unaryVars>>
       \/ what = "stream" /\ St!Next /\ UNCHANGED <<requestVars, operationVars, unaryVars>>
       \/ what = "operation" /\ Op!Next /\ UNCHANGED <<requestVars, streamVars, unaryVars>>
       \/ what = "unary" /\ Un!UnaryNext /\ UNCHANGED <<requestVars, streamVars, operationVars>>

(* The fairness conditions of the component that was chosen. *)
Spec ==
    /\ Init /\ [][Next]_vars
    /\ WF_requestVars(what = "request" /\ LoopStep)
    /\ WF_requestVars(what = "request" /\ Advances)
    /\ WF_streamVars(what = "stream" /\ St!LoopStep)
    /\ WF_streamVars(what = "stream" /\ St!Advances)
    /\ WF_streamVars(what = "stream" /\ St!CancelSubmit)
    /\ WF_operationVars(what = "operation" /\ Op!Advances)
    /\ \A c \in Callers :
          /\ WF_operationVars(what = "operation" /\ Op!LoopStep(c))
          /\ WF_operationVars(what = "operation" /\ ~set.silent /\ Op!ServerReads(c))
    /\ WF_unaryVars(what = "unary" /\ Un!UnaryProgress)

(* The variables of every call have the values the code gives them. *)
TypeOK == RequestTypeOK /\ St!TypeOK /\ Op!TypeOK /\ Un!UnaryTypeOK

(* Racing operations of a stream open one native call (_start), whose        *)
(* transport is given back once and clean (_release); a released stream has  *)
(* no running call and an aborted one no transport (_abort).  The type       *)
(* invariants of all four kinds of call are checked along with it.           *)
StreamSound == TypeOK /\ St!OneNativeCall /\ St!GivenBackOnce /\ St!NoOrphanCall /\ St!AbortedHoldsNothing

(* What a caller has seen stays: done() of a request does not turn false     *)
(* again in time, and the result of a stream that completed is not lost to a *)
(* cancellation (_result_internal).                                          *)
ResultKept == [][StaysDone /\ St!KeepsResult]_<<requestVars, streamVars>>

(* update() returns a state read after the call began, wait() returns only   *)
(* for an operation that is over, and ended work neither holds _update_lock  *)
(* nor queues for it.                                                        *)
OperationSound == Op!ReturnsRecent /\ Op!WaitMeansDone /\ Op!LockNotLeaked

(* The stored operation never goes back to an older state                    *)
(* (_update_internal).                                                       *)
NeverRegresses == [][Op!NotOlder]_operationVars

(* A finished stub call has given its transport back, its awaiters and       *)
(* readers are told the one status it ended with, that status is cached      *)
(* once, and an outcome reached before a cancellation was accepted is not    *)
(* replaced by it (_mark_native_terminal).                                   *)
UnarySound == [](Un!TransportGivenBack /\ Un!StatusConsistent) /\ [][Un!UnaryKeeps]_unaryVars

(* A caller with a deadline is answered, whatever the server and the other   *)
(* callers do, and every wait() for an operation ends once the service has   *)
(* finished it.  Only one component moves, so the callers of the others      *)
(* never wait.                                                               *)
CallerAnswered ==
    /\ (Waiting \/ St!Waiting \/ Op!Waiting) ~> ~(Waiting \/ St!Waiting \/ Op!Waiting)
    /\ Op!WaitEnds

(* Cancelling a request, a stream or a stub call ends its native call, gives *)
(* back its transport and answers whoever waits for it: CancelEnds,          *)
(* CancelCleansUp and UnaryEnds together.                                    *)
CancellationEnds ==
    (ToEnd \/ St!ToCancel \/ Un!UnaryEnding) ~>
        (EndedClean /\ St!CancelledClean /\ (Un!UnaryEnding => Un!UnaryEnded))
=============================================================================
