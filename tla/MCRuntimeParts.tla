---------------------------- MODULE MCRuntimeParts ----------------------------
(***************************************************************************)
(* The smaller parts of the runtime, for TLC: the executor, the cross-loop *)
(* awaitable, the bridge to a foreign future, the exception handler of a   *)
(* borrowed loop, and how a channel is closed.  A behaviour is a behaviour *)
(* of one of them, chosen by `what`; the variables of the others keep      *)
(* their initial values.                                                   *)
(***************************************************************************)
EXTENDS DaemonExecutor, CrossLoopAwaitable, TLC

CONSTANTS a, b, c, l1, l2, Sdks, Original

VARIABLES
    what,
    source, bridged, held, forwarded, attached, ownerCalls, owner,
    handler, state, previous, configured, undo, constructor, loopCalls, loop, order,
    cenv, chan, closing, hooked, admits, stop, closeCall, fin, bg, work, pub, due, begun, shutOut, disposed, tasks

(* Two waiters share a loop; each way to wait meets a direct waiter, whose   *)
(* cancellation ends the work for all.                                       *)
Placement == (a :> l1 @@ b :> l2 @@ c :> l2)
WaysToWait ==
    {(a :> "direct" @@ b :> "shielded" @@ c :> "sync"),
     (a :> "direct" @@ b :> "callback" @@ c :> "shielded")}

Br == INSTANCE ForeignBridge WITH Values <- {"value"}, calls <- ownerCalls
Hd == INSTANCE LoopHandler WITH future <- configured, at <- constructor, calls <- loopCalls

(* A constructor that fails early or late, and each pair of an asynchronous  *)
(* and a synchronous close, with one piece of background work.               *)
Calls(first, second) == (a :> first @@ b :> second)
Circumstances ==
    {[owned |-> o, fails |-> f, kind |-> Calls("close", "close")] : o \in BOOLEAN, f \in {"early", "ready"}}
        \cup {[owned |-> TRUE, fails |-> "no", kind |-> Calls(x, y)] : x \in {"close", "internal"}, y \in {"sync", "timed"}}
Ch == INSTANCE ChannelClosing WITH
        ClosingCalls <- {a, b}, Background <- {a}, ClosingEnvs <- Circumstances, closer <- closeCall

bridgeVars == <<source, bridged, held, forwarded, attached, ownerCalls, owner>>
handlerVars == <<handler, state, previous, configured, undo, constructor, loopCalls, loop, order>>
closingVars == <<cenv, chan, closing, hooked, admits, stop, closeCall, fin, bg, work, pub, due, begun, shutOut,
                 disposed, tasks>>
vars == <<what, executorVars, awaitableVars, bridgeVars, handlerVars, closingVars>>

Init ==
    /\ what \in {"executor", "awaitable", "bridge", "handler", "closing"}
    /\ ExecutorInit /\ AwaitableInit /\ Br!BridgeInit /\ Hd!HandlerInit /\ Ch!ClosingInit
    /\ what # "awaitable" => kind[c] = "sync"
    /\ what # "bridge" => source = "pending" /\ owner = "runs"
    /\ what # "closing" => cenv.fails = "no" /\ cenv.kind = Calls("close", "sync")

Next ==
    /\ UNCHANGED what
    /\ \/ what = "executor" /\ ExecutorNext /\ UNCHANGED <<awaitableVars, bridgeVars, handlerVars, closingVars>>
       \/ what = "awaitable" /\ AwaitableNext /\ UNCHANGED <<executorVars, bridgeVars, handlerVars, closingVars>>
       \/ what = "bridge" /\ Br!BridgeNext /\ UNCHANGED <<executorVars, awaitableVars, handlerVars, closingVars>>
       \/ what = "handler" /\ Hd!HandlerNext /\ UNCHANGED <<executorVars, awaitableVars, bridgeVars, closingVars>>
       \/ what = "closing" /\ Ch!ClosingNext /\ UNCHANGED <<executorVars, awaitableVars, bridgeVars, handlerVars>>

Spec ==
    /\ Init /\ [][Next]_vars
    /\ \A w \in Workers : WF_executorVars(what = "executor" /\ WorkerStep(w))
    /\ \A d \in Closers : WF_executorVars(what = "executor" /\ CloserStep(d))
    /\ WF_awaitableVars(what = "awaitable" /\ Serve)
    /\ \A w \in Waiters : WF_awaitableVars(what = "awaitable" /\ WaiterStep(w))
    /\ WF_bridgeVars(what = "bridge" /\ Br!OwnerStep)
    /\ WF_bridgeVars(what = "bridge" /\ Br!ForwardCancellation)
    /\ WF_closingVars(what = "closing" /\ Ch!Closes)

(* What the SDK attaches to a loop or a future of someone else: a bridge that *)
(* was cancelled takes the foreign future along, the handler of an SDK whose  *)
(* constructor raised receives no diagnostics, and diagnostics reach the      *)
(* newest handler that was accepted.                                          *)
ForeignSound ==
    /\ Br!BridgeTypeOK /\ Br!CancellationOnItsWay
    /\ Hd!HandlerTypeOK /\ Hd!RaisedNotReached /\ Hd!NewestReached

(* A close() or sync_close() that returned has cleaned up and stopped the     *)
(* runtime, a constructor that raised has stopped a runtime of its own, and   *)
(* background work is run or disposed of exactly once.                        *)
ClosingSound == Ch!ClosingSound

(* Whoever closes, drops or fails to construct a channel, and however callers *)
(* give up meanwhile, the runtime stops and every caller is answered.         *)
ChannelStops == Ch!ChannelStops

(* Nobody waits for ever: items of the executor settle, its shutdown returns, *)
(* the waits of a settled future end, and a bridge and the foreign future do  *)
(* not stay apart on a running loop.                                          *)
PartsSettle ==
    /\ ItemsSettle /\ ShutdownReturns /\ AwaitAnswered
    /\ Br!OneSidedEnd ~> ~Br!OneSidedEnd
=============================================================================
