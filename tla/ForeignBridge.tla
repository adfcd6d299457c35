---------------------------- MODULE ForeignBridge ----------------------------
(***************************************************************************)
(* AsyncRuntime._bridge_foreign_future of aio/_runtime.py: a concurrent    *)
(* future that stands for an asyncio future of another loop.  The future   *)
(* of the other loop is touched only by callbacks on that loop; the bridge *)
(* is cancelled by any thread at any time.                                 *)
(***************************************************************************)

CONSTANT Values   \* outcomes of the source other than cancellation

VARIABLES
    source,    \* the asyncio future
    bridged,   \* the concurrent future
    held,      \* whether `state` still has the source
    forwarded, \* whether forward_cancellation has run
    attached,  \* whether the source has copy_result as a callback
    calls,     \* callbacks queued on the owner loop
    owner      \* "runs", "stopped" or "closed"

bridgeVars == <<source, bridged, held, forwarded, attached, calls, owner>>

BridgeInit ==
    /\ source \in {"pending", "cancelled"} \cup Values
    /\ bridged = "none" /\ held = FALSE /\ forwarded = FALSE
    /\ attached = FALSE /\ calls = {}
    /\ owner \in {"runs", "stopped", "closed"}

(* The owner loop accepts a callback unless it is closed. *)
Post(call) == calls' = IF owner = "closed" THEN calls ELSE calls \cup {call}

(* The bridge is made: it fails at once when the owner does not run. *)
Bridge ==
    /\ bridged = "none"
    /\ held' = TRUE
    /\ \/ owner # "runs" /\ bridged' = "error" /\ UNCHANGED calls
       \/ owner = "runs" /\ bridged' = "pending" /\ Post("attach")
    /\ UNCHANGED <<source, forwarded, attached, owner>>

(* The bridge is asked about before the callback is added to the source. *)
Attaches ==
    \/ ~held /\ UNCHANGED <<source, attached>>
    \/ /\ held /\ bridged = "cancelled"
       /\ source' = IF source = "pending" THEN "cancelled" ELSE source
       /\ UNCHANGED attached
    \/ held /\ bridged # "cancelled" /\ attached' = TRUE /\ UNCHANGED source

(* attach_on_owner.  A source that is done has the callback called soon. *)
AttachOnOwner ==
    /\ "attach" \in calls /\ owner = "runs"
    /\ Attaches
    /\ calls' = (calls \ {"attach"}) \cup
          (IF attached' /\ source # "pending" THEN {"copy"} ELSE {})
    /\ UNCHANGED <<bridged, held, forwarded, owner>>

(* The source completes on its loop, or its owner cancels it. *)
SourceSettles(v) ==
    /\ source = "pending" /\ owner = "runs"
    /\ source' = v
    /\ calls' = IF attached THEN calls \cup {"copy"} ELSE calls
    /\ UNCHANGED <<bridged, held, forwarded, attached, owner>>

(* copy_result: a bridge that is done already stays as it is. *)
CopyResult ==
    /\ "copy" \in calls /\ owner = "runs"
    /\ calls' = calls \ {"copy"}
    /\ bridged' = IF bridged = "pending" THEN source ELSE bridged
    /\ UNCHANGED <<source, held, forwarded, attached, owner>>

(* A user of the bridge cancels it ... *)
CancelBridge ==
    /\ bridged = "pending"
    /\ bridged' = "cancelled"
    /\ UNCHANGED <<source, held, forwarded, attached, calls, owner>>

(* What forward_cancellation sends to the owner loop. *)
Forwarded ==
    IF bridged = "cancelled" THEN Post("cancel") ELSE calls' = calls

(* ... and its done callback, which runs after every completion, lets go of  *)
(* the source and sends the cancellation to its loop.                        *)
ForwardCancellation ==
    /\ bridged \notin {"none", "pending"} /\ ~forwarded
    /\ forwarded' = TRUE /\ held' = FALSE
    /\ Forwarded
    /\ UNCHANGED <<source, bridged, attached, owner>>

(* cancel_on_owner, and the callbacks of the source it sets off *)
CancelOnOwner ==
    /\ "cancel" \in calls /\ owner = "runs"
    /\ source' = IF source = "pending" THEN "cancelled" ELSE source
    /\ calls' = (calls \ {"cancel"}) \cup
          (IF attached /\ source = "pending" THEN {"copy"} ELSE {})
    /\ UNCHANGED <<bridged, held, forwarded, attached, owner>>

(* The owner loop stops, and is closed or run again. *)
OwnerChanges(s) ==
    /\ owner # s /\ owner # "closed" /\ (s = "closed" => owner = "stopped")
    /\ owner' = s
    /\ calls' = IF s = "closed" THEN {} ELSE calls
    /\ UNCHANGED <<source, bridged, held, forwarded, attached>>

OwnerStep == AttachOnOwner \/ CopyResult \/ CancelOnOwner

BridgeNext ==
    \/ Bridge \/ CancelBridge \/ ForwardCancellation
    \/ OwnerStep
    \/ \E v \in Values \cup {"cancelled"} : SourceSettles(v)
    \/ \E s \in {"runs", "stopped", "closed"} : OwnerChanges(s)

BridgeSpec ==
    /\ BridgeInit /\ [][BridgeNext]_bridgeVars
    /\ WF_bridgeVars(OwnerStep) /\ WF_bridgeVars(ForwardCancellation)

BridgeTypeOK ==
    /\ source \in {"pending", "cancelled"} \cup Values
    /\ bridged \in {"none", "pending", "cancelled", "error"} \cup Values
    /\ held \in BOOLEAN /\ forwarded \in BOOLEAN /\ attached \in BOOLEAN
    /\ calls \subseteq {"attach", "copy", "cancel"}
    /\ owner \in {"runs", "stopped", "closed"}

(* A cancelled bridge never leaves the source running: until the source is   *)
(* done, its cancellation is on the way to the owner loop or still to be     *)
(* sent there, unless that loop is closed.                                   *)
CancellationOnItsWay ==
    bridged = "cancelled" /\ source = "pending" /\ owner # "closed" =>
        ~forwarded \/ "cancel" \in calls

(* As long as the owner loop runs, a source that is done ends the bridge,    *)
(* and a bridge that is cancelled ends the source.                           *)
OneSidedEnd ==
    /\ owner = "runs" /\ bridged # "none"
    /\ \/ source # "pending" /\ bridged = "pending"
       \/ source = "pending" /\ bridged = "cancelled"
BridgeSettles == OneSidedEnd ~> ~OneSidedEnd
=============================================================================
