---------------------------- MODULE ChannelClosing ----------------------------
(***************************************************************************)
(* The life of a Channel around its pool (src/nebius/aio/channel.py): a    *)
(* constructor that may raise half way, background work (bg_task), calls   *)
(* of close() and sync_close() that race, time out and are cancelled, and  *)
(* the finalizer of a channel that was dropped.  All of them share one     *)
(* close handle and one runtime.  The runtime is the external one that     *)
(* Submission and RuntimeShutdown describe: it drains protected work       *)
(* before it stops.                                                        *)
(***************************************************************************)
CONSTANTS
    ClosingCalls,   \* calls that close the channel
    Background,     \* pieces of work given to bg_task
    ClosingEnvs     \* circumstances: see ClosingEnvType

VARIABLES
    cenv,
    chan,       \* "constructing", "raising", "raised", "alive" or "dropped"
    closing,    \* _close_handle: "none", "queued", "running", "ok" or "failed"
    hooked,     \* a callback of the close handle will call shutdown_async
    admits,     \* _closed is False and the runtime accepts work
    stop,       \* runtime shutdown: "none", "begun", "ok" or "failed"
    closer,     \* where each call is
    fin,        \* the clean-up that the finalizer submitted
    bg,         \* how far the thread that calls bg_task is
    work,       \* the wrapper's task: "none", "queued", "running" or "over"
    pub,        \* the handle bg_task returns: "none", "pending" or "settled"
    due,        \* settled handles whose callbacks have not run
    begun,      \* started of bg_task
    shutOut,    \* closed_before_start of bg_task
    disposed,   \* caller work that was disposed of
    tasks       \* _tasks

ClosingEnvType ==
    [owned: BOOLEAN, fails: {"no", "early", "ready"}, kind: [ClosingCalls -> {"close", "internal", "sync", "timed"}]]

closers == <<chan, closing, hooked, stop, closer, fin>>
backgrounds == <<bg, work, pub, due, begun, shutOut, disposed, tasks>>
closingVars == <<cenv, closers, admits, backgrounds>>

Settled == {"ok", "failed"}
ClosingInit ==
    /\ cenv \in ClosingEnvs
    /\ chan = "constructing" /\ closing = "none" /\ hooked = FALSE /\ admits = TRUE /\ stop = "none" /\ fin = "none"
    /\ closer = [c \in ClosingCalls |-> "idle"]
    /\ bg = [b \in Background |-> "idle"]
    /\ work = [b \in Background |-> "none"] /\ pub = [b \in Background |-> "none"]
    /\ due = {} /\ begun = {} /\ shutOut = {} /\ disposed = {} /\ tasks = {}

(* AsyncRuntime.shutdown_async: the first call begins the shutdown. *)
ShutdownAsync ==
    /\ stop' = IF stop = "none" THEN "begun" ELSE stop
    /\ admits' = FALSE

(* _get_close_handle: one clean-up for all; a submission that fails is kept  *)
(* as a failed one.                                                          *)
GetCloseHandle ==
    IF closing = "none" THEN closing' \in {"queued", "failed"} ELSE UNCHANGED closing

-----------------------------------------------------------------------------
(* Constructor and finalizer *)

Construct ==
    /\ chan = "constructing" /\ cenv.fails = "no"
    /\ chan' = "alive"
    /\ UNCHANGED <<cenv, closing, hooked, admits, stop, closer, fin, backgrounds>>

(* _shutdown_runtime_on_init_failure: the constructor raises before or after *)
(* _channel_lifecycle_ready.  A borrowed loop is not waited for.             *)
ConstructorRaises ==
    /\ chan = "constructing" /\ cenv.fails # "no"
    /\ IF cenv.fails = "ready" THEN GetCloseHandle ELSE UNCHANGED closing
    /\ ShutdownAsync
    /\ chan' = IF cenv.owned THEN "raising" ELSE "raised"
    /\ UNCHANGED <<cenv, hooked, closer, fin, backgrounds>>

ConstructorReraises ==
    /\ chan = "raising" /\ closing \in Settled \cup {"none"} /\ stop \in Settled
    /\ chan' = "raised"
    /\ UNCHANGED <<cenv, closing, hooked, admits, stop, closer, fin, backgrounds>>

(* _finalize_channel.  Pending clean-up and background work refer to the     *)
(* channel, so it is not dropped under them.                                 *)
Drop ==
    /\ chan = "alive" /\ chan' = "dropped"
    /\ \A c \in ClosingCalls : closer[c] \notin {"closing", "failing", "stopping"}
    /\ closing \notin {"queued", "running"} /\ due = {}
    /\ \A b \in Background : pub[b] # "pending" /\ bg[b] \in {"idle", "over"}
    /\ fin' \in IF admits THEN {"queued", "none"} ELSE {"none"}
    /\ ShutdownAsync
    /\ UNCHANGED <<cenv, closing, hooked, closer, backgrounds>>

FinalizerRuns ==
    /\ \/ fin = "queued" /\ fin' = "running"
       \/ fin = "running" /\ fin' = "over"
    /\ UNCHANGED <<cenv, chan, closing, hooked, admits, stop, closer, backgrounds>>

-----------------------------------------------------------------------------
(* Calls of close() and sync_close() *)

(* SDK work that calls close() can only do so before it is drained. *)
CallClose(c) ==
    /\ chan = "alive" /\ closer[c] = "idle"
    /\ cenv.kind[c] = "internal" => closing \in {"none", "queued"}
    /\ GetCloseHandle
    /\ admits' = FALSE
    /\ closer' = [closer EXCEPT ![c] = "closing"]
    /\ UNCHANGED <<cenv, chan, hooked, stop, fin, backgrounds>>

(* The clean-up has ended: shutdown is started, and waited for unless the    *)
(* caller runs on the SDK loop (_shutdown_after_internal_caller).            *)
ClosingSeen(c) ==
    /\ closer[c] = "closing" /\ closing \in Settled
    /\ ShutdownAsync
    /\ closer' = [closer EXCEPT ![c] =
          CASE cenv.kind[c] # "internal" -> IF closing = "ok" THEN "stopping" ELSE "failing"
            [] closing = "ok" -> "returned"
            [] OTHER -> "raised"]
    /\ UNCHANGED <<cenv, chan, closing, hooked, fin, backgrounds>>

ShutdownSeen(c) ==
    /\ closer[c] \in {"stopping", "failing"} /\ stop \in Settled
    /\ closer' = [closer EXCEPT ![c] = IF @ = "stopping" /\ stop = "ok" THEN "returned" ELSE "raised"]
    /\ UNCHANGED <<cenv, chan, closing, hooked, admits, stop, fin, backgrounds>>

(* Mutant: a caller that gives up leaves nothing behind. *)
LeaveHookNot == UNCHANGED hooked

(* A caller that gives up leaves a callback on the close handle. *)
LeaveHook == hooked' = TRUE

(* The caller is cancelled, or the timeout of sync_close() expires. *)
GiveUp(c) ==
    /\ cenv.kind[c] # "sync"
    /\ \/ /\ closer[c] = "closing" /\ closing \notin Settled
          /\ LeaveHook
       \/ /\ closer[c] \in {"stopping", "failing"}
          /\ UNCHANGED hooked
    /\ closer' = [closer EXCEPT ![c] = "left"]
    /\ UNCHANGED <<cenv, chan, closing, admits, stop, fin, backgrounds>>

(* close() is cancelled after the clean-up ended and before it resumes. *)
CancelledLate(c) ==
    /\ cenv.kind[c] \in {"close", "internal"} /\ closer[c] = "closing" /\ closing \in Settled
    /\ ShutdownAsync
    /\ closer' = [closer EXCEPT ![c] = IF cenv.kind[c] = "internal" THEN "left" ELSE "failing"]
    /\ UNCHANGED <<cenv, chan, closing, hooked, fin, backgrounds>>

(* sync_close() is interrupted in its first wait and goes on to the second.  *)
Interrupt(c) ==
    /\ cenv.kind[c] \in {"sync", "timed"} /\ closer[c] = "closing"
    /\ ShutdownAsync
    /\ closer' = [closer EXCEPT ![c] = "failing"]
    /\ UNCHANGED <<cenv, chan, closing, hooked, fin, backgrounds>>

-----------------------------------------------------------------------------
(* Background work *)

BgTask(b) ==
    /\ chan = "alive" /\ bg[b] = "idle"
    /\ IF admits
       THEN /\ bg' = [bg EXCEPT ![b] = "admitted"]
            /\ work' = [work EXCEPT ![b] = "queued"] /\ pub' = [pub EXCEPT ![b] = "pending"]
            /\ UNCHANGED <<shutOut, disposed>>
       ELSE /\ bg' = [bg EXCEPT ![b] = "over"]
            /\ shutOut' = shutOut \cup {b} /\ disposed' = disposed \cup {b}
            /\ UNCHANGED <<work, pub>>
    /\ UNCHANGED <<cenv, closers, admits, due, begun, tasks>>

(* Mutant: work that has begun is not told from work that has not. *)
CloseUnstartedBlindly(b) ==
    IF b \in shutOut THEN UNCHANGED <<shutOut, disposed>>
    ELSE shutOut' = shutOut \cup {b} /\ disposed' = disposed \cup {b}

(* close_unstarted *)
CloseUnstarted(b) ==
    IF b \in begun \cup shutOut THEN UNCHANGED <<shutOut, disposed>>
    ELSE shutOut' = shutOut \cup {b} /\ disposed' = disposed \cup {b}

(* bg_task adds close_unstarted, which runs at once if the handle is settled, *)
(* then tracks the handle until it is.                                        *)
Track(b) ==
    /\ \/ /\ bg[b] = "admitted" /\ bg' = [bg EXCEPT ![b] = "guarded"]
          /\ IF pub[b] = "settled" /\ b \notin due THEN CloseUnstarted(b) ELSE UNCHANGED <<shutOut, disposed>>
          /\ UNCHANGED tasks
       \/ /\ bg[b] = "guarded" /\ bg' = [bg EXCEPT ![b] = "tracked"]
          /\ tasks' = tasks \cup {b}
          /\ UNCHANGED <<shutOut, disposed>>
       \/ /\ bg[b] = "tracked" /\ bg' = [bg EXCEPT ![b] = "over"]
          /\ tasks' = IF pub[b] = "settled" /\ b \notin due THEN tasks \ {b} ELSE tasks
          /\ UNCHANGED <<shutOut, disposed>>
    /\ UNCHANGED <<cenv, closers, admits, work, pub, due, begun>>

(* The thread that settled the handle runs the callbacks added so far. *)
RunCallbacks(b) ==
    /\ b \in due /\ due' = due \ {b}
    /\ IF bg[b] # "admitted" THEN CloseUnstarted(b) ELSE UNCHANGED <<shutOut, disposed>>
    /\ tasks' = IF bg[b] = "over" THEN tasks \ {b} ELSE tasks
    /\ UNCHANGED <<cenv, closers, admits, bg, work, pub, begun>>

Settle(b) ==
    IF pub[b] = "pending"
    THEN pub' = [pub EXCEPT ![b] = "settled"] /\ due' = due \cup {b}
    ELSE UNCHANGED <<pub, due>>

(* The handle is cancelled, from whatever thread. *)
CancelHandle(b) ==
    /\ pub[b] = "pending"
    /\ Settle(b)
    /\ UNCHANGED <<cenv, closers, admits, bg, work, begun, shutOut, disposed, tasks>>

(* The first step of the wrapper: it claims the caller's work. *)
StartWork(b) ==
    /\ work[b] = "queued"
    /\ IF b \in shutOut
       THEN /\ work' = [work EXCEPT ![b] = "over"]
            /\ Settle(b)
            /\ UNCHANGED begun
       ELSE /\ work' = [work EXCEPT ![b] = "running"] /\ begun' = begun \cup {b}
            /\ UNCHANGED <<pub, due>>
    /\ UNCHANGED <<cenv, closers, admits, bg, shutOut, disposed, tasks>>

(* cancel_submissions runs in the clean-up and again in the shutdown; a      *)
(* cancelled handle reaches its task too.                                    *)
Cancelled(b) == pub[b] = "settled" \/ closing = "running" \/ stop = "begun"

(* The task is cancelled before its first step, or ends. *)
EndWork(b) ==
    /\ work[b] = "running" \/ (work[b] = "queued" /\ Cancelled(b))
    /\ work' = [work EXCEPT ![b] = "over"]
    /\ Settle(b)
    /\ UNCHANGED <<cenv, closers, admits, bg, begun, shutOut, disposed, tasks>>

-----------------------------------------------------------------------------
(* The SDK loop and the runtime *)

CloseStarts ==
    /\ closing = "queued" /\ closing' = "running"
    /\ UNCHANGED <<cenv, chan, hooked, admits, stop, closer, fin, backgrounds>>

Drained == \A b \in Background : work[b] \in {"none", "over"}

(* _close_internal has drained background work and closed the resources, or  *)
(* failed; its handle runs the callbacks that were left on it.               *)
CloseEnds ==
    /\ closing = "running"
    /\ (Drained /\ closing' = "ok") \/ closing' = "failed"
    /\ IF hooked THEN ShutdownAsync ELSE UNCHANGED <<stop, admits>>
    /\ UNCHANGED <<cenv, chan, hooked, closer, fin, backgrounds>>

(* The runtime stops after protected work - clean-ups, internal callers -    *)
(* and after what is left of the rest.                                       *)
RuntimeStops ==
    /\ stop = "begun" /\ stop' \in Settled /\ Drained
    /\ closing \notin {"queued", "running"} /\ fin \notin {"queued", "running"}
    /\ \A c \in ClosingCalls : cenv.kind[c] = "internal" => closer[c] # "closing"
    /\ UNCHANGED <<cenv, chan, closing, hooked, admits, closer, fin, backgrounds>>

(* Ready work runs and woken callers resume.  Cancelled background work      *)
(* cooperates; other work may go on for as long as it likes.                 *)
Closes ==
    \/ ConstructorRaises \/ ConstructorReraises \/ FinalizerRuns \/ CloseStarts \/ CloseEnds \/ RuntimeStops
    \/ \E c \in ClosingCalls : ClosingSeen(c) \/ ShutdownSeen(c)
    \/ \E b \in Background :
          RunCallbacks(b) \/ Track(b) \/ StartWork(b) \/ (Cancelled(b) /\ EndWork(b))

ClosingNext ==
    \/ Closes \/ Construct \/ Drop
    \/ \E c \in ClosingCalls : CallClose(c) \/ GiveUp(c) \/ CancelledLate(c) \/ Interrupt(c)
    \/ \E b \in Background : BgTask(b) \/ CancelHandle(b) \/ EndWork(b)

ClosingSpec == ClosingInit /\ [][ClosingNext]_closingVars /\ WF_closingVars(Closes)

-----------------------------------------------------------------------------
(* The variables have the values the code gives them. *)
ClosingTypeOK ==
    /\ cenv \in ClosingEnvType
    /\ chan \in {"constructing", "raising", "raised", "alive", "dropped"}
    /\ closing \in {"none", "queued", "running"} \cup Settled
    /\ {hooked, admits} \subseteq BOOLEAN /\ stop \in {"none", "begun"} \cup Settled
    /\ closer \in [ClosingCalls -> {"idle", "closing", "stopping", "failing", "returned", "raised", "left"}]
    /\ fin \in {"none", "queued", "running", "over"}
    /\ bg \in [Background -> {"idle", "admitted", "guarded", "tracked", "over"}]
    /\ work \in [Background -> {"none", "queued", "running", "over"}]
    /\ pub \in [Background -> {"none", "pending", "settled"}]
    /\ {due, begun, shutOut, disposed, tasks} \subseteq SUBSET Background

(* A close() or sync_close() that returned has cleaned up, and has stopped   *)
(* the runtime unless it ran on the SDK loop; one that raised what it was    *)
(* told has stopped the runtime too.  A constructor that raised has stopped  *)
(* a runtime of its own.                                                     *)
ReturnMeansClosed ==
    /\ \A c \in ClosingCalls :
          /\ closer[c] = "returned" => closing = "ok" /\ (cenv.kind[c] = "internal" \/ stop = "ok")
          /\ closer[c] = "raised" => cenv.kind[c] = "internal" \/ stop \in Settled
    /\ chan = "raised" /\ cenv.owned => stop \in Settled /\ closing \notin {"queued", "running"}

(* The work given to bg_task is run or disposed of, not both, and not        *)
(* neither once its handle is settled and all callbacks have run; then       *)
(* _tasks has let go of it.  Nothing of it is left when close() is over.     *)
BackgroundOnce ==
    /\ begun \cap disposed = {}
    /\ \A b \in Background :
          (bg[b] = "over" /\ pub[b] # "pending" /\ b \notin due) =>
              /\ b \in begun \cup disposed
              /\ b \notin tasks
    /\ closing = "ok" \/ stop \in Settled => Drained

(* ReturnMeansClosed and BackgroundOnce, with the type invariant. *)
ClosingSound == ClosingTypeOK /\ ReturnMeansClosed /\ BackgroundOnce

(* Whoever closes, drops or fails to construct a channel, and however the    *)
(* callers give up meanwhile: the runtime stops and every caller is answered.*)
MustStop == closing # "none" \/ chan \in {"raising", "raised", "dropped"}
HasStopped ==
    /\ stop \in Settled /\ chan # "raising"
    /\ \A c \in ClosingCalls : closer[c] \notin {"closing", "stopping", "failing"}
ChannelStops == MustStop ~> HasStopped
=============================================================================
