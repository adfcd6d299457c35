----------------------------- MODULE LoopHandler -----------------------------
(***************************************************************************)
(* AsyncRuntime.set_borrowed_loop_exception_handler of aio/_runtime.py     *)
(* with _StagedLoopExceptionHandler: several SDKs install an exception     *)
(* handler on one event loop of the caller.  A constructor on another      *)
(* thread posts the assignment to the loop, waits for it and may give up   *)
(* at any moment; what it left behind is undone on the loop, while newer   *)
(* assignments may already stand on top of it.                             *)
(***************************************************************************)
EXTENDS Naturals, Sequences, FiniteSets

CONSTANTS
    Sdks,      \* SDKs under construction; each has a handler of its own
    Original   \* the handler the loop had before, or none

VARIABLES
    handler,   \* the staged handler that is installed on the loop, or Original
    state,     \* _StagedLoopExceptionHandler._state of every SDK's assignment
    previous,  \* ... and the predecessor kept in it
    future,    \* `configured`
    undo,      \* whether restore_when_configured is a callback of `configured`
    at,        \* where the constructor of every SDK is
    calls,     \* callbacks queued on the loop
    loop,      \* "runs", "stopped" or "closed"
    order      \* the assignments that the loop has made, oldest first

handlerVars == <<handler, state, previous, future, undo, at, calls, loop, order>>

HandlerInit ==
    /\ handler = Original /\ order = <<>>
    /\ state = [s \in Sdks |-> "none"] /\ previous = [s \in Sdks |-> Original]
    /\ future = [s \in Sdks |-> "none"] /\ undo = [s \in Sdks |-> FALSE]
    /\ at = [s \in Sdks |-> "new"] /\ calls = <<>> /\ loop = "runs"

(* restorable_predecessor: assignments that were rolled back are skipped. *)
Skipping[n \in 0..Cardinality(Sdks), h \in Sdks \cup {Original}] ==
    IF n = 0 \/ h = Original \/ state[h] # "rolled_back" THEN h ELSE Skipping[n - 1, previous[h]]
Restorable(h) == Skipping[Cardinality(Sdks), h]

(* The handler that a diagnostic of the loop reaches: __call__ of a handler  *)
(* that was rolled back forwards to its restorable predecessor.              *)
Reached == Restorable(handler)

(* The loop runs, and is not in the middle of a callback. *)
LoopIsFree == loop = "runs" /\ \A s \in Sdks : future[s] # "running"

(* A constructor that runs on the loop itself installs and commits at once;  *)
(* if the loop refuses the handler, the assignment is rolled back.           *)
InstallInLoop(s) ==
    /\ at[s] = "new" /\ LoopIsFree
    /\ \/ /\ handler' = s /\ order' = Append(order, s)
          /\ state' = [state EXCEPT ![s] = "committed"]
          /\ at' = [at EXCEPT ![s] = "done"]
       \/ /\ state' = [state EXCEPT ![s] = "rolled_back"]
          /\ at' = [at EXCEPT ![s] = "raised"]
          /\ UNCHANGED <<handler, order>>
    /\ previous' = [previous EXCEPT ![s] = IF at'[s] = "done" THEN Original ELSE handler]
    /\ UNCHANGED <<future, undo, calls, loop>>

(* A constructor elsewhere posts configure() to the loop. *)
PostConfigure(s) ==
    /\ at[s] = "new"
    /\ \/ /\ loop # "closed"
          /\ calls' = Append(calls, [do |-> "configure", sdk |-> s])
          /\ future' = [future EXCEPT ![s] = "pending"]
          /\ at' = [at EXCEPT ![s] = "wait"]
       \/ /\ loop = "closed"
          /\ at' = [at EXCEPT ![s] = "raised"]
          /\ UNCHANGED <<calls, future>>
    /\ UNCHANGED <<handler, state, previous, undo, loop, order>>

Called(do) == LoopIsFree /\ calls # <<>> /\ Head(calls).do = do

(* configure() claims the future, unless the constructor has given up ... *)
Configure ==
    /\ Called("configure")
    /\ LET s == Head(calls).sdk IN
          future' = [future EXCEPT ![s] = IF @ = "cancelled" THEN @ ELSE "running"]
    /\ calls' = Tail(calls)
    /\ UNCHANGED <<handler, state, previous, undo, at, loop, order>>

(* Mutant: an assignment that a newer one covers is not marked. *)
RolledBackIfCurrent(s) ==
    /\ state' = IF handler = s THEN [state EXCEPT ![s] = "rolled_back"] ELSE state
    /\ handler' = IF handler = s THEN previous[s] ELSE handler

(* restore(): the assignment is marked, and if it is still the installed     *)
(* one, its predecessor is put back.                                         *)
RolledBack(s) ==
    /\ state' = [state EXCEPT ![s] = "rolled_back"]
    /\ handler' = IF handler = s THEN Restorable(previous[s]) ELSE handler

(* ... and stages the handler.  A constructor that gave up meanwhile has     *)
(* the assignment undone by the callback of the future, here on the loop.    *)
Assign(s) ==
    /\ future[s] = "running" /\ loop = "runs"
    /\ previous' = [previous EXCEPT ![s] = handler]
    /\ order' = Append(order, s)
    /\ handler' = IF undo[s] THEN Restorable(handler) ELSE s
    /\ state' = [state EXCEPT ![s] = IF undo[s] THEN "rolled_back" ELSE "pending"]
    /\ future' = [future EXCEPT ![s] = "set"]
    /\ UNCHANGED <<undo, at, calls, loop>>

(* The loop refuses the handler: the caller gets the error. *)
AssignFails(s) ==
    /\ future[s] = "running" /\ loop = "runs"
    /\ previous' = [previous EXCEPT ![s] = handler]
    /\ state' = [state EXCEPT ![s] = "rolled_back"]
    /\ future' = [future EXCEPT ![s] = "error"]
    /\ UNCHANGED <<handler, undo, at, calls, loop, order>>

(* The constructor sees the result ... *)
Accepted(s) ==
    /\ at[s] = "wait" /\ future[s] = "set"
    /\ at' = [at EXCEPT ![s] = "accepted"]
    /\ UNCHANGED <<handler, state, previous, future, undo, calls, loop, order>>

(* ... and commits: the predecessor is let go. *)
Commit(s) ==
    /\ at[s] = "accepted"
    /\ state' = [state EXCEPT ![s] = "committed"]
    /\ previous' = [previous EXCEPT ![s] = Original]
    /\ at' = [at EXCEPT ![s] = "done"]
    /\ UNCHANGED <<handler, future, undo, calls, loop, order>>

(* cancel_or_restore: cancel what has not begun, undo what is under way when *)
(* it completes, and what is complete at the next turn of the loop.          *)
CancelOrRestore(s) ==
    \/ /\ future[s] = "pending"
       /\ future' = [future EXCEPT ![s] = "cancelled"]
       /\ UNCHANGED <<undo, calls>>
    \/ /\ future[s] = "running"
       /\ undo' = [undo EXCEPT ![s] = TRUE]
       /\ UNCHANGED <<future, calls>>
    \/ /\ future[s] = "set"
       /\ calls' = IF loop = "closed" THEN calls
                   ELSE Append(calls, [do |-> "restore", sdk |-> s])
       /\ UNCHANGED <<future, undo>>
    \/ future[s] = "error" /\ UNCHANGED <<future, undo, calls>>

(* The constructor gives up: its time is up, the loop has stopped, the       *)
(* assignment failed, or an exception interrupts it.                         *)
GiveUp(s) ==
    /\ at[s] = "wait"
    /\ CancelOrRestore(s)
    /\ at' = [at EXCEPT ![s] = "raised"]
    /\ UNCHANGED <<handler, state, previous, loop, order>>

(* The queued restore() of a constructor that gave up. *)
Restore ==
    /\ Called("restore")
    /\ RolledBack(Head(calls).sdk)
    /\ calls' = Tail(calls)
    /\ UNCHANGED <<previous, future, undo, at, loop, order>>

(* The loop of the caller stops, runs again, or is closed. *)
LoopChanges(l) ==
    /\ loop # l /\ loop # "closed" /\ (l = "closed" => loop = "stopped")
    /\ \A s \in Sdks : future[s] # "running"
    /\ loop' = l
    /\ calls' = IF l = "closed" THEN <<>> ELSE calls
    /\ UNCHANGED <<handler, state, previous, future, undo, at, order>>

HandlerNext ==
    \/ Configure \/ Restore
    \/ \E s \in Sdks :
          \/ InstallInLoop(s) \/ PostConfigure(s)
          \/ Assign(s) \/ AssignFails(s)
          \/ Accepted(s) \/ Commit(s) \/ GiveUp(s)
    \/ \E l \in {"runs", "stopped", "closed"} : LoopChanges(l)

HandlerSpec == HandlerInit /\ [][HandlerNext]_handlerVars

HandlerTypeOK ==
    /\ handler \in Sdks \cup {Original}
    /\ state \in [Sdks -> {"none", "pending", "committed", "rolled_back"}]
    /\ previous \in [Sdks -> Sdks \cup {Original}]
    /\ future \in [Sdks -> {"none", "pending", "running", "set", "error", "cancelled"}]
    /\ undo \in [Sdks -> BOOLEAN]
    /\ at \in [Sdks -> {"new", "wait", "accepted", "done", "raised"}]
    /\ calls \in Seq([do: {"configure", "restore"}, sdk: Sdks])
    /\ loop \in {"runs", "stopped", "closed"} /\ order \in Seq(Sdks)

(* What is still to be undone, on a loop that can still use a handler. *)
Undoing(s) ==
    \/ \E n \in 1..Len(calls) : calls[n] = [do |-> "restore", sdk |-> s]
    \/ future[s] = "running" \/ loop = "closed"

(* The handler of an SDK whose constructor raised receives no diagnostics    *)
(* once its assignment is undone, even if newer assignments that were made   *)
(* on top of it are undone later.                                            *)
RaisedNotReached ==
    \A s \in Sdks : at[s] = "raised" /\ ~Undoing(s) => Reached # s

(* When every constructor is through, diagnostics reach the newest           *)
(* assignment that was accepted: undoing the others lost nothing.            *)
Kept == SelectSeq(order, LAMBDA s : at[s] = "done")
NewestReached ==
    (\A s \in Sdks : at[s] \in {"new", "done"} \/ (at[s] = "raised" /\ ~Undoing(s))) /\ loop # "closed" =>
        Reached = IF Kept = <<>> THEN Original ELSE Kept[Len(Kept)]
=============================================================================
