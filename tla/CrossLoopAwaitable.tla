-------------------------- MODULE CrossLoopAwaitable --------------------------
(***************************************************************************)
(* CrossLoopAwaitable of aio/_runtime.py: one concurrent future that is    *)
(* awaited from several event loops and read by threads (run_sync).  The   *)
(* future completes in one thread, waiters register in others, and the     *)
(* callback that serves them runs some time after the state of the future  *)
(* has changed.                                                            *)
(***************************************************************************)
EXTENDS Naturals

CONSTANTS
    Waiters,   \* callers: tasks of event loops, and threads
    Loops,     \* event loops of the callers
    LoopOf,    \* the loop of every waiter
    Kinds      \* the possible assignments of a way to wait to every waiter

ASSUME AwaitableAssumption ==
    /\ LoopOf \in [Waiters -> Loops]
    /\ Kinds \subseteq [Waiters -> {"direct", "shielded", "sync", "callback"}]

VARIABLES
    future,    \* "pending", or its outcome: "value", "timeout" (an error) or "cancelled"
    served,    \* whether the done callbacks of the future have run
    registry,  \* _waiters
    posted,    \* waiters whose publish callback, or public callback, is queued on their loop
    at,        \* where every waiter is
    relay,     \* the relay future of every waiter, or what a thread has read
    running,   \* the loops that run
    closed,    \* the loops that are closed
    kind       \* how every waiter waits

awaitableVars == <<future, served, registry, posted, at, relay, running, closed, kind>>

Outcomes == {"value", "timeout", "cancelled"}
Done == future # "pending"
On(w) == LoopOf[w] \in running

AwaitableInit ==
    /\ future = "pending" /\ served = FALSE
    /\ registry = {} /\ posted = {}
    /\ at = [w \in Waiters |-> "new"] /\ relay = [w \in Waiters |-> "pending"]
    /\ running = Loops /\ closed = {}
    /\ kind \in Kinds

(* The runtime or the bridge completes the future. *)
Settle(v) ==
    /\ ~Done
    /\ future' = v
    /\ UNCHANGED <<served, registry, posted, at, relay, running, closed, kind>>

(* Mutant: a waiter is registered without a look at the future. *)
RegisterUnchecked(w) ==
    /\ at[w] = "new"
    /\ registry' = registry \cup {w} /\ UNCHANGED posted
    /\ at' = [at EXCEPT ![w] = "wait"]

(* _wait_shielded: under the lock the waiter is registered, unless the       *)
(* future is done; then the waiter publishes to itself.                      *)
Register(w) ==
    /\ at[w] = "new"
    /\ \/ ~Done /\ registry' = registry \cup {w} /\ UNCHANGED posted
       \/ Done /\ posted' = posted \cup {w} /\ UNCHANGED registry
    /\ at' = [at EXCEPT ![w] = "wait"]

(* await, from a task of a running loop *)
Wait(w) ==
    /\ kind[w] \in {"direct", "shielded"} /\ On(w)
    /\ Register(w)
    /\ UNCHANGED <<future, served, relay, running, closed, kind>>

(* The loops that take a publish callback: all that are not closed. *)
Sent(all) == {w \in all : LoopOf[w] \notin closed}

(* schedule: a public callback is dropped unless its loop runs. *)
Scheduled(all) == {w \in all : On(w)}

(* publish_waiters, a done callback of the future: the registry is emptied   *)
(* under the lock, and every waiter's loop is sent a publish callback.       *)
(* Public callbacks are scheduled likewise.                                  *)
Serve ==
    /\ Done /\ ~served
    /\ served' = TRUE
    /\ posted' = posted
          \cup Sent({w \in registry : kind[w] # "callback"})
          \cup Scheduled({w \in registry : kind[w] = "callback"})
    /\ registry' = {}
    /\ at' = [w \in Waiters |->
          IF w \in registry /\ kind[w] = "callback" /\ ~On(w) THEN "dropped" ELSE at[w]]
    /\ UNCHANGED <<future, relay, running, closed, kind>>

(* publish, on the loop of the waiter; the public callback runs there too. *)
Published(w) == IF relay[w] = "pending" THEN future ELSE relay[w]

Publish(w) ==
    /\ w \in posted /\ On(w)
    /\ posted' = posted \ {w}
    /\ relay' = [relay EXCEPT ![w] = Published(w)]
    /\ at' = IF kind[w] = "callback" THEN [at EXCEPT ![w] = "done"] ELSE at
    /\ UNCHANGED <<future, served, registry, running, closed, kind>>

(* finally: _waiters.pop(waiter_id, None) *)
Unregister(w) == registry \ {w}

(* The waiter resumes with what its relay holds.  _wait cancels the shared   *)
(* future whenever its wait ends with a cancellation.                        *)
Resume(w) ==
    /\ at[w] = "wait" /\ kind[w] \in {"direct", "shielded"}
    /\ relay[w] # "pending" /\ On(w)
    /\ at' = [at EXCEPT ![w] = "done"]
    /\ registry' = Unregister(w)
    /\ future' = IF kind[w] = "direct" /\ relay[w] = "cancelled" /\ ~Done THEN "cancelled" ELSE future
    /\ UNCHANGED <<served, posted, relay, running, closed, kind>>

(* The task of a waiter is cancelled while it awaits its relay. *)
CancelWaiter(w) ==
    /\ at[w] = "wait" /\ kind[w] \in {"direct", "shielded"}
    /\ relay[w] = "pending" /\ On(w)
    /\ relay' = [relay EXCEPT ![w] = "cancelled"]
    /\ UNCHANGED <<future, served, registry, posted, at, running, closed, kind>>

(* add_done_callback: refused unless the loop runs.  A future that is done   *)
(* is answered at once.                                                      *)
AddCallback(w) ==
    /\ kind[w] = "callback" /\ at[w] = "new"
    /\ \/ /\ ~On(w)
          /\ at' = [at EXCEPT ![w] = "refused"]
          /\ UNCHANGED <<registry, posted>>
       \/ /\ On(w)
          /\ at' = [at EXCEPT ![w] = "wait"]
          /\ \/ ~Done /\ registry' = registry \cup {w} /\ UNCHANGED posted
             \/ Done /\ posted' = posted \cup {w} /\ UNCHANGED registry
    /\ UNCHANGED <<future, served, relay, running, closed, kind>>

(* run_sync waits for the future in a thread ... *)
Read(w) ==
    /\ kind[w] = "sync" /\ at[w] \in {"new", "wait"}
    /\ \/ /\ ~Done /\ at[w] = "new"
          /\ at' = [at EXCEPT ![w] = "wait"]
          /\ UNCHANGED relay
       \/ /\ Done
          /\ at' = [at EXCEPT ![w] = "done"]
          /\ relay' = [relay EXCEPT ![w] = future]
    /\ UNCHANGED <<future, served, registry, posted, running, closed, kind>>

(* ... and its time runs out, perhaps just when the future completes ...     *)
Expire(w) ==
    /\ kind[w] = "sync" /\ at[w] = "wait"
    /\ at' = [at EXCEPT ![w] = "expired"]
    /\ UNCHANGED <<future, served, registry, posted, relay, running, closed, kind>>

(* ... when it cancels the work, unless that is done by now.                 *)
Expired(w) ==
    /\ at[w] = "expired"
    /\ future' = IF Done THEN future ELSE "cancelled"
    /\ at' = [at EXCEPT ![w] = "done"] /\ relay' = [relay EXCEPT ![w] = "late"]
    /\ UNCHANGED <<served, registry, posted, running, closed, kind>>

(* A loop of the callers stops, runs again, or is closed. *)
StopLoop(l) ==
    /\ l \in running
    /\ running' = running \ {l}
    /\ UNCHANGED <<future, served, registry, posted, at, relay, closed, kind>>

RunLoop(l) ==
    /\ l \notin running \cup closed
    /\ running' = running \cup {l}
    /\ UNCHANGED <<future, served, registry, posted, at, relay, closed, kind>>

CloseLoop(l) ==
    /\ l \notin running \cup closed
    /\ closed' = closed \cup {l}
    /\ posted' = {w \in posted : LoopOf[w] # l}
    /\ UNCHANGED <<future, served, registry, at, relay, running, kind>>

WaiterStep(w) == Publish(w) \/ Resume(w) \/ Read(w) \/ Expired(w)

AwaitableNext ==
    \/ \E v \in Outcomes : Settle(v)
    \/ Serve
    \/ \E w \in Waiters :
          \/ Wait(w) \/ CancelWaiter(w) \/ AddCallback(w) \/ Expire(w)
          \/ WaiterStep(w)
    \/ \E l \in Loops : StopLoop(l) \/ RunLoop(l) \/ CloseLoop(l)

AwaitableSpec ==
    /\ AwaitableInit /\ [][AwaitableNext]_awaitableVars
    /\ WF_awaitableVars(Serve)
    /\ \A w \in Waiters : WF_awaitableVars(WaiterStep(w))

AwaitableTypeOK ==
    /\ future \in {"pending"} \cup Outcomes /\ served \in BOOLEAN
    /\ registry \subseteq Waiters /\ posted \subseteq Waiters
    /\ at \in [Waiters -> {"new", "wait", "expired", "refused", "dropped", "done"}]
    /\ relay \in [Waiters -> {"pending", "late"} \cup Outcomes]
    /\ running \subseteq Loops /\ closed \subseteq Loops \ running
    /\ kind \in Kinds

(* No wake-up is lost between the check of the future and the registration:  *)
(* once the callbacks of the future have run, a task that still waits has    *)
(* its publish callback on the way, unless its loop is closed.               *)
NoWaiterForgotten ==
    \A w \in Waiters :
        served /\ at[w] = "wait" /\ relay[w] = "pending" /\ kind[w] \in {"direct", "shielded"}
            => w \in posted \/ LoopOf[w] \in closed

(* Only the waiters of a pending wait are registered: a long-lived future    *)
(* does not collect the waiters that gave up.                                *)
RegistryWaits ==
    \A w \in registry : at[w] = "wait"

(* A relay is answered once: a completion that arrives after the task of the *)
(* waiter was cancelled, or the other way round, changes nothing.            *)
RelayKept ==
    \A w \in Waiters : relay[w] # "pending" => relay'[w] = relay[w]
RelaySetOnce == [][RelayKept]_awaitableVars

(* Waiters of a shared future are woken, once, and not collected:             *)
(* NoWaiterForgotten, RegistryWaits and RelaySetOnce, with the type           *)
(* invariant.                                                                 *)
WaitersServed == [](AwaitableTypeOK /\ NoWaiterForgotten /\ RegistryWaits) /\ RelaySetOnce

(* When the future is done every wait ends, and a public callback that was   *)
(* not dropped runs, as long as the loop keeps running.                      *)
WaitsOn(w) == at[w] = "wait" /\ Done /\ (kind[w] = "sync" \/ On(w))
AwaitAnswered == \A w \in Waiters : WaitsOn(w) ~> ~WaitsOn(w)
=============================================================================
