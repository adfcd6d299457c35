------------------------------ MODULE Operation ------------------------------
(***************************************************************************)
(* A long-running operation (src/nebius/aio/operation.py).  Callers on any *)
(* thread call update() or wait(); each call submits work to the SDK loop, *)
(* where updates of one operation are serialised by _update_lock, poll the *)
(* operation service and replace the stored message.  Callers give up at   *)
(* their deadline or are cancelled, and cancel the submitted work.         *)
(*                                                                         *)
(* The operation at the server is a version, increasing until it is final. *)
(* A poll reads a version at the server and stores it when the response    *)
(* arrives, which may be much later.                                       *)
(***************************************************************************)
EXTENDS Naturals, Sequences, SequencesExt

CONSTANTS
    Callers,    \* calls of update() or wait()
    Final,      \* the version at which the operation is done
    MaxFaults,  \* polling requests that fail
    Settings    \* per behaviour: the kind of each call and its time limits

SettingType == [kind: [Callers -> {"update", "wait"}],
                timed: SUBSET Callers,  \* calls with a finite timeout
                auth: BOOLEAN,          \* an authorization provider is configured
                fails: BOOLEAN,         \* the operation ends with a non-OK status
                silent: BOOLEAN]        \* the service may stop answering

VARIABLES
    set,      \* the chosen element of Settings
    server,   \* the version the service would return now
    stored,   \* the version in _operation
    lockq,    \* _update_lock: its holder, then its waiters in order
    call,     \* what the caller sees
    work,     \* the submitted coroutine
    reply,    \* the version read at the server for this poll, or Nothing
    late,     \* calls whose deadline has passed
    cancel,   \* calls whose submitted work was cancelled
    since,    \* the server's version when the call was made
    faults

vars == <<set, server, stored, lockq, call, work, reply, late, cancel, since, faults>>

Nothing == Final + 1
Ended == {"ok", "timeout", "error", "cancelled"}
Answers == {"returned", "failed", "timeout", "error", "left", "valueError"}

Init ==
    /\ set \in Settings
    /\ server = 0 /\ stored = 0 /\ lockq = <<>> /\ faults = 0
    /\ call = [c \in Callers |-> "idle"]
    /\ work = [c \in Callers |-> "none"]
    /\ reply = [c \in Callers |-> Nothing]
    /\ since = [c \in Callers |-> 0]
    /\ late = {} /\ cancel = {}

(* Operation.done(): the stored message has a status. *)
DoneAt(version) == version = Final

(* _raise_if_failed *)
Verdict == IF set.fails THEN "failed" ELSE "returned"

ServerProgress ==
    /\ server < Final
    /\ server' = server + 1
    /\ UNCHANGED <<set, stored, lockq, call, work, reply, late, cancel, since, faults>>

-----------------------------------------------------------------------------
(* The caller's side: _update_from_submission and _wait_from_submission *)

(* Without a limit there is nothing to take the minimum of, so that an           *)
(* authorized update() without limits raises after submitting its work.      *)
NoLimits(c) == set.kind[c] = "update" /\ set.auth /\ c \notin set.timed

CallOn(c) ==
    /\ call[c] = "idle"
    /\ since' = [since EXCEPT ![c] = server]
    /\ \/ /\ DoneAt(stored)
          /\ call' = [call EXCEPT ![c] = IF set.kind[c] = "wait" THEN Verdict ELSE "returned"]
          /\ UNCHANGED work
       \/ /\ ~DoneAt(stored)
          /\ call' = [call EXCEPT ![c] = IF NoLimits(c) THEN "valueError" ELSE "waiting"]
          /\ work' = [work EXCEPT ![c] = "queued"]
    /\ UNCHANGED <<set, server, stored, lockq, reply, late, cancel, faults>>

DeadlinePasses(c) ==
    /\ c \in set.timed \ late
    /\ call[c] = "waiting"
    /\ late' = late \cup {c}
    /\ UNCHANGED <<set, server, stored, lockq, call, work, reply, cancel, since, faults>>

GiveUp(c, answer) ==
    /\ call[c] = "waiting"
    /\ call' = [call EXCEPT ![c] = answer]
    /\ cancel' = IF work[c] \in Ended THEN cancel ELSE cancel \cup {c}

(* Mutant: the deadline covers the queue for the lock, not the poll. *)
TimesOutQueued(c) ==
    /\ c \in late /\ work[c] \in {"queued", "locking"}
    /\ GiveUp(c, "timeout")
    /\ UNCHANGED <<set, server, stored, lockq, work, reply, late, since, faults>>

(* wait_for expires, or the awaiting task is cancelled; a completed          *)
(* submission wins over the deadline.                                        *)
TimesOut(c) ==
    /\ c \in late /\ work[c] \notin Ended
    /\ GiveUp(c, "timeout")
    /\ UNCHANGED <<set, server, stored, lockq, work, reply, late, since, faults>>

CallerCancelled(c) ==
    /\ GiveUp(c, "left")
    /\ UNCHANGED <<set, server, stored, lockq, work, reply, late, since, faults>>

Returns(c) ==
    /\ call[c] = "waiting" /\ work[c] \in Ended
    /\ call' = [call EXCEPT ![c] =
          CASE work[c] = "timeout" -> "timeout"
            [] work[c] \in {"error", "cancelled"} -> "error"
            [] work[c] = "ok" -> IF set.kind[c] = "wait" THEN Verdict ELSE "returned"]
    /\ UNCHANGED <<set, server, stored, lockq, work, reply, late, cancel, since, faults>>

-----------------------------------------------------------------------------
(* On the SDK loop: _update_internal and _wait_internal *)

Holds(c) == lockq # <<>> /\ Head(lockq) = c

(* The work proceeds unless its cancellation is waiting to be delivered. *)
Runs(c, step) == work[c] = step /\ c \notin cancel

(* Mutant: updates are not serialised. *)
LockedNever(c) == TRUE

Locked(c) == Holds(c)

Enter(c) ==
    /\ Runs(c, "queued")
    /\ work' = [work EXCEPT ![c] = "locking"]
    /\ lockq' = Append(lockq, c)
    /\ UNCHANGED <<set, server, stored, call, reply, late, cancel, since, faults>>

(* The end of one update: wait() sleeps and polls again until done. *)
Leave(c, outcome) ==
    /\ lockq' = Remove(lockq, c)
    /\ work' = [work EXCEPT ![c] =
          IF outcome = "ok" /\ set.kind[c] = "wait" /\ ~DoneAt(stored') THEN "sleeping" ELSE outcome]

(* Mutant: an update that had to queue takes over what the other one stored. *)
UnderLockShared(c) ==
    /\ Runs(c, "locking") /\ Locked(c)
    /\ UNCHANGED stored
    /\ \/ /\ DoneAt(stored) \/ \E d \in Callers \ {c} : work[d] = "ok"
          /\ Leave(c, "ok")
       \/ /\ ~DoneAt(stored) /\ c \notin late
          /\ work' = [work EXCEPT ![c] = "calling"]
          /\ UNCHANGED lockq
    /\ UNCHANGED <<set, server, call, reply, late, cancel, since, faults>>

(* Under the lock: done already, too late, or a request is made. *)
UnderLock(c) ==
    /\ Runs(c, "locking") /\ Locked(c)
    /\ UNCHANGED stored
    /\ \/ DoneAt(stored) /\ Leave(c, "ok")
       \/ ~DoneAt(stored) /\ c \in late /\ Leave(c, "timeout")
       \/ /\ ~DoneAt(stored) /\ c \notin late
          /\ work' = [work EXCEPT ![c] = "calling"]
          /\ UNCHANGED lockq
    /\ UNCHANGED <<set, server, call, reply, late, cancel, since, faults>>

ServerReads(c) ==
    /\ work[c] = "calling" /\ reply[c] = Nothing
    /\ reply' = [reply EXCEPT ![c] = server]
    /\ UNCHANGED <<set, server, stored, lockq, call, work, late, cancel, since, faults>>

(* _set_new_operation *)
Stores(c) ==
    /\ Runs(c, "calling") /\ reply[c] # Nothing
    /\ stored' = reply[c]
    /\ reply' = [reply EXCEPT ![c] = Nothing]
    /\ Leave(c, "ok")
    /\ UNCHANGED <<set, server, call, late, cancel, since, faults>>

(* A local timeout or DEADLINE_EXCEEDED costs a wait() one iteration. *)
PollFails(c, outcome) ==
    /\ Runs(c, "calling") /\ faults < MaxFaults
    /\ faults' = faults + 1
    /\ reply' = [reply EXCEPT ![c] = Nothing]
    /\ UNCHANGED stored
    /\ IF outcome = "timeout" /\ set.kind[c] = "wait" /\ c \notin late
       THEN Leave(c, "ok") ELSE Leave(c, outcome)
    /\ UNCHANGED <<set, server, call, late, cancel, since>>

Wakes(c) ==
    /\ Runs(c, "sleeping")
    /\ \/ c \in late /\ work' = [work EXCEPT ![c] = "timeout"] /\ UNCHANGED lockq
       \/ /\ c \notin late
          /\ work' = [work EXCEPT ![c] = "locking"]
          /\ lockq' = Append(lockq, c)
    /\ UNCHANGED <<set, server, stored, call, reply, late, cancel, since, faults>>

(* CancelledError unwinds async with self._update_lock. *)
Abandon(c) == lockq' = Remove(lockq, c)

(* The deadline of wait() cancels a poll that queues for the lock or runs. *)
PollCutOff(c) ==
    /\ set.kind[c] = "wait" /\ c \in late
    /\ work[c] \in {"locking", "calling"} /\ c \notin cancel
    /\ work' = [work EXCEPT ![c] = "timeout"]
    /\ Abandon(c)
    /\ reply' = [reply EXCEPT ![c] = Nothing]
    /\ UNCHANGED <<set, server, stored, call, late, cancel, since, faults>>

WorkCancelled(c) ==
    /\ c \in cancel /\ work[c] \notin Ended
    /\ work' = [work EXCEPT ![c] = "cancelled"]
    /\ Abandon(c)
    /\ reply' = [reply EXCEPT ![c] = Nothing]
    /\ cancel' = cancel \ {c}
    /\ UNCHANGED <<set, server, stored, call, late, since, faults>>

-----------------------------------------------------------------------------
LoopStep(c) ==
    Enter(c) \/ UnderLock(c) \/ Stores(c) \/ Wakes(c) \/ WorkCancelled(c) \/ PollCutOff(c)

Next ==
    \/ ServerProgress
    \/ \E c \in Callers :
          \/ CallOn(c) \/ DeadlinePasses(c) \/ TimesOut(c) \/ CallerCancelled(c) \/ Returns(c)
          \/ LoopStep(c) \/ ServerReads(c)
          \/ \E o \in {"timeout", "error"} : PollFails(c, o)

Spec == Init /\ [][Next]_vars

(* The operation advances, clocks advance and woken callers resume.  Each of *)
(* these steps happens finitely often, so one fairness condition serves them *)
(* all.                                                                      *)
Advances ==
    \/ ServerProgress
    \/ \E c \in Callers : DeadlinePasses(c) \/ TimesOut(c) \/ Returns(c)

(* The loop runs ready work; the service answers unless it fell silent.      *)
Fairness ==
    /\ WF_vars(Advances)
    /\ \A c \in Callers : WF_vars(LoopStep(c)) /\ WF_vars(~set.silent /\ ServerReads(c))

FairSpec == Spec /\ Fairness

-----------------------------------------------------------------------------
(* The variables have the values the code gives them. *)
TypeOK ==
    /\ set \in SettingType
    /\ {server, stored} \subseteq 0..Final /\ faults \in 0..MaxFaults
    /\ lockq \in Seq(Callers)
    /\ call \in [Callers -> {"idle", "waiting"} \cup Answers]
    /\ work \in [Callers -> {"none", "queued", "locking", "calling", "sleeping"} \cup Ended]
    /\ reply \in [Callers -> 0..Nothing] /\ since \in [Callers -> 0..Final]
    /\ late \subseteq Callers /\ cancel \subseteq Callers

(* A late response never replaces a newer one: the stored operation does not *)
(* go back, in particular not from a terminal state (_update_internal).      *)
NotOlder == stored' >= stored
NeverRegresses == [][NotOlder]_vars

(* When update() or wait() returns normally, the stored operation is at      *)
(* least as recent as the operation was when the call was made.              *)
ReturnsRecent ==
    \A c \in Callers : call[c] \in {"returned", "failed"} => stored >= since[c]

(* wait() returns or raises OperationError only for a finished operation.    *)
WaitMeansDone ==
    \A c \in Callers :
        (set.kind[c] = "wait" /\ call[c] \in {"returned", "failed"}) => DoneAt(stored)

(* Work that ended, was cancelled or sleeps between polls neither holds      *)
(* _update_lock nor queues for it, and nobody queues twice.                  *)
LockNotLeaked ==
    /\ \A c \in Callers : work[c] \notin {"locking", "calling"} => ~Contains(lockq, c)
    /\ IsInjective(lockq)

(* A call with a finite timeout is answered, even when the service is silent *)
(* and another call holds _update_lock.                                      *)
Waiting == \E c \in Callers : c \in set.timed /\ call[c] = "waiting"
TimedAnswered == Waiting ~> ~Waiting

(* Once the operation is over at a service that answers, every wait() ends.  *)
WaitEnds == (server = Final /\ ~set.silent) ~> (\A c \in Callers : call[c] # "waiting")
=============================================================================
