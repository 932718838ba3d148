----------------------------- MODULE TaskQueue -----------------------------
(***************************************************************************)
(* What the selection workers promise to the tasks, with no database in    *)
(* sight: a waiting task is taken by one process, and by no other one      *)
(* until that process gives it back to the queue or lets go of it.  A task *)
(* that was handed out past the queue, or put back while a process had it, *)
(* is outside the queue from then on.                                      *)
(***************************************************************************)
CONSTANTS Tasks, Processes, Nobody

VARIABLES waiting,  \* tasks anybody may take
          owner,    \* the process that has taken a task
          outside   \* tasks of which nothing is promised any more
vars == <<waiting, owner, outside>>

Init ==
    /\ waiting = {}
    /\ owner = [t \in Tasks |-> Nobody]
    /\ outside = {}

(* A new task, or one nobody owns, starts to wait. *)
Enqueue(t) ==
    /\ owner[t] = Nobody /\ t \notin outside
    /\ waiting' = waiting \cup {t}
    /\ UNCHANGED <<owner, outside>>

(* A process takes a batch of waiting tasks in one step. *)
Take(p, S) ==
    /\ S # {} /\ S \subseteq waiting
    /\ waiting' = waiting \ S
    /\ owner' = [t \in Tasks |-> IF t \in S THEN p ELSE owner[t]]
    /\ UNCHANGED outside

(* An execution failed and its task waits for another attempt. *)
GiveBack(p, t) ==
    /\ owner[t] = p
    /\ waiting' = waiting \cup {t}
    /\ owner' = [owner EXCEPT ![t] = Nobody]
    /\ UNCHANGED outside

(* A process is done with some of its tasks: finished, skipped, or lost.   *)
LetGo(p, S) ==
    /\ S # {} /\ \A t \in S : owner[t] = p
    /\ owner' = [t \in Tasks |-> IF t \in S THEN Nobody ELSE owner[t]]
    /\ UNCHANGED <<waiting, outside>>

(* An operator takes a waiting task off the queue. *)
Withdraw(t) ==
    /\ t \in waiting
    /\ waiting' = waiting \ {t}
    /\ UNCHANGED <<owner, outside>>

(* A task is dispatched without a claim, or requeued while it is owned.    *)
Bypass(t) ==
    /\ outside' = outside \cup {t}
    /\ waiting' = waiting \ {t}
    /\ owner' = [owner EXCEPT ![t] = Nobody]

Next ==
    \/ \E t \in Tasks : Enqueue(t) \/ Withdraw(t) \/ Bypass(t)
    \/ \E p \in Processes, S \in SUBSET Tasks : Take(p, S) \/ LetGo(p, S)
    \/ \E p \in Processes, t \in Tasks : GiveBack(p, t)

Spec == Init /\ [][Next]_vars

-----------------------------------------------------------------------------

TypeOK ==
    /\ waiting \subseteq Tasks
    /\ owner \in [Tasks -> Processes \cup {Nobody}]
    /\ outside \subseteq Tasks

(* No process takes a task away from another: between two owners a task    *)
(* has been nobody's (what FOR UPDATE SKIP LOCKED and the claim's commit   *)
(* are for).                                                               *)
NoTakeover ==
    [][\A t \in Tasks : owner[t] # Nobody => owner'[t] \in {owner[t], Nobody}]_vars

(* What NoTakeover rests on: a task that waits has no owner. *)
WaitingHasNoOwner == \A t \in waiting : owner[t] = Nobody
=============================================================================
