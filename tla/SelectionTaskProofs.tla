------------------------ MODULE SelectionTaskProofs ------------------------
(***************************************************************************)
(* The safety properties of SelectionTask for every set of tasks, tenants, *)
(* workers, runners and requests, and every value of the settings.         *)
(***************************************************************************)
EXTENDS SelectionTask, FiniteSetTheorems, TLAPS

(* What a poll may still claim fits in what is left of its batch. *)
ClaimFits == \A p \in Processes : pc[p] = "claim" => allowance[p] <= room[p]

(* Only an open claim locks a row, and it locks rows that are pending. *)
LockedIsPending ==
    \A t \in Tasks : lock[t] # Free =>
        /\ status[t] = "pending"
        /\ pc[lock[t]] \in {"scan", "claim"}

(* The place of a process in its loop says what it has in hand. *)
PhaseInv ==
    \A p \in Processes :
        /\ queue[p] # {} => pc[p] \in {"run", "loaded", "execute"}
        /\ cur[p] # NoTask <=> pc[p] \in {"loaded", "execute"}
        /\ cur[p] \notin queue[p]

(* What the session of an execution believes of its row. *)
SnapInv ==
    \A p \in Processes :
        /\ pc[p] = "execute" => snap[p] = "running"
        /\ pc[p] = "loaded" => snap[p] \notin {"cancelled", "paused"}

(* A row that waits to be claimed is in nobody's hands. *)
WaitingIsFree ==
    \A t \in Tasks \ forced : status[t] \in {"absent", "pending"} => ~Held(t)

(* p has t and has not found it finished, so p will write its row. *)
Keeps(p, t) == t \in queue[p] \/ (cur[p] = t /\ snap[p] \in {"pending", "running"})

RunningIsKept ==
    \A t \in Tasks : status[t] = "running" =>
        t \in stranded \/ Waits(t) \/ \E p \in Processes : Keeps(p, t)

(* Who has what in hand: the part of the inductive invariant that is not   *)
(* about types.                                                            *)
Hands ==
    /\ LockedIsPending
    /\ PhaseInv
    /\ SnapInv
    /\ WaitingIsFree
    /\ ExclusiveExecution
    /\ RunningIsKept

IInv == TypeOK /\ Hands

-----------------------------------------------------------------------------
(* The rows counted or claimed are finitely many. *)
LEMMA TaskSetsCounted ==
    ASSUME NEW S \in SUBSET Tasks
    PROVE  Cardinality(S) \in Nat
  BY FS_Subset, FS_CardinalityType, ProcessesAssumption

LEMMA LesserOfNats ==
    ASSUME NEW m \in Nat, NEW n \in Nat
    PROVE  Lesser(m, n) \in Nat /\ Lesser(m, n) <= m /\ Lesser(m, n) <= n
  BY DEF Lesser

(* Every variable keeps its type: TypeOK with ClaimFits, which bounds what *)
(* Claim takes from room, is inductive.                                    *)
LEMMA TypeInit == Init => TypeOK /\ ClaimFits
  <1> SUFFICES ASSUME Init PROVE TypeOK /\ ClaimFits
    OBVIOUS
  <1>1. (CHOOSE tn \in Tenants : TRUE) \in Tenants
    BY ProcessesAssumption
  <1> QED
    BY <1>1 DEF Init, TypeOK, ClaimFits, NoRequest, Status, Processes

LEMMA WorkerTypes ==
    ASSUME TypeOK, ClaimFits, NEW w \in Workers, WorkerStep(w)
    PROVE  TypeOK' /\ ClaimFits'
  <1> USE ProcessesAssumption, SettingsAssumption
  <1>0. w \in Processes
    BY DEF Processes
  <1>1. CASE Poll(w)
    BY <1>0, <1>1 DEF Poll, TypeOK, ClaimFits, procVars, bounds, deliveries
  <1>2. ASSUME NEW tn \in Tenants, CountRunning(w, tn)
        PROVE  TypeOK' /\ ClaimFits'
    <2>1. RunningCount(tn) \in Nat
      BY TaskSetsCounted DEF RunningCount
    <2>2. CASE RunningCount(tn) >= TenantMaxParallelism
      BY <1>0, <1>2, <2>1, <2>2 DEF CountRunning, TypeOK, ClaimFits, bounds, deliveries
    <2>3. CASE ~(RunningCount(tn) >= TenantMaxParallelism)
      <3> DEFINE a == Lesser(TenantMaxParallelism - RunningCount(tn),
                             Lesser(TypeMaxParallelism, room[w]))
      <3>1. TenantMaxParallelism - RunningCount(tn) \in Nat
        BY <2>1, <2>3
      <3>2. room[w] \in Nat
        BY <1>0 DEF TypeOK
      <3>3. a \in Nat /\ a <= room[w]
        BY <3>1, <3>2 DEF Lesser
      <3>4. /\ pc' = [pc EXCEPT ![w] = "claim"]
            /\ tenant' = [tenant EXCEPT ![w] = tn]
            /\ allowance' = [allowance EXCEPT ![w] = a]
            /\ scan' = [scan EXCEPT ![w] = @ \ {tn}]
            /\ UNCHANGED <<status, lock, room, queue, cur, snap, req, deliveries, bounds, forced, stranded>>
        BY <1>2, <2>3 DEF CountRunning, Allowance
      <3> HIDE DEF a
      <3> QED
        BY <1>0, <3>3, <3>4 DEF TypeOK, ClaimFits, bounds, deliveries
    <2> QED
      BY <2>2, <2>3
  <1>3. CASE Claim(w)
    <2> DEFINE open == {t \in Pending(tenant[w]) : lock[t] = Free}
    <2>1. PICK S \in SUBSET open :
             /\ Cardinality(S) = Lesser(allowance[w], Cardinality(open))
             /\ lock' = [t \in Tasks |-> IF t \in S THEN w ELSE lock[t]]
             /\ room' = [room EXCEPT ![w] = @ - Cardinality(S)]
      BY <1>3 DEF Claim
    <2>2. Cardinality(open) \in Nat /\ allowance[w] \in Nat /\ room[w] \in Nat
      <3>1. open \in SUBSET Tasks
        BY DEF Pending
      <3>2. Cardinality(open) \in Nat
        BY <3>1, TaskSetsCounted
      <3> QED
        BY <1>0, <3>2 DEF TypeOK
    <2>3. Cardinality(S) \in Nat /\ Cardinality(S) <= allowance[w]
      <3>1. Cardinality(S) = Lesser(allowance[w], Cardinality(open))
        BY <2>1
      <3> HIDE DEF open
      <3> QED
        BY <3>1, <2>2, LesserOfNats
    <2>4. room[w] - Cardinality(S) \in Nat
      BY <1>0, <1>3, <2>2, <2>3 DEF Claim, ClaimFits
    <2> HIDE DEF open
    <2>5. room' \in [Processes -> Nat]
      BY <1>0, <2>1, <2>4 DEF TypeOK
    <2>6. lock' \in [Tasks -> Workers \cup {Free}]
      BY <2>1 DEF TypeOK
    <2>7. TypeOK'
      BY <1>0, <1>3, <2>5, <2>6 DEF Claim, TypeOK, bounds, deliveries
    <2>8. ClaimFits'
      BY <1>0, <1>3, <2>1 DEF Claim, ClaimFits, TypeOK
    <2> QED
      BY <2>7, <2>8
  <1>4. CASE CommitClaims(w)
    BY <1>0, <1>4 DEF CommitClaims, Claimed, TypeOK, ClaimFits, bounds, deliveries, Status
  <1> QED
    BY <1>1, <1>2, <1>3, <1>4 DEF WorkerStep

(* A write of a status keeps the column's type. *)
LEMMA WriteType ==
    ASSUME NEW t, NEW seen, NEW new \in Status, status \in [Tasks -> Status], Write(t, seen, new)
    PROVE  status' \in [Tasks -> Status]
  BY DEF Write

LEMMA RecoverType ==
    ASSUME NEW p, status \in [Tasks -> Status], Recover(p)
    PROVE  status' \in [Tasks -> Status]
  BY WriteType DEF Recover, Status

LEMMA ExecutionTypes ==
    ASSUME TypeOK, ClaimFits, NEW p \in Processes, ExecutionStep(p)
    PROVE  TypeOK' /\ ClaimFits'
  <1> USE ProcessesAssumption, SettingsAssumption
  <1>1. ASSUME NEW t \in Tasks, Load(p, t)
        PROVE  TypeOK' /\ ClaimFits'
    BY <1>1 DEF Load, Skipped, TypeOK, ClaimFits, bounds, deliveries
  <1>2. CASE Start(p)
    <2>1. status' \in [Tasks -> Status]
      BY <1>2, WriteType DEF Start, TypeOK, Status
    <2> QED
      BY <1>2, <2>1 DEF Start, TypeOK, ClaimFits, bounds, deliveries, Status
  <1>3. CASE Complete(p)
    <2>1. status' \in [Tasks -> Status]
      BY <1>3, WriteType DEF Complete, TypeOK, Status
    <2> QED
      BY <1>3, <2>1 DEF Complete, AfterTask, TypeOK, ClaimFits, bounds, deliveries, Status
  <1>4. CASE Fail(p)
    <2>1. status' \in [Tasks -> Status]
      BY <1>4, RecoverType DEF Fail, TypeOK
    <2> QED
      BY <1>4, <2>1 DEF Fail, AfterTask, TypeOK, ClaimFits, Status
  <1>5. CASE FailToStart(p)
    <2>1. status' \in [Tasks -> Status]
      BY <1>5, RecoverType DEF FailToStart, TypeOK
    <2> QED
      BY <1>5, <2>1 DEF FailToStart, AfterTask, TypeOK, ClaimFits, bounds, deliveries, Status
  <1>6. CASE Die(p)
    BY <1>6 DEF Die, Retried, TypeOK, ClaimFits, bounds, deliveries, Status
  <1> QED
    BY <1>1, <1>2, <1>3, <1>4, <1>5, <1>6 DEF ExecutionStep

LEMMA RequestTypes ==
    ASSUME TypeOK, ClaimFits, RequestStep
    PROVE  TypeOK' /\ ClaimFits'
  <1> USE ProcessesAssumption, SettingsAssumption
  <1> DEFINE Open == [op : Operations, task : Tasks, seen : Status]
  <1>1. ASSUME NEW r \in Requests, NEW op \in Operations, NEW t \in Tasks, OpenRequest(r, op, t)
        PROVE  TypeOK' /\ ClaimFits'
    <2>1. [op |-> op, task |-> t, seen |-> status[t]] \in Open
      BY DEF TypeOK
    <2> HIDE DEF Open
    <2>2. req' \in [Requests -> {NoRequest} \cup Open]
      BY <1>1, <2>1 DEF OpenRequest, TypeOK, Open
    <2> QED
      BY <1>1, <2>2 DEF OpenRequest, TypeOK, ClaimFits, procVars, deliveries, Open
  <1>2. ASSUME NEW r \in Requests, CommitRequest(r)
        PROVE  TypeOK' /\ ClaimFits'
    <2>1. req[r] \in Open
      BY <1>2 DEF TypeOK, CommitRequest
    <2>2. Target(req[r].op) \in Status
      BY <2>1 DEF Target, Status
    <2>3. status' \in [Tasks -> Status]
      BY <1>2, <2>2, WriteType DEF CommitRequest, TypeOK
    <2>4. forced' \in SUBSET Tasks /\ stranded' \in SUBSET Tasks
      BY <1>2, <2>1 DEF CommitRequest, TypeOK
    <2>5. req' \in [Requests -> {NoRequest} \cup Open]
      BY <1>2 DEF CommitRequest, TypeOK
    <2> QED
      BY <1>2, <2>3, <2>4, <2>5 DEF CommitRequest, TypeOK, ClaimFits, procVars, bounds, deliveries
  <1> QED
    BY <1>1, <1>2 DEF RequestStep

LEMMA TypeStep ==
    ASSUME TypeOK, ClaimFits, [Next]_vars
    PROVE  TypeOK' /\ ClaimFits'
  <1> USE ProcessesAssumption, SettingsAssumption
  <1>1. ASSUME NEW t \in Tasks, CreateTask(t)
        PROVE  TypeOK' /\ ClaimFits'
    BY <1>1 DEF CreateTask, TypeOK, ClaimFits, procVars, bounds, deliveries, Status
  <1>2. ASSUME NEW p \in Runners, NEW t \in Tasks, Deliver(p, t)
        PROVE  TypeOK' /\ ClaimFits'
    BY <1>2 DEF Deliver, TypeOK, ClaimFits, bounds, deliveries, Processes
  <1>3. ASSUME NEW p \in Processes, Crash(p)
        PROVE  TypeOK' /\ ClaimFits'
    BY <1>3 DEF Crash, Redelivered, TypeOK, ClaimFits, Status
  <1>5. ASSUME NEW t \in Tasks, Submit(t)
        PROVE  TypeOK' /\ ClaimFits'
    BY <1>5 DEF Submit, Delivery, TypeOK, ClaimFits, procVars
  <1>6. ASSUME NEW p \in Runners, NEW d \in submitted, DeliverLate(p, d)
        PROVE  TypeOK' /\ ClaimFits'
    BY <1>6 DEF DeliverLate, Delivery, TypeOK, ClaimFits, bounds, Processes
  <1>4. CASE UNCHANGED vars
    BY <1>4 DEF vars, procVars, bounds, deliveries, TypeOK, ClaimFits
  <1> QED
    BY <1>1, <1>2, <1>3, <1>4, <1>5, <1>6, WorkerTypes, ExecutionTypes, RequestTypes DEF Next

(* Every variable of the selection-task model keeps its type. *)
THEOREM TypeCorrect == Spec => []TypeOK
  <1>1. Spec => [](TypeOK /\ ClaimFits)
    BY TypeInit, TypeStep, PTL DEF Spec
  <1> QED
    BY <1>1, PTL

-----------------------------------------------------------------------------

(* A new row is in nobody's hands. *)
LEMMA CreateHands ==
    ASSUME IInv, TypeOK', NEW t \in Tasks, CreateTask(t)
    PROVE  Hands'
  <1> USE ProcessesAssumption DEF IInv, Hands, TypeOK, Processes
  <1>1. LockedIsPending'
    BY DEF CreateTask, procVars, LockedIsPending, PhaseInv
  <1>2. PhaseInv'
    BY DEF CreateTask, procVars, PhaseInv
  <1>3. SnapInv'
    BY DEF CreateTask, procVars, SnapInv, PhaseInv
  <1>4. WaitingIsFree'
    BY DEF CreateTask, procVars, WaitingIsFree, Held, Holds, PhaseInv
  <1>5. ExclusiveExecution'
    BY DEF CreateTask, procVars, ExclusiveExecution, Holds, PhaseInv
  <1>6. RunningIsKept'
    BY DEF CreateTask, procVars, RunningIsKept, Keeps, Waits, PhaseInv
  <1> QED
    BY <1>1, <1>2, <1>3, <1>4, <1>5, <1>6

(* A delivered task is forced; its runner had nothing else. *)
LEMMA DeliverHands ==
    ASSUME IInv, TypeOK', NEW p \in Runners, NEW t \in Tasks, Deliver(p, t)
    PROVE  Hands'
  <1> USE ProcessesAssumption DEF IInv, Hands, TypeOK, Processes
  <1>1. LockedIsPending'
    BY DEF Deliver, LockedIsPending, PhaseInv
  <1>2. PhaseInv'
    BY DEF Deliver, PhaseInv
  <1>3. SnapInv'
    BY DEF Deliver, SnapInv, PhaseInv
  <1>4. WaitingIsFree'
    BY DEF Deliver, WaitingIsFree, Held, Holds, PhaseInv
  <1>5. ExclusiveExecution'
    BY DEF Deliver, ExclusiveExecution, Holds, PhaseInv
  <1>6. RunningIsKept'
    BY DEF Deliver, RunningIsKept, Keeps, Waits, PhaseInv
  <1> QED
    BY <1>1, <1>2, <1>3, <1>4, <1>5, <1>6

(* A submission changes nobody's hands. *)
LEMMA SubmitHands ==
    ASSUME IInv, TypeOK', NEW t \in Tasks, Submit(t)
    PROVE  Hands'
  <1> USE ProcessesAssumption DEF IInv, Hands, TypeOK, Processes
  <1>1. LockedIsPending'
    BY DEF Submit, procVars, LockedIsPending, PhaseInv
  <1>2. PhaseInv'
    BY DEF Submit, procVars, PhaseInv
  <1>3. SnapInv'
    BY DEF Submit, procVars, SnapInv, PhaseInv
  <1>4. WaitingIsFree'
    BY DEF Submit, procVars, WaitingIsFree, Held, Holds, PhaseInv
  <1>5. ExclusiveExecution'
    BY DEF Submit, procVars, ExclusiveExecution, Holds, PhaseInv
  <1>6. RunningIsKept'
    BY DEF Submit, procVars, RunningIsKept, Keeps, Waits
  <1> QED
    BY <1>1, <1>2, <1>3, <1>4, <1>5, <1>6

(* A submitted task passes from the broker to its runner. *)
LEMMA DeliverLateHands ==
    ASSUME IInv, TypeOK', NEW p \in Runners, NEW d \in submitted, DeliverLate(p, d)
    PROVE  Hands'
  <1> USE ProcessesAssumption DEF IInv, Hands, TypeOK, Processes, Delivery
  <1>1. LockedIsPending'
    BY DEF DeliverLate, LockedIsPending, PhaseInv
  <1>2. PhaseInv'
    BY DEF DeliverLate, PhaseInv
  <1>3. SnapInv'
    BY DEF DeliverLate, SnapInv, PhaseInv
  <1>4. WaitingIsFree'
    BY DEF DeliverLate, WaitingIsFree, Held, Holds, PhaseInv
  <1>5. ExclusiveExecution'
    BY DEF DeliverLate, ExclusiveExecution, Holds, PhaseInv
  <1>6. RunningIsKept'
    BY DEF DeliverLate, RunningIsKept, Keeps, Waits, PhaseInv
  <1> QED
    BY <1>1, <1>2, <1>3, <1>4, <1>5, <1>6

(* A poll that begins changes nobody's hands. *)
LEMMA PollHands ==
    ASSUME IInv, TypeOK', NEW w \in Workers, Poll(w)
    PROVE  Hands'
  <1> USE ProcessesAssumption DEF IInv, Hands, TypeOK, Processes
  <1>1. LockedIsPending'
    BY DEF Poll, LockedIsPending, PhaseInv
  <1>2. PhaseInv'
    BY DEF Poll, PhaseInv
  <1>3. SnapInv'
    BY DEF Poll, SnapInv, PhaseInv
  <1>4. WaitingIsFree'
    BY DEF Poll, WaitingIsFree, Held, Holds, PhaseInv
  <1>5. ExclusiveExecution'
    BY DEF Poll, ExclusiveExecution, Holds, PhaseInv
  <1>6. RunningIsKept'
    BY DEF Poll, RunningIsKept, Keeps, Waits, deliveries, PhaseInv
  <1> QED
    BY <1>1, <1>2, <1>3, <1>4, <1>5, <1>6

(* Nor does counting. *)
LEMMA CountHands ==
    ASSUME IInv, TypeOK', NEW w \in Workers, NEW tn \in Tenants, CountRunning(w, tn)
    PROVE  Hands'
  <1> USE ProcessesAssumption DEF IInv, Hands, TypeOK, Processes
  <1>1. LockedIsPending'
    BY DEF CountRunning, LockedIsPending, PhaseInv
  <1>2. PhaseInv'
    BY DEF CountRunning, PhaseInv
  <1>3. SnapInv'
    BY DEF CountRunning, SnapInv, PhaseInv
  <1>4. WaitingIsFree'
    BY DEF CountRunning, WaitingIsFree, Held, Holds, PhaseInv
  <1>5. ExclusiveExecution'
    BY DEF CountRunning, ExclusiveExecution, Holds, PhaseInv
  <1>6. RunningIsKept'
    BY DEF CountRunning, RunningIsKept, Keeps, Waits, deliveries, PhaseInv
  <1> QED
    BY <1>1, <1>2, <1>3, <1>4, <1>5, <1>6

(* A claim locks rows that are pending and free. *)
LEMMA ClaimHands ==
    ASSUME IInv, TypeOK', NEW w \in Workers, Claim(w)
    PROVE  Hands'
  <1> USE ProcessesAssumption DEF IInv, Hands, TypeOK, Processes
  <1>1. LockedIsPending'
    BY DEF Claim, Pending, LockedIsPending, PhaseInv
  <1>2. PhaseInv'
    BY DEF Claim, Pending, PhaseInv
  <1>3. SnapInv'
    BY DEF Claim, Pending, SnapInv, PhaseInv
  <1>4. WaitingIsFree'
    BY DEF Claim, Pending, WaitingIsFree, Held, Holds, PhaseInv
  <1>5. ExclusiveExecution'
    BY DEF Claim, Pending, ExclusiveExecution, Holds, PhaseInv
  <1>6. RunningIsKept'
    BY DEF Claim, Pending, RunningIsKept, Keeps, Waits, deliveries, PhaseInv
  <1> QED
    BY <1>1, <1>2, <1>3, <1>4, <1>5, <1>6

(* The claimed rows, pending until now, pass to the worker. *)
LEMMA CommitClaimsHands ==
    ASSUME IInv, TypeOK', NEW w \in Workers, CommitClaims(w)
    PROVE  Hands'
  <1> USE ProcessesAssumption DEF IInv, Hands, TypeOK, Processes
  <1>1. LockedIsPending'
    BY DEF CommitClaims, Claimed, LockedIsPending, PhaseInv
  <1>2. PhaseInv'
    BY DEF CommitClaims, Claimed, PhaseInv
  <1>3. SnapInv'
    BY DEF CommitClaims, Claimed, SnapInv, PhaseInv
  <1>4. WaitingIsFree'
    BY DEF CommitClaims, Claimed, WaitingIsFree, Held, Holds, PhaseInv
  <1>5. ExclusiveExecution'
    BY DEF CommitClaims, Claimed, LockedIsPending, WaitingIsFree, ExclusiveExecution, Held, Holds, PhaseInv
  <1>6. RunningIsKept'
    BY DEF CommitClaims, Claimed, RunningIsKept, Keeps, Waits, deliveries, PhaseInv
  <1> QED
    BY <1>1, <1>2, <1>3, <1>4, <1>5, <1>6

(* A loaded task stays with its process, a skipped one is not RUNNING. *)
LEMMA LoadHands ==
    ASSUME IInv, TypeOK', NEW p \in Processes, NEW t \in Tasks, Load(p, t)
    PROVE  Hands'
  <1> USE ProcessesAssumption DEF IInv, Hands, TypeOK, Processes
  <1>1. LockedIsPending'
    BY DEF Load, Skipped, LockedIsPending, PhaseInv
  <1>2. PhaseInv'
    BY DEF Load, Skipped, PhaseInv
  <1>3. SnapInv'
    BY DEF Load, Skipped, SnapInv, PhaseInv
  <1>4. WaitingIsFree'
    BY DEF Load, Skipped, WaitingIsFree, Held, Holds, PhaseInv
  <1>5. ExclusiveExecution'
    BY DEF Load, Skipped, ExclusiveExecution, Holds, PhaseInv
  <1>6. RunningIsKept'
    BY DEF Load, Skipped, RunningIsKept, Keeps, Waits, PhaseInv
  <1> QED
    BY <1>1, <1>2, <1>3, <1>4, <1>5, <1>6

(* Start writes RUNNING for a task the process has. *)
LEMMA StartHands ==
    ASSUME IInv, TypeOK', NEW p \in Processes, Start(p)
    PROVE  Hands'
  <1> USE ProcessesAssumption DEF IInv, Hands, TypeOK, Processes
  <1>1. LockedIsPending'
    BY DEF Start, Write, Allowed, LockedIsPending, PhaseInv
  <1>2. PhaseInv'
    BY DEF Start, Write, Allowed, PhaseInv
  <1>3. SnapInv'
    BY DEF Start, Write, Allowed, SnapInv, PhaseInv
  <1>4. WaitingIsFree'
    BY DEF Start, Write, Allowed, WaitingIsFree, Held, Holds, PhaseInv
  <1>5. ExclusiveExecution'
    BY DEF Start, Write, Allowed, ExclusiveExecution, Holds, PhaseInv
  <1>6. RunningIsKept'
    BY DEF Start, Write, Allowed, RunningIsKept, Keeps, Waits, deliveries, PhaseInv
  <1> QED
    BY <1>1, <1>2, <1>3, <1>4, <1>5, <1>6

(* A completed task leaves its only process. *)
LEMMA CompleteHands ==
    ASSUME IInv, TypeOK', NEW p \in Processes, Complete(p)
    PROVE  Hands'
  <1> USE ProcessesAssumption DEF IInv, Hands, TypeOK, Processes
  <1>1. LockedIsPending'
    BY DEF Complete, Write, AfterTask, LockedIsPending, PhaseInv
  <1>2. PhaseInv'
    BY DEF Complete, Write, AfterTask, PhaseInv
  <1>3. SnapInv'
    BY DEF Complete, Write, AfterTask, SnapInv, PhaseInv
  <1>4. WaitingIsFree'
    BY DEF Complete, Write, AfterTask, WaitingIsFree, Held, Holds, PhaseInv
  <1>5. ExclusiveExecution'
    BY DEF Complete, Write, AfterTask, ExclusiveExecution, Holds, PhaseInv
  <1>6. RunningIsKept'
    BY DEF Complete, Write, AfterTask, RunningIsKept, Keeps, Waits, PhaseInv
  <1> QED
    BY <1>1, <1>2, <1>3, <1>4, <1>5, <1>6

(* A failed task goes back to the queue with nobody holding it, or is FAILED. *)
LEMMA FailHands ==
    ASSUME IInv, TypeOK', NEW p \in Processes, Fail(p)
    PROVE  Hands'
  <1> USE ProcessesAssumption DEF IInv, Hands, TypeOK, Processes
  <1>1. LockedIsPending'
    BY DEF Fail, Recover, Write, Allowed, AfterTask, LockedIsPending, PhaseInv
  <1>2. PhaseInv'
    BY DEF Fail, Recover, Write, Allowed, AfterTask, PhaseInv
  <1>3. SnapInv'
    BY DEF Fail, Recover, Write, Allowed, AfterTask, SnapInv, PhaseInv
  <1>4. WaitingIsFree'
    BY DEF Fail, Recover, Write, Allowed, AfterTask, WaitingIsFree, ExclusiveExecution, Held, Holds, PhaseInv
  <1>5. ExclusiveExecution'
    BY DEF Fail, Recover, Write, Allowed, AfterTask, ExclusiveExecution, Holds, PhaseInv
  <1>6. RunningIsKept'
    BY DEF Fail, Recover, Write, Allowed, AfterTask, RunningIsKept, Keeps, Waits, SnapInv, PhaseInv
  <1> QED
    BY <1>1, <1>2, <1>3, <1>4, <1>5, <1>6

(* The same branch, reached by a task found finished. *)
LEMMA FailToStartHands ==
    ASSUME IInv, TypeOK', NEW p \in Processes, FailToStart(p)
    PROVE  Hands'
  <1> USE ProcessesAssumption DEF IInv, Hands, TypeOK, Processes
  <1>1. LockedIsPending'
    BY DEF FailToStart, Recover, Write, Allowed, AfterTask, LockedIsPending, PhaseInv
  <1>2. PhaseInv'
    BY DEF FailToStart, Recover, Write, Allowed, AfterTask, PhaseInv
  <1>3. SnapInv'
    BY DEF FailToStart, Recover, Write, Allowed, AfterTask, SnapInv, PhaseInv
  <1>4. WaitingIsFree'
    BY DEF FailToStart, Recover, Write, Allowed, AfterTask, WaitingIsFree, ExclusiveExecution, Held, Holds, PhaseInv
  <1>5. ExclusiveExecution'
    BY DEF FailToStart, Recover, Write, Allowed, AfterTask, ExclusiveExecution, Holds, PhaseInv
  <1>6. RunningIsKept'
    BY DEF FailToStart, Recover, Write, Allowed, AfterTask, RunningIsKept, Keeps, Waits, SnapInv, PhaseInv
  <1> QED
    BY <1>1, <1>2, <1>3, <1>4, <1>5, <1>6

(* What a dying process held is stranded. *)
LEMMA DieHands ==
    ASSUME IInv, TypeOK', NEW p \in Processes, Die(p)
    PROVE  Hands'
  <1> USE ProcessesAssumption DEF IInv, Hands, TypeOK, Processes
  <1>1. LockedIsPending'
    BY DEF Die, LockedIsPending, PhaseInv
  <1>2. PhaseInv'
    BY DEF Die, PhaseInv
  <1>3. SnapInv'
    BY DEF Die, SnapInv, PhaseInv
  <1>4. WaitingIsFree'
    BY DEF Die, WaitingIsFree, ExclusiveExecution, Held, Holds, PhaseInv
  <1>5. ExclusiveExecution'
    BY DEF Die, ExclusiveExecution, Holds, PhaseInv
  <1>6. RunningIsKept'
    BY DEF Die, Holds, NoDelivery, RunningIsKept, Keeps, Waits, SnapInv, PhaseInv
  <1> QED
    BY <1>1, <1>2, <1>3, <1>4, <1>5, <1>6

(* What a killed process held is stranded, what it had locked is free. *)
LEMMA CrashHands ==
    ASSUME IInv, TypeOK', NEW p \in Processes, Crash(p)
    PROVE  Hands'
  <1> USE ProcessesAssumption DEF IInv, Hands, TypeOK, Processes
  <1>1. LockedIsPending'
    BY DEF Crash, LockedIsPending, PhaseInv
  <1>2. PhaseInv'
    BY DEF Crash, PhaseInv
  <1>3. SnapInv'
    BY DEF Crash, SnapInv, PhaseInv
  <1>4. WaitingIsFree'
    BY DEF Crash, WaitingIsFree, ExclusiveExecution, Held, Holds, PhaseInv
  <1>5. ExclusiveExecution'
    BY DEF Crash, ExclusiveExecution, Holds, PhaseInv
  <1>6. RunningIsKept'
    BY DEF Crash, Redelivered, NoDelivery, Holds, RunningIsKept, Keeps, Waits, SnapInv, PhaseInv
  <1> QED
    BY <1>1, <1>2, <1>3, <1>4, <1>5, <1>6

(* Reading a row for a request changes nothing. *)
LEMMA OpenRequestHands ==
    ASSUME IInv, TypeOK', NEW r \in Requests, NEW op \in Operations, NEW t \in Tasks, OpenRequest(r, op, t)
    PROVE  Hands'
  <1> USE ProcessesAssumption DEF IInv, Hands, TypeOK, Processes
  <1>1. LockedIsPending'
    BY DEF OpenRequest, procVars, LockedIsPending, PhaseInv
  <1>2. PhaseInv'
    BY DEF OpenRequest, procVars, PhaseInv
  <1>3. SnapInv'
    BY DEF OpenRequest, procVars, SnapInv, PhaseInv
  <1>4. WaitingIsFree'
    BY DEF OpenRequest, procVars, WaitingIsFree, ExclusiveExecution, Held, Holds, PhaseInv
  <1>5. ExclusiveExecution'
    BY DEF OpenRequest, procVars, ExclusiveExecution, Holds, PhaseInv
  <1>6. RunningIsKept'
    BY DEF OpenRequest, procVars, RunningIsKept, Keeps, Waits, deliveries, SnapInv, PhaseInv
  <1> QED
    BY <1>1, <1>2, <1>3, <1>4, <1>5, <1>6

(* A requeue of a task in hand forces it, a resume strands it, and the     *)
(* other operations write neither PENDING nor RUNNING.                     *)
LEMMA CommitRequestHands ==
    ASSUME IInv, TypeOK', NEW r \in Requests, CommitRequest(r)
    PROVE  Hands'
  <1> DEFINE op == req[r].op
             t == req[r].task
             seen == req[r].seen
  <1> USE ProcessesAssumption DEF IInv, Hands, TypeOK, Processes
  <1>1. op \in Operations /\ t \in Tasks /\ seen \in Status
    BY DEF CommitRequest
  <1>2. \/ Target(op) \in {"cancelled", "paused"}
        \/ op = "resume" /\ Target(op) = "running"
        \/ op = "requeue" /\ Target(op) = "pending"
    BY <1>1, SettingsAssumption DEF Target
  <1>3. /\ lock[t] = Free
        /\ \/ status' = status
           \/ seen # Target(op) /\ status' = [status EXCEPT ![t] = Target(op)]
        /\ UNCHANGED <<lock, pc, queue, cur, snap, submitted>>
    BY DEF CommitRequest, Write, procVars, deliveries
  <1>4. /\ forced' = IF op = "requeue" /\ seen # "pending" /\ Held(t)
                     THEN forced \cup {t} ELSE forced
        /\ stranded' = IF op = "resume" THEN stranded \cup {t} ELSE stranded
    BY DEF CommitRequest
  <1> HIDE DEF op, t, seen
  <1>5. LockedIsPending'
    BY <1>1, <1>3 DEF LockedIsPending
  <1>6. PhaseInv'
    BY <1>3 DEF PhaseInv
  <1>7. SnapInv'
    BY <1>3 DEF SnapInv
  <1>8. WaitingIsFree'
    BY <1>1, <1>2, <1>3, <1>4 DEF WaitingIsFree, Held, Holds
  <1>9. ExclusiveExecution'
    BY <1>3, <1>4 DEF ExclusiveExecution, Holds
  <1>10. RunningIsKept'
    BY <1>1, <1>2, <1>3, <1>4 DEF RunningIsKept, Keeps, Waits
  <1> QED
    BY <1>5, <1>6, <1>7, <1>8, <1>9, <1>10

-----------------------------------------------------------------------------
(* The inductive invariant, and the theorems it carries. *)

LEMMA HandsInit == Init => Hands
  <1> SUFFICES ASSUME Init PROVE Hands
    OBVIOUS
  <1> USE ProcessesAssumption DEF Init, Processes
  <1>1. LockedIsPending /\ PhaseInv /\ SnapInv
    BY DEF LockedIsPending, PhaseInv, SnapInv
  <1>2. WaitingIsFree /\ ExclusiveExecution
    BY DEF WaitingIsFree, ExclusiveExecution, Held, Holds
  <1>3. RunningIsKept
    BY DEF RunningIsKept
  <1> QED
    BY <1>1, <1>2, <1>3 DEF Hands

LEMMA HandsStep ==
    ASSUME IInv, TypeOK', [Next]_vars
    PROVE  Hands'
  <1>1. ASSUME NEW w \in Workers, WorkerStep(w)
        PROVE  Hands'
    BY <1>1, PollHands, CountHands, ClaimHands, CommitClaimsHands DEF WorkerStep
  <1>2. ASSUME NEW p \in Processes, ExecutionStep(p)
        PROVE  Hands'
    BY <1>2, LoadHands, StartHands, CompleteHands, FailHands, FailToStartHands, DieHands
       DEF ExecutionStep
  <1>3. CASE RequestStep
    BY <1>3, OpenRequestHands, CommitRequestHands DEF RequestStep
  <1>4. CASE UNCHANGED vars
    <2> USE <1>4 DEF vars, procVars, IInv, Hands
    <2>1. LockedIsPending' /\ PhaseInv' /\ SnapInv'
      BY DEF LockedIsPending, PhaseInv, SnapInv
    <2>2. WaitingIsFree' /\ ExclusiveExecution'
      BY DEF WaitingIsFree, ExclusiveExecution, Held, Holds
    <2>3. RunningIsKept'
      BY DEF RunningIsKept, Keeps, Waits, deliveries
    <2> QED
      BY <2>1, <2>2, <2>3
  <1> QED
    BY <1>1, <1>2, <1>3, <1>4, CreateHands, DeliverHands, SubmitHands, DeliverLateHands,
       CrashHands DEF Next

THEOREM Invariance == Spec => []IInv
  <1>1. Init => IInv
    BY TypeInit, HandsInit DEF IInv
  <1>2. IInv /\ TypeOK' /\ [Next]_vars => IInv'
    BY HandsStep DEF IInv
  <1> QED
    BY <1>1, <1>2, TypeCorrect, PTL DEF Spec

(* A task that nobody forced is in the hands of at most one process.       *)
THEOREM Exclusion == Spec => []ExclusiveExecution
  <1>1. IInv => ExclusiveExecution
    BY DEF IInv, Hands
  <1> QED
    BY <1>1, Invariance, PTL

(* Only a crash or an operator's resume leaves a RUNNING row with nobody   *)
(* to write it.                                                            *)
THEOREM Accounted == Spec => []RunningIsAccountedFor
  <1>1. IInv => RunningIsAccountedFor
    BY DEF IInv, Hands, RunningIsKept, Keeps, RunningIsAccountedFor, Held, Holds
  <1> QED
    BY <1>1, Invariance, PTL

-----------------------------------------------------------------------------

(* One step undoes a cancellation only through a session that had not seen *)
(* it, or a requeue: CancelUndoneOnlyByStaleSession for a single task.     *)
UndoneByStaleSession(t) ==
    status[t] = "cancelled" /\ status'[t] # "cancelled" =>
        \/ \E p \in Processes : cur[p] = t /\ snap[p] # "cancelled"
        \/ \E r \in Requests : req[r].task = t
              /\ (req[r].seen # "cancelled" \/ req[r].op = "requeue")

LEMMA ExecutionUndoes ==
    ASSUME IInv, NEW p \in Processes, ExecutionStep(p), NEW t \in Tasks
    PROVE  UndoneByStaleSession(t)
  <1> USE DEF IInv, Hands, TypeOK, SnapInv, UndoneByStaleSession
  <1>1. CASE \E u \in Tasks : Load(p, u)
    BY <1>1 DEF Load
  <1>2. CASE Start(p)
    BY <1>2 DEF Start, Write
  <1>3. CASE Complete(p)
    BY <1>3 DEF Complete, Write
  <1>4. CASE Fail(p)
    BY <1>4 DEF Fail, Recover, Write
  <1>5. CASE FailToStart(p)
    BY <1>5 DEF FailToStart, Recover, Write
  <1>6. CASE Die(p)
    BY <1>6 DEF Die
  <1> QED
    BY <1>1, <1>2, <1>3, <1>4, <1>5, <1>6 DEF ExecutionStep

LEMMA RequestUndoes ==
    ASSUME IInv, RequestStep, NEW t \in Tasks
    PROVE  UndoneByStaleSession(t)
  <1> USE DEF IInv, TypeOK, UndoneByStaleSession
  <1>1. CASE \E r \in Requests, op \in Operations, u \in Tasks : OpenRequest(r, op, u)
    BY <1>1 DEF OpenRequest
  <1>2. ASSUME NEW r \in Requests, CommitRequest(r), status[t] = "cancelled", status'[t] # "cancelled"
        PROVE  req[r].task = t /\ (req[r].seen # "cancelled" \/ req[r].op = "requeue")
    BY <1>2 DEF CommitRequest, Write, Allowed
  <1> QED
    BY <1>1, <1>2 DEF RequestStep

LEMMA StepUndoes ==
    ASSUME IInv, [Next]_vars, NEW t \in Tasks
    PROVE  UndoneByStaleSession(t)
  <1> USE DEF IInv, Hands, TypeOK, UndoneByStaleSession
  <1>1. CASE \E u \in Tasks : CreateTask(u)
    BY <1>1 DEF CreateTask
  <1>2. CASE \E p \in Runners, u \in Tasks : Deliver(p, u)
    BY <1>2 DEF Deliver
  <1>3. ASSUME NEW w \in Workers, WorkerStep(w)
        PROVE  UndoneByStaleSession(t)
    <2>1. lock[t] # Free => status[t] = "pending"
      BY DEF LockedIsPending
    <2>2. CASE CommitClaims(w)
      BY <2>1, <2>2, ProcessesAssumption DEF CommitClaims
    <2> QED
      BY <1>3, <2>2 DEF WorkerStep, Poll, CountRunning, Claim
  <1>4. CASE \E p \in Processes : Crash(p)
    BY <1>4 DEF Crash
  <1>5. CASE UNCHANGED vars
    BY <1>5 DEF vars
  <1>6. CASE \E u \in Tasks : Submit(u)
    BY <1>6 DEF Submit
  <1>7. CASE \E p \in Runners, d \in submitted : DeliverLate(p, d)
    BY <1>7 DEF DeliverLate
  <1> QED
    BY <1>1, <1>2, <1>3, <1>4, <1>5, <1>6, <1>7, ExecutionUndoes, RequestUndoes DEF Next

(* A cancellation is undone only by a session that read the row before it, *)
(* or by an operator's requeue.                                            *)
THEOREM CancelUndone == Spec => CancelUndoneOnlyByStaleSession
  <1>1. IInv /\ [Next]_vars =>
          [\A t \in Tasks : status[t] = "cancelled" /\ status'[t] # "cancelled" =>
              \/ \E p \in Processes : cur[p] = t /\ snap[p] # "cancelled"
              \/ \E r \in Requests : req[r].task = t
                    /\ (req[r].seen # "cancelled" \/ req[r].op = "requeue")]_vars
    BY StepUndoes DEF UndoneByStaleSession
  <1> QED
    BY <1>1, Invariance, PTL DEF Spec, CancelUndoneOnlyByStaleSession

-----------------------------------------------------------------------------
(* A worker keeps to its share of each tenant, for every number of tasks,  *)
(* tenants and workers and every value of the limits.                      *)

(* What worker w has of tenant tn, locked by an open poll or claimed. *)
HasIn(q, c, l, w, t) == t \in q[w] \/ c[w] = t \/ l[t] = w
ShareIn(q, c, l, w, tn) == {t \in Tasks : TenantOf[t] = tn /\ HasIn(q, c, l, w, t)}

Polls(w) == pc[w] \in {"scan", "claim"}

(* A poll has nothing of the tenants it has not come to yet, ... *)
ScanInv == \A w \in Workers : Polls(w) => \A tn \in scan[w] : ShareIn(queue, cur, lock, w, tn) = {}

(* ... nor of the one it is about to claim for, which it will not come to  *)
(* again.                                                                  *)
ClaimInv ==
    \A w \in Workers : pc[w] = "claim" =>
        /\ allowance[w] <= TenantMaxParallelism
        /\ ShareIn(queue, cur, lock, w, tenant[w]) = {}
        /\ tenant[w] \notin scan[w]

ShareKept ==
    \A w \in Workers, tn \in Tenants :
        Cardinality(ShareIn(queue, cur, lock, w, tn)) <= TenantMaxParallelism

Shares == ShareKept /\ ScanInv /\ ClaimInv

LEMMA Subshare ==
    ASSUME NEW S \in SUBSET Tasks, NEW T \in SUBSET S
    PROVE  /\ Cardinality(T) \in Nat /\ Cardinality(S) \in Nat
           /\ Cardinality(T) <= Cardinality(S)
  BY FS_Subset, FS_CardinalityType, ProcessesAssumption

LEMMA NoShare == Cardinality({}) = 0
  BY FS_EmptySet

(* A step in which no worker gets anything and those that go on polling    *)
(* stay where they are.                                                    *)
NothingTaken ==
    \A w \in Workers : \A t \in Tasks :
        HasIn(queue', cur', lock', w, t) => HasIn(queue, cur, lock, w, t)
PollsGoOn ==
    \A w \in Workers : pc'[w] \in {"scan", "claim"} =>
        /\ pc'[w] = pc[w] /\ scan'[w] = scan[w]
        /\ tenant'[w] = tenant[w] /\ allowance'[w] = allowance[w]

LEMMA Lessens ==
    ASSUME TypeOK, Shares, NothingTaken, PollsGoOn
    PROVE  Shares'
  <1>1. \A w \in Workers : \A tn \in Tenants :
              ShareIn(queue', cur', lock', w, tn) \subseteq ShareIn(queue, cur, lock, w, tn)
    BY DEF NothingTaken, ShareIn
  <1>2. ASSUME NEW w \in Workers, NEW tn \in Tenants
        PROVE  Cardinality(ShareIn(queue', cur', lock', w, tn)) <= TenantMaxParallelism
    <2> DEFINE S == ShareIn(queue, cur, lock, w, tn)
               T == ShareIn(queue', cur', lock', w, tn)
    <2>1. S \in SUBSET Tasks /\ T \in SUBSET S
      BY <1>1 DEF ShareIn
    <2>2. Cardinality(S) <= TenantMaxParallelism
      BY DEF Shares, ShareKept
    <2> HIDE DEF S, T
    <2>3. Cardinality(T) <= TenantMaxParallelism
      BY <2>1, <2>2, Subshare, SettingsAssumption
    <2> QED
      BY <2>3 DEF T
  <1>3. ScanInv'
    <2> SUFFICES ASSUME NEW w \in Workers, Polls(w)', NEW tn \in scan'[w]
                 PROVE  ShareIn(queue', cur', lock', w, tn) = {}
      BY DEF ScanInv
    <2>1. Polls(w) /\ tn \in scan[w]
      BY DEF Polls, PollsGoOn
    <2>2. tn \in Tenants
      BY <2>1 DEF TypeOK, Processes
    <2> QED
      BY <1>1, <2>1, <2>2 DEF Shares, ScanInv
  <1>4. ClaimInv'
    <2> SUFFICES ASSUME NEW w \in Workers, pc'[w] = "claim"
                 PROVE  /\ allowance'[w] <= TenantMaxParallelism
                        /\ ShareIn(queue', cur', lock', w, tenant'[w]) = {}
                        /\ tenant'[w] \notin scan'[w]
      BY DEF ClaimInv
    <2>1. /\ pc[w] = "claim" /\ scan'[w] = scan[w]
          /\ tenant'[w] = tenant[w] /\ allowance'[w] = allowance[w]
      BY DEF Polls, PollsGoOn
    <2>2. tenant[w] \in Tenants
      BY DEF TypeOK, Processes
    <2>3. /\ allowance[w] <= TenantMaxParallelism
          /\ ShareIn(queue, cur, lock, w, tenant[w]) = {}
          /\ tenant[w] \notin scan[w]
      BY <2>1 DEF Shares, ClaimInv
    <2>4. ShareIn(queue', cur', lock', w, tenant[w]) = {}
      BY <1>1, <2>2, <2>3
    <2> QED
      BY <2>1, <2>3, <2>4
  <1> QED
    BY <1>2, <1>3, <1>4 DEF Shares, ShareKept

-----------------------------------------------------------------------------
(* Every step but those of a poll takes nothing. *)
LEMMA OthersLessen ==
    ASSUME TypeOK,
           \/ \E t \in Tasks : CreateTask(t) \/ Submit(t)
           \/ \E r \in Requests, op \in Operations, t \in Tasks : OpenRequest(r, op, t)
           \/ \E r \in Requests : CommitRequest(r)
           \/ UNCHANGED vars
    PROVE  NothingTaken /\ PollsGoOn
  BY DEF NothingTaken, PollsGoOn, HasIn, CreateTask, Submit, OpenRequest, CommitRequest, vars,
         procVars

LEMMA DeliverLessens ==
    ASSUME TypeOK, NEW p \in Runners,
           (\E t \in Tasks : Deliver(p, t)) \/ \E d \in submitted : DeliverLate(p, d)
    PROVE  NothingTaken /\ PollsGoOn
  <1>1. \A w \in Workers : w # p
    BY ProcessesAssumption
  <1> QED
    BY <1>1 DEF NothingTaken, PollsGoOn, HasIn, Deliver, DeliverLate, TypeOK, Processes

LEMMA ExecutionLessens ==
    ASSUME TypeOK, NEW p \in Processes, ExecutionStep(p)
    PROVE  NothingTaken /\ PollsGoOn
  <1> USE DEF TypeOK, Processes, NothingTaken, PollsGoOn, HasIn
  <1>1. ASSUME NEW t \in Tasks, Load(p, t)
        PROVE  NothingTaken /\ PollsGoOn
    BY <1>1 DEF Load
  <1>2. CASE Start(p)
    BY <1>2 DEF Start
  <1>3. CASE Complete(p) \/ Fail(p) \/ FailToStart(p)
    <2>1. queue' = queue /\ lock' = lock /\ cur' = [cur EXCEPT ![p] = NoTask]
      BY <1>3 DEF Complete, Fail, FailToStart, AfterTask
    <2>2. /\ UNCHANGED <<scan, tenant, allowance>>
          /\ pc' = [pc EXCEPT ![p] = IF queue[p] = {} THEN "idle" ELSE "run"]
      BY <1>3 DEF Complete, Fail, FailToStart, AfterTask
    <2> QED
      BY <2>1, <2>2, ProcessesAssumption
  <1>4. CASE Die(p)
    BY <1>4, ProcessesAssumption DEF Die
  <1> QED
    BY <1>1, <1>2, <1>3, <1>4 DEF ExecutionStep

LEMMA CrashLessens ==
    ASSUME TypeOK, NEW p \in Processes, Crash(p)
    PROVE  NothingTaken /\ PollsGoOn
  BY ProcessesAssumption DEF TypeOK, Processes, NothingTaken, PollsGoOn, HasIn, Crash

(* A commit makes claimed rows of locked ones. *)
LEMMA CommitClaimsLessens ==
    ASSUME TypeOK, NEW w \in Workers, CommitClaims(w)
    PROVE  NothingTaken /\ PollsGoOn
  BY ProcessesAssumption
     DEF TypeOK, Processes, NothingTaken, PollsGoOn, HasIn, CommitClaims, Claimed

(* An idle worker has nothing. *)
LEMMA PollShares ==
    ASSUME IInv, Shares, NEW w \in Workers, Poll(w)
    PROVE  Shares'
  <1> USE DEF IInv, TypeOK, Processes
  <1>1. pc[w] = "idle" /\ pc' = [pc EXCEPT ![w] = "scan"]
        /\ UNCHANGED <<lock, allowance, tenant, queue, cur>>
        /\ \A v \in Workers \ {w} : scan'[v] = scan[v]
    BY DEF Poll
  <1>2. \A t \in Tasks : ~HasIn(queue, cur, lock, w, t)
    <2>1. queue[w] = {} /\ cur[w] = NoTask
      BY <1>1 DEF Hands, PhaseInv
    <2>2. \A t \in Tasks : lock[t] # w
      BY <1>1, ProcessesAssumption DEF Hands, LockedIsPending
    <2> QED
      BY <2>1, <2>2, ProcessesAssumption DEF HasIn
  <1>3. \A tn : ShareIn(queue', cur', lock', w, tn) = {}
    BY <1>1, <1>2 DEF ShareIn
  <1>4. ScanInv'
    BY <1>1, <1>3 DEF ScanInv, Shares, Polls
  <1>5. ClaimInv'
    BY <1>1 DEF ClaimInv, Shares
  <1>6. ShareKept'
    BY <1>1 DEF ShareKept, Shares
  <1> QED
    BY <1>4, <1>5, <1>6 DEF Shares

(* The tenant the poll comes to is taken off its list, and the allowance   *)
(* is what the limit leaves.                                               *)
LEMMA CountShares ==
    ASSUME IInv, Shares, NEW w \in Workers, NEW tn \in Tenants, CountRunning(w, tn)
    PROVE  Shares'
  <1> USE DEF IInv, TypeOK, Processes
  <1>1. /\ pc[w] = "scan" /\ tn \in scan[w] /\ scan' = [scan EXCEPT ![w] = @ \ {tn}]
        /\ UNCHANGED <<lock, queue, cur>>
        /\ \/ UNCHANGED <<pc, allowance, tenant>>
           \/ /\ pc' = [pc EXCEPT ![w] = "claim"] /\ tenant' = [tenant EXCEPT ![w] = tn]
              /\ allowance' = [allowance EXCEPT ![w] = Allowance(w, tn)]
              /\ TenantMaxParallelism > RunningCount(tn)
    <2>1. RunningCount(tn) \in Nat
      BY TaskSetsCounted DEF RunningCount
    <2> QED
      BY <2>1, SettingsAssumption DEF CountRunning
  <1>2. TenantMaxParallelism > RunningCount(tn) => Allowance(w, tn) <= TenantMaxParallelism
    <2> SUFFICES ASSUME TenantMaxParallelism > RunningCount(tn)
                 PROVE  Allowance(w, tn) <= TenantMaxParallelism
      OBVIOUS
    <2>1. RunningCount(tn) \in Nat
      BY TaskSetsCounted DEF RunningCount
    <2>2. Lesser(TypeMaxParallelism, room[w]) \in Nat
      BY LesserOfNats, SettingsAssumption
    <2>3. TenantMaxParallelism - RunningCount(tn) \in Nat
      BY <2>1, SettingsAssumption
    <2>4. Allowance(w, tn) <= TenantMaxParallelism - RunningCount(tn)
      BY <2>2, <2>3, LesserOfNats DEF Allowance
    <2>5. Allowance(w, tn) \in Nat
      BY <2>2, <2>3, LesserOfNats DEF Allowance
    <2> QED
      BY <2>1, <2>4, <2>5, SettingsAssumption
  <1>3. \A x \in scan[w] : ShareIn(queue, cur, lock, w, x) = {}
    BY <1>1 DEF Shares, ScanInv, Polls
  <1>4. \A v \in Workers : \A x : ShareIn(queue', cur', lock', v, x) = ShareIn(queue, cur, lock, v, x)
    BY <1>1
  <1>5. ScanInv'
    BY <1>1, <1>3, <1>4 DEF ScanInv, Shares, Polls
  <1>6. ClaimInv'
    <2> SUFFICES ASSUME NEW v \in Workers, pc'[v] = "claim"
                 PROVE  /\ allowance'[v] <= TenantMaxParallelism
                        /\ ShareIn(queue', cur', lock', v, tenant'[v]) = {}
                        /\ tenant'[v] \notin scan'[v]
      BY DEF ClaimInv
    <2>1. CASE v = w
      BY <1>1, <1>2, <1>3, <1>4, <2>1
    <2>2. CASE v # w
      <3>1. /\ pc[v] = "claim" /\ allowance'[v] = allowance[v] /\ tenant'[v] = tenant[v]
            /\ scan'[v] = scan[v]
        BY <1>1, <2>2
      <3> QED
        BY <1>4, <3>1 DEF Shares, ClaimInv
    <2> QED
      BY <2>1, <2>2
  <1>7. ShareKept'
    BY <1>4 DEF ShareKept, Shares
  <1> QED
    BY <1>5, <1>6, <1>7 DEF Shares

(* A claim takes no more than the allowance, of a tenant it had nothing of.*)
LEMMA ClaimShares ==
    ASSUME IInv, Shares, NEW w \in Workers, Claim(w)
    PROVE  Shares'
  <1> USE DEF IInv, TypeOK, Processes
  <1> DEFINE tn == tenant[w]
  <1>1. /\ pc[w] = "claim" /\ pc' = [pc EXCEPT ![w] = "scan"] /\ tn \in Tenants
        /\ UNCHANGED <<scan, allowance, tenant, queue, cur>>
    BY DEF Claim
  <1>2. PICK S \in SUBSET {t \in Pending(tn) : lock[t] = Free} :
          /\ Cardinality(S) = Lesser(allowance[w], Cardinality({t \in Pending(tn) : lock[t] = Free}))
          /\ lock' = [t \in Tasks |-> IF t \in S THEN w ELSE lock[t]]
    BY DEF Claim
  <1>3. /\ S \in SUBSET Tasks /\ \A t \in S : TenantOf[t] = tn /\ lock[t] = Free
    BY DEF Pending
  <1>4. /\ allowance[w] <= TenantMaxParallelism
        /\ ShareIn(queue, cur, lock, w, tn) = {} /\ tn \notin scan[w]
    BY <1>1 DEF Shares, ClaimInv
  <1>5. Cardinality(S) <= TenantMaxParallelism
    <2> DEFINE open == {t \in Pending(tn) : lock[t] = Free}
    <2>1. Cardinality(open) \in Nat /\ Cardinality(S) \in Nat
      BY <1>3, TaskSetsCounted DEF Pending
    <2>2. Cardinality(S) = Lesser(allowance[w], Cardinality(open))
      BY <1>2
    <2> HIDE DEF open
    <2>3. allowance[w] \in Nat
      OBVIOUS
    <2>4. Cardinality(S) <= allowance[w]
      BY <2>1, <2>2, <2>3, LesserOfNats
    <2> QED
      BY <1>4, <2>1, <2>3, <2>4, SettingsAssumption
  <1> HIDE DEF tn
  <1>6. ShareIn(queue', cur', lock', w, tn) = S
    BY <1>1, <1>2, <1>3, <1>4 DEF ShareIn, HasIn
  <1>7. \A x : x # tn =>
          ShareIn(queue', cur', lock', w, x) = ShareIn(queue, cur, lock, w, x)
    BY <1>1, <1>2, <1>3 DEF ShareIn, HasIn
  <1>8. \A v \in Workers \ {w} : \A x :
          ShareIn(queue', cur', lock', v, x) = ShareIn(queue, cur, lock, v, x)
    BY <1>1, <1>2, <1>3, ProcessesAssumption DEF ShareIn, HasIn
  <1>9. ScanInv'
    BY <1>1, <1>4, <1>7, <1>8 DEF ScanInv, Shares, Polls
  <1>10. ClaimInv'
    BY <1>1, <1>8 DEF ClaimInv, Shares
  <1>11. ShareKept'
    BY <1>5, <1>6, <1>7, <1>8 DEF ShareKept, Shares
  <1> QED
    BY <1>9, <1>10, <1>11 DEF Shares

-----------------------------------------------------------------------------
LEMMA SharesInit == Init => Shares
  <1> SUFFICES ASSUME Init PROVE Shares
    OBVIOUS
  <1>1. ScanInv /\ ClaimInv
    BY DEF Init, ScanInv, ClaimInv, Polls, Processes
  <1>2. \A w \in Workers, tn \in Tenants : ShareIn(queue, cur, lock, w, tn) = {}
    BY ProcessesAssumption DEF Init, ShareIn, HasIn, Processes
  <1> QED
    BY <1>1, <1>2, NoShare, SettingsAssumption DEF Shares, ShareKept

LEMMA SharesStep ==
    ASSUME IInv, Shares, [Next]_vars
    PROVE  Shares'
  <1>1. TypeOK
    BY DEF IInv
  <1>2. ASSUME NEW w \in Workers, WorkerStep(w)
        PROVE  Shares'
    BY <1>1, <1>2, PollShares, CountShares, ClaimShares, CommitClaimsLessens, Lessens DEF WorkerStep
  <1>3. CASE RequestStep
    BY <1>1, <1>3, OthersLessen, Lessens DEF RequestStep
  <1>4. CASE \/ \E p \in Runners, t \in Tasks : Deliver(p, t)
             \/ \E p \in Runners, d \in submitted : DeliverLate(p, d)
    BY <1>1, <1>4, DeliverLessens, Lessens
  <1>5. ASSUME NEW p \in Processes, ExecutionStep(p) \/ Crash(p)
        PROVE  Shares'
    BY <1>1, <1>5, ExecutionLessens, CrashLessens, Lessens
  <1>6. CASE \/ \E t \in Tasks : CreateTask(t) \/ Submit(t)
             \/ UNCHANGED vars
    BY <1>1, <1>6, OthersLessen, Lessens
  <1> QED
    BY <1>2, <1>3, <1>4, <1>5, <1>6 DEF Next

(* A worker never has more tasks of a tenant, locked, claimed or under     *)
(* way, than tenant_max_parallelism: a poll counts the running tasks of a  *)
(* tenant once, claims for it once, and starts only when the batch before  *)
(* has ended (poll_and_run_once).                                          *)
THEOREM ShareBounded == Spec => []WorkerShare
  <1>1. Init => Shares
    BY SharesInit
  <1>2. IInv /\ Shares /\ [Next]_vars => Shares'
    BY SharesStep
  <1>3. Shares => WorkerShare
    BY DEF Shares, ShareKept, WorkerShare, ShareIn, HasIn, Holds
  <1> QED
    BY <1>1, <1>2, <1>3, Invariance, PTL DEF Spec

-----------------------------------------------------------------------------
(* The workers implement TaskQueue, for every set of tasks, tenants,       *)
(* workers, runners and requests and every value of the settings.          *)

(* What the refinement mapping says, of any queues q and current tasks c   *)
(* and tasks f that were forced past the claim.                            *)
HoldsIn(q, c, f, p, t) == t \notin f /\ (t \in q[p] \/ c[p] = t)
OwnerIn(q, c, f, t) ==
    IF \E p \in Processes : HoldsIn(q, c, f, p, t)
    THEN CHOOSE p \in Processes : HoldsIn(q, c, f, p, t) ELSE NoTask
Owners(q, c, f) == [t \in Tasks |-> OwnerIn(q, c, f, t)]
Waiting(s, f) == {t \in Tasks \ f : s[t] = "pending"}

Alone(q, c, f) ==
    \A t \in Tasks : \A p1, p2 \in Processes :
        HoldsIn(q, c, f, p1, t) /\ HoldsIn(q, c, f, p2, t) => p1 = p2

(* With a task in at most one hand, o is who has it. *)
Owns(o, q, c, f) ==
    /\ o \in [Tasks -> Processes \cup {NoTask}]
    /\ \A t \in Tasks : \A p \in Processes : o[t] = p <=> HoldsIn(q, c, f, p, t)

LEMMA OwnersOwn == ASSUME NEW q, NEW c, NEW f, Alone(q, c, f) PROVE Owns(Owners(q, c, f), q, c, f)
  <1>1. NoTask \notin Processes
    BY ProcessesAssumption DEF Processes
  <1>2. ASSUME NEW t \in Tasks
        PROVE  /\ OwnerIn(q, c, f, t) \in Processes \cup {NoTask}
               /\ \A p \in Processes : OwnerIn(q, c, f, t) = p <=> HoldsIn(q, c, f, p, t)
    <2>1. CASE \E p \in Processes : HoldsIn(q, c, f, p, t)
      <3> DEFINE x == CHOOSE p \in Processes : HoldsIn(q, c, f, p, t)
      <3>1. OwnerIn(q, c, f, t) = x
        BY <2>1 DEF OwnerIn
      <3>2. x \in Processes /\ HoldsIn(q, c, f, x, t)
        BY <2>1, Zenon
      <3> HIDE DEF x
      <3> QED
        BY <3>1, <3>2 DEF Alone
    <2>2. CASE ~ \E p \in Processes : HoldsIn(q, c, f, p, t)
      BY <1>1, <2>2 DEF OwnerIn
    <2> QED
      BY <2>1, <2>2
  <1> QED
    BY <1>2 DEF Owns, Owners

(* The mapping is of that form. *)
LEMMA Mapped ==
    /\ {t \in Tasks \ forced : status[t] = "pending"} = Waiting(status, forced)
    /\ [t \in Tasks |-> Owner(t)] = Owners(queue, cur, forced)
  <1>1. ASSUME NEW t \in Tasks PROVE Owner(t) = OwnerIn(queue, cur, forced, t)
    <2>1. CASE t \in forced
      BY <2>1 DEF Owner, OwnerIn, HoldsIn
    <2>2. CASE t \notin forced
      <3>1. \A p \in Processes : Holds(p, t) <=> HoldsIn(queue, cur, forced, p, t)
        BY <2>2 DEF HoldsIn, Holds
      <3>2. (CHOOSE p \in Processes : Holds(p, t)) =
                CHOOSE p \in Processes : HoldsIn(queue, cur, forced, p, t)
        BY <2>2 DEF HoldsIn, Holds
      <3> QED
        BY <2>2, <3>1, <3>2 DEF Owner, OwnerIn, Held
    <2> QED
      BY <2>1, <2>2
  <1> QED
    BY <1>1 DEF Waiting, Owners

-----------------------------------------------------------------------------
(* Steps of the queue, from what the hands are before and after. *)

LEMMA NothingMoves ==
    ASSUME NEW q, NEW c, NEW f, NEW q2, NEW c2, NEW f2, NEW o, NEW o2,
           Owns(o, q, c, f), Owns(o2, q2, c2, f2),
           \A t \in Tasks : \A p \in Processes :
              HoldsIn(q2, c2, f2, p, t) <=> HoldsIn(q, c, f, p, t)
    PROVE  o2 = o
  <1>1. NoTask \notin Processes
    BY ProcessesAssumption DEF Processes
  <1>2. ASSUME NEW t \in Tasks PROVE o2[t] = o[t]
    <2>1. o[t] \in Processes \cup {NoTask} /\ o2[t] \in Processes \cup {NoTask}
      BY DEF Owns
    <2>2. \A p \in Processes : o2[t] = p <=> o[t] = p
      BY DEF Owns
    <2> QED
      BY <1>1, <2>1, <2>2
  <1> QED
    BY <1>2 DEF Owns

(* p has the tasks S no more, and nothing else changes hands. *)
LetsGo(q, c, f, q2, c2, f2, p, S) ==
    /\ \A t \in S : HoldsIn(q, c, f, p, t) /\ ~HoldsIn(q2, c2, f2, p, t)
    /\ \A t \in Tasks : \A r \in Processes :
          r # p \/ t \notin S => (HoldsIn(q2, c2, f2, r, t) <=> HoldsIn(q, c, f, r, t))

LEMMA Drops ==
    ASSUME NEW q, NEW c, NEW f, NEW q2, NEW c2, NEW f2, NEW o, NEW o2,
           Owns(o, q, c, f), Owns(o2, q2, c2, f2),
           NEW p \in Processes, NEW S \in SUBSET Tasks, LetsGo(q, c, f, q2, c2, f2, p, S)
    PROVE  /\ \A t \in S : o[t] = p
           /\ o2 = [t \in Tasks |-> IF t \in S THEN NoTask ELSE o[t]]
  <1>1. NoTask \notin Processes
    BY ProcessesAssumption DEF Processes
  <1>2. \A t \in S : o[t] = p
    BY DEF Owns, LetsGo
  <1>3. ASSUME NEW t \in S PROVE o2[t] = NoTask
    <2>1. o2[t] \in Processes \cup {NoTask}
      BY DEF Owns
    <2>2. \A r \in Processes : o2[t] # r
      <3>1. ~HoldsIn(q2, c2, f2, p, t)
        BY DEF LetsGo
      <3>2. \A r \in Processes \ {p} : ~HoldsIn(q, c, f, r, t)
        BY <1>2 DEF Owns
      <3>3. \A r \in Processes : ~HoldsIn(q2, c2, f2, r, t)
        BY <3>1, <3>2 DEF LetsGo
      <3> QED
        BY <3>3 DEF Owns
    <2> QED
      BY <2>1, <2>2
  <1>4. ASSUME NEW t \in Tasks \ S PROVE o2[t] = o[t]
    <2>1. o[t] \in Processes \cup {NoTask} /\ o2[t] \in Processes \cup {NoTask}
      BY DEF Owns
    <2>2. \A r \in Processes : o2[t] = r <=> o[t] = r
      BY DEF Owns, LetsGo
    <2> QED
      BY <1>1, <2>1, <2>2
  <1>5. o2 = [t \in Tasks |-> IF t \in S THEN NoTask ELSE o[t]]
    BY <1>3, <1>4 DEF Owns
  <1> QED
    BY <1>2, <1>5

LEMMA DropsOne ==
    ASSUME NEW q, NEW c, NEW f, NEW q2, NEW c2, NEW f2, NEW o, NEW o2,
           Owns(o, q, c, f), Owns(o2, q2, c2, f2),
           NEW p \in Processes, NEW t \in Tasks,
           HoldsIn(q, c, f, p, t), ~HoldsIn(q2, c2, f2, p, t),
           \A u \in Tasks : \A r \in Processes :
              r # p \/ u # t => (HoldsIn(q2, c2, f2, r, u) <=> HoldsIn(q, c, f, r, u))
    PROVE  o[t] = p /\ o2 = [o EXCEPT ![t] = NoTask]
  <1> DEFINE S == {t}
  <1>1. S \in SUBSET Tasks /\ \A u : u \in S <=> u = t
    OBVIOUS
  <1> HIDE DEF S
  <1>2. (\A u \in S : o[u] = p) /\ o2 = [u \in Tasks |-> IF u \in S THEN NoTask ELSE o[u]]
    <2>1. LetsGo(q, c, f, q2, c2, f2, p, S)
      BY <1>1 DEF LetsGo
    <2> QED
      BY <1>1, <2>1, Drops
  <1> QED
    BY <1>1, <1>2 DEF Owns

LEMMA Takes ==
    ASSUME NEW q, NEW c, NEW f, NEW q2, NEW c2, NEW f2, NEW o, NEW o2,
           Owns(o, q, c, f), Owns(o2, q2, c2, f2),
           NEW p \in Processes, NEW S \in SUBSET Tasks,
           \A t \in S : HoldsIn(q2, c2, f2, p, t),
           \A t \in Tasks : \A r \in Processes :
              t \notin S => (HoldsIn(q2, c2, f2, r, t) <=> HoldsIn(q, c, f, r, t))
    PROVE  o2 = [t \in Tasks |-> IF t \in S THEN p ELSE o[t]]
  <1>1. NoTask \notin Processes
    BY ProcessesAssumption DEF Processes
  <1>2. \A t \in S : o2[t] = p
    BY DEF Owns
  <1>3. ASSUME NEW t \in Tasks \ S PROVE o2[t] = o[t]
    <2>1. o[t] \in Processes \cup {NoTask} /\ o2[t] \in Processes \cup {NoTask}
      BY DEF Owns
    <2>2. \A r \in Processes : o2[t] = r <=> o[t] = r
      BY DEF Owns
    <2> QED
      BY <1>1, <2>1, <2>2
  <1> QED
    BY <1>2, <1>3 DEF Owns

-----------------------------------------------------------------------------
(* The steps of TaskQueue, or none, on the tasks that wait, who has them    *)
(* and which are outside.                                                   *)
Moves(w, o, f, w2, o2, f2) ==
    \/ w2 = w /\ o2 = o /\ f2 = f
    \/ \E t \in Tasks : o[t] = NoTask /\ t \notin f /\ w2 = w \cup {t} /\ o2 = o /\ f2 = f
    \/ \E t \in Tasks : t \in w /\ w2 = w \ {t} /\ o2 = o /\ f2 = f
    \/ \E p \in Processes, S \in SUBSET Tasks :
          /\ S # {} /\ S \subseteq w /\ w2 = w \ S
          /\ o2 = [t \in Tasks |-> IF t \in S THEN p ELSE o[t]] /\ f2 = f
    \/ \E p \in Processes, S \in SUBSET Tasks :
          /\ S # {} /\ (\A t \in S : o[t] = p) /\ w2 = w
          /\ o2 = [t \in Tasks |-> IF t \in S THEN NoTask ELSE o[t]] /\ f2 = f
    \/ \E p \in Processes, t \in Tasks :
          o[t] = p /\ w2 = w \cup {t} /\ o2 = [o EXCEPT ![t] = NoTask] /\ f2 = f
    \/ \E t \in Tasks :
          f2 = f \cup {t} /\ w2 = w \ {t} /\ o2 = [o EXCEPT ![t] = NoTask]

LEMMA MappedLater ==
    /\ {t \in Tasks \ forced : status[t] = "pending"}' = Waiting(status', forced')
    /\ [t \in Tasks |-> Owner(t)]' = Owners(queue', cur', forced')
  <1>1. ASSUME NEW t \in Tasks PROVE Owner(t)' = OwnerIn(queue', cur', forced', t)
    <2>1. CASE t \in forced'
      BY <2>1 DEF Owner, OwnerIn, HoldsIn
    <2>2. CASE t \notin forced'
      <3>1. \A p \in Processes : Holds(p, t)' <=> HoldsIn(queue', cur', forced', p, t)
        BY <2>2 DEF HoldsIn, Holds
      <3>2. (CHOOSE p \in Processes : Holds(p, t)') =
                CHOOSE p \in Processes : HoldsIn(queue', cur', forced', p, t)
        BY <2>2 DEF HoldsIn, Holds
      <3> QED
        BY <2>2, <3>1, <3>2 DEF Owner, OwnerIn, Held
    <2> QED
      BY <2>1, <2>2
  <1> QED
    BY <1>1 DEF Waiting, Owners

LEMMA MovesMap ==
    ASSUME Moves(Waiting(status, forced), Owners(queue, cur, forced), forced,
                 Waiting(status', forced'), Owners(queue', cur', forced'), forced')
    PROVE  [Queue!Next]_(Queue!vars)
  <1> DEFINE w == Waiting(status, forced)
             o == Owners(queue, cur, forced)
             w2 == Waiting(status', forced')
             o2 == Owners(queue', cur', forced')
  <1>1. /\ {t \in Tasks \ forced : status[t] = "pending"} = w
        /\ [t \in Tasks |-> Owner(t)] = o
        /\ {t \in Tasks \ forced : status[t] = "pending"}' = w2
        /\ [t \in Tasks |-> Owner(t)]' = o2
    BY Mapped, MappedLater
  <1>2. Moves(w, o, forced, w2, o2, forced')
    OBVIOUS
  <1> HIDE DEF w, o, w2, o2
  <1>3. CASE w2 = w /\ o2 = o /\ forced' = forced
    BY <1>1, <1>3 DEF Queue!vars
  <1>4. ASSUME NEW t \in Tasks, o[t] = NoTask, t \notin forced, w2 = w \cup {t}, o2 = o,
               forced' = forced
        PROVE  Queue!Next
    <2>1. Queue!Enqueue(t)
      BY <1>1, <1>4 DEF Queue!Enqueue
    <2> QED
      BY <2>1 DEF Queue!Next
  <1>5. ASSUME NEW t \in Tasks, t \in w, w2 = w \ {t}, o2 = o, forced' = forced
        PROVE  Queue!Next
    <2>1. Queue!Withdraw(t)
      BY <1>1, <1>5 DEF Queue!Withdraw
    <2> QED
      BY <2>1 DEF Queue!Next
  <1>6. ASSUME NEW p \in Processes, NEW S \in SUBSET Tasks, S # {}, S \subseteq w, w2 = w \ S,
               o2 = [t \in Tasks |-> IF t \in S THEN p ELSE o[t]], forced' = forced
        PROVE  Queue!Next
    <2>1. Queue!Take(p, S)
      BY <1>1, <1>6 DEF Queue!Take
    <2> QED
      BY <2>1 DEF Queue!Next
  <1>7. ASSUME NEW p \in Processes, NEW S \in SUBSET Tasks, S # {}, \A t \in S : o[t] = p, w2 = w,
               o2 = [t \in Tasks |-> IF t \in S THEN NoTask ELSE o[t]], forced' = forced
        PROVE  Queue!Next
    <2>1. Queue!LetGo(p, S)
      BY <1>1, <1>7 DEF Queue!LetGo
    <2> QED
      BY <2>1 DEF Queue!Next
  <1>8. ASSUME NEW p \in Processes, NEW t \in Tasks, o[t] = p, w2 = w \cup {t},
               o2 = [o EXCEPT ![t] = NoTask], forced' = forced
        PROVE  Queue!Next
    <2>1. Queue!GiveBack(p, t)
      BY <1>1, <1>8 DEF Queue!GiveBack
    <2> QED
      BY <2>1 DEF Queue!Next
  <1>9. ASSUME NEW t \in Tasks, forced' = forced \cup {t}, w2 = w \ {t},
               o2 = [o EXCEPT ![t] = NoTask]
        PROVE  Queue!Next
    <2>1. Queue!Bypass(t)
      BY <1>1, <1>9 DEF Queue!Bypass
    <2> QED
      BY <2>1 DEF Queue!Next
  <1> QED
    BY <1>2, <1>3, <1>4, <1>5, <1>6, <1>7, <1>8, <1>9 DEF Moves

-----------------------------------------------------------------------------
(* What the actions do to the queue. *)
Moved == Moves(Waiting(status, forced), Owners(queue, cur, forced), forced,
               Waiting(status', forced'), Owners(queue', cur', forced'), forced')

LEMMA OneHand ==
    ASSUME IInv
    PROVE  /\ Owns(Owners(queue, cur, forced), queue, cur, forced)
           /\ \A t \in Tasks : status[t] \in {"absent", "pending"} =>
                 \A p \in Processes : ~HoldsIn(queue, cur, forced, p, t)
  <1>1. Alone(queue, cur, forced)
    BY DEF IInv, Hands, ExclusiveExecution, Alone, Holds, HoldsIn
  <1> QED
    BY <1>1, OwnersOwn DEF IInv, Hands, WaitingIsFree, Held, Holds, HoldsIn

LEMMA OneHandLater ==
    ASSUME IInv'
    PROVE  Owns(Owners(queue', cur', forced'), queue', cur', forced')
  <1>1. Alone(queue', cur', forced')
    BY DEF IInv, Hands, ExclusiveExecution, Alone, Holds, HoldsIn
  <1> QED
    BY <1>1, OwnersOwn

LEMMA StillMoved ==
    ASSUME IInv, IInv', UNCHANGED forced,
           \A t \in Tasks \ forced : status'[t] = "pending" <=> status[t] = "pending",
           \A t \in Tasks : \A p \in Processes :
              HoldsIn(queue', cur', forced', p, t) <=> HoldsIn(queue, cur, forced, p, t)
    PROVE  Moved
  <1>1. Waiting(status', forced') = Waiting(status, forced)
    BY DEF Waiting
  <1>2. Owners(queue', cur', forced') = Owners(queue, cur, forced)
    BY OneHand, OneHandLater, NothingMoves
  <1> QED
    BY <1>1, <1>2 DEF Moved, Moves

(* A write to a row that nobody begins or ends. *)
LEMMA WriteMoved ==
    ASSUME IInv, IInv', UNCHANGED <<queue, cur, forced>>, NEW t \in Tasks, NEW new,
           status' = [status EXCEPT ![t] = new],
           new = "pending" => \A p \in Processes : ~HoldsIn(queue, cur, forced, p, t)
    PROVE  Moved
  <1>1. Owners(queue', cur', forced') = Owners(queue, cur, forced)
    OBVIOUS
  <1>2. status \in [Tasks -> Status]
    BY DEF IInv, TypeOK
  <1>3. CASE t \notin forced /\ new = "pending"
    <2>1. Waiting(status', forced') = Waiting(status, forced) \cup {t}
      BY <1>2, <1>3 DEF Waiting
    <2>2. \A p \in Processes : ~HoldsIn(queue, cur, forced, p, t)
      BY <1>3
    <2>3. Owners(queue, cur, forced)[t] = NoTask
      BY <2>2, OneHand DEF Owns
    <2> QED
      BY <1>1, <1>3, <2>1, <2>3 DEF Moved, Moves
  <1>4. CASE t \notin forced /\ new # "pending" /\ status[t] = "pending"
    <2>1. /\ Waiting(status', forced') = Waiting(status, forced) \ {t}
          /\ t \in Waiting(status, forced)
      BY <1>2, <1>4 DEF Waiting
    <2> QED
      BY <1>1, <2>1 DEF Moved, Moves
  <1>5. CASE t \in forced \/ (new # "pending" /\ status[t] # "pending")
    <2>1. Waiting(status', forced') = Waiting(status, forced)
      BY <1>2, <1>5 DEF Waiting
    <2> QED
      BY <1>1, <2>1 DEF Moved, Moves
  <1> QED
    BY <1>3, <1>4, <1>5

(* p lets go of a set of tasks. *)
LEMMA DropMoved ==
    ASSUME IInv, IInv', UNCHANGED forced, NEW p \in Processes, NEW S \in SUBSET Tasks,
           \A t \in Tasks : status'[t] = "pending" <=> status[t] = "pending",
           LetsGo(queue, cur, forced, queue', cur', forced', p, S)
    PROVE  Moved
  <1>1. Waiting(status', forced') = Waiting(status, forced)
    BY DEF Waiting
  <1>2. CASE S = {}
    BY <1>2, StillMoved DEF LetsGo
  <1>3. CASE S # {}
    <2> DEFINE o == Owners(queue, cur, forced)
               o2 == Owners(queue', cur', forced')
    <2>1. Owns(o, queue, cur, forced) /\ Owns(o2, queue', cur', forced')
      BY OneHand, OneHandLater
    <2> HIDE DEF o, o2
    <2>2. (\A t \in S : o[t] = p) /\ o2 = [t \in Tasks |-> IF t \in S THEN NoTask ELSE o[t]]
      BY <2>1, Drops
    <2>3. \A w, f : Moves(w, o, f, w, o2, f)
      BY <1>3, <2>2 DEF Moves
    <2> QED
      BY <1>1, <2>3 DEF Moved, o, o2
  <1> QED
    BY <1>2, <1>3

(* Nothing else changes hands when p lets go of t. *)
OthersKept(p, t) ==
    \A u \in Tasks : \A r \in Processes :
        r # p \/ u # t =>
            (HoldsIn(queue', cur', forced', r, u) <=> HoldsIn(queue, cur, forced, r, u))

(* p lets go of one task, which may wait again. *)
LEMMA GiveMoved ==
    ASSUME IInv, IInv', UNCHANGED forced, NEW p \in Processes, NEW t \in Tasks,
           \/ Waiting(status', forced') = Waiting(status, forced)
           \/ Waiting(status', forced') = Waiting(status, forced) \cup {t},
           HoldsIn(queue, cur, forced, p, t), ~HoldsIn(queue', cur', forced', p, t),
           OthersKept(p, t)
    PROVE  Moved
  <1> DEFINE w == Waiting(status, forced)
             w2 == Waiting(status', forced')
             o == Owners(queue, cur, forced)
             o2 == Owners(queue', cur', forced')
  <1>1. Owns(o, queue, cur, forced) /\ Owns(o2, queue', cur', forced')
    BY OneHand, OneHandLater
  <1> HIDE DEF o, o2
  <1>2. o[t] = p /\ o2 = [o EXCEPT ![t] = NoTask]
    <2>1. \A u \in Tasks : \A r \in Processes :
              r # p \/ u # t =>
                  (HoldsIn(queue', cur', forced', r, u) <=> HoldsIn(queue, cur, forced, r, u))
      BY DEF OthersKept
    <2> QED
      BY <1>1, <2>1, DropsOne
  <1>3. o2 = [u \in Tasks |-> IF u \in {t} THEN NoTask ELSE o[u]]
    BY <1>1, <1>2 DEF Owns
  <1> HIDE DEF w, w2
  <1>4. w2 = w \/ w2 = w \cup {t}
    BY DEF w, w2
  <1>5. CASE w2 = w
    <2>1. \A u \in {t} : o[u] = p
      BY <1>2
    <2>2. {t} # {} /\ {t} \in SUBSET Tasks
      OBVIOUS
    <2> QED
      BY <1>3, <1>5, <2>1, <2>2 DEF Moved, Moves, w, w2, o, o2
  <1>6. CASE w2 = w \cup {t}
    <2>1. Moves(w, o, forced, w2, o2, forced')
      BY <1>2, <1>6 DEF Moves
    <2> QED
      BY <2>1 DEF Moved, w, w2, o, o2
  <1> QED
    BY <1>4, <1>5, <1>6

(* The execution of p ends, and its row has another status or not. *)
LEMMA EndMoved ==
    ASSUME IInv, IInv', UNCHANGED forced, NEW p \in Processes, NEW t \in Tasks, cur[p] = t,
           queue' = queue, cur' = [cur EXCEPT ![p] = NoTask],
           status' = status \/ \E new : status' = [status EXCEPT ![t] = new]
    PROVE  Moved
  <1>1. /\ status \in [Tasks -> Status] /\ cur \in [Processes -> Tasks \cup {NoTask}]
        /\ t \notin queue[p] /\ NoTask \notin Tasks
    BY ProcessesAssumption DEF IInv, TypeOK, Hands, PhaseInv
  <1>2. \A u \in Tasks \ {t} : status'[u] = status[u]
    BY <1>1
  <1>3. OthersKept(p, t)
    BY <1>1 DEF HoldsIn, OthersKept
  <1>4. CASE t \in forced
    <2>1. \A u \in Tasks : \A r \in Processes :
              HoldsIn(queue', cur', forced', r, u) <=> HoldsIn(queue, cur, forced, r, u)
      BY <1>3, <1>4 DEF HoldsIn, OthersKept
    <2>2. \A u \in Tasks \ forced : status'[u] = "pending" <=> status[u] = "pending"
      BY <1>2, <1>4
    <2> QED
      BY <2>1, <2>2, StillMoved
  <1>5. CASE t \notin forced
    <2>1. HoldsIn(queue, cur, forced, p, t) /\ ~HoldsIn(queue', cur', forced', p, t)
      BY <1>1, <1>5 DEF HoldsIn
    <2>2. status[t] # "pending"
      BY <2>1, OneHand
    <2>3. \/ Waiting(status', forced') = Waiting(status, forced)
          \/ Waiting(status', forced') = Waiting(status, forced) \cup {t}
      <3>1. CASE status'[t] = "pending"
        BY <1>2, <1>5, <2>2, <3>1 DEF Waiting
      <3>2. CASE status'[t] # "pending"
        BY <1>2, <2>2, <3>2 DEF Waiting
      <3> QED
        BY <3>1, <3>2
    <2> QED
      BY <1>3, <2>1, <2>3, GiveMoved
  <1> QED
    BY <1>4, <1>5

(* A task leaves the queue for good: it is handed out past the claim, or   *)
(* put back while a process has it.                                        *)
LEMMA BypassMoved ==
    ASSUME IInv, IInv', NEW t \in Tasks, forced' = forced \cup {t},
           \A u \in Tasks \ {t} : status'[u] = "pending" <=> status[u] = "pending",
           \A u \in Tasks \ {t} : \A r \in Processes :
              HoldsIn(queue', cur', forced', r, u) <=> HoldsIn(queue, cur, forced, r, u)
    PROVE  Moved
  <1> DEFINE o == Owners(queue, cur, forced)
             o2 == Owners(queue', cur', forced')
  <1>1. Owns(o, queue, cur, forced) /\ Owns(o2, queue', cur', forced')
    BY OneHand, OneHandLater
  <1>2. NoTask \notin Processes
    BY ProcessesAssumption DEF Processes
  <1> HIDE DEF o, o2
  <1>3. o2[t] = NoTask
    BY <1>1, <1>2 DEF Owns, HoldsIn
  <1>4. ASSUME NEW u \in Tasks \ {t} PROVE o2[u] = o[u]
    <2>1. o[u] \in Processes \cup {NoTask} /\ o2[u] \in Processes \cup {NoTask}
      BY <1>1 DEF Owns
    <2>2. \A r \in Processes : o2[u] = r <=> o[u] = r
      BY <1>1 DEF Owns
    <2> QED
      BY <1>2, <2>1, <2>2
  <1>5. o2 = [o EXCEPT ![t] = NoTask]
    BY <1>1, <1>3, <1>4 DEF Owns
  <1>6. Waiting(status', forced') = Waiting(status, forced) \ {t}
    BY DEF Waiting
  <1>7. Moves(Waiting(status, forced), o, forced, Waiting(status', forced'), o2, forced')
    BY <1>5, <1>6 DEF Moves
  <1> QED
    BY <1>7 DEF Moved, o, o2

-----------------------------------------------------------------------------
LEMMA CommitClaimsMoved ==
    ASSUME IInv, IInv', NEW w \in Workers, CommitClaims(w)
    PROVE  Moved
  <1> DEFINE S == Claimed(w) \ forced
             o == Owners(queue, cur, forced)
             o2 == Owners(queue', cur', forced')
  <1>1. w \in Processes /\ w # Free
    BY ProcessesAssumption DEF Processes
  <1>2. /\ pc[w] = "scan" /\ cur' = cur /\ queue' = [queue EXCEPT ![w] = Claimed(w)]
        /\ forced' = forced
        /\ status' = [t \in Tasks |-> IF lock[t] = w THEN "running" ELSE status[t]]
    BY DEF CommitClaims
  <1>3. queue \in [Processes -> SUBSET Tasks] /\ queue[w] = {} /\ cur[w] = NoTask
    BY <1>1, <1>2 DEF IInv, TypeOK, Hands, PhaseInv
  <1>4. S \in SUBSET Tasks /\ \A t \in Tasks : t \in S <=> lock[t] = w /\ t \notin forced
    BY DEF Claimed
  <1>5. \A t \in S : status[t] = "pending"
    BY <1>1, <1>4 DEF IInv, Hands, LockedIsPending
  <1> HIDE DEF S
  <1>6. /\ Waiting(status', forced') = Waiting(status, forced) \ S
        /\ S \subseteq Waiting(status, forced)
    BY <1>2, <1>4, <1>5 DEF Waiting
  <1>7. \A t \in S : HoldsIn(queue', cur', forced', w, t)
    BY <1>1, <1>2, <1>3, <1>4 DEF HoldsIn, Claimed
  <1>8. \A t \in Tasks : \A r \in Processes :
              t \notin S =>
                  (HoldsIn(queue', cur', forced', r, t) <=> HoldsIn(queue, cur, forced, r, t))
    BY <1>1, <1>2, <1>3, <1>4 DEF HoldsIn, Claimed
  <1>9. Owns(o, queue, cur, forced) /\ Owns(o2, queue', cur', forced')
    BY OneHand, OneHandLater
  <1> HIDE DEF o, o2
  <1>10. o2 = [t \in Tasks |-> IF t \in S THEN w ELSE o[t]]
    BY <1>1, <1>4, <1>7, <1>8, <1>9, Takes
  <1>11. CASE S = {}
    <2>1. Waiting(status', forced') = Waiting(status, forced) /\ o2 = o
      BY <1>6, <1>9, <1>10, <1>11 DEF Owns
    <2>2. Moves(Waiting(status, forced), o, forced, Waiting(status', forced'), o2, forced')
      BY <1>2, <2>1 DEF Moves
    <2> QED
      BY <2>2 DEF Moved, o, o2
  <1>12. CASE S # {}
    <2>1. Moves(Waiting(status, forced), o, forced, Waiting(status', forced'), o2, forced')
      BY <1>1, <1>2, <1>4, <1>6, <1>10, <1>12 DEF Moves
    <2> QED
      BY <2>1 DEF Moved, o, o2
  <1> QED
    BY <1>11, <1>12

LEMMA LoadMoved ==
    ASSUME IInv, IInv', NEW p \in Processes, NEW t \in Tasks, Load(p, t)
    PROVE  Moved
  <1>1. /\ queue \in [Processes -> SUBSET Tasks] /\ cur \in [Processes -> Tasks \cup {NoTask}]
        /\ NoTask \notin Tasks
    BY ProcessesAssumption DEF IInv, TypeOK
  <1>2. /\ cur[p] = NoTask /\ t \in queue[p] /\ queue' = [queue EXCEPT ![p] = @ \ {t}]
        /\ UNCHANGED <<status, forced>>
        /\ UNCHANGED cur \/ cur' = [cur EXCEPT ![p] = t]
    BY DEF Load
  <1>3. CASE t \notin forced /\ UNCHANGED cur
    <2>1. HoldsIn(queue, cur, forced, p, t) /\ ~HoldsIn(queue', cur', forced', p, t)
      BY <1>1, <1>2, <1>3 DEF HoldsIn
    <2>2. OthersKept(p, t)
      BY <1>1, <1>2, <1>3 DEF HoldsIn, OthersKept
    <2>3. Waiting(status', forced') = Waiting(status, forced)
      BY <1>2
    <2> QED
      BY <1>2, <2>1, <2>2, <2>3, GiveMoved
  <1>4. CASE t \in forced \/ cur' = [cur EXCEPT ![p] = t]
    <2>1. \A u \in Tasks : \A r \in Processes :
              HoldsIn(queue', cur', forced', r, u) <=> HoldsIn(queue, cur, forced, r, u)
      BY <1>1, <1>2, <1>4 DEF HoldsIn
    <2> QED
      BY <1>2, <2>1, StillMoved
  <1> QED
    BY <1>2, <1>3, <1>4

(* An execution writes a row that does not wait. *)
LEMMA StartMoved ==
    ASSUME IInv, IInv', NEW p \in Processes, Start(p)
    PROVE  Moved
  <1>1. status \in [Tasks -> Status] /\ cur[p] \in Tasks
    BY DEF IInv, TypeOK, Hands, PhaseInv, Start
  <1>2. /\ UNCHANGED <<queue, cur, forced>>
        /\ status' = status \/ status' = [status EXCEPT ![cur[p]] = "running"]
    BY DEF Start, Write
  <1>3. CASE status' = status
    BY <1>2, <1>3, StillMoved
  <1>4. CASE status' = [status EXCEPT ![cur[p]] = "running"]
    BY <1>1, <1>2, <1>4, WriteMoved
  <1> QED
    BY <1>2, <1>3, <1>4

LEMMA ExecutionEndMoved ==
    ASSUME IInv, IInv', NEW p \in Processes, Complete(p) \/ Fail(p) \/ FailToStart(p)
    PROVE  Moved
  <1>1. cur[p] \in Tasks
    BY DEF IInv, TypeOK, Hands, PhaseInv, Complete, Fail, FailToStart
  <1>2. queue' = queue /\ forced' = forced /\ cur' = [cur EXCEPT ![p] = NoTask]
    BY DEF Complete, Fail, FailToStart, AfterTask
  <1>3. status' = status \/ \E new : status' = [status EXCEPT ![cur[p]] = new]
    BY DEF Complete, Fail, FailToStart, Recover, Write
  <1> QED
    BY <1>1, <1>2, <1>3, EndMoved

(* A process that ends or is killed lets go of everything. *)
LEMMA EmptiedMoved ==
    ASSUME IInv, IInv', NEW p \in Processes, Die(p) \/ Crash(p)
    PROVE  Moved
  <1> DEFINE S == {t \in Tasks : HoldsIn(queue, cur, forced, p, t)}
  <1>1. /\ queue \in [Processes -> SUBSET Tasks] /\ cur \in [Processes -> Tasks \cup {NoTask}]
        /\ NoTask \notin Tasks
    BY ProcessesAssumption DEF IInv, TypeOK
  <1>2. /\ queue' = [queue EXCEPT ![p] = {}] /\ cur' = [cur EXCEPT ![p] = NoTask]
        /\ UNCHANGED <<status, forced>>
    BY DEF Die, Crash
  <1>3. \A t \in Tasks : ~HoldsIn(queue', cur', forced', p, t)
    BY <1>1, <1>2 DEF HoldsIn
  <1>4. \A t \in Tasks : \A r \in Processes \ {p} :
              HoldsIn(queue', cur', forced', r, t) <=> HoldsIn(queue, cur, forced, r, t)
    BY <1>1, <1>2 DEF HoldsIn
  <1>5. S \in SUBSET Tasks /\ \A t \in Tasks : t \in S <=> HoldsIn(queue, cur, forced, p, t)
    OBVIOUS
  <1> HIDE DEF S
  <1>6. LetsGo(queue, cur, forced, queue', cur', forced', p, S)
    BY <1>3, <1>4, <1>5 DEF LetsGo
  <1>7. \A t \in Tasks : status'[t] = "pending" <=> status[t] = "pending"
    BY <1>2
  <1> QED
    BY <1>2, <1>5, <1>6, <1>7, DropMoved

(* A runner takes a task past the claim. *)
LEMMA HandedMoved ==
    ASSUME IInv, IInv', NEW p \in Processes, NEW t \in Tasks, pc[p] = "idle",
           queue' = [queue EXCEPT ![p] = {t}], forced' = forced \cup {t}, UNCHANGED <<status, cur>>
    PROVE  Moved
  <1>1. queue \in [Processes -> SUBSET Tasks] /\ queue[p] = {}
    BY DEF IInv, TypeOK, Hands, PhaseInv
  <1>2. \A u \in Tasks \ {t} : \A r \in Processes :
              HoldsIn(queue', cur', forced', r, u) <=> HoldsIn(queue, cur, forced, r, u)
    BY <1>1 DEF HoldsIn
  <1> QED
    BY <1>2, BypassMoved

(* An operator writes PENDING only by a requeue, which does nothing to the *)
(* queue when the row was read PENDING, makes a task wait that nobody has, *)
(* and takes a task that somebody has out of the queue for good.           *)
LEMMA CommitRequestMoved ==
    ASSUME IInv, IInv', NEW r \in Requests, CommitRequest(r)
    PROVE  Moved
  <1> DEFINE op == req[r].op
             t == req[r].task
             seen == req[r].seen
  <1>1. op \in Operations /\ t \in Tasks
    BY DEF IInv, TypeOK, CommitRequest
  <1>2. /\ UNCHANGED <<queue, cur>>
        /\ status' = IF Target(op) = seen THEN status ELSE [status EXCEPT ![t] = Target(op)]
        /\ forced' = IF op = "requeue" /\ seen # "pending" /\ Held(t)
                     THEN forced \cup {t} ELSE forced
    BY DEF CommitRequest, Write, procVars
  <1>3. Target(op) = "pending" <=> op = "requeue"
    BY <1>1, SettingsAssumption DEF Target
  <1>4. status \in [Tasks -> Status]
    BY DEF IInv, TypeOK
  <1> HIDE DEF op, t, seen
  <1>5. CASE Target(op) = seen
    <2>1. status' = status /\ forced' = forced
      BY <1>2, <1>3, <1>5
    <2> QED
      BY <1>2, <2>1, StillMoved
  <1>6. CASE Target(op) # seen /\ op = "requeue" /\ Held(t)
    <2>1. /\ forced' = forced \cup {t}
          /\ \A u \in Tasks \ {t} : status'[u] = status[u]
      BY <1>1, <1>2, <1>3, <1>4, <1>6
    <2>2. \A u \in Tasks \ {t} : \A p \in Processes :
              HoldsIn(queue', cur', forced', p, u) <=> HoldsIn(queue, cur, forced, p, u)
      BY <1>2, <2>1 DEF HoldsIn
    <2> QED
      BY <1>1, <2>1, <2>2, BypassMoved
  <1>7. CASE Target(op) # seen /\ ~(op = "requeue" /\ Held(t))
    <2>1. status' = [status EXCEPT ![t] = Target(op)] /\ forced' = forced
      BY <1>2, <1>7
    <2>2. Target(op) = "pending" => \A p \in Processes : ~HoldsIn(queue, cur, forced, p, t)
      BY <1>3, <1>7 DEF Held, Holds, HoldsIn
    <2> QED
      BY <1>1, <1>2, <2>1, <2>2, WriteMoved
  <1> QED
    BY <1>5, <1>6, <1>7

-----------------------------------------------------------------------------
(* Every step moves the queue as TaskQueue allows, or does not move it. *)
LEMMA StepMoved ==
    ASSUME IInv, IInv', [Next]_vars
    PROVE  Moved
  <1>1. CASE UNCHANGED vars
    BY <1>1, StillMoved DEF vars, procVars
  <1>2. ASSUME NEW t \in Tasks, CreateTask(t)
        PROVE  Moved
    <2>1. \A p \in Processes : ~HoldsIn(queue, cur, forced, p, t)
      BY <1>2, OneHand DEF CreateTask
    <2> QED
      BY <1>2, <2>1, WriteMoved DEF CreateTask, procVars
  <1>3. ASSUME NEW t \in Tasks, Submit(t)
        PROVE  Moved
    BY <1>3, StillMoved DEF Submit, procVars
  <1>4. ASSUME NEW w \in Workers, WorkerStep(w)
        PROVE  Moved
    <2>1. CASE Poll(w)
      BY <2>1, StillMoved DEF Poll
    <2>2. ASSUME NEW tn \in Tenants, CountRunning(w, tn)
          PROVE  Moved
      BY <2>2, StillMoved DEF CountRunning
    <2>3. CASE Claim(w)
      BY <2>3, StillMoved DEF Claim
    <2>4. CASE CommitClaims(w)
      BY <2>4, CommitClaimsMoved
    <2> QED
      BY <1>4, <2>1, <2>2, <2>3, <2>4 DEF WorkerStep
  <1>5. ASSUME NEW p \in Processes, ExecutionStep(p)
        PROVE  Moved
    BY <1>5, LoadMoved, StartMoved, ExecutionEndMoved, EmptiedMoved DEF ExecutionStep
  <1>6. ASSUME NEW p \in Processes, Crash(p)
        PROVE  Moved
    BY <1>6, EmptiedMoved
  <1>7. CASE RequestStep
    <2>1. ASSUME NEW r \in Requests, NEW op \in Operations, NEW t \in Tasks,
                 OpenRequest(r, op, t)
          PROVE  Moved
      BY <2>1, StillMoved DEF OpenRequest, procVars
    <2>2. ASSUME NEW r \in Requests, CommitRequest(r)
          PROVE  Moved
      BY <2>2, CommitRequestMoved
    <2> QED
      BY <1>7, <2>1, <2>2 DEF RequestStep
  <1>8. ASSUME NEW p \in Runners, NEW t \in Tasks, Deliver(p, t)
        PROVE  Moved
    BY <1>8, HandedMoved DEF Deliver, Processes
  <1>9. ASSUME NEW p \in Runners, NEW d \in submitted, DeliverLate(p, d)
        PROVE  Moved
    <2>1. d.task \in Tasks
      BY DEF IInv, TypeOK, Delivery
    <2> QED
      BY <1>9, <2>1, HandedMoved DEF DeliverLate, Processes
  <1> QED
    BY <1>1, <1>2, <1>3, <1>4, <1>5, <1>6, <1>7, <1>8, <1>9 DEF Next

LEMMA QueueInit == Init => Queue!Init
  <1> SUFFICES ASSUME Init PROVE Queue!Init
    OBVIOUS
  <1>1. {t \in Tasks \ forced : status[t] = "pending"} = {} /\ forced = {}
    BY DEF Init
  <1>2. \A t \in Tasks : ~Held(t)
    BY ProcessesAssumption DEF Init, Held, Holds
  <1>3. [t \in Tasks |-> Owner(t)] = [t \in Tasks |-> NoTask]
    BY <1>2 DEF Owner
  <1> QED
    BY <1>1, <1>3 DEF Queue!Init

(* The workers implement the queue of TaskQueue: a task that waits is      *)
(* taken by one process, in the step that takes it off the queue, and no   *)
(* other process has it until that one gives it back, lets go of it or is  *)
(* killed.  Excepted from then on are the tasks that went around the claim *)
(* of claim_pending_tasks: those dispatched straight to a runner, and      *)
(* those an operator requeued while a process had them.                    *)
THEOREM Refinement == Spec => ImplementsTaskQueue
  <1>1. IInv /\ IInv' /\ [Next]_vars => [Queue!Next]_(Queue!vars)
    BY StepMoved, MovesMap DEF Moved
  <1>2. Spec => Queue!Init /\ [][Queue!Next]_(Queue!vars)
    BY <1>1, QueueInit, Invariance, PTL DEF Spec
  <1> QED
    BY <1>2 DEF ImplementsTaskQueue, Queue!Spec

(* No task has left the queue for good. *)
NothingForced == forced = {}

(* Where the API dispatches nothing (there are no Runners) and nobody      *)
(* requeues, no task ever leaves the queue: cancel, pause and resume       *)
(* requests, failures, retries and crashes never force a task past the     *)
(* claim, and Refinement then speaks of every task.                        *)
THEOREM NothingOutside ==
    ASSUME Runners = {}, "requeue" \notin Operations
    PROVE  Spec => []NothingForced
  <1>1. IInv /\ NothingForced /\ [Next]_vars => NothingForced'
    <2> SUFFICES ASSUME IInv, forced = {}, [Next]_vars PROVE forced' = {}
      BY DEF NothingForced
    <2>1. ASSUME NEW r \in Requests, CommitRequest(r)
          PROVE  forced' = {}
      <3>1. req[r].op # "requeue"
        BY <2>1 DEF IInv, TypeOK, CommitRequest
      <3> QED
        BY <2>1, <3>1 DEF CommitRequest
    <2> QED
      BY <2>1 DEF Next, vars, CreateTask, Submit, WorkerStep, Poll, CountRunning, Claim,
                  CommitClaims, ExecutionStep, Load, Start, Complete, Fail, FailToStart, Die,
                  Crash, RequestStep, OpenRequest
  <1>2. Init => NothingForced
    BY DEF Init, NothingForced
  <1> QED
    BY <1>1, <1>2, Invariance, PTL DEF Spec
=============================================================================
