-------------------------- MODULE TaskQueueProofs --------------------------
(* The queue's promise for every set of tasks and processes.               *)
EXTENDS TaskQueue, TLAPS

IInv == TypeOK /\ WaitingHasNoOwner

LEMMA TakeKeeps ==
    ASSUME IInv, NEW p \in Processes, NEW S \in SUBSET Tasks, Take(p, S)
    PROVE  IInv'
  <1>1. TypeOK'
    BY DEF IInv, TypeOK, Take
  <1>2. WaitingHasNoOwner'
    BY DEF IInv, TypeOK, WaitingHasNoOwner, Take
  <1> QED
    BY <1>1, <1>2 DEF IInv

LEMMA StepKeeps == IInv /\ [Next]_vars => IInv'
  <1> SUFFICES ASSUME IInv, [Next]_vars PROVE IInv'
    OBVIOUS
  <1> USE DEF IInv, TypeOK, WaitingHasNoOwner
  <1>1. ASSUME NEW t \in Tasks, Enqueue(t) \/ Withdraw(t) \/ Bypass(t)
        PROVE  IInv'
    BY <1>1 DEF Enqueue, Withdraw, Bypass
  <1>2. ASSUME NEW p \in Processes, NEW S \in SUBSET Tasks, LetGo(p, S)
        PROVE  IInv'
    BY <1>2 DEF LetGo
  <1>3. ASSUME NEW p \in Processes, NEW t \in Tasks, GiveBack(p, t)
        PROVE  IInv'
    BY <1>3 DEF GiveBack
  <1>4. CASE UNCHANGED vars
    BY <1>4 DEF vars
  <1> QED
    BY <1>1, <1>2, <1>3, <1>4, TakeKeeps DEF Next

(* Between two owners a task has been nobody's. *)
THEOREM Handover == Spec => NoTakeover
  <1>1. Init => IInv
    BY DEF Init, IInv, TypeOK, WaitingHasNoOwner
  <1>2. IInv /\ [Next]_vars =>
          [\A t \in Tasks : owner[t] # Nobody => owner'[t] \in {owner[t], Nobody}]_vars
    BY DEF IInv, TypeOK, WaitingHasNoOwner, Next, vars, Enqueue, Withdraw, Bypass, Take, GiveBack, LetGo
  <1> QED
    BY <1>1, <1>2, StepKeeps, PTL DEF Spec, NoTakeover
=============================================================================
