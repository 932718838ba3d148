-------------------------- MODULE MCSelectionTask --------------------------
(* Instances of SelectionTask for TLC: which tenant each task belongs to,  *)
(* and the symmetry of processes and requests.                             *)
EXTENDS SelectionTask, TLC

CONSTANTS t1, t2, t3, tenantA, tenantB

OneTenant == [t \in Tasks |-> tenantA]
TwoTenants == [t \in Tasks |-> IF t = t1 THEN tenantA ELSE tenantB]

WorkerSymmetry == Permutations(Workers)
=============================================================================
