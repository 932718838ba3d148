----------------------- MODULE RecommendationLifecycle -----------------------
(***************************************************************************)
(* What the recommendation pool (services/recommendation_pool_service.py)  *)
(* promises to those who read the states of its table: no sessions, no     *)
(* copies, no events.                                                      *)
(*                                                                         *)
(* A recommendation follows the state table.  It is in a state of the      *)
(* execution only after an approval, and in one of the ERP only after the  *)
(* ERP was sent its suggestion.  Where requests overlapped and one wrote   *)
(* over a row newer than its copy, the table no longer binds the next      *)
(* state; approval and submission still do, and it is not a proposal       *)
(* again.                                                                  *)
(***************************************************************************)
EXTENDS Naturals

CONSTANTS
    Recs,        \* recommendations
    Moves,       \* the states that may follow each state
    None         \* the state of one that does not exist

VARIABLES
    state,       \* the state of each recommendation
    submitted,   \* those of which the ERP was sent the suggestion
    approved,    \* somebody in the PMS approved it
    contested    \* a request wrote over what another one had written

vars == <<state, submitted, approved, contested>>

BeforeApproval == {"SUGGESTED", "PMS_REJECTED"}
BeforeErp == BeforeApproval \cup {"PMS_APPROVED", "EXECUTION_FAILED"}
Exists(r) == state[r] # None

Init ==
    /\ state = [r \in Recs |-> None]
    /\ submitted = {}
    /\ approved = [r \in Recs |-> FALSE]
    /\ contested = [r \in Recs |-> FALSE]

\* create_recommendation.
Propose(r) ==
    /\ ~Exists(r)
    /\ state' = [state EXCEPT ![r] = "SUGGESTED"]
    /\ UNCHANGED <<submitted, approved, contested>>

\* push_suggestion_to_erp calls the client of the domain.
Submit(r) ==
    /\ Exists(r)
    /\ submitted' = submitted \cup {r}
    /\ UNCHANGED <<state, approved, contested>>

\* Two requests have read the same row and both write it.
Contest(r) ==
    /\ Exists(r)
    /\ contested' = [contested EXCEPT ![r] = TRUE]
    /\ UNCHANGED <<state, submitted, approved>>

\* _transition, and the commit of its request.
Move(r, new) ==
    /\ Exists(r)
    /\ new \in Moves[state[r]] \/ (contested[r] /\ \E s \in DOMAIN Moves : new \in Moves[s])
    /\ new \notin BeforeErp => r \in submitted
    /\ new \notin BeforeApproval \cup {"PMS_APPROVED"} => approved[r]
    /\ state' = [state EXCEPT ![r] = new]
    /\ approved' = [approved EXCEPT ![r] = @ \/ new = "PMS_APPROVED"]
    /\ UNCHANGED <<submitted, contested>>

Next ==
    \E r \in Recs :
        \/ Propose(r) \/ Submit(r) \/ Contest(r)
        \/ \E new \in DOMAIN Moves : Move(r, new)

Spec == Init /\ [][Next]_vars
=============================================================================
