---------------------------- MODULE AgentWorkflow ----------------------------
(***************************************************************************)
(* The graph of agents that an execution runs                              *)
(* (agents/langgraph_compatible.py, LangGraphCompatibleRunner) and the     *)
(* requests of /platform/workflows that invoke, step, resume, roll back    *)
(* and pause its snapshots.                                                *)
(*                                                                         *)
(* The snapshots are in a dictionary of the class, so all requests of a    *)
(* process change the same objects.  Nothing locks one: a request reads    *)
(* next_node, waits for an agent and then writes what it makes of its own  *)
(* node, whatever became of the snapshot meanwhile.  One action is what    *)
(* the event loop runs between two waits.                                  *)
(***************************************************************************)
EXTENDS Naturals, FiniteSets

CONSTANTS
    Snapshots,
    Requests,           \* requests that may be in flight at once
    UserBreakpoints,    \* choices of breakpoints in a call of invoke
    MaxCalls,           \* bound: calls of the runner
    None

\* NODE_SEQUENCE; a node is its place in it.
Nodes == 1 .. 6
DataCollection == 1
MarketAnalysis == 2
ProductPlanning == 3
ReportGeneration == 6
DefaultBreakpoints == {4, 5}    \* commercial_evaluation, risk_assessment
MaxRevisions == 2               \* MAX_PRODUCT_PLANNING_REVISIONS

\* business_status of the final output.
Verdicts == {"ABORT_MARKET", "TERMINATE", "PROCEED"}

ASSUME WorkflowAssumption ==
    /\ MaxCalls \in Nat
    /\ UserBreakpoints \subseteq SUBSET Nodes

VARIABLES
    snap,       \* SNAPSHOT_STORE, with the entry of COST_STORE
    req,        \* what each request is waiting for, or None
    calls,
    disturbed,  \* history: snapshots rolled back beyond their results or during an execution
    stepped     \* history: snapshots that were run from a breakpoint or in steps

vars == <<snap, req, calls, disturbed, stepped>>

Statuses == {"running", "waiting_human_input", "paused", "terminated", "rolled_back", "completed"}
\* What the score of a node says: below the threshold of its gate, or not; a
\* failed agent has no score and passes.
Outcomes(n) == IF n \in {MarketAnalysis, ProductPlanning} THEN {"passed", "low"} ELSE {"passed"}
Snapshot == [status : Statuses, current : Nodes, next : Nodes \cup {None}, waiting : BOOLEAN,
             breakpoints : SUBSET Nodes,
             results : [Nodes -> {"passed", "low", None}],
             log : [Nodes -> Nat],      \* entries of execution_log
             agents : SUBSET Nodes,     \* nodes with a cost
             total : Nat,               \* executions that were paid for
             final : Verdicts \cup {None}]
\* A compiled workflow first loads the historical context.
Request == [of : Snapshots, kind : {"compiled", "run", "step"}, loading : BOOLEAN,
            node : Nodes, revisions : 0 .. MaxRevisions]

ASSUME NoneAssumption ==
    /\ None \notin Nodes
    /\ None \notin {"passed", "low"} \cup Verdicts
    /\ None \notin Snapshot /\ None \notin Request

Init ==
    /\ snap = [s \in Snapshots |-> None]
    /\ req = [r \in Requests |-> None]
    /\ calls = 0
    /\ disturbed = {} /\ stepped = {}

Exists(s) == snap[s] # None
Has(s, n) == snap[s].results[n] # None
InFlight(s) == \E r \in Requests : req[r] # None /\ req[r].of = s

Call == calls < MaxCalls /\ calls' = calls + 1
Waits(r, s, kind, n) ==
    /\ req[r] = None
    /\ req' = [req EXCEPT ![r] = [of |-> s, kind |-> kind, loading |-> kind = "compiled",
                                  node |-> n, revisions |-> 0]]
Kind(single) == IF single THEN "step" ELSE "run"

Created(breakpoints) ==
    [status |-> "running", current |-> DataCollection, next |-> DataCollection, waiting |-> FALSE,
     breakpoints |-> breakpoints \cup DefaultBreakpoints,
     results |-> [n \in Nodes |-> None], log |-> [n \in Nodes |-> 0],
     agents |-> {}, total |-> 0, final |-> None]

\* Without breakpoints and steps the workflow runs compiled, past the default
\* breakpoints; otherwise from the snapshot.
Invoke(r, s, breakpoints, single) ==
    /\ ~Exists(s) /\ Call
    /\ snap' = [snap EXCEPT ![s] = Created(breakpoints)]
    /\ \/ /\ ~single /\ breakpoints = {}
          /\ Waits(r, s, "compiled", DataCollection)
          /\ UNCHANGED stepped
       \/ /\ single \/ breakpoints # {}
          /\ Waits(r, s, Kind(single), DataCollection)
          /\ stepped' = stepped \cup {s}
    /\ UNCHANGED disturbed

\* A call of step or resume leaves a pause and takes what a person said.
Woken(c, told) ==
    [c EXCEPT !.status = IF @ = "paused" THEN "running" ELSE @,
              !.waiting = IF c.status = "paused" \/ told THEN FALSE ELSE @]

\* Whatever the status is, the run starts at next_node, or from the beginning
\* if there is none.
Proceed(r, s, told, single) ==
    LET start == IF snap[s].next = None THEN DataCollection ELSE snap[s].next IN
    /\ Exists(s) /\ Call
    /\ Waits(r, s, Kind(single), start)
    /\ snap' = [snap EXCEPT ![s] = [Woken(@, told) EXCEPT !.current = start, !.next = start]]
    /\ stepped' = stepped \cup {s}
    /\ UNCHANGED disturbed

Step(r, s) == Proceed(r, s, FALSE, TRUE)
Resume(r, s, told) == Proceed(r, s, told, FALSE)

\* resume with the input "terminate" returns at once.
Terminate(s) ==
    /\ Exists(s) /\ Call
    /\ snap' = [snap EXCEPT ![s] = [Woken(@, TRUE) EXCEPT !.status = "terminated"]]
    /\ UNCHANGED <<req, disturbed, stepped>>

Pause(s) ==
    /\ Exists(s) /\ snap[s].status \in {"running", "waiting_human_input"} /\ Call
    /\ snap' = [snap EXCEPT ![s].status = "paused", ![s].waiting = TRUE]
    /\ UNCHANGED <<req, disturbed, stepped>>

\* The mutants keep the log and the costs of what is rolled back, or clear
\* the target and leave what comes after it.
RolledBackKeepsCost(c, target) ==
    LET kept == 1 .. target - 1 IN
    [c EXCEPT !.results = [n \in Nodes |-> IF n \in kept THEN @[n] ELSE None],
              !.log = [n \in Nodes |-> IF n \in kept THEN @[n] ELSE 0],
              !.final = None, !.waiting = FALSE, !.status = "rolled_back",
              !.current = target, !.next = target]
RolledBackTargetOnly(c, target) ==
    [c EXCEPT !.results[target] = None, !.log[target] = 0,
              !.agents = @ \ {target}, !.total = Cardinality(c.agents \ {target}),
              !.final = None, !.waiting = FALSE, !.status = "rolled_back",
              !.current = target, !.next = target]
\* What is before the target stays; the total is added up from the nodes that
\* are left, each of which has the cost of its last execution only.
RolledBack(c, target) ==
    LET kept == 1 .. target - 1 IN
    [c EXCEPT !.results = [n \in Nodes |-> IF n \in kept THEN @[n] ELSE None],
              !.log = [n \in Nodes |-> IF n \in kept THEN @[n] ELSE 0],
              !.agents = @ \cap kept,
              !.total = Cardinality(c.agents \cap kept),
              !.final = None, !.waiting = FALSE, !.status = "rolled_back",
              !.current = target, !.next = target]

\* Any node may be the target, reached or not.
Rollback(s, target) ==
    /\ Exists(s) /\ Call
    /\ snap' = [snap EXCEPT ![s] = RolledBack(@, target)]
    /\ disturbed' = IF InFlight(s) \/ \E n \in 1 .. target - 1 : ~Has(s, n)
                    THEN disturbed \cup {s} ELSE disturbed
    /\ UNCHANGED <<req, stepped>>

-----------------------------------------------------------------------------
\* What a request does when its agent has answered.

Recorded(c, n, outcome) ==
    [c EXCEPT !.results = [@ EXCEPT ![n] = outcome], !.log = [@ EXCEPT ![n] = c.log[n] + 1],
              !.agents = @ \cup {n}, !.total = @ + 1]
At(c, n) == [c EXCEPT !.current = n, !.next = n]
AfterLast(n) == n + 1           \* the mutant: no end of the list
After(n) == IF n = ReportGeneration THEN None ELSE n + 1

Return(r) == req' = [req EXCEPT ![r] = None]
GoOn(r, n) == req' = [req EXCEPT ![r].node = n]

\* The rest of one round of the loop of _run_from_snapshot.
Advanced(c, n) ==
    [c EXCEPT !.next = After(n), !.status = IF After(n) = None THEN "completed" ELSE "running"]

AnswerStep(r, s, n, outcome) ==
    /\ req[r].kind = "step"
    /\ snap' = [snap EXCEPT ![s] = Advanced(Recorded(@, n, outcome), n)]
    /\ Return(r)

AnswerRun(r, s, n, outcome) ==
    LET advanced == Advanced(Recorded(snap[s], n, outcome), n) IN
    /\ req[r].kind = "run"
    /\ \/ /\ n = ReportGeneration
          /\ snap' = [snap EXCEPT ![s] = [advanced EXCEPT !.waiting = FALSE]]
          /\ Return(r)
       \/ /\ n # ReportGeneration /\ n + 1 \in snap[s].breakpoints
          /\ snap' = [snap EXCEPT ![s] = [At(advanced, n + 1) EXCEPT
                            !.waiting = TRUE, !.status = "waiting_human_input"]]
          /\ Return(r)
       \/ /\ n # ReportGeneration /\ n + 1 \notin snap[s].breakpoints
          /\ snap' = [snap EXCEPT ![s] = At(advanced, n + 1)]
          /\ GoOn(r, n + 1)

\* The mutant counts the plan that comes after the revisions.
EndsLater(r, n, outcome) ==
    IF n = MarketAnalysis /\ outcome = "low" THEN "ABORT_MARKET"
    ELSE IF n = ProductPlanning /\ outcome = "low" /\ req[r].revisions >= MaxRevisions
         THEN "TERMINATE"
    ELSE IF n = ReportGeneration THEN "PROCEED"
    ELSE None
\* The gates of a compiled workflow: what ends it, and what has it plan again.
EndsWith(r, n, outcome) ==
    IF n = MarketAnalysis /\ outcome = "low" THEN "ABORT_MARKET"
    ELSE IF n = ProductPlanning /\ outcome = "low" /\ req[r].revisions + 1 >= MaxRevisions
         THEN "TERMINATE"
    ELSE IF n = ReportGeneration THEN "PROCEED"
    ELSE None
Revises(n, outcome) == n = ProductPlanning /\ outcome = "low"

\* _build_final_response
Finished(c, n, verdict) ==
    [c EXCEPT !.status = "completed", !.current = n, !.next = None, !.waiting = FALSE,
              !.final = verdict]

AnswerCompiled(r, s, n, outcome) ==
    LET recorded == Recorded(snap[s], n, outcome)
        verdict == EndsWith(r, n, outcome)
    IN
    /\ req[r].kind = "compiled" /\ ~req[r].loading
    /\ \/ /\ verdict # None
          /\ snap' = [snap EXCEPT ![s] = Finished(recorded, n, verdict)]
          /\ Return(r)
       \/ /\ verdict = None /\ Revises(n, outcome)
          /\ snap' = [snap EXCEPT ![s] = At(recorded, n)]
          /\ req' = [req EXCEPT ![r].revisions = @ + 1]
       \/ /\ verdict = None /\ ~Revises(n, outcome)
          /\ snap' = [snap EXCEPT ![s] = At(recorded, n + 1)]
          /\ GoOn(r, n + 1)

Answer(r) ==
    /\ req[r] # None
    /\ LET s == req[r].of  n == req[r].node IN
       \E outcome \in Outcomes(n) :
          AnswerStep(r, s, n, outcome) \/ AnswerRun(r, s, n, outcome) \/ AnswerCompiled(r, s, n, outcome)
    /\ UNCHANGED <<calls, disturbed, stepped>>

\* The historical context has come; the first node follows.
Load(r) ==
    /\ req[r] # None /\ req[r].loading
    /\ req' = [req EXCEPT ![r].loading = FALSE]
    /\ snap' = [snap EXCEPT ![req[r].of] = At(@, DataCollection)]
    /\ UNCHANGED <<calls, disturbed, stepped>>

\* An exception outside an agent, or the time limit of the task the workflow
\* is run for; the snapshot stays as it is.
Break(r) ==
    /\ req[r] # None
    /\ Return(r)
    /\ UNCHANGED <<snap, calls, disturbed, stepped>>

Next ==
    \/ \E r \in Requests, s \in Snapshots :
          \/ \E b \in UserBreakpoints, single \in BOOLEAN : Invoke(r, s, b, single)
          \/ Step(r, s)
          \/ \E told \in BOOLEAN : Resume(r, s, told)
    \/ \E s \in Snapshots :
          \/ Terminate(s)
          \/ Pause(s)
          \/ \E target \in Nodes : Rollback(s, target)
    \/ \E r \in Requests : Load(r) \/ Answer(r) \/ Break(r)

Spec == Init /\ [][Next]_vars

-----------------------------------------------------------------------------
\* The store and the requests have the values that the code gives them.
TypeOK ==
    /\ snap \in [Snapshots -> Snapshot \cup {None}]
    /\ req \in [Requests -> Request \cup {None}]
    /\ calls \in 0 .. MaxCalls
    /\ disturbed \subseteq Snapshots /\ stepped \subseteq Snapshots

Executions(c) == c.log[1] + c.log[2] + c.log[3] + c.log[4] + c.log[5] + c.log[6]

(* The results, the execution log and the costs are of the same nodes, and *)
(* what the workflow has cost covers every node once and no execution that *)
(* the log does not have, whatever is rolled back during an execution      *)
(* (_run_from_snapshot, run_node, rollback).                               *)
StoresAgree ==
    \A s \in Snapshots : Exists(s) =>
        LET c == snap[s] IN
        /\ c.agents = {n \in Nodes : Has(s, n)}
        /\ c.agents = {n \in Nodes : c.log[n] > 0}
        /\ Cardinality(c.agents) <= c.total
        /\ c.total <= Executions(c)

(* The nodes that have a result are the first ones, up to the last that    *)
(* was run if the workflow is completed, though requests may repeat nodes  *)
(* and set next_node back for each other.  Only a rollback may break it:   *)
(* of a snapshot that is being executed, or to a node that was not         *)
(* reached yet.                                                            *)
ResultsInOrder ==
    \A s \in Snapshots : Exists(s) /\ s \notin disturbed =>
        /\ \A n \in Nodes : Has(s, n) => \A m \in 1 .. n : Has(s, m)
        /\ snap[s].status = "completed" => \A m \in 1 .. snap[s].current : Has(s, m)

(* The gates hold in the store as well: a snapshot that only a compiled    *)
(* workflow has run has nothing behind a low score of the market, at most  *)
(* MaxRevisions plans and nothing behind a low one, and its final output   *)
(* says how its results end.  Steps and resumes heed no gate, and they     *)
(* leave a final output that they overtake (_run_compiled_workflow,        *)
(* _build_final_response, _run_from_snapshot).                             *)
GatesHold ==
    \A s \in Snapshots : Exists(s) /\ s \notin disturbed \cup stepped =>
        LET c == snap[s] IN
        /\ Has(s, ProductPlanning) => c.results[MarketAnalysis] = "passed"
        /\ Has(s, ProductPlanning + 1) => c.results[ProductPlanning] = "passed"
        /\ c.log[ProductPlanning] <= MaxRevisions
        /\ c.final = "ABORT_MARKET" => c.results[MarketAnalysis] = "low"
        /\ c.final = "TERMINATE" =>
              c.results[ProductPlanning] = "low" /\ c.log[ProductPlanning] = MaxRevisions
        /\ c.final = "PROCEED" => \A n \in Nodes : c.results[n] = "passed"
=============================================================================
