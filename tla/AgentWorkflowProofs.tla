------------------------ MODULE AgentWorkflowProofs ------------------------
(***************************************************************************)
(* What steps, resumes, rollbacks and compiled runs keep of a snapshot,    *)
(* for any number of snapshots, requests and calls.                        *)
(***************************************************************************)
EXTENDS AgentWorkflow, FiniteSetTheorems, TLAPS

(* The first k nodes have a result. *)
Filled(c, k) == \A m \in 1 .. k : c.results[m] # None

(* A snapshot has at most one compiled run, and only that if it was never  *)
(* stepped.                                                                *)
Hands ==
    \A r \in Requests : req[r] # None =>
        /\ Exists(req[r].of)
        /\ req[r].kind = "compiled" \/ req[r].of \in stepped
        /\ req[r].loading => req[r].kind = "compiled"
        /\ \A q \in Requests :
              /\ req[q] # None /\ req[q].of = req[r].of
              /\ req[r].kind = "compiled" /\ req[q].kind = "compiled"
              => r = q

(* next_node is the first node without a result or one before it; if the   *)
(* workflow is completed, so is what the snapshot points to.               *)
InOrder(c) ==
    /\ \A n \in Nodes : c.results[n] # None => Filled(c, n)
    /\ c.next # None => Filled(c, c.next - 1)
    /\ c.status = "completed" =>
          Filled(c, c.current) /\ (c.next # None => Filled(c, c.next))

(* A request runs a node only behind others that have a result.  A         *)
(* compiled run outlives a completion only by the last node.               *)
Follows(c, q) ==
    /\ Filled(c, q.node - 1)
    /\ q.kind = "compiled" /\ c.status = "completed" => Filled(c, ReportGeneration)

Orderly(s) ==
    /\ InOrder(snap[s])
    /\ \A r \in Requests : req[r] # None /\ req[r].of = s => Follows(snap[s], req[r])
Order == \A s \in Snapshots : Exists(s) /\ s \notin disturbed => Orderly(s)

(* How far the compiled run q of a snapshot has come. *)
Reached(c, q) ==
    /\ c.final = None
    /\ \A n \in 1 .. q.node - 1 : c.results[n] = "passed"
    /\ \A n \in Nodes : c.results[n] # None =>
          n < q.node \/ (n = q.node /\ n = ProductPlanning /\ q.revisions > 0)
    /\ q.node <= ProductPlanning => c.log[ProductPlanning] = q.revisions
    /\ q.revisions < MaxRevisions

(* What GatesHold says of one snapshot. *)
Gated(c) ==
    /\ c.results[ProductPlanning] # None => c.results[MarketAnalysis] = "passed"
    /\ c.results[ProductPlanning + 1] # None => c.results[ProductPlanning] = "passed"
    /\ c.log[ProductPlanning] <= MaxRevisions
    /\ c.final = "ABORT_MARKET" => c.results[MarketAnalysis] = "low"
    /\ c.final = "TERMINATE" =>
          c.results[ProductPlanning] = "low" /\ c.log[ProductPlanning] = MaxRevisions
    /\ c.final = "PROCEED" => \A n \in Nodes : c.results[n] = "passed"

Guarded(s) ==
    /\ Gated(snap[s])
    /\ \A r \in Requests : req[r] # None /\ req[r].of = s => Reached(snap[s], req[r])
Gates == \A s \in Snapshots : Exists(s) /\ s \notin disturbed \cup stepped => Guarded(s)

IInv == TypeOK /\ Hands /\ Order /\ Gates /\ StoresAgree

-----------------------------------------------------------------------------
(* What the operators on a snapshot do to it. *)

(* d is c in another place or another status. *)
Same(c, d) ==
    /\ d \in Snapshot
    /\ d.results = c.results /\ d.log = c.log /\ d.agents = c.agents /\ d.total = c.total

(* d is c after one more execution of n. *)
Adds(c, d, n, outcome) ==
    /\ d \in Snapshot
    /\ d.results = [c.results EXCEPT ![n] = outcome]
    /\ d.log = [c.log EXCEPT ![n] = @ + 1]
    /\ d.agents = c.agents \cup {n}
    /\ d.total = c.total + 1

LEMMA NodesFinite == IsFiniteSet(Nodes)
  <1>1. 1 \in Int /\ 6 \in Int
    OBVIOUS
  <1>2. IsFiniteSet(1 .. 6)
    BY <1>1, FS_Interval, Zenon
  <1> QED
    BY <1>2, Zenon DEF Nodes

LEMMA OutcomesType == \A n \in Nodes : Outcomes(n) \subseteq {"passed", "low"}
  BY DEF Outcomes

LEMMA AfterType ==
    \A n \in Nodes : /\ After(n) \in Nodes \cup {None}
                     /\ After(n) = None <=> n = ReportGeneration
                     /\ n # ReportGeneration => After(n) = n + 1 /\ n + 1 \in Nodes
  BY NoneAssumption DEF After, Nodes, ReportGeneration

LEMMA CreatedFacts ==
    ASSUME NEW b \in SUBSET Nodes
    PROVE  /\ Created(b) \in Snapshot
           /\ Created(b).status = "running"
           /\ Created(b).current = DataCollection /\ Created(b).next = DataCollection
           /\ Created(b).results = [n \in Nodes |-> None] /\ Created(b).log = [n \in Nodes |-> 0]
           /\ Created(b).agents = {} /\ Created(b).total = 0 /\ Created(b).final = None
  BY DEF Created, Snapshot, Statuses, Nodes, DataCollection, DefaultBreakpoints

LEMMA WokenFacts ==
    ASSUME NEW c \in Snapshot, NEW told \in BOOLEAN
    PROVE  /\ Same(c, Woken(c, told))
           /\ Woken(c, told).status = IF c.status = "paused" THEN "running" ELSE c.status
           /\ Woken(c, told).current = c.current /\ Woken(c, told).next = c.next
           /\ Woken(c, told).final = c.final
  <1> DEFINE S == IF c.status = "paused" THEN "running" ELSE c.status
             W == IF c.status = "paused" \/ told THEN FALSE ELSE c.waiting
  <1>1. Woken(c, told) = [c EXCEPT !.status = S, !.waiting = W]
    BY Zenon DEF Woken
  <1>2. S \in Statuses
    BY DEF Snapshot, Statuses
  <1>3. c.waiting \in BOOLEAN
    BY DEF Snapshot
  <1>4. W \in BOOLEAN
    BY <1>3, Zenon
  <1>5. S = IF c.status = "paused" THEN "running" ELSE c.status
    OBVIOUS
  <1> HIDE DEF S, W
  <1> QED
    BY <1>1, <1>2, <1>4, <1>5 DEF Same, Snapshot

Proceeded(c, told, start) == [Woken(c, told) EXCEPT !.current = start, !.next = start]

LEMMA ProceededFacts ==
    ASSUME NEW c \in Snapshot, NEW told \in BOOLEAN, NEW start \in Nodes
    PROVE  /\ Same(c, Proceeded(c, told, start))
           /\ Proceeded(c, told, start).status = IF c.status = "paused" THEN "running" ELSE c.status
           /\ Proceeded(c, told, start).current = start /\ Proceeded(c, told, start).next = start
           /\ Proceeded(c, told, start).final = c.final
  <1> DEFINE w == Woken(c, told)
  <1>1. /\ Same(c, w) /\ w.status = IF c.status = "paused" THEN "running" ELSE c.status
        /\ w.final = c.final
    BY WokenFacts
  <1>2. Proceeded(c, told, start) = [w EXCEPT !.current = start, !.next = start]
    BY DEF Proceeded
  <1> HIDE DEF w
  <1>3. w \in Snapshot
    BY <1>1 DEF Same
  <1> DEFINE d == Proceeded(c, told, start)
  <1>4. /\ d \in Snapshot /\ d.current = start /\ d.next = start
        /\ d.status = w.status /\ d.final = w.final
        /\ d.results = w.results /\ d.log = w.log /\ d.agents = w.agents /\ d.total = w.total
    BY <1>2, <1>3 DEF Snapshot
  <1> HIDE DEF d
  <1>5. /\ Same(c, d) /\ d.current = start /\ d.next = start /\ d.final = c.final
        /\ d.status = IF c.status = "paused" THEN "running" ELSE c.status
    BY <1>1, <1>4 DEF Same
  <1> QED
    BY <1>5 DEF d

LEMMA RolledBackFacts ==
    ASSUME NEW c \in Snapshot, NEW target \in Nodes
    PROVE  LET d == RolledBack(c, target)
               kept == 1 .. target - 1 IN
           /\ d \in Snapshot
           /\ d.results = [n \in Nodes |-> IF n \in kept THEN c.results[n] ELSE None]
           /\ d.log = [n \in Nodes |-> IF n \in kept THEN c.log[n] ELSE 0]
           /\ d.agents = c.agents \cap kept
           /\ d.total = Cardinality(c.agents \cap kept)
           /\ d.final = None /\ d.status = "rolled_back"
           /\ d.current = target /\ d.next = target
  <1>1. IsFiniteSet(Nodes)
    BY NodesFinite
  <1>2. IsFiniteSet(c.agents \cap 1 .. target - 1)
    BY <1>1, FS_Subset DEF Snapshot
  <1>3. Cardinality(c.agents \cap 1 .. target - 1) \in Nat
    BY <1>2, FS_CardinalityType
  <1> DEFINE R == [n \in Nodes |-> IF n \in 1 .. target - 1 THEN c.results[n] ELSE None]
             L == [n \in Nodes |-> IF n \in 1 .. target - 1 THEN c.log[n] ELSE 0]
             A == c.agents \cap 1 .. target - 1
             T == Cardinality(A)
  <1>4. R \in [Nodes -> {"passed", "low", None}] /\ L \in [Nodes -> Nat] /\ A \subseteq Nodes
    BY DEF Snapshot
  <1>5. RolledBack(c, target) =
            [c EXCEPT !.results = R, !.log = L, !.agents = A, !.total = T, !.final = None,
                      !.waiting = FALSE, !.status = "rolled_back", !.current = target, !.next = target]
    BY Zenon DEF RolledBack
  <1> HIDE DEF R, L, A, T
  <1>6. T \in Nat
    BY <1>3 DEF A, T
  <1>7. LET d == RolledBack(c, target) IN
        /\ d \in Snapshot
        /\ d.results = R /\ d.log = L /\ d.agents = A /\ d.total = T
        /\ d.final = None /\ d.status = "rolled_back" /\ d.current = target /\ d.next = target
    BY <1>4, <1>5, <1>6 DEF Snapshot, Statuses
  <1> QED
    BY <1>7 DEF R, L, A, T

LEMMA RecordedFacts ==
    ASSUME NEW c \in Snapshot, NEW n \in Nodes, NEW outcome \in {"passed", "low"}
    PROVE  LET d == Recorded(c, n, outcome) IN
           /\ Adds(c, d, n, outcome)
           /\ d.status = c.status /\ d.current = c.current /\ d.next = c.next /\ d.final = c.final
           /\ d.breakpoints = c.breakpoints
  <1> DEFINE R == [c.results EXCEPT ![n] = outcome]
             L == [c.log EXCEPT ![n] = c.log[n] + 1]
             A == c.agents \cup {n}
             T == c.total + 1
  <1>1. /\ R \in [Nodes -> {"passed", "low", None}] /\ L \in [Nodes -> Nat]
        /\ A \subseteq Nodes /\ T \in Nat
    BY DEF Snapshot
  <1>2. Recorded(c, n, outcome) = [c EXCEPT !.results = R, !.log = L, !.agents = A, !.total = T]
    BY Zenon DEF Recorded
  <1> HIDE DEF R, L, A, T
  <1>3. LET d == Recorded(c, n, outcome) IN
        /\ d \in Snapshot
        /\ d.results = R /\ d.log = L /\ d.agents = A /\ d.total = T
        /\ d.status = c.status /\ d.current = c.current /\ d.next = c.next /\ d.final = c.final
        /\ d.breakpoints = c.breakpoints
    BY <1>1, <1>2 DEF Snapshot
  <1> QED
    BY <1>3 DEF Adds, R, L, A, T

LEMMA AtFacts ==
    ASSUME NEW c \in Snapshot, NEW n \in Nodes
    PROVE  /\ Same(c, At(c, n))
           /\ At(c, n).status = c.status /\ At(c, n).final = c.final
           /\ At(c, n).current = n /\ At(c, n).next = n
  BY DEF At, Same, Snapshot

LEMMA AdvancedFacts ==
    ASSUME NEW c \in Snapshot, NEW n \in Nodes
    PROVE  LET d == Advanced(c, n) IN
           /\ Same(c, d)
           /\ d.status = IF n = ReportGeneration THEN "completed" ELSE "running"
           /\ d.current = c.current /\ d.next = After(n) /\ d.final = c.final
  BY AfterType DEF Advanced, Same, Snapshot, Statuses

LEMMA FinishedFacts ==
    ASSUME NEW c \in Snapshot, NEW n \in Nodes, NEW verdict \in Verdicts
    PROVE  LET d == Finished(c, n, verdict) IN
           /\ Same(c, d)
           /\ d.status = "completed" /\ d.current = n /\ d.next = None /\ d.final = verdict
  BY DEF Finished, Same, Snapshot, Statuses

-----------------------------------------------------------------------------
(* What an answer does: c becomes d, by the kind of the run. *)

StepEnds(r, c, d, n) ==
    /\ req[r].kind = "step"
    /\ d.status = (IF n = ReportGeneration THEN "completed" ELSE "running")
    /\ d.current = c.current /\ d.next = After(n) /\ d.final = c.final
    /\ Return(r)

RunEnds(r, c, d, n) ==
    /\ req[r].kind = "run" /\ n = ReportGeneration
    /\ d.status = "completed"
    /\ d.current = c.current /\ d.next = None /\ d.final = c.final
    /\ Return(r)

RunGoesOn(r, c, d, n) ==
    /\ req[r].kind = "run" /\ n # ReportGeneration
    /\ d.status \in {"running", "waiting_human_input"}
    /\ d.current = n + 1 /\ d.next = n + 1 /\ d.final = c.final
    /\ Return(r) \/ GoOn(r, n + 1)

CompiledEnds(r, d, n, outcome) ==
    /\ req[r].kind = "compiled"
    /\ EndsWith(r, n, outcome) \in Verdicts
    /\ d.status = "completed" /\ d.current = n /\ d.next = None
    /\ d.final = EndsWith(r, n, outcome)
    /\ Return(r)

CompiledRevises(r, c, d, n, outcome) ==
    /\ req[r].kind = "compiled"
    /\ n = ProductPlanning /\ outcome = "low" /\ req[r].revisions + 1 < MaxRevisions
    /\ d.status = c.status /\ d.current = n /\ d.next = n /\ d.final = c.final
    /\ req' = [req EXCEPT ![r].revisions = @ + 1]

CompiledGoesOn(r, c, d, n, outcome) ==
    /\ req[r].kind = "compiled"
    /\ n # ReportGeneration /\ outcome = "passed"
    /\ d.status = c.status /\ d.current = n + 1 /\ d.next = n + 1 /\ d.final = c.final
    /\ GoOn(r, n + 1)

Answered(r, c, d, n, outcome) ==
    /\ Adds(c, d, n, outcome)
    /\ \/ StepEnds(r, c, d, n) \/ RunEnds(r, c, d, n) \/ RunGoesOn(r, c, d, n)
       \/ CompiledEnds(r, d, n, outcome)
       \/ CompiledRevises(r, c, d, n, outcome) \/ CompiledGoesOn(r, c, d, n, outcome)

LEMMA EndsWithType ==
    ASSUME NEW r, NEW n \in Nodes, NEW outcome \in Outcomes(n), TypeOK, r \in Requests, req[r] # None
    PROVE  /\ EndsWith(r, n, outcome) \in Verdicts \cup {None}
           /\ EndsWith(r, n, outcome) = None <=>
                  \/ n # ReportGeneration /\ outcome = "passed"
                  \/ n = ProductPlanning /\ outcome = "low" /\ req[r].revisions + 1 < MaxRevisions
  <1>1. req[r].revisions \in Nat
    BY DEF TypeOK, Request, MaxRevisions
  <1>2. None \notin Verdicts
    BY NoneAssumption
  <1> QED
    BY <1>1, <1>2 DEF EndsWith, Outcomes, Verdicts, Nodes, MarketAnalysis, ProductPlanning,
                      ReportGeneration, MaxRevisions

LEMMA SameAdds ==
    ASSUME NEW c, NEW d, NEW e, NEW n, NEW outcome, Adds(c, d, n, outcome), Same(d, e)
    PROVE  Adds(c, e, n, outcome)
  BY DEF Adds, Same

LEMMA StepCase ==
    ASSUME TypeOK, NEW r \in Requests, NEW s \in Snapshots, NEW n \in Nodes,
           NEW outcome \in Outcomes(n), Exists(s), AnswerStep(r, s, n, outcome)
    PROVE  \E d \in Snapshot : snap' = [snap EXCEPT ![s] = d] /\ Answered(r, snap[s], d, n, outcome)
  <1> DEFINE c == snap[s]
             b == Recorded(c, n, outcome)
             d == Advanced(b, n)
  <1>1. c \in Snapshot /\ outcome \in {"passed", "low"}
    BY OutcomesType DEF TypeOK, Exists
  <1>2. Adds(c, b, n, outcome) /\ b.current = c.current /\ b.final = c.final
    BY <1>1, RecordedFacts
  <1>3. b \in Snapshot
    BY <1>2 DEF Adds
  <1>4. /\ Same(b, d) /\ d.status = (IF n = ReportGeneration THEN "completed" ELSE "running")
        /\ d.current = b.current /\ d.next = After(n) /\ d.final = b.final
    BY <1>3, AdvancedFacts
  <1>5. snap' = [snap EXCEPT ![s] = d] /\ req[r].kind = "step" /\ Return(r)
    BY DEF AnswerStep
  <1> HIDE DEF b, d
  <1>6. Adds(c, d, n, outcome)
    BY <1>2, <1>4, SameAdds
  <1>7. d \in Snapshot
    BY <1>6 DEF Adds
  <1>8. StepEnds(r, c, d, n)
    BY <1>2, <1>4, <1>5 DEF StepEnds
  <1> QED
    BY <1>5, <1>6, <1>7, <1>8 DEF Answered

LEMMA SetFacts ==
    ASSUME NEW c \in Snapshot, NEW status \in Statuses, NEW w \in BOOLEAN
    PROVE  LET d == [c EXCEPT !.waiting = w, !.status = status]
               e == [c EXCEPT !.waiting = w] IN
           /\ Same(c, d) /\ d.status = status /\ d.current = c.current /\ d.next = c.next /\ d.final = c.final
           /\ Same(c, e) /\ e.status = c.status /\ e.current = c.current /\ e.next = c.next /\ e.final = c.final
  BY DEF Same, Snapshot

LEMMA RunCase ==
    ASSUME TypeOK, NEW r \in Requests, NEW s \in Snapshots, NEW n \in Nodes,
           NEW outcome \in Outcomes(n), Exists(s), AnswerRun(r, s, n, outcome)
    PROVE  \E d \in Snapshot : snap' = [snap EXCEPT ![s] = d] /\ Answered(r, snap[s], d, n, outcome)
  <1> DEFINE c == snap[s]
             b == Recorded(c, n, outcome)
             a == Advanced(b, n)
  <1>1. c \in Snapshot /\ outcome \in {"passed", "low"}
    BY OutcomesType DEF TypeOK, Exists
  <1>2. Adds(c, b, n, outcome) /\ b.current = c.current /\ b.final = c.final
    BY <1>1, RecordedFacts
  <1>3. b \in Snapshot
    BY <1>2 DEF Adds
  <1>4. /\ Same(b, a) /\ a.status = (IF n = ReportGeneration THEN "completed" ELSE "running")
        /\ a.current = b.current /\ a.next = After(n) /\ a.final = b.final
    BY <1>3, AdvancedFacts
  <1>5. req[r].kind = "run"
    BY DEF AnswerRun
  <1>6. \/ /\ n = ReportGeneration
           /\ snap' = [snap EXCEPT ![s] = [a EXCEPT !.waiting = FALSE]]
           /\ Return(r)
        \/ /\ n # ReportGeneration
           /\ snap' = [snap EXCEPT ![s] = [At(a, n + 1) EXCEPT
                             !.waiting = TRUE, !.status = "waiting_human_input"]]
           /\ Return(r)
        \/ /\ n # ReportGeneration
           /\ snap' = [snap EXCEPT ![s] = At(a, n + 1)]
           /\ GoOn(r, n + 1)
    BY DEF AnswerRun
  <1> HIDE DEF b, a
  <1>7. Adds(c, a, n, outcome)
    BY <1>2, <1>4, SameAdds
  <1>8. a \in Snapshot
    BY <1>7 DEF Adds
  <1>9. CASE n = ReportGeneration
    <2> DEFINE d == [a EXCEPT !.waiting = FALSE]
    <2>1. Same(a, d) /\ d.status = a.status /\ d.current = a.current /\ d.next = a.next /\ d.final = a.final
      BY <1>8, SetFacts DEF Statuses
    <2>2. snap' = [snap EXCEPT ![s] = d] /\ Return(r)
      BY <1>6, <1>9
    <2> HIDE DEF d
    <2>3. Adds(c, d, n, outcome)
      BY <1>7, <2>1, SameAdds
    <2>4. d \in Snapshot
      BY <2>3 DEF Adds
    <2>5. RunEnds(r, c, d, n)
      BY <1>2, <1>4, <1>5, <1>9, <2>1, <2>2, AfterType DEF RunEnds
    <2> QED
      BY <2>2, <2>3, <2>4, <2>5 DEF Answered
  <1>10. CASE n # ReportGeneration
    <2> DEFINE m == At(a, n + 1)
               d == [m EXCEPT !.waiting = TRUE, !.status = "waiting_human_input"]
    <2>1. n + 1 \in Nodes
      BY <1>10, AfterType
    <2>2. Same(a, m) /\ m.status = a.status /\ m.final = a.final /\ m.current = n + 1 /\ m.next = n + 1
      BY <1>8, <2>1, AtFacts
    <2>3. Adds(c, m, n, outcome)
      BY <1>7, <2>2, SameAdds
    <2>4. m \in Snapshot
      BY <2>3 DEF Adds
    <2>5. \/ snap' = [snap EXCEPT ![s] = d] /\ Return(r)
          \/ snap' = [snap EXCEPT ![s] = m] /\ GoOn(r, n + 1)
      BY <1>6, <1>10
    <2> HIDE DEF m
    <2>6. /\ Same(m, d) /\ d.status = "waiting_human_input" /\ d.current = m.current
          /\ d.next = m.next /\ d.final = m.final
      BY <2>4, SetFacts DEF Statuses
    <2> HIDE DEF d
    <2>7. Adds(c, d, n, outcome)
      BY <2>3, <2>6, SameAdds
    <2>8. d \in Snapshot
      BY <2>7 DEF Adds
    <2>9. CASE snap' = [snap EXCEPT ![s] = d] /\ Return(r)
      <3>1. RunGoesOn(r, c, d, n)
        BY <1>2, <1>4, <1>5, <1>10, <2>2, <2>6, <2>9 DEF RunGoesOn
      <3> QED
        BY <2>7, <2>8, <2>9, <3>1 DEF Answered
    <2>10. CASE snap' = [snap EXCEPT ![s] = m] /\ GoOn(r, n + 1)
      <3>1. RunGoesOn(r, c, m, n)
        BY <1>2, <1>4, <1>5, <1>10, <2>2, <2>10 DEF RunGoesOn
      <3> QED
        BY <2>3, <2>4, <2>10, <3>1 DEF Answered
    <2> QED
      BY <2>5, <2>9, <2>10
  <1> QED
    BY <1>9, <1>10

LEMMA CompiledCase ==
    ASSUME TypeOK, NEW r \in Requests, NEW s \in Snapshots, NEW n \in Nodes, req[r] # None,
           NEW outcome \in Outcomes(n), Exists(s), AnswerCompiled(r, s, n, outcome)
    PROVE  \E d \in Snapshot : snap' = [snap EXCEPT ![s] = d] /\ Answered(r, snap[s], d, n, outcome)
  <1> DEFINE c == snap[s]
             b == Recorded(c, n, outcome)
             verdict == EndsWith(r, n, outcome)
  <1>1. c \in Snapshot /\ outcome \in {"passed", "low"}
    BY OutcomesType DEF TypeOK, Exists
  <1>2. Adds(c, b, n, outcome) /\ b.status = c.status /\ b.current = c.current /\ b.final = c.final
    BY <1>1, RecordedFacts
  <1>3. b \in Snapshot
    BY <1>2 DEF Adds
  <1>4. /\ verdict \in Verdicts \cup {None}
        /\ verdict = None <=>
              \/ n # ReportGeneration /\ outcome = "passed"
              \/ n = ProductPlanning /\ outcome = "low" /\ req[r].revisions + 1 < MaxRevisions
    BY EndsWithType
  <1>5. /\ req[r].kind = "compiled"
        /\ \/ /\ verdict # None
              /\ snap' = [snap EXCEPT ![s] = Finished(b, n, verdict)]
              /\ Return(r)
           \/ /\ verdict = None /\ Revises(n, outcome)
              /\ snap' = [snap EXCEPT ![s] = At(b, n)]
              /\ req' = [req EXCEPT ![r].revisions = @ + 1]
           \/ /\ verdict = None /\ ~Revises(n, outcome)
              /\ snap' = [snap EXCEPT ![s] = At(b, n + 1)]
              /\ GoOn(r, n + 1)
    BY DEF AnswerCompiled
  <1> HIDE DEF b
  <1>6. CASE verdict # None
    <2> DEFINE d == Finished(b, n, verdict)
    <2>1. verdict \in Verdicts
      BY <1>4, <1>6
    <2>2. /\ Same(b, d) /\ d.status = "completed" /\ d.current = n /\ d.next = None
          /\ d.final = verdict
      BY <1>3, <2>1, FinishedFacts
    <2>3. snap' = [snap EXCEPT ![s] = d] /\ Return(r)
      BY <1>5, <1>6
    <2> HIDE DEF d
    <2>4. Adds(c, d, n, outcome)
      BY <1>2, <2>2, SameAdds
    <2>5. d \in Snapshot
      BY <2>4 DEF Adds
    <2>6. CompiledEnds(r, d, n, outcome)
      BY <1>5, <2>1, <2>2, <2>3 DEF CompiledEnds
    <2> QED
      BY <2>3, <2>4, <2>5, <2>6 DEF Answered
  <1>7. CASE verdict = None /\ Revises(n, outcome)
    <2> DEFINE d == At(b, n)
    <2>1. Same(b, d) /\ d.status = b.status /\ d.final = b.final /\ d.current = n /\ d.next = n
      BY <1>3, AtFacts
    <2>2. snap' = [snap EXCEPT ![s] = d] /\ req' = [req EXCEPT ![r].revisions = @ + 1]
      BY <1>5, <1>7
    <2> HIDE DEF d
    <2>3. Adds(c, d, n, outcome)
      BY <1>2, <2>1, SameAdds
    <2>4. d \in Snapshot
      BY <2>3 DEF Adds
    <2>5. n = ProductPlanning /\ outcome = "low" /\ req[r].revisions + 1 < MaxRevisions
      BY <1>4, <1>7 DEF Revises
    <2>6. CompiledRevises(r, c, d, n, outcome)
      BY <1>2, <1>5, <2>1, <2>2, <2>5 DEF CompiledRevises
    <2> QED
      BY <2>2, <2>3, <2>4, <2>6 DEF Answered
  <1>8. CASE verdict = None /\ ~Revises(n, outcome)
    <2> DEFINE d == At(b, n + 1)
    <2>1. n # ReportGeneration /\ outcome = "passed"
      BY <1>4, <1>8 DEF Revises
    <2>2. n + 1 \in Nodes
      BY <2>1, AfterType
    <2>3. Same(b, d) /\ d.status = b.status /\ d.final = b.final /\ d.current = n + 1 /\ d.next = n + 1
      BY <1>3, <2>2, AtFacts
    <2>4. snap' = [snap EXCEPT ![s] = d] /\ GoOn(r, n + 1)
      BY <1>5, <1>8
    <2> HIDE DEF d
    <2>5. Adds(c, d, n, outcome)
      BY <1>2, <2>3, SameAdds
    <2>6. d \in Snapshot
      BY <2>5 DEF Adds
    <2>7. CompiledGoesOn(r, c, d, n, outcome)
      BY <1>2, <1>5, <2>1, <2>3, <2>4 DEF CompiledGoesOn
    <2> QED
      BY <2>4, <2>5, <2>6, <2>7 DEF Answered
  <1> QED
    BY <1>6, <1>7, <1>8

(* An answer is one more execution of its node. *)
LEMMA AnswerCase ==
    ASSUME TypeOK, Hands, NEW r \in Requests, Answer(r)
    PROVE  /\ req[r] # None /\ req[r] \in Request
           /\ UNCHANGED <<calls, disturbed, stepped>>
           /\ \E outcome \in Outcomes(req[r].node), d \in Snapshot :
                 /\ snap' = [snap EXCEPT ![req[r].of] = d]
                 /\ Answered(r, snap[req[r].of], d, req[r].node, outcome)
  <1>1. /\ req[r] # None /\ UNCHANGED <<calls, disturbed, stepped>>
        /\ \E outcome \in Outcomes(req[r].node) :
              \/ AnswerStep(r, req[r].of, req[r].node, outcome)
              \/ AnswerRun(r, req[r].of, req[r].node, outcome)
              \/ AnswerCompiled(r, req[r].of, req[r].node, outcome)
    BY DEF Answer
  <1>2. req[r] \in Request
    BY <1>1 DEF TypeOK
  <1>3. req[r].of \in Snapshots /\ req[r].node \in Nodes /\ Exists(req[r].of)
    BY <1>1, <1>2 DEF Request, Hands
  <1> QED
    BY <1>1, <1>2, <1>3, StepCase, RunCase, CompiledCase

-----------------------------------------------------------------------------
(* What an action does to the stores, whatever it does to a snapshot. *)

LEMMA StoreFacts ==
    ASSUME TypeOK, NEW s \in Snapshots, NEW d \in Snapshot, snap' = [snap EXCEPT ![s] = d]
    PROVE  /\ snap' \in [Snapshots -> Snapshot \cup {None}]
           /\ snap'[s] = d /\ d # None
           /\ \A t \in Snapshots \ {s} : snap'[t] = snap[t]
           /\ \A t \in Snapshots : snap[t] # None => snap'[t] # None
  BY NoneAssumption DEF TypeOK

LEMMA WaitsFacts ==
    ASSUME TypeOK, NEW r \in Requests, NEW s \in Snapshots, NEW kind \in {"compiled", "run", "step"},
           NEW n \in Nodes, Waits(r, s, kind, n)
    PROVE  /\ req' \in [Requests -> Request \cup {None}]
           /\ req[r] = None /\ req'[r] # None
           /\ req'[r].of = s /\ req'[r].kind = kind /\ req'[r].node = n /\ req'[r].revisions = 0
           /\ req'[r].loading = (kind = "compiled")
           /\ \A q \in Requests \ {r} : req'[q] = req[q]
  <1> DEFINE new == [of |-> s, kind |-> kind, loading |-> kind = "compiled", node |-> n, revisions |-> 0]
  <1>1. (kind = "compiled") \in BOOLEAN
    OBVIOUS
  <1>2. new \in Request
    BY <1>1 DEF Request, MaxRevisions
  <1>3. new # None
    BY <1>2, NoneAssumption
  <1>4. /\ new.of = s /\ new.kind = kind /\ new.node = n /\ new.revisions = 0
        /\ new.loading = (kind = "compiled")
    OBVIOUS
  <1>5. req[r] = None /\ req' = [req EXCEPT ![r] = new]
    BY DEF Waits
  <1> HIDE DEF new
  <1> QED
    BY <1>2, <1>3, <1>4, <1>5 DEF TypeOK

LEMMA ReturnFacts ==
    ASSUME TypeOK, NEW r \in Requests, Return(r)
    PROVE  /\ req' \in [Requests -> Request \cup {None}]
           /\ req'[r] = None
           /\ \A q \in Requests \ {r} : req'[q] = req[q]
  BY DEF TypeOK, Return

LEMMA GoOnFacts ==
    ASSUME TypeOK, NEW r \in Requests, req[r] # None, NEW n \in Nodes, GoOn(r, n)
    PROVE  /\ req' \in [Requests -> Request \cup {None}]
           /\ req'[r] # None
           /\ req'[r].of = req[r].of /\ req'[r].kind = req[r].kind
           /\ req'[r].loading = req[r].loading
           /\ req'[r].node = n /\ req'[r].revisions = req[r].revisions
           /\ \A q \in Requests \ {r} : req'[q] = req[q]
  <1> DEFINE old == req[r]
             new == [old EXCEPT !.node = n]
  <1>1. old \in Request
    BY DEF TypeOK
  <1>2. req' = [req EXCEPT ![r] = new]
    BY DEF GoOn
  <1> HIDE DEF old
  <1>3. /\ new \in Request /\ new.of = old.of /\ new.kind = old.kind /\ new.node = n
        /\ new.revisions = old.revisions /\ new.loading = old.loading
    BY <1>1 DEF Request
  <1>4. new # None
    BY <1>3, NoneAssumption
  <1> HIDE DEF new
  <1> QED
    BY <1>2, <1>3, <1>4 DEF TypeOK, old

LEMMA ReviseFacts ==
    ASSUME TypeOK, NEW r \in Requests, req[r] # None, req[r].revisions + 1 < MaxRevisions,
           req' = [req EXCEPT ![r].revisions = @ + 1]
    PROVE  /\ req' \in [Requests -> Request \cup {None}]
           /\ req'[r] # None
           /\ req'[r].of = req[r].of /\ req'[r].kind = req[r].kind
           /\ req'[r].loading = req[r].loading
           /\ req'[r].node = req[r].node /\ req'[r].revisions = req[r].revisions + 1
           /\ \A q \in Requests \ {r} : req'[q] = req[q]
  <1> DEFINE old == req[r]
             new == [old EXCEPT !.revisions = old.revisions + 1]
  <1>1. old \in Request
    BY DEF TypeOK
  <1>2. req' = [req EXCEPT ![r] = new]
    OBVIOUS
  <1>3. old.revisions + 1 < MaxRevisions
    OBVIOUS
  <1> HIDE DEF old
  <1>4. /\ new \in Request /\ new.of = old.of /\ new.kind = old.kind /\ new.node = old.node
        /\ new.revisions = old.revisions + 1 /\ new.loading = old.loading
    BY <1>1, <1>3 DEF Request, MaxRevisions
  <1>5. new # None
    BY <1>4, NoneAssumption
  <1> HIDE DEF new
  <1> QED
    BY <1>2, <1>4, <1>5 DEF TypeOK, old

(* The request that has its answer goes on with the same snapshot in the   *)
(* same way, or is over.                                                   *)
LEMMA AnsweredReq ==
    ASSUME TypeOK, NEW r \in Requests, req[r] # None, NEW c, NEW d,
           NEW outcome, Answered(r, c, d, req[r].node, outcome)
    PROVE  /\ req' \in [Requests -> Request \cup {None}]
           /\ req'[r] # None =>
                 /\ req'[r].of = req[r].of
                 /\ req'[r].kind = req[r].kind /\ req'[r].loading = req[r].loading
           /\ \A q \in Requests \ {r} : req'[q] = req[q]
  <1> DEFINE n == req[r].node
  <1>1. n \in Nodes
    BY DEF TypeOK, Request
  <1>2. CASE Return(r)
    BY <1>2, ReturnFacts
  <1>3. CASE n # ReportGeneration /\ GoOn(r, n + 1)
    BY <1>1, <1>3, AfterType, GoOnFacts
  <1>4. CASE CompiledRevises(r, c, d, n, outcome)
    BY <1>4, ReviseFacts DEF CompiledRevises
  <1> QED
    BY <1>2, <1>3, <1>4
       DEF Answered, StepEnds, RunEnds, RunGoesOn, CompiledEnds, CompiledGoesOn

LEMMA LoadFacts ==
    ASSUME TypeOK, NEW r \in Requests, Load(r)
    PROVE  /\ req' \in [Requests -> Request \cup {None}]
           /\ req[r] # None /\ req[r].loading
           /\ req'[r].of = req[r].of /\ req'[r].kind = req[r].kind
           /\ req'[r].node = req[r].node /\ req'[r].revisions = req[r].revisions
           /\ req'[r].loading = FALSE
           /\ \A q \in Requests \ {r} : req'[q] = req[q]
           /\ snap' = [snap EXCEPT ![req[r].of] = At(@, DataCollection)]
           /\ UNCHANGED <<calls, disturbed, stepped>>
  <1> DEFINE old == req[r]
             new == [old EXCEPT !.loading = FALSE]
  <1>1. req[r] # None /\ req[r].loading
    BY DEF Load
  <1>2. old \in Request
    BY <1>1 DEF TypeOK
  <1>3. req' = [req EXCEPT ![r] = new]
    BY DEF Load
  <1>4. snap' = [snap EXCEPT ![req[r].of] = At(@, DataCollection)] /\ UNCHANGED <<calls, disturbed, stepped>>
    BY DEF Load
  <1> HIDE DEF old
  <1>5. /\ new \in Request /\ new.of = old.of /\ new.kind = old.kind /\ new.node = old.node
        /\ new.revisions = old.revisions /\ new.loading = FALSE
    BY <1>2 DEF Request
  <1> HIDE DEF new
  <1> QED
    BY <1>1, <1>3, <1>4, <1>5 DEF TypeOK, old

LEMMA InvokeCase ==
    ASSUME TypeOK, NEW r \in Requests, NEW s \in Snapshots, NEW b \in UserBreakpoints,
           NEW single \in BOOLEAN, Invoke(r, s, b, single)
    PROVE  /\ ~Exists(s) /\ Call /\ UNCHANGED disturbed
           /\ Created(b) \in Snapshot /\ snap' = [snap EXCEPT ![s] = Created(b)]
           /\ \/ Waits(r, s, "compiled", DataCollection) /\ UNCHANGED stepped
              \/ /\ \E kind \in {"run", "step"} : Waits(r, s, kind, DataCollection)
                 /\ stepped' = stepped \cup {s}
  <1>1. b \in SUBSET Nodes
    BY WorkflowAssumption
  <1>2. Created(b) \in Snapshot
    BY <1>1, CreatedFacts
  <1> QED
    BY <1>2 DEF Invoke, Kind

LEMMA ProceedCase ==
    ASSUME TypeOK, NEW r \in Requests, NEW s \in Snapshots, NEW told \in BOOLEAN,
           NEW single \in BOOLEAN, Proceed(r, s, told, single)
    PROVE  /\ Exists(s) /\ Call /\ UNCHANGED disturbed /\ stepped' = stepped \cup {s}
           /\ \E start \in Nodes, kind \in {"run", "step"} :
                 /\ start = IF snap[s].next = None THEN DataCollection ELSE snap[s].next
                 /\ snap' = [snap EXCEPT ![s] = Proceeded(snap[s], told, start)]
                 /\ Waits(r, s, kind, start)
  <1> DEFINE start == IF snap[s].next = None THEN DataCollection ELSE snap[s].next
  <1>1. Exists(s) /\ Call /\ UNCHANGED disturbed /\ stepped' = stepped \cup {s}
    BY DEF Proceed
  <1>2. snap[s] \in Snapshot
    BY <1>1 DEF TypeOK, Exists
  <1>3. start \in Nodes
    BY <1>2 DEF Snapshot, Nodes, DataCollection
  <1>4. /\ Waits(r, s, Kind(single), start)
        /\ snap' = [snap EXCEPT ![s] = Proceeded(snap[s], told, start)]
    BY DEF Proceed, Proceeded
  <1>5. Kind(single) \in {"run", "step"}
    BY DEF Kind
  <1> HIDE DEF start
  <1>6. \E x \in Nodes, kind \in {"run", "step"} :
           /\ x = start
           /\ snap' = [snap EXCEPT ![s] = Proceeded(snap[s], told, x)]
           /\ Waits(r, s, kind, x)
    BY <1>3, <1>4, <1>5
  <1> QED
    BY <1>1, <1>6 DEF start

(* Terminate and Pause say only that, in the snapshot. *)
Marked(c, d) ==
    /\ Same(c, d) /\ d.status \in {"terminated", "paused"}
    /\ d.current = c.current /\ d.next = c.next /\ d.final = c.final

LEMMA MarkCase ==
    ASSUME TypeOK, NEW s \in Snapshots, Terminate(s) \/ Pause(s)
    PROVE  /\ Exists(s) /\ Call /\ UNCHANGED <<req, disturbed, stepped>>
           /\ \E d \in Snapshot : snap' = [snap EXCEPT ![s] = d] /\ Marked(snap[s], d)
  <1>1. Exists(s) /\ Call /\ UNCHANGED <<req, disturbed, stepped>>
    BY DEF Terminate, Pause
  <1> DEFINE c == snap[s]
  <1>2. c \in Snapshot
    BY <1>1 DEF TypeOK, Exists
  <1>3. CASE Terminate(s)
    <2> DEFINE w == Woken(c, TRUE)
               d == [w EXCEPT !.status = "terminated"]
    <2>1. snap' = [snap EXCEPT ![s] = d]
      BY <1>3 DEF Terminate
    <2>2. Same(c, w) /\ w.current = c.current /\ w.next = c.next /\ w.final = c.final
      BY <1>2, WokenFacts
    <2> HIDE DEF w
    <2>3. w \in Snapshot
      BY <2>2 DEF Same
    <2>4. /\ Same(w, d) /\ d.status = "terminated" /\ d.current = w.current
          /\ d.next = w.next /\ d.final = w.final
      BY <2>3 DEF Same, Snapshot, Statuses
    <2> HIDE DEF d
    <2>5. Marked(c, d) /\ d \in Snapshot
      BY <2>2, <2>4 DEF Marked, Same
    <2> QED
      BY <1>1, <2>1, <2>5
  <1>4. CASE Pause(s)
    <2> DEFINE d == [c EXCEPT !.waiting = TRUE, !.status = "paused"]
    <2>1. snap' = [snap EXCEPT ![s] = d]
      BY <1>1, <1>2, <1>4 DEF Pause, TypeOK, Snapshot
    <2>2. Marked(c, d) /\ d \in Snapshot
      BY <1>2, SetFacts DEF Marked, Same, Statuses
    <2> QED
      BY <1>1, <2>1, <2>2
  <1> QED
    BY <1>3, <1>4

LEMMA RollbackCase ==
    ASSUME TypeOK, NEW s \in Snapshots, NEW target \in Nodes, Rollback(s, target)
    PROVE  /\ Exists(s) /\ Call /\ UNCHANGED <<req, stepped>>
           /\ snap[s] \in Snapshot
           /\ RolledBack(snap[s], target) \in Snapshot
           /\ snap' = [snap EXCEPT ![s] = RolledBack(snap[s], target)]
           /\ disturbed' \in {disturbed, disturbed \cup {s}}
           /\ s \notin disturbed' => ~InFlight(s) /\ Filled(snap[s], target - 1)
  <1>1. Exists(s) /\ Call /\ UNCHANGED <<req, stepped>>
    BY DEF Rollback
  <1>2. snap[s] \in Snapshot
    BY <1>1 DEF TypeOK, Exists
  <1>3. RolledBack(snap[s], target) \in Snapshot
    BY <1>2, RolledBackFacts
  <1>4. snap' = [snap EXCEPT ![s] = RolledBack(snap[s], target)]
    BY DEF Rollback
  <1>5. disturbed' = IF InFlight(s) \/ \E n \in 1 .. target - 1 : ~Has(s, n)
                     THEN disturbed \cup {s} ELSE disturbed
    BY DEF Rollback
  <1>6. disturbed' \in {disturbed, disturbed \cup {s}}
    BY <1>5
  <1>7. s \notin disturbed' => ~InFlight(s) /\ Filled(snap[s], target - 1)
    BY <1>5 DEF Filled, Has
  <1> QED
    BY <1>1, <1>2, <1>3, <1>4, <1>6, <1>7

(* The ways a step changes the stores. *)
LEMMA NextCases ==
    ASSUME Next
    PROVE  \/ \E r \in Requests, s \in Snapshots, b \in UserBreakpoints, single \in BOOLEAN :
                 Invoke(r, s, b, single)
           \/ \E r \in Requests, s \in Snapshots, told \in BOOLEAN, single \in BOOLEAN :
                 Proceed(r, s, told, single)
           \/ \E s \in Snapshots : Terminate(s) \/ Pause(s)
           \/ \E s \in Snapshots, target \in Nodes : Rollback(s, target)
           \/ \E r \in Requests : Answer(r)
           \/ \E r \in Requests : Load(r)
           \/ \E r \in Requests : Break(r)
  BY DEF Next, Step, Resume

-----------------------------------------------------------------------------
(* Types and the requests in flight. *)

LEMMA CallType == ASSUME TypeOK, Call PROVE calls' \in 0 .. MaxCalls
  BY WorkflowAssumption DEF TypeOK, Call

LEMMA TypeStep == ASSUME TypeOK, Hands, [Next]_vars PROVE TypeOK'
  <1>1. ASSUME NEW r \in Requests, NEW s \in Snapshots, NEW b \in UserBreakpoints,
               NEW single \in BOOLEAN, Invoke(r, s, b, single)
        PROVE  TypeOK'
    <2>1. DataCollection \in Nodes
      BY DEF DataCollection, Nodes
    <2>2. req' \in [Requests -> Request \cup {None}]
      BY <1>1, <2>1, InvokeCase, WaitsFacts
    <2> QED
      BY <1>1, <2>2, InvokeCase, StoreFacts, CallType DEF TypeOK
  <1>2. ASSUME NEW r \in Requests, NEW s \in Snapshots, NEW told \in BOOLEAN,
               NEW single \in BOOLEAN, Proceed(r, s, told, single)
        PROVE  TypeOK'
    <2>1. PICK start \in Nodes, kind \in {"run", "step"} :
             /\ snap' = [snap EXCEPT ![s] = Proceeded(snap[s], told, start)]
             /\ Waits(r, s, kind, start)
      BY <1>2, ProceedCase
    <2>2. Exists(s) /\ Call /\ UNCHANGED disturbed /\ stepped' = stepped \cup {s}
      BY <1>2, ProceedCase
    <2>3. Proceeded(snap[s], told, start) \in Snapshot
      BY <2>2, ProceededFacts DEF Same, TypeOK, Exists
    <2>4. req' \in [Requests -> Request \cup {None}]
      BY <2>1, WaitsFacts
    <2> QED
      BY <2>1, <2>2, <2>3, <2>4, StoreFacts, CallType DEF TypeOK
  <1>3. ASSUME NEW s \in Snapshots, Terminate(s) \/ Pause(s)
        PROVE  TypeOK'
    BY <1>3, MarkCase, StoreFacts, CallType DEF TypeOK
  <1>4. ASSUME NEW s \in Snapshots, NEW target \in Nodes, Rollback(s, target)
        PROVE  TypeOK'
    BY <1>4, RollbackCase, StoreFacts, CallType DEF TypeOK
  <1>5. ASSUME NEW r \in Requests, Answer(r)
        PROVE  TypeOK'
    <2>1. PICK outcome \in Outcomes(req[r].node), d \in Snapshot :
             /\ snap' = [snap EXCEPT ![req[r].of] = d]
             /\ Answered(r, snap[req[r].of], d, req[r].node, outcome)
      BY <1>5, AnswerCase
    <2>2. req[r] # None /\ req[r].of \in Snapshots /\ UNCHANGED <<calls, disturbed, stepped>>
      BY <1>5, AnswerCase DEF Request
    <2>3. req' \in [Requests -> Request \cup {None}]
      BY <2>1, <2>2, AnsweredReq
    <2> QED
      BY <2>1, <2>2, <2>3, StoreFacts DEF TypeOK
  <1>6. ASSUME NEW r \in Requests, Load(r)
        PROVE  TypeOK'
    <2> DEFINE s == req[r].of
    <2>1. /\ req' \in [Requests -> Request \cup {None}] /\ req[r] # None
          /\ snap' = [snap EXCEPT ![s] = At(snap[s], DataCollection)]
          /\ UNCHANGED <<calls, disturbed, stepped>>
      BY <1>6, LoadFacts
    <2>2. s \in Snapshots /\ snap[s] \in Snapshot
      BY <2>1 DEF TypeOK, Request, Hands, Exists
    <2>3. At(snap[s], DataCollection) \in Snapshot
      BY <2>2, AtFacts DEF Same, DataCollection, Nodes
    <2> QED
      BY <2>1, <2>2, <2>3, StoreFacts DEF TypeOK
  <1>7. ASSUME NEW r \in Requests, Break(r)
        PROVE  TypeOK'
    BY <1>7, ReturnFacts DEF Break, TypeOK
  <1>8. CASE UNCHANGED vars
    BY <1>8 DEF TypeOK, vars
  <1> QED
    BY <1>1, <1>2, <1>3, <1>4, <1>5, <1>6, <1>7, <1>8, NextCases

LEMMA HandsNew ==
    ASSUME TypeOK, Hands, NEW r \in Requests, NEW s \in Snapshots, NEW n \in Nodes,
           NEW kind \in {"compiled", "run", "step"}, Waits(r, s, kind, n),
           \A t \in Snapshots : snap[t] # None => snap'[t] # None,
           snap'[s] # None, stepped \subseteq stepped',
           kind = "compiled" => ~Exists(s), kind # "compiled" => s \in stepped'
    PROVE  Hands'
  <1>1. /\ req[r] = None /\ req'[r] # None
        /\ req'[r].of = s /\ req'[r].kind = kind /\ req'[r].loading = (kind = "compiled")
        /\ \A q \in Requests \ {r} : req'[q] = req[q]
    BY WaitsFacts
  <1>2. \A q \in Requests : req[q] # None => req[q].of \in Snapshots
    BY DEF TypeOK, Request
  <1>3. ASSUME NEW q \in Requests, req'[q] # None
        PROVE  /\ snap'[req'[q].of] # None
               /\ req'[q].kind = "compiled" \/ req'[q].of \in stepped'
               /\ req'[q].loading => req'[q].kind = "compiled"
    <2>1. CASE q = r
      BY <1>1, <2>1
    <2>2. CASE q # r
      BY <1>1, <1>2, <1>3, <2>2 DEF Hands, Exists
    <2> QED
      BY <2>1, <2>2
  <1>4. ASSUME NEW q \in Requests, NEW p \in Requests, req'[q] # None, req'[p] # None,
               req'[p].of = req'[q].of, req'[q].kind = "compiled", req'[p].kind = "compiled"
        PROVE  q = p
    <2>1. CASE q # r /\ p # r
      BY <1>1, <1>4, <2>1 DEF Hands
    <2>2. CASE q = r /\ p # r
      BY <1>1, <1>4, <2>2 DEF Hands, Exists
    <2>3. CASE q # r /\ p = r
      BY <1>1, <1>4, <2>3 DEF Hands, Exists
    <2> QED
      BY <2>1, <2>2, <2>3
  <1> QED
    BY <1>3, <1>4 DEF Hands, Exists

LEMMA HandsKept ==
    ASSUME TypeOK, Hands,
           \A t \in Snapshots : snap[t] # None => snap'[t] # None,
           stepped \subseteq stepped',
           \A q \in Requests : req'[q] # None =>
               /\ req[q] # None /\ req'[q].of = req[q].of /\ req'[q].kind = req[q].kind
               /\ req'[q].loading => req[q].loading
    PROVE  Hands'
  <1>1. \A q \in Requests : req[q] # None => req[q].of \in Snapshots
    BY DEF TypeOK, Request
  <1>2. ASSUME NEW q \in Requests, req'[q] # None
        PROVE  /\ snap'[req'[q].of] # None
               /\ req'[q].kind = "compiled" \/ req'[q].of \in stepped'
               /\ req'[q].loading => req'[q].kind = "compiled"
    BY <1>1, <1>2 DEF Hands, Exists
  <1>3. ASSUME NEW q \in Requests, NEW p \in Requests, req'[q] # None, req'[p] # None,
               req'[p].of = req'[q].of, req'[q].kind = "compiled", req'[p].kind = "compiled"
        PROVE  q = p
    BY <1>3 DEF Hands
  <1> QED
    BY <1>2, <1>3 DEF Hands, Exists

LEMMA HandsStep == ASSUME TypeOK, Hands, [Next]_vars PROVE Hands'
  <1>1. ASSUME NEW r \in Requests, NEW s \in Snapshots, NEW b \in UserBreakpoints,
               NEW single \in BOOLEAN, Invoke(r, s, b, single)
        PROVE  Hands'
    <2>1. DataCollection \in Nodes
      BY DEF DataCollection, Nodes
    <2>2. snap'[s] # None /\ \A t \in Snapshots : snap[t] # None => snap'[t] # None
      BY <1>1, InvokeCase, StoreFacts
    <2>3. PICK kind \in {"compiled", "run", "step"} :
             /\ Waits(r, s, kind, DataCollection)
             /\ stepped \subseteq stepped'
             /\ kind # "compiled" => s \in stepped'
      BY <1>1, InvokeCase
    <2>4. ~Exists(s)
      BY <1>1, InvokeCase
    <2> QED
      BY <2>1, <2>2, <2>3, <2>4, HandsNew
  <1>2. ASSUME NEW r \in Requests, NEW s \in Snapshots, NEW told \in BOOLEAN,
               NEW single \in BOOLEAN, Proceed(r, s, told, single)
        PROVE  Hands'
    <2>1. PICK start \in Nodes, kind \in {"run", "step"} :
             /\ snap' = [snap EXCEPT ![s] = Proceeded(snap[s], told, start)]
             /\ Waits(r, s, kind, start)
      BY <1>2, ProceedCase
    <2>2. Exists(s) /\ stepped' = stepped \cup {s}
      BY <1>2, ProceedCase
    <2>3. Proceeded(snap[s], told, start) \in Snapshot
      BY <2>2, ProceededFacts DEF Same, TypeOK, Exists
    <2>4. snap'[s] # None /\ \A t \in Snapshots : snap[t] # None => snap'[t] # None
      BY <2>1, <2>3, StoreFacts
    <2> QED
      BY <2>1, <2>2, <2>4, HandsNew
  <1>3. ASSUME NEW s \in Snapshots, Terminate(s) \/ Pause(s)
        PROVE  Hands'
    BY <1>3, MarkCase, StoreFacts, HandsKept
  <1>4. ASSUME NEW s \in Snapshots, NEW target \in Nodes, Rollback(s, target)
        PROVE  Hands'
    BY <1>4, RollbackCase, StoreFacts, HandsKept
  <1>5. ASSUME NEW r \in Requests, Answer(r)
        PROVE  Hands'
    <2>1. PICK outcome \in Outcomes(req[r].node), d \in Snapshot :
             /\ snap' = [snap EXCEPT ![req[r].of] = d]
             /\ Answered(r, snap[req[r].of], d, req[r].node, outcome)
      BY <1>5, AnswerCase
    <2>2. req[r] # None /\ req[r].of \in Snapshots /\ UNCHANGED stepped
      BY <1>5, AnswerCase DEF Request
    <2>3. \A t \in Snapshots : snap[t] # None => snap'[t] # None
      BY <2>1, <2>2, StoreFacts
    <2>4. \A q \in Requests : req'[q] # None =>
               /\ req[q] # None /\ req'[q].of = req[q].of /\ req'[q].kind = req[q].kind
               /\ req'[q].loading => req[q].loading
      BY <2>1, <2>2, AnsweredReq
    <2> QED
      BY <2>2, <2>3, <2>4, HandsKept
  <1>6. ASSUME NEW r \in Requests, Load(r)
        PROVE  Hands'
    <2> DEFINE s == req[r].of
    <2>1. /\ req[r] # None
          /\ snap' = [snap EXCEPT ![s] = At(snap[s], DataCollection)]
          /\ UNCHANGED stepped
      BY <1>6, LoadFacts
    <2>2. s \in Snapshots /\ snap[s] \in Snapshot
      BY <2>1 DEF TypeOK, Request, Hands, Exists
    <2>3. At(snap[s], DataCollection) \in Snapshot
      BY <2>2, AtFacts DEF Same, DataCollection, Nodes
    <2>4. \A t \in Snapshots : snap[t] # None => snap'[t] # None
      BY <2>1, <2>2, <2>3, StoreFacts
    <2>5. \A q \in Requests : req'[q] # None =>
               /\ req[q] # None /\ req'[q].of = req[q].of /\ req'[q].kind = req[q].kind
               /\ req'[q].loading => req[q].loading
      BY <1>6, LoadFacts
    <2> QED
      BY <2>1, <2>4, <2>5, HandsKept
  <1>7. ASSUME NEW r \in Requests, Break(r)
        PROVE  Hands'
    BY <1>7, ReturnFacts, HandsKept DEF Break
  <1>8. CASE UNCHANGED vars
    BY <1>8 DEF Hands, Exists, vars
  <1> QED
    BY <1>1, <1>2, <1>3, <1>4, <1>5, <1>6, <1>7, <1>8, NextCases

-----------------------------------------------------------------------------
(* A step changes one snapshot and the requests of it. *)
Elsewhere(s) ==
    /\ \A t \in Snapshots \ {s} : snap'[t] = snap[t]
    /\ \A q \in Requests : req'[q] # None /\ req'[q].of # s => req'[q] = req[q]
    /\ disturbed \subseteq disturbed' /\ stepped \subseteq stepped'

LEMMA InvokeElsewhere ==
    ASSUME TypeOK, NEW r \in Requests, NEW s \in Snapshots, NEW b \in UserBreakpoints,
           NEW single \in BOOLEAN, Invoke(r, s, b, single)
    PROVE  Elsewhere(s) /\ snap'[s] = Created(b)
  <1>1. DataCollection \in Nodes
    BY DEF DataCollection, Nodes
  <1>2. \A q \in Requests : req'[q] # None /\ req'[q].of # s => req'[q] = req[q]
    BY <1>1, InvokeCase, WaitsFacts
  <1> QED
    BY <1>2, InvokeCase, StoreFacts DEF Elsewhere

LEMMA ProceedElsewhere ==
    ASSUME TypeOK, NEW r \in Requests, NEW s \in Snapshots, NEW told \in BOOLEAN,
           NEW single \in BOOLEAN, Proceed(r, s, told, single)
    PROVE  /\ Elsewhere(s) /\ Exists(s) /\ snap[s] \in Snapshot
           /\ \E start \in Nodes, kind \in {"run", "step"} :
                 /\ start = IF snap[s].next = None THEN DataCollection ELSE snap[s].next
                 /\ snap'[s] = Proceeded(snap[s], told, start)
                 /\ Waits(r, s, kind, start)
  <1>1. PICK start \in Nodes, kind \in {"run", "step"} :
           /\ start = IF snap[s].next = None THEN DataCollection ELSE snap[s].next
           /\ snap' = [snap EXCEPT ![s] = Proceeded(snap[s], told, start)]
           /\ Waits(r, s, kind, start)
    BY ProceedCase
  <1>2. Exists(s) /\ UNCHANGED disturbed /\ stepped' = stepped \cup {s}
    BY ProceedCase
  <1>3. snap[s] \in Snapshot
    BY <1>2 DEF TypeOK, Exists
  <1>4. Proceeded(snap[s], told, start) \in Snapshot
    BY <1>3, ProceededFacts DEF Same
  <1>5. \A q \in Requests : req'[q] # None /\ req'[q].of # s => req'[q] = req[q]
    BY <1>1, WaitsFacts
  <1>6. snap'[s] = Proceeded(snap[s], told, start) /\ \A t \in Snapshots \ {s} : snap'[t] = snap[t]
    BY <1>1, <1>4, StoreFacts
  <1> QED
    BY <1>1, <1>2, <1>3, <1>5, <1>6 DEF Elsewhere

LEMMA MarkElsewhere ==
    ASSUME TypeOK, NEW s \in Snapshots, Terminate(s) \/ Pause(s)
    PROVE  /\ Elsewhere(s) /\ Exists(s) /\ snap[s] \in Snapshot
           /\ Marked(snap[s], snap'[s]) /\ UNCHANGED <<req, disturbed, stepped>>
  BY MarkCase, StoreFacts DEF Elsewhere, TypeOK, Exists

LEMMA RollbackElsewhere ==
    ASSUME TypeOK, NEW s \in Snapshots, NEW target \in Nodes, Rollback(s, target)
    PROVE  Elsewhere(s) /\ snap'[s] = RolledBack(snap[s], target)
  BY RollbackCase, StoreFacts DEF Elsewhere

LEMMA AnswerElsewhere ==
    ASSUME TypeOK, Hands, NEW r \in Requests, Answer(r)
    PROVE  /\ Elsewhere(req[r].of) /\ req[r].of \in Snapshots /\ Exists(req[r].of)
           /\ snap[req[r].of] \in Snapshot /\ req[r].node \in Nodes
           /\ UNCHANGED <<disturbed, stepped>>
           /\ \E outcome \in Outcomes(req[r].node) :
                 /\ outcome \in {"passed", "low"}
                 /\ Answered(r, snap[req[r].of], snap'[req[r].of], req[r].node, outcome)
           /\ \A q \in Requests \ {r} : req'[q] = req[q]
           /\ req'[r] # None => req'[r].of = req[r].of /\ req'[r].kind = req[r].kind
  <1> DEFINE s == req[r].of
             n == req[r].node
  <1>1. PICK outcome \in Outcomes(n), d \in Snapshot :
           snap' = [snap EXCEPT ![s] = d] /\ Answered(r, snap[s], d, n, outcome)
    BY AnswerCase
  <1>2. req[r] # None /\ req[r] \in Request /\ UNCHANGED <<disturbed, stepped>>
    BY AnswerCase
  <1>3. s \in Snapshots /\ n \in Nodes
    BY <1>2 DEF Request
  <1>4. Exists(s) /\ snap[s] \in Snapshot
    BY <1>2, <1>3 DEF Hands, Exists, TypeOK
  <1>5. snap'[s] = d /\ \A t \in Snapshots \ {s} : snap'[t] = snap[t]
    BY <1>1, <1>3, StoreFacts
  <1>6. /\ \A q \in Requests \ {r} : req'[q] = req[q]
        /\ req'[r] # None => req'[r].of = req[r].of /\ req'[r].kind = req[r].kind
    BY <1>1, <1>2, AnsweredReq
  <1>7. outcome \in {"passed", "low"}
    BY <1>1, <1>3, OutcomesType
  <1>8. Elsewhere(s)
    BY <1>2, <1>5, <1>6 DEF Elsewhere
  <1> QED
    BY <1>1, <1>2, <1>3, <1>4, <1>5, <1>6, <1>7, <1>8

LEMMA LoadElsewhere ==
    ASSUME TypeOK, Hands, NEW r \in Requests, Load(r)
    PROVE  /\ Elsewhere(req[r].of) /\ req[r].of \in Snapshots /\ Exists(req[r].of)
           /\ snap[req[r].of] \in Snapshot
           /\ snap'[req[r].of] = At(snap[req[r].of], DataCollection)
           /\ UNCHANGED <<disturbed, stepped>>
           /\ req[r] # None /\ req[r].kind = "compiled"
           /\ \A q \in Requests : req'[q] # None =>
                 /\ req[q] # None /\ req'[q].of = req[q].of /\ req'[q].kind = req[q].kind
                 /\ req'[q].node = req[q].node /\ req'[q].revisions = req[q].revisions
  <1> DEFINE s == req[r].of
  <1>1. /\ req[r] # None /\ req[r].loading
        /\ snap' = [snap EXCEPT ![s] = At(snap[s], DataCollection)]
        /\ UNCHANGED <<disturbed, stepped>>
    BY LoadFacts
  <1>2. s \in Snapshots /\ Exists(s) /\ snap[s] \in Snapshot /\ req[r].kind = "compiled"
    BY <1>1 DEF TypeOK, Request, Hands, Exists
  <1>3. At(snap[s], DataCollection) \in Snapshot
    BY <1>2, AtFacts DEF Same, DataCollection, Nodes
  <1>4. /\ snap'[s] = At(snap[s], DataCollection)
        /\ \A t \in Snapshots \ {s} : snap'[t] = snap[t]
    BY <1>1, <1>2, <1>3, StoreFacts
  <1>5. /\ \A q \in Requests : req'[q] # None =>
              /\ req[q] # None /\ req'[q].of = req[q].of /\ req'[q].kind = req[q].kind
              /\ req'[q].node = req[q].node /\ req'[q].revisions = req[q].revisions
        /\ \A q \in Requests \ {r} : req'[q] = req[q]
        /\ req'[r].of = s
    BY LoadFacts
  <1>6. Elsewhere(s)
    BY <1>1, <1>4, <1>5 DEF Elsewhere
  <1> QED
    BY <1>1, <1>2, <1>4, <1>5, <1>6

-----------------------------------------------------------------------------
(* The order of the results. *)

LEMMA FilledAdds ==
    ASSUME NEW c \in Snapshot, NEW d, NEW n \in Nodes, NEW outcome \in {"passed", "low"},
           Adds(c, d, n, outcome)
    PROVE  /\ d.results[n] = outcome /\ outcome # None
           /\ \A m \in Nodes \ {n} : d.results[m] = c.results[m]
           /\ Filled(c, n - 1) => Filled(d, n)
           /\ \A k \in 0 .. 6 : Filled(c, k) => Filled(d, k)
  <1>1. outcome # None
    BY NoneAssumption
  <1>2. c.results \in [Nodes -> {"passed", "low", None}]
    BY DEF Snapshot
  <1>3. d.results = [c.results EXCEPT ![n] = outcome]
    BY DEF Adds
  <1>4. d.results[n] = outcome /\ \A m \in Nodes \ {n} : d.results[m] = c.results[m]
    BY <1>2, <1>3
  <1>5. Filled(c, n - 1) => Filled(d, n)
    BY <1>1, <1>4 DEF Filled, Nodes
  <1>6. \A k \in 0 .. 6 : Filled(c, k) => Filled(d, k)
    BY <1>1, <1>4 DEF Filled, Nodes
  <1> QED
    BY <1>1, <1>4, <1>5, <1>6

LEMMA OrderFrame ==
    ASSUME TypeOK, Order, NEW s \in Snapshots, Elsewhere(s),
           s \notin disturbed' =>
               /\ InOrder(snap'[s])
               /\ \A q \in Requests : req'[q] # None /\ req'[q].of = s => Follows(snap'[s], req'[q])
    PROVE  Order'
  <1> SUFFICES ASSUME NEW t \in Snapshots, snap'[t] # None, t \notin disturbed'
               PROVE  /\ InOrder(snap'[t])
                      /\ \A q \in Requests : req'[q] # None /\ req'[q].of = t => Follows(snap'[t], req'[q])
    BY DEF Order, Orderly, Exists
  <1>1. CASE t = s
    BY <1>1
  <1>2. CASE t # s
    <2>1. snap'[t] = snap[t] /\ t \notin disturbed
      BY <1>2 DEF Elsewhere
    <2>2. \A q \in Requests : req'[q] # None /\ req'[q].of = t => req'[q] = req[q]
      BY <1>2 DEF Elsewhere
    <2> QED
      BY <2>1, <2>2 DEF Order, Orderly, Exists
  <1> QED
    BY <1>1, <1>2

(* An answer keeps the order, of its snapshot and of what waits for it. *)
LEMMA AnswerOrder ==
    ASSUME TypeOK, Hands, NEW r \in Requests, Answer(r), Orderly(req[r].of)
    PROVE  LET s == req[r].of IN
           /\ InOrder(snap'[s])
           /\ \A q \in Requests : req'[q] # None /\ req'[q].of = s => Follows(snap'[s], req'[q])
  <1> DEFINE s == req[r].of
             n == req[r].node
             c == snap[s]
             d == snap'[s]
  <1>1. /\ c \in Snapshot /\ n \in Nodes /\ \A q \in Requests \ {r} : req'[q] = req[q]
        /\ req'[r] # None => req'[r].of = s /\ req'[r].kind = req[r].kind
    BY AnswerElsewhere
  <1>2. PICK outcome \in {"passed", "low"} : Answered(r, c, d, n, outcome)
    BY AnswerElsewhere
  <1>3. req[r] # None /\ req[r] \in Request
    BY AnswerCase
  <1>4. InOrder(c) /\ \A q \in Requests : req[q] # None /\ req[q].of = s => Follows(c, req[q])
    BY DEF Orderly
  <1>5. /\ Filled(c, n - 1)
        /\ req[r].kind = "compiled" /\ c.status = "completed" => Filled(c, ReportGeneration)
    BY <1>3, <1>4 DEF Follows
  <1>6. Adds(c, d, n, outcome)
    BY <1>2 DEF Answered
  <1>7. /\ outcome # None /\ d.results[n] = outcome
        /\ \A m \in Nodes \ {n} : d.results[m] = c.results[m]
        /\ Filled(d, n) /\ \A k \in 0 .. 6 : Filled(c, k) => Filled(d, k)
    BY <1>1, <1>5, <1>6, FilledAdds
  <1>8. \A m \in Nodes : d.results[m] # None => Filled(d, m)
    BY <1>4, <1>7 DEF InOrder, Nodes
  <1>9. d \in Snapshot
    BY <1>6 DEF Adds
  <1>10. \A q \in Requests : req[q] # None => req[q].node \in Nodes
    BY DEF TypeOK, Request
  \* Where the run goes on, or that it is complete.
  <1>11. /\ d.next # None => Filled(d, d.next - 1)
         /\ d.status = "completed" => Filled(d, d.current) /\ (d.next # None => Filled(d, d.next))
    <2>1. CASE StepEnds(r, c, d, n)
      <3>1. /\ d.next = After(n) /\ d.current \in Nodes
            /\ d.status = "completed" => n = ReportGeneration
        BY <1>9, <2>1 DEF StepEnds, Snapshot
      <3>2. CASE n = ReportGeneration
        <4>1. d.next = None /\ Filled(d, 6)
          BY <1>7, <3>1, <3>2, AfterType, <1>1 DEF ReportGeneration
        <4>2. Filled(d, d.current)
          BY <3>1, <4>1 DEF Filled, Nodes
        <4> QED
          BY <4>1, <4>2
      <3>3. CASE n # ReportGeneration
        BY <1>1, <1>7, <3>1, <3>3, AfterType DEF Nodes
      <3> QED
        BY <3>2, <3>3
    <2>2. CASE RunEnds(r, c, d, n)
      <3>1. d.next = None /\ d.current \in Nodes /\ Filled(d, 6)
        BY <1>7, <1>9, <2>2 DEF RunEnds, Snapshot, ReportGeneration
      <3> QED
        BY <3>1 DEF Filled, Nodes
    <2>3. CASE RunGoesOn(r, c, d, n)
      <3>1. d.next = n + 1 /\ d.status # "completed"
        BY <2>3 DEF RunGoesOn
      <3> QED
        BY <1>1, <1>7, <3>1 DEF Nodes
    <2>4. CASE CompiledEnds(r, d, n, outcome)
      BY <1>7, <2>4 DEF CompiledEnds
    <2>5. CASE CompiledRevises(r, c, d, n, outcome)
      <3>1. d.next = n /\ d.current = n /\ d.status = c.status
        BY <2>5 DEF CompiledRevises
      <3>2. Filled(d, n - 1)
        BY <1>1, <1>7 DEF Filled, Nodes
      <3> QED
        BY <1>7, <3>1, <3>2
    <2>6. CASE CompiledGoesOn(r, c, d, n, outcome)
      <3>1. d.next = n + 1 /\ d.current = n + 1 /\ d.status = c.status /\ req[r].kind = "compiled"
        BY <2>6 DEF CompiledGoesOn
      <3>2. n + 1 \in Nodes
        BY <1>1, <2>6, AfterType DEF CompiledGoesOn
      <3>3. d.status = "completed" => Filled(d, 6)
        BY <1>5, <1>7, <3>1 DEF ReportGeneration
      <3>4. d.status = "completed" => Filled(d, n + 1)
        BY <3>2, <3>3 DEF Filled, Nodes
      <3>5. Filled(d, d.next - 1)
        BY <1>1, <1>7, <3>1 DEF Nodes
      <3> QED
        BY <3>1, <3>4, <3>5
    <2> QED
      BY <1>2, <2>1, <2>2, <2>3, <2>4, <2>5, <2>6 DEF Answered
  \* What else runs the snapshot compiled sees it completed only by the last node.
  <1>12. ASSUME NEW q \in Requests, q # r, req'[q] # None, req'[q].of = s
         PROVE  Follows(d, req'[q])
    <2>1. req'[q] = req[q] /\ Follows(c, req[q]) /\ req[q].node \in Nodes
      BY <1>1, <1>4, <1>10, <1>12
    <2>2. Filled(d, req[q].node - 1)
      BY <1>7, <2>1 DEF Follows, Nodes
    <2>3. ASSUME req[q].kind = "compiled", d.status = "completed"
          PROVE  Filled(d, ReportGeneration)
      <3>1. req[r].kind # "compiled"
        BY <1>3, <1>12, <2>1, <2>3 DEF Hands
      <3>2. StepEnds(r, c, d, n) \/ RunEnds(r, c, d, n) \/ RunGoesOn(r, c, d, n)
        BY <1>2, <3>1 DEF Answered, CompiledEnds, CompiledRevises, CompiledGoesOn
      <3>3. n = ReportGeneration
        BY <2>3, <3>2 DEF StepEnds, RunEnds, RunGoesOn
      <3> QED
        BY <1>7, <3>3
    <2> QED
      BY <2>1, <2>2, <2>3 DEF Follows
  <1>13. ASSUME req'[r] # None
         PROVE  Follows(d, req'[r])
    <2>1. CASE RunGoesOn(r, c, d, n) /\ GoOn(r, n + 1)
      <3>1. n + 1 \in Nodes
        BY <1>1, <2>1, AfterType DEF RunGoesOn
      <3>2. req'[r].node = n + 1 /\ req'[r].kind = "run"
        BY <1>3, <2>1, <3>1, GoOnFacts DEF RunGoesOn
      <3> QED
        BY <1>1, <1>7, <3>2 DEF Follows, Nodes
    <2>2. CASE CompiledRevises(r, c, d, n, outcome)
      <3>1. req'[r].node = n /\ d.status = c.status /\ req[r].kind = "compiled"
        BY <1>3, <2>2, ReviseFacts DEF CompiledRevises
      <3>2. Filled(d, n - 1)
        BY <1>1, <1>7 DEF Filled, Nodes
      <3>3. d.status = "completed" => Filled(d, ReportGeneration)
        BY <1>5, <1>7, <3>1 DEF ReportGeneration
      <3> QED
        BY <3>1, <3>2, <3>3 DEF Follows
    <2>3. CASE CompiledGoesOn(r, c, d, n, outcome)
      <3>1. n + 1 \in Nodes
        BY <1>1, <2>3, AfterType DEF CompiledGoesOn
      <3>2. req'[r].node = n + 1 /\ d.status = c.status /\ req[r].kind = "compiled"
        BY <1>3, <2>3, <3>1, GoOnFacts DEF CompiledGoesOn
      <3>3. d.status = "completed" => Filled(d, ReportGeneration)
        BY <1>5, <1>7, <3>2 DEF ReportGeneration
      <3>4. req'[r].node - 1 = n
        BY <1>1, <3>2 DEF Nodes
      <3>5. Filled(d, req'[r].node - 1)
        BY <1>7, <3>4
      <3> QED
        BY <3>3, <3>5 DEF Follows
    <2>4. CASE Return(r)
      BY <1>13, <2>4, ReturnFacts
    <2> QED
      BY <1>2, <2>1, <2>2, <2>3, <2>4
         DEF Answered, StepEnds, RunEnds, RunGoesOn, CompiledEnds
  <1>14. InOrder(d)
    BY <1>8, <1>11 DEF InOrder
  <1>15. \A q \in Requests : req'[q] # None /\ req'[q].of = s => Follows(d, req'[q])
    BY <1>12, <1>13
  <1> QED
    BY <1>14, <1>15

LEMMA OrderStep == ASSUME TypeOK, Hands, Order, [Next]_vars PROVE Order'
  <1>1. ASSUME NEW r \in Requests, NEW s \in Snapshots, NEW b \in UserBreakpoints,
               NEW single \in BOOLEAN, Invoke(r, s, b, single)
        PROVE  Order'
    <2> DEFINE d == Created(b)
    <2>1. Elsewhere(s) /\ snap'[s] = d /\ ~Exists(s)
      BY <1>1, InvokeElsewhere, InvokeCase
    <2>2. b \in SUBSET Nodes
      BY WorkflowAssumption
    <2>3. /\ d.status = "running" /\ d.next = DataCollection
          /\ d.results = [n \in Nodes |-> None]
      BY <2>2, CreatedFacts
    <2>4. DataCollection \in Nodes /\ DataCollection - 1 = 0
      BY DEF DataCollection, Nodes
    <2>5. PICK kind \in {"compiled", "run", "step"} : Waits(r, s, kind, DataCollection)
      BY <1>1, InvokeCase
    <2>6. req'[r].node = DataCollection /\ \A q \in Requests \ {r} : req'[q] = req[q]
      BY <2>4, <2>5, WaitsFacts
    <2> HIDE DEF d
    <2>7. InOrder(d) /\ Filled(d, 0)
      BY <2>3, <2>4 DEF InOrder, Filled
    <2>8. ASSUME NEW q \in Requests, req'[q] # None, req'[q].of = s
          PROVE  Follows(d, req'[q])
      <3>1. q = r
        BY <2>1, <2>6, <2>8 DEF Hands
      <3> QED
        BY <2>3, <2>4, <2>6, <2>7, <3>1 DEF Follows
    <2> QED
      BY <2>1, <2>7, <2>8, OrderFrame
  <1>2. ASSUME NEW r \in Requests, NEW s \in Snapshots, NEW told \in BOOLEAN,
               NEW single \in BOOLEAN, Proceed(r, s, told, single)
        PROVE  Order'
    <2> DEFINE c == snap[s]
    <2>1. PICK start \in Nodes, kind \in {"run", "step"} :
             /\ start = IF c.next = None THEN DataCollection ELSE c.next
             /\ snap'[s] = Proceeded(c, told, start)
             /\ Waits(r, s, kind, start)
      BY <1>2, ProceedElsewhere
    <2>2. Elsewhere(s) /\ Exists(s) /\ c \in Snapshot
      BY <1>2, ProceedElsewhere
    <2> DEFINE d == Proceeded(c, told, start)
    <2>3. /\ d.results = c.results /\ d.current = start /\ d.next = start
          /\ d.status = IF c.status = "paused" THEN "running" ELSE c.status
      BY <2>2, ProceededFacts DEF Same
    <2>4. /\ req'[r].node = start /\ req'[r].kind = kind
          /\ \A q \in Requests \ {r} : req'[q] = req[q]
      BY <2>1, WaitsFacts
    <2> HIDE DEF d
    <2>5. d.status = "completed" => c.status = "completed"
      BY <2>3
    <2>6. \A k : Filled(d, k) <=> Filled(c, k)
      BY <2>3 DEF Filled
    <2>7. ASSUME s \notin disturbed'
          PROVE  /\ InOrder(d)
                 /\ \A q \in Requests : req'[q] # None /\ req'[q].of = s => Follows(d, req'[q])
      <3>1. Orderly(s)
        BY <2>2, <2>7 DEF Order, Elsewhere
      <3>2. InOrder(c) /\ \A q \in Requests : req[q] # None /\ req[q].of = s => Follows(c, req[q])
        BY <3>1 DEF Orderly
      <3>3. Filled(c, start - 1)
        BY <2>1, <3>2 DEF InOrder, Filled, DataCollection
      <3>4. c.status = "completed" => Filled(c, start)
        <4>1. CASE c.next = None
          <5>1. start = 1 /\ c.current \in Nodes
            BY <2>1, <2>2, <4>1 DEF DataCollection, Snapshot
          <5> QED
            BY <3>2, <5>1 DEF InOrder, Filled, Nodes
        <4>2. CASE c.next # None
          BY <2>1, <3>2, <4>2 DEF InOrder
        <4> QED
          BY <4>1, <4>2
      <3>5. InOrder(d)
        BY <2>3, <2>5, <2>6, <3>2, <3>3, <3>4 DEF InOrder
      <3>6. \A q \in Requests : req'[q] # None /\ req'[q].of = s => Follows(d, req'[q])
        BY <2>1, <2>4, <2>5, <2>6, <3>2, <3>3 DEF Follows
      <3> QED
        BY <3>5, <3>6
    <2>8. snap'[s] = d
      BY <2>1 DEF d
    <2> QED
      BY <2>2, <2>7, <2>8, OrderFrame
  <1>3. ASSUME NEW s \in Snapshots, Terminate(s) \/ Pause(s)
        PROVE  Order'
    <2> DEFINE c == snap[s]
               d == snap'[s]
    <2>1. /\ Elsewhere(s) /\ Exists(s) /\ UNCHANGED <<req, disturbed>>
          /\ Marked(c, d)
      BY <1>3, MarkElsewhere
    <2>2. d.results = c.results /\ d.next = c.next /\ d.status # "completed"
      BY <2>1 DEF Marked, Same
    <2> HIDE DEF c, d
    <2>3. \A k : Filled(d, k) <=> Filled(c, k)
      BY <2>2 DEF Filled
    <2>4. ASSUME s \notin disturbed'
          PROVE  /\ InOrder(d)
                 /\ \A q \in Requests : req'[q] # None /\ req'[q].of = s => Follows(d, req'[q])
      <3>1. Orderly(s)
        BY <2>1, <2>4 DEF Order
      <3>2. InOrder(c) /\ \A q \in Requests : req[q] # None /\ req[q].of = s => Follows(c, req[q])
        BY <3>1 DEF Orderly, c
      <3> QED
        BY <2>1, <2>2, <2>3, <3>2 DEF InOrder, Follows
    <2> QED
      BY <2>1, <2>4, OrderFrame DEF d
  <1>4. ASSUME NEW s \in Snapshots, NEW target \in Nodes, Rollback(s, target)
        PROVE  Order'
    <2> DEFINE c == snap[s]
               d == RolledBack(c, target)
    <2>1. Elsewhere(s) /\ snap'[s] = d
      BY <1>4, RollbackElsewhere
    <2>2. /\ Exists(s) /\ c \in Snapshot /\ UNCHANGED req
          /\ s \notin disturbed' => ~InFlight(s) /\ Filled(c, target - 1)
      BY <1>4, RollbackCase
    <2>3. /\ d.results = [n \in Nodes |-> IF n \in 1 .. target - 1 THEN c.results[n] ELSE None]
          /\ d.status = "rolled_back" /\ d.next = target
      BY <2>2, RolledBackFacts
    <2> HIDE DEF d
    <2>4. ASSUME s \notin disturbed'
          PROVE  /\ InOrder(d)
                 /\ \A q \in Requests : req'[q] # None /\ req'[q].of = s => Follows(d, req'[q])
      <3>1. \A q \in Requests : ~(req'[q] # None /\ req'[q].of = s)
        BY <2>2, <2>4 DEF InFlight
      <3>2. Filled(d, target - 1)
        BY <2>2, <2>3, <2>4 DEF Filled, Nodes
      <3>3. \A n \in Nodes : d.results[n] # None => n \in 1 .. target - 1
        BY <2>3
      <3>4. \A n \in Nodes : d.results[n] # None => Filled(d, n)
        BY <3>2, <3>3 DEF Filled, Nodes
      <3> QED
        BY <2>3, <3>1, <3>2, <3>4 DEF InOrder
    <2> QED
      BY <2>1, <2>4, OrderFrame
  <1>5. ASSUME NEW r \in Requests, Answer(r)
        PROVE  Order'
    <2>1. /\ Elsewhere(req[r].of) /\ req[r].of \in Snapshots /\ Exists(req[r].of)
          /\ UNCHANGED disturbed
      BY <1>5, AnswerElsewhere
    <2>2. req[r].of \notin disturbed' => Orderly(req[r].of)
      BY <2>1 DEF Order
    <2> QED
      BY <1>5, <2>1, <2>2, AnswerOrder, OrderFrame
  <1>6. ASSUME NEW r \in Requests, Load(r)
        PROVE  Order'
    <2> DEFINE s == req[r].of
               c == snap[s]
               d == At(c, DataCollection)
    <2>1. /\ Elsewhere(s) /\ s \in Snapshots /\ Exists(s) /\ c \in Snapshot
          /\ snap'[s] = d /\ UNCHANGED disturbed
          /\ req[r] # None /\ req[r].kind = "compiled"
          /\ \A q \in Requests : req'[q] # None =>
                 /\ req[q] # None /\ req'[q].of = req[q].of /\ req'[q].kind = req[q].kind
                 /\ req'[q].node = req[q].node
      BY <1>6, LoadElsewhere
    <2>2. DataCollection \in Nodes /\ DataCollection - 1 = 0
      BY DEF DataCollection, Nodes
    <2>3. /\ d.results = c.results /\ d.status = c.status
          /\ d.current = DataCollection /\ d.next = DataCollection
      BY <2>1, <2>2, AtFacts DEF Same
    <2> HIDE DEF d
    <2>4. \A k : Filled(d, k) <=> Filled(c, k)
      BY <2>3 DEF Filled
    <2>5. ASSUME s \notin disturbed'
          PROVE  /\ InOrder(d)
                 /\ \A q \in Requests : req'[q] # None /\ req'[q].of = s => Follows(d, req'[q])
      <3>1. Orderly(s)
        BY <2>1, <2>5 DEF Order
      <3>2. InOrder(c) /\ \A q \in Requests : req[q] # None /\ req[q].of = s => Follows(c, req[q])
        BY <3>1 DEF Orderly
      <3>3. c.status = "completed" => Filled(c, ReportGeneration)
        BY <2>1, <3>2 DEF Follows
      <3>4. Filled(d, 0) /\ (c.status = "completed" => Filled(d, DataCollection))
        BY <2>4, <3>3 DEF Filled, ReportGeneration, DataCollection
      <3>5. InOrder(d)
        BY <2>2, <2>3, <2>4, <3>2, <3>4 DEF InOrder
      <3>6. \A q \in Requests : req'[q] # None /\ req'[q].of = s => Follows(d, req'[q])
        BY <2>1, <2>3, <2>4, <3>2 DEF Follows
      <3> QED
        BY <3>5, <3>6
    <2> QED
      BY <2>1, <2>5, OrderFrame
  <1>7. ASSUME NEW r \in Requests, Break(r)
        PROVE  Order'
    <2>1. UNCHANGED <<snap, disturbed>> /\ \A q \in Requests : req'[q] # None => req'[q] = req[q]
      BY <1>7, ReturnFacts DEF Break
    <2> QED
      BY <2>1 DEF Order, Orderly, Exists
  <1>8. CASE UNCHANGED vars
    BY <1>8 DEF Order, Orderly, Exists, vars
  <1> QED
    BY <1>1, <1>2, <1>3, <1>4, <1>5, <1>6, <1>7, <1>8, NextCases

-----------------------------------------------------------------------------
(* The gates. *)

LEMMA GatesFrame ==
    ASSUME TypeOK, Gates, NEW s \in Snapshots, Elsewhere(s),
           s \notin disturbed' \cup stepped' =>
               /\ Gated(snap'[s])
               /\ \A q \in Requests : req'[q] # None /\ req'[q].of = s => Reached(snap'[s], req'[q])
    PROVE  Gates'
  <1> SUFFICES ASSUME NEW t \in Snapshots, snap'[t] # None, t \notin disturbed' \cup stepped'
               PROVE  /\ Gated(snap'[t])
                      /\ \A q \in Requests : req'[q] # None /\ req'[q].of = t => Reached(snap'[t], req'[q])
    BY DEF Gates, Guarded, Exists
  <1>1. CASE t = s
    BY <1>1
  <1>2. CASE t # s
    <2>1. snap'[t] = snap[t] /\ t \notin disturbed \cup stepped
      BY <1>2 DEF Elsewhere
    <2>2. \A q \in Requests : req'[q] # None /\ req'[q].of = t => req'[q] = req[q]
      BY <1>2 DEF Elsewhere
    <2> QED
      BY <2>1, <2>2 DEF Gates, Guarded, Exists
  <1> QED
    BY <1>1, <1>2

(* What is alike in results, log and final output has come as far. *)
LEMMA GatedSame ==
    ASSUME NEW c, NEW d, d.results = c.results, d.log = c.log, d.final = c.final
    PROVE  /\ Gated(c) => Gated(d)
           /\ \A p, q : Reached(c, p) /\ q.node = p.node /\ q.revisions = p.revisions => Reached(d, q)
  BY DEF Gated, Reached

(* The only run of an unstepped snapshot is compiled: how its answer moves *)
(* the snapshot along the graph.                                           *)
LEMMA AnswerGates ==
    ASSUME TypeOK, Hands, NEW r \in Requests, Answer(r), Guarded(req[r].of),
           req[r].of \notin stepped
    PROVE  LET s == req[r].of IN
           /\ Gated(snap'[s])
           /\ \A q \in Requests : req'[q] # None /\ req'[q].of = s => Reached(snap'[s], req'[q])
  <1> DEFINE s == req[r].of
             n == req[r].node
             k == req[r].revisions
             c == snap[s]
             d == snap'[s]
  <1>1. /\ c \in Snapshot /\ n \in Nodes /\ \A q \in Requests \ {r} : req'[q] = req[q]
        /\ req'[r] # None => req'[r].of = s /\ req'[r].kind = req[r].kind
    BY AnswerElsewhere
  <1>2. PICK outcome \in Outcomes(n) :
           outcome \in {"passed", "low"} /\ Answered(r, c, d, n, outcome)
    BY AnswerElsewhere
  <1>3. req[r] # None /\ req[r] \in Request
    BY AnswerCase
  <1>4. req[r].kind = "compiled"
    BY <1>3 DEF Hands
  <1>5. ASSUME NEW q \in Requests, q # r, req'[q] # None, req'[q].of = s
        PROVE  FALSE
    <2>1. req[q] # None /\ req[q].of = s
      BY <1>1, <1>5
    <2>2. req[q].kind = "compiled"
      BY <2>1 DEF Hands
    <2> QED
      BY <1>3, <1>4, <1>5, <2>1, <2>2 DEF Hands
  <1>6. Gated(c) /\ Reached(c, req[r])
    BY <1>3 DEF Guarded
  <1>7. Adds(c, d, n, outcome)
    BY <1>2 DEF Answered
  <1>8. /\ outcome # None /\ d.results[n] = outcome
        /\ \A m \in Nodes \ {n} : d.results[m] = c.results[m]
    BY <1>1, <1>2, <1>7, FilledAdds
  <1>9. /\ c.log \in [Nodes -> Nat] /\ d.log = [c.log EXCEPT ![n] = @ + 1]
    BY <1>1, <1>7 DEF Snapshot, Adds
  <1>10. /\ c.log[ProductPlanning] \in Nat /\ k \in Nat
         /\ d.log[ProductPlanning] = IF n = ProductPlanning THEN c.log[ProductPlanning] + 1
                                                            ELSE c.log[ProductPlanning]
    BY <1>1, <1>3, <1>9 DEF Nodes, ProductPlanning, Request
  <1>11. /\ c.final = None
         /\ \A m \in 1 .. n - 1 : c.results[m] = "passed"
         /\ \A m \in Nodes : c.results[m] # None =>
                m < n \/ (m = n /\ n = ProductPlanning /\ k > 0)
         /\ n <= ProductPlanning => c.log[ProductPlanning] = k
         /\ k < MaxRevisions
    BY <1>6 DEF Reached
  <1>12. c.log[ProductPlanning] <= MaxRevisions
    BY <1>6 DEF Gated
  <1>13. /\ \A m \in 1 .. n - 1 : d.results[m] = "passed"
         /\ \A m \in Nodes : d.results[m] # None => m <= n
    BY <1>1, <1>8, <1>11 DEF Nodes
  <1>14. d.log[ProductPlanning] <= MaxRevisions
    BY <1>10, <1>11, <1>12 DEF MaxRevisions, ProductPlanning
  <1>15. /\ d.results[ProductPlanning] # None => d.results[MarketAnalysis] = "passed"
         /\ d.results[ProductPlanning + 1] # None => d.results[ProductPlanning] = "passed"
    BY <1>1, <1>13 DEF Nodes, MarketAnalysis, ProductPlanning
  <1>16. None \notin Verdicts
    BY NoneAssumption
  <1> HIDE DEF s, n, k, c, d
  <1>17. CASE CompiledEnds(r, d, n, outcome)
    <2>1. d.final = EndsWith(r, n, outcome) /\ Return(r)
      BY <1>17 DEF CompiledEnds
    <2>2. d.final = "ABORT_MARKET" => d.results[MarketAnalysis] = "low"
      BY <2>1, <1>8, <1>16 DEF EndsWith, Verdicts
    <2>3. d.final = "TERMINATE" =>
              d.results[ProductPlanning] = "low" /\ d.log[ProductPlanning] = MaxRevisions
      <3>1. SUFFICES ASSUME d.final = "TERMINATE"
                     PROVE  d.results[ProductPlanning] = "low" /\ d.log[ProductPlanning] = MaxRevisions
        OBVIOUS
      <3>2. n = ProductPlanning /\ outcome = "low" /\ k + 1 >= MaxRevisions
        BY <2>1, <3>1, <1>16 DEF EndsWith, Verdicts, k
      <3>3. d.log[ProductPlanning] = k + 1
        BY <1>10, <1>11, <3>2 DEF ProductPlanning
      <3> QED
        BY <1>8, <1>10, <1>11, <3>2, <3>3 DEF MaxRevisions
    <2>4. d.final = "PROCEED" => \A m \in Nodes : d.results[m] = "passed"
      <3>1. SUFFICES ASSUME d.final = "PROCEED" PROVE \A m \in Nodes : d.results[m] = "passed"
        OBVIOUS
      <3>2. n = ReportGeneration
        BY <2>1, <3>1, <1>16 DEF EndsWith, Verdicts
      <3>3. outcome = "passed"
        BY <1>2, <3>2 DEF Outcomes, MarketAnalysis, ProductPlanning, ReportGeneration
      <3> QED
        BY <1>8, <1>13, <3>2, <3>3 DEF Nodes, ReportGeneration
    <2>5. Gated(d)
      BY <1>14, <1>15, <2>2, <2>3, <2>4 DEF Gated
    <2>6. req'[r] = None
      BY <2>1, ReturnFacts
    <2> QED
      BY <1>5, <2>5, <2>6 DEF d, s
  <1>18. CASE CompiledRevises(r, c, d, n, outcome)
    <2>1. /\ n = ProductPlanning /\ outcome = "low" /\ k + 1 < MaxRevisions /\ d.final = c.final
          /\ req' = [req EXCEPT ![r].revisions = @ + 1]
      BY <1>18 DEF CompiledRevises, k
    <2>2. req'[r].node = n /\ req'[r].revisions = k + 1
      BY <1>3, <2>1, ReviseFacts DEF k, n
    <2>3. d.final = None /\ d.log[ProductPlanning] = k + 1
      BY <1>10, <1>11, <2>1 DEF ProductPlanning
    <2>4. Gated(d)
      BY <1>14, <1>15, <1>16, <2>3 DEF Gated, Verdicts
    <2>5. \A m \in Nodes : d.results[m] # None =>
             m < n \/ (m = n /\ n = ProductPlanning /\ k + 1 > 0)
      BY <1>10, <1>13, <2>1 DEF Nodes, ProductPlanning
    <2>6. Reached(d, req'[r])
      BY <1>13, <2>1, <2>2, <2>3, <2>5 DEF Reached
    <2> QED
      BY <1>5, <2>4, <2>6 DEF d, s
  <1>19. CASE CompiledGoesOn(r, c, d, n, outcome)
    <2>1. n # ReportGeneration /\ outcome = "passed" /\ d.final = c.final /\ GoOn(r, n + 1)
      BY <1>19 DEF CompiledGoesOn
    <2>2. n \in Nodes /\ n + 1 \in Nodes
      BY <1>1, <2>1, AfterType DEF n
    <2>3. req'[r].node = n + 1 /\ req'[r].revisions = k
      BY <1>3, <2>1, <2>2, GoOnFacts DEF k
    <2>4. d.final = None
      BY <1>11, <2>1
    <2>5. Gated(d)
      BY <1>14, <1>15, <1>16, <2>4 DEF Gated, Verdicts
    <2>6. \A m \in 1 .. n + 1 - 1 : d.results[m] = "passed"
      BY <1>8, <1>13, <2>1, <2>2 DEF Nodes
    <2>7. \A m \in Nodes : d.results[m] # None => m < n + 1
      BY <1>13, <2>2 DEF Nodes
    <2>8. n + 1 <= ProductPlanning => d.log[ProductPlanning] = k
      BY <1>10, <1>11, <2>2 DEF ProductPlanning, Nodes
    <2>9. Reached(d, req'[r])
      BY <1>11, <2>2, <2>3, <2>4, <2>6, <2>7, <2>8 DEF Reached, Nodes
    <2> QED
      BY <1>5, <2>5, <2>9 DEF d, s
  <1> QED
    BY <1>2, <1>4, <1>17, <1>18, <1>19 DEF Answered, StepEnds, RunEnds, RunGoesOn

LEMMA GatesStep == ASSUME TypeOK, Hands, Gates, [Next]_vars PROVE Gates'
  <1>1. ASSUME NEW r \in Requests, NEW s \in Snapshots, NEW b \in UserBreakpoints,
               NEW single \in BOOLEAN, Invoke(r, s, b, single)
        PROVE  Gates'
    <2> DEFINE d == Created(b)
    <2>1. Elsewhere(s) /\ snap'[s] = d /\ ~Exists(s)
      BY <1>1, InvokeElsewhere, InvokeCase
    <2>2. b \in SUBSET Nodes
      BY WorkflowAssumption
    <2>3. /\ d.final = None /\ d.log = [n \in Nodes |-> 0]
          /\ d.results = [n \in Nodes |-> None]
      BY <2>2, CreatedFacts
    <2>4. DataCollection \in Nodes /\ DataCollection - 1 = 0
      BY DEF DataCollection, Nodes
    <2>5. PICK kind \in {"compiled", "run", "step"} : Waits(r, s, kind, DataCollection)
      BY <1>1, InvokeCase
    <2>6. /\ req'[r].node = DataCollection /\ req'[r].revisions = 0
          /\ \A q \in Requests \ {r} : req'[q] = req[q]
      BY <2>4, <2>5, WaitsFacts
    <2> HIDE DEF d
    <2>7. /\ \A n \in Nodes : d.results[n] = None
          /\ d.log[ProductPlanning] = 0
      BY <2>3 DEF Nodes, ProductPlanning
    <2>8. Gated(d)
      BY <2>3, <2>7, NoneAssumption
         DEF Gated, Nodes, ProductPlanning, MarketAnalysis, MaxRevisions, Verdicts
    <2>9. ASSUME NEW q \in Requests, req'[q] # None, req'[q].of = s
          PROVE  Reached(d, req'[q])
      <3>1. q = r
        BY <2>1, <2>6, <2>9 DEF Hands
      <3> QED
        BY <2>3, <2>4, <2>6, <2>7, <3>1 DEF Reached, MaxRevisions
    <2> QED
      BY <2>1, <2>8, <2>9, GatesFrame
  <1>2. ASSUME NEW r \in Requests, NEW s \in Snapshots, NEW told \in BOOLEAN,
               NEW single \in BOOLEAN, Proceed(r, s, told, single)
        PROVE  Gates'
    <2>1. Elsewhere(s) /\ stepped' = stepped \cup {s}
      BY <1>2, ProceedElsewhere, ProceedCase
    <2> QED
      BY <2>1, GatesFrame
  <1>3. ASSUME NEW s \in Snapshots, Terminate(s) \/ Pause(s)
        PROVE  Gates'
    <2>1. /\ Elsewhere(s) /\ Exists(s) /\ UNCHANGED <<req, disturbed, stepped>>
          /\ Marked(snap[s], snap'[s])
      BY <1>3, MarkElsewhere
    <2>2. /\ snap'[s].results = snap[s].results /\ snap'[s].log = snap[s].log
          /\ snap'[s].final = snap[s].final
      BY <2>1 DEF Marked, Same
    <2>3. s \notin disturbed' \cup stepped' => Guarded(s)
      BY <2>1 DEF Gates
    <2> QED
      BY <2>1, <2>2, <2>3, GatedSame, GatesFrame DEF Guarded
  <1>4. ASSUME NEW s \in Snapshots, NEW target \in Nodes, Rollback(s, target)
        PROVE  Gates'
    <2> DEFINE c == snap[s]
               d == RolledBack(c, target)
    <2>1. Elsewhere(s) /\ snap'[s] = d
      BY <1>4, RollbackElsewhere
    <2>2. /\ Exists(s) /\ c \in Snapshot /\ UNCHANGED req
          /\ s \notin disturbed' => ~InFlight(s)
      BY <1>4, RollbackCase
    <2>3. /\ d.results = [n \in Nodes |-> IF n \in 1 .. target - 1 THEN c.results[n] ELSE None]
          /\ d.log = [n \in Nodes |-> IF n \in 1 .. target - 1 THEN c.log[n] ELSE 0]
          /\ d.final = None
      BY <2>2, RolledBackFacts
    <2> HIDE DEF d
    <2>4. ASSUME s \notin disturbed' \cup stepped'
          PROVE  /\ Gated(d)
                 /\ \A q \in Requests : req'[q] # None /\ req'[q].of = s => Reached(d, req'[q])
      <3>1. \A q \in Requests : ~(req'[q] # None /\ req'[q].of = s)
        BY <2>2, <2>4 DEF InFlight
      <3>2. Gated(c)
        BY <2>1, <2>2, <2>4 DEF Gates, Guarded, Elsewhere
      <3>3. c.log[ProductPlanning] \in Nat
        BY <2>2 DEF Snapshot, Nodes, ProductPlanning
      <3>4. d.log[ProductPlanning] <= MaxRevisions
        BY <2>3, <3>2, <3>3 DEF Gated, Nodes, ProductPlanning, MaxRevisions
      <3>5. /\ d.results[ProductPlanning] # None => d.results[MarketAnalysis] = "passed"
            /\ d.results[ProductPlanning + 1] # None => d.results[ProductPlanning] = "passed"
        BY <2>3, <3>2 DEF Gated, Nodes, ProductPlanning, MarketAnalysis
      <3>6. Gated(d)
        BY <2>3, <3>4, <3>5, NoneAssumption DEF Gated, Verdicts
      <3> QED
        BY <3>1, <3>6
    <2> QED
      BY <2>1, <2>4, GatesFrame
  <1>5. ASSUME NEW r \in Requests, Answer(r)
        PROVE  Gates'
    <2>1. /\ Elsewhere(req[r].of) /\ req[r].of \in Snapshots /\ Exists(req[r].of)
          /\ UNCHANGED <<disturbed, stepped>>
      BY <1>5, AnswerElsewhere
    <2>2. req[r].of \notin disturbed' \cup stepped' => Guarded(req[r].of) /\ req[r].of \notin stepped
      BY <2>1 DEF Gates
    <2> QED
      BY <1>5, <2>1, <2>2, AnswerGates, GatesFrame
  <1>6. ASSUME NEW r \in Requests, Load(r)
        PROVE  Gates'
    <2> DEFINE s == req[r].of
               c == snap[s]
               d == At(c, DataCollection)
    <2>1. /\ Elsewhere(s) /\ s \in Snapshots /\ Exists(s) /\ c \in Snapshot
          /\ snap'[s] = d /\ UNCHANGED <<disturbed, stepped>>
          /\ \A q \in Requests : req'[q] # None =>
                 /\ req[q] # None /\ req'[q].of = req[q].of
                 /\ req'[q].node = req[q].node /\ req'[q].revisions = req[q].revisions
      BY <1>6, LoadElsewhere
    <2>2. d.results = c.results /\ d.log = c.log /\ d.final = c.final
      BY <2>1, AtFacts DEF Same, DataCollection, Nodes
    <2>3. s \notin disturbed' \cup stepped' => Guarded(s)
      BY <2>1 DEF Gates
    <2> HIDE DEF d
    <2> QED
      BY <2>1, <2>2, <2>3, GatedSame, GatesFrame DEF Guarded
  <1>7. ASSUME NEW r \in Requests, Break(r)
        PROVE  Gates'
    <2>1. /\ UNCHANGED <<snap, disturbed, stepped>>
          /\ \A q \in Requests : req'[q] # None => req'[q] = req[q]
      BY <1>7, ReturnFacts DEF Break
    <2> QED
      BY <2>1 DEF Gates, Guarded, Exists
  <1>8. CASE UNCHANGED vars
    BY <1>8 DEF Gates, Guarded, Exists, vars
  <1> QED
    BY <1>1, <1>2, <1>3, <1>4, <1>5, <1>6, <1>7, <1>8, NextCases

-----------------------------------------------------------------------------
(* The stores. *)

(* What StoresAgree says of one snapshot. *)
Agreeing(c) ==
    /\ c.agents = {n \in Nodes : c.results[n] # None}
    /\ c.agents = {n \in Nodes : c.log[n] > 0}
    /\ Cardinality(c.agents) <= c.total
    /\ c.total <= Executions(c)

LEMMA AgreeingAdds ==
    ASSUME NEW c \in Snapshot, NEW d, NEW n \in Nodes, NEW outcome \in {"passed", "low"},
           Adds(c, d, n, outcome), Agreeing(c)
    PROVE  Agreeing(d)
  <1>1. /\ c.agents \subseteq Nodes /\ c.total \in Nat /\ c.log \in [Nodes -> Nat]
    BY DEF Snapshot
  <1>2. /\ d.agents = c.agents \cup {n} /\ d.total = c.total + 1
        /\ d.log = [c.log EXCEPT ![n] = @ + 1]
    BY DEF Adds
  <1>3. /\ d.results[n] # None /\ \A m \in Nodes \ {n} : d.results[m] = c.results[m]
    BY FilledAdds
  <1>4. d.agents = {m \in Nodes : d.results[m] # None}
    BY <1>2, <1>3 DEF Agreeing
  <1>5. d.agents = {m \in Nodes : d.log[m] > 0}
    <2>1. d.log[n] > 0 /\ \A m \in Nodes \ {n} : d.log[m] = c.log[m]
      BY <1>1, <1>2
    <2> QED
      BY <1>2, <2>1 DEF Agreeing
  <1>6. IsFiniteSet(c.agents)
    BY <1>1, NodesFinite, FS_Subset
  <1>7. Cardinality(c.agents) \in Nat
    BY <1>6, FS_CardinalityType
  <1>8. Cardinality(d.agents) \in {Cardinality(c.agents), Cardinality(c.agents) + 1}
    BY <1>2, <1>6, FS_AddElement
  <1>9. Cardinality(d.agents) <= d.total
    BY <1>1, <1>2, <1>7, <1>8 DEF Agreeing
  <1>10. Executions(d) = Executions(c) + 1
    BY <1>1, <1>2 DEF Executions, Nodes
  <1>11. Executions(c) \in Nat
    BY <1>1 DEF Executions, Nodes
  <1>12. d.total <= Executions(d)
    BY <1>1, <1>2, <1>10, <1>11 DEF Agreeing
  <1> QED
    BY <1>4, <1>5, <1>9, <1>12 DEF Agreeing

Logged(d, k) == {n \in Nodes : n <= k /\ d.log[n] > 0}

(* The nodes that the log knows are no more than its entries. *)
LEMMA LogCounts ==
    ASSUME NEW d, d.log \in [Nodes -> Nat]
    PROVE  Cardinality({n \in Nodes : d.log[n] > 0}) <= Executions(d)
  <1>1. \A k \in 0 .. 6 : IsFiniteSet(Logged(d, k)) /\ Cardinality(Logged(d, k)) \in Nat
    BY NodesFinite, FS_Subset, FS_CardinalityType DEF Logged
  <1>2. \A k \in 0 .. 5 : /\ k + 1 \in Nodes /\ k + 1 \notin Logged(d, k)
                          /\ d.log[k + 1] = 0 => Logged(d, k + 1) = Logged(d, k)
                          /\ d.log[k + 1] > 0 => Logged(d, k + 1) = Logged(d, k) \cup {k + 1}
    BY DEF Nodes, Logged
  <1>3. Logged(d, 0) = {} /\ Logged(d, 6) = {n \in Nodes : d.log[n] > 0}
    BY DEF Nodes, Logged
  <1>4. ASSUME NEW k \in 0 .. 5
        PROVE  Cardinality(Logged(d, k + 1)) <= Cardinality(Logged(d, k)) + d.log[k + 1]
    <2>1. IsFiniteSet(Logged(d, k)) /\ Cardinality(Logged(d, k)) \in Nat
      BY <1>1
    <2>2. k + 1 \in Nodes /\ d.log[k + 1] \in Nat
      BY DEF Nodes
    <2>3. CASE d.log[k + 1] = 0
      BY <1>2, <2>1, <2>3
    <2>4. CASE d.log[k + 1] > 0
      <3>1. Cardinality(Logged(d, k + 1)) = Cardinality(Logged(d, k)) + 1
        BY <1>2, <2>1, <2>4, FS_AddElement
      <3> QED
        BY <2>1, <2>2, <2>4, <3>1
    <2> QED
      BY <2>2, <2>3, <2>4
  <1>5. /\ Cardinality(Logged(d, 1)) <= Cardinality(Logged(d, 0)) + d.log[1]
        /\ Cardinality(Logged(d, 2)) <= Cardinality(Logged(d, 1)) + d.log[2]
        /\ Cardinality(Logged(d, 3)) <= Cardinality(Logged(d, 2)) + d.log[3]
        /\ Cardinality(Logged(d, 4)) <= Cardinality(Logged(d, 3)) + d.log[4]
        /\ Cardinality(Logged(d, 5)) <= Cardinality(Logged(d, 4)) + d.log[5]
        /\ Cardinality(Logged(d, 6)) <= Cardinality(Logged(d, 5)) + d.log[6]
    <2>1. /\ 0 + 1 = 1 /\ 1 + 1 = 2 /\ 2 + 1 = 3 /\ 3 + 1 = 4 /\ 4 + 1 = 5 /\ 5 + 1 = 6
      OBVIOUS
    <2> QED
      BY <1>4, <2>1
  <1>6. Cardinality(Logged(d, 0)) = 0 /\ \A n \in 1 .. 6 : d.log[n] \in Nat
    BY <1>3, FS_EmptySet DEF Nodes
  <1>7. Cardinality(Logged(d, 6)) <= Executions(d)
    BY <1>1, <1>5, <1>6 DEF Executions
  <1> QED
    BY <1>3, <1>7

LEMMA AgreeingRolledBack ==
    ASSUME NEW c \in Snapshot, NEW target \in Nodes, Agreeing(c)
    PROVE  Agreeing(RolledBack(c, target))
  <1> DEFINE d == RolledBack(c, target)
             kept == 1 .. target - 1
  <1>1. /\ d \in Snapshot
        /\ d.results = [n \in Nodes |-> IF n \in kept THEN c.results[n] ELSE None]
        /\ d.log = [n \in Nodes |-> IF n \in kept THEN c.log[n] ELSE 0]
        /\ d.agents = c.agents \cap kept
        /\ d.total = Cardinality(c.agents \cap kept)
    BY RolledBackFacts
  <1> HIDE DEF d
  <1>2. c.agents = {n \in Nodes : c.results[n] # None} /\ c.agents = {n \in Nodes : c.log[n] > 0}
    BY DEF Agreeing
  <1>3. d.agents = {n \in Nodes : d.results[n] # None}
    BY <1>1, <1>2
  <1>4. d.agents = {n \in Nodes : d.log[n] > 0}
    BY <1>1, <1>2
  <1>5. d.log \in [Nodes -> Nat] /\ d.total = Cardinality(d.agents) /\ d.total \in Nat
    BY <1>1 DEF Snapshot
  <1>6. d.total <= Executions(d)
    BY <1>4, <1>5, LogCounts
  <1>7. Cardinality(d.agents) <= d.total
    BY <1>5
  <1>8. Agreeing(d)
    BY <1>3, <1>4, <1>6, <1>7 DEF Agreeing
  <1> QED
    BY <1>8 DEF d

LEMMA AgreeingSame == ASSUME NEW c, NEW d, Same(c, d), Agreeing(c) PROVE Agreeing(d)
  BY DEF Same, Agreeing, Executions

LEMMA AgreeingCreated == ASSUME NEW b \in SUBSET Nodes PROVE Agreeing(Created(b))
  <1> DEFINE d == Created(b)
  <1>1. /\ d.results = [n \in Nodes |-> None] /\ d.log = [n \in Nodes |-> 0]
        /\ d.agents = {} /\ d.total = 0
    BY CreatedFacts
  <1> HIDE DEF d
  <1>2. Cardinality(d.agents) = 0
    BY <1>1, FS_EmptySet
  <1>3. Executions(d) = 0
    BY <1>1 DEF Executions, Nodes
  <1>4. Agreeing(d)
    BY <1>1, <1>2, <1>3 DEF Agreeing
  <1> QED
    BY <1>4 DEF d

LEMMA StoresFrame ==
    ASSUME StoresAgree, NEW s \in Snapshots, Elsewhere(s), Agreeing(snap'[s])
    PROVE  StoresAgree'
  <1>1. \A t \in Snapshots : snap[t] # None => Agreeing(snap[t])
    BY DEF StoresAgree, Agreeing, Exists, Has
  <1>2. \A t \in Snapshots : snap'[t] # None => Agreeing(snap'[t])
    BY <1>1 DEF Elsewhere
  <1> QED
    BY <1>2 DEF StoresAgree, Agreeing, Exists, Has

LEMMA StoresStep == ASSUME TypeOK, Hands, StoresAgree, [Next]_vars PROVE StoresAgree'
  <1>1. \A t \in Snapshots : Exists(t) => Agreeing(snap[t])
    BY DEF StoresAgree, Agreeing, Exists, Has
  <1>2. ASSUME NEW r \in Requests, NEW s \in Snapshots, NEW b \in UserBreakpoints,
               NEW single \in BOOLEAN, Invoke(r, s, b, single)
        PROVE  StoresAgree'
    <2>1. b \in SUBSET Nodes
      BY WorkflowAssumption
    <2> QED
      BY <1>2, <2>1, InvokeElsewhere, AgreeingCreated, StoresFrame
  <1>3. ASSUME NEW r \in Requests, NEW s \in Snapshots, NEW told \in BOOLEAN,
               NEW single \in BOOLEAN, Proceed(r, s, told, single)
        PROVE  StoresAgree'
    <2>1. PICK start \in Nodes : snap'[s] = Proceeded(snap[s], told, start)
      BY <1>3, ProceedElsewhere
    <2>2. Elsewhere(s) /\ Exists(s) /\ snap[s] \in Snapshot
      BY <1>3, ProceedElsewhere
    <2>3. Same(snap[s], snap'[s])
      BY <2>1, <2>2, ProceededFacts
    <2> QED
      BY <1>1, <2>2, <2>3, AgreeingSame, StoresFrame
  <1>4. ASSUME NEW s \in Snapshots, Terminate(s) \/ Pause(s)
        PROVE  StoresAgree'
    <2>1. Elsewhere(s) /\ Exists(s) /\ Same(snap[s], snap'[s])
      BY <1>4, MarkElsewhere DEF Marked
    <2> QED
      BY <1>1, <2>1, AgreeingSame, StoresFrame
  <1>5. ASSUME NEW s \in Snapshots, NEW target \in Nodes, Rollback(s, target)
        PROVE  StoresAgree'
    BY <1>1, <1>5, RollbackElsewhere, RollbackCase, AgreeingRolledBack, StoresFrame
  <1>6. ASSUME NEW r \in Requests, Answer(r)
        PROVE  StoresAgree'
    <2> DEFINE s == req[r].of
    <2>1. /\ Elsewhere(s) /\ s \in Snapshots /\ Exists(s) /\ snap[s] \in Snapshot
          /\ req[r].node \in Nodes
      BY <1>6, AnswerElsewhere
    <2>2. PICK outcome \in {"passed", "low"} : Adds(snap[s], snap'[s], req[r].node, outcome)
      BY <1>6, AnswerElsewhere DEF Answered
    <2>3. Agreeing(snap'[s])
      BY <1>1, <2>1, <2>2, AgreeingAdds
    <2> QED
      BY <2>1, <2>3, StoresFrame
  <1>7. ASSUME NEW r \in Requests, Load(r)
        PROVE  StoresAgree'
    <2> DEFINE s == req[r].of
    <2>1. /\ Elsewhere(s) /\ s \in Snapshots /\ Exists(s) /\ snap[s] \in Snapshot
          /\ snap'[s] = At(snap[s], DataCollection)
      BY <1>7, LoadElsewhere
    <2>2. Same(snap[s], snap'[s])
      BY <2>1, AtFacts DEF DataCollection, Nodes
    <2> QED
      BY <1>1, <2>1, <2>2, AgreeingSame, StoresFrame
  <1>8. ASSUME NEW r \in Requests, Break(r)
        PROVE  StoresAgree'
    BY <1>8 DEF Break, StoresAgree, Exists, Has
  <1>9. CASE UNCHANGED vars
    BY <1>9 DEF StoresAgree, Exists, Has, vars
  <1> QED
    BY <1>2, <1>3, <1>4, <1>5, <1>6, <1>7, <1>8, <1>9, NextCases

-----------------------------------------------------------------------------
LEMMA InitCase == Init => IInv
  <1> SUFFICES ASSUME Init PROVE IInv
    OBVIOUS
  <1>1. (\A s \in Snapshots : ~Exists(s)) /\ \A r \in Requests : req[r] = None
    BY DEF Init, Exists
  <1>2. TypeOK
    BY WorkflowAssumption DEF Init, TypeOK
  <1> QED
    BY <1>1, <1>2 DEF IInv, Hands, Order, Gates, StoresAgree

LEMMA NextCase == IInv /\ [Next]_vars => IInv'
  BY TypeStep, HandsStep, OrderStep, GatesStep, StoresStep DEF IInv

(* The store, the requests, the order of the results, the gates and the    *)
(* bookkeeping together hold in every state.                               *)
THEOREM Invariance == Spec => []IInv
  BY InitCase, NextCase, PTL DEF Spec

(* The store and the requests always have the values that the code gives   *)
(* them.                                                                   *)
THEOREM TypeCorrect == Spec => []TypeOK
  <1>1. IInv => TypeOK
    BY DEF IInv
  <1> QED
    BY Invariance, <1>1, PTL

(* However steps, resumes, pauses and rollbacks of any number of requests  *)
(* interleave with executions, the nodes with a result are the first ones, *)
(* and a completed snapshot has one for every node up to its last, unless  *)
(* the snapshot was rolled back during an execution or beyond its results. *)
THEOREM OrderKept == Spec => []ResultsInOrder
  <1>1. IInv => ResultsInOrder
    BY DEF IInv, Order, Orderly, InOrder, Filled, ResultsInOrder, Exists, Has
  <1> QED
    BY Invariance, <1>1, PTL

(* A snapshot that only a compiled workflow has run never has a result     *)
(* behind a gate that refused it, has at most MaxRevisions plans, and its  *)
(* final output says how its results end.                                  *)
THEOREM GatesKept == Spec => []GatesHold
  <1>1. IInv => GatesHold
    BY DEF IInv, Gates, Guarded, Gated, GatesHold, Exists, Has
  <1> QED
    BY Invariance, <1>1, PTL

(* The results, the log and the costs of a snapshot agree in every state,  *)
(* disturbed or not.                                                       *)
THEOREM StoresKept == Spec => []StoresAgree
  <1>1. IInv => StoresAgree
    BY DEF IInv
  <1> QED
    BY Invariance, <1>1, PTL
=============================================================================
