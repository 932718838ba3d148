------------------------- MODULE RecommendationPool -------------------------
(***************************************************************************)
(* The recommendation pool (services/recommendation_pool_service.py), the  *)
(* ADS and FBA services that fill it and push it to the ERP, and the       *)
(* handler of the ERP's answers (services/erp_feedback_consumer.py).       *)
(*                                                                         *)
(* Every request has a database session of its own: it reads the row of a  *)
(* recommendation with a plain SELECT, tests the transition on that copy,  *)
(* writes the columns it changed with a flush, which takes the row lock,   *)
(* publishes an event and commits.  No version is compared.                *)
(***************************************************************************)
EXTENDS Integers, FiniteSets

CONSTANTS
    Recs,       \* recommendations, each with the suggestion of its domain
    Sessions,   \* database sessions of the requests that run at one time
    Reports,    \* the states that the ERP reports
    Details,    \* what an ERP answer says, stored in the column feedback
    MaxCalls,   \* bound: submissions of one suggestion to the ERP
    Unreliable, \* bound: the events whose publication may fail, or come late
    None

VARIABLES
    row,        \* the committed row of each recommendation, or None
    status,     \* the committed status of its ADS or FBA suggestion
    sess,       \* what each session is doing, or None
    calls,      \* how often the ERP was sent the suggestion
    told,       \* the state that the last event on the topic names
    adrift,     \* an event whose send timed out and that the broker may yet take, or None
    untrue,     \* history: since the last event on the topic was sent, something
                \* happened after which it need not name the state of the row
    approved,   \* history: a request that approved it has committed
    raced       \* history: a write went over a row newer than its copy

vars == <<row, status, sess, calls, told, adrift, untrue, approved, raced>>

Transitions ==
    [SUGGESTED          |-> {"PMS_APPROVED", "PMS_REJECTED"},
     PMS_APPROVED       |-> {"ERP_SUBMITTED", "EXECUTION_FAILED"},
     PMS_REJECTED       |-> {},
     ERP_SUBMITTED      |-> {"ERP_APPROVED", "ERP_REJECTED", "ERP_DRAFT_CREATED",
                             "ERP_PENDING_REVIEW", "SCM_REVIEWING", "EXECUTION_FAILED"},
     ERP_APPROVED       |-> {"SCM_REVIEWING", "EXECUTED", "EXECUTION_FAILED"},
     ERP_REJECTED       |-> {},
     ERP_DRAFT_CREATED  |-> {"ERP_PENDING_REVIEW", "EXECUTION_FAILED"},
     ERP_PENDING_REVIEW |-> {"ERP_APPROVED", "ERP_REJECTED", "EXECUTION_FAILED"},
     SCM_REVIEWING      |-> {"SCM_APPROVED", "SCM_REJECTED", "EXECUTION_FAILED"},
     SCM_APPROVED       |-> {"SCM_ORDERED", "EXECUTION_FAILED"},
     SCM_REJECTED       |-> {},
     SCM_ORDERED        |-> {"WMS_RESERVED", "EXECUTION_FAILED"},
     WMS_RESERVED       |-> {"WMS_CONFIRMED", "EXECUTION_FAILED"},
     WMS_CONFIRMED      |-> {"OMS_DRAFT_CREATED", "EXECUTION_FAILED"},
     OMS_DRAFT_CREATED  |-> {"OMS_PUBLISHED", "EXECUTION_FAILED"},
     OMS_PUBLISHED      |-> {"OMS_ACTIVE", "EXECUTION_FAILED"},
     OMS_ACTIVE         |-> {"CLOSED"},
     EXECUTED           |-> {"CLOSED"},
     PARTIALLY_EXECUTED |-> {"EXECUTED", "EXECUTION_FAILED", "CLOSED"},
     EXECUTION_FAILED   |-> {"ERP_SUBMITTED"},
     CLOSED             |-> {}]

State == DOMAIN Transitions

(* mutant: a suggestion is submitted without an approval. *)
CanSubmitDraft(current, target) ==
    target \in Transitions[current] \/ (current = "SUGGESTED" /\ target = "ERP_SUBMITTED")
(* mutant: a failed execution goes on without a new submission. *)
CanResume(current, target) ==
    target \in Transitions[current] \/ (current = "EXECUTION_FAILED" /\ target = "ERP_APPROVED")
CanTransition(current, target) == target \in Transitions[current]

\* The states that the requests of the PMS give; the ERP reports others.
OfPms == {"SUGGESTED", "PMS_APPROVED", "PMS_REJECTED", "ERP_SUBMITTED"}

ASSUME PoolAssumption ==
    /\ Reports \subseteq State \ OfPms
    /\ None \notin Details
    /\ MaxCalls \in Nat \ {0}
    /\ Unreliable \subseteq State

Operations == {"generate", "approve", "reject", "push", "answer", "advance", "feedback"}
Row == [state : State, feedback : Details \cup {None}, reason : BOOLEAN, closed : BOOLEAN]
Status == {"none", "suggested", "submitted", "answered"}
Steps == {"read", "called", "marked", "written"}
Session == [op : Operations, rec : Recs, target : State, detail : Details \cup {None},
            at : Steps, marks : BOOLEAN, copy : Row \cup {None}, new : Row \cup {None}]

ASSUME NoneAssumption == None \notin Row \cup Session \cup State

-----------------------------------------------------------------------------
NewRow == [state |-> "SUGGESTED", feedback |-> None, reason |-> FALSE, closed |-> FALSE]

\* Where an operation wants to take its recommendation.
Targets(op) ==
    CASE op = "generate" -> {"SUGGESTED"}
      [] op = "approve"  -> {"PMS_APPROVED"}
      [] op = "reject"   -> {"PMS_REJECTED"}
      [] op = "push"     -> {"ERP_SUBMITTED"}
      [] OTHER           -> Reports

\* receive_erp_feedback writes the feedback whatever the transition.
Receives(op) == op \in {"feedback", "answer"}

(* mutant: the detail is set in the dictionary that was read, in any case. *)
ExplainedInPlace(copy, target, detail) == copy.feedback
\* A failure's detail goes into the dictionary that was read: the column is
\* written only when that was empty, SQLAlchemy does not see a change in place.
Explained(copy, target, detail) ==
    IF target = "EXECUTION_FAILED" /\ copy.feedback = None THEN detail ELSE copy.feedback

(* mutant: closed_at is set before the transition is tested. *)
WantedStamped(w) ==
    LET c == w.copy
        moves == CanTransition(c.state, w.target)
    IN  [state    |-> IF moves THEN w.target ELSE c.state,
         feedback |-> IF Receives(w.op) THEN w.detail
                      ELSE Explained(c, w.target, w.detail),
         reason   |-> c.reason \/ w.op = "reject",
         closed   |-> c.closed \/ w.target = "CLOSED"]
\* The object after the assignments of the operation.
Wanted(w) ==
    LET c == w.copy
        moves == CanTransition(c.state, w.target)
    IN  [state    |-> IF moves THEN w.target ELSE c.state,
         feedback |-> IF Receives(w.op) THEN w.detail
                      ELSE Explained(c, w.target, w.detail),
         reason   |-> c.reason \/ w.op = "reject",
         closed   |-> c.closed \/ (moves /\ w.target = "CLOSED")]

(* mutant: a flush writes all columns of the object. *)
MergedWhole(copy, wanted, current) == wanted
\* A flush updates the columns whose value changed in the object.
Merged(copy, wanted, current) ==
    [col \in DOMAIN current |-> IF wanted[col] # copy[col] THEN wanted[col] ELSE current[col]]

Open(s) == sess[s] # None
At(s, step) == Open(s) /\ sess[s].at = step

(* mutant: the event is published before the flush. *)
RowLockedNever(s, r) == FALSE
(* mutant: the recommendation is locked when the request begins. *)
RowLockedEarly(s, r) == \E t \in Sessions \ {s} :
    /\ Open(t) /\ sess[t].rec = r
    /\ sess[t].op \in {"push", "answer"} \/ (sess[t].at = "written" /\ sess[t].new # None)
\* A session holds the row lock of the recommendation; another one holds it,
\* or that of the suggestion.
Holds(s, r) == At(s, "written") /\ sess[s].rec = r /\ sess[s].new # None
RowLocked(s, r) == \E t \in Sessions \ {s} : Holds(t, r)
StatusLocked(s, r) == \E t \in Sessions \ {s} :
    /\ Open(t) /\ sess[t].rec = r
    /\ sess[t].marks /\ sess[t].at \in {"marked", "written"}

(* mutant: the commit of a failed submission. *)
LeftFailed(op, current) ==
    CASE op = "generate" -> "suggested"
      [] op = "push"     -> "submission_failed"
      [] op = "answer"   -> "answered"
      [] OTHER           -> current
\* The status that an operation gives the suggestion.
Left(op, current) ==
    CASE op = "generate" -> "suggested"
      [] op = "push"     -> "submitted"
      [] op = "answer"   -> "answered"
      [] OTHER           -> current

\* A session that has just begun; a status that stays the same is not written.
Begun(s, r, op, target, detail, step, copy) ==
    [sess EXCEPT ![s] =
        [op |-> op, rec |-> r, target |-> target, detail |-> detail, at |-> step,
         marks |-> Left(op, status[r]) # status[r], copy |-> copy,
         new |-> IF op = "generate" THEN NewRow ELSE None]]

\* _publish_event swallows what a send raises, and send_message keeps what it
\* cannot send in the memory of its process, also after a timeout, when the
\* broker may still take it (bound: one such event of a recommendation at a time).
Publish(r, event, true) ==
    \/ /\ told' = [told EXCEPT ![r] = event]
       /\ untrue' = [untrue EXCEPT ![r] = ~true]
       /\ UNCHANGED adrift
    \/ /\ event \in Unreliable
       /\ untrue' = [untrue EXCEPT ![r] = TRUE]
       /\ \/ UNCHANGED adrift
          \/ adrift[r] = None /\ adrift' = [adrift EXCEPT ![r] = event]
       /\ UNCHANGED told

-----------------------------------------------------------------------------
Init ==
    /\ row = [r \in Recs |-> None]
    /\ status = [r \in Recs |-> "none"]
    /\ sess = [s \in Sessions |-> None]
    /\ calls = [r \in Recs |-> 0]
    /\ told = [r \in Recs |-> None]
    /\ adrift = [r \in Recs |-> None]
    /\ untrue = [r \in Recs |-> FALSE]
    /\ approved = [r \in Recs |-> FALSE]
    /\ raced = [r \in Recs |-> FALSE]

\* generate_*_suggestion inserts the suggestion, then create_recommendation
\* inserts the row and publishes; nobody sees either before the commit.
Generate(s, r) ==
    /\ ~Open(s) /\ row[r] = None
    /\ \A t \in Sessions : Open(t) => sess[t].rec # r
    /\ sess' = Begun(s, r, "generate", "SUGGESTED", None, "written", None)
    /\ Publish(r, "SUGGESTED", TRUE)
    /\ UNCHANGED <<row, status, calls, approved, raced>>

\* A request over HTTP, or an event of the ERP, reads the row.  The ERP
\* answers only what it was sent.  One whose transition is not allowed is
\* answered with an error at once and leaves nothing behind.
Read(s, r, op, target, detail) ==
    /\ ~Open(s) /\ row[r] # None
    /\ op \in {"approve", "reject", "advance", "feedback"}
    /\ op \in {"advance", "feedback"} => calls[r] > 0
    /\ Receives(op) \/ CanTransition(row[r].state, target)
    /\ detail \in (IF op \in {"approve", "reject"} THEN {None} ELSE Details)
    /\ sess' = Begun(s, r, op, target, detail, "read", row[r])
    /\ UNCHANGED <<row, status, calls, told, adrift, untrue, approved, raced>>

(* mutant: the client is called after the commit. *)
CallLater(s, r) ==
    /\ ~Open(s) /\ row[r] # None /\ calls[r] < MaxCalls
    /\ sess' = Begun(s, r, "push", "ERP_SUBMITTED", None, "called", None)
    /\ UNCHANGED <<row, status, calls, told, adrift, untrue, approved, raced>>
\* push_suggestion_to_erp sends the suggestion to the client of the domain.
Call(s, r) ==
    /\ ~Open(s) /\ row[r] # None /\ calls[r] < MaxCalls
    /\ calls' = [calls EXCEPT ![r] = @ + 1]
    /\ sess' = Begun(s, r, "push", "ERP_SUBMITTED", None, "called", None)
    /\ UNCHANGED <<row, status, told, adrift, untrue, approved, raced>>

\* receive_ads_feedback and receive_fba_feedback begin with the suggestion.
Answer(s, r, target, detail) ==
    /\ ~Open(s) /\ row[r] # None /\ calls[r] > 0
    /\ target \in Reports /\ detail \in Details
    /\ sess' = Begun(s, r, "answer", target, detail, "called", None)
    /\ UNCHANGED <<row, status, calls, told, adrift, untrue, approved, raced>>

\* The new status of the suggestion is flushed, which locks its row, and only
\* then is the recommendation read.
Mark(s) ==
    /\ At(s, "called") /\ ~StatusLocked(s, sess[s].rec)
    /\ sess' = [sess EXCEPT ![s] =
           [sess[s] EXCEPT !.at = "marked", !.copy = row[sess[s].rec]]]
    /\ UNCHANGED <<row, status, calls, told, adrift, untrue, approved, raced>>

Ready(s) == IF sess[s].op \in {"push", "answer"} THEN At(s, "marked") ELSE At(s, "read")

\* What the session is to commit if nothing of the row changes.
Unwritten(s) == [sess EXCEPT ![s] = [sess[s] EXCEPT !.at = "written"]]

\* The pool answers a push with an error, which the domain's service ignores:
\* it commits the suggestion as "submitted" all the same.
Ignore(s) ==
    /\ At(s, "marked") /\ sess[s].op = "push"
    /\ ~CanTransition(sess[s].copy.state, sess[s].target)
    /\ sess' = Unwritten(s)
    /\ UNCHANGED <<row, status, calls, told, adrift, untrue, approved, raced>>

\* The flush waits for the row lock, then the event is published.
Write(s) ==
    LET w == sess[s]
        r == w.rec
    IN  /\ Open(s) /\ Ready(s)
        /\ Receives(w.op) \/ CanTransition(w.copy.state, w.target)
        /\ Wanted(w) # w.copy
        /\ ~RowLocked(s, r)
        /\ sess' = [sess EXCEPT ![s] =
               [w EXCEPT !.at = "written", !.new = Merged(w.copy, Wanted(w), row[r])]]
        /\ Publish(r, w.target, CanTransition(w.copy.state, w.target))
        /\ raced' = [raced EXCEPT ![r] = @ \/ row[r] # w.copy]
        /\ UNCHANGED <<row, status, calls, approved>>

\* A feedback that changes no column is not flushed; its event is published.
Repeat(s) ==
    LET w == sess[s]
        r == w.rec
    IN  /\ Open(s) /\ Ready(s)
        /\ Receives(w.op) /\ Wanted(w) = w.copy
        /\ sess' = Unwritten(s)
        /\ Publish(r, w.target, FALSE)
        /\ UNCHANGED <<row, status, calls, approved, raced>>

Commit(s) ==
    LET w == sess[s]
        r == w.rec
    IN  /\ At(s, "written")
        /\ row' = [row EXCEPT ![r] = IF w.new # None THEN w.new ELSE @]
        /\ status' = [status EXCEPT ![r] = IF w.marks THEN Left(w.op, @) ELSE @]
        /\ approved' = [approved EXCEPT ![r] = @ \/ (w.op = "approve" /\ w.new # None)]
        /\ sess' = [sess EXCEPT ![s] = None]
        /\ UNCHANGED <<calls, told, adrift, untrue, raced>>

\* The client raises, an exception ends the request, its commit fails or its
\* process is killed: the session is rolled back, the event is out.
Rollback(s) ==
    /\ Open(s)
    /\ untrue' = [untrue EXCEPT ![sess[s].rec] = @ \/ (At(s, "written") /\ sess[s].new # None)]
    /\ sess' = [sess EXCEPT ![s] = None]
    /\ UNCHANGED <<row, status, calls, told, adrift, approved, raced>>

\* The sender of the producer that the timeout dropped goes on: the event
\* comes after those of later requests.
Arrive(r) ==
    /\ adrift[r] # None
    /\ told' = [told EXCEPT ![r] = adrift[r]]
    /\ untrue' = [untrue EXCEPT ![r] = TRUE]
    /\ adrift' = [adrift EXCEPT ![r] = None]
    /\ UNCHANGED <<row, status, sess, calls, approved, raced>>

Request(s) ==
    \E r \in Recs :
        \/ Generate(s, r)
        \/ Call(s, r)
        \/ \E target \in Reports, detail \in Details : Answer(s, r, target, detail)
        \/ \E op \in Operations, detail \in Details \cup {None} :
               \E target \in Targets(op) : Read(s, r, op, target, detail)

Progress(s) == Mark(s) \/ Ignore(s) \/ Write(s) \/ Repeat(s) \/ Commit(s)

Next ==
    \/ \E s \in Sessions : Request(s) \/ Progress(s) \/ Rollback(s)
    \/ \E r \in Recs : Arrive(r)

Spec == Init /\ [][Next]_vars

-----------------------------------------------------------------------------
TypeOK ==
    /\ row \in [Recs -> Row \cup {None}]
    /\ status \in [Recs -> Status]
    /\ sess \in [Sessions -> Session \cup {None}]
    /\ calls \in [Recs -> 0 .. MaxCalls]
    /\ told \in [Recs -> State \cup {None}]
    /\ adrift \in [Recs -> State \cup {None}]
    /\ untrue \in [Recs -> BOOLEAN]
    /\ approved \in [Recs -> BOOLEAN]
    /\ raced \in [Recs -> BOOLEAN]

Exists(r) == row[r] # None
Final(state) == Transitions[state] = {}
BeforeErp == {"SUGGESTED", "PMS_APPROVED", "PMS_REJECTED", "EXECUTION_FAILED"}

\* A rejected or closed recommendation stays so, whatever requests and ERP
\* answers come, unless one of them had read the row before it was decided:
\* approve, reject, submit and advance test the transition on their own copy.
ReopenedOnlyByStaleRead ==
    [][\A r \in Recs :
         Exists(r) /\ Final(row[r].state) /\ row'[r] # row[r] /\ row'[r].state # row[r].state
         => raced[r]]_vars

\* Readers of the table see what RecommendationLifecycle promises, whatever
\* requests, answers and rollbacks overlap: proposals, submissions, and commits
\* that follow the state table, or, once a stale request wrote over a newer row,
\* still rest on an approval and a submission (advance_state and its callers).
Lifecycle == INSTANCE RecommendationLifecycle WITH
    Moves     <- Transitions,
    state     <- [r \in Recs |-> IF Exists(r) THEN row[r].state ELSE None],
    submitted <- {r \in Recs : calls[r] > 0},
    contested <- raced

ImplementsLifecycle == Lifecycle!Spec

\* Events go out before their commit, of requests that overlap; still the last
\* event about a recommendation names the state it is in, when no write of it
\* is open: the row lock is held from the flush until the commit.  The causes
\* of a wrong one are a rollback after the event, a feedback whose transition
\* was not allowed but whose event names it, an event that did not reach the
\* topic (_publish_event swallows that) and one that reached it after its send
\* had timed out; the next event that is sent in time sets it right.
ToldIsTrue ==
    \A r \in Recs :
        Exists(r) /\ ~untrue[r] /\ (\A s \in Sessions : ~Holds(s, r))
        => told[r] = row[r].state

\* What the database calls submitted, or later, the ERP has been sent, though
\* a request may end between the call of the client and its commit.
SubmittedIsKnown ==
    \A r \in Recs :
        Exists(r) /\ (row[r].state \notin BeforeErp \/ status[r] \in {"submitted", "answered"})
        => calls[r] > 0

\* No recommendation is in a state of the ERP without an approval in the PMS,
\* though the ERP is sent suggestions that nobody approved and answers them.
ErpStateWasApproved ==
    \A r \in Recs : Exists(r) /\ row[r].state \notin {"SUGGESTED", "PMS_REJECTED"} => approved[r]

\* closed_at and rejection_reason agree with the state, and a failure has left
\* something in the feedback (its detail, if nothing was there before), unless a
\* stale request wrote one column of a row and left the others.
ColumnsAgree ==
    \A r \in Recs : Exists(r) /\ ~raced[r] =>
        /\ row[r].closed <=> row[r].state = "CLOSED"
        /\ row[r].reason <=> row[r].state = "PMS_REJECTED"
        /\ row[r].state = "EXECUTION_FAILED" => row[r].feedback # None

\* Requests that lock both a suggestion and its recommendation never wait for
\* each other in a circle: one of those that are open can always go on.
SomeoneGoesOn == (\E s \in Sessions : Open(s)) => \E s \in Sessions : ENABLED Progress(s)
=============================================================================
