---------------------- MODULE RecommendationPoolProofs ----------------------
(***************************************************************************)
(* The safety properties of RecommendationPool, and then of ErpFeedback,   *)
(* whose worker is one of the sessions of the pool: for every set of       *)
(* recommendations, sessions and reports and every bound.                  *)
(***************************************************************************)
EXTENDS ErpFeedback, SequenceTheorems, TLAPS

FromErp == {"push", "answer", "advance", "feedback"}

(* What a state of r, in the table or in a copy, rests on.                  *)
Grounded(state, r) ==
    /\ state \notin {"SUGGESTED", "PMS_REJECTED"} => approved[r]
    /\ state \notin BeforeErp => calls[r] > 0

(* The columns of a row agree.                                              *)
Agrees(x) ==
    /\ x.closed <=> x.state = "CLOSED"
    /\ x.reason <=> x.state = "PMS_REJECTED"
    /\ x.state = "EXECUTION_FAILED" => x.feedback # None

(* What the operation and the place of a session say of its other fields.   *)
Shape(w) ==
    /\ w.op = "approve" => w.target = "PMS_APPROVED"
    /\ w.op = "reject" => w.target = "PMS_REJECTED"
    /\ w.op = "push" => w.target = "ERP_SUBMITTED"
    /\ w.op \in {"answer", "advance", "feedback"} => w.target \in Reports /\ w.detail \in Details
    /\ w.op = "generate" => w.at = "written" /\ w.new = NewRow /\ row[w.rec] = None
    /\ w.op # "generate" => row[w.rec] # None /\ (w.at # "written" => w.new = None)
    /\ w.op \in FromErp => calls[w.rec] > 0
    /\ w.op # "generate" /\ w.at # "called" => w.copy # None

(* What a flush that is not committed will make of the row.                 *)
Flushed(w) ==
    /\ w.new.state \notin {"SUGGESTED", "PMS_REJECTED"} => approved[w.rec] \/ w.op = "approve"
    /\ w.new.state \notin BeforeErp => calls[w.rec] > 0
    /\ ~raced[w.rec] =>
          /\ Agrees(w.new)
          /\ row[w.rec] # None =>
                \/ w.new.state = row[w.rec].state
                \/ CanTransition(row[w.rec].state, w.new.state)
    /\ ~untrue[w.rec] => told[w.rec] = w.new.state

SessInv(s) ==
    Open(s) =>
        /\ Shape(sess[s])
        /\ sess[s].copy # None => Grounded(sess[s].copy.state, sess[s].rec)
        /\ sess[s].new # None => Flushed(sess[s])

OneHolder == \A r \in Recs : \A s, t \in Sessions : Holds(s, r) /\ Holds(t, r) => s = t

RowInv(r) ==
    /\ row[r] # None => Grounded(row[r].state, r) /\ (~raced[r] => Agrees(row[r]))
    /\ status[r] \in {"submitted", "answered"} => calls[r] > 0

IInv ==
    /\ TypeOK
    /\ \A s \in Sessions : SessInv(s)
    /\ OneHolder
    /\ \A r \in Recs : RowInv(r)
    /\ ToldIsTrue

-----------------------------------------------------------------------------
(* The state table: nothing comes back to a draft, no state goes to itself, *)
(* the ERP's states are entered by a submission.                            *)
LEMMA TransitionFacts ==
    ASSUME NEW a \in State, NEW b, CanTransition(a, b)
    PROVE  /\ b \in State /\ b # a /\ b # "SUGGESTED"
           /\ b \in {"PMS_APPROVED", "PMS_REJECTED"} <=> a = "SUGGESTED"
           /\ a \in BeforeErp /\ b \notin BeforeErp => b = "ERP_SUBMITTED"
           /\ a \notin {"CLOSED", "PMS_REJECTED"}
           /\ ~Final(a)
BY DEF CanTransition, Transitions, State, OfPms, BeforeErp, Final

LEMMA RowFields ==
    ASSUME NEW x \in Row
    PROVE  /\ x.state \in State /\ x.feedback \in Details \cup {None}
           /\ x.reason \in BOOLEAN /\ x.closed \in BOOLEAN /\ x # None
           /\ DOMAIN x = {"state", "feedback", "reason", "closed"}
BY NoneAssumption DEF Row

LEMMA NewRowFacts == NewRow \in Row /\ NewRow # None /\ Agrees(NewRow)
<1>1. "SUGGESTED" \in State
  BY DEF State, Transitions
<1>2. NewRow \in Row
  BY <1>1 DEF NewRow, Row
<1> QED BY <1>2, RowFields DEF NewRow, Agrees

(* A column of the merged row is the wanted one if it was changed.          *)
LEMMA MergedFields ==
    ASSUME NEW c \in Row, NEW x \in Row, NEW d \in Row
    PROVE  LET m == Merged(c, x, d) IN
           /\ m \in Row
           /\ m.state = IF x.state # c.state THEN x.state ELSE d.state
           /\ m.feedback = IF x.feedback # c.feedback THEN x.feedback ELSE d.feedback
           /\ m.reason = IF x.reason # c.reason THEN x.reason ELSE d.reason
           /\ m.closed = IF x.closed # c.closed THEN x.closed ELSE d.closed
<1> DEFINE m == Merged(c, x, d)
<1>1. m = [col \in {"state", "feedback", "reason", "closed"} |->
              IF x[col] # c[col] THEN x[col] ELSE d[col]]
  BY RowFields DEF Merged
<1>2. /\ m.state = IF x.state # c.state THEN x.state ELSE d.state
      /\ m.feedback = IF x.feedback # c.feedback THEN x.feedback ELSE d.feedback
      /\ m.reason = IF x.reason # c.reason THEN x.reason ELSE d.reason
      /\ m.closed = IF x.closed # c.closed THEN x.closed ELSE d.closed
  BY <1>1
<1>3. m = [state |-> m.state, feedback |-> m.feedback, reason |-> m.reason,
           closed |-> m.closed]
  BY <1>1
<1>4. /\ m.state \in State /\ m.feedback \in Details \cup {None}
      /\ m.reason \in BOOLEAN /\ m.closed \in BOOLEAN
  BY <1>2, RowFields
<1>5. m \in Row
  BY <1>3, <1>4 DEF Row
<1> QED BY <1>2, <1>5

LEMMA SessionFields ==
    ASSUME NEW w \in Session
    PROVE  /\ w.op \in Operations /\ w.rec \in Recs /\ w.target \in State
           /\ w.detail \in Details \cup {None} /\ w.at \in Steps /\ w.marks \in BOOLEAN
           /\ w.copy \in Row \cup {None} /\ w.new \in Row \cup {None} /\ w # None
BY NoneAssumption DEF Session

(* The object after the assignments of a session that read a row.           *)
LEMMA WantedFacts ==
    ASSUME NEW w \in Session, w.copy # None
    PROVE  /\ Wanted(w) \in Row
           /\ CanTransition(w.copy.state, w.target) => Wanted(w).state = w.target
           /\ ~CanTransition(w.copy.state, w.target) => Wanted(w).state = w.copy.state
<1>1. w.copy \in Row
  BY SessionFields
<1>2. Wanted(w).state \in State /\ Wanted(w).feedback \in Details \cup {None}
      /\ Wanted(w).reason \in BOOLEAN /\ Wanted(w).closed \in BOOLEAN
  BY <1>1, RowFields, SessionFields DEF Wanted, Explained
<1>3. Wanted(w) \in Row
  BY <1>2 DEF Wanted, Row
<1> QED BY <1>3 DEF Wanted

-----------------------------------------------------------------------------
(* Types *)

LEMMA OperationNames ==
    /\ {"generate", "push", "approve", "reject"} \subseteq Operations
    /\ {"answer", "advance", "feedback"} \subseteq Operations
    /\ {"SUGGESTED", "ERP_SUBMITTED", "PMS_APPROVED", "PMS_REJECTED"} \subseteq State
    /\ Reports \subseteq State
    /\ \A op \in Operations : Targets(op) \subseteq State
BY PoolAssumption DEF Operations, State, Transitions, Targets

LEMMA BegunFacts ==
    ASSUME TypeOK, NEW s \in Sessions, NEW r \in Recs, NEW op \in Operations,
           NEW target \in State, NEW detail \in Details \cup {None}, NEW step \in Steps,
           NEW copy \in Row \cup {None}
    PROVE  /\ Begun(s, r, op, target, detail, step, copy) \in [Sessions -> Session \cup {None}]
           /\ Begun(s, r, op, target, detail, step, copy)[s] \in Session
           /\ Begun(s, r, op, target, detail, step, copy)[s].op = op
           /\ Begun(s, r, op, target, detail, step, copy)[s].rec = r
           /\ Begun(s, r, op, target, detail, step, copy)[s].target = target
           /\ Begun(s, r, op, target, detail, step, copy)[s].detail = detail
           /\ Begun(s, r, op, target, detail, step, copy)[s].at = step
           /\ Begun(s, r, op, target, detail, step, copy)[s].copy = copy
           /\ Begun(s, r, op, target, detail, step, copy)[s].new =
                  IF op = "generate" THEN NewRow ELSE None
           /\ \A t \in Sessions \ {s} :
                  Begun(s, r, op, target, detail, step, copy)[t] = sess[t]
<1> DEFINE w == [op |-> op, rec |-> r, target |-> target, detail |-> detail, at |-> step,
                 marks |-> Left(op, status[r]) # status[r], copy |-> copy,
                 new |-> IF op = "generate" THEN NewRow ELSE None]
<1>1. sess \in [Sessions -> Session \cup {None}]
  BY DEF TypeOK
<1>2. (IF op = "generate" THEN NewRow ELSE None) \in Row \cup {None}
  BY NewRowFacts
<1>3. w \in Session
  BY <1>2 DEF Session
<1>4. Begun(s, r, op, target, detail, step, copy) = [sess EXCEPT ![s] = w]
  BY DEF Begun
<1>5. [sess EXCEPT ![s] = w] \in [Sessions -> Session \cup {None}]
  BY <1>1, <1>3
<1>6. /\ [sess EXCEPT ![s] = w][s] = w
      /\ \A t \in Sessions \ {s} : [sess EXCEPT ![s] = w][t] = sess[t]
  BY <1>1
<1> HIDE DEF w
<1>7. /\ w.op = op /\ w.rec = r /\ w.target = target /\ w.detail = detail /\ w.at = step
      /\ w.copy = copy /\ w.new = IF op = "generate" THEN NewRow ELSE None
  BY DEF w
<1> QED BY <1>3, <1>4, <1>5, <1>6, <1>7

(* The object of a session once it has been given a new copy or row.        *)
LEMMA Replaced ==
    ASSUME NEW w \in Session, NEW step \in Steps, NEW x \in Row \cup {None}
    PROVE  /\ [w EXCEPT !.at = step] \in Session
           /\ [w EXCEPT !.at = step, !.copy = x] \in Session
           /\ [w EXCEPT !.at = step, !.new = x] \in Session
BY DEF Session

LEMMA TypeInit == Init => TypeOK
<1> SUFFICES ASSUME Init PROVE TypeOK
  OBVIOUS
<1>1. \A r \in Recs : calls[r] \in 0 .. MaxCalls
  BY PoolAssumption DEF Init
<1> QED BY <1>1 DEF Init, TypeOK, Status

(* What is typed of a session that is open.                                 *)
LEMMA OpenFields ==
    ASSUME TypeOK, NEW s \in Sessions, Open(s)
    PROVE  /\ sess[s] \in Session
           /\ sess[s].rec \in Recs
           /\ row[sess[s].rec] \in Row \cup {None}
BY SessionFields DEF TypeOK, Open

LEMMA StatusTyped == \A op, current : current \in Status => Left(op, current) \in Status
BY DEF Left, Status

(* A session that is about to write has read the row, and it is there.      *)
LEMMA ReadyFacts ==
    ASSUME TypeOK, NEW s \in Sessions, SessInv(s), Open(s), Ready(s)
    PROVE  /\ sess[s] \in Session /\ sess[s].rec \in Recs
           /\ sess[s].copy \in Row /\ row[sess[s].rec] \in Row
           /\ sess[s].op # "generate" /\ sess[s].at \in {"read", "marked"}
           /\ sess[s].new = None
<1>1. sess[s] \in Session /\ sess[s].rec \in Recs /\ row[sess[s].rec] \in Row \cup {None}
  BY OpenFields
<1>2. sess[s].at \in {"read", "marked"}
  BY DEF Ready, At
<1>3. Shape(sess[s])
  BY DEF SessInv
<1> QED BY <1>1, <1>2, <1>3, SessionFields DEF Shape

(* What a publication, whatever comes of it, does to told and untrue.       *)
LEMMA PublishFacts ==
    ASSUME TypeOK, NEW r \in Recs, NEW e \in State, NEW b \in BOOLEAN, Publish(r, e, b)
    PROVE  /\ told' \in [Recs -> State \cup {None}] /\ adrift' \in [Recs -> State \cup {None}]
           /\ untrue' \in [Recs -> BOOLEAN]
           /\ untrue'[r] \/ (told'[r] = e /\ b)
           /\ \A q \in Recs \ {r} : untrue'[q] = untrue[q] /\ told'[q] = told[q]
<1>1. /\ told \in [Recs -> State \cup {None}] /\ adrift \in [Recs -> State \cup {None}]
      /\ untrue \in [Recs -> BOOLEAN]
  BY DEF TypeOK
<1>2. CASE told' = [told EXCEPT ![r] = e] /\ untrue' = [untrue EXCEPT ![r] = ~b] /\ adrift' = adrift
  BY <1>1, <1>2
<1>3. CASE /\ untrue' = [untrue EXCEPT ![r] = TRUE] /\ told' = told
           /\ adrift' = adrift \/ adrift' = [adrift EXCEPT ![r] = e]
  BY <1>1, <1>3
<1> QED BY <1>2, <1>3 DEF Publish

LEMMA TypeStep == TypeOK /\ (\A s \in Sessions : SessInv(s)) /\ [Next]_vars => TypeOK'
<1> SUFFICES ASSUME TypeOK, \A s \in Sessions : SessInv(s), [Next]_vars PROVE TypeOK'
  OBVIOUS
<1>0. CASE UNCHANGED vars
  BY <1>0 DEF TypeOK, vars
<1>a. /\ row \in [Recs -> Row \cup {None}] /\ status \in [Recs -> Status]
      /\ sess \in [Sessions -> Session \cup {None}] /\ calls \in [Recs -> 0 .. MaxCalls]
      /\ told \in [Recs -> State \cup {None}] /\ untrue \in [Recs -> BOOLEAN]
      /\ adrift \in [Recs -> State \cup {None}]
      /\ approved \in [Recs -> BOOLEAN] /\ raced \in [Recs -> BOOLEAN]
  BY DEF TypeOK
<1>b. {"read", "called", "marked", "written"} \subseteq Steps
  BY DEF Steps
<1>1. ASSUME NEW s \in Sessions, NEW r \in Recs, Generate(s, r) PROVE TypeOK'
  <2>1. sess' \in [Sessions -> Session \cup {None}]
    BY <1>1, <1>b, BegunFacts, OperationNames DEF Generate
  <2>2. /\ told' \in [Recs -> State \cup {None}] /\ untrue' \in [Recs -> BOOLEAN]
        /\ adrift' \in [Recs -> State \cup {None}]
    BY <1>1, OperationNames, PublishFacts DEF Generate
  <2> QED BY <1>1, <1>a, <2>1, <2>2 DEF Generate, TypeOK
<1>2. ASSUME NEW s \in Sessions, NEW r \in Recs, NEW op \in Operations,
             NEW target \in State, NEW detail \in Details \cup {None},
             Read(s, r, op, target, detail)
      PROVE  TypeOK'
  <2>0. row[r] \in Row \cup {None}
    BY <1>a
  <2>1. sess' \in [Sessions -> Session \cup {None}]
    BY <1>2, <1>b, <2>0, BegunFacts DEF Read
  <2> QED BY <1>2, <1>a, <2>1 DEF Read, TypeOK
<1>3. ASSUME NEW s \in Sessions, NEW r \in Recs, Call(s, r) PROVE TypeOK'
  <2>1. sess' \in [Sessions -> Session \cup {None}]
    BY <1>3, <1>b, BegunFacts, OperationNames DEF Call
  <2>2. calls[r] \in 0 .. MaxCalls /\ calls[r] < MaxCalls
    BY <1>3, <1>a DEF Call
  <2>3. calls[r] + 1 \in 0 .. MaxCalls
    BY <2>2, PoolAssumption
  <2>4. calls' \in [Recs -> 0 .. MaxCalls]
    BY <1>3, <1>a, <2>3 DEF Call
  <2> QED BY <1>3, <1>a, <2>1, <2>4 DEF Call, TypeOK
<1>4. ASSUME NEW s \in Sessions, NEW r \in Recs, NEW target \in Reports,
             NEW detail \in Details, Answer(s, r, target, detail)
      PROVE  TypeOK'
  <2>1. sess' \in [Sessions -> Session \cup {None}]
    BY <1>4, <1>b, BegunFacts, OperationNames DEF Answer
  <2> QED BY <1>4, <1>a, <2>1 DEF Answer, TypeOK
<1>5. ASSUME NEW s \in Sessions, Mark(s) PROVE TypeOK'
  <2>1. sess[s] \in Session /\ row[sess[s].rec] \in Row \cup {None}
    BY <1>5, OpenFields DEF Mark, At
  <2>2. [sess[s] EXCEPT !.at = "marked", !.copy = row[sess[s].rec]] \in Session
    BY <2>1, <1>b, Replaced
  <2>3. sess' \in [Sessions -> Session \cup {None}]
    BY <1>5, <1>a, <2>2 DEF Mark
  <2> QED BY <1>5, <1>a, <2>3 DEF Mark, TypeOK
<1>6. ASSUME NEW s \in Sessions, Open(s)
      PROVE  Unwritten(s) \in [Sessions -> Session \cup {None}]
  <2>1. [sess[s] EXCEPT !.at = "written"] \in Session
    BY <1>6, <1>b, OpenFields, Replaced
  <2> QED BY <2>1, <1>a DEF Unwritten
<1>7. ASSUME NEW s \in Sessions, Ignore(s) PROVE TypeOK'
  BY <1>7, <1>6, <1>a DEF Ignore, TypeOK, At
<1>8. ASSUME NEW s \in Sessions, Write(s) PROVE TypeOK'
  <2>1. /\ sess[s] \in Session /\ sess[s].rec \in Recs
        /\ sess[s].copy \in Row /\ row[sess[s].rec] \in Row
    BY <1>8, ReadyFacts DEF Write
  <2>2. Merged(sess[s].copy, Wanted(sess[s]), row[sess[s].rec]) \in Row
    BY <2>1, RowFields, WantedFacts, MergedFields
  <2>3. [sess[s] EXCEPT !.at = "written",
                        !.new = Merged(sess[s].copy, Wanted(sess[s]), row[sess[s].rec])] \in Session
    BY <2>1, <2>2, <1>b, Replaced
  <2>4. sess' \in [Sessions -> Session \cup {None}]
    BY <1>8, <1>a, <2>3 DEF Write
  <2>5. sess[s].target \in State
    BY <2>1, SessionFields
  <2>6. /\ told' \in [Recs -> State \cup {None}] /\ untrue' \in [Recs -> BOOLEAN]
        /\ adrift' \in [Recs -> State \cup {None}]
    <3>1. CanTransition(sess[s].copy.state, sess[s].target) \in BOOLEAN
      BY DEF CanTransition
    <3> QED BY <1>8, <2>1, <2>5, <3>1, PublishFacts DEF Write
  <2>7. raced' \in [Recs -> BOOLEAN]
    BY <1>8, <1>a DEF Write
  <2> QED BY <1>8, <1>a, <2>4, <2>6, <2>7 DEF Write, TypeOK
<1>9. ASSUME NEW s \in Sessions, Repeat(s) PROVE TypeOK'
  <2>1. sess[s].target \in State
    BY <1>9, OpenFields, SessionFields DEF Repeat
  <2>2. /\ told' \in [Recs -> State \cup {None}] /\ untrue' \in [Recs -> BOOLEAN]
        /\ adrift' \in [Recs -> State \cup {None}]
    BY <1>9, <2>1, OpenFields, PublishFacts DEF Repeat
  <2> QED BY <1>9, <1>6, <1>a, <2>2 DEF Repeat, TypeOK
<1>10. ASSUME NEW s \in Sessions, Commit(s) PROVE TypeOK'
  <2>1. sess[s] \in Session /\ sess[s].rec \in Recs /\ sess[s].new \in Row \cup {None}
    BY <1>10, OpenFields, SessionFields DEF Commit, At
  <2>2. row' \in [Recs -> Row \cup {None}]
    BY <1>10, <1>a, <2>1 DEF Commit
  <2>3. status' \in [Recs -> Status]
    BY <1>10, <1>a, <2>1, StatusTyped DEF Commit
  <2>4. approved' \in [Recs -> BOOLEAN]
    BY <1>10, <1>a DEF Commit
  <2>5. sess' \in [Sessions -> Session \cup {None}]
    BY <1>10, <1>a DEF Commit
  <2> QED BY <1>10, <1>a, <2>2, <2>3, <2>4, <2>5 DEF Commit, TypeOK
<1>11. ASSUME NEW s \in Sessions, Rollback(s) PROVE TypeOK'
  <2>1. sess' \in [Sessions -> Session \cup {None}] /\ untrue' \in [Recs -> BOOLEAN]
    BY <1>11, <1>a DEF Rollback, At, Open
  <2> QED BY <1>11, <1>a, <2>1 DEF Rollback, TypeOK
<1>12. ASSUME NEW s \in Sessions, Request(s) PROVE TypeOK'
  BY <1>12, <1>1, <1>2, <1>3, <1>4, OperationNames DEF Request
<1>13. ASSUME NEW s \in Sessions, Progress(s) PROVE TypeOK'
  BY <1>13, <1>5, <1>7, <1>8, <1>9, <1>10 DEF Progress
<1>14. ASSUME NEW r \in Recs, Arrive(r) PROVE TypeOK'
  <2>1. /\ told' \in [Recs -> State \cup {None}] /\ untrue' \in [Recs -> BOOLEAN]
        /\ adrift' \in [Recs -> State \cup {None}]
    BY <1>14, <1>a DEF Arrive
  <2> QED BY <1>14, <1>a, <2>1 DEF Arrive, TypeOK
<1> QED BY <1>0, <1>11, <1>12, <1>13, <1>14 DEF Next

-----------------------------------------------------------------------------
(* What a step leaves as it was *)

(* A session that does nothing: its copy is as well grounded as before, and *)
(* what it has flushed waits under its lock.                                *)
LEMMA SessionKept ==
    ASSUME NEW t \in Sessions, SessInv(t), sess'[t] = sess[t],
           Open(t) =>
             LET r == sess[t].rec IN
             /\ \/ row'[r] = row[r]
                \/ row'[r] # None /\ sess[t].op # "generate" /\ sess[t].new = None
             /\ approved[r] => approved'[r]
             /\ calls[r] > 0 => calls'[r] > 0
             /\ raced[r] => raced'[r]
             /\ sess[t].new # None =>
                   untrue'[r] \/ (~untrue[r] /\ told'[r] = told[r])
    PROVE  SessInv(t)'
<1> SUFFICES ASSUME Open(t)' PROVE SessInv(t)!2'
  BY DEF SessInv
<1> DEFINE w == sess[t]
<1> DEFINE r == w.rec
<1>0. Open(t) /\ sess'[t] = w
  BY DEF Open
<1>1. Shape(w) /\ (w.copy # None => Grounded(w.copy.state, r)) /\ (w.new # None => Flushed(w))
  BY <1>0 DEF SessInv
<1>2. /\ \/ row'[r] = row[r]
         \/ row'[r] # None /\ w.op # "generate" /\ w.new = None
      /\ approved[r] => approved'[r]
      /\ calls[r] > 0 => calls'[r] > 0
      /\ raced[r] => raced'[r]
      /\ w.new # None => untrue'[r] \/ (~untrue[r] /\ told'[r] = told[r])
  BY <1>0
<1> HIDE DEF w
<1>3. /\ w.op = "approve" => w.target = "PMS_APPROVED"
      /\ w.op = "reject" => w.target = "PMS_REJECTED"
      /\ w.op = "push" => w.target = "ERP_SUBMITTED"
      /\ w.op \in {"answer", "advance", "feedback"} => w.target \in Reports /\ w.detail \in Details
      /\ w.op = "generate" => w.at = "written" /\ w.new = NewRow /\ row'[r] = None
      /\ w.op # "generate" => row'[r] # None /\ (w.at # "written" => w.new = None)
      /\ w.op \in FromErp => calls'[r] > 0
      /\ w.op # "generate" /\ w.at # "called" => w.copy # None
  BY <1>1, <1>2, NewRowFacts DEF Shape
<1>4. w.copy # None => (/\ w.copy.state \notin {"SUGGESTED", "PMS_REJECTED"} => approved'[r]
                        /\ w.copy.state \notin BeforeErp => calls'[r] > 0)
  BY <1>1, <1>2 DEF Grounded
<1>5. ASSUME w.new # None
      PROVE  /\ w.new.state \notin {"SUGGESTED", "PMS_REJECTED"} => approved'[r] \/ w.op = "approve"
             /\ w.new.state \notin BeforeErp => calls'[r] > 0
             /\ ~raced'[r] =>
                   /\ Agrees(w.new)
                   /\ row'[r] # None =>
                        \/ w.new.state = row'[r].state
                        \/ CanTransition(row'[r].state, w.new.state)
             /\ ~untrue'[r] => told'[r] = w.new.state
  <2>1. Flushed(w) /\ row'[r] = row[r]
    BY <1>1, <1>2, <1>5
  <2> QED BY <2>1, <1>2, <1>5 DEF Flushed
<1> QED BY <1>0, <1>3, <1>4, <1>5 DEF Shape, Grounded, Flushed

(* A row that is not written.                                               *)
LEMMA RowKept ==
    ASSUME NEW r \in Recs, RowInv(r), row'[r] = row[r],
           status'[r] = status[r] \/ status'[r] \notin {"submitted", "answered"},
           approved[r] => approved'[r],
           calls[r] > 0 => calls'[r] > 0,
           raced[r] => raced'[r]
    PROVE  RowInv(r)'
BY DEF RowInv, Grounded

(* Nobody who did not hold a row comes to hold it.                          *)
LEMMA HoldersKept ==
    ASSUME OneHolder,
           \A t \in Sessions, r \in Recs : Holds(t, r)' => Holds(t, r)
    PROVE  OneHolder'
BY DEF OneHolder

(* A session goes on, and neither held a row nor does then.                 *)
LEMMA QuietStep ==
    ASSUME IInv, TypeOK', NEW s \in Sessions, SessInv(s)',
           \A t \in Sessions \ {s} : sess'[t] = sess[t],
           \A r \in Recs : ~Holds(s, r) /\ ~Holds(s, r)',
           \A r \in Recs : calls[r] > 0 => calls'[r] > 0,
           UNCHANGED <<row, status, told, untrue, approved, raced>>
    PROVE  IInv'
<1>1. \A t \in Sessions : SessInv(t)'
  <2>1. ASSUME NEW t \in Sessions \ {s} PROVE SessInv(t)'
    <3>1. SessInv(t) /\ sess'[t] = sess[t]
      BY DEF IInv
    <3>2. Open(t) => sess[t].rec \in Recs
      BY OpenFields DEF IInv
    <3> QED BY <3>1, <3>2, SessionKept DEF SessInv, Flushed
  <2> QED BY <2>1
<1>2. \A t \in Sessions, r \in Recs : Holds(t, r)' <=> Holds(t, r)
  BY DEF Holds, At, Open
<1>3. OneHolder'
  BY <1>2, HoldersKept DEF IInv
<1>4. \A r \in Recs : RowInv(r)'
  BY RowKept DEF IInv
<1>5. ToldIsTrue'
  BY <1>2 DEF IInv, ToldIsTrue, Exists
<1> QED BY <1>1, <1>3, <1>4, <1>5 DEF IInv

-----------------------------------------------------------------------------
(* The steps *)

LEMMA ReadStep ==
    ASSUME IInv, TypeOK', NEW s \in Sessions, NEW r \in Recs, NEW op \in Operations,
           NEW target \in Targets(op), NEW detail \in Details \cup {None},
           Read(s, r, op, target, detail)
    PROVE  IInv'
<1> USE DEF IInv
<1>0. target \in State /\ "read" \in Steps /\ row[r] \in Row /\ sess[s] = None
  BY OperationNames DEF Read, Open, TypeOK, Steps
<1>1. /\ sess'[s].op = op /\ sess'[s].rec = r /\ sess'[s].target = target
      /\ sess'[s].detail = detail /\ sess'[s].at = "read" /\ sess'[s].copy = row[r]
      /\ op \in {"approve", "reject", "advance", "feedback"}
      /\ sess'[s].new = None
      /\ \A t \in Sessions \ {s} : sess'[t] = sess[t]
  BY <1>0, BegunFacts DEF Read
<1>2. op \in {"advance", "feedback"} => calls[r] > 0 /\ target \in Reports /\ detail \in Details
  BY DEF Read, Targets
<1>3. (op = "approve" => target = "PMS_APPROVED") /\ (op = "reject" => target = "PMS_REJECTED")
  BY DEF Targets
<1>4. UNCHANGED <<row, status, calls, told, untrue, approved, raced>> /\ row[r] # None
  BY DEF Read
<1>5. Grounded(row[r].state, r)
  BY <1>4 DEF RowInv
<1>6. SessInv(s)'
  BY <1>1, <1>2, <1>3, <1>4, <1>5 DEF SessInv, Shape, Grounded, FromErp
<1>7. \A q \in Recs : ~Holds(s, q) /\ ~Holds(s, q)'
  BY <1>0, <1>1 DEF Holds, At, Open
<1> QED BY <1>1, <1>4, <1>6, <1>7, QuietStep

LEMMA CallStep ==
    ASSUME IInv, TypeOK', NEW s \in Sessions, NEW r \in Recs, Call(s, r)
    PROVE  IInv'
<1> USE DEF IInv
<1>0. "called" \in Steps /\ sess[s] = None /\ row[r] # None
  BY DEF Call, Open, Steps
<1>1. /\ sess'[s].op = "push" /\ sess'[s].rec = r /\ sess'[s].target = "ERP_SUBMITTED"
      /\ sess'[s].at = "called" /\ sess'[s].copy = None /\ sess'[s].new = None
      /\ \A t \in Sessions \ {s} : sess'[t] = sess[t]
  BY <1>0, BegunFacts, OperationNames DEF Call
<1>2. UNCHANGED <<row, status, told, untrue, approved, raced>>
  BY DEF Call
<1>3. calls \in [Recs -> 0 .. MaxCalls] /\ calls' = [calls EXCEPT ![r] = @ + 1]
  BY DEF Call, TypeOK
<1>4. calls'[r] > 0 /\ \A q \in Recs : calls[q] > 0 => calls'[q] > 0
  BY <1>3, PoolAssumption
<1>5. SessInv(s)'
  BY <1>0, <1>1, <1>2, <1>4 DEF SessInv, Shape
<1>6. \A q \in Recs : ~Holds(s, q) /\ ~Holds(s, q)'
  BY <1>0, <1>1 DEF Holds, At, Open
<1> QED BY <1>1, <1>2, <1>4, <1>5, <1>6, QuietStep

LEMMA AnswerStep ==
    ASSUME IInv, TypeOK', NEW s \in Sessions, NEW r \in Recs, NEW target \in Reports,
           NEW detail \in Details, Answer(s, r, target, detail)
    PROVE  IInv'
<1> USE DEF IInv
<1>0. "called" \in Steps /\ sess[s] = None /\ row[r] # None /\ calls[r] > 0
  BY DEF Answer, Open, Steps
<1>1. /\ sess'[s].op = "answer" /\ sess'[s].rec = r /\ sess'[s].target = target
      /\ sess'[s].detail = detail
      /\ sess'[s].at = "called" /\ sess'[s].copy = None /\ sess'[s].new = None
      /\ \A t \in Sessions \ {s} : sess'[t] = sess[t]
  BY <1>0, BegunFacts, OperationNames DEF Answer
<1>2. UNCHANGED <<row, status, calls, told, untrue, approved, raced>>
  BY DEF Answer
<1>5. SessInv(s)'
  BY <1>0, <1>1, <1>2 DEF SessInv, Shape
<1>6. \A q \in Recs : ~Holds(s, q) /\ ~Holds(s, q)'
  BY <1>0, <1>1 DEF Holds, At, Open
<1> QED BY <1>1, <1>2, <1>5, <1>6, QuietStep

LEMMA MarkStep ==
    ASSUME IInv, TypeOK', NEW s \in Sessions, Mark(s)
    PROVE  IInv'
<1> USE DEF IInv
<1> DEFINE w == sess[s]
<1> DEFINE r == w.rec
<1>0. Open(s) /\ w.at = "called" /\ w \in Session /\ r \in Recs
  BY OpenFields DEF Mark, At
<1>1. /\ sess'[s].op = w.op /\ sess'[s].rec = r /\ sess'[s].target = w.target
      /\ sess'[s].detail = w.detail /\ sess'[s].at = "marked" /\ sess'[s].copy = row[r]
      /\ sess'[s].new = w.new
      /\ \A t \in Sessions \ {s} : sess'[t] = sess[t]
  BY <1>0 DEF Mark, TypeOK, Session
<1>2. UNCHANGED <<row, status, calls, told, untrue, approved, raced>>
  BY DEF Mark
<1>3. Shape(w)
  BY <1>0 DEF SessInv
<1> HIDE DEF w
<1>4. w.op # "generate" /\ row[r] # None /\ w.new = None
  BY <1>0, <1>3 DEF Shape
<1>5. Grounded(row[r].state, r)
  BY <1>0, <1>4 DEF RowInv
<1>6. SessInv(s)'
  BY <1>1, <1>2, <1>3, <1>4, <1>5 DEF SessInv, Shape, Grounded
<1>7. \A q \in Recs : ~Holds(s, q) /\ ~Holds(s, q)'
  BY <1>0, <1>1, <1>4 DEF Holds, At, Open, w
<1> QED BY <1>1, <1>2, <1>6, <1>7, QuietStep

(* The end of the work of a session that has written nothing.               *)
LEMMA UnwrittenFacts ==
    ASSUME IInv, NEW s \in Sessions, Open(s), Ready(s), sess' = Unwritten(s),
           row' = row, calls' = calls, approved' = approved
    PROVE  /\ SessInv(s)'
           /\ \A t \in Sessions \ {s} : sess'[t] = sess[t]
           /\ \A r \in Recs : ~Holds(s, r) /\ ~Holds(s, r)'
<1> USE DEF IInv
<1> DEFINE w == sess[s]
<1>0. w \in Session /\ w.new = None /\ w.op # "generate" /\ w.copy # None
      /\ w.at \in {"read", "marked"}
  BY ReadyFacts, RowFields
<1>1. /\ sess'[s].op = w.op /\ sess'[s].rec = w.rec /\ sess'[s].target = w.target
      /\ sess'[s].detail = w.detail /\ sess'[s].at = "written" /\ sess'[s].copy = w.copy
      /\ sess'[s].new = w.new
      /\ \A t \in Sessions \ {s} : sess'[t] = sess[t]
  BY <1>0 DEF Unwritten, TypeOK, Session
<1>2. Shape(w) /\ Grounded(w.copy.state, w.rec)
  BY <1>0 DEF SessInv
<1> HIDE DEF w
<1>3. SessInv(s)'
  BY <1>0, <1>1, <1>2 DEF SessInv, Shape, Grounded
<1> QED BY <1>0, <1>1, <1>3 DEF Holds, At, Open, w

LEMMA IgnoreStep ==
    ASSUME IInv, TypeOK', NEW s \in Sessions, Ignore(s)
    PROVE  IInv'
<1>1. Open(s) /\ Ready(s)
  BY DEF Ignore, Ready, At
<1> QED BY <1>1, UnwrittenFacts, QuietStep DEF Ignore

LEMMA RepeatStep ==
    ASSUME IInv, TypeOK', NEW s \in Sessions, Repeat(s)
    PROVE  IInv'
<1> USE DEF IInv
<1> DEFINE r == sess[s].rec
<1>1. Open(s) /\ Ready(s) /\ r \in Recs /\ sess' = Unwritten(s)
  BY OpenFields DEF Repeat
<1>2. UNCHANGED <<row, status, calls, approved, raced>>
  BY DEF Repeat
<1>3. /\ SessInv(s)'
      /\ \A t \in Sessions \ {s} : sess'[t] = sess[t]
      /\ \A q \in Recs : ~Holds(s, q) /\ ~Holds(s, q)'
  BY <1>1, <1>2, UnwrittenFacts
<1>4. \A t \in Sessions, q \in Recs : Holds(t, q)' <=> Holds(t, q)
  BY <1>3 DEF Holds, At, Open
<1>5. untrue'[r] /\ \A q \in Recs \ {r} : untrue'[q] = untrue[q] /\ told'[q] = told[q]
  <2>1. sess[s].target \in State
    BY <1>1, OpenFields, SessionFields
  <2> QED BY <1>1, <2>1, PublishFacts DEF Repeat
<1>6. ASSUME NEW t \in Sessions PROVE SessInv(t)'
  <2>1. CASE t # s
    <3>1. Open(t) => sess[t].rec \in Recs
      BY OpenFields
    <3> QED BY <2>1, <3>1, <1>2, <1>3, <1>5, SessionKept
  <2> QED BY <2>1, <1>3
<1>7. OneHolder'
  BY <1>4, HoldersKept
<1>8. \A q \in Recs : RowInv(q)'
  BY <1>2, RowKept
<1>9. ToldIsTrue'
  BY <1>2, <1>4, <1>5 DEF ToldIsTrue, Exists
<1> QED BY <1>6, <1>7, <1>8, <1>9

LEMMA GenerateStep ==
    ASSUME IInv, TypeOK', NEW s \in Sessions, NEW r \in Recs, Generate(s, r)
    PROVE  IInv'
<1> USE DEF IInv
<1>0. "written" \in Steps /\ sess[s] = None /\ row[r] = None
      /\ \A t \in Sessions : Open(t) => sess[t].rec # r
  BY DEF Generate, Open, Steps
<1>1. /\ sess'[s].op = "generate" /\ sess'[s].rec = r /\ sess'[s].target = "SUGGESTED"
      /\ sess'[s].at = "written" /\ sess'[s].copy = None /\ sess'[s].new = NewRow
      /\ \A t \in Sessions \ {s} : sess'[t] = sess[t]
  BY <1>0, BegunFacts, OperationNames DEF Generate
<1>2. UNCHANGED <<row, status, calls, approved, raced>>
  BY DEF Generate
<1>3. /\ untrue'[r] \/ told'[r] = "SUGGESTED"
      /\ \A q \in Recs \ {r} : untrue'[q] = untrue[q] /\ told'[q] = told[q]
  BY OperationNames, PublishFacts DEF Generate
<1>4. SessInv(s)'
  <2>1. Shape(sess[s])'
    BY <1>0, <1>1, <1>2 DEF Shape, FromErp
  <2>2. NewRow.state = "SUGGESTED" /\ Agrees(NewRow) /\ NewRow # None
    BY NewRowFacts DEF NewRow
  <2>3. Flushed(sess[s])'
    BY <1>0, <1>1, <1>2, <1>3, <2>2 DEF Flushed, BeforeErp, Agrees
  <2> QED BY <1>1, <2>1, <2>3 DEF SessInv
<1>5. ASSUME NEW t \in Sessions \ {s} PROVE SessInv(t)'
  <2>1. Open(t) => sess[t].rec \in Recs \ {r}
    BY <1>0, OpenFields
  <2> QED BY <2>1, <1>1, <1>2, <1>3, SessionKept
<1>6. /\ \A t \in Sessions \ {s}, q \in Recs : Holds(t, q)' <=> Holds(t, q)
      /\ \A t \in Sessions : ~Holds(t, r)
      /\ \A q \in Recs : Holds(s, q)' => q = r
      /\ \A q \in Recs : ~Holds(s, q)
  BY <1>0, <1>1 DEF Holds, At, Open
<1>7. OneHolder'
  BY <1>6 DEF OneHolder
<1>8. \A q \in Recs : RowInv(q)'
  BY <1>2, RowKept
<1>9. ToldIsTrue'
  BY <1>0, <1>2, <1>3, <1>6 DEF ToldIsTrue, Exists
<1> QED BY <1>4, <1>5, <1>7, <1>8, <1>9

LEMMA RollbackStep ==
    ASSUME IInv, TypeOK', NEW s \in Sessions, Rollback(s)
    PROVE  IInv'
<1> USE DEF IInv
<1> DEFINE r == sess[s].rec
<1>1. Open(s) /\ r \in Recs /\ untrue \in [Recs -> BOOLEAN]
      /\ untrue' = [untrue EXCEPT ![r] = @ \/ (At(s, "written") /\ sess[s].new # None)]
      /\ sess' = [sess EXCEPT ![s] = None]
      /\ UNCHANGED <<row, status, calls, told, approved, raced>>
  BY OpenFields DEF Rollback, TypeOK
<1>2. sess'[s] = None /\ \A t \in Sessions \ {s} : sess'[t] = sess[t]
  BY <1>1 DEF TypeOK
<1>3. /\ \A q \in Recs : ~Holds(s, q)' /\ (Holds(s, q) => q = r)
      /\ \A t \in Sessions \ {s}, q \in Recs : Holds(t, q)' <=> Holds(t, q)
  BY <1>2 DEF Holds, At, Open
<1>4. /\ \A q \in Recs \ {r} : untrue'[q] = untrue[q]
      /\ untrue'[r] \/ (~untrue[r] /\ ~Holds(s, r))
  BY <1>1 DEF Holds
<1>5. ASSUME NEW t \in Sessions PROVE SessInv(t)'
  <2>1. CASE t = s
    BY <2>1, <1>2 DEF SessInv, Open
  <2>2. CASE t # s
    <3>1. Open(t) => sess[t].rec \in Recs
      BY OpenFields
    <3> QED BY <2>2, <3>1, <1>1, <1>2, <1>4, SessionKept
  <2> QED BY <2>1, <2>2
<1>6. OneHolder'
  BY <1>3, HoldersKept
<1>7. \A q \in Recs : RowInv(q)'
  BY <1>1, RowKept
<1>8. ToldIsTrue'
  BY <1>1, <1>3, <1>4 DEF ToldIsTrue, Exists
<1> QED BY <1>5, <1>6, <1>7, <1>8

LEMMA CommitStep ==
    ASSUME IInv, TypeOK', NEW s \in Sessions, Commit(s)
    PROVE  IInv'
<1> USE DEF IInv
<1> DEFINE w == sess[s]
<1> DEFINE r == w.rec
<1>1. /\ Open(s) /\ w.at = "written" /\ w \in Session /\ r \in Recs
      /\ w.new \in Row \cup {None} /\ w.op \in Operations
      /\ Shape(w) /\ (w.new # None => Flushed(w))
  BY OpenFields, SessionFields DEF Commit, At, SessInv
<1>2. /\ row' = [row EXCEPT ![r] = IF w.new # None THEN w.new ELSE @]
      /\ status' = [status EXCEPT ![r] = IF w.marks THEN Left(w.op, @) ELSE @]
      /\ approved' = [approved EXCEPT ![r] = @ \/ (w.op = "approve" /\ w.new # None)]
      /\ sess' = [sess EXCEPT ![s] = None]
      /\ UNCHANGED <<calls, told, untrue, raced>>
  BY DEF Commit
<1>3. /\ \A q \in Recs \ {r} : row'[q] = row[q] /\ status'[q] = status[q]
                                /\ approved'[q] = approved[q]
      /\ row'[r] = IF w.new # None THEN w.new ELSE row[r]
      /\ approved'[r] = (approved[r] \/ (w.op = "approve" /\ w.new # None))
      /\ status'[r] = IF w.marks THEN Left(w.op, status[r]) ELSE status[r]
  BY <1>1, <1>2 DEF TypeOK
<1>4. sess'[s] = None /\ \A t \in Sessions \ {s} : sess'[t] = sess[t]
  BY <1>2 DEF TypeOK
<1>5. /\ \A q \in Recs : ~Holds(s, q)'
      /\ \A t \in Sessions \ {s}, q \in Recs : Holds(t, q)' <=> Holds(t, q)
      /\ Holds(s, r) <=> w.new # None
  BY <1>1, <1>4 DEF Holds, At, Open
<1>6. \A t \in Sessions \ {s} : w.new # None => ~Holds(t, r)
  BY <1>1, <1>5 DEF OneHolder
<1>7. ASSUME NEW t \in Sessions PROVE SessInv(t)'
  <2>1. CASE t = s
    BY <2>1, <1>4 DEF SessInv, Open
  <2>2. CASE t # s
    <3>1. ASSUME Open(t), sess[t].rec = r, w.new # None
          PROVE  sess[t].op # "generate" /\ sess[t].new = None
      <4>1. Shape(sess[t]) /\ ~Holds(t, r)
        BY <3>1, <2>2, <1>6 DEF SessInv
      <4>2. sess[t].at # "written" \/ sess[t].new = None
        BY <4>1, <3>1 DEF Holds, At
      <4> QED BY <4>1, <4>2, NewRowFacts DEF Shape
    <3>2. Open(t) => sess[t].rec \in Recs
      BY OpenFields
    <3>3. Open(t) => \/ row'[sess[t].rec] = row[sess[t].rec]
                     \/ /\ row'[sess[t].rec] # None
                        /\ sess[t].op # "generate" /\ sess[t].new = None
      BY <3>1, <3>2, <1>3
    <3>4. Open(t) => (approved[sess[t].rec] => approved'[sess[t].rec])
      BY <3>2, <1>3
    <3>5. UNCHANGED <<calls, told, untrue, raced>>
      BY <1>2
    <3> QED BY <2>2, <3>3, <3>4, <3>5, <1>4, SessionKept
  <2> QED BY <2>1, <2>2
<1>8. OneHolder'
  BY <1>5, HoldersKept
<1>9. status'[r] \in {"submitted", "answered"} => calls[r] > 0
  BY <1>1, <1>3 DEF RowInv, Left, Shape, FromErp
<1>10. w.new # None =>
         /\ w.new.state \notin {"SUGGESTED", "PMS_REJECTED"} => approved'[r]
         /\ w.new.state \notin BeforeErp => calls[r] > 0
         /\ ~raced[r] => Agrees(w.new)
  BY <1>1, <1>3 DEF Flushed
<1>11. ASSUME NEW q \in Recs PROVE RowInv(q)'
  <2>1. RowInv(q)
    OBVIOUS
  <2>2. CASE q = r /\ w.new # None
    BY <2>2, <1>2, <1>3, <1>9, <1>10 DEF RowInv, Grounded, Agrees
  <2>3. CASE q = r /\ w.new = None
    BY <2>1, <2>3, <1>2, <1>3, <1>9 DEF RowInv, Grounded, Agrees
  <2>4. CASE q # r
    BY <2>1, <2>4, <1>2, <1>3, RowKept
  <2> QED BY <2>2, <2>3, <2>4
<1>12. ASSUME NEW q \in Recs, row'[q] # None, ~untrue'[q], \A t \in Sessions : ~Holds(t, q)'
       PROVE  told'[q] = row'[q].state
  <2>1. CASE q = r /\ w.new # None
    BY <2>1, <1>1, <1>2, <1>3, <1>12 DEF Flushed
  <2>2. CASE q # r \/ w.new = None
    <3>1. row'[q] = row[q] /\ untrue' = untrue /\ told' = told
      BY <2>2, <1>2, <1>3
    <3>2. ~Holds(s, q)
      BY <2>2 DEF Holds
    <3>3. \A t \in Sessions : ~Holds(t, q)
      BY <3>2, <1>5, <1>12
    <3> QED BY <3>1, <3>3, <1>12 DEF ToldIsTrue, Exists
  <2> QED BY <2>1, <2>2
<1>13. ToldIsTrue'
  BY <1>12 DEF ToldIsTrue, Exists
<1> QED BY <1>7, <1>8, <1>11, <1>13

(* What the flush of a session that read the row makes of it.               *)
LEMMA WriteFlushes ==
    ASSUME IInv, NEW s \in Sessions, Write(s)
    PROVE  LET w == sess[s]
               r == w.rec
               m == Merged(w.copy, Wanted(w), row[r])
           IN  /\ m \in Row
               /\ m.state \notin {"SUGGESTED", "PMS_REJECTED"} =>
                      approved[r] \/ w.op = "approve"
               /\ m.state \notin BeforeErp => calls[r] > 0
               /\ row[r] = w.copy /\ ~raced[r] =>
                      /\ Agrees(m)
                      /\ m.state = row[r].state \/ CanTransition(row[r].state, m.state)
               /\ CanTransition(w.copy.state, w.target) => m.state = w.target
<1> USE DEF IInv
<1> DEFINE w == sess[s]
           r == w.rec
           c == w.copy
           x == Wanted(w)
           m == Merged(c, x, row[r])
           moves == CanTransition(c.state, w.target)
<1>1. /\ w \in Session /\ r \in Recs /\ c \in Row /\ row[r] \in Row /\ c # None /\ row[r] # None
      /\ w.op # "generate" /\ w.at \in {"read", "marked"} /\ w.op \in Operations
      /\ Receives(w.op) \/ moves
      /\ w.target \in State
  BY ReadyFacts, RowFields, SessionFields DEF Write
<1>2. Shape(w) /\ Grounded(c.state, r) /\ Grounded(row[r].state, r)
      /\ (~raced[r] => Agrees(row[r]))
  BY <1>1 DEF SessInv, RowInv, Write
<1>3. /\ x \in Row
      /\ moves => x.state = w.target
      /\ ~moves => x.state = c.state
  BY <1>1, WantedFacts
<1>4. /\ m \in Row
      /\ m.state = IF x.state # c.state THEN x.state ELSE row[r].state
      /\ m.feedback = IF x.feedback # c.feedback THEN x.feedback ELSE row[r].feedback
      /\ m.reason = IF x.reason # c.reason THEN x.reason ELSE row[r].reason
      /\ m.closed = IF x.closed # c.closed THEN x.closed ELSE row[r].closed
  BY <1>1, <1>3, MergedFields
<1>5. moves => /\ w.target # c.state /\ w.target # "SUGGESTED"
               /\ w.target \in {"PMS_APPROVED", "PMS_REJECTED"} <=> c.state = "SUGGESTED"
               /\ c.state \in BeforeErp /\ w.target \notin BeforeErp => w.target = "ERP_SUBMITTED"
               /\ c.state \notin {"CLOSED", "PMS_REJECTED"}
  BY <1>1, RowFields, TransitionFacts
<1>6. /\ x.feedback = IF Receives(w.op) THEN w.detail ELSE Explained(c, w.target, w.detail)
      /\ x.reason = (c.reason \/ w.op = "reject")
      /\ x.closed = (c.closed \/ (moves /\ w.target = "CLOSED"))
  BY DEF Wanted
<1>7. c.state \in State /\ c.reason \in BOOLEAN /\ c.closed \in BOOLEAN
  BY <1>1, RowFields
<1>8. /\ w.op = "approve" => w.target = "PMS_APPROVED"
      /\ w.op = "reject" => w.target = "PMS_REJECTED"
      /\ w.op = "push" => w.target = "ERP_SUBMITTED"
      /\ w.op \in {"answer", "advance", "feedback"} =>
            w.target \in Reports /\ w.target \notin OfPms /\ w.detail \in Details /\ w.detail # None
      /\ w.op \in FromErp => calls[r] > 0
  BY <1>2, PoolAssumption DEF Shape
<1> HIDE DEF w, x, m, moves
<1>9. moves => m.state = w.target
  BY <1>3, <1>4, <1>5
<1>10. ~moves => m.state = row[r].state
  BY <1>3, <1>4
<1>11. w.op \in {"approve", "reject"} \/ w.op \in FromErp
  BY <1>1 DEF Operations, FromErp
<1>12. m.state \notin {"SUGGESTED", "PMS_REJECTED"} => approved[r] \/ w.op = "approve"
  <2>1. CASE ~moves
    BY <2>1, <1>2, <1>10 DEF Grounded
  <2>2. CASE moves /\ c.state # "SUGGESTED"
    BY <2>2, <1>2, <1>5 DEF Grounded
  <2>3. CASE moves /\ c.state = "SUGGESTED"
    BY <2>3, <1>5, <1>8, <1>9, <1>11 DEF OfPms, FromErp
  <2> QED BY <2>1, <2>2, <2>3
<1>13. m.state \notin BeforeErp => calls[r] > 0
  <2>1. CASE ~moves
    BY <2>1, <1>2, <1>10 DEF Grounded
  <2>2. CASE moves /\ c.state \notin BeforeErp
    BY <2>2, <1>2 DEF Grounded
  <2>3. CASE moves /\ c.state \in BeforeErp
    BY <2>3, <1>5, <1>8, <1>9, <1>11 DEF BeforeErp
  <2> QED BY <2>1, <2>2, <2>3
<1>14. ASSUME row[r] = c, ~raced[r]
       PROVE  /\ Agrees(m)
              /\ m.state = row[r].state \/ CanTransition(row[r].state, m.state)
  <2>1. m.state = x.state /\ m.feedback = x.feedback /\ m.reason = x.reason /\ m.closed = x.closed
    BY <1>4, <1>14
  <2>2. Agrees(c)
    BY <1>2, <1>14
  <2>3. x.closed <=> x.state = "CLOSED"
    BY <2>2, <1>3, <1>5, <1>6, <1>7 DEF Agrees
  <2>4. x.reason <=> x.state = "PMS_REJECTED"
    <3>1. w.op = "reject" => moves /\ w.target = "PMS_REJECTED"
      BY <1>1, <1>8 DEF Receives
    <3>2. moves /\ w.target = "PMS_REJECTED" => w.op = "reject"
      BY <1>8, <1>11 DEF OfPms, FromErp
    <3> QED BY <3>1, <3>2, <2>2, <1>3, <1>5, <1>6, <1>7 DEF Agrees
  <2>5. x.state = "EXECUTION_FAILED" => x.feedback # None
    <3>1. CASE Receives(w.op)
      BY <3>1, <1>6, <1>8 DEF Receives
    <3>2. CASE ~Receives(w.op)
      <4>1. moves /\ x.state = w.target
        BY <3>2, <1>1, <1>3
      <4>2. w.target = "EXECUTION_FAILED" => w.detail # None
        BY <1>8, <1>11 DEF FromErp
      <4> QED BY <3>2, <4>1, <4>2, <1>6 DEF Explained
    <3> QED BY <3>1, <3>2
  <2>6. m.state = row[r].state \/ CanTransition(row[r].state, m.state)
    BY <1>9, <1>10, <1>14 DEF moves
  <2> QED BY <2>1, <2>3, <2>4, <2>5, <2>6 DEF Agrees
<1> QED BY <1>4, <1>9, <1>12, <1>13, <1>14 DEF w, x, m, moves

LEMMA WriteStep ==
    ASSUME IInv, TypeOK', NEW s \in Sessions, Write(s)
    PROVE  IInv'
<1> USE DEF IInv
<1> DEFINE w == sess[s]
           r == w.rec
           m == Merged(w.copy, Wanted(w), row[r])
<1>1. /\ w \in Session /\ r \in Recs /\ row[r] \in Row /\ row[r] # None
      /\ w.op # "generate" /\ w.at \in {"read", "marked"} /\ w.new = None
      /\ Open(s) /\ Shape(w) /\ (w.copy # None => Grounded(w.copy.state, r))
      /\ w.copy # None
  BY ReadyFacts, RowFields DEF Write, SessInv
<1>2. /\ sess' = [sess EXCEPT ![s] = [w EXCEPT !.at = "written", !.new = m]]
      /\ Publish(r, w.target, CanTransition(w.copy.state, w.target))
      /\ raced' = [raced EXCEPT ![r] = @ \/ row[r] # w.copy]
      /\ UNCHANGED <<row, status, calls, approved>>
      /\ ~RowLocked(s, r)
  BY DEF Write
<1>3. /\ m \in Row
      /\ m.state \notin {"SUGGESTED", "PMS_REJECTED"} => approved[r] \/ w.op = "approve"
      /\ m.state \notin BeforeErp => calls[r] > 0
      /\ row[r] = w.copy /\ ~raced[r] =>
            /\ Agrees(m)
            /\ m.state = row[r].state \/ CanTransition(row[r].state, m.state)
      /\ CanTransition(w.copy.state, w.target) => m.state = w.target
  BY WriteFlushes
<1> HIDE DEF m
<1>4. /\ sess'[s].op = w.op /\ sess'[s].rec = r /\ sess'[s].target = w.target
      /\ sess'[s].detail = w.detail /\ sess'[s].at = "written" /\ sess'[s].copy = w.copy
      /\ sess'[s].new = m
      /\ \A t \in Sessions \ {s} : sess'[t] = sess[t]
  BY <1>1, <1>2 DEF TypeOK, Session
<1>5. /\ untrue'[r] \/ (told'[r] = w.target /\ CanTransition(w.copy.state, w.target))
      /\ raced'[r] = (raced[r] \/ row[r] # w.copy)
      /\ \A q \in Recs \ {r} : /\ told'[q] = told[q] /\ untrue'[q] = untrue[q]
                                /\ raced'[q] = raced[q]
  <2>1. w.target \in State /\ CanTransition(w.copy.state, w.target) \in BOOLEAN
    BY <1>1, SessionFields DEF CanTransition
  <2>2. /\ untrue'[r] \/ (told'[r] = w.target /\ CanTransition(w.copy.state, w.target))
        /\ \A q \in Recs \ {r} : untrue'[q] = untrue[q] /\ told'[q] = told[q]
    BY <1>1, <1>2, <2>1, PublishFacts
  <2>3. /\ raced'[r] = (raced[r] \/ row[r] # w.copy)
        /\ \A q \in Recs \ {r} : raced'[q] = raced[q]
    BY <1>1, <1>2 DEF TypeOK
  <2> QED BY <2>2, <2>3
<1> HIDE DEF w
<1>6. SessInv(s)'
  <2>1. Shape(sess[s])'
    BY <1>1, <1>2, <1>4 DEF Shape
  <2>2. (sess[s].copy # None => Grounded(sess[s].copy.state, sess[s].rec))'
    BY <1>1, <1>2, <1>4 DEF Grounded
  <2>3. Flushed(sess[s])'
    BY <1>2, <1>3, <1>4, <1>5 DEF Flushed, Agrees
  <2> QED BY <2>1, <2>2, <2>3 DEF SessInv
<1>7. \A t \in Sessions : ~Holds(t, r)
  BY <1>1, <1>2 DEF RowLocked, Holds, At, w
<1>8. ASSUME NEW t \in Sessions \ {s} PROVE SessInv(t)'
  <2>1. ASSUME Open(t)
        PROVE  /\ sess[t].rec \in Recs
               /\ raced[sess[t].rec] => raced'[sess[t].rec]
               /\ sess[t].new # None => sess[t].rec # r
    <3>1. Shape(sess[t]) /\ sess[t].rec \in Recs
      BY <2>1, OpenFields DEF SessInv
    <3>2. sess[t].new # None /\ sess[t].rec = r => sess[t].at = "written"
      BY <1>1, <3>1 DEF Shape
    <3>3. sess[t].new # None => sess[t].rec # r
      BY <2>1, <3>2, <1>7 DEF Holds, At
    <3>4. raced[sess[t].rec] => raced'[sess[t].rec]
      BY <3>1, <1>5
    <3> QED BY <3>1, <3>3, <3>4
  <2>2. UNCHANGED <<row, calls, approved>>
    BY <1>2
  <2> QED BY <2>1, <2>2, <1>4, <1>5, SessionKept
<1>9. /\ \A t \in Sessions \ {s}, q \in Recs : Holds(t, q)' <=> Holds(t, q)
      /\ \A q \in Recs : Holds(s, q)' <=> q = r
      /\ \A q \in Recs : ~Holds(s, q)
  <2>1. m # None /\ w # None
    BY <1>1, <1>3, RowFields, SessionFields
  <2>2. [w EXCEPT !.at = "written", !.new = m] \in Session
    BY <1>1, <1>3, Replaced DEF Steps
  <2>3. sess'[s] # None
    BY <1>2, <2>2, SessionFields DEF TypeOK
  <2>4. \A q \in Recs : ~Holds(s, q)
    BY <1>1 DEF Holds, w
  <2>5. \A q \in Recs : Holds(s, q)' <=> q = r
    BY <1>4, <2>1, <2>3 DEF Holds, At, Open
  <2>6. \A t \in Sessions \ {s}, q \in Recs : Holds(t, q)' <=> Holds(t, q)
    BY <1>4 DEF Holds, At, Open
  <2> QED BY <2>4, <2>5, <2>6
<1>10. OneHolder'
  BY <1>7, <1>9 DEF OneHolder
<1>11. \A q \in Recs : RowInv(q)'
  <2>1. ASSUME NEW q \in Recs PROVE raced[q] => raced'[q]
    BY <1>5
  <2> QED BY <2>1, <1>2, RowKept
<1>12. ToldIsTrue'
  <2>1. ASSUME NEW q \in Recs, Exists(q)', ~untrue'[q], \A t \in Sessions : ~Holds(t, q)'
        PROVE  told'[q] = row'[q].state
    <3>1. q # r
      BY <2>1, <1>9
    <3>2. told'[q] = told[q] /\ untrue'[q] = untrue[q] /\ row'[q] = row[q]
      BY <3>1, <1>2, <1>5
    <3>3. \A t \in Sessions : ~Holds(t, q)
      <4>1. ~Holds(s, q)
        BY <1>9
      <4> QED BY <4>1, <2>1, <1>9
    <3> QED BY <2>1, <3>2, <3>3 DEF ToldIsTrue, Exists
  <2> QED BY <2>1 DEF ToldIsTrue
<1> QED BY <1>6, <1>8, <1>10, <1>11, <1>12

(* A late event comes: what the last one names is given up.                 *)
LEMMA ArriveStep ==
    ASSUME IInv, TypeOK', NEW r \in Recs, Arrive(r)
    PROVE  IInv'
<1> USE DEF IInv
<1>1. /\ UNCHANGED <<row, status, sess, calls, approved, raced>>
      /\ untrue'[r] /\ \A q \in Recs \ {r} : untrue'[q] = untrue[q] /\ told'[q] = told[q]
  BY DEF Arrive, TypeOK
<1>2. \A t \in Sessions, q \in Recs : Holds(t, q)' <=> Holds(t, q)
  BY <1>1 DEF Holds, At, Open
<1>3. ASSUME NEW t \in Sessions PROVE SessInv(t)'
  <2>1. Open(t) => sess[t].rec \in Recs
    BY OpenFields
  <2> QED BY <2>1, <1>1, SessionKept
<1>4. OneHolder'
  BY <1>2, HoldersKept
<1>5. \A q \in Recs : RowInv(q)'
  BY <1>1, RowKept
<1>6. ToldIsTrue'
  BY <1>1, <1>2 DEF ToldIsTrue, Exists
<1> QED BY <1>3, <1>4, <1>5, <1>6

-----------------------------------------------------------------------------
(* Theorems *)

LEMMA PoolInit == Init => IInv
<1> SUFFICES ASSUME Init PROVE IInv
  OBVIOUS
<1>1. \A s \in Sessions : ~Open(s)
  BY DEF Init, Open
<1>2. \A s \in Sessions, r \in Recs : ~Holds(s, r)
  BY <1>1 DEF Holds, At
<1> QED BY <1>1, <1>2, TypeInit DEF Init, IInv, SessInv, OneHolder, RowInv, ToldIsTrue, Exists

LEMMA PoolStutter == IInv /\ UNCHANGED vars => IInv'
<1> SUFFICES ASSUME IInv, UNCHANGED vars PROVE IInv'
  OBVIOUS
<1>1. UNCHANGED <<row, status, sess, calls, told, adrift, untrue, approved, raced>>
  BY DEF vars
<1>2. TypeOK'
  BY <1>1 DEF IInv, TypeOK
<1>3. \A s \in Sessions : SessInv(s)'
  BY <1>1 DEF IInv, SessInv, Shape, Grounded, Flushed, Open
<1>4. OneHolder' /\ ToldIsTrue'
  BY <1>1 DEF IInv, OneHolder, ToldIsTrue, Holds, At, Open, Exists
<1>5. \A r \in Recs : RowInv(r)'
  BY <1>1 DEF IInv, RowInv, Grounded
<1> QED BY <1>2, <1>3, <1>4, <1>5 DEF IInv

LEMMA PoolStep == IInv /\ [Next]_vars => IInv'
<1> SUFFICES ASSUME IInv, [Next]_vars PROVE IInv'
  OBVIOUS
<1>1. TypeOK'
  BY TypeStep DEF IInv
<1>2. CASE UNCHANGED vars
  BY <1>2, PoolStutter
<1>3. ASSUME NEW s \in Sessions, Request(s) PROVE IInv'
  BY <1>1, <1>3, GenerateStep, CallStep, AnswerStep, ReadStep DEF Request
<1>4. ASSUME NEW s \in Sessions, Progress(s) PROVE IInv'
  BY <1>1, <1>4, MarkStep, IgnoreStep, WriteStep, RepeatStep, CommitStep DEF Progress
<1> QED BY <1>1, <1>2, <1>3, <1>4, RollbackStep, ArriveStep DEF Next

(* The inductive invariant of the pool: what an open session has read and   *)
(* flushed, and what the rows rest on (RecommendationPoolService).          *)
THEOREM Invariance == Spec => []IInv
BY PoolInit, PoolStep, PTL DEF Spec

(* Every variable keeps its type: sessions, rows and counts are what the    *)
(* tables and requests can hold.                                            *)
THEOREM TypeCorrect == Spec => []TypeOK
<1>1. IInv => TypeOK
  BY DEF IInv
<1> QED BY <1>1, Invariance, PTL

(* The last event about a recommendation is true, however requests overlap, *)
(* but for rollbacks, feedback that moves nothing, and events that do not   *)
(* reach the topic or reach it late (_publish_event, send_message).         *)
THEOREM EventsAreTrue == Spec => []ToldIsTrue
<1>1. IInv => ToldIsTrue
  BY DEF IInv
<1> QED BY <1>1, Invariance, PTL

(* What the tables call submitted was sent (push_suggestion_to_erp).        *)
THEOREM SubmittedProof == Spec => []SubmittedIsKnown
<1>1. IInv => SubmittedIsKnown
  BY DEF IInv, RowInv, Grounded, SubmittedIsKnown, Exists
<1> QED BY <1>1, Invariance, PTL

(* A state of the ERP rests on an approval (can_transition).                *)
THEOREM ApprovalProof == Spec => []ErpStateWasApproved
<1>1. IInv => ErpStateWasApproved
  BY DEF IInv, RowInv, Grounded, ErpStateWasApproved, Exists
<1> QED BY <1>1, Invariance, PTL

(* The columns of a row agree unless a stale request wrote one of them.     *)
THEOREM ColumnsProof == Spec => []ColumnsAgree
<1>1. IInv => ColumnsAgree
  BY DEF IInv, RowInv, Agrees, ColumnsAgree, Exists
<1> QED BY <1>1, Invariance, PTL

(* A rejected or closed recommendation is reopened by a stale read only.    *)
THEOREM FinalKept == Spec => ReopenedOnlyByStaleRead
<1> DEFINE Kept == \A r \in Recs :
         Exists(r) /\ Final(row[r].state) /\ row'[r] # row[r] /\ row'[r].state # row[r].state
         => raced[r]
<1>1. IInv /\ [Next]_vars => [Kept]_vars
  <2> SUFFICES ASSUME IInv, Next, NEW r \in Recs, Exists(r), Final(row[r].state),
                      row'[r] # row[r], row'[r].state # row[r].state
               PROVE  raced[r]
    BY DEF vars
  <2>1. PICK s \in Sessions : Commit(s)
    <3>1. \A q \in Recs : ~Arrive(q)
      BY DEF Arrive
    <3>2. PICK s \in Sessions : Request(s) \/ Progress(s) \/ Rollback(s)
      BY <3>1 DEF Next
    <3> QED BY <3>2 DEF Request, Progress, Generate, Call, Answer, Read, Mark, Ignore, Write,
                        Repeat, Rollback
  <2>2. Open(s) /\ row \in [Recs -> Row \cup {None}]
        /\ row' = [row EXCEPT ![sess[s].rec] = IF sess[s].new # None THEN sess[s].new ELSE @]
    BY <2>1 DEF Commit, At, IInv, TypeOK
  <2>3. sess[s].rec = r /\ sess[s].new # None /\ row'[r] = sess[s].new
    BY <2>2
  <2>4. Flushed(sess[s])
    BY <2>2, <2>3 DEF IInv, SessInv
  <2>5. row[r] \in Row
    BY <2>2 DEF Exists
  <2>6. row[r].state \in State /\ ~CanTransition(row[r].state, sess[s].new.state)
    BY <2>5, RowFields, TransitionFacts
  <2> QED BY <2>3, <2>4, <2>6 DEF Flushed, Exists
<1> QED BY <1>1, Invariance, PTL DEF Spec, ReopenedOnlyByStaleRead

-----------------------------------------------------------------------------
(* Nobody waits in a circle *)

(* Where a session is says which operation it carries out, and a transition *)
(* that must be allowed has been tested on the copy.                        *)
Place(w) ==
    /\ w.at = "read" =>
          /\ w.op \in {"approve", "reject", "advance", "feedback"}
          /\ Receives(w.op) \/ CanTransition(w.copy.state, w.target)
    /\ w.at \in {"called", "marked"} => w.op \in {"push", "answer"}
Places == \A s \in Sessions : Open(s) => Place(sess[s])

(* What Mark, Ignore, Write, Repeat or Commit of a session waits for is     *)
(* there: the guards of Progress.                                           *)
MayGoOn(s) ==
    \/ At(s, "called") /\ ~StatusLocked(s, sess[s].rec)
    \/ /\ At(s, "marked") /\ sess[s].op = "push"
       /\ ~CanTransition(sess[s].copy.state, sess[s].target)
    \/ /\ Open(s) /\ Ready(s)
       /\ Receives(sess[s].op) \/ CanTransition(sess[s].copy.state, sess[s].target)
       /\ Wanted(sess[s]) # sess[s].copy
       /\ ~RowLocked(s, sess[s].rec)
    \/ Open(s) /\ Ready(s) /\ Receives(sess[s].op) /\ Wanted(sess[s]) = sess[s].copy
    \/ At(s, "written")

LEMMA PlacesKept ==
    ASSUME TypeOK, Places, NEW s \in Sessions, NEW x, x = None \/ Place(x),
           sess' = [sess EXCEPT ![s] = x]
    PROVE  Places'
<1>1. sess'[s] = x /\ \A t \in Sessions \ {s} : sess'[t] = sess[t]
  BY DEF TypeOK
<1> QED BY <1>1 DEF Places, Open

LEMMA BegunKept ==
    ASSUME TypeOK, Places, NEW s \in Sessions, NEW r, NEW op, NEW target, NEW detail, NEW step,
           NEW copy, sess' = Begun(s, r, op, target, detail, step, copy),
           \/ step = "written"
           \/ step = "called" /\ op \in {"push", "answer"}
           \/ /\ step = "read" /\ op \in {"approve", "reject", "advance", "feedback"}
              /\ Receives(op) \/ CanTransition(copy.state, target)
    PROVE  Places'
<1>1. PICK new : new = IF op = "generate" THEN NewRow ELSE None
  OBVIOUS
<1>2. PICK marks : marks = (Left(op, status[r]) # status[r])
  OBVIOUS
<1>3. PICK x : x = [op |-> op, rec |-> r, target |-> target, detail |-> detail, at |-> step,
                    marks |-> marks, copy |-> copy, new |-> new]
  OBVIOUS
<1>4. sess' = [sess EXCEPT ![s] = x]
  BY <1>1, <1>2, <1>3 DEF Begun
<1>5. x.at = step /\ x.op = op /\ x.target = target /\ x.copy = copy
  BY <1>3
<1>6. Place(x)
  BY <1>5 DEF Place
<1> QED BY <1>4, <1>6, PlacesKept

LEMMA PlacesStep == IInv /\ Places /\ [Next]_vars => Places'
<1> SUFFICES ASSUME IInv, Places, [Next]_vars PROVE Places'
  OBVIOUS
<1>1. TypeOK
  BY DEF IInv
<1>2. ASSUME NEW s \in Sessions, NEW r \in Recs, Generate(s, r) PROVE Places'
  BY <1>1, <1>2, BegunKept DEF Generate
<1>3. ASSUME NEW s \in Sessions, NEW r \in Recs, Call(s, r) PROVE Places'
  BY <1>1, <1>3, BegunKept DEF Call
<1>4. ASSUME NEW s \in Sessions, NEW r \in Recs, NEW target, NEW detail,
             Answer(s, r, target, detail)
      PROVE  Places'
  BY <1>1, <1>4, BegunKept DEF Answer
<1>5. ASSUME NEW s \in Sessions, NEW r \in Recs, NEW op, NEW target, NEW detail,
             Read(s, r, op, target, detail)
      PROVE  Places'
  BY <1>1, <1>5, BegunKept DEF Read
<1>6. ASSUME NEW s \in Sessions, Mark(s) PROVE Places'
  <2>1. sess[s] \in Session /\ Place(sess[s]) /\ sess[s].at = "called"
    BY <1>1, <1>6, OpenFields DEF Mark, At, Places
  <2>2. PICK x : /\ x = [sess[s] EXCEPT !.at = "marked", !.copy = row[sess[s].rec]]
                 /\ sess' = [sess EXCEPT ![s] = x]
    BY <1>6 DEF Mark
  <2>3. x.at = "marked" /\ x.op = sess[s].op
    BY <2>1, <2>2 DEF Session
  <2> QED BY <1>1, <2>1, <2>2, <2>3, PlacesKept DEF Place
<1>7. ASSUME NEW s \in Sessions, Ignore(s) \/ Repeat(s) PROVE Places'
  <2>1. sess[s] \in Session
    BY <1>1, <1>7, OpenFields DEF Ignore, Repeat, At
  <2>2. PICK x : /\ x = [sess[s] EXCEPT !.at = "written"]
                 /\ sess' = [sess EXCEPT ![s] = x]
    BY <1>7 DEF Ignore, Repeat, Unwritten
  <2>3. x.at = "written"
    BY <2>1, <2>2 DEF Session
  <2> QED BY <1>1, <2>2, <2>3, PlacesKept DEF Place
<1>8. ASSUME NEW s \in Sessions, Write(s) PROVE Places'
  <2>1. sess[s] \in Session
    BY <1>1, <1>8, OpenFields DEF Write
  <2>2. PICK y : y = Merged(sess[s].copy, Wanted(sess[s]), row[sess[s].rec])
    OBVIOUS
  <2>3. PICK x : /\ x = [sess[s] EXCEPT !.at = "written", !.new = y]
                 /\ sess' = [sess EXCEPT ![s] = x]
    BY <1>8, <2>2 DEF Write
  <2>4. x.at = "written"
    BY <2>1, <2>3 DEF Session
  <2> QED BY <1>1, <2>3, <2>4, PlacesKept DEF Place
<1>9. ASSUME NEW s \in Sessions, Commit(s) \/ Rollback(s) PROVE Places'
  BY <1>1, <1>9, PlacesKept DEF Commit, Rollback
<1>10. CASE UNCHANGED vars
  BY <1>10 DEF vars, Places, Open
<1>11. ASSUME NEW r \in Recs, Arrive(r) PROVE Places'
  BY <1>11 DEF Arrive, Places, Open
<1> QED BY <1>2, <1>3, <1>4, <1>5, <1>6, <1>7, <1>8, <1>9, <1>10, <1>11
        DEF Next, Request, Progress

(* Requests over the two rows never wait for each other in a circle: one of *)
(* those that are open may go on (submit_to_ads_domain and its kin lock the *)
(* suggestion before the recommendation).                                   *)
THEOREM SomeoneProceeds ==
    Spec => []((\E s \in Sessions : Open(s)) => \E s \in Sessions : MayGoOn(s))
<1>1. Init => Places
  BY DEF Init, Places, Open
<1>2. ASSUME IInv, Places, NEW o \in Sessions, Open(o) PROVE \E s \in Sessions : MayGoOn(s)
  <2>1. CASE \E s \in Sessions : At(s, "written")
    BY <2>1 DEF MayGoOn
  <2>2. CASE /\ ~\E s \in Sessions : At(s, "written")
             /\ \E s \in Sessions : Open(s) /\ Ready(s)
    <3>1. PICK s \in Sessions : Open(s) /\ Ready(s)
      BY <2>2
    <3>2. ~RowLocked(s, sess[s].rec)
      BY <2>2 DEF RowLocked, Holds
    <3>3. SessInv(s) /\ TypeOK /\ Place(sess[s])
      BY <1>2, <3>1 DEF IInv, Places
    <3>4. sess[s] \in Session /\ sess[s].copy \in Row /\ sess[s].at \in {"read", "marked"}
      BY <3>1, <3>3, ReadyFacts
    <3>5. sess[s].copy # None /\ sess[s].copy.state \in State
      BY <3>4, RowFields
    <3>6. CASE Receives(sess[s].op)
      BY <3>1, <3>2, <3>6 DEF MayGoOn
    <3>7. CASE CanTransition(sess[s].copy.state, sess[s].target)
      <4>1. sess[s].target # sess[s].copy.state
        BY <3>5, <3>7, TransitionFacts
      <4>2. Wanted(sess[s]) # sess[s].copy
        BY <3>4, <3>5, <3>7, <4>1, WantedFacts
      <4> QED BY <3>1, <3>2, <3>7, <4>2 DEF MayGoOn
    <3>8. CASE ~Receives(sess[s].op) /\ ~CanTransition(sess[s].copy.state, sess[s].target)
      <4>1. sess[s].at = "marked" /\ sess[s].op = "push"
        BY <3>3, <3>4, <3>8 DEF Place, Receives
      <4> QED BY <3>1, <3>8, <4>1 DEF MayGoOn, At
    <3> QED BY <3>6, <3>7, <3>8
  <2>3. CASE /\ ~\E s \in Sessions : At(s, "written")
             /\ ~\E s \in Sessions : Open(s) /\ Ready(s)
    <3>1. sess[o] \in Session /\ Place(sess[o])
      BY <1>2, OpenFields DEF IInv, Places
    <3>2. \A t \in Sessions : ~At(t, "marked")
      <4> SUFFICES ASSUME NEW t \in Sessions, At(t, "marked") PROVE FALSE
        OBVIOUS
      <4>1. Open(t) /\ Place(sess[t]) /\ sess[t].at = "marked"
        BY <1>2 DEF At, Places
      <4>2. Ready(t)
        BY <4>1 DEF Ready, Place, At
      <4> QED BY <2>3, <4>1, <4>2
    <3>3. sess[o].at \in Steps
      BY <3>1, SessionFields
    <3>4. sess[o].at # "read"
      <4> SUFFICES ASSUME sess[o].at = "read" PROVE FALSE
        OBVIOUS
      <4>1. Ready(o)
        BY <1>2, <3>1 DEF Ready, Place, At
      <4> QED BY <1>2, <2>3, <4>1
    <3>5. At(o, "called")
      BY <1>2, <2>3, <3>2, <3>3, <3>4 DEF At, Steps
    <3>6. ~StatusLocked(o, sess[o].rec)
      BY <2>3, <3>2 DEF StatusLocked, At
    <3> QED BY <3>5, <3>6 DEF MayGoOn
  <2> QED BY <2>1, <2>2, <2>3
<1>3. IInv /\ Places => ((\E s \in Sessions : Open(s)) => \E s \in Sessions : MayGoOn(s))
  BY <1>2
<1> QED BY <1>1, <1>3, PlacesStep, Invariance, PTL DEF Spec

-----------------------------------------------------------------------------
(* The pool implements RecommendationLifecycle *)

(* A write that is not committed leaves the state as it is or takes it to   *)
(* one that follows some state, though not always the one that is there; an *)
(* approval takes it to PMS_APPROVED.                                       *)
Led(w) ==
    w.new # None =>
        /\ w.op = "approve" => w.new.state = "PMS_APPROVED"
        /\ row[w.rec] # None =>
              w.new.state = row[w.rec].state \/ \E a \in State : CanTransition(a, w.new.state)
AllLed == \A s \in Sessions : Open(s) => Led(sess[s])

LEMMA LedKept ==
    ASSUME TypeOK, AllLed, NEW s \in Sessions, NEW x, x = None \/ Led(x),
           sess' = [sess EXCEPT ![s] = x], row' = row
    PROVE  AllLed'
<1>1. sess'[s] = x /\ \A t \in Sessions \ {s} : sess'[t] = sess[t]
  BY DEF TypeOK
<1> QED BY <1>1 DEF AllLed, Open, Led

LEMMA BegunLed ==
    ASSUME TypeOK, AllLed, NEW s \in Sessions, NEW r, NEW op, NEW target, NEW detail, NEW step,
           NEW copy, sess' = Begun(s, r, op, target, detail, step, copy), row' = row,
           op = "generate" => row[r] = None
    PROVE  AllLed'
<1>1. PICK new : new = IF op = "generate" THEN NewRow ELSE None
  OBVIOUS
<1>2. PICK marks : marks = (Left(op, status[r]) # status[r])
  OBVIOUS
<1>3. PICK x : x = [op |-> op, rec |-> r, target |-> target, detail |-> detail, at |-> step,
                    marks |-> marks, copy |-> copy, new |-> new]
  OBVIOUS
<1>4. sess' = [sess EXCEPT ![s] = x]
  BY <1>1, <1>2, <1>3 DEF Begun
<1>5. x.op = op /\ x.rec = r /\ x.new = new
  BY <1>3
<1>6. Led(x)
  BY <1>1, <1>5 DEF Led
<1> QED BY <1>4, <1>6, LedKept

LEMMA WriteLed ==
    ASSUME IInv, AllLed, NEW s \in Sessions, Write(s)
    PROVE  AllLed'
<1>1. PICK w : w = sess[s]
  OBVIOUS
<1>2. PICK m : m = Merged(w.copy, Wanted(w), row[w.rec])
  OBVIOUS
<1>3. PICK x : x = [w EXCEPT !.at = "written", !.new = m]
  OBVIOUS
<1>4. /\ w \in Session /\ w.rec \in Recs /\ w.copy \in Row /\ row[w.rec] \in Row /\ w.copy # None
      /\ Open(s) /\ (w.op = "approve" => w.target = "PMS_APPROVED")
      /\ TypeOK
  BY <1>1, ReadyFacts, RowFields DEF Write, IInv, SessInv, Shape
<1>5. sess' = [sess EXCEPT ![s] = x] /\ row' = row
      /\ (Receives(w.op) \/ CanTransition(w.copy.state, w.target))
  BY <1>1, <1>2, <1>3 DEF Write
<1>6. x.op = w.op /\ x.rec = w.rec /\ x.new = m
  BY <1>3, <1>4 DEF Session
<1>7. /\ Wanted(w) \in Row /\ w.copy.state \in State
      /\ CanTransition(w.copy.state, w.target) => Wanted(w).state = w.target
      /\ ~CanTransition(w.copy.state, w.target) => Wanted(w).state = w.copy.state
  BY <1>4, WantedFacts, RowFields
<1>8. m.state = IF Wanted(w).state # w.copy.state THEN Wanted(w).state ELSE row[w.rec].state
  BY <1>2, <1>4, <1>7, MergedFields
<1>9. m.state = row[w.rec].state \/ \E a \in State : CanTransition(a, m.state)
  BY <1>7, <1>8
<1>10. w.op = "approve" => m.state = "PMS_APPROVED"
  <2> SUFFICES ASSUME w.op = "approve" PROVE m.state = "PMS_APPROVED"
    OBVIOUS
  <2>1. CanTransition(w.copy.state, "PMS_APPROVED")
    BY <1>4, <1>5 DEF Receives
  <2>2. w.copy.state # "PMS_APPROVED"
    BY <1>7, <2>1, TransitionFacts
  <2> QED BY <1>4, <1>7, <1>8, <2>1, <2>2
<1>11. Led(x)
  BY <1>6, <1>9, <1>10 DEF Led
<1> QED BY <1>4, <1>5, <1>11, LedKept

LEMMA CommitLed ==
    ASSUME IInv, AllLed, NEW s \in Sessions, Commit(s)
    PROVE  AllLed'
<1>1. PICK w : w = sess[s]
  OBVIOUS
<1>2. /\ Open(s) /\ w.at = "written" /\ w.rec \in Recs
      /\ sess \in [Sessions -> Session \cup {None}] /\ row \in [Recs -> Row \cup {None}]
      /\ sess' = [sess EXCEPT ![s] = None]
      /\ row' = [row EXCEPT ![w.rec] = IF w.new # None THEN w.new ELSE @]
  BY <1>1, OpenFields DEF Commit, At, IInv, TypeOK
<1>3. ASSUME NEW t \in Sessions, Open(t)' PROVE Led(sess[t])'
  <2>1. t # s /\ sess'[t] = sess[t] /\ Open(t)
    BY <1>2, <1>3 DEF Open
  <2>2. PICK v : v = sess[t]
    OBVIOUS
  <2>3. Led(v) /\ v.rec \in Recs
    BY <2>1, <2>2, OpenFields DEF AllLed, IInv
  <2>4. CASE v.new = None
    BY <2>1, <2>2, <2>4 DEF Led
  <2>5. CASE v.new # None
    <3>1. Holds(t, v.rec)
      <4>1. Shape(v)
        BY <2>1, <2>2 DEF IInv, SessInv
      <4> QED BY <2>1, <2>2, <2>5, <4>1 DEF Holds, At, Shape
    <3>2. w.new # None => w.rec # v.rec
      BY <1>1, <1>2, <2>1, <2>3, <3>1 DEF IInv, OneHolder, Holds, At
    <3>3. row'[v.rec] = row[v.rec]
      BY <1>2, <2>3, <3>2
    <3> QED BY <2>1, <2>2, <2>3, <3>3 DEF Led
  <2> QED BY <2>4, <2>5
<1> QED BY <1>3 DEF AllLed

(* The state that the table shows of a recommendation is None if and only   *)
(* if there is no row.                                                      *)
LEMMA Shown ==
    ASSUME TypeOK, NEW r \in Recs
    PROVE  /\ Lifecycle!Exists(r) <=> Exists(r)
           /\ Exists(r) => row[r].state \in State /\ row[r].state # None
<1>1. row[r] \in Row \cup {None}
  BY DEF TypeOK
<1>2. Exists(r) => row[r].state \in State /\ row[r].state # None
  BY <1>1, RowFields, NoneAssumption DEF Exists
<1> QED BY <1>2 DEF Lifecycle!Exists, Exists

LEMMA LedStep == IInv /\ AllLed /\ [Next]_vars => AllLed'
<1> SUFFICES ASSUME IInv, AllLed, [Next]_vars PROVE AllLed'
  OBVIOUS
<1>1. TypeOK
  BY DEF IInv
<1>2. ASSUME NEW s \in Sessions, NEW r \in Recs, Generate(s, r) PROVE AllLed'
  BY <1>1, <1>2, BegunLed DEF Generate
<1>3. ASSUME NEW s \in Sessions, NEW r \in Recs, Call(s, r) PROVE AllLed'
  BY <1>1, <1>3, BegunLed DEF Call
<1>4. ASSUME NEW s \in Sessions, NEW r \in Recs, NEW target, NEW detail,
             Answer(s, r, target, detail)
      PROVE  AllLed'
  BY <1>1, <1>4, BegunLed DEF Answer
<1>5. ASSUME NEW s \in Sessions, NEW r \in Recs, NEW op, NEW target, NEW detail,
             Read(s, r, op, target, detail)
      PROVE  AllLed'
  <2>1. op # "generate"
    BY <1>5 DEF Read
  <2> QED BY <1>1, <1>5, <2>1, BegunLed DEF Read
<1>6. ASSUME NEW s \in Sessions, Mark(s) PROVE AllLed'
  <2>1. sess[s] \in Session /\ Led(sess[s])
    BY <1>1, <1>6, OpenFields DEF Mark, At, AllLed
  <2>2. PICK x : /\ x = [sess[s] EXCEPT !.at = "marked", !.copy = row[sess[s].rec]]
                 /\ sess' = [sess EXCEPT ![s] = x] /\ row' = row
    BY <1>6 DEF Mark
  <2>3. x.op = sess[s].op /\ x.rec = sess[s].rec /\ x.new = sess[s].new
    BY <2>1, <2>2 DEF Session
  <2> QED BY <1>1, <2>1, <2>2, <2>3, LedKept DEF Led
<1>7. ASSUME NEW s \in Sessions, Ignore(s) \/ Repeat(s) PROVE AllLed'
  <2>1. sess[s] \in Session /\ Led(sess[s])
    BY <1>1, <1>7, OpenFields DEF Ignore, Repeat, At, AllLed, Open
  <2>2. PICK x : /\ x = [sess[s] EXCEPT !.at = "written"]
                 /\ sess' = [sess EXCEPT ![s] = x] /\ row' = row
    BY <1>7 DEF Ignore, Repeat, Unwritten
  <2>3. x.op = sess[s].op /\ x.rec = sess[s].rec /\ x.new = sess[s].new
    BY <2>1, <2>2 DEF Session
  <2> QED BY <1>1, <2>1, <2>2, <2>3, LedKept DEF Led
<1>8. ASSUME NEW s \in Sessions, Rollback(s) PROVE AllLed'
  BY <1>1, <1>8, LedKept DEF Rollback
<1>9. CASE UNCHANGED vars
  BY <1>9 DEF vars, AllLed, Open, Led
<1>10. ASSUME NEW r \in Recs, Arrive(r) PROVE AllLed'
  BY <1>10 DEF Arrive, AllLed, Open, Led
<1> QED BY <1>2, <1>3, <1>4, <1>5, <1>6, <1>7, <1>8, <1>9, <1>10, WriteLed, CommitLed
        DEF Next, Request, Progress

LEMMA CommitMoves ==
    ASSUME IInv, AllLed, NEW s \in Sessions, Commit(s)
    PROVE  [Lifecycle!Next]_Lifecycle!vars
<1>1. PICK w : w = sess[s]
  OBVIOUS
<1>2. PICK r \in Recs : r = w.rec
  BY <1>1, OpenFields DEF Commit, At, IInv
<1>3. /\ Open(s) /\ w \in Session /\ Shape(w) /\ Led(w) /\ (w.new # None => Flushed(w))
      /\ w.new \in Row \cup {None}
      /\ row \in [Recs -> Row \cup {None}] /\ approved \in [Recs -> BOOLEAN]
      /\ row' = [row EXCEPT ![r] = IF w.new # None THEN w.new ELSE @]
      /\ approved' = [approved EXCEPT ![r] = @ \/ (w.op = "approve" /\ w.new # None)]
      /\ UNCHANGED <<calls, raced>>
  BY <1>1, <1>2, OpenFields, SessionFields DEF Commit, At, IInv, SessInv, AllLed, TypeOK
<1>4. CASE w.new = None
  <2>1. row' = row /\ approved' = approved
    BY <1>3, <1>4
  <2> QED BY <1>3, <2>1 DEF Lifecycle!vars, Exists
<1>5. CASE w.new # None
  <2>1. PICK new : new = w.new.state
    OBVIOUS
  <2>2. /\ w.new \in Row /\ new \in State /\ w.new # None
        /\ row' = [row EXCEPT ![r] = w.new]
        /\ row'[r] = w.new /\ \A q \in Recs \ {r} : row'[q] = row[q]
    BY <1>3, <1>5, <2>1, RowFields
  <2>3. w.op = "approve" => new = "PMS_APPROVED"
    BY <1>3, <1>5, <2>1 DEF Led
  <2>4. new \notin {"SUGGESTED", "PMS_REJECTED"} => approved[r] \/ w.op = "approve"
    BY <1>2, <1>3, <1>5, <2>1 DEF Flushed
  <2>5. new \notin BeforeErp => calls[r] > 0
    BY <1>2, <1>3, <1>5, <2>1 DEF Flushed
  <2>6. approved' = [approved EXCEPT ![r] = @ \/ new = "PMS_APPROVED"]
    <3>1. (approved[r] \/ w.op = "approve") <=> (approved[r] \/ new = "PMS_APPROVED")
      BY <2>3, <2>4
    <3> QED BY <1>3, <1>5, <3>1
  <2>7. [q \in Recs |-> IF Exists(q)' THEN row'[q].state ELSE None]
           = [[q \in Recs |-> IF Exists(q) THEN row[q].state ELSE None] EXCEPT ![r] = new]
    <3>1. \A q \in Recs : (IF Exists(q)' THEN row'[q].state ELSE None)
                            = IF q = r THEN new ELSE IF Exists(q) THEN row[q].state ELSE None
      <4> TAKE q \in Recs
      <4>1. CASE q = r
        BY <2>1, <2>2, <4>1 DEF Exists
      <4>2. CASE q # r
        BY <2>2, <4>2 DEF Exists
      <4> QED BY <4>1, <4>2
    <3> QED BY <3>1
  <2>8. CASE row[r] = None
    <3>1. w.op = "generate" /\ w.new = NewRow
      BY <1>2, <1>3, <2>8 DEF Shape
    <3>2. new = "SUGGESTED"
      BY <2>1, <3>1 DEF NewRow
    <3>3. approved' = approved
      BY <1>3, <3>1
    <3>4. Lifecycle!Propose(r)
      BY <1>3, <2>7, <2>8, <3>2, <3>3 DEF Lifecycle!Propose, Lifecycle!Exists, Exists
    <3> QED BY <3>4 DEF Lifecycle!Next
  <2>9. CASE row[r] # None /\ new = row[r].state
    <3>1. new = "PMS_APPROVED" => approved[r]
      BY <2>9 DEF IInv, RowInv, Grounded
    <3>2. approved' = approved
      BY <1>3, <2>6, <3>1
    <3>3. [q \in Recs |-> IF Exists(q)' THEN row'[q].state ELSE None]
             = [q \in Recs |-> IF Exists(q) THEN row[q].state ELSE None]
      <4>1. \A q \in Recs : (IF Exists(q)' THEN row'[q].state ELSE None)
                              = IF Exists(q) THEN row[q].state ELSE None
        <5> TAKE q \in Recs
        <5>1. CASE q = r
          BY <2>1, <2>2, <2>9, <5>1 DEF Exists
        <5>2. CASE q # r
          BY <2>2, <5>2 DEF Exists
        <5> QED BY <5>1, <5>2
      <4> QED BY <4>1
    <3> QED BY <1>3, <3>2, <3>3 DEF Lifecycle!vars
  <2>10. CASE row[r] # None /\ new # row[r].state
    <3>1. CanTransition(row[r].state, new) \/ (raced[r] /\ \E a \in State : CanTransition(a, new))
      BY <1>2, <1>3, <1>5, <2>1, <2>10 DEF Flushed, Led
    <3>2. /\ new \in Transitions[row[r].state]
                \/ (raced[r] /\ \E a \in DOMAIN Transitions : new \in Transitions[a])
          /\ new \in DOMAIN Transitions
      BY <2>2, <3>1 DEF CanTransition, State
    <3>3. /\ new \notin Lifecycle!BeforeErp => calls[r] > 0
          /\ new \notin Lifecycle!BeforeApproval \cup {"PMS_APPROVED"} => approved[r]
      BY <2>3, <2>4, <2>5 DEF BeforeErp, Lifecycle!BeforeErp, Lifecycle!BeforeApproval
    <3>4. Lifecycle!Move(r, new)
      <4>1. Lifecycle!Exists(r)
        BY <2>10, Shown DEF IInv, Exists
      <4>2. [q \in Recs |-> IF Exists(q) THEN row[q].state ELSE None][r] = row[r].state
        BY <2>10 DEF Exists
      <4>3. calls[r] > 0 <=> r \in {q \in Recs : calls[q] > 0}
        OBVIOUS
      <4>4. {q \in Recs : calls'[q] > 0} = {q \in Recs : calls[q] > 0} /\ raced' = raced
        BY <1>3
      <4> QED BY <2>6, <2>7, <3>2, <3>3, <4>1, <4>2, <4>3, <4>4 DEF Lifecycle!Move
    <3> QED BY <3>2, <3>4 DEF Lifecycle!Next
  <2> QED BY <2>8, <2>9, <2>10
<1> QED BY <1>4, <1>5

LEMMA LifecycleStep == IInv /\ AllLed /\ [Next]_vars => [Lifecycle!Next]_Lifecycle!vars
<1> SUFFICES ASSUME IInv, AllLed, [Next]_vars PROVE [Lifecycle!Next]_Lifecycle!vars
  OBVIOUS
<1>1. ASSUME NEW s \in Sessions,
             \/ \E r \in Recs : Generate(s, r)
             \/ \E r \in Recs, target \in Reports, detail \in Details : Answer(s, r, target, detail)
             \/ \E r \in Recs, op \in Operations, detail \in Details \cup {None} :
                    \E target \in Targets(op) : Read(s, r, op, target, detail)
             \/ Mark(s) \/ Ignore(s) \/ Repeat(s) \/ Rollback(s)
      PROVE  UNCHANGED Lifecycle!vars
  <2>1. UNCHANGED <<row, calls, approved, raced>>
    BY <1>1 DEF Generate, Answer, Read, Mark, Ignore, Repeat, Rollback
  <2> QED BY <2>1 DEF Lifecycle!vars, Exists
<1>2. ASSUME NEW s \in Sessions, NEW r \in Recs, Call(s, r) PROVE Lifecycle!Submit(r)
  <2>1. /\ row[r] # None /\ calls' = [calls EXCEPT ![r] = @ + 1]
        /\ calls \in [Recs -> 0 .. MaxCalls]
        /\ UNCHANGED <<row, approved, raced>>
    BY <1>2 DEF Call, IInv, TypeOK
  <2>2. {q \in Recs : calls'[q] > 0} = {q \in Recs : calls[q] > 0} \cup {r}
    BY <2>1
  <2>3. Lifecycle!Exists(r)
    BY <2>1, Shown DEF IInv, Exists
  <2>4. [q \in Recs |-> IF Exists(q)' THEN row'[q].state ELSE None]
           = [q \in Recs |-> IF Exists(q) THEN row[q].state ELSE None]
    BY <2>1 DEF Exists
  <2> QED BY <2>1, <2>2, <2>3, <2>4 DEF Lifecycle!Submit
<1>3. ASSUME NEW s \in Sessions, Write(s) PROVE [Lifecycle!Next]_Lifecycle!vars
  <2>1. PICK r \in Recs : r = sess[s].rec
    BY <1>3, OpenFields DEF Write, IInv
  <2>2. /\ row[r] # None /\ raced \in [Recs -> BOOLEAN]
        /\ raced' = [raced EXCEPT ![r] = @ \/ row[r] # sess[s].copy]
        /\ UNCHANGED <<row, calls, approved>>
    BY <1>3, <2>1, ReadyFacts, RowFields DEF Write, IInv, TypeOK
  <2>3. raced' = raced \/ raced' = [raced EXCEPT ![r] = TRUE]
    BY <2>2
  <2>4. CASE raced' = raced
    BY <2>2, <2>4 DEF Lifecycle!vars, Exists
  <2>5. CASE raced' = [raced EXCEPT ![r] = TRUE]
    <3>1. Lifecycle!Contest(r)
      <4>1. Lifecycle!Exists(r)
        BY <2>2, Shown DEF IInv, Exists
      <4> QED BY <2>2, <2>5, <4>1 DEF Lifecycle!Contest, Exists
    <3> QED BY <3>1 DEF Lifecycle!Next
  <2> QED BY <2>3, <2>4, <2>5
<1>4. CASE UNCHANGED vars
  BY <1>4 DEF vars, Lifecycle!vars, Exists
<1>5. ASSUME NEW s \in Sessions, Request(s) PROVE [Lifecycle!Next]_Lifecycle!vars
  BY <1>1, <1>2, <1>5 DEF Request, Lifecycle!Next
<1>6. ASSUME NEW s \in Sessions, Progress(s) PROVE [Lifecycle!Next]_Lifecycle!vars
  BY <1>1, <1>3, <1>6, CommitMoves DEF Progress
<1>7. ASSUME NEW r \in Recs, Arrive(r) PROVE UNCHANGED Lifecycle!vars
  BY <1>7 DEF Arrive, Lifecycle!vars, Exists
<1> QED BY <1>1, <1>4, <1>5, <1>6, <1>7 DEF Next

LEMMA LifecycleInit == Init => AllLed /\ Lifecycle!Init
<1> SUFFICES ASSUME Init PROVE AllLed /\ Lifecycle!Init
  OBVIOUS
<1>1. AllLed
  BY DEF Init, AllLed, Open
<1>2. [r \in Recs |-> IF Exists(r) THEN row[r].state ELSE None] = [r \in Recs |-> None]
  BY DEF Init, Exists
<1>3. {r \in Recs : calls[r] > 0} = {}
  BY DEF Init
<1>4. Lifecycle!Init
  BY <1>2, <1>3 DEF Init, Lifecycle!Init
<1> QED BY <1>1, <1>4

(* The pool implements RecommendationLifecycle: what the readers of the     *)
(* table see of any number of overlapping requests, pushes and answers of   *)
(* the ERP, committed or rolled back, is a behaviour of it (advance_state). *)
THEOREM LifecycleRefined == Spec => ImplementsLifecycle
<1>1. Spec => Lifecycle!Spec
  BY LifecycleInit, PoolInit, PoolStep, LedStep, LifecycleStep, PTL
     DEF Spec, Lifecycle!Spec
<1> QED BY <1>1 DEF ImplementsLifecycle

-----------------------------------------------------------------------------
(* The worker and the feedback of the ERP *)

(* How far a state is on its way; only a submission leads back.             *)
Rank ==
    [SUGGESTED |-> 0, PMS_APPROVED |-> 1, PMS_REJECTED |-> 1, ERP_SUBMITTED |-> 2,
     ERP_DRAFT_CREATED |-> 3, ERP_PENDING_REVIEW |-> 4, ERP_APPROVED |-> 5, ERP_REJECTED |-> 5,
     SCM_REVIEWING |-> 6, SCM_APPROVED |-> 7, SCM_REJECTED |-> 7, SCM_ORDERED |-> 8,
     WMS_RESERVED |-> 9, WMS_CONFIRMED |-> 10, OMS_DRAFT_CREATED |-> 11, OMS_PUBLISHED |-> 12,
     OMS_ACTIVE |-> 13, PARTIALLY_EXECUTED |-> 13, EXECUTED |-> 14, EXECUTION_FAILED |-> 15,
     CLOSED |-> 16]

(* What LossHasACause allows a message that the consumer has returned.      *)
Known(n) == AccountedFor(n) \/ fate[n] = "dropped"

(* The consumer has returned message n.                                     *)
Returned(n) == \E t \in Reports : \E k \in 1 .. pos[t] : topic[t][k] = n

(* Every topic lists messages of its outcome, each once.                    *)
TopicsInv ==
    \A t \in Reports :
        /\ Len(topic[t]) <= Len(sent)
        /\ \A k \in 1 .. Len(topic[t]) :
               /\ topic[t][k] \in 1 .. Len(sent) /\ sent[topic[t][k]].target = t
               /\ \A j \in 1 .. Len(topic[t]) : topic[t][j] = topic[t][k] => j = k

(* The batch and the offsets agree with the place of the worker.            *)
BatchInv ==
    /\ \A i \in 1 .. Len(batch) : batch[i] \in 1 .. Len(sent)
    /\ mode = "handle" => batch # <<>>
    /\ mode = "collect" => Len(batch) < BatchSize
    /\ mode = "down" => batch = <<>>
    /\ \A t \in Reports : pos[t] <= Len(topic[t])
    /\ saved # None => \A t \in Reports : saved[t] <= Len(topic[t])

(* The session of the worker is about the message it handles.               *)
WorkerInv ==
    Open(Worker) =>
        LET w == sess[Worker]
            e == sent[batch[1]]
        IN  /\ mode = "handle"
            /\ w.op = "advance" /\ w.rec = e.rec /\ w.target = e.target
            /\ w.at \in {"read", "written"}
            /\ w.at = "written" =>
                  /\ w.new # None /\ w.new.state = w.target
                  /\ ~raced[w.rec] => CanTransition(row[w.rec].state, w.target)

(* A worker that has not been stopped takes every message once.             *)
OnceInv ==
    ~broke =>
        /\ mode = "down" => saved = None /\ \A n \in Numbers : applied[n] = 0
        /\ \A i \in 1 .. Len(batch) : Returned(batch[i]) /\ applied[batch[i]] = 0
        /\ \A i, j \in 1 .. Len(batch) : batch[i] = batch[j] => i = j
        /\ \A n \in Numbers : applied[n] > 0 => applied[n] = 1 /\ Returned(n)

(* A recommendation is at least as far as a message has moved it.           *)
RankInv ==
    /\ \A n \in Numbers : applied[n] > 0 => n \in 1 .. Len(sent)
    /\ \A n \in 1 .. Len(sent) :
           applied[n] > 0 /\ n \notin renewed /\ ~raced[sent[n].rec] =>
              /\ row[sent[n].rec] # None
              /\ Rank[row[sent[n].rec].state] >= Rank[sent[n].target]
              /\ applied[n] = 1

FInv ==
    /\ IInv /\ FeedbackTypeOK
    /\ TopicsInv /\ BatchInv /\ WorkerInv
    /\ LossHasACause /\ OnceInv /\ RankInv

LEMMA RankFacts ==
    /\ \A a \in State : Rank[a] \in Nat
    /\ \A a \in State : \A b : CanTransition(a, b) /\ b # "ERP_SUBMITTED" => Rank[b] > Rank[a]
<1>1. \A a \in State : Rank[a] \in Nat
  BY DEF Rank, State, Transitions
<1>2. ASSUME NEW a \in State, NEW b, CanTransition(a, b), b # "ERP_SUBMITTED"
      PROVE  Rank[b] > Rank[a]
  BY <1>2 DEF Rank, State, Transitions, CanTransition
<1> QED BY <1>1, <1>2

(* Sequences: the facts about Append and Tail that the steps need.          *)
LEMMA AppendFacts ==
    ASSUME NEW S, NEW q \in Seq(S), NEW e \in S
    PROVE  /\ Append(q, e) \in Seq(S)
           /\ Len(Append(q, e)) = Len(q) + 1
           /\ \A i \in 1 .. Len(q) : Append(q, e)[i] = q[i]
           /\ Append(q, e)[Len(q) + 1] = e
BY AppendProperties

LEMMA TailFacts ==
    ASSUME NEW S, NEW q \in Seq(S), q # <<>>
    PROVE  /\ Tail(q) \in Seq(S)
           /\ Len(Tail(q)) = Len(q) - 1 /\ Len(q) \in Nat \ {0}
           /\ \A i \in 1 .. Len(Tail(q)) : Tail(q)[i] = q[i + 1]
           /\ q[1] \in S
           /\ Tail(q) = <<>> <=> Len(q) = 1
<1>1. Tail(q) \in Seq(S) /\ Len(Tail(q)) = Len(q) - 1 /\ Len(q) \in Nat \ {0}
      /\ \A i \in 1 .. Len(Tail(q)) : Tail(q)[i] = q[i + 1]
  BY HeadTailProperties, EmptySeq
<1>2. q[1] \in S
  BY <1>1, ElementOfSeq
<1>3. Tail(q) = <<>> <=> Len(Tail(q)) = 0
  BY <1>1, EmptySeq
<1> QED BY <1>1, <1>2, <1>3

LEMMA FeedbackTypes ==
    ASSUME FeedbackTypeOK
    PROVE  /\ erp \in [Recs -> State \cup {None}]
           /\ sent \in Seq(Message) /\ Len(sent) \in Nat /\ Len(sent) <= MaxSent
           /\ DOMAIN sent = 1 .. Len(sent)
           /\ topic \in [Reports -> Seq(Numbers)]
           /\ \A t \in Reports : Len(topic[t]) \in Nat
           /\ pos \in [Reports -> 0 .. MaxSent]
           /\ batch \in Seq(Numbers) /\ Len(batch) \in Nat /\ DOMAIN batch = 1 .. Len(batch)
           /\ Len(batch) <= BatchSize
           /\ applied \in [Numbers -> Nat] /\ fate \in [Numbers -> Fates]
           /\ MaxSent \in Nat /\ BatchSize \in Nat \ {0}
           /\ Worker \in Sessions
BY FeedbackAssumption, LenProperties DEF FeedbackTypeOK

-----------------------------------------------------------------------------
LEMMA FeedbackStart == FeedbackInit => FInv
<1> SUFFICES ASSUME FeedbackInit PROVE FInv
  OBVIOUS
<1>1. IInv
  BY PoolInit DEF FeedbackInit
<1>2. Len(<<>>) = 0
  BY EmptySeq
<1>a. <<>> \in Seq(Message) /\ <<>> \in Seq(Numbers)
  BY EmptySeq
<1>b. sent \in Seq(Message) /\ Len(sent) <= MaxSent /\ batch \in Seq(Numbers)
      /\ Len(batch) <= BatchSize
  BY <1>a, <1>2, FeedbackAssumption DEF FeedbackInit
<1>c. topic \in [Reports -> Seq(Numbers)] /\ pos \in [Reports -> 0 .. MaxSent]
      /\ applied \in [Numbers -> Nat] /\ erp \in [Recs -> State \cup {None}]
      /\ fate \in [Numbers -> Fates]
  BY <1>a, FeedbackAssumption DEF FeedbackInit, Fates
<1>3. FeedbackTypeOK
  BY <1>1, <1>b, <1>c DEF FeedbackInit, FeedbackTypeOK, IInv
<1>4. TopicsInv
  BY <1>2 DEF FeedbackInit, TopicsInv
<1>5. BatchInv
  BY <1>2, FeedbackAssumption DEF FeedbackInit, BatchInv
<1>6. WorkerInv
  BY FeedbackAssumption DEF FeedbackInit, Init, WorkerInv, Open
<1>7. LossHasACause
  BY DEF FeedbackInit, LossHasACause
<1>8. OnceInv
  BY <1>2 DEF FeedbackInit, OnceInv, Numbers
<1>9. RankInv
  BY <1>2 DEF FeedbackInit, RankInv
<1> QED BY <1>1, <1>3, <1>4, <1>5, <1>6, <1>7, <1>8, <1>9 DEF FInv

(* What depends on the topics and the worker's variables only.              *)
LEMMA WorkerKept ==
    ASSUME FInv, UNCHANGED <<kafka, worker>>
    PROVE  TopicsInv' /\ BatchInv' /\ LossHasACause' /\ OnceInv'
<1>1. UNCHANGED <<sent, topic, mode, pos, saved, batch, applied, fate, broke>>
  BY DEF kafka, worker
<1>2. TopicsInv' /\ BatchInv'
  BY <1>1 DEF FInv, TopicsInv, BatchInv
<1>3. LossHasACause' /\ OnceInv'
  BY <1>1 DEF FInv, LossHasACause, AccountedFor, OnceInv, Returned
<1> QED BY <1>2, <1>3

LEMMA RankKept ==
    ASSUME RankInv, UNCHANGED <<row, sent, applied, renewed>>,
           \A r \in Recs : raced[r] => raced'[r],
           \A n \in 1 .. Len(sent) : sent[n].rec \in Recs
    PROVE  RankInv'
BY DEF RankInv

-----------------------------------------------------------------------------
(* What a step of one session does to the others and to the rows.           *)
LEMMA StepFrame ==
    ASSUME TypeOK, NEW s \in Sessions, Request(s) \/ Progress(s) \/ Rollback(s)
    PROVE  /\ \A t \in Sessions \ {s} : sess'[t] = sess[t]
           /\ \A r \in Recs : raced[r] => raced'[r]
           /\ \A r \in Recs : row'[r] = row[r] \/ (Holds(s, r) /\ row'[r] = sess[s].new)
<1>1. sess \in [Sessions -> Session \cup {None}] /\ raced \in [Recs -> BOOLEAN]
      /\ row \in [Recs -> Row \cup {None}]
  BY DEF TypeOK
<1>2. \A t \in Sessions \ {s} : sess'[t] = sess[t]
  BY <1>1 DEF Request, Progress, Rollback, Generate, Call, Answer, Read, Mark, Ignore, Write,
              Repeat, Commit, Begun, Unwritten
<1>3. \A r \in Recs : raced[r] => raced'[r]
  BY <1>1 DEF Request, Progress, Rollback, Generate, Call, Answer, Read, Mark, Ignore, Write,
              Repeat, Commit
<1>4. \A r \in Recs : row'[r] = row[r] \/ (Holds(s, r) /\ row'[r] = sess[s].new)
  BY <1>1 DEF Request, Progress, Rollback, Generate, Call, Answer, Read, Mark, Ignore, Write,
              Repeat, Commit, Holds, At
<1> QED BY <1>2, <1>3, <1>4

(* The steps *)

LEMMA HttpIsNext ==
    Http => \/ \E s \in Sessions \ {Worker} : Request(s) \/ Progress(s) \/ Rollback(s)
            \/ \E r \in Recs : Arrive(r)
<1>1. "approve" \in Operations /\ "PMS_APPROVED" \in Targets("approve")
  BY OperationNames DEF Targets
<1> QED BY <1>1 DEF Http, Request

(* A step over HTTP is one of the pool, by a session that is not the        *)
(* worker's.                                                                *)
LEMMA HttpStep ==
    ASSUME FInv, Http
    PROVE  FInv'
<1> USE DEF FInv
<1>1. \/ \E s \in Sessions \ {Worker} : Request(s) \/ Progress(s) \/ Rollback(s)
      \/ \E r \in Recs : Arrive(r)
  BY HttpIsNext
<1>3. Next
  BY <1>1 DEF Next
<1>4. IInv'
  BY <1>3, PoolStep
<1>5. UNCHANGED <<kafka, worker>>
  BY DEF Http
<1>6. UNCHANGED <<sent, topic, mode, pos, saved, batch, applied, fate, broke>>
  BY <1>5 DEF kafka, worker
<1>7. TopicsInv' /\ BatchInv' /\ LossHasACause' /\ OnceInv'
  BY <1>5, WorkerKept
<1>8. FeedbackTypeOK'
  <2>1. erp' \in [Recs -> State \cup {None}]
    BY OperationNames, FeedbackTypes DEF Http
  <2>2. renewed' \subseteq Numbers
    <3> DEFINE new == {n \in DOMAIN sent :
                          /\ applied[n] > 0 /\ row'[sent[n].rec] # row[sent[n].rec]
                          /\ row'[sent[n].rec].state = "ERP_SUBMITTED"}
    <3>1. renewed' = renewed \cup new
      BY DEF Http
    <3>2. new \subseteq DOMAIN sent /\ renewed \subseteq Numbers
      BY DEF FeedbackTypeOK
    <3> HIDE DEF new
    <3>3. DOMAIN sent \subseteq Numbers
      BY FeedbackTypes DEF Numbers
    <3> QED BY <3>1, <3>2, <3>3
  <2>3. TypeOK'
    BY <1>4 DEF IInv
  <2> QED BY <1>6, <2>1, <2>2, <2>3 DEF FeedbackTypeOK
<1>9. /\ sess'[Worker] = sess[Worker]
      /\ \A r \in Recs : raced[r] => raced'[r]
      /\ \A r \in Recs : \/ row'[r] = row[r]
                         \/ \E s \in Sessions \ {Worker} :
                                Holds(s, r) /\ row'[r] = sess[s].new
  <2>1. CASE \E r \in Recs : Arrive(r)
    BY <2>1 DEF Arrive
  <2>2. CASE \E s \in Sessions \ {Worker} : Request(s) \/ Progress(s) \/ Rollback(s)
    <3>1. PICK s \in Sessions \ {Worker} : Request(s) \/ Progress(s) \/ Rollback(s)
      BY <2>2
    <3>2. /\ \A t \in Sessions \ {s} : sess'[t] = sess[t]
          /\ \A r \in Recs : raced[r] => raced'[r]
          /\ \A r \in Recs : row'[r] = row[r] \/ (Holds(s, r) /\ row'[r] = sess[s].new)
      BY <3>1, StepFrame DEF IInv
    <3> QED BY <3>2, FeedbackAssumption
  <2> QED BY <1>1, <2>1, <2>2
<1>10. WorkerInv'
  <2> SUFFICES ASSUME Open(Worker)' PROVE WorkerInv!2'
    BY DEF WorkerInv
  <2>1. Open(Worker) /\ sess[Worker].rec \in Recs
    BY <1>9, FeedbackAssumption, OpenFields DEF Open, IInv
  <2>2. WorkerInv!2
    BY <2>1 DEF WorkerInv
  <2>3. sess[Worker].at = "written" => row'[sess[Worker].rec] = row[sess[Worker].rec]
    <3>1. ASSUME sess[Worker].at = "written", NEW s \in Sessions \ {Worker}
          PROVE  ~Holds(s, sess[Worker].rec)
      <4>1. Holds(Worker, sess[Worker].rec)
        BY <2>1, <2>2, <3>1 DEF Holds, At
      <4> QED BY <4>1, <2>1, FeedbackAssumption DEF IInv, OneHolder
    <3> QED BY <3>1, <2>1, <1>9
  <2> QED BY <2>1, <2>2, <2>3, <1>6, <1>9
<1>11. RankInv'
  <2>1. \A n \in Numbers : applied'[n] > 0 => n \in 1 .. Len(sent')
    BY <1>6 DEF RankInv
  <2>2. ASSUME NEW n \in 1 .. Len(sent), applied[n] > 0, n \notin renewed', ~raced'[sent[n].rec]
        PROVE  /\ row'[sent[n].rec] # None
               /\ Rank[row'[sent[n].rec].state] >= Rank[sent[n].target]
               /\ applied[n] = 1
    <3> DEFINE r == sent[n].rec
    <3>1. sent[n] \in Message
      BY FeedbackTypes, ElementOfSeq
    <3>2. r \in Recs /\ sent[n].target \in State
      BY <3>1, OperationNames DEF Message
    <3>3. n \notin renewed /\ ~raced[r]
      BY <2>2, <3>2, <1>9 DEF Http
    <3>4. row[r] # None /\ Rank[row[r].state] >= Rank[sent[n].target] /\ applied[n] = 1
      BY <2>2, <3>3 DEF RankInv
    <3>5. row[r] \in Row
      BY <3>2, <3>4 DEF IInv, TypeOK
    <3>6. CASE row'[r] = row[r]
      BY <3>4, <3>6
    <3>7. CASE row'[r] # row[r]
      <4>1. PICK s \in Sessions : Holds(s, r) /\ row'[r] = sess[s].new
        BY <3>2, <3>7, <1>9
      <4>2. sess[s].new # None /\ sess[s].rec = r /\ Open(s)
        BY <4>1 DEF Holds, At
      <4>3. Flushed(sess[s]) /\ sess[s].new \in Row
        BY <4>2, OpenFields, SessionFields DEF IInv, SessInv
      <4>4. row'[r].state = row[r].state \/ CanTransition(row[r].state, row'[r].state)
        BY <4>1, <4>2, <4>3, <3>3, <3>4 DEF Flushed
      <4>5. row'[r].state # "ERP_SUBMITTED"
        BY <2>2, <3>7, FeedbackTypes DEF Http
      <4>6. row[r].state \in State /\ row'[r].state \in State /\ row'[r] # None
        BY <3>5, <4>1, <4>2, <4>3, RowFields
      <4>7. Rank[row'[r].state] >= Rank[row[r].state]
        BY <4>4, <4>5, <4>6, RankFacts
      <4> QED BY <4>6, <4>7, <3>2, <3>4, RankFacts
    <3> QED BY <3>6, <3>7
  <2> QED BY <2>1, <2>2, <1>6 DEF RankInv
<1> QED BY <1>4, <1>7, <1>8, <1>10, <1>11

LEMMA ReportStep ==
    ASSUME FInv, NEW r \in Recs, NEW t \in Reports, Report(r, t)
    PROVE  FInv'
<1> USE DEF FInv
<1> DEFINE n == Len(sent) + 1
           m == [rec |-> r, target |-> t]
<1>1. /\ UNCHANGED <<vars, mode, pos, saved, batch, applied, fate, broke, renewed>>
      /\ UNCHANGED <<row, raced, sess>>
      /\ sent' = Append(sent, m) /\ topic' = [topic EXCEPT ![t] = Append(@, n)]
      /\ Len(sent) < MaxSent /\ erp' = [erp EXCEPT ![r] = t]
  BY DEF Report, worker, vars
<1>2. /\ sent \in Seq(Message) /\ Len(sent) \in Nat /\ topic \in [Reports -> Seq(Numbers)]
      /\ \A u \in Reports : Len(topic[u]) \in Nat
      /\ pos \in [Reports -> 0 .. MaxSent] /\ MaxSent \in Nat
      /\ applied \in [Numbers -> Nat]
  BY FeedbackTypes
<1>3. m \in Message /\ n \in Numbers
  BY <1>1, <1>2 DEF Message, Numbers
<1>4. /\ sent' \in Seq(Message) /\ Len(sent') = n
      /\ \A i \in 1 .. Len(sent) : sent'[i] = sent[i]
      /\ sent'[n] = m
  BY <1>1, <1>2, <1>3, AppendFacts
<1>5. /\ topic' \in [Reports -> Seq(Numbers)]
      /\ Len(topic'[t]) = Len(topic[t]) + 1
      /\ \A i \in 1 .. Len(topic[t]) : topic'[t][i] = topic[t][i]
      /\ topic'[t][Len(topic[t]) + 1] = n
      /\ \A u \in Reports \ {t} : topic'[u] = topic[u]
  <2>1. topic[t] \in Seq(Numbers) /\ topic'[t] = Append(topic[t], n)
    BY <1>1, <1>2
  <2>2. \A u \in Reports \ {t} : topic'[u] = topic[u]
    BY <1>1, <1>2
  <2>3. Append(topic[t], n) \in Seq(Numbers)
    BY <2>1, <1>3, AppendFacts
  <2>4. topic' \in [Reports -> Seq(Numbers)]
    BY <1>1, <1>2, <2>3
  <2> QED BY <2>1, <2>2, <2>4, <1>3, AppendFacts
<1>6. ASSUME NEW u \in Reports, NEW k \in 1 .. pos[u]
      PROVE  topic'[u][k] = topic[u][k]
  <2>1. pos[u] \in Nat /\ Len(topic[u]) \in Nat /\ pos[u] <= Len(topic[u])
    BY <1>2 DEF BatchInv
  <2>2. k \in 1 .. Len(topic[u])
    BY <2>1
  <2> QED BY <2>2, <1>5
<1>a. ASSUME NEW u \in Reports, NEW k \in 1 .. Len(topic[u])
      PROVE  /\ topic[u][k] \in 1 .. Len(sent) /\ topic[u][k] # n
             /\ sent[topic[u][k]].target = u
             /\ \A j \in 1 .. Len(topic[u]) : topic[u][j] = topic[u][k] => j = k
  BY <1>2 DEF TopicsInv
<1>b. /\ n \in Nat /\ n = Len(sent) + 1 /\ 1 .. Len(sent) \subseteq 1 .. n /\ n \in 1 .. n
      /\ n \notin 1 .. Len(sent) /\ m.target = t
  BY <1>2
<1>c. ASSUME NEW u \in Reports PROVE Len(topic[u]) \in Nat /\ Len(topic[u]) <= Len(sent)
  BY <1>2 DEF TopicsInv
<1> HIDE DEF m, n
<1>7. IInv'
  BY <1>1, PoolStutter
<1>8. FeedbackTypeOK'
  <2>1. erp' \in [Recs -> State \cup {None}]
    BY <1>1, OperationNames, FeedbackTypes
  <2>2. Len(sent') <= MaxSent
    BY <1>1, <1>2, <1>4 DEF n
  <2> QED BY <1>1, <1>4, <1>5, <1>7, <2>1, <2>2 DEF FeedbackTypeOK, IInv
<1>9. TopicsInv'
  <2>1. ASSUME NEW u \in Reports PROVE Len(topic'[u]) <= Len(sent')
    BY <1>4, <1>5, <1>b, <1>c
  <2>2. ASSUME NEW u \in Reports, NEW k \in 1 .. Len(topic'[u])
        PROVE  \/ k \in 1 .. Len(topic[u]) /\ topic'[u][k] = topic[u][k]
               \/ u = t /\ k = Len(topic[t]) + 1 /\ topic'[u][k] = n
    <3>1. CASE u # t
      BY <3>1, <1>5
    <3>2. CASE u = t
      <4>1. k \in 1 .. Len(topic[t]) \/ k = Len(topic[t]) + 1
        BY <3>2, <1>5, <1>c
      <4> QED BY <3>2, <4>1, <1>5
    <3> QED BY <3>1, <3>2
  <2>3. ASSUME NEW u \in Reports, NEW k \in 1 .. Len(topic'[u])
        PROVE  topic'[u][k] \in 1 .. Len(sent') /\ sent'[topic'[u][k]].target = u
    <3>1. CASE k \in 1 .. Len(topic[u]) /\ topic'[u][k] = topic[u][k]
      <4>1. topic[u][k] \in 1 .. Len(sent) /\ sent[topic[u][k]].target = u
        BY <3>1, <1>a
      <4>2. sent'[topic[u][k]] = sent[topic[u][k]] /\ topic[u][k] \in 1 .. Len(sent')
        BY <4>1, <1>4, <1>b
      <4> QED BY <3>1, <4>1, <4>2
    <3>2. CASE u = t /\ topic'[u][k] = n
      BY <3>2, <1>4, <1>b
    <3> QED BY <2>2, <3>1, <3>2
  <2>4. ASSUME NEW u \in Reports, NEW k \in 1 .. Len(topic'[u]),
               NEW j \in 1 .. Len(topic'[u]), topic'[u][j] = topic'[u][k]
        PROVE  j = k
    <3>1. /\ \/ k \in 1 .. Len(topic[u]) /\ topic'[u][k] = topic[u][k]
             \/ u = t /\ k = Len(topic[t]) + 1 /\ topic'[u][k] = n
          /\ \/ j \in 1 .. Len(topic[u]) /\ topic'[u][j] = topic[u][j]
             \/ u = t /\ j = Len(topic[t]) + 1 /\ topic'[u][j] = n
      BY <2>2
    <3> QED BY <2>4, <3>1, <1>a
  <2> QED BY <2>1, <2>3, <2>4 DEF TopicsInv
<1>10. BatchInv'
  <2>1. \A i \in 1 .. Len(batch') : batch'[i] \in 1 .. Len(sent')
    BY <1>1, <1>4, <1>b DEF BatchInv
  <2>2. ASSUME NEW u \in Reports PROVE Len(topic[u]) <= Len(topic'[u]) /\ Len(topic'[u]) \in Nat
    BY <1>5, <1>c
  <2>3. ASSUME NEW u \in Reports PROVE pos[u] <= Len(topic'[u])
    BY <2>2, <1>2, <1>c DEF BatchInv
  <2>4. ASSUME NEW u \in Reports, saved # None PROVE saved[u] <= Len(topic'[u])
    <3>1. saved \in [Reports -> 0 .. MaxSent]
      BY <2>4 DEF FeedbackTypeOK
    <3>2. saved[u] \in Nat /\ saved[u] <= Len(topic[u])
      BY <2>4, <3>1, <1>2 DEF BatchInv
    <3> QED BY <3>2, <2>2, <1>c
  <2> QED BY <2>1, <2>3, <2>4, <1>1 DEF BatchInv
<1>11. WorkerInv'
  <2> SUFFICES ASSUME Open(Worker)' PROVE WorkerInv!2'
    BY DEF WorkerInv
  <2>1. Open(Worker)
    BY <1>1 DEF Open
  <2>2. WorkerInv!2
    BY <2>1 DEF WorkerInv
  <2>3. batch[1] \in 1 .. Len(sent)
    BY <2>2, FeedbackTypes, EmptySeq DEF BatchInv
  <2>4. sent'[batch[1]] = sent[batch[1]]
    BY <2>3, <1>4
  <2> QED BY <2>2, <2>4, <1>1
<1>12. LossHasACause'
  <2>1. ASSUME ~broke, NEW u \in Reports, NEW k \in 1 .. pos[u]
        PROVE  Known(topic[u][k])'
    <3>1. Known(topic[u][k]) /\ topic'[u][k] = topic[u][k]
      BY <2>1, <1>6 DEF LossHasACause, Known
    <3> QED BY <3>1, <1>1 DEF Known, AccountedFor
  <2> QED BY <2>1, <1>1 DEF LossHasACause, Known
<1>13. OnceInv'
  <2>1. \A i : Returned(i)' <=> Returned(i)
    BY <1>1, <1>6 DEF Returned
  <2> QED BY <2>1, <1>1 DEF OnceInv
<1>14. RankInv'
  <2>1. ASSUME NEW i \in Numbers, applied[i] > 0 PROVE i \in 1 .. Len(sent)
    BY <2>1 DEF RankInv
  <2>2. \A i \in 1 .. Len(sent') : i \in 1 .. Len(sent) \/ (i = n /\ i \in Numbers)
    BY <1>2, <1>3, <1>4 DEF n
  <2>3. n \notin 1 .. Len(sent)
    BY <1>2 DEF n
  <2>4. 1 .. Len(sent) \subseteq 1 .. Len(sent')
    BY <1>2, <1>4 DEF n
  <2>5. \A i \in Numbers : applied'[i] > 0 => i \in 1 .. Len(sent')
    BY <2>1, <2>4, <1>1
  <2>6. \A i \in 1 .. Len(sent') : applied[i] > 0 => i \in 1 .. Len(sent) /\ sent'[i] = sent[i]
    BY <2>1, <2>2, <2>3, <1>4
  <2> QED BY <2>5, <2>6, <1>1 DEF RankInv
<1> QED BY <1>7, <1>8, <1>9, <1>10, <1>11, <1>12, <1>13, <1>14

LEMMA StartStep ==
    ASSUME FInv, Start
    PROVE  FInv'
<1> USE DEF FInv
<1>1. /\ UNCHANGED <<vars, erp, sent, topic, saved, batch, applied, broke, renewed>>
      /\ UNCHANGED <<row, raced, sess>>
      /\ mode = "down" /\ mode' = "collect"
      /\ pos' = [t \in Reports |-> IF saved = None THEN Len(topic[t]) ELSE saved[t]]
      /\ fate' = [n \in Numbers |-> IF saved = None /\ n \in DOMAIN sent THEN "missed"
                                    ELSE fate[n]]
  BY DEF Start, kafka, vars
<1>2. /\ DOMAIN sent = 1 .. Len(sent) /\ Len(sent) \in Nat /\ Len(sent) <= MaxSent
      /\ \A t \in Reports : Len(topic[t]) \in Nat
      /\ MaxSent \in Nat /\ BatchSize \in Nat \ {0}
      /\ saved \in [Reports -> 0 .. MaxSent] \cup {None}
      /\ batch = <<>> /\ Len(batch) = 0
  BY <1>1, FeedbackTypes, EmptySeq DEF FeedbackTypeOK, BatchInv
<1>3. IInv'
  BY <1>1, PoolStutter
<1>4. \A t \in Reports : pos'[t] \in 0 .. MaxSent /\ pos'[t] <= Len(topic[t])
  BY <1>1, <1>2 DEF TopicsInv, BatchInv
<1>5. FeedbackTypeOK'
  <2>1. pos' \in [Reports -> 0 .. MaxSent]
    BY <1>1, <1>4
  <2>2. fate' \in [Numbers -> Fates]
    BY <1>1, FeedbackTypes DEF Fates
  <2> QED BY <1>1, <1>3, <2>1, <2>2 DEF FeedbackTypeOK, IInv
<1>6. TopicsInv'
  BY <1>1 DEF TopicsInv
<1>7. BatchInv'
  BY <1>1, <1>2, <1>4 DEF BatchInv
<1>8. WorkerInv'
  BY <1>1 DEF WorkerInv, Open
<1>9. ASSUME ~broke
      PROVE  /\ \A t \in Reports : \A k \in 1 .. pos'[t] : fate'[topic[t][k]] = "missed"
             /\ \A n \in Numbers : applied[n] = 0
  <2>1. saved = None /\ \A n \in Numbers : applied[n] = 0
    BY <1>1, <1>9 DEF OnceInv
  <2>2. ASSUME NEW t \in Reports, NEW k \in 1 .. pos'[t] PROVE fate'[topic[t][k]] = "missed"
    <3>1. topic[t][k] \in 1 .. Len(sent)
      BY <2>1, <1>1, <1>2 DEF TopicsInv
    <3>2. topic[t][k] \in Numbers
      BY <3>1, <1>2 DEF Numbers
    <3> QED BY <2>1, <3>1, <3>2, <1>1, <1>2
  <2> QED BY <2>1, <2>2
<1>10. LossHasACause'
  BY <1>1, <1>9 DEF LossHasACause, AccountedFor
<1>11. OnceInv'
  BY <1>1, <1>2, <1>9 DEF OnceInv
<1>12. RankInv'
  BY <1>1 DEF RankInv
<1> QED BY <1>3, <1>5, <1>6, <1>7, <1>8, <1>10, <1>11, <1>12

LEMMA CollectStep ==
    ASSUME FInv, NEW t \in Reports, Collect(t)
    PROVE  FInv'
<1> USE DEF FInv
<1>n. PICK n : n = topic[t][pos[t] + 1]
  OBVIOUS
<1>1. /\ UNCHANGED <<vars, erp, sent, topic, saved, applied, fate, broke, renewed>>
      /\ UNCHANGED <<row, raced, sess>>
      /\ mode = "collect" /\ pos[t] < Len(topic[t])
      /\ pos' = [pos EXCEPT ![t] = @ + 1]
      /\ batch' = Append(batch, n)
      /\ mode' = IF Full(batch') THEN "handle" ELSE "collect"
  BY <1>n DEF Collect, kafka, vars
<1>2. /\ Len(sent) \in Nat /\ Len(sent) <= MaxSent /\ topic \in [Reports -> Seq(Numbers)]
      /\ \A u \in Reports : Len(topic[u]) \in Nat
      /\ pos \in [Reports -> 0 .. MaxSent] /\ MaxSent \in Nat /\ BatchSize \in Nat \ {0}
      /\ applied \in [Numbers -> Nat]
      /\ batch \in Seq(Numbers) /\ Len(batch) \in Nat
  BY FeedbackTypes
<1>3. pos[t] + 1 \in 1 .. Len(topic[t]) /\ n \in 1 .. Len(sent)
  BY <1>n, <1>1, <1>2 DEF TopicsInv
<1>4. n \in Numbers
  BY <1>2, <1>3 DEF Numbers
<1>5. /\ batch' \in Seq(Numbers) /\ Len(batch') = Len(batch) + 1
      /\ \A i \in 1 .. Len(batch) : batch'[i] = batch[i]
      /\ batch'[Len(batch) + 1] = n
  BY <1>1, <1>2, <1>4, AppendFacts
<1>6. /\ pos'[t] = pos[t] + 1 /\ \A u \in Reports \ {t} : pos'[u] = pos[u]
      /\ \A u \in Reports : pos'[u] \in 0 .. MaxSent /\ pos'[u] <= Len(topic[u])
                            /\ pos[u] <= pos'[u] /\ pos[u] \in Nat
  BY <1>1, <1>2 DEF TopicsInv, BatchInv
<1>7. Len(batch) < BatchSize
  BY <1>1 DEF BatchInv
<1>8. \A i \in 1 .. Len(batch') : i \in 1 .. Len(batch) \/ i = Len(batch) + 1
  BY <1>2, <1>5
<1>a. DOMAIN batch = 1 .. Len(batch) /\ DOMAIN batch' = 1 .. Len(batch')
      /\ Len(batch) + 1 \in 1 .. Len(batch') /\ 1 .. Len(batch) \subseteq 1 .. Len(batch')
  BY <1>2, <1>5, LenProperties
<1>9. IInv'
  BY <1>1, PoolStutter
<1>10. FeedbackTypeOK'
  <2>1. pos' \in [Reports -> 0 .. MaxSent]
    BY <1>1, <1>2, <1>6
  <2>2. Len(batch') <= BatchSize
    BY <1>2, <1>5, <1>7
  <2> QED BY <1>1, <1>5, <1>9, <2>1, <2>2 DEF FeedbackTypeOK, IInv
<1>11. TopicsInv'
  BY <1>1 DEF TopicsInv
<1>12. BatchInv'
  <2>1. \A i \in 1 .. Len(batch') : batch'[i] \in 1 .. Len(sent)
    BY <1>3, <1>5, <1>8 DEF BatchInv
  <2>2. batch' # <<>> /\ (mode' = "collect" => Len(batch') < BatchSize)
    BY <1>1, <1>2, <1>5, EmptySeq DEF Full
  <2>3. \A u \in Reports : pos'[u] <= Len(topic[u])
    BY <1>6
  <2> QED BY <2>1, <2>2, <2>3, <1>1 DEF BatchInv
<1>13. WorkerInv'
  BY <1>1 DEF WorkerInv, Open
<1>14. LossHasACause'
  <2>1. ASSUME NEW i, Known(i) PROVE Known(i)'
    BY <2>1, <1>1, <1>5, <1>a DEF Known, AccountedFor
  <2>2. Known(n)'
    BY <1>5, <1>a DEF Known, AccountedFor
  <2>3. ASSUME ~broke, NEW u \in Reports, NEW k \in 1 .. pos'[u]
        PROVE  Known(topic[u][k])'
    <3>1. CASE k \in 1 .. pos[u]
      <4>1. PICK i : i = topic[u][k]
        OBVIOUS
      <4>2. Known(i)
        BY <3>1, <4>1, <2>3 DEF LossHasACause, Known
      <4>3. Known(i)' /\ topic'[u][k] = i
        BY <4>1, <4>2, <2>1, <1>1
      <4> QED BY <4>1, <4>3, <1>1
    <3>2. CASE u = t /\ k = pos[t] + 1
      BY <3>2, <2>2, <1>1, <1>n
    <3> QED BY <3>1, <3>2, <1>6
  <2> QED BY <2>3, <1>1 DEF LossHasACause, Known
<1>15. OnceInv'
  <2> SUFFICES ASSUME ~broke PROVE OnceInv!2'
    BY <1>1 DEF OnceInv
  <2>1. OnceInv!2
    BY DEF OnceInv
  <2>2. ASSUME NEW i, Returned(i) PROVE Returned(i)'
    <3>1. PICK u \in Reports : \E k \in 1 .. pos[u] : topic[u][k] = i
      BY <2>2 DEF Returned
    <3>2. 1 .. pos[u] \subseteq 1 .. pos'[u]
      BY <1>2, <1>6
    <3> QED BY <3>1, <3>2, <1>1 DEF Returned
  <2>3. Returned(n)'
    <3>1. pos[t] + 1 \in 1 .. pos'[t]
      BY <1>2, <1>6
    <3> QED BY <3>1, <1>1, <1>n DEF Returned
  <2>4. ~Returned(n)
    <3>1. ASSUME NEW u \in Reports, NEW k \in 1 .. pos[u], topic[u][k] = n PROVE FALSE
      <4>1. k \in 1 .. Len(topic[u])
        BY <1>2, <1>6
      <4>a. sent[topic[u][k]].target = u
        BY <4>1 DEF TopicsInv
      <4>b. sent[topic[t][pos[t] + 1]].target = t
        BY <1>3 DEF TopicsInv
      <4>2. u = t
        BY <4>a, <4>b, <3>1, <1>n
      <4>3. k = pos[t] + 1
        BY <4>1, <4>2, <3>1, <1>3, <1>n DEF TopicsInv
      <4> QED BY <4>2, <4>3, <1>6
    <3> QED BY <3>1 DEF Returned
  <2>5. applied[n] = 0 /\ \A i \in 1 .. Len(batch) : batch[i] # n
    BY <2>1, <2>4, <1>2, <1>4
  <2>6. ASSUME NEW i \in 1 .. Len(batch') PROVE Returned(batch[i])' /\ applied[batch'[i]] = 0
    <3>1. PICK b : b = batch'[i]
      OBVIOUS
    <3>2. b = n \/ (Returned(b) /\ applied[b] = 0)
      BY <3>1, <2>1, <1>5, <1>8
    <3>3. Returned(b)' /\ applied[b] = 0
      BY <3>2, <2>2, <2>3, <2>5
    <3> QED BY <3>1, <3>3 DEF Returned
  <2>7. \A i, j \in 1 .. Len(batch') : batch'[i] = batch'[j] => i = j
    BY <2>1, <2>5, <1>5, <1>8
  <2>8. \A i \in Numbers : applied[i] > 0 => applied[i] = 1 /\ Returned(i)'
    BY <2>1, <2>2
  <2> QED BY <2>6, <2>7, <2>8, <1>1
<1>16. RankInv'
  BY <1>1 DEF RankInv
<1> QED BY <1>9, <1>10, <1>11, <1>12, <1>13, <1>14, <1>15, <1>16

(* A poll that raises, or a kill: the batch is gone.                        *)
LEMMA PollFailsStep ==
    ASSUME FInv, PollFails
    PROVE  FInv'
<1> USE DEF FInv
<1>1. /\ UNCHANGED <<vars, erp, sent, topic, mode, pos, saved, applied, fate, renewed>>
      /\ UNCHANGED <<row, raced, sess>>
      /\ mode = "collect" /\ batch' = <<>> /\ broke' = TRUE
  BY DEF PollFails, kafka, vars
<1>2. <<>> \in Seq(Numbers) /\ Len(<<>>) = 0 /\ BatchSize \in Nat \ {0}
  BY EmptySeq, FeedbackTypes
<1>3. IInv'
  BY <1>1, PoolStutter
<1>4. FeedbackTypeOK'
  BY <1>1, <1>2, <1>3 DEF FeedbackTypeOK, IInv
<1>5. TopicsInv' /\ BatchInv'
  BY <1>1, <1>2 DEF TopicsInv, BatchInv
<1>6. WorkerInv'
  BY <1>1 DEF WorkerInv, Open
<1>7. LossHasACause' /\ OnceInv'
  BY <1>1 DEF LossHasACause, OnceInv
<1>8. RankInv'
  BY <1>1 DEF RankInv
<1> QED BY <1>3, <1>4, <1>5, <1>6, <1>7, <1>8

LEMMA AutoCommitStep ==
    ASSUME FInv, AutoCommit
    PROVE  FInv'
<1> USE DEF FInv
<1>1. /\ UNCHANGED <<vars, erp, sent, topic, mode, pos, batch, applied, fate, broke, renewed>>
      /\ UNCHANGED <<row, raced, sess>>
      /\ mode # "down" /\ saved' = pos
  BY DEF AutoCommit, kafka, vars
<1>2. pos \in [Reports -> 0 .. MaxSent]
  BY FeedbackTypes
<1>3. IInv'
  BY <1>1, PoolStutter
<1>4. FeedbackTypeOK'
  BY <1>1, <1>2, <1>3 DEF FeedbackTypeOK, IInv
<1>5. TopicsInv' /\ BatchInv'
  BY <1>1 DEF TopicsInv, BatchInv
<1>6. WorkerInv'
  BY <1>1 DEF WorkerInv, Open
<1>7. LossHasACause' /\ OnceInv'
  BY <1>1 DEF LossHasACause, AccountedFor, OnceInv, Returned
<1>8. RankInv'
  BY <1>1 DEF RankInv
<1> QED BY <1>3, <1>4, <1>5, <1>6, <1>7, <1>8

LEMMA KillStep ==
    ASSUME FInv, Kill
    PROVE  FInv'
<1> USE DEF FInv
<1>1. /\ UNCHANGED <<erp, sent, topic, saved, applied, fate, renewed>>
      /\ mode' = "down" /\ pos' = [t \in Reports |-> 0] /\ batch' = <<>> /\ broke' = TRUE
      /\ IF Open(Worker) THEN Rollback(Worker) ELSE UNCHANGED vars
  BY DEF Kill, kafka
<1>2. <<>> \in Seq(Numbers) /\ Len(<<>>) = 0 /\ BatchSize \in Nat \ {0} /\ Worker \in Sessions
      /\ MaxSent \in Nat /\ \A t \in Reports : Len(topic[t]) \in Nat
  BY EmptySeq, FeedbackTypes
<1>3. UNCHANGED row /\ raced' = raced /\ ~Open(Worker)'
  BY <1>1, <1>2 DEF Rollback, vars, Open, IInv, TypeOK
<1>4. IInv'
  BY <1>1, <1>2, PoolStep DEF Next
<1>5. FeedbackTypeOK'
  <2>1. pos' \in [Reports -> 0 .. MaxSent]
    BY <1>1, <1>2
  <2> QED BY <1>1, <1>2, <1>4, <2>1 DEF FeedbackTypeOK, IInv
<1>6. TopicsInv'
  BY <1>1 DEF TopicsInv
<1>7. BatchInv'
  BY <1>1, <1>2 DEF BatchInv
<1>8. WorkerInv'
  BY <1>3 DEF WorkerInv
<1>9. LossHasACause' /\ OnceInv'
  BY <1>1 DEF LossHasACause, OnceInv
<1>10. RankInv'
  BY <1>1, <1>3 DEF RankInv
<1> QED BY <1>4, <1>5, <1>6, <1>7, <1>8, <1>9, <1>10

(* The worker is done with the first message of its batch.                  *)
LEMMA Handled ==
    ASSUME FInv, mode = "handle", NextMessage, NEW n, n = batch[1],
           UNCHANGED <<sent, topic, pos, saved, broke>>,
           Known(n)',
           \A i \in Numbers \ {n} : fate'[i] = fate[i],
           applied'[n] \in {applied[n], applied[n] + 1},
           \A i \in Numbers \ {n} : applied'[i] = applied[i]
    PROVE  /\ n \in 1 .. Len(sent) /\ n \in Numbers
           /\ batch' \in Seq(Numbers) /\ Len(batch') <= BatchSize
           /\ mode' \in {"collect", "handle"}
           /\ TopicsInv' /\ BatchInv' /\ LossHasACause' /\ OnceInv'
<1> USE DEF FInv
<1>1. /\ Len(sent) \in Nat /\ Len(sent) <= MaxSent
      /\ applied \in [Numbers -> Nat] /\ BatchSize \in Nat \ {0}
      /\ batch \in Seq(Numbers) /\ Len(batch) \in Nat /\ Len(batch) <= BatchSize
      /\ DOMAIN batch = 1 .. Len(batch)
  BY FeedbackTypes
<1>2. batch # <<>> /\ batch' = Tail(batch)
      /\ mode' = IF Tail(batch) = <<>> THEN "collect" ELSE "handle"
  BY DEF BatchInv, NextMessage
<1>3. /\ batch' \in Seq(Numbers) /\ Len(batch') = Len(batch) - 1 /\ Len(batch) \in Nat \ {0}
      /\ \A i \in 1 .. Len(batch') : batch'[i] = batch[i + 1]
      /\ n \in Numbers
      /\ batch' = <<>> <=> Len(batch) = 1
  BY <1>1, <1>2, TailFacts
<1>4. /\ DOMAIN batch' = 1 .. Len(batch') /\ 1 \in 1 .. Len(batch)
      /\ \A i \in 1 .. Len(batch') : i + 1 \in 1 .. Len(batch) /\ i + 1 # 1
      /\ \A i \in 1 .. Len(batch) : i = 1 \/ (i - 1 \in 1 .. Len(batch') /\ (i - 1) + 1 = i)
  BY <1>1, <1>3, LenProperties
<1>5. \A i \in 1 .. Len(batch) : i = 1 \/ \E j \in 1 .. Len(batch') : batch'[j] = batch[i]
  BY <1>3, <1>4
<1>6. n \in 1 .. Len(sent)
  BY <1>4 DEF BatchInv
<1>7. TopicsInv'
  BY DEF TopicsInv
<1>8. BatchInv'
  <2>1. \A i \in 1 .. Len(batch') : batch'[i] \in 1 .. Len(sent)
    BY <1>3, <1>4 DEF BatchInv
  <2>2. mode' = "collect" => Len(batch') = 0 /\ Len(batch') < BatchSize
    BY <1>1, <1>2, <1>3
  <2>3. mode' # "down" /\ (mode' = "handle" => batch' # <<>>)
    BY <1>2
  <2> QED BY <2>1, <2>2, <2>3 DEF BatchInv
<1>9. LossHasACause'
  <2>1. ASSUME NEW i, i \in Numbers, Known(i) PROVE Known(i)'
    <3>1. CASE i = n
      BY <3>1
    <3>2. CASE /\ i # n
               /\ fate[i] \in {"missed", "refused", "dead", "dropped"} \/ applied[i] > 0
      BY <2>1, <3>2 DEF Known, AccountedFor
    <3>3. CASE i # n /\ \E j \in DOMAIN batch : batch[j] = i
      <4>1. PICK j \in 1 .. Len(batch) : batch[j] = i
        BY <3>3, <1>1
      <4>2. j # 1
        BY <3>3, <4>1
      <4>3. \E k \in 1 .. Len(batch') : batch'[k] = i
        BY <4>1, <4>2, <1>5
      <4> QED BY <4>3, <1>4 DEF Known, AccountedFor
    <3> QED BY <2>1, <3>1, <3>2, <3>3 DEF Known, AccountedFor
  <2>2. ASSUME ~broke, NEW u \in Reports, NEW k \in 1 .. pos[u]
        PROVE  Known(topic[u][k])'
    <3>1. Known(topic[u][k])
      BY <2>2 DEF LossHasACause, Known
    <3>2. topic[u] \in Seq(Numbers) /\ k \in 1 .. Len(topic[u])
      BY FeedbackTypes DEF BatchInv
    <3>3. PICK i : i = topic[u][k]
      OBVIOUS
    <3>4. i \in Numbers
      BY <3>2, <3>3, ElementOfSeq
    <3>5. Known(i)'
      BY <3>1, <3>3, <3>4, <2>1
    <3> QED BY <3>3, <3>5
  <2> QED BY <2>2 DEF LossHasACause, Known
<1>10. OnceInv'
  <2> SUFFICES ASSUME ~broke PROVE OnceInv!2'
    BY DEF OnceInv
  <2>1. OnceInv!2
    BY DEF OnceInv
  <2>2. \A i : Returned(i)' <=> Returned(i)
    BY DEF Returned
  <2>3. applied[n] = 0 /\ Returned(n)
    BY <2>1, <1>4
  <2>4. \A i \in 1 .. Len(batch') : batch'[i] \in Numbers /\ batch'[i] # n
    BY <2>1, <1>3, <1>4, ElementOfSeq
  <2>5. ASSUME NEW i \in 1 .. Len(batch') PROVE Returned(batch[i])' /\ applied'[batch'[i]] = 0
    <3>1. PICK b : b = batch'[i]
      OBVIOUS
    <3>2. b \in Numbers \ {n} /\ Returned(b) /\ applied[b] = 0
      BY <3>1, <2>1, <2>4, <1>3, <1>4
    <3> QED BY <3>1, <3>2, <2>2 DEF Returned
  <2>6. ASSUME NEW i \in 1 .. Len(batch'), NEW j \in 1 .. Len(batch'), batch'[i] = batch'[j]
        PROVE  i = j
    <3>1. batch[i + 1] = batch[j + 1]
      BY <2>6, <1>3
    <3>2. i + 1 = j + 1
      BY <3>1, <2>1, <1>4
    <3> QED BY <3>2, <1>3
  <2>7. ASSUME NEW i \in Numbers, applied'[i] > 0 PROVE applied'[i] = 1 /\ Returned(i)'
    BY <2>1, <2>2, <2>3, <2>7
  <2> QED BY <1>2, <2>5, <2>6, <2>7
<1> QED BY <1>1, <1>2, <1>3, <1>6, <1>7, <1>8, <1>9, <1>10

LEMMA SentFields ==
    ASSUME FInv, NEW i \in 1 .. Len(sent)
    PROVE  /\ sent[i].rec \in Recs /\ sent[i].target \in Reports
           /\ sent[i].target \in State \ {"ERP_SUBMITTED"}
           /\ i \in Numbers
<1>1. sent \in Seq(Message) /\ Len(sent) \in Nat /\ Len(sent) <= MaxSent /\ MaxSent \in Nat
  BY FeedbackTypes DEF FInv
<1>2. sent[i] \in Message
  BY <1>1, ElementOfSeq
<1>3. i \in Numbers
  BY <1>1 DEF Numbers
<1> QED BY <1>2, <1>3, PoolAssumption DEF Message, OfPms

(* The first message of the batch that the worker handles.                  *)
LEMMA FirstMessage ==
    ASSUME FInv, mode = "handle"
    PROVE  /\ batch[1] \in 1 .. Len(sent) /\ batch[1] \in Numbers
           /\ sent[batch[1]].rec \in Recs
           /\ sent[batch[1]].target \in Reports
           /\ sent[batch[1]].target \in State \ {"ERP_SUBMITTED"}
<1>1. batch # <<>> /\ batch \in Seq(Numbers) /\ Len(batch) \in Nat
  BY FeedbackTypes DEF FInv, BatchInv
<1>2. 1 \in 1 .. Len(batch)
  BY <1>1, EmptySeq
<1>3. batch[1] \in 1 .. Len(sent)
  BY <1>2 DEF FInv, BatchInv
<1> QED BY <1>3, SentFields

LEMMA FateSet ==
    ASSUME FeedbackTypeOK, NEW n \in Numbers, NEW f \in Fates \ {"none"},
           fate' = [fate EXCEPT ![n] = f]
    PROVE  /\ Known(n)' /\ fate' \in [Numbers -> Fates]
           /\ \A i \in Numbers \ {n} : fate'[i] = fate[i]
<1>1. fate \in [Numbers -> Fates]
  BY FeedbackTypes
<1>2. fate'[n] = f
  BY <1>1
<1>3. Known(n)'
  BY <1>2 DEF Known, AccountedFor, Fates
<1> QED BY <1>1, <1>3

LEMMA RefuseStep ==
    ASSUME FInv, Refuse
    PROVE  FInv'
<1> USE DEF FInv
<1>n. PICK n : n = batch[1]
  OBVIOUS
<1>1. /\ UNCHANGED <<vars, erp, sent, topic, pos, saved, applied, broke, renewed>>
      /\ UNCHANGED <<row, raced, sess>>
      /\ mode = "handle" /\ ~Open(Worker) /\ fate' = [fate EXCEPT ![n] = "refused"] /\ NextMessage
  BY <1>n DEF Refuse, kafka, vars
<1>f. "refused" \in Fates \ {"none"}
  BY DEF Fates
<1>2. /\ Known(n)' /\ fate' \in [Numbers -> Fates]
      /\ \A i \in Numbers \ {n} : fate'[i] = fate[i]
  BY <1>n, <1>f, <1>1, FirstMessage, FateSet
<1>3. /\ n \in 1 .. Len(sent) /\ n \in Numbers
      /\ batch' \in Seq(Numbers) /\ Len(batch') <= BatchSize
      /\ mode' \in {"collect", "handle"}
      /\ TopicsInv' /\ BatchInv' /\ LossHasACause' /\ OnceInv'
  BY <1>n, <1>1, <1>2, Handled
<1>4. IInv'
  BY <1>1, PoolStutter
<1>5. FeedbackTypeOK'
  BY <1>1, <1>2, <1>3, <1>4 DEF FeedbackTypeOK, IInv
<1>6. WorkerInv'
  BY <1>1 DEF WorkerInv, Open
<1>7. RankInv'
  BY <1>1 DEF RankInv
<1> QED BY <1>3, <1>4, <1>5, <1>6, <1>7

LEMMA HandleStep ==
    ASSUME FInv, Handle
    PROVE  FInv'
<1> USE DEF FInv
<1> DEFINE e == sent[batch[1]]
           w == sess[Worker]
<1>1. /\ UNCHANGED <<erp, kafka, worker, renewed>>
      /\ UNCHANGED <<sent, topic, mode, pos, saved, batch, applied, fate, broke>>
      /\ mode = "handle"
  BY DEF Handle, kafka, worker
<1>2. TopicsInv' /\ BatchInv' /\ LossHasACause' /\ OnceInv'
  BY <1>1, WorkerKept
<1>3. e.rec \in Recs /\ e.target \in Reports /\ Worker \in Sessions
  BY <1>1, FirstMessage, FeedbackAssumption
<1>4. \/ \E d \in Details : Read(Worker, e.rec, "advance", e.target, d)
      \/ Write(Worker)
  BY DEF Handle
<1>5. "advance" \in Operations /\ e.target \in Targets("advance")
  BY <1>3, OperationNames DEF Targets
<1>a. Request(Worker) \/ Progress(Worker)
  BY <1>3, <1>4, <1>5 DEF Request, Progress
<1>b. IInv'
  BY <1>3, <1>a, PoolStep DEF Next
<1>c. row' = row /\ \A r \in Recs : raced[r] => raced'[r]
  <2>1. \A r \in Recs : raced[r] => raced'[r]
    BY <1>3, <1>a, StepFrame DEF IInv
  <2> QED BY <2>1, <1>4 DEF Read, Write
<1>6. FeedbackTypeOK'
  BY <1>1, <1>b DEF FeedbackTypeOK, IInv
<1>7. RankInv'
  <2>1. \A i \in 1 .. Len(sent) : sent[i].rec \in Recs
    BY SentFields
  <2> QED BY <2>1, <1>1, <1>c, RankKept
<1>8. WorkerInv'
  <2>1. CASE \E d \in Details : Read(Worker, e.rec, "advance", e.target, d)
    <3>1. PICK d \in Details : Read(Worker, e.rec, "advance", e.target, d)
      BY <2>1
    <3>2. sess' = Begun(Worker, e.rec, "advance", e.target, d, "read", row[e.rec])
      BY <3>1 DEF Read
    <3>3. sess \in [Sessions -> Session \cup {None}]
      BY DEF IInv, TypeOK
    <3>4. /\ sess'[Worker].op = "advance" /\ sess'[Worker].rec = e.rec
          /\ sess'[Worker].target = e.target /\ sess'[Worker].at = "read"
      BY <3>2, <3>3, <1>3 DEF Begun
    <3> QED BY <3>4, <1>1 DEF WorkerInv
  <2>2. CASE Write(Worker)
    <3>1. Open(Worker) /\ sess \in [Sessions -> Session \cup {None}]
          /\ raced \in [Recs -> BOOLEAN]
      BY <2>2 DEF Write, IInv, TypeOK
    <3>2. w.op = "advance" /\ w.rec = e.rec /\ w.target = e.target
      BY <3>1 DEF WorkerInv
    <3>3. CanTransition(w.copy.state, w.target)
      BY <2>2, <3>2 DEF Write, Receives
    <3>4. PICK m : m = Merged(w.copy, Wanted(w), row[w.rec])
      OBVIOUS
    <3>5. m \in Row /\ m.state = w.target
      BY <2>2, <3>3, <3>4, <1>3, WriteFlushes
    <3>6. /\ sess' = [sess EXCEPT ![Worker] = [w EXCEPT !.at = "written", !.new = m]]
          /\ raced' = [raced EXCEPT ![w.rec] = @ \/ row[w.rec] # w.copy]
      BY <2>2, <3>4 DEF Write
    <3>7. w \in Session
      BY <3>1, <1>3, OpenFields DEF IInv, Open
    <3>8. /\ sess'[Worker].op = w.op /\ sess'[Worker].rec = w.rec
          /\ sess'[Worker].target = w.target /\ sess'[Worker].at = "written"
          /\ sess'[Worker].new = m
      <4>1. sess'[Worker] = [w EXCEPT !.at = "written", !.new = m]
        BY <3>1, <3>6, <1>3
      <4> QED BY <4>1, <3>7 DEF Session
    <3>9. ~raced'[w.rec] => CanTransition(row[w.rec].state, w.target)
      BY <3>1, <3>2, <3>3, <3>6, <1>3
    <3>10. m # None
      BY <3>5, RowFields
    <3> QED BY <3>2, <3>5, <3>8, <3>9, <3>10, <1>1, <1>c DEF WorkerInv
  <2> QED BY <1>4, <2>1, <2>2
<1> QED BY <1>2, <1>6, <1>7, <1>8, <1>b

(* The worker commits what a message does: the row was not that far.        *)
LEMMA FinishStep ==
    ASSUME FInv, Finish
    PROVE  FInv'
<1> USE DEF FInv
<1>n. PICK n : n = batch[1]
  OBVIOUS
<1>w. PICK w : w = sess[Worker]
  OBVIOUS
<1>1. /\ UNCHANGED <<erp, sent, topic, pos, saved, fate, broke, renewed>>
      /\ mode = "handle" /\ Commit(Worker) /\ NextMessage
      /\ applied' = [applied EXCEPT ![n] = @ + 1]
  BY <1>n DEF Finish, kafka
<1>2. /\ n \in 1 .. Len(sent) /\ n \in Numbers
      /\ sent[n].rec \in Recs /\ sent[n].target \in Reports
      /\ sent[n].target \in State \ {"ERP_SUBMITTED"}
  BY <1>n, <1>1, FirstMessage
<1>3. applied \in [Numbers -> Nat] /\ Worker \in Sessions
      /\ row \in [Recs -> Row \cup {None}] /\ sess \in [Sessions -> Session \cup {None}]
  BY FeedbackTypes DEF IInv, TypeOK
<1>4. applied'[n] = applied[n] + 1 /\ applied[n] \in Nat
      /\ \A i \in Numbers \ {n} : applied'[i] = applied[i]
  BY <1>1, <1>2, <1>3
<1>5. Known(n)'
  BY <1>4 DEF Known, AccountedFor
<1>6. /\ batch' \in Seq(Numbers) /\ Len(batch') <= BatchSize
      /\ mode' \in {"collect", "handle"}
      /\ TopicsInv' /\ BatchInv' /\ LossHasACause' /\ OnceInv'
  BY <1>n, <1>1, <1>4, <1>5, Handled
<1>7. IInv'
  BY <1>1, <1>3, PoolStep DEF Next, Progress
<1>8. FeedbackTypeOK'
  <2>1. applied' \in [Numbers -> Nat]
    BY <1>1, <1>3, <1>4
  <2> QED BY <2>1, <1>1, <1>6, <1>7 DEF FeedbackTypeOK, IInv
<1>9. /\ w.rec = sent[n].rec /\ w.new # None /\ w.new.state = sent[n].target
      /\ ~raced[w.rec] => CanTransition(row[w.rec].state, w.new.state)
  BY <1>n, <1>w, <1>1 DEF Commit, At, WorkerInv
<1>10. /\ row'[w.rec] = w.new /\ \A r \in Recs \ {w.rec} : row'[r] = row[r]
       /\ raced' = raced /\ sess'[Worker] = None
  <2>1. row' = [row EXCEPT ![w.rec] = IF w.new # None THEN w.new ELSE @]
        /\ raced' = raced /\ sess' = [sess EXCEPT ![Worker] = None]
    BY <1>w, <1>1 DEF Commit
  <2> QED BY <2>1, <1>2, <1>3, <1>9
<1>11. WorkerInv'
  BY <1>10 DEF WorkerInv, Open
<1>12. RankInv'
  <2>1. \A i \in Numbers : applied'[i] > 0 => i \in 1 .. Len(sent)
    BY <1>2, <1>4 DEF RankInv
  <2>2. ASSUME NEW i \in 1 .. Len(sent), applied[i] > 0, i \notin renewed,
               ~raced[sent[i].rec], sent[i].rec = w.rec
        PROVE  /\ Rank[w.new.state] > Rank[sent[i].target]
               /\ applied[i] = 1
    <3>1. row[w.rec] # None /\ Rank[row[w.rec].state] >= Rank[sent[i].target] /\ applied[i] = 1
      BY <2>2 DEF RankInv
    <3>2. row[w.rec] \in Row
      BY <3>1, <1>2, <1>3, <1>9
    <3>3. row[w.rec].state \in State
      BY <3>2, RowFields
    <3>4. Rank[w.new.state] > Rank[row[w.rec].state]
      BY <3>3, <2>2, <1>2, <1>9, RankFacts
    <3>5. sent[i].target \in State
      BY SentFields
    <3> QED BY <3>1, <3>3, <3>4, <3>5, <1>2, <1>9, RankFacts
  <2>3. ASSUME NEW i \in 1 .. Len(sent), applied'[i] > 0, i \notin renewed,
               ~raced[sent[i].rec]
        PROVE  /\ row'[sent[i].rec] # None
               /\ Rank[row'[sent[i].rec].state] >= Rank[sent[i].target]
               /\ applied'[i] = 1
    <3>0. i \in Numbers /\ sent[i].rec \in Recs
      BY SentFields
    <3>1. CASE i = n
      <4>1. ~(applied[n] > 0)
        <5>1. ASSUME applied[n] > 0 PROVE FALSE
          <6>1. Rank[w.new.state] > Rank[sent[n].target]
            BY <5>1, <3>1, <2>2, <2>3, <1>2, <1>9
          <6>2. Rank[sent[n].target] \in Nat
            BY <1>2, RankFacts
          <6> QED BY <6>1, <6>2, <1>9
        <5> QED BY <5>1
      <4>2. applied'[n] = 1
        BY <4>1, <1>4
      <4>3. Rank[sent[n].target] \in Nat
        BY <1>2, RankFacts
      <4> QED BY <3>1, <4>2, <4>3, <1>9, <1>10
    <3>2. CASE i # n /\ sent[i].rec = w.rec
      <4>1. applied[i] > 0 /\ applied'[i] = applied[i]
        BY <3>0, <3>2, <2>3, <1>4
      <4>2. Rank[w.new.state] > Rank[sent[i].target] /\ applied[i] = 1
        BY <4>1, <3>2, <2>2, <2>3
      <4>3. Rank[w.new.state] \in Nat /\ Rank[sent[i].target] \in Nat
        <5>1. sent[i].target \in State
          BY SentFields
        <5> QED BY <5>1, <1>2, <1>9, RankFacts
      <4> QED BY <3>2, <4>1, <4>2, <4>3, <1>9, <1>10
    <3>3. CASE i # n /\ sent[i].rec # w.rec
      <4>1. applied[i] > 0 /\ applied'[i] = applied[i]
        BY <3>0, <3>3, <2>3, <1>4
      <4>2. row'[sent[i].rec] = row[sent[i].rec]
        BY <3>0, <3>3, <1>10
      <4> QED BY <4>1, <4>2, <2>3 DEF RankInv
    <3> QED BY <3>1, <3>2, <3>3
  <2> QED BY <2>1, <2>3, <1>1, <1>10 DEF RankInv
<1> QED BY <1>6, <1>7, <1>8, <1>11, <1>12

LEMMA FailStep ==
    ASSUME FInv, Fail
    PROVE  FInv'
<1> USE DEF FInv
<1>n. PICK n : n = batch[1]
  OBVIOUS
<1>1. /\ UNCHANGED <<erp, sent, topic, pos, saved, applied, broke, renewed>>
      /\ mode = "handle" /\ NextMessage
      /\ IF Open(Worker) THEN Rollback(Worker) ELSE UNCHANGED vars
  BY DEF Fail, kafka
<1>f. PICK f \in {"dead", "dropped"} : fate' = [fate EXCEPT ![n] = f]
  BY <1>n DEF Fail
<1>g. f \in Fates \ {"none"}
  BY DEF Fates
<1>2. /\ Known(n)' /\ fate' \in [Numbers -> Fates]
      /\ \A i \in Numbers \ {n} : fate'[i] = fate[i]
  BY <1>n, <1>f, <1>g, <1>1, FirstMessage, FateSet
<1>3. /\ n \in 1 .. Len(sent) /\ n \in Numbers
      /\ batch' \in Seq(Numbers) /\ Len(batch') <= BatchSize
      /\ mode' \in {"collect", "handle"}
      /\ TopicsInv' /\ BatchInv' /\ LossHasACause' /\ OnceInv'
  BY <1>n, <1>1, <1>2, Handled
<1>4. Worker \in Sessions /\ sess \in [Sessions -> Session \cup {None}]
  BY FeedbackTypes DEF IInv, TypeOK
<1>5. IInv'
  BY <1>1, <1>4, PoolStep DEF Next
<1>6. row' = row /\ raced' = raced /\ ~Open(Worker)'
  BY <1>1, <1>4 DEF Rollback, Open, vars
<1>7. FeedbackTypeOK'
  BY <1>1, <1>2, <1>3, <1>5 DEF FeedbackTypeOK, IInv
<1>8. WorkerInv'
  BY <1>6 DEF WorkerInv
<1>9. RankInv'
  BY <1>1, <1>6 DEF RankInv
<1> QED BY <1>3, <1>5, <1>7, <1>8, <1>9

LEMMA FeedbackStutter ==
    ASSUME FInv, UNCHANGED allvars
    PROVE  FInv'
<1> USE DEF FInv
<1>1. /\ UNCHANGED <<vars, row, raced, sess, erp, kafka, worker, renewed>>
      /\ UNCHANGED <<sent, topic, mode, pos, saved, batch, applied, fate, broke>>
  BY DEF allvars, vars, kafka, worker
<1>2. TopicsInv' /\ BatchInv' /\ LossHasACause' /\ OnceInv'
  BY <1>1, WorkerKept
<1>3. IInv'
  BY <1>1, PoolStutter
<1>4. FeedbackTypeOK'
  BY <1>1, <1>3 DEF FeedbackTypeOK, IInv
<1>5. WorkerInv' /\ RankInv'
  BY <1>1 DEF WorkerInv, RankInv, Open
<1> QED BY <1>2, <1>3, <1>4, <1>5

LEMMA FeedbackStep == FInv /\ [FeedbackNext]_allvars => FInv'
<1> SUFFICES ASSUME FInv, [FeedbackNext]_allvars PROVE FInv'
  OBVIOUS
<1>1. CASE Http
  BY <1>1, HttpStep
<1>2. CASE \E r \in Recs, t \in Reports : Report(r, t)
  BY <1>2, ReportStep
<1>3. CASE Start
  BY <1>3, StartStep
<1>4. CASE \E t \in Reports : Collect(t)
  BY <1>4, CollectStep
<1>5. CASE PollFails \/ AutoCommit \/ Kill
  BY <1>5, PollFailsStep, AutoCommitStep, KillStep
<1>6. CASE Refuse \/ Handle
  BY <1>6, RefuseStep, HandleStep
<1>7. CASE Finish \/ Fail
  BY <1>7, FinishStep, FailStep
<1>8. CASE UNCHANGED allvars
  BY <1>8, FeedbackStutter
<1> QED BY <1>1, <1>2, <1>3, <1>4, <1>5, <1>6, <1>7, <1>8 DEF FeedbackNext, WorkerStep

(* The same for the worker: topics, batch and what has been applied         *)
(* (ErpFeedbackWorker).                                                     *)
THEOREM FeedbackInvariance == FeedbackSpec => []FInv
BY FeedbackStart, FeedbackStep, PTL DEF FeedbackSpec

(* Every variable of the worker, the ERP and the topics keeps its type.     *)
THEOREM FeedbackTypeCorrect == FeedbackSpec => []FeedbackTypeOK
<1>1. FInv => FeedbackTypeOK
  BY DEF FInv
<1> QED BY <1>1, FeedbackInvariance, PTL

(* A message that the consumer has returned is lost by a kill, a poll that  *)
(* raised (run_forever keeps its batch in a local variable), or a handling  *)
(* and a dead letter that failed both (_send_to_dlq): by nothing else.      *)
THEOREM LossProof == FeedbackSpec => []LossHasACause
<1>1. FInv => LossHasACause
  BY DEF FInv
<1> QED BY <1>1, FeedbackInvariance, PTL

(* A message is applied twice only after a restart, and only if its         *)
(* recommendation was submitted anew or a stale request wrote over it:      *)
(* advance_state refuses every other repetition, since the state has a      *)
(* rank that no other step lowers.                                          *)
THEOREM AppliedTwiceProof == FeedbackSpec => []AppliedTwiceHasACause
<1>1. FInv => AppliedTwiceHasACause
  <2> SUFFICES ASSUME FInv, NEW n \in DOMAIN sent, applied[n] > 1
               PROVE  broke /\ (n \in renewed \/ raced[sent[n].rec])
    BY DEF AppliedTwiceHasACause
  <2>1. n \in 1 .. Len(sent) /\ n \in Numbers /\ applied[n] \in Nat
    BY FeedbackTypes DEF FInv, Numbers
  <2>2. broke
    BY <2>1 DEF FInv, OnceInv, FeedbackTypeOK
  <2>3. n \in renewed \/ raced[sent[n].rec]
    BY <2>1 DEF FInv, RankInv
  <2> QED BY <2>2, <2>3
<1> QED BY <1>1, FeedbackInvariance, PTL

(* What the worker and the ERP's feedback do to the pool, the pool allows:  *)
(* what is proved of the pool holds with the worker in it.                  *)
THEOREM FeedbackRefinesPool == FeedbackSpec => Spec
<1>1. FeedbackInit => Init
  BY DEF FeedbackInit
<1>2. FInv /\ [FeedbackNext]_allvars => [Next]_vars
  <2> SUFFICES ASSUME FInv, [FeedbackNext]_allvars PROVE [Next]_vars
    OBVIOUS
  <2>0. Worker \in Sessions
    BY FeedbackAssumption
  <2>1. CASE Http
    BY <2>1, HttpIsNext DEF Next
  <2>2. CASE Handle
    <3>1. mode = "handle"
      BY <2>2 DEF Handle
    <3>2. sent[batch[1]].rec \in Recs /\ sent[batch[1]].target \in Reports
      BY <3>1, FirstMessage
    <3>3. "advance" \in Operations /\ sent[batch[1]].target \in Targets("advance")
      BY <3>2, OperationNames DEF Targets
    <3> QED BY <2>0, <2>2, <3>2, <3>3 DEF Handle, Next, Request, Progress
  <2>3. CASE Finish \/ Fail \/ Kill
    BY <2>0, <2>3 DEF Finish, Fail, Kill, Next, Progress
  <2>4. CASE \/ \E r \in Recs, t \in Reports : Report(r, t)
             \/ Start \/ (\E t \in Reports : Collect(t)) \/ PollFails \/ AutoCommit
             \/ Refuse \/ UNCHANGED allvars
    BY <2>4 DEF Report, Start, Collect, PollFails, AutoCommit, Refuse, allvars
  <2> QED BY <2>1, <2>2, <2>3, <2>4 DEF FeedbackNext, WorkerStep
<1> QED BY <1>1, <1>2, FeedbackInvariance, PTL DEF FeedbackSpec, Spec

(* With the worker and the ERP's reports beside the requests, readers of    *)
(* the table see a behaviour of RecommendationLifecycle still               *)
(* (handle_erp_feedback_event).                                             *)
THEOREM FeedbackKeepsLifecycle == FeedbackSpec => ImplementsLifecycle
BY FeedbackRefinesPool, LifecycleRefined
=============================================================================
