---------------------------- MODULE OutboxProofs ----------------------------
(***************************************************************************)
(* Proofs about Outbox: its types, that a row marked sent has been sent,   *)
(* that a second send of an event has one of the known causes, and that an *)
(* event is given up only after its retries.                               *)
(***************************************************************************)
EXTENDS Outbox, FiniteSetTheorems, TLAPS

(* What the place of a request says of its variables. *)
Shape ==
    \A s \in Sessions :
      /\ pc[s] = "mark" <=> cur[s] # NoEvent
      /\ pc[s] \in {"idle", "reset", "list"} => todo[s] = {}
      /\ pc[s] \in {"idle", "reset"} => \A e \in Events : lock[e] # s
      /\ pc[s] = "list" => \A e \in Events : lock[e] = s => e \in excused
      /\ pc[s] = "idle" => target[s] = NoEvent
      /\ pc[s] = "reset" => target[s] \in Events
      /\ pc[s] = "list" /\ target[s] # NoEvent => seen[s][target[s]].status = "pending"
      /\ \A e \in Events : e \in todo[s] \/ cur[s] = e => seen[s][e].status # "sent"

(* Wherever an event is said to be sent, a message of it has left. *)
Left ==
    \A e \in Events :
      /\ row[e].status = "sent" => sends[e] > 0
      /\ \A s \in Sessions :
           /\ lock[e] = s /\ mine[s][e].status = "sent" => sends[e] > 0
           /\ cur[s] = e /\ ok[s] => sends[e] > 0

(* A request that has sent an event and will say so when it commits. *)
WillTell(s, e) ==
    \/ cur[s] = e /\ ok[s]
    \/ lock[e] = s /\ mine[s][e].status = "sent"

(* An event without excuse is in the hand of one request at most, which    *)
(* locks it only once it has sent it; once sent it is in nobody's list.    *)
OnceOnly(e) ==
    /\ sends[e] <= 1
    /\ \A s, r \in Sessions : e \in Engaged(s) /\ e \in Engaged(r) => s = r
    /\ \A s \in Sessions : e \in todo[s] => sends[e] = 0 /\ lock[e] = Free /\ cur[s] # e
    /\ \A s \in Sessions : cur[s] = e => lock[e] = Free
    /\ row[e].status = "sent" => \A s \in Sessions : e \notin Engaged(s)
    /\ sends[e] = 1 /\ row[e].status # "sent" => \E s \in Sessions : WillTell(s, e)

Once == \A e \in Events \ excused : OnceOnly(e)

(* A row's retry count, and its being given up, rest on sends that raised; *)
(* so do the copies of it, and a failed send is not counted in them yet.   *)
Backed(e, r) ==
    r.retry <= refusals[e] /\ (r.status = "dead_letter" => refusals[e] > MaxRetries)

Counted ==
    \A e \in Events :
      /\ Backed(e, row[e])
      /\ \A s \in Sessions :
           /\ Backed(e, mine[s][e])
           /\ seen[s][e].retry <= refusals[e]
           /\ cur[s] = e /\ ~ok[s] => seen[s][e].retry < refusals[e]

IInv == TypeOK /\ Shape /\ Left /\ Once /\ Counted

-----------------------------------------------------------------------------

LEMMA ViewType ==
    ASSUME TypeOK, NEW s \in Sessions
    PROVE  View(s) \in [Events -> Row]
  BY DEF TypeOK, View

LEMMA MergedType ==
    ASSUME NEW now \in Row, NEW old \in Row, NEW new \in Row
    PROVE  Merged(now, old, new) \in Row
  BY DEF Merged, Row

LEMMA MergedBacked ==
    ASSUME NEW e \in Events, NEW now, NEW old, NEW new, Backed(e, now), new.retry <= refusals[e],
           new.status = "dead_letter" => refusals[e] > MaxRetries
    PROVE  Backed(e, Merged(now, old, new))
  BY DEF Merged, Backed

LEMMA MarkedBacked ==
    ASSUME NEW e \in Events, refusals[e] \in Nat, NEW s \in Sessions, NEW old \in Row,
           old.retry <= refusals[e], ~ok[s] => old.retry < refusals[e]
    PROVE  /\ Marked(s, old).retry <= refusals[e]
           /\ Marked(s, old).status = "dead_letter" => refusals[e] > MaxRetries
  <1>1. CASE ok[s]
    BY <1>1 DEF Marked, Row, Status
  <1>2. CASE ~ok[s]
    BY <1>2, OutboxAssumption DEF Marked, Row, Status, Exhausted
  <1> QED BY <1>1, <1>2

LEMMA MarkedType ==
    ASSUME NEW s \in Sessions, NEW old \in Row
    PROVE  /\ Marked(s, old) \in Row
           /\ Marked(s, old).status = "sent" => ok[s] \/ old.status = "sent"
           /\ ok[s] => Marked(s, old).status = "sent"
  <1>1. CASE ok[s]
    BY <1>1 DEF Marked, Row, Status
  <1>2. CASE ~ok[s]
    BY <1>2 DEF Marked, Row, Status
  <1> QED BY <1>1, <1>2

(* Replacing one row of what a session holds. *)
LEMMA RowsType ==
    ASSUME NEW f \in [Sessions -> [Events -> Row]], NEW s \in Sessions,
           NEW e \in Events, NEW r \in Row
    PROVE  /\ [f EXCEPT ![s] = [f[s] EXCEPT ![e] = r]] \in [Sessions -> [Events -> Row]]
           /\ [f EXCEPT ![s] = [f[s] EXCEPT ![e] = r]][s][e] = r
  <1>1. [f[s] EXCEPT ![e] = r] \in [Events -> Row]
    OBVIOUS
  <1> QED BY <1>1

LEMMA AbsentRow ==
    /\ Absent \in Row /\ Absent.status # "sent" /\ Absent.retry = 0
    /\ Absent.status # "dead_letter" /\ NoRows \in [Events -> Row]
  BY DEF Absent, NoRows, Row, Status

(* Init is one of the states. *)
LEMMA InitInv == Init => IInv
  <1> SUFFICES ASSUME Init PROVE IInv
    OBVIOUS
  <1> USE OutboxAssumption DEF Init, NoRows, Absent, Row, Status
  <1>1. TypeOK
    BY DEF TypeOK
  <1>2. Shape
    BY DEF Shape
  <1>3. Left
    BY DEF Left
  <1>4. Once
    BY DEF Once, OnceOnly, Engaged, WillTell
  <1>5. Counted
    BY DEF Counted, Backed
  <1> QED BY <1>1, <1>2, <1>3, <1>4, <1>5 DEF IInv

-----------------------------------------------------------------------------

LEMMA PublishInv == ASSUME IInv, NEW e \in Events, Publish(e) PROVE IInv'
  <1> USE OutboxAssumption DEF IInv, Publish, session, bounds
  <1>1. TypeOK'
    <2>1. [status |-> "pending", retry |-> 0] \in Row
      BY DEF Row, Status
    <2>2. row' \in [Events -> Row]
      BY <2>1 DEF TypeOK
    <2>3. Cardinality({f \in Events : row[f] # Absent}) \in Nat
      BY FS_CardinalityType, FS_Subset
    <2>4. born' \in [Events -> Nat]
      BY <2>3 DEF TypeOK
    <2> QED BY <2>2, <2>4 DEF TypeOK
  <1>2. Shape'
    BY DEF Shape
  <1>3. \A f \in Events : row'[f].status = "sent" <=> row[f].status = "sent"
    BY DEF TypeOK, Absent
  <1>4. Left'
    BY <1>3 DEF Left
  <1>5. Once'
    BY <1>3 DEF Once, OnceOnly, Engaged, WillTell
  <1>6. \A f \in Events : row'[f] = row[f] \/ row'[f] = [status |-> "pending", retry |-> 0]
    BY DEF TypeOK
  <1>7. Counted'
    <2>1. \A f \in Events : Backed(f, row'[f])
      <3> TAKE f \in Events
      <3>1. refusals[f] \in Nat
        BY DEF TypeOK
      <3>2. CASE row'[f] = row[f]
        BY <3>2 DEF Counted, Backed
      <3>3. CASE row'[f] = [status |-> "pending", retry |-> 0]
        <4> HIDE DEF Publish, IInv
        <4> QED BY <3>1, <3>3 DEF Backed
      <3> QED BY <1>6, <3>2, <3>3
    <2>2. UNCHANGED <<mine, seen, cur, ok, refusals>>
      OBVIOUS
    <2> HIDE DEF Publish
    <2> QED BY <2>1, <2>2 DEF Counted, Backed
  <1> QED BY <1>1, <1>2, <1>4, <1>5, <1>7

LEMMA OpenDispatchInv == ASSUME IInv, NEW s \in Sessions, OpenDispatch(s) PROVE IInv'
  <1> USE OutboxAssumption DEF IInv, OpenDispatch
  <1>1. TypeOK'
    BY DEF TypeOK
  <1>2. Shape'
    BY DEF Shape, TypeOK
  <1>3. Left'
    BY DEF Left
  <1>4. Once'
    BY DEF Once, OnceOnly, Engaged, WillTell
  <1>5. Counted'
    BY DEF Counted, Backed
  <1> QED BY <1>1, <1>2, <1>3, <1>4, <1>5

LEMMA OpenReplayInv ==
    ASSUME IInv, NEW s \in Sessions, NEW e \in Events, OpenReplay(s, e) PROVE IInv'
  <1> USE OutboxAssumption DEF IInv, OpenReplay
  <1>1. TypeOK'
    BY DEF TypeOK
  <1>2. Shape'
    BY DEF Shape, TypeOK
  <1>3. Left'
    BY DEF Left
  <1>4. Once'
    BY DEF Once, OnceOnly, Engaged, WillTell
  <1>5. \A r \in Sessions, f \in Events :
            seen'[r][f] = seen[r][f] \/ (f = e /\ seen'[r][f] = row[e])
    BY DEF TypeOK
  <1>6. cur[s] # e
    BY DEF Shape
  <1>7. Counted'
    <2>1. \A r \in Sessions, f \in Events : cur[r] = f => seen'[r][f] = seen[r][f]
      BY <1>6 DEF TypeOK
    <2> QED BY <1>5, <2>1 DEF Counted, Backed
  <1> QED BY <1>1, <1>2, <1>3, <1>4, <1>7

LEMMA ResetInv == ASSUME IInv, NEW s \in Sessions, Reset(s) PROVE IInv'
  <1> DEFINE e == target[s]
             old == seen[s][e]
             new == [old EXCEPT !.status = "pending"]
  <1>1. e \in Events /\ pc[s] = "reset" /\ todo[s] = {} /\ cur[s] = NoEvent
    BY OutboxAssumption DEF Reset, IInv, Shape, TypeOK
  <1>2. old \in Row /\ row[e] \in Row
    BY <1>1 DEF IInv, TypeOK
  <1>3. /\ new \in Row /\ new.status = "pending" /\ new.retry = old.retry
        /\ new # old => old.status # "pending"
    BY <1>2 DEF Row, Status
  <1>4. /\ seen' = [seen EXCEPT ![s] = [seen[s] EXCEPT ![e] = new]]
        /\ pc' = [pc EXCEPT ![s] = "list"]
        /\ UNCHANGED <<row, born, target, todo, cur, ok, broker, memory, bounds, sends>>
        /\ \/ new = old /\ UNCHANGED <<lock, mine, excused>>
           \/ /\ new # old /\ lock[e] = Free
              /\ lock' = [lock EXCEPT ![e] = s]
              /\ mine' = [mine EXCEPT ![s] = [mine[s] EXCEPT ![e] = Merged(row[e], old, new)]]
              /\ excused' = excused \cup {e}
    BY DEF Reset
  <1>5. Merged(row[e], old, new) \in Row
    BY <1>2, <1>3, MergedType
  <1>6. new # old => Merged(row[e], old, new).status = "pending"
    BY <1>3 DEF Merged
  <1> HIDE DEF new, old
  <1>7. TypeOK'
    <2>1. seen' \in [Sessions -> [Events -> Row]]
      BY <1>1, <1>3, <1>4, RowsType DEF IInv, TypeOK
    <2>2. mine' \in [Sessions -> [Events -> Row]]
      <3>1. mine \in [Sessions -> [Events -> Row]]
        BY DEF IInv, TypeOK
      <3>2. [mine EXCEPT ![s] = [mine[s] EXCEPT ![e] = Merged(row[e], old, new)]]
                \in [Sessions -> [Events -> Row]]
        BY <1>1, <1>5, <3>1, RowsType
      <3> QED BY <1>4, <3>1, <3>2
    <2>3. lock' \in [Events -> Sessions \cup {Free}]
      BY <1>1, <1>4 DEF IInv, TypeOK
    <2>4. pc' \in [Sessions -> {"idle", "reset", "list", "send", "mark", "commit"}]
      BY <1>4 DEF IInv, TypeOK
    <2>5. excused' \subseteq Events
      BY <1>1, <1>4 DEF IInv, TypeOK
    <2> QED BY <1>4, <2>1, <2>2, <2>3, <2>4, <2>5 DEF IInv, TypeOK, bounds
  <1>8. Shape'
    BY <1>1, <1>3, <1>4 DEF IInv, Shape, TypeOK
  <1>9. \A f \in Events : f # e => lock'[f] = lock[f] /\ mine'[s][f] = mine[s][f]
    BY <1>1, <1>4 DEF IInv, TypeOK
  <1>10. Left'
    BY <1>1, <1>4, <1>6, <1>9 DEF IInv, Left, TypeOK
  <1>11. Once'
    <2>1. excused \subseteq excused' /\ (e \in excused' \/ (lock' = lock /\ mine' = mine))
      BY <1>4
    <2>2. \A r \in Sessions : r # s => mine'[r] = mine[r]
      BY <1>4 DEF IInv, TypeOK
    <2>3. UNCHANGED <<row, todo, cur, ok, sends>>
      BY <1>4
    <2> HIDE DEF e
    <2> QED BY <2>1, <2>2, <2>3, <1>9 DEF IInv, Once, OnceOnly, Engaged, WillTell
  <1>12. Counted'
    <2>1. Backed(e, row[e]) /\ old.retry <= refusals[e]
      BY <1>1 DEF IInv, Counted, old
    <2>2. Backed(e, Merged(row[e], old, new))
      BY <1>1, <1>3, <2>1, MergedBacked
    <2>3. \A r \in Sessions, f \in Events :
              /\ mine'[r][f] = mine[r][f] \/ (f = e /\ mine'[r][f] = Merged(row[e], old, new))
              /\ seen'[r][f] = seen[r][f] \/ (r = s /\ f = e /\ seen'[r][f] = new)
      BY <1>1, <1>4 DEF IInv, TypeOK
    <2>4. cur[s] # e /\ UNCHANGED <<row, refusals, cur, ok>>
      BY <1>1, <1>4, OutboxAssumption DEF bounds
    <2> QED BY <1>3, <2>1, <2>2, <2>3, <2>4 DEF IInv, Counted, Backed
  <1> QED BY <1>7, <1>8, <1>10, <1>11, <1>12 DEF IInv

LEMMA ListInv == ASSUME IInv, NEW s \in Sessions, List(s) PROVE IInv'
  <1>1. PICK S \in SUBSET {e \in Events : Open(View(s)[e])} :
          /\ todo' = [todo EXCEPT ![s] = S]
          /\ seen' = [seen EXCEPT ![s] = [e \in Events |->
                 IF e \notin S THEN Absent
                 ELSE IF e = target[s] THEN seen[s][e] ELSE View(s)[e]]]
          /\ excused' = excused \cup (S \cap UNION {Engaged(r) : r \in Sessions \ {s}})
          /\ pc' = [pc EXCEPT ![s] = IF S = {} THEN "commit" ELSE "send"]
    BY DEF List
  <1>2. /\ pc[s] = "list" /\ todo[s] = {} /\ cur[s] = NoEvent
        /\ \A e \in Events : lock[e] = s => e \in excused
        /\ target[s] # NoEvent => seen[s][target[s]].status = "pending"
    BY DEF List, IInv, Shape
  <1>3. UNCHANGED <<row, born, lock, mine, target, cur, ok, broker, memory, bounds, sends>>
    BY DEF List
  <1>4. S \subseteq Events /\ \A e \in S : View(s)[e].status # "sent"
    BY DEF Open
  <1>5. TypeOK'
    <2>1. [e \in Events |-> IF e \notin S THEN Absent
             ELSE IF e = target[s] THEN seen[s][e] ELSE View(s)[e]] \in [Events -> Row]
      BY ViewType, AbsentRow DEF IInv, TypeOK
    <2>2. seen' \in [Sessions -> [Events -> Row]]
      BY <1>1, <2>1 DEF IInv, TypeOK
    <2>3. todo' \in [Sessions -> SUBSET Events] /\ excused' \subseteq Events
      BY <1>1, <1>4 DEF IInv, TypeOK
    <2>4. pc' \in [Sessions -> {"idle", "reset", "list", "send", "mark", "commit"}]
      BY <1>1 DEF IInv, TypeOK
    <2> QED BY <1>3, <2>2, <2>3, <2>4 DEF IInv, TypeOK, bounds
  <1>6. Shape'
    <2>1. \A e \in S : seen'[s][e].status # "sent"
      BY <1>1, <1>2, <1>4, OutboxAssumption DEF IInv, TypeOK
    <2>2. \A r \in Sessions : r # s => pc'[r] = pc[r] /\ todo'[r] = todo[r] /\ seen'[r] = seen[r]
      BY <1>1 DEF IInv, TypeOK
    <2>3. pc'[s] \in {"send", "commit"} /\ todo'[s] = S
      BY <1>1 DEF IInv, TypeOK
    <2>4. excused \subseteq excused'
      BY <1>1
    <2> QED BY <1>2, <1>3, <1>4, <2>1, <2>2, <2>3, <2>4, OutboxAssumption DEF IInv, Shape
  <1>7. Left'
    BY <1>3 DEF IInv, Left
  <1>8. Once'
    <2>1. ASSUME NEW e \in Events \ excused', e \in S
          PROVE  sends[e] = 0 /\ lock[e] = Free /\ \A r \in Sessions : e \notin Engaged(r)
      <3>1. e \notin excused /\ \A r \in Sessions : e \notin Engaged(r)
        BY <1>1, <1>2, <2>1, OutboxAssumption DEF Engaged
      <3>2. lock[e] = Free
        BY <3>1 DEF Engaged, IInv, TypeOK
      <3>3. row[e].status # "sent"
        BY <1>4, <2>1, <3>2, OutboxAssumption DEF View
      <3>4. \A r \in Sessions : ~WillTell(r, e)
        BY <3>1 DEF WillTell, Engaged
      <3>5. sends[e] <= 1 /\ sends[e] \in Nat /\ sends[e] # 1
        BY <3>1, <3>3, <3>4 DEF IInv, Once, OnceOnly, TypeOK
      <3> QED BY <3>1, <3>2, <3>5
    <2>2. ASSUME NEW e \in Events, NEW r \in Sessions
          PROVE  /\ e \in todo'[r] <=> e \in todo[r] \/ (r = s /\ e \in S)
                 /\ e \in Engaged(r)' <=> e \in Engaged(r) \/ (r = s /\ e \in S)
      BY <1>1, <1>2, <1>3 DEF Engaged, IInv, TypeOK
    <2>3. \A e \in Events, r \in Sessions : WillTell(r, e)' <=> WillTell(r, e)
      BY <1>3 DEF WillTell
    <2>4. excused \subseteq excused'
      BY <1>1
    <2>5. ASSUME NEW e \in Events \ excused', e \notin S
          PROVE  \A r \in Sessions : /\ e \in todo'[r] <=> e \in todo[r]
                                     /\ e \in Engaged(r)' <=> e \in Engaged(r)
      BY <2>2, <2>5
    <2>6. ASSUME NEW e \in Events \ excused', e \in S
          PROVE  \A r \in Sessions : e \in Engaged(r)' => r = s
      BY <2>1, <2>2, <2>6
    <2>7. ASSUME NEW e \in Events \ excused', e \in S
          PROVE  \A r \in Sessions : cur[r] # e
      BY <2>1, <2>7 DEF Engaged
    <2>8. ASSUME NEW e \in Events \ excused', e \in S
          PROVE  row[e].status # "sent"
      BY <1>4, <2>1, <2>8, OutboxAssumption DEF View
    <2> QED BY <1>3, <2>1, <2>3, <2>4, <2>5, <2>6, <2>7, <2>8 DEF IInv, Once, OnceOnly
  <1>9. Counted'
    <2>1. \A e \in Events : View(s)[e].retry <= refusals[e] /\ 0 <= refusals[e]
      BY DEF View, IInv, Counted, Backed, TypeOK
    <2>2. \A e \in Events : seen'[s][e] \in {Absent, seen[s][e], View(s)[e]}
      BY <1>1 DEF IInv, TypeOK
    <2>3. \A r \in Sessions : r # s => seen'[r] = seen[r]
      BY <1>1 DEF IInv, TypeOK
    <2>4. UNCHANGED <<row, mine, refusals, cur, ok>> /\ \A e \in Events : cur[s] # e
      BY <1>2, <1>3, OutboxAssumption DEF bounds
    <2>5. \A e \in Events : seen'[s][e].retry <= refusals[e]
      BY <2>1, <2>2, AbsentRow DEF IInv, Counted
    <2> QED BY <2>3, <2>4, <2>5 DEF IInv, Counted, Backed
  <1> QED BY <1>5, <1>6, <1>7, <1>8, <1>9 DEF IInv

LEMMA SendInv == ASSUME IInv, NEW s \in Sessions, NEW e \in Events, Send(s, e) PROVE IInv'
  <1>1. PICK to \in {"broker", "memory", "both", "nowhere"} :
          /\ refusals' = IF to = "nowhere" THEN [refusals EXCEPT ![e] = @ + 1] ELSE refusals
          /\ broker' = IF to \in {"broker", "both"} THEN broker \cup {e} ELSE broker
          /\ memory' = IF to \in {"memory", "both"} /\ s \notin Scripts
                       THEN memory \cup {e} ELSE memory
          /\ sends' = IF to = "nowhere" THEN sends ELSE [sends EXCEPT ![e] = @ + 1]
          /\ ok' = [ok EXCEPT ![s] = to # "nowhere"]
    BY DEF Send
  <1>2. /\ pc[s] = "send" /\ e \in todo[s] /\ cur[s] = NoEvent /\ NoEvent # e
        /\ seen[s][e].status # "sent"
    BY OutboxAssumption DEF Send, IInv, Shape
  <1>3. /\ todo' = [todo EXCEPT ![s] = @ \ {e}]
        /\ cur' = [cur EXCEPT ![s] = e]
        /\ pc' = [pc EXCEPT ![s] = "mark"]
        /\ UNCHANGED <<row, born, lock, mine, target, seen, requests,
                       crashes, excused>>
    BY DEF Send
  <1>4. /\ sends' \in [Events -> Nat]
        /\ \A f \in Events : sends'[f] >= sends[f] /\ (f # e => sends'[f] = sends[f])
        /\ sends'[e] = IF ok'[s] THEN sends[e] + 1 ELSE sends[e]
    <2>1. ok'[s] = (to # "nowhere")
      BY <1>1 DEF IInv, TypeOK
    <2>2. sends \in [Events -> Nat]
      BY DEF IInv, TypeOK
    <2>3. CASE to = "nowhere"
      <3>1. sends' = sends /\ ~ok'[s]
        BY <1>1, <2>1, <2>3
      <3> QED BY <2>2, <3>1
    <2>4. CASE to # "nowhere"
      <3>1. sends' = [sends EXCEPT ![e] = sends[e] + 1] /\ ok'[s]
        BY <1>1, <2>1, <2>4
      <3> QED BY <2>2, <3>1
    <2> QED BY <2>3, <2>4
  <1>5. /\ \A r \in Sessions : r # s => /\ ok'[r] = ok[r] /\ cur'[r] = cur[r]
                                        /\ todo'[r] = todo[r] /\ pc'[r] = pc[r]
        /\ cur'[s] = e /\ todo'[s] = todo[s] \ {e} /\ pc'[s] = "mark"
    BY <1>1, <1>3 DEF IInv, TypeOK
  <1>6. TypeOK'
    <2>1. refusals' \in [Events -> Nat] /\ broker' \subseteq Events /\ memory' \subseteq Events
      BY <1>1 DEF IInv, TypeOK
    <2>2. ok' \in [Sessions -> BOOLEAN]
      BY <1>1 DEF IInv, TypeOK
    <2>3. /\ todo' \in [Sessions -> SUBSET Events] /\ cur' \in [Sessions -> Events \cup {NoEvent}]
          /\ pc' \in [Sessions -> {"idle", "reset", "list", "send", "mark", "commit"}]
      BY <1>3 DEF IInv, TypeOK
    <2> QED BY <1>3, <1>4, <2>1, <2>2, <2>3 DEF IInv, TypeOK
  <1>7. Shape'
    BY <1>2, <1>3, <1>5 DEF IInv, Shape
  <1>8. Left'
    <2>1. ok'[s] => sends'[e] > 0
      BY <1>4 DEF IInv, TypeOK
    <2>2. \A f \in Events : sends[f] > 0 => sends'[f] > 0
      BY <1>4 DEF IInv, TypeOK
    <2> QED BY <1>3, <1>5, <2>1, <2>2 DEF IInv, Left
  <1>9. Once'
    <2>1. ASSUME NEW f \in Events, NEW r \in Sessions
          PROVE  /\ f \in Engaged(r)' <=> f \in Engaged(r)
                 /\ f # e => WillTell(r, f)' <=> WillTell(r, f)
                 /\ f # e => (cur'[r] = f <=> cur[r] = f) /\ (f \in todo'[r] <=> f \in todo[r])
      <3>1. cur[s] # f
        BY <1>2, OutboxAssumption
      <3> QED BY <1>2, <1>3, <1>5, <3>1 DEF Engaged, WillTell
    <2>2. ASSUME NEW f \in Events \ excused, f # e
          PROVE  OnceOnly(f)'
      <3>1. OnceOnly(f)
        BY DEF IInv, Once
      <3>2. /\ sends'[f] = sends[f] /\ lock'[f] = lock[f] /\ row'[f] = row[f]
        BY <1>3, <1>4, <2>2
      <3> QED BY <2>1, <2>2, <3>1, <3>2 DEF OnceOnly
    <2>3. CASE e \notin excused
      <3>1. sends[e] = 0 /\ lock[e] = Free /\ row[e].status # "sent"
        BY <1>2, <2>3 DEF IInv, Once, OnceOnly, Engaged
      <3>2. sends'[e] <= 1 /\ (sends'[e] = 1 => WillTell(s, e)')
        BY <1>4, <1>5, <3>1 DEF WillTell
      <3>3. \A r \in Sessions : e \notin todo'[r]
        BY <1>2, <1>5, <2>3 DEF IInv, Once, OnceOnly, Engaged
      <3>4. \A r, q \in Sessions : e \in Engaged(r) /\ e \in Engaged(q) => r = q
        BY <2>3 DEF IInv, Once, OnceOnly
      <3>5. OnceOnly(e)'
        BY <1>3, <2>1, <3>1, <3>2, <3>3, <3>4 DEF OnceOnly
      <3> QED BY <1>3, <2>2, <3>5 DEF Once
    <2>4. CASE e \in excused
      BY <1>3, <2>2, <2>4 DEF Once
    <2> QED BY <2>3, <2>4
  <1>10. Counted'
    <2>1. /\ refusals \in [Events -> Nat] /\ row \in [Events -> Row]
          /\ mine \in [Sessions -> [Events -> Row]] /\ seen \in [Sessions -> [Events -> Row]]
      BY DEF IInv, TypeOK
    <2>2. /\ refusals' \in [Events -> Nat]
          /\ \A f \in Events : refusals'[f] >= refusals[f]
          /\ ~ok'[s] => refusals'[e] = refusals[e] + 1
      <3>1. ok'[s] = (to # "nowhere")
        BY <1>1 DEF IInv, TypeOK
      <3>2. CASE to = "nowhere"
        <4>1. refusals' = [refusals EXCEPT ![e] = refusals[e] + 1]
          BY <1>1, <3>2
        <4>2. \A f \in Events : refusals[f] \in Nat
          BY <2>1
        <4> QED BY <2>1, <4>1, <4>2
      <3>3. CASE to # "nowhere"
        <4>1. refusals' = refusals /\ ok'[s]
          BY <1>1, <3>1, <3>3
        <4>2. \A f \in Events : refusals[f] \in Nat
          BY <2>1
        <4> QED BY <2>1, <4>1, <4>2
      <3> QED BY <3>2, <3>3
    <2>3. \A f \in Events, x \in Row : x.retry \in Nat /\ (Backed(f, x) => Backed(f, x)')
      BY <2>1, <2>2, OutboxAssumption DEF Backed, Row
    <2>4. \A f \in Events : Backed(f, row[f])' /\ \A r \in Sessions : Backed(f, mine[r][f])'
      BY <1>3, <2>1, <2>3 DEF IInv, Counted, Backed
    <2>5. \A f \in Events, r \in Sessions : seen[r][f].retry <= refusals'[f]
      BY <2>1, <2>2, <2>3 DEF IInv, Counted
    <2>6. \A f \in Events, r \in Sessions : cur'[r] = f /\ ~ok'[r] => seen[r][f].retry < refusals'[f]
      <3> SUFFICES ASSUME NEW f \in Events, NEW r \in Sessions, cur'[r] = f, ~ok'[r]
                   PROVE  seen[r][f].retry < refusals'[f]
        OBVIOUS
      <3>1. seen[r][f].retry \in Nat /\ refusals[f] \in Nat /\ seen[r][f].retry <= refusals[f]
        BY <2>1, <2>3 DEF IInv, Counted, TypeOK
      <3>2. CASE r = s
        BY <1>5, <2>2, <3>1, <3>2
      <3>3. CASE r # s
        <4>1. seen[r][f].retry < refusals[f]
          BY <1>5, <3>3 DEF IInv, Counted
        <4> QED BY <2>2, <3>1, <4>1
      <3> QED BY <3>2, <3>3
    <2> QED BY <1>3, <2>4, <2>5, <2>6 DEF Counted
  <1> QED BY <1>6, <1>7, <1>8, <1>9, <1>10 DEF IInv

LEMMA MarkInv == ASSUME IInv, NEW s \in Sessions, Mark(s) PROVE IInv'
  <1>1. PICK e \in Events : e = cur[s]
    BY DEF Mark, IInv, Shape, TypeOK
  <1> DEFINE old == seen[s][e]
             new == Merged(View(s)[e], old, Marked(s, old))
  <1>2. /\ pc[s] = "mark" /\ old.status # "sent"
        /\ e \notin excused => e \notin todo[s]
    BY <1>1 DEF Mark, IInv, Shape, Once, OnceOnly
  <1>3. old \in Row /\ View(s)[e] \in Row
    BY <1>1, ViewType DEF IInv, TypeOK
  <1>4. new \in Row
    BY <1>3, MarkedType, MergedType
  <1>5. /\ lock[e] \in {Free, s}
        /\ lock' = [lock EXCEPT ![e] = s]
        /\ mine' = [mine EXCEPT ![s] = [mine[s] EXCEPT ![e] = new]]
        /\ seen' = [seen EXCEPT ![s] = [seen[s] EXCEPT ![e] = Absent]]
        /\ cur' = [cur EXCEPT ![s] = NoEvent]
        /\ ok' = [ok EXCEPT ![s] = FALSE]
        /\ pc' = [pc EXCEPT ![s] = IF todo[s] = {} THEN "commit" ELSE "send"]
        /\ UNCHANGED <<row, born, target, todo, broker, memory, bounds, sends, excused>>
    BY <1>1 DEF Mark
  <1>6. ok[s] => new.status = "sent"
    BY <1>2, <1>3, MarkedType DEF Merged
  <1>7. new.status = "sent" => ok[s] \/ View(s)[e].status = "sent"
    BY <1>2, <1>3, MarkedType DEF Merged
  <1>8. Backed(e, View(s)[e]) /\ Backed(e, new)
    <2>1. Backed(e, View(s)[e]) /\ old.retry <= refusals[e] /\ refusals[e] \in Nat
      BY <1>1 DEF View, IInv, Counted, TypeOK
    <2>2. ~ok[s] => old.retry < refusals[e]
      BY <1>1 DEF IInv, Counted
    <2>3. /\ Marked(s, old).retry <= refusals[e]
          /\ Marked(s, old).status = "dead_letter" => refusals[e] > MaxRetries
      BY <1>3, <2>1, <2>2, MarkedBacked
    <2> QED BY <2>1, <2>3, MergedBacked
  <1> HIDE DEF new, old
  <1>9. TypeOK'
    <2>1. mine' \in [Sessions -> [Events -> Row]]
      <3>1. mine \in [Sessions -> [Events -> Row]]
        BY DEF IInv, TypeOK
      <3>2. [mine EXCEPT ![s] = [mine[s] EXCEPT ![e] = new]] \in [Sessions -> [Events -> Row]]
        BY <1>1, <1>4, <3>1, RowsType
      <3> QED BY <1>5, <3>2
    <2>2. seen' \in [Sessions -> [Events -> Row]]
      <3>1. seen \in [Sessions -> [Events -> Row]]
        BY DEF IInv, TypeOK
      <3>2. [seen EXCEPT ![s] = [seen[s] EXCEPT ![e] = Absent]] \in [Sessions -> [Events -> Row]]
        BY <1>1, <3>1, RowsType, AbsentRow
      <3> QED BY <1>5, <3>2
    <2>3. lock' \in [Events -> Sessions \cup {Free}] /\ cur' \in [Sessions -> Events \cup {NoEvent}]
      BY <1>1, <1>5 DEF IInv, TypeOK
    <2>4. /\ ok' \in [Sessions -> BOOLEAN]
          /\ pc' \in [Sessions -> {"idle", "reset", "list", "send", "mark", "commit"}]
      BY <1>5 DEF IInv, TypeOK
    <2> QED BY <1>5, <2>1, <2>2, <2>3, <2>4 DEF IInv, TypeOK, bounds
  <1>10. /\ lock'[e] = s /\ mine'[s][e] = new /\ cur'[s] = NoEvent /\ ok'[s] = FALSE
         /\ seen'[s][e] = Absent /\ pc'[s] \in {"send", "commit"}
         /\ \A f \in Events : f # e => /\ lock'[f] = lock[f] /\ mine'[s][f] = mine[s][f]
                                       /\ seen'[s][f] = seen[s][f]
         /\ \A r \in Sessions : r # s => /\ cur'[r] = cur[r] /\ ok'[r] = ok[r] /\ pc'[r] = pc[r]
                                         /\ mine'[r] = mine[r] /\ seen'[r] = seen[r]
    BY <1>1, <1>5 DEF IInv, TypeOK
  <1>11. Shape'
    BY <1>1, <1>2, <1>5, <1>10, AbsentRow, OutboxAssumption DEF IInv, Shape
  <1>12. Left'
    <2>1. ok[s] \/ View(s)[e].status = "sent" => sends[e] > 0
      BY <1>1 DEF View, IInv, Left
    <2> QED BY <1>1, <1>5, <1>7, <1>10, <2>1 DEF IInv, Left
  <1>13. Once'
    <2>1. ASSUME NEW f \in Events, f # e
          PROVE  \A r \in Sessions : /\ f \in Engaged(r)' <=> f \in Engaged(r)
                                     /\ WillTell(r, f)' <=> WillTell(r, f)
                                     /\ cur'[r] = f <=> cur[r] = f
      <3>1. f # NoEvent /\ cur[s] # f
        BY <1>1, <2>1, OutboxAssumption
      <3> QED BY <1>5, <1>10, <2>1, <3>1 DEF Engaged, WillTell
    <2>2. ASSUME NEW f \in Events \ excused, f # e
          PROVE  OnceOnly(f)'
      <3>1. OnceOnly(f)
        BY DEF IInv, Once
      <3> QED BY <1>5, <1>10, <2>1, <2>2, <3>1 DEF OnceOnly
    <2>3. ASSUME e \notin excused
          PROVE  OnceOnly(e)'
      <3>1. OnceOnly(e)
        BY <1>1, <2>3 DEF IInv, Once
      <3>2. /\ e \in Engaged(s) /\ lock[e] = Free /\ e \notin todo[s] /\ e # NoEvent
            /\ \A r \in Sessions : r # s => e \notin Engaged(r)
        BY <1>1, <1>2, <2>3, <3>1, OutboxAssumption DEF OnceOnly, Engaged
      <3>3. \A r \in Sessions : e \in Engaged(r)' <=> r = s
        BY <1>1, <1>5, <1>10, <3>2 DEF Engaged
      <3>4. \A r \in Sessions : e \notin todo'[r] /\ cur'[r] # e
        BY <1>5, <1>10, <3>2 DEF Engaged
      <3>5. row[e].status # "sent"
        BY <3>1, <3>2 DEF OnceOnly
      <3>6. sends[e] = 1 => WillTell(s, e)
        BY <3>1, <3>2, <3>5 DEF OnceOnly, WillTell, Engaged
      <3>7. sends[e] = 1 => ok[s]
        BY <3>2, <3>6, OutboxAssumption DEF WillTell
      <3>8. sends[e] = 1 => WillTell(s, e)'
        BY <1>6, <1>10, <3>7 DEF WillTell
      <3> QED BY <1>5, <3>1, <3>3, <3>4, <3>5, <3>8 DEF OnceOnly
    <2> QED BY <1>5, <2>2, <2>3 DEF Once
  <1>14. Counted'
    <2>1. \A r \in Sessions, f \in Events :
              /\ mine'[r][f] = mine[r][f] \/ (f = e /\ mine'[r][f] = new)
              /\ seen'[r][f] = seen[r][f] \/ seen'[r][f] = Absent
      BY <1>5 DEF IInv, TypeOK
    <2>2. \A r \in Sessions, f \in Events :
              cur'[r] = f /\ ~ok'[r] => cur[r] = f /\ ~ok[r] /\ seen'[r] = seen[r]
      <3> SUFFICES ASSUME NEW r \in Sessions, NEW f \in Events, cur'[r] = f, ~ok'[r]
                   PROVE  cur[r] = f /\ ~ok[r] /\ seen'[r] = seen[r]
        OBVIOUS
      <3>1. r # s
        BY <1>10, OutboxAssumption
      <3> QED BY <1>10, <3>1
    <2>3. UNCHANGED <<row, refusals>> /\ \A f \in Events : 0 <= refusals[f]
      BY <1>5 DEF bounds, IInv, TypeOK
    <2> QED BY <1>8, <2>1, <2>2, <2>3, AbsentRow DEF IInv, Counted, Backed
  <1> QED BY <1>9, <1>11, <1>12, <1>13, <1>14 DEF IInv

-----------------------------------------------------------------------------

(* What the end of requests leaves: no trace of them, the others as they   *)
(* were.                                                                   *)
LEMMA EndType ==
    ASSUME TypeOK, NEW S \in SUBSET Sessions, End(S)
    PROVE  /\ lock' \in [Events -> Sessions \cup {Free}]
           /\ mine' \in [Sessions -> [Events -> Row]]
           /\ pc' \in [Sessions -> {"idle", "reset", "list", "send", "mark", "commit"}]
           /\ target' \in [Sessions -> Events \cup {NoEvent}]
           /\ todo' \in [Sessions -> SUBSET Events]
           /\ cur' \in [Sessions -> Events \cup {NoEvent}]
           /\ ok' \in [Sessions -> BOOLEAN]
           /\ seen' \in [Sessions -> [Events -> Row]]
  <1>1. /\ lock' \in [Events -> Sessions \cup {Free}]
        /\ pc' \in [Sessions -> {"idle", "reset", "list", "send", "mark", "commit"}]
    BY DEF End, TypeOK
  <1>2. /\ target' \in [Sessions -> Events \cup {NoEvent}]
        /\ todo' \in [Sessions -> SUBSET Events]
        /\ cur' \in [Sessions -> Events \cup {NoEvent}]
        /\ ok' \in [Sessions -> BOOLEAN]
    BY DEF End, TypeOK
  <1>3. mine' \in [Sessions -> [Events -> Row]] /\ seen' \in [Sessions -> [Events -> Row]]
    BY AbsentRow DEF End, TypeOK
  <1> QED BY <1>1, <1>2, <1>3

LEMMA EndLeaves ==
    ASSUME TypeOK, NEW S \in SUBSET Sessions, End(S)
    PROVE  /\ \A s \in S : /\ pc'[s] = "idle" /\ target'[s] = NoEvent /\ todo'[s] = {}
                           /\ cur'[s] = NoEvent /\ ~ok'[s] /\ \A e \in Events : lock'[e] # s
           /\ \A s \in Sessions \ S :
                 /\ pc'[s] = pc[s] /\ target'[s] = target[s] /\ todo'[s] = todo[s]
                 /\ cur'[s] = cur[s] /\ ok'[s] = ok[s]
                 /\ mine'[s] = mine[s] /\ seen'[s] = seen[s]
                 /\ \A e \in Events : lock'[e] = s <=> lock[e] = s
           /\ \A e \in Events : lock[e] \notin S => lock'[e] = lock[e]
  BY OutboxAssumption DEF End, TypeOK

LEMMA EndShape ==
    ASSUME TypeOK, Shape, NEW S \in SUBSET Sessions, End(S), excused \subseteq excused'
    PROVE  Shape'
  <1>1. \A s \in S : /\ pc'[s] = "idle" /\ target'[s] = NoEvent /\ todo'[s] = {}
                     /\ cur'[s] = NoEvent /\ \A e \in Events : lock'[e] # s
    BY EndLeaves
  <1>2. \A s \in Sessions \ S :
           /\ pc'[s] = pc[s] /\ target'[s] = target[s] /\ todo'[s] = todo[s]
           /\ cur'[s] = cur[s] /\ seen'[s] = seen[s]
           /\ \A e \in Events : lock'[e] = s <=> lock[e] = s
    BY EndLeaves
  <1> QED BY <1>1, <1>2, OutboxAssumption DEF Shape

LEMMA EndCounted ==
    ASSUME TypeOK, Counted, NEW S \in SUBSET Sessions, End(S), UNCHANGED refusals,
           \A e \in Events : Backed(e, row'[e])
    PROVE  Counted'
  <1>1. \A s \in Sessions, e \in Events :
            /\ mine'[s][e] = mine[s][e] \/ mine'[s][e] = Absent
            /\ seen'[s][e] = seen[s][e] \/ seen'[s][e] = Absent
    BY DEF End, NoRows
  <1>2. \A s \in Sessions, e \in Events :
            cur'[s] = e => cur[s] = e /\ ok'[s] = ok[s] /\ seen'[s] = seen[s]
    BY OutboxAssumption DEF End
  <1>3. \A e \in Events : refusals[e] \in Nat
    BY DEF TypeOK
  <1> QED BY <1>1, <1>2, <1>3, AbsentRow DEF Counted, Backed

LEMMA CommitInv == ASSUME IInv, NEW s \in Sessions, Commit(s) PROVE IInv'
  <1>1. /\ pc[s] = "commit" /\ row' = View(s) /\ End({s})
        /\ UNCHANGED <<born, broker, memory, bounds, sends, excused>>
    BY DEF Commit
  <1>2. TypeOK /\ {s} \in SUBSET Sessions /\ cur[s] = NoEvent
    BY <1>1 DEF IInv, Shape
  <1>3. TypeOK'
    BY <1>1, <1>2, EndType, ViewType DEF TypeOK, bounds
  <1>4. Shape'
    BY <1>1, <1>2, EndShape DEF IInv
  <1>5. \A e \in Events : row'[e] = IF lock[e] = s THEN mine[s][e] ELSE row[e]
    BY <1>1 DEF View
  <1>6. /\ todo'[s] = {} /\ cur'[s] = NoEvent /\ ~ok'[s] /\ \A e \in Events : lock'[e] # s
        /\ \A r \in Sessions : r # s =>
              /\ todo'[r] = todo[r] /\ cur'[r] = cur[r] /\ ok'[r] = ok[r] /\ mine'[r] = mine[r]
              /\ \A e \in Events : lock'[e] = r <=> lock[e] = r
        /\ \A e \in Events : lock[e] # s => lock'[e] = lock[e]
    BY <1>1, <1>2, EndLeaves
  <1>7. Left'
    <2>1. \A e \in Events : row'[e].status = "sent" => sends[e] > 0
      BY <1>5 DEF IInv, Left
    <2> QED BY <1>1, <1>6, <2>1, OutboxAssumption DEF IInv, Left
  <1>8. Once'
    <2> SUFFICES ASSUME NEW e \in Events \ excused PROVE OnceOnly(e)'
      BY <1>1 DEF Once
    <2>1. OnceOnly(e) /\ e # NoEvent
      BY OutboxAssumption DEF IInv, Once
    <2>2. \A r \in Sessions : e \in Engaged(r)' <=> r # s /\ e \in Engaged(r)
      BY <1>6, <2>1 DEF Engaged
    <2>3. \A r \in Sessions : /\ e \in todo'[r] => r # s /\ e \in todo[r]
                              /\ cur'[r] = e => r # s /\ cur[r] = e
      BY <1>6, <2>1
    <2>4. CASE lock[e] = s
      <3>1. \A r \in Sessions : e \notin Engaged(r)'
        BY <2>1, <2>2, <2>4 DEF OnceOnly, Engaged
      <3>2. \A r \in Sessions : e \notin todo'[r] /\ cur'[r] # e
        BY <3>1 DEF Engaged
      <3>3. row[e].status # "sent"
        BY <2>1, <2>4 DEF OnceOnly, Engaged
      <3>4. sends[e] = 1 => \E r \in Sessions : WillTell(r, e)
        BY <2>1, <3>3 DEF OnceOnly
      <3>5. \A r \in Sessions : WillTell(r, e) => e \in Engaged(r)
        BY DEF WillTell, Engaged
      <3>6. \A r \in Sessions : e \in Engaged(r) => r = s
        BY <2>1, <2>4 DEF OnceOnly, Engaged
      <3>7. sends[e] = 1 => row'[e].status = "sent"
        BY <1>2, <1>5, <2>1, <2>4, <3>4, <3>5, <3>6 DEF WillTell
      <3> QED BY <1>1, <2>1, <3>1, <3>2, <3>7 DEF OnceOnly
    <2>5. CASE lock[e] # s
      <3>1. row'[e] = row[e] /\ lock'[e] = lock[e]
        BY <1>5, <1>6, <2>5
      <3>2. \A r \in Sessions : WillTell(r, e) => WillTell(r, e)'
        BY <1>2, <1>6, <2>1, <2>5 DEF WillTell
      <3>3. sends'[e] = 1 /\ row'[e].status # "sent" => \E r \in Sessions : WillTell(r, e)'
        BY <1>1, <2>1, <3>1, <3>2 DEF OnceOnly
      <3>4. row'[e].status = "sent" => \A r \in Sessions : e \notin Engaged(r)'
        BY <2>1, <2>2, <3>1 DEF OnceOnly
      <3>5. \A r, q \in Sessions : e \in Engaged(r)' /\ e \in Engaged(q)' => r = q
        BY <2>1, <2>2 DEF OnceOnly
      <3>6. \A r \in Sessions : e \in todo'[r] => sends'[e] = 0 /\ lock'[e] = Free /\ cur'[r] # e
        BY <1>1, <2>1, <2>3, <3>1 DEF OnceOnly
      <3>7. sends'[e] <= 1 /\ \A r \in Sessions : cur'[r] = e => lock'[e] = Free
        BY <1>1, <2>1, <2>3, <3>1 DEF OnceOnly
      <3> QED BY <3>3, <3>4, <3>5, <3>6, <3>7 DEF OnceOnly
    <2> QED BY <2>4, <2>5
  <1>9. Counted'
    <2>1. \A e \in Events : Backed(e, row'[e])
      BY <1>5 DEF IInv, Counted
    <2> QED BY <1>1, <1>2, <2>1, EndCounted DEF IInv, bounds
  <1> QED BY <1>3, <1>4, <1>7, <1>8, <1>9 DEF IInv

LEMMA RollbackInv ==
    ASSUME IInv, NEW S \in SUBSET Sessions, Rollback(S), memory' \subseteq Events, crashes' \in Nat
    PROVE  IInv'
  <1>1. /\ excused' = excused \cup UNION {Sent(s) : s \in S} /\ End(S) /\ TypeOK
        /\ UNCHANGED <<row, born, broker, requests, refusals, sends>>
    BY DEF Rollback, IInv
  <1>2. TypeOK'
    <2>1. excused' \subseteq Events
      BY <1>1 DEF Sent, TypeOK
    <2> QED BY <1>1, <2>1, EndType DEF TypeOK
  <1>3. Shape'
    BY <1>1, EndShape DEF IInv
  <1>4. /\ \A s \in S : /\ todo'[s] = {} /\ cur'[s] = NoEvent /\ ~ok'[s]
                        /\ \A e \in Events : lock'[e] # s
        /\ \A s \in Sessions \ S :
              /\ todo'[s] = todo[s] /\ cur'[s] = cur[s] /\ ok'[s] = ok[s] /\ mine'[s] = mine[s]
              /\ \A e \in Events : lock'[e] = s <=> lock[e] = s
        /\ \A e \in Events : lock[e] \notin S => lock'[e] = lock[e]
    BY <1>1, EndLeaves
  <1>5. Left'
    BY <1>1, <1>4, OutboxAssumption DEF IInv, Left
  <1>6. Once'
    <2> SUFFICES ASSUME NEW e \in Events \ excused' PROVE OnceOnly(e)'
      BY DEF Once
    <2>1. OnceOnly(e) /\ e # NoEvent
      BY <1>1, OutboxAssumption DEF IInv, Once
    <2>2. \A s \in S : cur[s] # e /\ lock[e] # s
      BY <1>1 DEF Sent
    <2>3. lock'[e] = lock[e]
      BY <1>4, <2>2
    <2>4. \A r \in Sessions : /\ e \in Engaged(r)' => e \in Engaged(r)
                              /\ e \in todo'[r] => e \in todo[r]
                              /\ cur'[r] = e => cur[r] = e
      BY <1>4, <2>1, <2>3 DEF Engaged
    <2>5. \A r \in Sessions : WillTell(r, e) => WillTell(r, e)'
      BY <1>4, <2>1, <2>2, <2>3 DEF WillTell
    <2>6. sends'[e] = 1 /\ row'[e].status # "sent" => \E r \in Sessions : WillTell(r, e)'
      BY <1>1, <2>1, <2>5 DEF OnceOnly
    <2>7. row'[e].status = "sent" => \A r \in Sessions : e \notin Engaged(r)'
      BY <1>1, <2>1, <2>4 DEF OnceOnly
    <2>8. \A r, q \in Sessions : e \in Engaged(r)' /\ e \in Engaged(q)' => r = q
      BY <2>1, <2>4 DEF OnceOnly
    <2>9. \A r \in Sessions : e \in todo'[r] => sends'[e] = 0 /\ lock'[e] = Free /\ cur'[r] # e
      BY <1>1, <2>1, <2>3, <2>4 DEF OnceOnly
    <2>10. sends'[e] <= 1 /\ \A r \in Sessions : cur'[r] = e => lock'[e] = Free
      BY <1>1, <2>1, <2>3, <2>4 DEF OnceOnly
    <2> QED BY <2>6, <2>7, <2>8, <2>9, <2>10 DEF OnceOnly
  <1>7. Counted'
    <2>1. \A e \in Events : Backed(e, row'[e])
      BY <1>1 DEF IInv, Counted
    <2> QED BY <1>1, <2>1, EndCounted DEF IInv
  <1> QED BY <1>2, <1>3, <1>5, <1>6, <1>7 DEF IInv

-----------------------------------------------------------------------------

LEMMA StepInv == ASSUME IInv, Next PROVE IInv'
  <1>1. ASSUME NEW e \in Events, Publish(e) PROVE IInv'
    BY <1>1, PublishInv
  <1>2. ASSUME NEW s \in Sessions, OpenDispatch(s) PROVE IInv'
    BY <1>2, OpenDispatchInv
  <1>3. ASSUME NEW s \in Sessions, NEW e \in Events, OpenReplay(s, e) PROVE IInv'
    BY <1>3, OpenReplayInv
  <1>4. ASSUME NEW s \in Sessions, RequestStep(s) PROVE IInv'
    <2>1. CASE Reset(s)
      BY <2>1, ResetInv
    <2>2. CASE List(s)
      BY <2>2, ListInv
    <2>3. ASSUME NEW e \in Events, Send(s, e) PROVE IInv'
      BY <2>3, SendInv
    <2>4. CASE Mark(s)
      BY <2>4, MarkInv
    <2>5. CASE Commit(s)
      BY <2>5, CommitInv
    <2>6. CASE CloseScript(s)
      BY <2>6, RollbackInv DEF CloseScript, IInv, TypeOK
    <2>7. CASE Abort(s)
      BY <2>7, RollbackInv DEF Abort, IInv, TypeOK
    <2> QED BY <1>4, <2>1, <2>2, <2>3, <2>4, <2>5, <2>6, <2>7 DEF RequestStep
  <1>5. CASE Crash
    <2>1. Rollback(Sessions \ Scripts) /\ memory' \subseteq Events /\ crashes' \in Nat
      BY <1>5 DEF Crash, IInv, TypeOK
    <2> QED BY <2>1, RollbackInv
  <1> QED BY <1>1, <1>2, <1>3, <1>4, <1>5 DEF Next

LEMMA StutterInv == ASSUME IInv, UNCHANGED vars PROVE IInv'
  BY DEF IInv, TypeOK, Shape, Left, Once, OnceOnly, Engaged, WillTell, Counted, Backed, vars, session, bounds

LEMMA Invariance == Spec => []IInv
  <1>1. IInv /\ [Next]_vars => IInv'
    BY StepInv, StutterInv
  <1> QED BY InitInv, <1>1, PTL DEF Spec

(* Every variable keeps its type, whatever requests overlap or end early.  *)
THEOREM TypeCorrect == Spec => []TypeOK
  BY Invariance, PTL DEF IInv

(* A row is marked sent only when its message has left (_dispatch_event    *)
(* before mark_sent), for any number of events, requests and scripts, with *)
(* rollbacks, deadlocks and crashes.                                       *)
THEOREM SentProof == Spec => []SentHasLeft
  <1>1. IInv => SentHasLeft
    BY DEF IInv, Left, SentHasLeft
  <1> QED BY <1>1, Invariance, PTL

(* A message leaves a second time only for a reason: two requests had the  *)
(* event in hand, it was replayed, or the mark of a send was rolled back.  *)
THEOREM ResendProof == Spec => []ResendHasACause
  <1>1. IInv => ResendHasACause
    BY DEF IInv, Once, OnceOnly, ResendHasACause
  <1> QED BY <1>1, Invariance, PTL

(* An event is given up only when more than max_retries sends of it failed *)
(* (should_dead_letter), for any number of overlapping requests that count *)
(* on stale copies of its retry_count.                                     *)
THEOREM GivenUpProof == Spec => []GivenUpAfterRetries
  <1>1. IInv => GivenUpAfterRetries
    BY DEF IInv, Counted, Backed, GivenUpAfterRetries
  <1> QED BY <1>1, Invariance, PTL

-----------------------------------------------------------------------------
(* Outbox implements EventDelivery                                         *)

(* An event that a request has in hand, or is to replay, is in the table.  *)
InTable ==
    \A e \in Events :
      /\ row[e].status = "absent" => row[e] = Absent
      /\ \A s \in Sessions : e \in Engaged(s) \/ target[s] = e => row[e].status # "absent"

(* A status in the table, or flushed and not committed, was come by        *)
(* honestly (that of "sent" and "dead_letter" is in Left and Counted).     *)
Earned ==
    \A e \in Events :
      /\ row[e].status = "failed" => refusals[e] > 0
      /\ \A s \in Sessions : lock[e] = s =>
           /\ mine[s][e].status # "absent"
           /\ mine[s][e].status = "failed" => refusals[e] > 0
           /\ mine[s][e].status = "pending" => e \in excused \/ row[e].status = "pending"

(* What is sent or given up is in nobody's hand, unless it is excused.     *)
OutOfHand ==
    \A e \in Events \ excused : ~Open(row[e]) => \A s \in Sessions : e \notin Engaged(s)

RInv == IInv /\ InTable /\ Earned /\ OutOfHand

LEMMA RefinedInit == Init => RInv /\ Delivery!Init
  <1> SUFFICES ASSUME Init PROVE RInv /\ Delivery!Init
    OBVIOUS
  <1>1. IInv
    BY InitInv
  <1>2. InTable /\ OutOfHand
    BY OutboxAssumption DEF Init, InTable, OutOfHand, Engaged, NoRows
  <1>3. Earned
    BY OutboxAssumption DEF Init, Earned, NoRows, Absent
  <1>4. Delivery!Init
    BY DEF Init, NoRows, Absent, Delivery!Init
  <1> QED BY <1>1, <1>2, <1>3, <1>4 DEF RInv

(* A step that leaves the table, the flushed rows, the sends and what is   *)
(* in hand as they are.                                                    *)
LEMMA QuietRefined ==
    ASSUME RInv, IInv', UNCHANGED <<row, lock, mine, sends, refusals, excused>>,
           \A s \in Sessions, e \in Events :
               /\ e \in Engaged(s)' => e \in Engaged(s)
               /\ target'[s] = e => target[s] = e \/ row[e].status # "absent"
    PROVE  RInv' /\ UNCHANGED Delivery!vars
  <1>1. InTable'
    BY DEF RInv, InTable
  <1>2. Earned'
    BY DEF RInv, Earned
  <1>3. OutOfHand'
    BY DEF RInv, OutOfHand
  <1>4. UNCHANGED Delivery!vars
    BY DEF Delivery!vars
  <1> QED BY <1>1, <1>2, <1>3, <1>4 DEF RInv

LEMMA PublishRefined ==
    ASSUME RInv, IInv', NEW e \in Events, Publish(e)
    PROVE  RInv' /\ Delivery!Publish(e)
  <1>1. /\ row[e] = Absent /\ row \in [Events -> Row]
        /\ row' = [row EXCEPT ![e] = [status |-> "pending", retry |-> 0]]
        /\ UNCHANGED <<lock, mine, target, todo, cur, refusals, sends, excused>>
    BY DEF Publish, session, bounds, RInv, IInv, TypeOK
  <1>2. /\ row'[e].status = "pending" /\ row[e].status = "absent"
        /\ \A f \in Events : f # e => row'[f] = row[f]
    BY <1>1 DEF Absent
  <1>3. \A s \in Sessions : e \notin Engaged(s)
    BY <1>2 DEF RInv, InTable
  <1>4. \A s \in Sessions, f \in Events : f \in Engaged(s)' <=> f \in Engaged(s)
    BY <1>1 DEF Engaged
  <1>5. InTable'
    BY <1>1, <1>2, <1>4 DEF RInv, InTable
  <1>6. Earned'
    <2>1. \A s \in Sessions : lock[e] # s
      BY <1>3 DEF Engaged
    <2> QED BY <1>1, <1>2, <2>1 DEF RInv, Earned
  <1>7. OutOfHand'
    BY <1>1, <1>2, <1>3, <1>4 DEF RInv, OutOfHand
  <1>8. Delivery!Publish(e)
    BY <1>1, <1>2 DEF Delivery!Publish, Delivery!Published
  <1> QED BY <1>5, <1>6, <1>7, <1>8 DEF RInv

LEMMA OpenRefined ==
    ASSUME RInv, IInv', NEW s \in Sessions,
           OpenDispatch(s) \/ \E e \in Events : OpenReplay(s, e)
    PROVE  RInv' /\ UNCHANGED Delivery!vars
  <1>1. CASE OpenDispatch(s)
    BY <1>1, QuietRefined DEF OpenDispatch, Engaged
  <1>2. ASSUME NEW e \in Events, OpenReplay(s, e)
        PROVE  RInv' /\ UNCHANGED Delivery!vars
    <2>1. row[e].status # "absent"
      BY <1>2 DEF OpenReplay, RInv, InTable
    <2> QED BY <1>2, <2>1, QuietRefined DEF OpenReplay, Engaged, RInv, IInv, TypeOK
  <1> QED BY <1>1, <1>2

LEMMA ResetRefined ==
    ASSUME RInv, IInv', NEW s \in Sessions, Reset(s)
    PROVE  RInv' /\ (Delivery!Release \/ UNCHANGED Delivery!vars)
  <1>1. PICK e \in Events : e = target[s]
    BY OutboxAssumption DEF Reset, RInv, IInv, Shape
  <1>2. PICK new : new = [seen[s][e] EXCEPT !.status = "pending"]
    OBVIOUS
  <1>3. /\ row[e].status # "absent" /\ new.status = "pending"
        /\ mine \in [Sessions -> [Events -> Row]] /\ lock \in [Events -> Sessions \cup {Free}]
    BY <1>1, <1>2 DEF RInv, IInv, InTable, TypeOK, Row
  <1>4. UNCHANGED <<row, target, todo, cur, sends, refusals>>
    BY DEF Reset, bounds
  <1>5. CASE new = seen[s][e]
    <2>1. UNCHANGED <<lock, mine, excused>>
      BY <1>1, <1>2, <1>5 DEF Reset
    <2> QED BY <1>4, <2>1, QuietRefined DEF Engaged
  <1>6. CASE new # seen[s][e]
    <2>1. /\ lock[e] = Free
          /\ lock' = [lock EXCEPT ![e] = s]
          /\ mine' = [mine EXCEPT ![s] = [mine[s] EXCEPT ![e] = Merged(row[e], seen[s][e], new)]]
          /\ excused' = excused \cup {e}
      BY <1>1, <1>2, <1>6 DEF Reset
    <2>2. seen[s][e].status # "pending"
      <3>1. seen[s][e] \in Row
        BY DEF RInv, IInv, TypeOK
      <3> QED BY <1>2, <1>6, <3>1 DEF Row
    <2>3. Merged(row[e], seen[s][e], new).status = "pending"
      BY <1>3, <2>2 DEF Merged
    <2>4. /\ mine'[s][e].status = "pending" /\ lock'[e] = s
          /\ \A r \in Sessions, f \in Events : r # s \/ f # e => mine'[r][f] = mine[r][f]
          /\ \A f \in Events : f # e => lock'[f] = lock[f]
      BY <1>3, <2>1, <2>3
    <2>5. \A r \in Sessions, f \in Events : f # e => (f \in Engaged(r)' <=> f \in Engaged(r))
      BY <1>4, <2>4 DEF Engaged
    <2>6. InTable'
      BY <1>3, <1>4, <2>5 DEF RInv, InTable
    <2>7. Earned'
      BY <1>4, <2>1, <2>4 DEF RInv, Earned
    <2>8. OutOfHand'
      BY <1>4, <2>1, <2>5 DEF RInv, OutOfHand
    <2>9. Delivery!Release
      BY <1>3, <1>4, <2>1 DEF Delivery!Release, Delivery!Published
    <2> QED BY <2>6, <2>7, <2>8, <2>9 DEF RInv
  <1> QED BY <1>5, <1>6

LEMMA ListRefined ==
    ASSUME RInv, IInv', NEW s \in Sessions, List(s)
    PROVE  RInv' /\ (Delivery!Release \/ UNCHANGED Delivery!vars)
  <1>1. PICK S \in SUBSET {e \in Events : Open(View(s)[e])} :
          /\ todo' = [todo EXCEPT ![s] = S]
          /\ excused' = excused \cup (S \cap UNION {Engaged(r) : r \in Sessions \ {s}})
    BY DEF List
  <1>2. UNCHANGED <<row, lock, mine, target, cur, sends, refusals>>
    BY DEF List, bounds
  <1>3. /\ pc[s] = "list" /\ todo[s] = {}
        /\ \A e \in Events : lock[e] = s => e \in excused
    BY DEF List, RInv, IInv, Shape
  <1>4. \A e \in S : e \in Events /\ (lock[e] = s \/ Open(row[e]))
    BY DEF View
  <1>5. \A e \in S : row[e].status # "absent"
    <2>1. \A e \in S : lock[e] = s => e \in Engaged(s)
      BY DEF Engaged
    <2> QED BY <1>4, <2>1 DEF RInv, InTable, Open
  <1>6. \A r \in Sessions, e \in Events :
            e \in Engaged(r)' <=> e \in Engaged(r) \/ (r = s /\ e \in S)
    BY <1>1, <1>2, <1>3 DEF Engaged, RInv, IInv, TypeOK
  <1>7. InTable'
    BY <1>2, <1>5, <1>6 DEF RInv, InTable
  <1>8. Earned'
    BY <1>1, <1>2 DEF RInv, Earned
  <1>9. OutOfHand'
    BY <1>1, <1>2, <1>3, <1>4, <1>6 DEF RInv, OutOfHand
  <1>10. Delivery!Release
    BY <1>1, <1>2, <1>4, <1>5 DEF Delivery!Release, Delivery!Published
  <1> QED BY <1>7, <1>8, <1>9, <1>10 DEF RInv

LEMMA SendRefined ==
    ASSUME RInv, IInv', NEW s \in Sessions, NEW e \in Events, Send(s, e)
    PROVE  RInv' /\ (Delivery!Deliver(e) \/ Delivery!Refuse(e))
  <1>1. /\ e \in todo[s] /\ e \in Engaged(s) /\ cur[s] = NoEvent
        /\ todo' = [todo EXCEPT ![s] = @ \ {e}] /\ cur' = [cur EXCEPT ![s] = e]
        /\ UNCHANGED <<row, lock, mine, target, excused>>
    BY DEF Send, Engaged, RInv, IInv, Shape
  <1>2. /\ sends \in [Events -> Nat] /\ refusals \in [Events -> Nat]
        /\ \/ sends' = [sends EXCEPT ![e] = @ + 1] /\ refusals' = refusals
           \/ sends' = sends /\ refusals' = [refusals EXCEPT ![e] = @ + 1]
    BY DEF Send, RInv, IInv, TypeOK
  <1>3. \A r \in Sessions, f \in Events : f \in Engaged(r)' <=> f \in Engaged(r)
    BY <1>1, OutboxAssumption DEF Engaged, RInv, IInv, TypeOK
  <1>4. \A f \in Events : refusals[f] > 0 => refusals'[f] > 0
    BY <1>2
  <1>5. InTable'
    BY <1>1, <1>3 DEF RInv, InTable
  <1>6. Earned'
    BY <1>1, <1>4 DEF RInv, Earned
  <1>7. OutOfHand'
    BY <1>1, <1>3 DEF RInv, OutOfHand
  <1>8. row[e].status # "absent"
    BY <1>1 DEF RInv, InTable
  <1>9. e \notin excused => Open(row[e]) /\ sends[e] = 0
    BY <1>1 DEF RInv, IInv, OutOfHand, Once, OnceOnly
  <1>10. e \in Delivery!Published /\ Delivery!MayGoOut(e)
    BY <1>8, <1>9 DEF Delivery!Published, Delivery!MayGoOut, Delivery!OpenStatus, Open
  <1>11. Delivery!Deliver(e) \/ Delivery!Refuse(e)
    BY <1>1, <1>2, <1>10 DEF Delivery!Deliver, Delivery!Refuse
  <1> QED BY <1>5, <1>6, <1>7, <1>11 DEF RInv

LEMMA MarkRefined ==
    ASSUME RInv, IInv', NEW s \in Sessions, Mark(s)
    PROVE  RInv' /\ UNCHANGED Delivery!vars
  <1>1. PICK e \in Events : e = cur[s]
    BY DEF Mark, RInv, IInv, Shape, TypeOK
  <1>2. PICK old : old = seen[s][e]
    OBVIOUS
  <1>3. PICK new : new = Merged(View(s)[e], old, Marked(s, old))
    OBVIOUS
  <1>4. /\ lock[e] \in {Free, s}
        /\ lock' = [lock EXCEPT ![e] = s]
        /\ mine' = [mine EXCEPT ![s] = [mine[s] EXCEPT ![e] = new]]
        /\ cur' = [cur EXCEPT ![s] = NoEvent]
        /\ UNCHANGED <<row, target, todo, sends, refusals, excused>>
    BY <1>1, <1>2, <1>3 DEF Mark, bounds
  <1>5. e \in Engaged(s) /\ row[e].status # "absent"
    BY <1>1 DEF Engaged, RInv, InTable
  <1>6. /\ View(s)[e] \in {row[e], mine[s][e]} /\ (lock[e] # s => View(s)[e] = row[e])
        /\ View(s)[e].status # "absent"
        /\ View(s)[e].status = "failed" => refusals[e] > 0
        /\ View(s)[e].status = "pending" => e \in excused \/ row[e].status = "pending"
    BY <1>5 DEF View, RInv, Earned
  <1>7. /\ Marked(s, old).status \in {"sent", "failed", "dead_letter"}
        /\ Marked(s, old).status = "failed" => refusals[e] > 0
    <2>1. old \in Row /\ refusals[e] \in Nat /\ (~ok[s] => old.retry < refusals[e])
      BY <1>1, <1>2 DEF RInv, IInv, Counted, TypeOK
    <2>2. CASE ok[s]
      BY <2>1, <2>2 DEF Marked, Row
    <2>3. CASE ~ok[s]
      BY <2>1, <2>3 DEF Marked, Row
    <2> QED BY <2>2, <2>3
  <1>8. /\ new.status # "absent"
        /\ new.status = "failed" => refusals[e] > 0
        /\ new.status = "pending" => e \in excused \/ row[e].status = "pending"
    BY <1>3, <1>6, <1>7 DEF Merged
  <1>9. /\ mine'[s][e] = new /\ lock'[e] = s
        /\ \A r \in Sessions, f \in Events : r # s \/ f # e => mine'[r][f] = mine[r][f]
        /\ \A f \in Events : f # e => lock'[f] = lock[f]
    BY <1>4 DEF RInv, IInv, TypeOK
  <1>10. \A r \in Sessions, f \in Events : f \in Engaged(r)' => f \in Engaged(r)
    BY <1>1, <1>4, <1>5, <1>9, OutboxAssumption DEF Engaged, RInv, IInv, TypeOK
  <1>11. InTable'
    BY <1>4, <1>10 DEF RInv, InTable
  <1>12. Earned'
    BY <1>4, <1>8, <1>9 DEF RInv, Earned
  <1>13. OutOfHand'
    BY <1>4, <1>10 DEF RInv, OutOfHand
  <1>14. UNCHANGED Delivery!vars
    BY <1>4 DEF Delivery!vars
  <1> QED BY <1>11, <1>12, <1>13, <1>14 DEF RInv

(* What the end of requests leaves in hand is in the hand of the others.   *)
LEMMA EndEngaged ==
    ASSUME TypeOK, NEW S \in SUBSET Sessions, End(S)
    PROVE  \A s \in Sessions, e \in Events :
              /\ e \in Engaged(s)' => s \notin S /\ e \in Engaged(s)
              /\ target'[s] = e => target[s] = e
              /\ lock'[e] = s => lock[e] = s /\ mine'[s] = mine[s]
  <1> SUFFICES ASSUME NEW s \in Sessions, NEW e \in Events
               PROVE  /\ e \in Engaged(s)' => s \notin S /\ e \in Engaged(s)
                      /\ target'[s] = e => target[s] = e
                      /\ lock'[e] = s => lock[e] = s /\ mine'[s] = mine[s]
    OBVIOUS
  <1>1. CASE s \in S
    <2>1. /\ target'[s] = NoEvent /\ todo'[s] = {} /\ cur'[s] = NoEvent /\ lock'[e] # s
      BY <1>1, EndLeaves
    <2> QED BY <2>1, OutboxAssumption DEF Engaged
  <1>2. CASE s \notin S
    <2>1. /\ target'[s] = target[s] /\ todo'[s] = todo[s] /\ cur'[s] = cur[s]
          /\ mine'[s] = mine[s] /\ (lock'[e] = s <=> lock[e] = s)
      BY <1>2, EndLeaves
    <2> QED BY <1>2, <2>1 DEF Engaged
  <1> QED BY <1>1, <1>2

LEMMA CommitRefined ==
    ASSUME RInv, IInv', NEW s \in Sessions, Commit(s)
    PROVE  RInv' /\ (Delivery!Settle \/ UNCHANGED Delivery!vars)
  <1>1. /\ row' = View(s) /\ End({s})
        /\ UNCHANGED <<refusals, sends, excused>>
        /\ row' \in [Events -> Row] /\ TypeOK /\ {s} \in SUBSET Sessions
    BY DEF Commit, bounds, RInv, IInv, TypeOK
  <1>2. \A r \in Sessions, e \in Events :
            /\ e \in Engaged(r)' => r # s /\ e \in Engaged(r)
            /\ target'[r] = e => target[r] = e
            /\ lock'[e] = r => lock[e] = r /\ mine'[r] = mine[r] /\ r # s
    <2>1. \A r \in Sessions, e \in Events :
            /\ e \in Engaged(r)' => r \notin {s} /\ e \in Engaged(r)
            /\ target'[r] = e => target[r] = e
            /\ lock'[e] = r => lock[e] = r /\ mine'[r] = mine[r]
      BY <1>1, EndEngaged
    <2>2. \A r \in Sessions, e \in Events : lock'[e] = r => e \in Engaged(r)'
      BY DEF Engaged
    <2> QED BY <2>1, <2>2
  <1>3. \A e \in Events : /\ lock[e] = s => row'[e] = mine[s][e]
                          /\ lock[e] # s => row'[e] = row[e]
    BY <1>1 DEF View
  <1>4. \A e \in Events : lock[e] = s =>
            /\ e \in Engaged(s) /\ row[e].status # "absent" /\ row'[e].status # "absent"
            /\ row'[e].status = "failed" => refusals[e] > 0
            /\ row'[e].status = "pending" => e \in excused \/ row[e].status = "pending"
            /\ row'[e].status = "sent" => sends[e] > 0
            /\ row'[e].status = "dead_letter" => refusals[e] > MaxRetries
    <2>1. \A e \in Events : lock[e] = s => e \in Engaged(s)
      BY DEF Engaged
    <2> QED BY <1>3, <2>1 DEF RInv, InTable, Earned, IInv, Left, Counted, Backed
  <1>5. \A e \in Events \ excused : lock[e] = s => Open(row[e])
    BY <1>4 DEF RInv, OutOfHand
  <1>6. InTable'
    BY <1>2, <1>3, <1>4 DEF RInv, InTable
  <1>7. Earned'
    <2> SUFFICES ASSUME NEW e \in Events
                 PROVE  /\ row'[e].status = "failed" => refusals[e] > 0
                        /\ \A r \in Sessions : lock'[e] = r =>
                             /\ mine'[r][e].status # "absent"
                             /\ mine'[r][e].status = "failed" => refusals[e] > 0
                             /\ mine'[r][e].status = "pending" =>
                                  e \in excused \/ row'[e].status = "pending"
      BY <1>1 DEF Earned
    <2>1. row'[e].status = "failed" => refusals[e] > 0
      BY <1>3, <1>4 DEF RInv, Earned
    <2>2. ASSUME NEW r \in Sessions, lock'[e] = r
          PROVE  lock[e] = r /\ mine'[r] = mine[r] /\ row'[e] = row[e]
      BY <1>2, <1>3, <2>2
    <2> QED BY <2>1, <2>2 DEF RInv, Earned
  <1>8. OutOfHand'
    <2> SUFFICES ASSUME NEW e \in Events \ excused, ~Open(row'[e]), NEW r \in Sessions,
                        e \in Engaged(r)'
                 PROVE  FALSE
      BY <1>1 DEF OutOfHand, Open
    <2>1. r # s /\ e \in Engaged(r)
      BY <1>2
    <2>2. lock[e] # s
      BY <1>4, <2>1 DEF RInv, IInv, Once, OnceOnly
    <2> QED BY <1>3, <2>1, <2>2 DEF RInv, OutOfHand
  <1>9. Delivery!Settle
    <2>1. \A e \in Events : row'[e].status # row[e].status =>
              /\ row[e].status # "absent"
              /\ Delivery!Earned(e, row'[e].status)
              /\ Open(row[e]) \/ e \in excused
      <3> SUFFICES ASSUME NEW e \in Events, row'[e].status # row[e].status
                   PROVE  /\ row[e].status # "absent"
                          /\ Delivery!Earned(e, row'[e].status)
                          /\ Open(row[e]) \/ e \in excused
        OBVIOUS
      <3>1. lock[e] = s
        BY <1>3
      <3>2. row'[e].status \in Status
        BY <1>1 DEF Row
      <3>3. Delivery!Earned(e, row'[e].status)
        BY <1>4, <3>1, <3>2 DEF Delivery!Earned, Status
      <3> QED BY <1>4, <1>5, <3>1, <3>3
    <2>2. [e \in Events |-> row'[e].status] \in [Events -> Delivery!Status]
      BY <1>1 DEF Delivery!Status, Delivery!OpenStatus, Row, Status
    <2> QED BY <1>1, <2>1, <2>2
        DEF Delivery!Settle, Delivery!Published, Delivery!OpenStatus, Open
  <1> QED BY <1>6, <1>7, <1>8, <1>9 DEF RInv

LEMMA RollbackRefined ==
    ASSUME RInv, IInv', NEW S \in SUBSET Sessions, Rollback(S)
    PROVE  RInv' /\ (Delivery!Release \/ UNCHANGED Delivery!vars)
  <1>1. /\ excused' = excused \cup UNION {Sent(s) : s \in S} /\ End(S) /\ TypeOK
        /\ UNCHANGED <<row, refusals, sends>>
    BY DEF Rollback, RInv, IInv
  <1>2. \A r \in Sessions, e \in Events :
            /\ e \in Engaged(r)' => e \in Engaged(r)
            /\ target'[r] = e => target[r] = e
            /\ lock'[e] = r => lock[e] = r /\ mine'[r] = mine[r]
    BY <1>1, EndEngaged
  <1>3. InTable'
    BY <1>1, <1>2 DEF RInv, InTable
  <1>4. Earned'
    BY <1>1, <1>2 DEF RInv, Earned
  <1>5. OutOfHand'
    BY <1>1, <1>2 DEF RInv, OutOfHand
  <1>6. \A s \in S : \A e \in Sent(s) : e \in Events /\ row[e].status # "absent"
    BY DEF Sent, Engaged, RInv, InTable
  <1>7. Delivery!Release
    BY <1>1, <1>6 DEF Delivery!Release, Delivery!Published
  <1> QED BY <1>3, <1>4, <1>5, <1>7 DEF RInv

LEMMA RefinedStep == RInv /\ [Next]_vars => RInv' /\ [Delivery!Next]_Delivery!vars
  <1> SUFFICES ASSUME RInv, [Next]_vars PROVE RInv' /\ [Delivery!Next]_Delivery!vars
    OBVIOUS
  <1>1. IInv'
    BY StepInv, StutterInv DEF RInv
  <1>2. ASSUME NEW e \in Events, Publish(e) PROVE RInv' /\ Delivery!Next
    BY <1>1, <1>2, PublishRefined DEF Delivery!Next
  <1>3. ASSUME NEW s \in Sessions, OpenDispatch(s) \/ \E e \in Events : OpenReplay(s, e)
        PROVE  RInv' /\ UNCHANGED Delivery!vars
    BY <1>1, <1>3, OpenRefined
  <1>4. ASSUME NEW s \in Sessions, RequestStep(s)
        PROVE  RInv' /\ [Delivery!Next]_Delivery!vars
    <2>1. CASE Reset(s)
      BY <1>1, <2>1, ResetRefined DEF Delivery!Next
    <2>2. CASE List(s)
      BY <1>1, <2>2, ListRefined DEF Delivery!Next
    <2>3. ASSUME NEW e \in Events, Send(s, e) PROVE RInv' /\ Delivery!Next
      BY <1>1, <2>3, SendRefined DEF Delivery!Next
    <2>4. CASE Mark(s)
      BY <1>1, <2>4, MarkRefined
    <2>5. CASE Commit(s)
      BY <1>1, <2>5, CommitRefined DEF Delivery!Next
    <2>6. CASE CloseScript(s) \/ Abort(s)
      <3>1. Rollback({s}) /\ {s} \in SUBSET Sessions
        BY <2>6 DEF CloseScript, Abort
      <3> QED BY <1>1, <3>1, RollbackRefined DEF Delivery!Next
    <2> QED BY <1>4, <2>1, <2>2, <2>3, <2>4, <2>5, <2>6 DEF RequestStep
  <1>5. CASE Crash
    <2>1. Rollback(Sessions \ Scripts)
      BY <1>5 DEF Crash
    <2> QED BY <1>1, <2>1, RollbackRefined DEF Delivery!Next
  <1>6. CASE UNCHANGED vars
    <2>1. \A s \in Sessions, e \in Events : Engaged(s)' = Engaged(s) /\ target'[s] = target[s]
      BY <1>6 DEF vars, session, Engaged
    <2> QED BY <1>1, <1>6, <2>1, QuietRefined DEF vars, session, bounds
  <1> QED BY <1>2, <1>3, <1>4, <1>5, <1>6 DEF Next

(* Outbox implements EventDelivery: for any number of events, requests and *)
(* scripts, what the table and the consumers see of overlapping dispatches *)
(* and replays (data_sync_service.py), with rollbacks, deadlocks and       *)
(* kills, is a behaviour of that specification.                            *)
THEOREM DeliveryRefined == Spec => ImplementsEventDelivery
  <1>1. Spec => Delivery!Spec
    BY RefinedInit, RefinedStep, PTL DEF Spec, Delivery!Spec
  <1> QED BY <1>1 DEF ImplementsEventDelivery
=============================================================================
