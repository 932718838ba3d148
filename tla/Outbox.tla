------------------------------- MODULE Outbox -------------------------------
(***************************************************************************)
(* The outbox of the data synchronisation (services/data_sync_service.py   *)
(* over repositories/data_sync_repository.py): domain events are rows of   *)
(* data_sync_events, dispatch requests send the open ones and mark them,   *)
(* and dead letters are replayed, over HTTP (integration.py) or from the   *)
(* command line (scripts/replay_dlq.py).                                   *)
(*                                                                         *)
(* A request is one database session and one transaction.  It reads rows   *)
(* without locking them; each mark is an UPDATE, flushed at once, that     *)
(* names the columns the session changed and keeps the row locked until    *)
(* the commit at the end of the request.  Messages leave before that.      *)
(*                                                                         *)
(* send_message (infrastructure/kafka.py) answers True for a message that  *)
(* went to the broker and for one that fell back to a list in the memory   *)
(* of the API process; the caller cannot tell them apart.                  *)
(***************************************************************************)
EXTENDS Naturals, FiniteSets

CONSTANTS
    Events,          \* event keys: entity, aggregate and event type
    Sessions,        \* requests that may be open at once
    Scripts,         \* those that are runs of scripts/replay_dlq.py
    Limit,           \* limit of dispatch_pending_events
    MaxRetries,      \* max_retries of dispatch_pending_events
    MaxRequests,     \* bound: dispatches and replays
    MaxRefusals,     \* bound: sends of an event that raise
    MaxCrashes,      \* bound: kills of the API process
    NoEvent, Free    \* no event; a row nobody has locked

ASSUME OutboxAssumption ==
    /\ IsFiniteSet(Events) /\ NoEvent \notin Events
    /\ Scripts \subseteq Sessions /\ Free \notin Sessions
    /\ Limit \in Nat \ {0} /\ MaxRetries \in Nat
    /\ MaxRequests \in Nat /\ MaxRefusals \in Nat /\ MaxCrashes \in Nat

VARIABLES
    row,       \* the committed columns status and retry_count of an event
    born,      \* its place in the order of created_at
    lock,      \* the session whose flushed UPDATE holds the row
    mine,      \* what that session has flushed
    pc,        \* where a request is
    target,    \* the event a replay is about
    todo,      \* listed events not sent yet
    cur,       \* the event whose mark is due
    ok,        \* what its send answered
    seen,      \* the session's copies of the rows it is to mark
    broker,    \* events whose message the broker has
    memory,    \* events whose message waits in the API process
    refusals,  \* sends that raised
    requests, crashes,
    sends,     \* history: messages sent for an event
    excused    \* history: events that overlapping requests listed, that were
               \* replayed, or whose mark was rolled back after the send

session == <<pc, target, todo, cur, ok, seen>>
bounds == <<refusals, requests, crashes>>
vars == <<row, born, lock, mine, session, broker, memory, bounds, sends, excused>>

Status == {"absent", "pending", "sent", "failed", "dead_letter"}
Row == [status : Status, retry : Nat]
Absent == [status |-> "absent", retry |-> 0]
NoRows == [e \in Events |-> Absent]

(* The rows a session's SELECT finds: its own flushed ones, and the rest   *)
(* as committed.                                                           *)
View(s) == [e \in Events |-> IF lock[e] = s THEN mine[s][e] ELSE row[e]]

(* list_pending's WHERE.  The mutant forgets that sent rows are done. *)
OpenOrSent(r) == r.status \in {"pending", "failed", "sent"}
Open(r) == r.status \in {"pending", "failed"}

(* The UPDATE of a session that has seen a row and changed it to new: a    *)
(* column it leaves as it saw it is not written.                           *)
Merged(now, old, new) ==
    [status |-> IF new.status = old.status THEN now.status ELSE new.status,
     retry  |-> IF new.retry = old.retry THEN now.retry ELSE new.retry]

(* The events a session has listed, sent or marked, and not committed. *)
Engaged(s) == {e \in Events : e \in todo[s] \/ cur[s] = e \/ lock[e] = s}
Sent(s) == {e \in Events : cur[s] = e \/ lock[e] = s}

-----------------------------------------------------------------------------

Init ==
    /\ row = NoRows
    /\ born = [e \in Events |-> 0]
    /\ lock = [e \in Events |-> Free]
    /\ mine = [s \in Sessions |-> NoRows]
    /\ pc = [s \in Sessions |-> "idle"]
    /\ target = [s \in Sessions |-> NoEvent]
    /\ todo = [s \in Sessions |-> {}]
    /\ cur = [s \in Sessions |-> NoEvent]
    /\ ok = [s \in Sessions |-> FALSE]
    /\ seen = [s \in Sessions |-> NoRows]
    /\ broker = {} /\ memory = {}
    /\ refusals = [e \in Events |-> 0]
    /\ requests = 0 /\ crashes = 0
    /\ sends = [e \in Events |-> 0]
    /\ excused = {}

(* publish_domain_event.  A publication whose key is in the table, in      *)
(* whatever status, is answered with the row that is there: no step.       *)
Publish(e) ==
    /\ row[e] = Absent
    /\ row' = [row EXCEPT ![e] = [status |-> "pending", retry |-> 0]]
    /\ born' = [born EXCEPT ![e] = Cardinality({f \in Events : row[f] # Absent})]
    /\ UNCHANGED <<lock, mine, session, broker, memory, bounds, sends, excused>>

(* POST /events/dispatch *)
OpenDispatch(s) ==
    /\ pc[s] = "idle" /\ s \notin Scripts
    /\ requests < MaxRequests
    /\ requests' = requests + 1
    /\ pc' = [pc EXCEPT ![s] = "list"]
    /\ UNCHANGED <<row, born, lock, mine, target, todo, cur, ok, seen, broker, memory,
                   refusals, crashes, sends, excused>>

(* POST /events/{event_id}/replay, or the script: replay_dead_letter reads *)
(* the event, of any status.                                               *)
OpenReplay(s, e) ==
    /\ pc[s] = "idle" /\ row[e] # Absent
    /\ requests < MaxRequests
    /\ requests' = requests + 1
    /\ target' = [target EXCEPT ![s] = e]
    /\ seen' = [seen EXCEPT ![s][e] = row[e]]
    /\ pc' = [pc EXCEPT ![s] = "reset"]
    /\ UNCHANGED <<row, born, lock, mine, todo, cur, ok, broker, memory, refusals, crashes, sends, excused>>

(* reset_for_replay: status back to pending, retry_count left as it is.    *)
Reset(s) ==
    /\ pc[s] = "reset"
    /\ LET e == target[s]
           new == [seen[s][e] EXCEPT !.status = "pending"]
       IN  /\ IF new = seen[s][e]
              THEN UNCHANGED <<lock, mine, excused>>
              ELSE /\ lock[e] = Free
                   /\ lock' = [lock EXCEPT ![e] = s]
                   /\ mine' = [mine EXCEPT ![s][e] = Merged(row[e], seen[s][e], new)]
                   /\ excused' = excused \cup {e}
           /\ seen' = [seen EXCEPT ![s][e] = new]
    /\ pc' = [pc EXCEPT ![s] = "list"]
    /\ UNCHANGED <<row, born, target, todo, cur, ok, broker, memory, bounds, sends>>

(* dispatch_pending_events lists the oldest open rows, a replay just one.  *)
(* The copy of the replayed event is the one the session reset: a row that *)
(* is in the session already is not read again.                            *)
List(s) ==
    /\ pc[s] = "list"
    /\ LET open == {e \in Events : Open(View(s)[e])}
           limit == IF target[s] = NoEvent THEN Limit ELSE 1
       IN  \E S \in SUBSET open :
             /\ Cardinality(S) = (IF Cardinality(open) < limit THEN Cardinality(open) ELSE limit)
             /\ \A e \in S, f \in open \ S : born[e] < born[f]
             /\ todo' = [todo EXCEPT ![s] = S]
             /\ seen' = [seen EXCEPT ![s] = [e \in Events |->
                    IF e \notin S THEN Absent
                    ELSE IF e = target[s] THEN seen[s][e] ELSE View(s)[e]]]
             /\ excused' = excused \cup (S \cap UNION {Engaged(r) : r \in Sessions \ {s}})
             /\ pc' = [pc EXCEPT ![s] = IF S = {} THEN "commit" ELSE "send"]
    /\ UNCHANGED <<row, born, lock, mine, target, cur, ok, broker, memory, bounds, sends>>

(* _dispatch_event: to the broker, to the fallback list of the process, to *)
(* both when the broker answers late, or an exception.                     *)
Send(s, e) ==
    /\ pc[s] = "send"
    /\ e \in todo[s] /\ \A f \in todo[s] \ {e} : born[e] < born[f]
    /\ \E to \in {"broker", "memory", "both", "nowhere"} :
         /\ to = "nowhere" => refusals[e] < MaxRefusals
         /\ refusals' = IF to = "nowhere" THEN [refusals EXCEPT ![e] = @ + 1] ELSE refusals
         /\ broker' = IF to \in {"broker", "both"} THEN broker \cup {e} ELSE broker
         /\ memory' = IF to \in {"memory", "both"} /\ s \notin Scripts
                      THEN memory \cup {e} ELSE memory
         /\ sends' = IF to = "nowhere" THEN sends ELSE [sends EXCEPT ![e] = @ + 1]
         /\ ok' = [ok EXCEPT ![s] = to # "nowhere"]
    /\ todo' = [todo EXCEPT ![s] = @ \ {e}]
    /\ cur' = [cur EXCEPT ![s] = e]
    /\ pc' = [pc EXCEPT ![s] = "mark"]
    /\ UNCHANGED <<row, born, lock, mine, target, seen, requests, crashes, excused>>

(* should_dead_letter.  The mutant counts one attempt less. *)
ExhaustedEarly(r) == r.retry + 1 >= MaxRetries
Exhausted(r) == r.retry + 1 > MaxRetries

(* mark_sent and mark_failed.  The mutants take every answer for a success *)
(* of the send, or give up under a status nobody lists.                    *)
MarkedSent(s, old) == [old EXCEPT !.status = "sent"]
MarkedDead(s, old) ==
    IF ok[s]
    THEN [old EXCEPT !.status = "sent"]
    ELSE [status |-> IF Exhausted(old) THEN "dead" ELSE "failed", retry |-> old.retry + 1]
Marked(s, old) ==
    IF ok[s]
    THEN [old EXCEPT !.status = "sent"]
    ELSE [status |-> IF Exhausted(old) THEN "dead_letter" ELSE "failed",
          retry  |-> old.retry + 1]

Mark(s) ==
    /\ pc[s] = "mark"
    /\ LET e == cur[s]  old == seen[s][e]
       IN  /\ lock[e] \in {Free, s}
           /\ lock' = [lock EXCEPT ![e] = s]
           /\ mine' = [mine EXCEPT ![s][e] = Merged(View(s)[e], old, Marked(s, old))]
           /\ seen' = [seen EXCEPT ![s][e] = Absent]
    /\ cur' = [cur EXCEPT ![s] = NoEvent]
    /\ ok' = [ok EXCEPT ![s] = FALSE]
    /\ pc' = [pc EXCEPT ![s] = IF todo[s] = {} THEN "commit" ELSE "send"]
    /\ UNCHANGED <<row, born, target, todo, broker, memory, bounds, sends, excused>>

-----------------------------------------------------------------------------
(* The end of requests *)

(* The sessions in S are gone, with their locks.  The mutant keeps the     *)
(* locks, as a session would that is never closed.                         *)
EndKeepingLocks(S) ==
    /\ UNCHANGED <<lock, mine>>
    /\ pc' = [s \in Sessions |-> IF s \in S THEN "idle" ELSE pc[s]]
    /\ target' = [s \in Sessions |-> IF s \in S THEN NoEvent ELSE target[s]]
    /\ todo' = [s \in Sessions |-> IF s \in S THEN {} ELSE todo[s]]
    /\ cur' = [s \in Sessions |-> IF s \in S THEN NoEvent ELSE cur[s]]
    /\ ok' = [s \in Sessions |-> IF s \in S THEN FALSE ELSE ok[s]]
    /\ seen' = [s \in Sessions |-> IF s \in S THEN NoRows ELSE seen[s]]

End(S) ==
    /\ lock' = [e \in Events |-> IF lock[e] \in S THEN Free ELSE lock[e]]
    /\ mine' = [s \in Sessions |-> IF s \in S THEN NoRows ELSE mine[s]]
    /\ pc' = [s \in Sessions |-> IF s \in S THEN "idle" ELSE pc[s]]
    /\ target' = [s \in Sessions |-> IF s \in S THEN NoEvent ELSE target[s]]
    /\ todo' = [s \in Sessions |-> IF s \in S THEN {} ELSE todo[s]]
    /\ cur' = [s \in Sessions |-> IF s \in S THEN NoEvent ELSE cur[s]]
    /\ ok' = [s \in Sessions |-> IF s \in S THEN FALSE ELSE ok[s]]
    /\ seen' = [s \in Sessions |-> IF s \in S THEN NoRows ELSE seen[s]]

Commit(s) ==
    /\ pc[s] = "commit" /\ s \notin Scripts
    /\ row' = View(s)
    /\ End({s})
    /\ UNCHANGED <<born, broker, memory, bounds, sends, excused>>

Rollback(S) ==
    /\ excused' = excused \cup UNION {Sent(s) : s \in S}
    /\ End(S)
    /\ UNCHANGED <<row, born, broker, requests, refusals, sends>>

(* scripts/replay_dlq.py closes its session without a commit. *)
CloseScript(s) ==
    /\ pc[s] = "commit" /\ s \in Scripts
    /\ Rollback({s})
    /\ UNCHANGED <<memory, crashes>>

(* A session waits for a row another one has locked; the database ends one *)
(* of those that wait for each other.                                      *)
Waits(r, q) ==
    \/ pc[r] = "mark" /\ lock[cur[r]] = q
    \/ pc[r] = "reset" /\ seen[r][target[r]].status # "pending" /\ lock[target[r]] = q

Abort(s) ==
    /\ \E C \in SUBSET Sessions :
         s \in C /\ \A r \in C : \E q \in C \ {r} : Waits(r, q)
    /\ Rollback({s})
    /\ UNCHANGED <<memory, crashes>>

(* The API process is killed: its requests roll back, its list is gone. *)
Crash ==
    /\ crashes < MaxCrashes
    /\ crashes' = crashes + 1
    /\ Rollback(Sessions \ Scripts)
    /\ memory' = {}

-----------------------------------------------------------------------------

RequestStep(s) ==
    \/ Reset(s)
    \/ List(s)
    \/ \E e \in Events : Send(s, e)
    \/ Mark(s)
    \/ Commit(s)
    \/ CloseScript(s)
    \/ Abort(s)

Next ==
    \/ \E e \in Events : Publish(e)
    \/ \E s \in Sessions : OpenDispatch(s)
    \/ \E s \in Sessions, e \in Events : OpenReplay(s, e)
    \/ \E s \in Sessions : RequestStep(s)
    \/ Crash

Spec == Init /\ [][Next]_vars

(* An open request goes on: sends time out, the database answers and ends  *)
(* deadlocks.  Nothing in the system schedules a dispatch.                 *)
FairSpec == Spec /\ \A s \in Sessions : WF_vars(RequestStep(s))

-----------------------------------------------------------------------------
(* Properties *)

TypeOK ==
    /\ row \in [Events -> Row]
    /\ born \in [Events -> Nat]
    /\ lock \in [Events -> Sessions \cup {Free}]
    /\ mine \in [Sessions -> [Events -> Row]]
    /\ pc \in [Sessions -> {"idle", "reset", "list", "send", "mark", "commit"}]
    /\ target \in [Sessions -> Events \cup {NoEvent}]
    /\ todo \in [Sessions -> SUBSET Events]
    /\ cur \in [Sessions -> Events \cup {NoEvent}]
    /\ ok \in [Sessions -> BOOLEAN]
    /\ seen \in [Sessions -> [Events -> Row]]
    /\ broker \subseteq Events /\ memory \subseteq Events
    /\ refusals \in [Events -> Nat]
    /\ requests \in Nat /\ crashes \in Nat
    /\ sends \in [Events -> Nat]
    /\ excused \subseteq Events

(* A row is marked sent only when its message has left, whatever requests  *)
(* overlap, are rolled back or marked late (mark_sent after _dispatch).    *)
SentHasLeft == \A e \in Events : row[e].status = "sent" => sends[e] > 0

(* A message leaves a second time only if two requests had the event in    *)
(* hand at once, it was replayed, or the mark of its first send was rolled *)
(* back: otherwise the row is out of every later list (list_pending).      *)
ResendHasACause == \A e \in Events \ excused : sends[e] <= 1

(* An event is given up only when more sends of it than max_retries have   *)
(* failed, although overlapping requests count on stale copies and their   *)
(* marks may be rolled back (should_dead_letter).                          *)
GivenUpAfterRetries ==
    \A e \in Events : row[e].status = "dead_letter" => refusals[e] > MaxRetries

(* Readers of the table and consumers of the messages see what             *)
(* EventDelivery promises, whatever requests overlap, lock, die or are     *)
(* rolled back: publications, sends that succeed or fail, and commits that *)
(* mark only what has happened; the history of events that overlapped,     *)
(* were replayed or lost their mark says which may go out again.           *)
Delivery == INSTANCE EventDelivery WITH
    status   <- [e \in Events |-> row[e].status],
    left     <- sends,
    failed   <- refusals,
    released <- excused

ImplementsEventDelivery == Delivery!Spec

(* Every request ends, also when requests lock each other's rows (flush at *)
(* every mark, commit at the end; a replay marks out of order).            *)
RequestsEnd == \A s \in Sessions : pc[s] # "idle" ~> pc[s] = "idle"

-----------------------------------------------------------------------------
(* What comments and tests say, and the code does not do.                  *)

(* published_at, set with status sent, is the time of the successful       *)
(* publication: the broker has the message.                                *)
SentIsPublished == \A e \in Events : row[e].status = "sent" => e \in broker
=============================================================================
