---------------------------- MODULE ConfigCenter ----------------------------
(***************************************************************************)
(* Versioned configuration of a tenant (services/config_center_service.py, *)
(* and services/prompt_policy_service.py, which is built the same way):    *)
(* table tenant_configs has one row per key with the current entry and the *)
(* entries before it, and every process keeps a copy in memory, which is   *)
(* written before the row and read when the row cannot be.                 *)
(*                                                                         *)
(* A request is a database session and one transaction: for a publication  *)
(* or a rollback of one key over HTTP, or for a bundle of keys by          *)
(* scripts/publish_business_default_configs.py.  The payload is read,      *)
(* changed and stored whole; no version is compared and no failure of the  *)
(* store is reported.                                                      *)
(***************************************************************************)
EXTENDS Naturals, FiniteSets, Sequences, SequencesExt, Functions

CONSTANTS
    Keys,
    Bundle,         \* the keys that the script publishes, in order
    Processes,
    Sessions,       \* database sessions that may be open at once
    HistoryLimit,   \* history[-20:]
    MaxChanges,     \* bound: publications
    MaxRequests,    \* bound: requests
    MaxFaults,      \* bound: statements and commits that fail
    MaxKills,       \* bound: kills of a process
    None

ASSUME ConfigAssumption ==
    /\ Bundle \in Seq(Keys) /\ Bundle # <<>> /\ IsInjective(Bundle)
    /\ HistoryLimit \in Nat \ {0}
    /\ MaxChanges \in Nat /\ MaxRequests \in Nat /\ MaxFaults \in Nat /\ MaxKills \in Nat

VARIABLES
    row,        \* the committed payload of each key, or None
    memory,     \* _MEMORY_CONFIG_STORE of each process
    sess,       \* what each session is doing, or None
    changes, requests, faults, kills,
    answered,   \* history: publications whose request was answered with success
    excused     \* history: publications that something took out of the table

bounds == <<requests, faults, kills>>
vars == <<row, memory, sess, changes, bounds, answered, excused>>

\* A publication is a number; the key is there to relate it to its row.
Entry == [key : Keys, version : 1 .. MaxChanges, id : 1 .. MaxChanges]
Payload == [current : Entry, history : Seq(Entry)]
ASSUME NoneAssumption == None \notin Payload
Entries(payload) ==
    IF payload = None THEN {} ELSE {payload.current} \cup Range(payload.history)
Ids(payload) == {e.id : e \in Entries(payload)}

Operations == {"publish", "rollback"}
Steps == {"select", "change", "select again", "flush", "commit"}
Session == [op : Operations, by : Processes, keys : Seq(Keys), step : Steps,
            loud : BOOLEAN,                          \* a failed commit is reported
            found : Payload \cup {None},             \* what the load of the key found
            seen : Payload \cup {None},              \* what the upsert found
            new : Payload \cup {None},               \* what it is to store
            wrote : [Keys -> Payload \cup {None}],   \* flushed
            based : [Keys -> Payload \cup {None}],   \* and what that was made from
            ids : SUBSET (1 .. MaxChanges)]          \* published

Nothing == [k \in Keys |-> None]

Init ==
    /\ row = [k \in Keys |-> None]
    /\ memory = [p \in Processes |-> [k \in Keys |-> None]]
    /\ sess = [s \in Sessions |-> None]
    /\ changes = 0 /\ requests = 0 /\ faults = 0 /\ kills = 0
    /\ answered = {} /\ excused = {}

At(s, step) == sess[s] # None /\ sess[s].step = step
Key(s) == Head(sess[s].keys)
Faulty == faults < MaxFaults /\ faults' = faults + 1

\* POST .../publish, POST .../rollback, or the script.
Begin(s, p, op, keys, loud) ==
    /\ sess[s] = None /\ requests < MaxRequests
    /\ requests' = requests + 1
    /\ sess' = [sess EXCEPT ![s] =
           [op |-> op, by |-> p, keys |-> keys, step |-> "select", loud |-> loud,
            found |-> None, seen |-> None, new |-> None,
            wrote |-> Nothing, based |-> Nothing, ids |-> {}]]
    /\ UNCHANGED <<row, memory, changes, faults, kills, answered, excused>>

\* _load_payload, the query: a failure is as if there were no row.
Select(s) ==
    /\ At(s, "select")
    /\ \/ /\ sess' = [sess EXCEPT ![s] = [sess[s] EXCEPT !.found = row[Key(s)], !.step = "change"]]
          /\ UNCHANGED faults
       \/ /\ sess' = [sess EXCEPT ![s] = [sess[s] EXCEPT !.found = None, !.step = "change"]]
          /\ Faulty
    /\ UNCHANGED <<row, memory, changes, requests, kills, answered, excused>>

\* The payload that is changed: of the row, or else of the memory.
Loaded(s) == IF sess[s].found # None THEN sess[s].found ELSE memory[sess[s].by][Key(s)]

(* mutant: the oldest entries are kept. *)
NewestAsOldest(entries) ==
    IF Len(entries) <= HistoryLimit THEN entries ELSE SubSeq(entries, 1, HistoryLimit)
Newest(entries) ==
    IF Len(entries) <= HistoryLimit THEN entries
    ELSE SubSeq(entries, Len(entries) - HistoryLimit + 1, Len(entries))

(* mutants: the version is counted by the entries that are kept, or from   *)
(* nought.                                                                 *)
PublishedByLength(key, payload, id) ==
    LET history == IF payload = None THEN <<>> ELSE Append(payload.history, payload.current)
    IN  [current |-> [key |-> key, version |-> Len(Newest(history)) + 1, id |-> id],
         history |-> Newest(history)]
PublishedFromNought(key, payload, id) ==
    LET history == IF payload = None THEN <<>> ELSE Append(payload.history, payload.current)
    IN  [current |-> [key |-> key, version |-> Len(history), id |-> id],
         history |-> Newest(history)]
Published(key, payload, id) ==
    LET history == IF payload = None THEN <<>> ELSE Append(payload.history, payload.current)
        version == IF payload = None THEN 0 ELSE payload.current.version
    IN  [current |-> [key |-> key, version |-> version + 1, id |-> id],
         history |-> Newest(history)]
RolledBack(payload) == [current |-> Last(payload.history), history |-> Front(payload.history)]

\* publish_config and rollback_config up to the first await after the load.
\* A rollback without an earlier entry changes nothing.
Change(s) ==
    /\ At(s, "change")
    /\ LET old == Loaded(s)
           id == changes + 1
           store(new, ids) ==
               /\ memory' = [memory EXCEPT ![sess[s].by][Key(s)] = new]
               /\ sess' = [sess EXCEPT ![s] =
                      [sess[s] EXCEPT !.new = new, !.step = "select again",
                                !.based[Key(s)] = old, !.ids = @ \cup ids]]
       IN  \/ /\ sess[s].op = "publish" /\ changes < MaxChanges
              /\ changes' = id
              /\ store(Published(Key(s), old, id), {id})
           \/ /\ sess[s].op = "rollback" /\ old # None /\ old.history # <<>>
              /\ store(RolledBack(old), {})
              /\ UNCHANGED changes
           \/ /\ sess[s].op = "rollback" /\ ~(old # None /\ old.history # <<>>)
              /\ sess' = [sess EXCEPT ![s] = None]
              /\ UNCHANGED <<memory, changes>>
    /\ UNCHANGED <<row, bounds, answered, excused>>

\* The next key of the request, or its commit.
Onward(w) ==
    IF Len(w.keys) > 1
    THEN [w EXCEPT !.keys = Tail(@), !.step = "select", !.found = None, !.seen = None, !.new = None]
    ELSE [w EXCEPT !.step = "commit"]

\* _persist_payload rolls back on a failure: what the transaction has written
\* before goes too, and the request goes on as if nothing had happened.
GiveUp(s) ==
    /\ sess' = [sess EXCEPT ![s] = Onward([sess[s] EXCEPT !.wrote = Nothing, !.based = Nothing])]
    /\ excused' = excused \cup sess[s].ids

\* upsert_config, the query.
SelectAgain(s) ==
    /\ At(s, "select again")
    /\ \/ /\ sess' = [sess EXCEPT ![s] = [sess[s] EXCEPT !.seen = row[Key(s)], !.step = "flush"]]
          /\ UNCHANGED <<faults, excused>>
       \/ Faulty /\ GiveUp(s)
    /\ UNCHANGED <<row, memory, changes, requests, kills, answered>>

Locked(s, k) == \E t \in Sessions \ {s} : sess[t] # None /\ sess[t].wrote[k] # None

\* upsert_config, the flush: an INSERT is refused when the row is there by
\* now, an UPDATE with what the query found is left out.
Flush(s) ==
    /\ At(s, "flush")
    /\ LET w == sess[s]  k == Key(s) IN
           \/ /\ w.seen = w.new
              /\ sess' = [sess EXCEPT ![s] = Onward(w)]
              /\ UNCHANGED <<faults, excused>>
           \/ /\ w.seen # w.new /\ ~Locked(s, k) /\ (w.seen = None => row[k] = None)
              /\ sess' = [sess EXCEPT ![s] = Onward([w EXCEPT !.wrote[k] = w.new])]
              /\ UNCHANGED <<faults, excused>>
           \/ /\ w.seen = None /\ row[k] # None
              /\ GiveUp(s)
              /\ UNCHANGED faults
           \/ Faulty /\ GiveUp(s)
    /\ UNCHANGED <<row, memory, changes, requests, kills, answered>>

\* Publications that a commit of w takes out of the row of k for a reason: it
\* was based on something else than the row that it replaces, it rolled the
\* current one back, or the history is full.
Excused(w, k) ==
    IF w.wrote[k] = None \/ row[k] = None THEN {}
    ELSE IF w.based[k] # row[k] THEN Ids(row[k]) \ Ids(w.wrote[k])
    ELSE IF w.op = "rollback" THEN {row[k].current.id}
    ELSE IF Len(row[k].history) = HistoryLimit THEN {Head(row[k].history).id} ELSE {}

Commit(s) ==
    /\ At(s, "commit")
    /\ LET w == sess[s] IN
           \/ /\ row' = [k \in Keys |-> IF w.wrote[k] # None THEN w.wrote[k] ELSE row[k]]
              /\ answered' = answered \cup w.ids
              /\ excused' = excused \cup UNION {Excused(w, k) : k \in Keys}
              /\ UNCHANGED faults
           \/ /\ Faulty
              /\ answered' = IF w.loud THEN answered ELSE answered \cup w.ids
              /\ excused' = excused \cup w.ids
              /\ UNCHANGED row
    /\ sess' = [sess EXCEPT ![s] = None]
    /\ UNCHANGED <<memory, changes, requests, kills>>

Kill(p) ==
    /\ kills < MaxKills
    /\ kills' = kills + 1
    /\ memory' = [memory EXCEPT ![p] = [k \in Keys |-> None]]
    /\ sess' = [s \in Sessions |-> IF sess[s] # None /\ sess[s].by = p THEN None ELSE sess[s]]
    /\ UNCHANGED <<row, changes, requests, faults, answered, excused>>

Next ==
    \/ \E s \in Sessions, p \in Processes, op \in Operations, k \in Keys, loud \in BOOLEAN :
           Begin(s, p, op, <<k>>, loud)
    \/ \E s \in Sessions, p \in Processes : Begin(s, p, "publish", Bundle, TRUE)
    \/ \E s \in Sessions : Select(s) \/ Change(s) \/ SelectAgain(s) \/ Flush(s) \/ Commit(s)
    \/ \E p \in Processes : Kill(p)

Spec == Init /\ [][Next]_vars

-----------------------------------------------------------------------------
(* Properties *)

TypeOK ==
    /\ row \in [Keys -> Payload \cup {None}]
    /\ memory \in [Processes -> [Keys -> Payload \cup {None}]]
    /\ sess \in [Sessions -> Session \cup {None}]
    /\ changes \in 0 .. MaxChanges
    /\ requests \in Nat /\ faults \in Nat /\ kills \in Nat
    /\ answered \subseteq 1 .. MaxChanges /\ excused \subseteq 1 .. MaxChanges

Chain(payload) == payload # None =>
    LET entries == Append(payload.history, payload.current) IN
    \A i \in 1 .. Len(entries) - 1 : entries[i + 1].version = entries[i].version + 1

(* The versions of a stored payload count up by one to the current one,    *)
(* whatever was published over a rollback, over another request's entry,   *)
(* over a full history or over a process's memory (publish_config).        *)
VersionsCount ==
    \A k \in Keys : Chain(row[k]) /\ \A p \in Processes : Chain(memory[p][k])

(* A publication that was answered with success stays in the row of its    *)
(* key unless a statement of its request or of a later one of its bundle   *)
(* failed, its commit failed silently, it was rolled back or is too old,   *)
(* or the next write was based on another payload than the row's           *)
(* (publish_config, _persist_payload).                                     *)
PublishedIsKept ==
    \A id \in answered \ excused : \E k \in Keys : id \in Ids(row[k])
=============================================================================
