----------------------------- MODULE MessageBus -----------------------------
(***************************************************************************)
(* The message bus of the agents (agents/message_protocol.py), of which    *)
(* every API process keeps one per tenant                                  *)
(* (AgentPlatformService.MESSAGE_BUS_STORE): a history and the inboxes of  *)
(* the receivers, in memory, and one file of JSON lines that the processes *)
(* share, each appending what it accepts and reading the file only when it *)
(* starts.  Clients follow the history over HTTP, page by page, at any     *)
(* process.                                                                *)
(*                                                                         *)
(* A message is its number in log.  send, receive and replay have no await *)
(* in them: each is one step of its process.  The offset of a message is   *)
(* the process's next, or what its metadata already hold: POST             *)
(* /platform/messages takes any metadata.  Supplied offsets are integers   *)
(* here; one that int() refuses makes every later sort and load raise.     *)
(***************************************************************************)
EXTENDS Integers, FiniteSets, Sequences, FiniteSetsExt, Functions

CONSTANTS
    Processes,    \* API processes
    Receivers,    \* names of receivers
    Kinds,        \* message types
    Everybody,    \* receiver "*"
    MaxHistory,   \* max_history
    PageSize,     \* limit of replay and receive
    ClientOffsets, \* offsets that clients supply in the metadata
    MaxSent,      \* bound: messages
    MaxGiven,     \* bound: messages with an offset supplied by a client
    MaxFaults,    \* bound: appends that fail or break off, reads that fail
    MaxKills,     \* bound: kills of a process
    None

ASSUME BusAssumption ==
    /\ Everybody \notin Receivers
    /\ ClientOffsets \subseteq Int
    /\ None \notin Kinds /\ None \notin ClientOffsets
    /\ MaxHistory \in Nat \ {0} /\ PageSize \in Nat \ {0}
    /\ MaxSent \in Nat /\ MaxGiven \in Nat /\ MaxFaults \in Nat /\ MaxKills \in Nat

VARIABLES
    log,        \* the messages accepted so far, by any process
    file,       \* the lines of the file, each a message or Garbage
    unended,    \* the last line has no line feed
    up,         \* the processes that run
    history,    \* _history of each process
    last,       \* _last_offset
    inbox,      \* _inbox: the messages that wait for each registered name
    cursor,     \* after_offset of the client that pages through the history
    faults, kills,
    start,      \* history: length of log when the process started
    intact,     \* history: the process could read the whole file
    received,   \* history: what each receiver has received
    gone,       \* history: messages of inboxes that were dropped with them
    read,       \* history: messages that the client has read
    cut         \* history: messages that a history or a page had no room for

bus == <<history, last, inbox>>
vars == <<log, file, unended, up, bus, cursor, faults, kills, start, intact,
          received, gone, read, cut>>

Garbage == 0
Numbers == 1 .. MaxSent
\* Besides what is sent: whether its offset was supplied, which process has
\* accepted it, and start and intact of that process then.
Message == [to : Receivers \cup {Everybody}, kind : Kinds, offset : Int, given : BOOLEAN,
            by : Processes, start : Nat, intact : BOOLEAN]
Inboxes == UNION {[names -> SUBSET Numbers] : names \in SUBSET Receivers}

Offset(n) == log[n].offset
Largest(S) == IF S = {} THEN 0 ELSE Max(S)

\* _sort_messages(...)[:size] and [-size:]: of equal offsets the time stamps
\* and the ids decide, which are left open.
Parts(S, size) == {T \in SUBSET S : Cardinality(T) = Min({size, Cardinality(S)})}
Firsts(S, size) ==
    {T \in Parts(S, size) : \A k \in T, n \in S \ T : Offset(k) <= Offset(n)}
Lasts(S, size) ==
    {T \in Parts(S, size) : \A k \in T, n \in S \ T : Offset(k) >= Offset(n)}
\* list[-size:].
LastPart(s, size) == IF Len(s) <= size THEN s ELSE SubSeq(s, Len(s) - size + 1, Len(s))

Init ==
    /\ log = <<>> /\ file = <<>> /\ unended = FALSE
    /\ up = {}
    /\ history = [p \in Processes |-> <<>>]
    /\ last = [p \in Processes |-> 0]
    /\ inbox = [p \in Processes |-> [r \in {} |-> {}]]
    /\ cursor = 0
    /\ faults = 0 /\ kills = 0
    /\ start = [p \in Processes |-> 0]
    /\ intact = [p \in Processes |-> TRUE]
    /\ received = [r \in Receivers |-> {}]
    /\ gone = {} /\ read = {} /\ cut = {}

-----------------------------------------------------------------------------
(* mutant: a line without a line feed is not read. *)
ReadableEnded ==
    LET unparsed == {k \in DOMAIN file : file[k] = Garbage \/ (unended /\ k = Len(file))}
    IN  IF unparsed = {} THEN file ELSE SubSeq(file, 1, Min(unparsed) - 1)
\* The lines before the first that cannot be parsed.
Readable ==
    LET unparsed == {k \in DOMAIN file : file[k] = Garbage}
    IN  IF unparsed = {} THEN file ELSE SubSeq(file, 1, Min(unparsed) - 1)

\* _load_persisted_history: a line that cannot be parsed ends the loading,
\* with the counter at what was read and the history empty; so does a file
\* that cannot be read, before its first line.
Load(p) ==
    /\ p \notin up
    /\ up' = up \cup {p}
    /\ \E read_text \in BOOLEAN :
       LET loaded == IF read_text THEN Readable ELSE <<>>
           whole == read_text /\ Garbage \notin Range(file)
       IN  /\ ~read_text => faults < MaxFaults
           /\ faults' = IF read_text THEN faults ELSE faults + 1
           /\ last' = [last EXCEPT ![p] = Largest({0} \cup {Offset(n) : n \in Range(loaded)})]
           /\ history' = [history EXCEPT ![p] =
                  IF whole THEN LastPart(loaded, MaxHistory) ELSE <<>>]
           /\ intact' = [intact EXCEPT ![p] = whole]
           /\ cut' = IF whole
                     THEN cut \cup (Range(loaded) \ Range(LastPart(loaded, MaxHistory)))
                     ELSE cut
    /\ start' = [start EXCEPT ![p] = Len(log)]
    /\ UNCHANGED <<log, file, unended, inbox, cursor, kills, received, gone, read>>

\* _inbox.get(name, []).
Waiting(boxes, r) == IF r \in DOMAIN boxes THEN boxes[r] ELSE {}

(* mutant: a broadcast has an inbox of its own. *)
DeliveredByName(boxes, to, n) ==
    [r \in DOMAIN boxes \cup {to} |->
        IF r = to THEN Waiting(boxes, to) \cup {n} ELSE boxes[r]]
(* mutant: the inbox of a name that is new takes no message. *)
DeliveredIfThere(boxes, to, n) ==
    [r \in DOMAIN boxes \cup ({to} \ {Everybody}) |->
        Waiting(boxes, r) \cup {k \in {n} : r \in DOMAIN boxes /\ to \in {r, Everybody}}]
\* Where a message goes: to all inboxes that are there, or to the receiver's,
\* which is made if need be.
Delivered(boxes, to, n) ==
    IF to = Everybody
    THEN [r \in DOMAIN boxes |-> boxes[r] \cup {n}]
    ELSE [r \in DOMAIN boxes \cup {to} |->
             IF r = to THEN Waiting(boxes, to) \cup {n} ELSE boxes[r]]

\* What the file is after the append of message n: it may break off with
\* nothing, a part of the line or all but the line feed written; the text may
\* hold what splitlines takes for the end of a line; and what comes after an
\* unended line is on that line.
Appended(n, outcome) ==
    CASE outcome = "nothing"                          -> file
      [] outcome # "nothing" /\ unended               -> [file EXCEPT ![Len(file)] = Garbage]
      [] outcome \in {"part", "split"} /\ ~unended    -> Append(file, Garbage)
      [] outcome \in {"line", "whole"} /\ ~unended    -> Append(file, n)

\* _append_persistence of message n.
Persist(n, outcome) ==
    /\ outcome # "whole" => faults < MaxFaults
    /\ faults' = IF outcome = "whole" THEN faults ELSE faults + 1
    /\ file' = Appended(n, outcome)
    /\ unended' = CASE outcome = "nothing" -> unended
                    [] outcome \in {"whole", "split"} -> FALSE
                    [] OTHER               -> TRUE

(* mutants: offsets by the length of the history, or anew in every run. *)
NextOffsetByLength(p) == Len(history[p]) + 1
NextOffsetOfRun(p) == Cardinality({n \in DOMAIN log : log[n].by = p /\ n > start[p]}) + 1
NextOffset(p) == last[p] + 1

Outcomes == {"whole", "split", "line", "part", "nothing"}

\* send, by POST /platform/messages: the counter goes on, but an offset that
\* the client supplied is kept (setdefault); whatever becomes of the line,
\* the message is in the history and in the inboxes.
Send(p, to, kind, supplied) ==
    /\ p \in up /\ Len(log) < MaxSent
    /\ supplied # None => Cardinality({k \in DOMAIN log : log[k].given}) < MaxGiven
    /\ LET n == Len(log) + 1
           kept == Append(history[p], n)
       IN  /\ log' = Append(log, [to |-> to, kind |-> kind,
                  offset |-> IF supplied = None THEN NextOffset(p) ELSE supplied,
                  given |-> supplied # None,
                  by |-> p, start |-> start[p], intact |-> intact[p]])
           /\ last' = [last EXCEPT ![p] = @ + 1]
           /\ history' = [history EXCEPT ![p] = LastPart(kept, MaxHistory)]
           /\ cut' = cut \cup (Range(kept) \ Range(LastPart(kept, MaxHistory)))
           /\ \E outcome \in Outcomes : Persist(n, outcome)
           /\ inbox' = [inbox EXCEPT ![p] = Delivered(@, to, n)]
    /\ UNCHANGED <<up, cursor, kills, start, intact, received, gone, read>>

\* receive: the oldest messages of the kind asked for, which are taken out.
Receive(p, r, kind) ==
    /\ p \in up
    /\ LET here == Waiting(inbox[p], r)
           asked == {n \in here : kind = None \/ log[n].kind = kind}
       IN  \E result \in Firsts(asked, PageSize) :
           /\ inbox' = [inbox EXCEPT ![p] =
                  [q \in DOMAIN inbox[p] \cup {r} |->
                      IF q = r THEN here \ result ELSE inbox[p][q]]]
           /\ received' = [received EXCEPT ![r] = @ \cup result]
    /\ UNCHANGED <<log, file, unended, up, history, last, cursor, faults, kills, start,
                   intact, gone, read, cut>>

Register(p, r) ==
    /\ p \in up /\ r \notin DOMAIN inbox[p]
    /\ inbox' = [inbox EXCEPT ![p] =
           [q \in DOMAIN inbox[p] \cup {r} |-> IF q = r THEN {} ELSE inbox[p][q]]]
    /\ UNCHANGED <<log, file, unended, up, history, last, cursor, faults, kills, start,
                   intact, received, gone, read, cut>>

Unregister(p, r) ==
    /\ p \in up /\ r \in DOMAIN inbox[p]
    /\ inbox' = [inbox EXCEPT ![p] = [q \in DOMAIN inbox[p] \ {r} |-> inbox[p][q]]]
    /\ gone' = gone \cup inbox[p][r]
    /\ UNCHANGED <<log, file, unended, up, history, last, cursor, faults, kills, start,
                   intact, received, read, cut>>

\* query: the messages after the cursor, if there is one, ...
Found(p) == {n \in Range(history[p]) : cursor > 0 => Offset(n) > cursor}

\* replay, by GET /platform/messages/replay, from the next_offset of the last
\* page: ... of which the page has those of the largest offsets.
Replay(p) ==
    /\ p \in up
    /\ \E page \in Lasts(Found(p), PageSize) :
           /\ page # {}
           /\ cursor' = Largest({cursor} \cup {Offset(n) : n \in page})
           /\ read' = read \cup page
           /\ cut' = cut \cup (Found(p) \ page)
    /\ UNCHANGED <<log, file, unended, up, bus, faults, kills, start, intact, received, gone>>

\* The process is killed, perhaps while it writes a line.
Kill(p) ==
    /\ p \in up /\ kills < MaxKills
    /\ kills' = kills + 1
    /\ up' = up \ {p}
    /\ history' = [history EXCEPT ![p] = <<>>]
    /\ last' = [last EXCEPT ![p] = 0]
    /\ inbox' = [inbox EXCEPT ![p] = [r \in {} |-> {}]]
    /\ gone' = gone \cup UNION {inbox[p][r] : r \in DOMAIN inbox[p]}
    /\ \/ UNCHANGED <<file, unended, faults>>
       \/ Persist(Garbage, "part")
    /\ start' = [start EXCEPT ![p] = 0] /\ intact' = [intact EXCEPT ![p] = TRUE]
    /\ UNCHANGED <<log, cursor, received, read, cut>>

Next ==
    \E p \in Processes :
        \/ Load(p)
        \/ \E to \in Receivers \cup {Everybody}, kind \in Kinds,
              supplied \in ClientOffsets \cup {None} : Send(p, to, kind, supplied)
        \/ \E r \in Receivers, kind \in Kinds \cup {None} : Receive(p, r, kind)
        \/ \E r \in Receivers : Register(p, r)
        \/ \E r \in Receivers : Unregister(p, r)
        \/ Replay(p)
        \/ Kill(p)

Spec == Init /\ [][Next]_vars

-----------------------------------------------------------------------------
(* Properties *)

TypeOK ==
    /\ log \in Seq(Message) /\ file \in Seq(Numbers \cup {Garbage})
    /\ unended \in BOOLEAN
    /\ up \subseteq Processes
    /\ history \in [Processes -> Seq(Numbers)]
    /\ last \in [Processes -> Nat]
    /\ inbox \in [Processes -> Inboxes]
    /\ cursor \in Nat /\ faults \in Nat /\ kills \in Nat
    /\ start \in [Processes -> Nat] /\ intact \in [Processes -> BOOLEAN]
    /\ received \in [Receivers -> SUBSET Numbers]
    /\ gone \subseteq Numbers /\ read \subseteq Numbers /\ cut \subseteq Numbers

InFile(n) == n \in Range(file)

\* The process of the later of two messages did not know the earlier one: it
\* is another's and it was accepted since that process had started, or that
\* process could not read the whole file when it started.
Unaware(m, n) ==
    LET earlier == Min({m, n})  later == Max({m, n})
    IN  \/ log[later].by # log[earlier].by /\ log[later].start < earlier
        \/ ~log[later].intact /\ earlier <= log[later].start

(* Two messages that the bus numbered share an offset only if the later    *)
(* one's process was unaware of the earlier one, or the file does not hold *)
(* that: a process alone counts on over restarts, also when its history is *)
(* cut or clients supply offsets (_next_offset, _load_persisted_history).  *)
SameOffsetHasACause ==
    \A m, n \in DOMAIN log :
        m < n /\ Offset(m) = Offset(n) /\ ~log[m].given /\ ~log[n].given
        => Unaware(m, n) \/ ~InFile(m)

(* A process knows every message that it accepted, and, if it could read   *)
(* the file when it started, every one accepted before that is in the      *)
(* file, but for the oldest when the history is full (send,                *)
(* _load_persisted_history).                                               *)
HistoryIsComplete ==
    \A p \in up, n \in DOMAIN log :
        \/ n \in Range(history[p])
        \/ ~(log[n].by = p /\ n > start[p]) /\ ~(n <= start[p] /\ intact[p] /\ InFile(n))
        \/ Len(history[p]) = MaxHistory /\ \A k \in Range(history[p]) : k > n

(* A client that follows next_offset passes a message over only if a page  *)
(* or a history had no room for it (replay: the page has the newest, not   *)
(* the next ones), or its offset was supplied, or the client has read one  *)
(* with no smaller offset, which was supplied, or whose process and this   *)
(* one's were unaware, or the file does not hold one of the two.           *)
PassedOverHasACause ==
    \A n \in DOMAIN log : Offset(n) <= cursor /\ n \notin read =>
        \/ n \in cut
        \/ log[n].given
        \/ ~InFile(n)
        \/ \E k \in read :
              /\ Offset(k) >= Offset(n)
              /\ log[k].given \/ Unaware(k, n) \/ ~InFile(k)

(* A message to one receiver waits in the inbox of the process that        *)
(* accepted it until it is received, unless that process was killed or the *)
(* receiver was unregistered: the file brings back the history only.       *)
WaitsOrIsReceived ==
    \A n \in DOMAIN log : log[n].to # Everybody =>
        LET r == log[n].to  p == log[n].by IN
        \/ n \in received[r]
        \/ n \in gone
        \/ r \in DOMAIN inbox[p] /\ n \in inbox[p][r]

(* The messages that wait for a receiver, at any process.                   *)
WaitsFor(r) == UNION {Waiting(inbox[p], r) : p \in Processes}

(* The buses of all processes together are one set of mailboxes: a message *)
(* goes to whom it is for and is received once, those of one process and   *)
(* kind that the bus numbered are received in order, and a message is lost *)
(* only with its inbox (send, receive, unregister_receiver).               *)
Mailboxes == INSTANCE Mailbox WITH
    Letters <- Message,
    posted  <- log,
    waiting <- [r \in Receivers |-> WaitsFor(r)],
    taken   <- received,
    lost    <- gone

ImplementsMailbox == Mailboxes!Spec
=============================================================================
