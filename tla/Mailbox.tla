------------------------------- MODULE Mailbox -------------------------------
(***************************************************************************)
(* What the inboxes of the message bus (agents/message_protocol.py)        *)
(* promise to senders and receivers: no offsets, no histories, no file.    *)
(*                                                                         *)
(* A message to one receiver waits for it, a message to everybody for      *)
(* those who are there.  A receiver gets each message once; of what one    *)
(* process has accepted and numbered for it, it gets the messages of a     *)
(* kind in their order.  A message that waits for nobody any more has been *)
(* received, or it was lost with an inbox.                                 *)
(***************************************************************************)
EXTENDS Naturals, Sequences

CONSTANTS
    Receivers,
    Everybody,    \* the receiver of a broadcast
    Letters       \* messages: to whom, by whom accepted, of what kind, and
                  \* whether with an offset of the client's

VARIABLES
    posted,       \* the messages that were accepted, in that order
    waiting,      \* the numbers of those that wait for each receiver
    taken,        \* and of those that it has received
    lost          \* and of those that were lost to some receiver

vars == <<posted, waiting, taken, lost>>

\* One process accepted both of one kind, n first, and gave them their offsets.
Before(n, k) ==
    /\ n < k /\ posted[n].by = posted[k].by /\ posted[n].kind = posted[k].kind
    /\ ~posted[n].given /\ ~posted[k].given

Init ==
    /\ posted = <<>>
    /\ waiting = [r \in Receivers |-> {}]
    /\ taken = [r \in Receivers |-> {}]
    /\ lost = {}

\* send.
Post(addressees) ==
    LET n == Len(posted) + 1 IN
    /\ Len(posted') = n
    /\ \A k \in 1 .. Len(posted) : posted'[k] = posted[k]
    /\ posted'[n] \in Letters
    /\ posted'[n].to # Everybody => addressees = {posted'[n].to}
    /\ waiting' = [r \in Receivers |->
           IF r \in addressees THEN waiting[r] \cup {n} ELSE waiting[r]]
    /\ UNCHANGED <<taken, lost>>

\* receive.
Take(r, batch) ==
    /\ \A k \in batch : \A n \in waiting[r] \ batch : ~Before(n, k)
    /\ waiting' = [waiting EXCEPT ![r] = @ \ batch]
    /\ taken' = [taken EXCEPT ![r] = @ \cup batch]
    /\ UNCHANGED <<posted, lost>>

\* unregister_receiver, or the end of a process.
Lose ==
    /\ waiting' \in [Receivers -> SUBSET (1 .. Len(posted))]
    /\ \A r \in Receivers : waiting'[r] \subseteq waiting[r]
    /\ lost' = lost \cup UNION {waiting[r] \ waiting'[r] : r \in Receivers}
    /\ UNCHANGED <<posted, taken>>

Next ==
    \/ \E addressees \in SUBSET Receivers : Post(addressees)
    \/ \E r \in Receivers : \E batch \in SUBSET waiting[r] : Take(r, batch)
    \/ Lose

Spec == Init /\ [][Next]_vars
=============================================================================
