---------------------------- MODULE EventDelivery ----------------------------
(***************************************************************************)
(* What the outbox (services/data_sync_service.py over                     *)
(* repositories/data_sync_repository.py) promises to those who read its    *)
(* table and to those who consume its messages: no requests, no sessions,  *)
(* no locks.                                                               *)
(*                                                                         *)
(* An event is published once.  Its message goes out once, while the event *)
(* is open, and its status says only what has happened to it; sent and     *)
(* given up are final.  The exception is an event that was released:       *)
(* listed by overlapping requests, replayed, or with a mark that was       *)
(* rolled back.                                                            *)
(***************************************************************************)
EXTENDS Naturals

CONSTANTS
    Events,       \* event keys
    MaxRetries    \* failed sends that do not give an event up

VARIABLES
    status,       \* the status of each event in the table
    left,         \* how often its message has gone out
    failed,       \* how often a send of it has failed
    released      \* the events that may go out again

vars == <<status, left, failed, released>>

OpenStatus == {"pending", "failed"}
Status == OpenStatus \cup {"absent", "sent", "dead_letter"}
Published == {e \in Events : status[e] # "absent"}
MayGoOut(e) == e \in released \/ (status[e] \in OpenStatus /\ left[e] = 0)

Init ==
    /\ status = [e \in Events |-> "absent"]
    /\ left = [e \in Events |-> 0]
    /\ failed = [e \in Events |-> 0]
    /\ released = {}

\* publish_domain_event.
Publish(e) ==
    /\ e \notin Published
    /\ status' = [status EXCEPT ![e] = "pending"]
    /\ UNCHANGED <<left, failed, released>>

\* _dispatch_event, which succeeds or raises.
Deliver(e) ==
    /\ e \in Published /\ MayGoOut(e)
    /\ left' = [left EXCEPT ![e] = @ + 1]
    /\ UNCHANGED <<status, failed, released>>

Refuse(e) ==
    /\ e \in Published /\ MayGoOut(e)
    /\ failed' = [failed EXCEPT ![e] = @ + 1]
    /\ UNCHANGED <<status, left, released>>

\* Requests overlap, replay an event or are rolled back.
Release ==
    /\ released \subseteq released' /\ released' \subseteq released \cup Published
    /\ UNCHANGED <<status, left, failed>>

\* What has to have happened for an event to get a status.
Earned(e, new) ==
    CASE new = "sent"        -> left[e] > 0
      [] new = "failed"      -> failed[e] > 0
      [] new = "dead_letter" -> failed[e] > MaxRetries
      [] new = "pending"     -> e \in released
      [] OTHER               -> FALSE

\* The commit of a request.
Settle ==
    /\ status' \in [Events -> Status]
    /\ \A e \in Events : status'[e] # status[e] =>
          /\ e \in Published /\ Earned(e, status'[e])
          /\ status[e] \in OpenStatus \/ e \in released
    /\ UNCHANGED <<left, failed, released>>

Next ==
    \/ \E e \in Events : Publish(e) \/ Deliver(e) \/ Refuse(e)
    \/ Release
    \/ Settle

Spec == Init /\ [][Next]_vars
=============================================================================
