---------------------------- MODULE MCMessageBus ----------------------------
(* MessageBus on small sets.  The properties treat the processes alike.    *)
EXTENDS MessageBus, TLC

ProcessSymmetry == Permutations(Processes)

(* States are told apart by what the actions read and by what the checked  *)
(* properties say something of: no action reads received, gone, read, cut  *)
(* or whom an accepted message was for, Mailbox speaks of these only in    *)
(* what a step adds to them, and a cut that explains nothing, now or ever, *)
(* does not count.                                                         *)
Explains(n) == n \notin read /\ ~log[n].given /\ InFile(n)
Seen == <<[n \in DOMAIN log |-> [log[n] EXCEPT !.to = Everybody]], file, unended, up, bus,
          cursor, faults, kills, start, intact, read, {n \in cut : Explains(n)}>>
=============================================================================
