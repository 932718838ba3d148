----------------------------- MODULE ErpFeedback -----------------------------
(***************************************************************************)
(* The feedback of the ERP: it reports what became of a submitted          *)
(* suggestion on one Kafka topic per outcome, and ErpFeedbackWorker        *)
(* (workers/erp_feedback_worker.py) collects batches of these messages and *)
(* applies each to the recommendation pool, beside the requests that       *)
(* approve and push recommendations over HTTP.                             *)
(***************************************************************************)
EXTENDS RecommendationPool, Sequences

CONSTANTS
    Worker,     \* the session of the worker, one of Sessions
    BatchSize,  \* messages that the worker collects before it handles one
    MaxSent     \* bound: messages of the ERP

ASSUME FeedbackAssumption ==
    /\ Worker \in Sessions
    /\ BatchSize \in Nat \ {0}
    /\ MaxSent \in Nat

VARIABLES
    erp,        \* what the ERP says of each recommendation, or None
    sent,       \* its messages, in the order of their sending
    topic,      \* the numbers of the messages of each outcome, oldest first
    mode,       \* "down", "collect" or "handle"
    pos,        \* messages of each topic that the consumer has returned
    saved,      \* the committed offsets, or None before the first commit
    batch,      \* numbers of the messages collected and not handled yet
    applied,    \* history: how often a message has moved its recommendation
    fate,       \* history: what became of each message that moved nothing
    broke,      \* history: the worker was killed, or a poll raised
    renewed     \* history: messages applied before a submission's commit

kafka == <<sent, topic>>
worker == <<mode, pos, saved, batch, applied, fate, broke>>
allvars == <<vars, erp, kafka, worker, renewed>>

Message == [rec : Recs, target : Reports]
Numbers == 1 .. MaxSent

\* Sent before the first start; refused by the state table; its handling failed,
\* and its dead letter is in the dead-letter topic, or was not sent.
Fates == {"none", "missed", "refused", "dead", "dropped"}

-----------------------------------------------------------------------------
Full(b) == Len(b) >= BatchSize

FeedbackInit ==
    /\ Init
    /\ erp = [r \in Recs |-> None]
    /\ sent = <<>>
    /\ topic = [t \in Reports |-> <<>>]
    /\ mode = "down"
    /\ pos = [t \in Reports |-> 0]
    /\ saved = None
    /\ batch = <<>>
    /\ applied = [n \in Numbers |-> 0]
    /\ fate = [n \in Numbers |-> "none"]
    /\ broke = FALSE
    /\ renewed = {}

\* The requests over HTTP, and what becomes of events; a submission begins the
\* ERP's own work.
Http ==
    /\ \/ \E s \in Sessions \ {Worker} :
             \/ \E r \in Recs : \/ Generate(s, r)
                                \/ Call(s, r)
                                \/ Read(s, r, "approve", "PMS_APPROVED", None)
             \/ Progress(s)
             \/ Rollback(s)
       \/ \E r \in Recs : Arrive(r)
    /\ erp' = [r \in Recs |-> IF calls'[r] > calls[r] THEN "ERP_SUBMITTED" ELSE erp[r]]
    /\ renewed' = renewed \cup
          {n \in DOMAIN sent : /\ applied[n] > 0 /\ row'[sent[n].rec] # row[sent[n].rec]
                               /\ row'[sent[n].rec].state = "ERP_SUBMITTED"}
    /\ UNCHANGED <<kafka, worker>>

\* The ERP goes on with a suggestion and reports it: it does not wait for the
\* commit of the request that has submitted it.
Report(r, t) ==
    /\ Len(sent) < MaxSent
    /\ erp[r] # None /\ CanTransition(erp[r], t)
    /\ erp' = [erp EXCEPT ![r] = t]
    /\ sent' = Append(sent, [rec |-> r, target |-> t])
    /\ topic' = [topic EXCEPT ![t] = Append(@, Len(sent) + 1)]
    /\ UNCHANGED <<vars, worker, renewed>>

\* Without a committed offset the consumer starts at the end of the topic.
Start ==
    /\ mode = "down"
    /\ mode' = "collect"
    /\ pos' = [t \in Reports |-> IF saved = None THEN Len(topic[t]) ELSE saved[t]]
    /\ fate' = [n \in Numbers |-> IF saved = None /\ n \in DOMAIN sent THEN "missed" ELSE fate[n]]
    /\ UNCHANGED <<vars, erp, kafka, saved, batch, applied, broke, renewed>>

(* mutant: the loop is left before the last message is appended. *)
CollectDropping(t) ==
    /\ mode = "collect" /\ pos[t] < Len(topic[t])
    /\ pos' = [pos EXCEPT ![t] = @ + 1]
    /\ IF Len(batch) + 1 >= BatchSize
       THEN batch' = batch /\ mode' = "handle"
       ELSE batch' = Append(batch, topic[t][pos[t] + 1]) /\ mode' = mode
    /\ UNCHANGED <<vars, erp, kafka, saved, applied, fate, broke, renewed>>
Collect(t) ==
    /\ mode = "collect" /\ pos[t] < Len(topic[t])
    /\ pos' = [pos EXCEPT ![t] = @ + 1]
    /\ batch' = Append(batch, topic[t][pos[t] + 1])
    /\ mode' = IF Full(batch') THEN "handle" ELSE "collect"
    /\ UNCHANGED <<vars, erp, kafka, saved, applied, fate, broke, renewed>>

\* The consumer raises while a batch fills: the batch is a local variable.
PollFails ==
    /\ mode = "collect"
    /\ batch' = <<>>
    /\ broke' = TRUE
    /\ UNCHANGED <<vars, erp, kafka, mode, pos, saved, applied, fate, renewed>>

\* enable_auto_commit: every 5 s, what the consumer has returned.
AutoCommit ==
    /\ mode # "down" /\ saved # pos
    /\ saved' = pos
    /\ UNCHANGED <<vars, erp, kafka, mode, pos, batch, applied, fate, broke, renewed>>

\* The message is handled, whatever came of it.
NextMessage == /\ batch' = Tail(batch)
              /\ mode' = IF Tail(batch) = <<>> THEN "collect" ELSE "handle"

(* mutant: a refused message is tried again at once. *)
RefuseKept ==
    /\ mode = "handle" /\ ~Open(Worker)
    /\ LET e == sent[batch[1]]
       IN  ~CanTransition(row[e.rec].state, e.target)
    /\ fate' = [fate EXCEPT ![batch[1]] = "refused"]
    /\ UNCHANGED <<vars, erp, kafka, mode, pos, saved, batch, applied, broke, renewed>>

\* advance_state answers {"error": ...}, the handler "processed".
Refuse ==
    /\ mode = "handle" /\ ~Open(Worker)
    /\ LET e == sent[batch[1]]
       IN  ~CanTransition(row[e.rec].state, e.target)
    /\ fate' = [fate EXCEPT ![batch[1]] = "refused"]
    /\ NextMessage
    /\ UNCHANGED <<vars, erp, kafka, pos, saved, applied, broke, renewed>>

\* handle_erp_feedback_event reads the row, and goes on when it has the lock.
Handle ==
    /\ mode = "handle"
    /\ \/ /\ ~Open(Worker)
          /\ \E d \in Details :
                Read(Worker, sent[batch[1]].rec, "advance", sent[batch[1]].target, d)
       \/ Write(Worker)
    /\ UNCHANGED <<erp, kafka, worker, renewed>>

Finish ==
    /\ mode = "handle"
    /\ Commit(Worker)
    /\ applied' = [applied EXCEPT ![batch[1]] = @ + 1]
    /\ NextMessage
    /\ UNCHANGED <<erp, kafka, pos, saved, fate, broke, renewed>>

\* An exception of the handler: its session is rolled back, a dead letter is
\* sent.  _send_to_dlq swallows what that raises, and send_message may keep the
\* letter in the memory of the worker, which nobody reads.
Fail ==
    /\ mode = "handle"
    /\ IF Open(Worker) THEN Rollback(Worker) ELSE UNCHANGED vars
    /\ \E f \in {"dead", "dropped"} : fate' = [fate EXCEPT ![batch[1]] = f]
    /\ NextMessage
    /\ UNCHANGED <<erp, kafka, pos, saved, applied, broke, renewed>>

(* mutant: the batch outlives the run of the worker. *)
KillKeepingBatch ==
    /\ mode # "down"
    /\ IF Open(Worker) THEN Rollback(Worker) ELSE UNCHANGED vars
    /\ mode' = "down"
    /\ pos' = [t \in Reports |-> 0]
    /\ broke' = TRUE
    /\ UNCHANGED <<erp, kafka, saved, batch, applied, fate, renewed>>

\* A kill; a cancellation does the same, for run_forever swallows it and
\* run_worker then has no exception that would make it call stop.
Kill ==
    /\ mode # "down"
    /\ IF Open(Worker) THEN Rollback(Worker) ELSE UNCHANGED vars
    /\ mode' = "down"
    /\ pos' = [t \in Reports |-> 0]
    /\ batch' = <<>>
    /\ broke' = TRUE
    /\ UNCHANGED <<erp, kafka, saved, applied, fate, renewed>>

WorkerStep == Refuse \/ Handle \/ Finish

FeedbackNext ==
    \/ Http
    \/ \E r \in Recs, t \in Reports : Report(r, t)
    \/ Start \/ (\E t \in Reports : Collect(t)) \/ PollFails \/ AutoCommit
    \/ WorkerStep \/ Fail \/ Kill

FeedbackSpec == FeedbackInit /\ [][FeedbackNext]_allvars

\* The worker goes on with a batch; a request gets its row lock in turn.
FairFeedbackSpec ==
    /\ FeedbackSpec
    /\ SF_allvars(WorkerStep)
    /\ SF_allvars(Http /\ \E s \in Sessions \ {Worker} : Progress(s))

-----------------------------------------------------------------------------
FeedbackTypeOK ==
    /\ TypeOK
    /\ erp \in [Recs -> State \cup {None}]
    /\ sent \in Seq(Message) /\ Len(sent) <= MaxSent
    /\ topic \in [Reports -> Seq(Numbers)]
    /\ mode \in {"down", "collect", "handle"}
    /\ pos \in [Reports -> 0 .. MaxSent]
    /\ saved \in [Reports -> 0 .. MaxSent] \cup {None}
    /\ batch \in Seq(Numbers) /\ Len(batch) <= BatchSize
    /\ applied \in [Numbers -> Nat]
    /\ fate \in [Numbers -> Fates]
    /\ renewed \subseteq Numbers
    /\ broke \in BOOLEAN

\* The message is in the batch, was applied, was refused, is in the dead-letter
\* topic or came before the first start.
AccountedFor(n) ==
    \/ fate[n] \in {"missed", "refused", "dead"}
    \/ applied[n] > 0
    \/ \E i \in DOMAIN batch : batch[i] = n

\* Every message that the consumer has returned is accounted for, unless the
\* worker was killed or a poll raised (offsets are committed by a clock and not
\* by what was handled), or both the handling of the message and the sending of
\* its dead letter failed: nothing else loses one.
LossHasACause ==
    broke \/ \A t \in Reports : \A k \in 1 .. pos[t] :
                 AccountedFor(topic[t][k]) \/ fate[topic[t][k]] = "dropped"

\* A message that is read again after a restart is applied again only if the
\* commit of a submission of its recommendation came in between, or a stale
\* request wrote an earlier state over it (two approvals that overlap): the
\* state table stands in for the message identifiers that nobody keeps.
AppliedTwiceHasACause ==
    \A n \in DOMAIN sent :
        applied[n] > 1 => broke /\ (n \in renewed \/ raced[sent[n].rec])

\* A full batch is worked off, whatever locks its messages wait for.
FullBatchIsHandled == Full(batch) ~> batch = <<>>
=============================================================================
