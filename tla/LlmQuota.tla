------------------------------ MODULE LlmQuota ------------------------------
(***************************************************************************)
(* The cost quota of a tenant (repositories/tenant_quota_repository.py)    *)
(* around the calls of a language model (api/v1/endpoints/llm.py).         *)
(*                                                                         *)
(* A handler opens one session: it reads the quota and tests it, calls the *)
(* model, adds the cost to the copy it read before the call, and commits.  *)
(* Failures of the quota's statements let the call through, and its cost   *)
(* is added all the same when the session is still of use.  A handler that *)
(* fails tries a second time, also when it fails after its commit; in      *)
(* remote-service mode it first asks another instance of the same API,     *)
(* over the same table, and falls back to its own process when that one is *)
(* late or fails or its answer is lost.                                    *)
(***************************************************************************)
EXTENDS Naturals, FiniteSets

CONSTANTS
    Clients,
    RemoteMode,     \* the clients of instances with llm_mode "remote-service"
    DefaultLimit,   \* default_limit, in USD
    Scale,          \* COST_QUOTA_SCALE
    LegacyMax,      \* a limit up to this is in USD: 1000
    Estimate,       \* estimated_cost, encoded
    Costs,          \* cost_usd of an answer, encoded
    MaxFaults,      \* bound: statements, commits, calls and handlers that fail
    None

ASSUME QuotaAssumption ==
    /\ RemoteMode \subseteq Clients
    /\ DefaultLimit \in Nat \ {0} /\ LegacyMax \in Nat /\ DefaultLimit <= LegacyMax
    /\ Scale \in Nat /\ Scale > LegacyMax
    /\ Estimate \in Nat \ {0} /\ Costs \subseteq Nat
    /\ MaxFaults \in Nat

VARIABLES
    row,        \* the tenant's row of tenant_quotas, or None
    work,       \* what each handler is doing
    faults,
    spent,      \* history: what consume_quota has added to what the row said at first
    counted,    \* history: cost committed with no other session open meanwhile
    waved,      \* history: cost committed of calls whose check had failed
    charges,    \* history: commits of a cost by each handler
    lost        \* history: answers that never came, for each client

history == <<spent, counted, waved, charges, lost>>
vars == <<row, work, faults, history>>

\* Every request has a handler of its own and may have one at the remote.
Handlers == Clients \X {"own", "remote"}
Own(c) == <<c, "own">>
Remote(c) == <<c, "remote">>

Quota == [limit : Nat, used : Nat]
ASSUME NoneAssumption == None \notin Quota
Open == {"insert", "upgrade", "call", "consume", "commit"}    \* a session with a transaction
Ended == {"answered", "refused", "failed"}
Steps == {"idle", "remote", "check"} \cup Open \cup {"answer"} \cup Ended
Work == [step : Steps, attempt : 1 .. 2,
         copy : Quota \cup {None},              \* the row object of the session
         wrote : SUBSET {"row", "limit", "used"},   \* flushed and not committed
         checked : BOOLEAN,                     \* the check has not failed
         poisoned : BOOLEAN,                    \* every further statement fails
         cost : Nat, overlapped : BOOLEAN]

Fresh(step) == [step |-> step, attempt |-> 1, copy |-> None, wrote |-> {},
                checked |-> TRUE, poisoned |-> FALSE, cost |-> 0, overlapped |-> FALSE]

Legacy(q) == 0 < q.limit /\ q.limit <= LegacyMax /\ q.used <= LegacyMax
\* _upgrade_legacy_cost_quota, in memory.
Upgraded(q) == IF Legacy(q) THEN [limit |-> q.limit * Scale, used |-> q.used * Scale] ELSE q

\* The row is not there yet, has been there from before the scale, or is new.
Init ==
    /\ row \in {None} \cup [limit : {DefaultLimit}, used : {0, DefaultLimit}]
                      \cup [limit : {DefaultLimit * Scale}, used : {0}]
    /\ work = [h \in Handlers |-> Fresh("idle")]
    /\ faults = 0
    /\ spent = IF row = None THEN 0 ELSE Upgraded(row).used
    /\ counted = 0 /\ waved = 0
    /\ charges = [h \in Handlers |-> 0]
    /\ lost = [c \in Clients |-> 0]

Opened(h) == work[h].step \in Open
Locked(h) == \E g \in Handlers \ {h} : Opened(g) /\ work[g].wrote # {}
Faulty == faults < MaxFaults /\ faults' = faults + 1

(* mutant: the fallback is started beside the remote call.                 *)
RequestBoth(c) ==
    /\ work[Own(c)].step = "idle"
    /\ work' = [work EXCEPT ![Own(c)] = Fresh("check"), ![Remote(c)] = Fresh("check")]
    /\ UNCHANGED <<row, faults, history>>
\* POST /llm/route, in-process or remote-service mode.
Request(c) ==
    /\ work[Own(c)].step = "idle"
    /\ \/ /\ c \notin RemoteMode
          /\ work' = [work EXCEPT ![Own(c)] = Fresh("check")]
       \/ /\ c \in RemoteMode
          /\ work' = [work EXCEPT ![Own(c)] = Fresh("remote"), ![Remote(c)] = Fresh("check")]
    /\ UNCHANGED <<row, faults, history>>

\* The remote instance has answered.
RemoteAnswers(c) ==
    /\ work[Own(c)].step = "remote" /\ work[Remote(c)].step = "answered"
    /\ work' = [work EXCEPT ![Own(c)].step = "answered"]
    /\ UNCHANGED <<row, faults, history>>

\* In this process: with both attempts, or, when the fallback is not enabled,
\* with the one that route_llm makes after any exception.  An answer that
\* cannot be read is a ValueError.
Fallbacks == {Fresh("check"), [Fresh("check") EXCEPT !.attempt = 2], Fresh("failed")}

\* An exception of the remote call, whatever has become of the request: it
\* was refused or failed, or is still at work, or has been answered and the
\* answer lost or not understood.
RemoteGivenUp(c) ==
    /\ work[Own(c)].step = "remote"
    /\ \E w \in Fallbacks : work' = [work EXCEPT ![Own(c)] = w]
    /\ lost' = IF work[Remote(c)].step \in {"refused", "failed"} THEN lost
               ELSE [lost EXCEPT ![c] = @ + 1]
    /\ UNCHANGED <<row, faults, spent, counted, waved, charges>>

(* mutants: what is left is not compared with the estimate, or must be     *)
(* more than it.                                                           *)
AllowedWithAnyLeft(q) == q.limit >= q.used
AllowedWithMore(q) == q.limit > q.used + Estimate
Allowed(q) == q.limit >= q.used + Estimate

\* check_quota after get_or_create_quota: the call, or LLMBudgetExceededError
\* and the end of the session without a commit.
Tested(w, q) ==
    IF Allowed(q) THEN [w EXCEPT !.step = "call"] ELSE Fresh("refused")
\* check_quota has raised.  The session is of no more use after a statement
\* that failed, and as good as new when it got no connection for one.
Unchecked(w, usable) ==
    [w EXCEPT !.step = "call", !.checked = FALSE, !.poisoned = ~usable,
              !.copy = None, !.wrote = {}]
\* consume_quota has raised, which takes the check's writes with it.
Unconsumed(w) ==
    [w EXCEPT !.step = "commit", !.poisoned = TRUE, !.copy = None, !.wrote = {}]
Broken(w) == IF w.checked THEN Unchecked(w, FALSE) ELSE Unconsumed(w)

\* get_or_create_quota has returned q, to check_quota or, when that had
\* failed, to consume_quota.
Passed(w, q) == IF w.checked THEN Tested(w, q) ELSE [w EXCEPT !.step = "consume"]
\* get_or_create_quota, the query.
Queried(w) ==
    IF row = None
    THEN [w EXCEPT !.step = "insert", !.wrote = {},
                   !.copy = [limit |-> DefaultLimit * Scale, used |-> 0]]
    ELSE IF Legacy(row) THEN [w EXCEPT !.step = "upgrade", !.copy = Upgraded(row)]
    ELSE Passed([w EXCEPT !.copy = row], row)

Check(h) ==
    /\ work[h].step = "check"
    /\ LET busy == \E g \in Handlers \ {h} : Opened(g)
           w == [work[h] EXCEPT !.overlapped = busy]
           then(w2) == work' = [g \in Handlers |->
               IF g = h THEN w2
               ELSE IF Opened(g) THEN [work[g] EXCEPT !.overlapped = TRUE] ELSE work[g]]
       IN  \/ then(Queried(w)) /\ UNCHANGED faults
           \/ Faulty /\ \E usable \in BOOLEAN : then(Unchecked(w, usable))
    /\ UNCHANGED <<row, history>>

\* The flush of a new row waits for another one under the same key, and is
\* refused when that is committed.
Insert(h) ==
    /\ work[h].step = "insert"
    /\ LET w == work[h] IN
           \/ /\ ~Locked(h) /\ row = None
              /\ work' = [work EXCEPT ![h] = Passed([w EXCEPT !.wrote = {"row"}], w.copy)]
              /\ UNCHANGED faults
           \/ /\ row # None
              /\ work' = [work EXCEPT ![h] = Broken(w)]
              /\ UNCHANGED faults
           \/ Faulty /\ work' = [work EXCEPT ![h] = Broken(w)]
    /\ UNCHANGED <<row, history>>

\* The flush of an upgraded row: of the columns that have changed.
Upgrade(h) ==
    /\ work[h].step = "upgrade"
    /\ LET w == work[h]
           columns == IF w.copy.used = 0 THEN {"limit"} ELSE {"limit", "used"}
       IN  \/ /\ ~Locked(h)
              /\ work' = [work EXCEPT ![h] = Passed([w EXCEPT !.wrote = columns], w.copy)]
              /\ UNCHANGED faults
           \/ Faulty /\ work' = [work EXCEPT ![h] = Broken(w)]
    /\ UNCHANGED <<row, history>>

(* mutant: attempts are counted and not limited. *)
AgainCounting(w) == [Fresh("check") EXCEPT !.attempt = w.attempt + 1]
\* A second attempt of the handler, in a new session.
Again(w) ==
    IF w.attempt = 1 THEN [Fresh("check") EXCEPT !.attempt = 2] ELSE Fresh("failed")

\* gateway.route: an answer and its cost, or an exception, after which only
\* a ValueError is not tried again.
Call(h) ==
    /\ work[h].step = "call"
    /\ \/ \E cost \in Costs :
              /\ work' = [work EXCEPT ![h].step = "consume", ![h].cost = cost]
              /\ UNCHANGED faults
       \/ /\ Faulty
          /\ \E w \in {Again(work[h]), Fresh("failed")} : work' = [work EXCEPT ![h] = w]
    /\ UNCHANGED <<row, history>>

(* mutant: the estimate is added beside the cost.                          *)
SumWithEstimate(w) == [w.copy EXCEPT !.used = @ + w.cost + Estimate]
Sum(w) == [w.copy EXCEPT !.used = @ + w.cost]

\* consume_quota: the row object of the session is the one that the check
\* loaded, or, when the check had failed, the one that is loaded now.  A
\* failure is suppressed.
Consume(h) ==
    /\ work[h].step = "consume"
    /\ LET w == work[h] IN
           \/ /\ w.poisoned \/ (w.copy # None /\ w.cost = 0)
              /\ work' = [work EXCEPT ![h].step = "commit"]
              /\ UNCHANGED <<faults, spent>>
           \/ /\ ~w.poisoned /\ w.copy = None
              /\ work' = [work EXCEPT ![h] = Queried(w)]
              /\ UNCHANGED <<faults, spent>>
           \/ /\ w.copy # None /\ w.cost # 0 /\ ~Locked(h)
              /\ work' = [work EXCEPT ![h] = [w EXCEPT !.step = "commit", !.copy = Sum(w),
                              !.wrote = IF "row" \in @ THEN @ ELSE @ \cup {"used"}]]
              /\ spent' = spent + w.cost
              /\ UNCHANGED faults
           \/ /\ Faulty /\ work' = [work EXCEPT ![h] = Unconsumed(w)]
              /\ UNCHANGED spent
    /\ UNCHANGED <<row, counted, waved, charges, lost>>

Stored(w) ==
    IF "row" \in w.wrote THEN w.copy
    ELSE [limit |-> IF "limit" \in w.wrote THEN w.copy.limit ELSE row.limit,
          used |-> IF "used" \in w.wrote THEN w.copy.used ELSE row.used]

\* _safe_commit, whose failure nobody hears of.
Commit(h) ==
    /\ work[h].step = "commit"
    /\ LET w == work[h] IN
           /\ \/ /\ ~w.poisoned
                 /\ row' = IF w.wrote = {} THEN row ELSE Stored(w)
                 /\ counted' = IF w.overlapped THEN counted ELSE counted + w.cost
                 /\ waved' = IF w.checked THEN waved ELSE waved + w.cost
                 /\ charges' = [charges EXCEPT ![h] = IF w.cost = 0 THEN @ ELSE @ + 1]
                 /\ UNCHANGED faults
              \/ w.poisoned /\ UNCHANGED <<row, counted, waved, charges, faults>>
              \/ Faulty /\ UNCHANGED <<row, counted, waved, charges>>
           /\ work' = [work EXCEPT ![h] = [Fresh("answer") EXCEPT !.attempt = w.attempt]]
    /\ UNCHANGED <<spent, lost>>

\* The handler's own client, which is h[1], is left without the answer.
Loses(h) == lost' = [lost EXCEPT ![h[1]] = @ + 1]

\* What follows the commit: the counters, the audit log, the end of the
\* session and the answer.  An exception there is like one before.
Answer(h) ==
    /\ work[h].step = "answer"
    /\ \/ /\ work' = [work EXCEPT ![h] = Fresh("answered")]
          /\ UNCHANGED <<faults, lost>>
       \/ /\ Faulty /\ Loses(h)
          /\ \E w \in {Again(work[h]), Fresh("failed")} : work' = [work EXCEPT ![h] = w]
    /\ UNCHANGED <<row, spent, counted, waved, charges>>

Kill(h) ==
    /\ Faulty /\ work[h].step \in {"remote", "check", "answer"} \cup Open
    /\ work' = [work EXCEPT ![h] = Fresh("failed")]
    /\ IF work[h].step = "answer" THEN Loses(h) ELSE UNCHANGED lost
    /\ UNCHANGED <<row, spent, counted, waved, charges>>

Step(h) ==
    Check(h) \/ Insert(h) \/ Upgrade(h) \/ Call(h) \/ Consume(h) \/ Commit(h) \/ Answer(h)

Next ==
    \/ \E c \in Clients : Request(c) \/ RemoteAnswers(c) \/ RemoteGivenUp(c)
    \/ \E h \in Handlers : Step(h) \/ Kill(h)

Spec == Init /\ [][Next]_vars

-----------------------------------------------------------------------------
(* Properties *)

TypeOK ==
    /\ row \in Quota \cup {None}
    /\ work \in [Handlers -> Work]
    /\ faults \in Nat
    /\ spent \in Nat /\ counted \in Nat /\ waved \in Nat
    /\ charges \in [Handlers -> Nat]
    /\ lost \in [Clients -> Nat]

UsedBy(q) == IF q = None THEN 0 ELSE Upgraded(q).used

(* The table never says more than the costs that consume_quota was given,  *)
(* whatever overlaps, is upgraded, fails, is tried again or asked for      *)
(* twice; and the cost of an answer is in it for good once it is committed *)
(* by a session that no other overlapped: only requests that run at one    *)
(* time, failures and kills make it say less (get_or_create_quota,         *)
(* consume_quota).                                                         *)
UsedIsBetween == counted <= UsedBy(row) /\ UsedBy(row) <= spent

(* However many requests pass the check at one time, the table never goes  *)
(* further over the limit, of which there is only one, than the cost of    *)
(* one answer and of the calls whose check had failed: those are let       *)
(* through and charged (check_quota, _upgrade_legacy_cost_quota,           *)
(* _route_llm_in_process).                                                 *)
UsedNearLimit ==
    LET limit == DefaultLimit * Scale + waved
    IN  UsedBy(row) <= limit \/ \E cost \in Costs : UsedBy(row) + Estimate <= limit + cost

(* A request is charged for once, and once more for every time that an     *)
(* answer was lost after its commit, or the remote instance given up that  *)
(* had neither refused nor failed: whatever fails before a commit can be   *)
(* tried again (route_llm, route_llm_request).                             *)
ChargedTwiceHasACause ==
    \A c \in Clients : charges[Own(c)] + charges[Remote(c)] <= 1 + lost[c]

(* A request is refused only when the limit is really used up              *)
(* (check_quota, LLMBudgetExceededError).                                  *)
RefusedWhenSpent ==
    [][\A h \in Handlers : (work[h].step # "refused" /\ work[h]'.step = "refused")
           => spent + Estimate > DefaultLimit * Scale]_vars
=============================================================================
