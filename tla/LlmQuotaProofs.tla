--------------------------- MODULE LlmQuotaProofs ---------------------------
(***************************************************************************)
(* What is charged to a tenant, for every number of clients, every cost    *)
(* and every number of failures.                                           *)
(***************************************************************************)
EXTENDS LlmQuota, TLAPS

TopLimit == DefaultLimit * Scale

(* The row is of before the scale and was never used, or used up, or has   *)
(* the one limit there is.                                                 *)
RowKnown(r) ==
    \/ r = None
    \/ /\ r \in Quota
       /\ r.limit = TopLimit \/ (r.limit = DefaultLimit /\ r.used \in {0, DefaultLimit})

\* u is at the limit, but for what was waved through.
Near(u, wv) ==
    \/ u <= TopLimit + wv
    \/ \E cost \in Costs : u + Estimate <= TopLimit + cost + wv

(* Where a handler is says what it has.                                    *)
Shape(w) ==
    /\ w.poisoned => w.copy = None /\ w.step \in {"call", "consume", "commit"}
    /\ w.step \in Open /\ ~w.poisoned =>
          w.copy # None \/ (~w.checked /\ w.step \in {"call", "consume"})
    /\ w.copy # None => w.step \in Open /\ ~w.poisoned /\ w.copy.limit = TopLimit
    /\ w.copy # None /\ w.step = "call" => w.checked
    /\ w.wrote # {} => w.step \in {"call", "consume", "commit"} /\ w.copy # None

(* What a handler may write fits the row that is there.                    *)
Fits(w, r) ==
    /\ w.step = "upgrade" => r # None
    /\ w.wrote # {} => ("row" \in w.wrote <=> r = None)
    /\ w.copy # None /\ w.step \in {"call", "consume", "commit"} =>
          "row" \in w.wrote \/ "limit" \in w.wrote \/ (r # None /\ r.limit = TopLimit)
    /\ /\ w.copy # None /\ r # None
       /\ (w.step = "upgrade" /\ w.copy.used = 0) \/ (w.wrote # {} /\ "used" \notin w.wrote)
       => r.limit = TopLimit \/ r.used = 0

(* Its copy lies between what is counted and what was spent; with nobody   *)
(* else about it is what the row says, and the cost.  A session that was   *)
(* checked has room for the estimate, and one that was not has read a row  *)
(* that is near the limit.                                                 *)
Money(w, r, sp, ct, wv) ==
    w.copy # None =>
        /\ ct <= w.copy.used /\ w.copy.used <= sp
        /\ ~w.overlapped =>
              w.copy.used = UsedBy(r) + (IF w.step = "commit" THEN w.cost ELSE 0)
        /\ w.step = "commit" /\ w.cost # 0 => "used" \in w.wrote \/ "row" \in w.wrote
        /\ w.step = "insert" => w.copy.used = 0
        /\ w.step = "upgrade" => w.copy.used <= TopLimit
        /\ w.step \in {"call", "consume"} /\ w.checked => w.copy.used + Estimate <= TopLimit
        /\ w.step = "consume" /\ w.checked => w.cost \in Costs
        /\ w.step = "consume" /\ ~w.checked => Near(w.copy.used, wv)
        /\ w.step = "commit" => Near(w.copy.used, IF w.checked THEN wv ELSE wv + w.cost)

Sound(w, r, sp, ct, wv) == Shape(w) /\ Fits(w, r) /\ Money(w, r, sp, ct, wv)

RowInv ==
    /\ RowKnown(row)
    /\ counted <= UsedBy(row) /\ UsedBy(row) <= spent
    /\ Near(UsedBy(row), waved)

(* Two sessions that are open at one time know it, and only one has        *)
(* flushed what it has not committed.                                      *)
Apart ==
    \A g, h \in Handlers : g # h =>
        /\ Opened(g) /\ Opened(h) => work[g].overlapped
        /\ work[g].wrote # {} => work[h].wrote = {}

IInv ==
    /\ TypeOK /\ RowInv /\ Apart
    /\ \A h \in Handlers : Sound(work[h], row, spent, counted, waved)

-----------------------------------------------------------------------------
LEMMA LimitFacts ==
    /\ TopLimit \in Nat /\ TopLimit > LegacyMax /\ TopLimit > DefaultLimit
    /\ 0 * Scale = 0
  <1>1. \A a, b \in Nat : a > 0 => a * b \in Nat /\ a * b >= b
    OBVIOUS
  <1>2. TopLimit \in Nat /\ TopLimit >= Scale
    BY <1>1, QuotaAssumption DEF TopLimit
  <1>3. \A a \in Nat : 0 * a = 0
    OBVIOUS
  <1> QED
    BY <1>2, <1>3, QuotaAssumption

LEMMA RowUsed ==
    ASSUME NEW r, RowKnown(r)
    PROVE  /\ UsedBy(r) \in Nat
           /\ r = None => UsedBy(r) = 0
           /\ r # None => r \in Quota
           /\ r # None /\ r.limit = TopLimit => ~Legacy(r) /\ UsedBy(r) = r.used
           /\ r # None /\ r.limit # TopLimit =>
                 /\ Legacy(r)
                 /\ Upgraded(r) = [limit |-> TopLimit, used |-> UsedBy(r)]
                 /\ UsedBy(r) <= TopLimit /\ (UsedBy(r) = 0 <=> r.used = 0)
  <1>1. CASE r = None
    BY <1>1 DEF UsedBy
  <1>2. CASE r \in Quota /\ r.limit = TopLimit
    <2>1. ~Legacy(r)
      BY <1>2, LimitFacts, QuotaAssumption DEF Legacy
    <2> QED
      BY <1>2, <2>1, NoneAssumption DEF UsedBy, Upgraded, Quota
  <1>3. CASE r \in Quota /\ r.limit # TopLimit
    <2>1. r.limit = DefaultLimit /\ r.used \in {0, DefaultLimit} /\ r # None
      BY <1>3, NoneAssumption DEF RowKnown
    <2>2. Legacy(r)
      BY <2>1, QuotaAssumption DEF Legacy
    <2>3. /\ UsedBy(r) = r.used * Scale
          /\ Upgraded(r) = [limit |-> TopLimit, used |-> r.used * Scale]
      BY <2>1, <2>2 DEF UsedBy, Upgraded, TopLimit
    <2>4. r.used * Scale = IF r.used = 0 THEN 0 ELSE TopLimit
      BY <2>1, LimitFacts DEF TopLimit
    <2> QED
      BY <1>3, <2>1, <2>2, <2>3, <2>4, LimitFacts, QuotaAssumption
  <1> QED
    BY <1>1, <1>2, <1>3 DEF RowKnown

-----------------------------------------------------------------------------
(* What a step makes of one handler. *)

LEMMA FreshSound ==
    ASSUME NEW step \in Steps \ Open, NEW r, NEW sp, NEW ct, NEW wv
    PROVE  /\ Fresh(step) \in Work /\ Sound(Fresh(step), r, sp, ct, wv)
           /\ Fresh(step).step = step /\ Fresh(step).wrote = {}
  <1>1. /\ Fresh(step).step = step /\ Fresh(step).wrote = {} /\ Fresh(step).copy = None
        /\ ~Fresh(step).poisoned
    BY DEF Fresh
  <1>2. Fresh(step) \in Work
    BY DEF Fresh, Work
  <1>3. step \notin Open
    OBVIOUS
  <1> QED
    BY <1>1, <1>2, <1>3 DEF Sound, Shape, Fits, Money, Open

LEMMA AgainSound ==
    ASSUME NEW w \in Work, NEW r, NEW sp, NEW ct, NEW wv
    PROVE  /\ Again(w) \in Work /\ Sound(Again(w), r, sp, ct, wv)
           /\ Again(w).step \in {"check", "failed"} /\ Again(w).wrote = {}
  <1>1. CASE w.attempt = 1
    <2> DEFINE f == Fresh("check")
    <2>1. "check" \in Steps \ Open
      BY DEF Steps, Open, Ended
    <2>2. f \in Work /\ f.wrote = {} /\ f.copy = None /\ ~f.poisoned
      BY <2>1, FreshSound DEF Fresh
    <2> HIDE DEF f
    <2> DEFINE v == [f EXCEPT !.attempt = 2]
    <2>3. v \in Work /\ v.step = f.step /\ v.wrote = {} /\ v.copy = None /\ ~v.poisoned
      BY <2>2 DEF Work
    <2>4. Again(w) = v
      BY <1>1 DEF Again, f
    <2>5. v.step = "check"
      BY <2>3 DEF f, Fresh
    <2> HIDE DEF v
    <2> QED
      BY <2>3, <2>4, <2>5 DEF Sound, Shape, Fits, Money, Open
  <1>2. CASE w.attempt # 1
    BY <1>2, FreshSound DEF Again, Steps, Ended, Open
  <1> QED
    BY <1>1, <1>2

LEMMA UncheckedSound ==
    ASSUME NEW w \in Work, NEW usable \in BOOLEAN, NEW r, NEW sp, NEW ct, NEW wv
    PROVE  LET v == Unchecked(w, usable) IN
           /\ v \in Work /\ Sound(v, r, sp, ct, wv)
           /\ v.step = "call" /\ v.wrote = {} /\ v.overlapped = w.overlapped
  <1> DEFINE v == Unchecked(w, usable)
  <1>1. /\ v \in Work /\ v.step = "call" /\ v.wrote = {} /\ v.copy = None /\ ~v.checked
        /\ v.overlapped = w.overlapped
    BY DEF Unchecked, Work, Steps, Open
  <1> HIDE DEF v
  <1>2. Sound(v, r, sp, ct, wv)
    BY <1>1 DEF Sound, Shape, Fits, Money, Open
  <1> QED
    BY <1>1, <1>2 DEF v

LEMMA UnconsumedSound ==
    ASSUME NEW w \in Work, NEW r, NEW sp, NEW ct, NEW wv
    PROVE  LET v == Unconsumed(w) IN
           /\ v \in Work /\ Sound(v, r, sp, ct, wv)
           /\ v.step = "commit" /\ v.wrote = {} /\ v.overlapped = w.overlapped
  <1> DEFINE v == Unconsumed(w)
  <1>1. /\ v \in Work /\ v.step = "commit" /\ v.wrote = {} /\ v.copy = None /\ v.poisoned
        /\ v.overlapped = w.overlapped
    BY DEF Unconsumed, Work, Steps, Open
  <1> HIDE DEF v
  <1>2. Sound(v, r, sp, ct, wv)
    BY <1>1 DEF Sound, Shape, Fits, Money, Open
  <1> QED
    BY <1>1, <1>2 DEF v

LEMMA BrokenSound ==
    ASSUME NEW w \in Work, NEW r, NEW sp, NEW ct, NEW wv
    PROVE  LET v == Broken(w) IN
           /\ v \in Work /\ Sound(v, r, sp, ct, wv)
           /\ v.step \in {"call", "commit"} /\ v.wrote = {} /\ v.overlapped = w.overlapped
  BY UncheckedSound, UnconsumedSound DEF Broken

(* The copy of a session that passes the check leaves room for the         *)
(* estimate.                                                               *)
LEMMA PassedSound ==
    ASSUME NEW w \in Work, NEW r, RowKnown(r), NEW sp \in Nat, NEW ct \in Nat, NEW wv \in Nat,
           w.copy \in Quota, w.copy.limit = TopLimit, ~w.poisoned,
           ct <= w.copy.used, w.copy.used <= sp, ~w.overlapped => w.copy.used = UsedBy(r),
           Near(w.copy.used, wv),
           w.wrote # {} => ("row" \in w.wrote <=> r = None),
           "row" \in w.wrote \/ "limit" \in w.wrote \/ (r # None /\ r.limit = TopLimit),
           r # None /\ w.wrote # {} /\ "used" \notin w.wrote => r.limit = TopLimit \/ r.used = 0
    PROVE  LET v == Passed(w, w.copy) IN
           /\ v \in Work /\ Sound(v, r, sp, ct, wv)
           /\ v.step \in {"call", "refused", "consume"}
           /\ v.wrote # {} => v.wrote = w.wrote
           /\ v.step = "refused" => sp + Estimate > TopLimit
           /\ v.step \in Open => v.overlapped = w.overlapped
  <1>1. w.copy.used \in Nat /\ w.copy # None
    BY NoneAssumption DEF Quota
  <1>2. ASSUME NEW step \in {"call", "consume"},
               step = "call" => w.checked /\ w.copy.used + Estimate <= TopLimit,
               step = "consume" => ~w.checked
        PROVE  LET v == [w EXCEPT !.step = step] IN
               /\ v \in Work /\ Sound(v, r, sp, ct, wv) /\ v.step = step
               /\ v.wrote = w.wrote /\ v.overlapped = w.overlapped
    <2> DEFINE v == [w EXCEPT !.step = step]
    <2>1. /\ v \in Work /\ v.step = step /\ v.wrote = w.wrote /\ v.copy = w.copy
          /\ v.poisoned = w.poisoned /\ v.overlapped = w.overlapped /\ v.checked = w.checked
      BY <1>2 DEF Work, Steps, Open
    <2> HIDE DEF v
    <2>2. Shape(v)
      BY <1>1, <1>2, <2>1 DEF Shape, Open
    <2>3. Fits(v, r)
      BY <1>1, <1>2, <2>1 DEF Fits
    <2>4. Money(v, r, sp, ct, wv)
      <3>1. v.step # "commit" /\ v.step # "insert" /\ v.step # "upgrade"
        BY <1>2, <2>1
      <3>2. UsedBy(r) + 0 = UsedBy(r)
        BY RowUsed
      <3> QED
        BY <1>2, <2>1, <3>1, <3>2 DEF Money
    <2> QED
      BY <2>1, <2>2, <2>3, <2>4 DEF Sound, v
  <1>3. CASE w.checked /\ Allowed(w.copy)
    <2>1. Passed(w, w.copy) = [w EXCEPT !.step = "call"]
      BY <1>3 DEF Passed, Tested
    <2>2. w.copy.used + Estimate <= TopLimit
      BY <1>3 DEF Allowed
    <2> QED
      BY <1>2, <1>3, <2>1, <2>2
  <1>4. CASE w.checked /\ ~Allowed(w.copy)
    <2>1. Passed(w, w.copy) = Fresh("refused")
      BY <1>4 DEF Passed, Tested
    <2>2. sp + Estimate > TopLimit
      BY <1>1, <1>4, LimitFacts, QuotaAssumption DEF Allowed
    <2> QED
      BY <2>1, <2>2, FreshSound DEF Steps, Ended, Open
  <1>5. CASE ~w.checked
    <2>1. Passed(w, w.copy) = [w EXCEPT !.step = "consume"]
      BY <1>5 DEF Passed
    <2> QED
      BY <1>2, <1>5, <2>1
  <1> QED
    BY <1>3, <1>4, <1>5

(* What a session that has nothing yet makes of the row. *)
LEMMA QueriedSound ==
    ASSUME NEW w \in Work, w.copy = None, w.wrote = {}, ~w.poisoned,
           RowKnown(row), NEW sp \in Nat, NEW ct \in Nat, NEW wv \in Nat,
           ct <= UsedBy(row), UsedBy(row) <= sp, Near(UsedBy(row), wv)
    PROVE  LET v == Queried(w) IN
           /\ v \in Work /\ Sound(v, row, sp, ct, wv) /\ v.wrote = {}
           /\ v.step \in {"insert", "upgrade", "call", "refused", "consume"}
           /\ v.step = "refused" => sp + Estimate > TopLimit
           /\ v.step \in Open => v.overlapped = w.overlapped
  <1>1. CASE row = None
    <2> DEFINE q == [limit |-> DefaultLimit * Scale, used |-> 0]
    <2>1. q \in Quota /\ q.limit = TopLimit /\ q.used = 0 /\ q # None
      BY LimitFacts, NoneAssumption DEF Quota, TopLimit
    <2> HIDE DEF q
    <2> DEFINE v == [w EXCEPT !.step = "insert", !.wrote = {}, !.copy = q]
    <2>2. Queried(w) = v
      BY <1>1 DEF Queried, q
    <2>3. /\ v \in Work /\ v.step = "insert" /\ v.wrote = {} /\ v.copy = q /\ ~v.poisoned
          /\ v.overlapped = w.overlapped
      BY <2>1 DEF Work, Steps, Open
    <2> HIDE DEF v
    <2>4. Shape(v) /\ Fits(v, row)
      BY <1>1, <2>1, <2>3 DEF Shape, Fits, Open
    <2>5. UsedBy(row) = 0
      BY <1>1 DEF UsedBy
    <2>6. Money(v, row, sp, ct, wv)
      BY <2>1, <2>3, <2>5 DEF Money
    <2> QED
      BY <2>2, <2>3, <2>4, <2>6 DEF Sound
  <1>2. CASE row # None /\ ~Legacy(row)
    <2> DEFINE v == [w EXCEPT !.copy = row]
    <2>1. row \in Quota /\ row.limit = TopLimit /\ UsedBy(row) = row.used
      BY <1>2, RowUsed
    <2>2. /\ v \in Work /\ v.wrote = {} /\ v.copy = row /\ ~v.poisoned
          /\ v.overlapped = w.overlapped
      BY <2>1 DEF Work
    <2>3. Queried(w) = Passed(v, v.copy)
      BY <1>2, <2>2 DEF Queried
    <2> HIDE DEF v
    <2> DEFINE x == Passed(v, v.copy)
    <2>4. /\ x \in Work /\ Sound(x, row, sp, ct, wv) /\ x.step \in {"call", "refused", "consume"}
          /\ x.wrote # {} => x.wrote = v.wrote
          /\ x.step = "refused" => sp + Estimate > TopLimit
          /\ x.step \in Open => x.overlapped = v.overlapped
      <3>1. ct <= v.copy.used /\ v.copy.used <= sp /\ Near(v.copy.used, wv)
            /\ v.copy.used = UsedBy(row)
        BY <2>1, <2>2
      <3>2. v.copy \in Quota /\ v.copy.limit = TopLimit
        BY <2>1, <2>2
      <3> QED
        BY <1>2, <2>1, <2>2, <3>1, <3>2, PassedSound
    <2> HIDE DEF x
    <2> QED
      BY <2>2, <2>3, <2>4 DEF x
  <1>3. CASE row # None /\ Legacy(row)
    <2> DEFINE q == Upgraded(row)
    <2>1. row.limit # TopLimit
      BY <1>3, RowUsed
    <2>2. /\ q \in Quota /\ q.limit = TopLimit /\ q.used = UsedBy(row) /\ q # None
          /\ UsedBy(row) <= TopLimit /\ (UsedBy(row) = 0 <=> row.used = 0)
      <3>1. q = [limit |-> TopLimit, used |-> UsedBy(row)] /\ UsedBy(row) \in Nat
        BY <1>3, <2>1, RowUsed
      <3> QED
        BY <1>3, <2>1, <3>1, RowUsed, LimitFacts, NoneAssumption DEF Quota
    <2> HIDE DEF q
    <2> DEFINE v == [w EXCEPT !.step = "upgrade", !.copy = q]
    <2>3. Queried(w) = v
      BY <1>3 DEF Queried, q
    <2>4. /\ v \in Work /\ v.step = "upgrade" /\ v.wrote = {} /\ v.copy = q /\ ~v.poisoned
          /\ v.overlapped = w.overlapped
      BY <2>2 DEF Work, Steps, Open
    <2> HIDE DEF v
    <2>5. Shape(v) /\ Fits(v, row)
      BY <1>3, <2>2, <2>4 DEF Shape, Fits, Open
    <2>6. Money(v, row, sp, ct, wv)
      <3>1. q.used \in Nat /\ q.used + 0 = q.used
        BY <2>2 DEF Quota
      <3> QED
        BY <2>2, <2>4, <3>1 DEF Money
    <2> QED
      BY <2>3, <2>4, <2>5, <2>6 DEF Sound
  <1> QED
    BY <1>1, <1>2, <1>3

-----------------------------------------------------------------------------
(* What stays true of the other handlers. *)

LEMMA NearLater ==
    ASSUME NEW u \in Nat, NEW wv \in Nat, NEW wv2 \in Nat, wv <= wv2, Near(u, wv)
    PROVE  Near(u, wv2)
  <1>1. TopLimit \in Nat /\ Estimate \in Nat
    BY LimitFacts, QuotaAssumption
  <1>2. CASE u <= TopLimit + wv
    BY <1>1, <1>2 DEF Near
  <1>3. ASSUME NEW cost \in Costs, u + Estimate <= TopLimit + cost + wv
        PROVE  Near(u, wv2)
    <2>1. cost \in Nat
      BY QuotaAssumption
    <2>2. u + Estimate <= TopLimit + cost + wv2
      BY <1>1, <1>3, <2>1
    <2> QED
      BY <2>2 DEF Near
  <1> QED
    BY <1>2, <1>3 DEF Near

LEMMA Later ==
    ASSUME NEW w \in Work, NEW r, NEW sp \in Nat, NEW sp2 \in Nat, NEW ct, sp <= sp2,
           NEW wv \in Nat, NEW wv2 \in Nat, wv <= wv2, Sound(w, r, sp, ct, wv)
    PROVE  Sound(w, r, sp2, ct, wv2)
  <1>1. w.copy # None => w.copy.used \in Nat
    BY DEF Work, Quota
  <1>2. w.cost \in Nat
    BY DEF Work
  <1>3. w.copy # None /\ w.copy.used <= sp => w.copy.used <= sp2
    BY <1>1
  <1>4. w.copy # None /\ Near(w.copy.used, wv) => Near(w.copy.used, wv2)
    BY <1>1, NearLater
  <1>5. w.copy # None /\ Near(w.copy.used, wv + w.cost) => Near(w.copy.used, wv2 + w.cost)
    <2>1. wv + w.cost \in Nat /\ wv2 + w.cost \in Nat /\ wv + w.cost <= wv2 + w.cost
      BY <1>2
    <2> QED
      BY <1>1, <2>1, NearLater
  <1> QED
    BY <1>3, <1>4, <1>5 DEF Sound, Money

LEMMA Overlapping ==
    ASSUME NEW w \in Work, NEW r, NEW sp, NEW ct, NEW wv, Sound(w, r, sp, ct, wv)
    PROVE  LET v == [w EXCEPT !.overlapped = TRUE] IN
           /\ v \in Work /\ v.step = w.step /\ v.wrote = w.wrote /\ v.overlapped
           /\ Sound(v, r, sp, ct, wv)
  <1> DEFINE v == [w EXCEPT !.overlapped = TRUE]
  <1>1. /\ v \in Work /\ v.step = w.step /\ v.wrote = w.wrote /\ v.overlapped
        /\ v.copy = w.copy /\ v.poisoned = w.poisoned /\ v.cost = w.cost
        /\ v.checked = w.checked
    BY DEF Work
  <1> HIDE DEF v
  <1>2. Sound(v, r, sp, ct, wv)
    BY <1>1 DEF Sound, Shape, Fits, Money
  <1> QED
    BY <1>1, <1>2 DEF v

(* Another session has committed a row. *)
LEMMA OtherCommitted ==
    ASSUME NEW w \in Work, NEW r, NEW sp, NEW ct, NEW wv, Sound(w, r, sp, ct, wv), w.wrote = {},
           w.step \in Open => w.overlapped, NEW r2, r2 # None, r2.limit = TopLimit
    PROVE  Sound(w, r2, sp, ct, wv)
  BY DEF Sound, Shape, Fits, Money

LEMMA Histories ==
    ASSUME TypeOK, UNCHANGED history
    PROVE  /\ spent' \in Nat /\ counted' = counted /\ spent' = spent /\ waved' = waved
           /\ counted \in Nat /\ waved \in Nat
           /\ charges' \in [Handlers -> Nat] /\ lost' \in [Clients -> Nat]
  BY DEF TypeOK, history

(* Only for want of what the model has cost is a request refused. *)
Refusals ==
    \A h \in Handlers : work[h].step # "refused" /\ work'[h].step = "refused" =>
        spent + Estimate > TopLimit

(* One handler has moved, and not the row. *)
LEMMA OneMoves ==
    ASSUME IInv, NEW h \in Handlers, NEW w2 \in Work, work' = [work EXCEPT ![h] = w2],
           row' = row, counted' = counted, waved' = waved,
           spent' \in Nat, spent <= spent', faults' \in Nat,
           charges' \in [Handlers -> Nat], lost' \in [Clients -> Nat],
           Sound(w2, row, spent', counted, waved),
           w2.step \in Open => Opened(h) /\ w2.overlapped = work[h].overlapped,
           w2.wrote # {} => work[h].wrote # {} \/ ~Locked(h),
           w2.step = "refused" => spent + Estimate > TopLimit
    PROVE  IInv' /\ Refusals
  <1>1. /\ work \in [Handlers -> Work] /\ spent \in Nat /\ counted \in Nat /\ waved \in Nat
        /\ waved <= waved
    BY DEF IInv, TypeOK
  <1>2. TypeOK'
    BY <1>1 DEF IInv, TypeOK
  <1>3. RowInv'
    <2>1. UsedBy(row) \in Nat
      BY RowUsed DEF IInv, RowInv
    <2> QED
      BY <1>1, <2>1 DEF IInv, RowInv
  <1>4. ASSUME NEW g \in Handlers
        PROVE  Sound(work'[g], row', spent', counted', waved')
    <2>1. CASE g = h
      BY <1>1, <2>1
    <2>2. CASE g # h
      BY <1>1, <2>2, Later DEF IInv
    <2> QED
      BY <2>1, <2>2
  <1>5. Apart'
    <2> SUFFICES ASSUME NEW f \in Handlers, NEW g \in Handlers, f # g
                 PROVE  /\ Opened(f)' /\ Opened(g)' => work'[f].overlapped
                        /\ work'[f].wrote # {} => work'[g].wrote = {}
      BY DEF Apart
    <2>1. \A e \in Handlers : Opened(e)' => Opened(e) /\ work'[e].overlapped = work[e].overlapped
      BY <1>1 DEF Opened
    <2>2. \A e \in Handlers \ {h} : work'[e] = work[e]
      BY <1>1
    <2>3. work'[h].wrote # {} => \A e \in Handlers \ {h} : work[e].wrote = {}
      <3>1. \A e \in Handlers : work[e].wrote # {} => Opened(e)
        BY DEF IInv, Sound, Shape, Opened
      <3> QED
        BY <1>1, <3>1 DEF Locked, IInv, Apart
    <2>4. Opened(f)' /\ Opened(g)' => work'[f].overlapped
      BY <2>1 DEF IInv, Apart
    <2>5. work'[f].wrote # {} => work'[g].wrote = {}
      BY <2>2, <2>3 DEF IInv, Apart
    <2> QED
      BY <2>4, <2>5
  <1>6. Refusals
    BY <1>1 DEF Refusals
  <1> QED
    BY <1>2, <1>3, <1>4, <1>5, <1>6 DEF IInv

Busy(h) == \E g \in Handlers \ {h} : Opened(g)

(* One handler has opened its session, which the others note. *)
LEMMA OneOpens ==
    ASSUME IInv, NEW h \in Handlers, ~Opened(h), NEW w2 \in Work,
           work' = [g \in Handlers |->
               IF g = h THEN w2
               ELSE IF Opened(g) THEN [work[g] EXCEPT !.overlapped = TRUE] ELSE work[g]],
           row' = row, UNCHANGED history, faults' \in Nat,
           Sound(w2, row, spent, counted, waved), w2.wrote = {},
           w2.step \in Open => w2.overlapped = Busy(h),
           w2.step = "refused" => spent + Estimate > TopLimit
    PROVE  IInv' /\ Refusals
  <1>1. work \in [Handlers -> Work] /\ spent \in Nat /\ counted \in Nat
    BY DEF IInv, TypeOK
  <1>2. ASSUME NEW g \in Handlers, g # h
        PROVE  /\ work'[g] \in Work /\ work'[g].step = work[g].step
               /\ work'[g].wrote = work[g].wrote /\ Opened(g) => work'[g].overlapped
               /\ Sound(work'[g], row, spent, counted, waved)
    <2> DEFINE w == work[g]
               v == [w EXCEPT !.overlapped = TRUE]
    <2>1. w \in Work /\ Sound(w, row, spent, counted, waved)
      BY <1>1 DEF IInv
    <2>2. work'[g] = IF Opened(g) THEN v ELSE w
      BY <1>2
    <2> HIDE DEF w
    <2>3. /\ v \in Work /\ v.step = w.step /\ v.wrote = w.wrote /\ v.overlapped
          /\ Sound(v, row, spent, counted, waved)
      BY <2>1, Overlapping
    <2> HIDE DEF v
    <2> QED
      BY <2>1, <2>2, <2>3 DEF w
  <1>3. work'[h] = w2
    OBVIOUS
  <1>4. TypeOK'
    <2>1. work' \in [Handlers -> Work]
      BY <1>2, <1>3
    <2> QED
      BY <2>1, Histories DEF IInv, TypeOK
  <1>5. RowInv'
    BY Histories DEF IInv, RowInv
  <1>6. \A g \in Handlers : Sound(work'[g], row', spent', counted', waved')
    BY <1>2, <1>3, Histories DEF IInv
  <1>7. \A g \in Handlers \ {h} : Opened(g)' <=> Opened(g)
    BY <1>2 DEF Opened
  <1>8. Apart'
    <2> SUFFICES ASSUME NEW f \in Handlers, NEW g \in Handlers, f # g
                 PROVE  /\ Opened(f)' /\ Opened(g)' => work'[f].overlapped
                        /\ work'[f].wrote # {} => work'[g].wrote = {}
      BY DEF Apart
    <2>1. Opened(f)' /\ Opened(g)' => work'[f].overlapped
      <3>1. CASE f = h
        BY <1>3, <1>7, <3>1 DEF Opened, Busy
      <3>2. CASE f # h
        BY <1>2, <1>7, <3>2
      <3> QED
        BY <3>1, <3>2
    <2>2. work'[f].wrote # {} => work'[g].wrote = {}
      BY <1>2, <1>3 DEF IInv, Apart
    <2> QED
      BY <2>1, <2>2
  <1>9. Refusals
    BY <1>2, <1>3 DEF Refusals
  <1> QED
    BY <1>4, <1>5, <1>6, <1>8, <1>9 DEF IInv

LEMMA CheckKeeps ==
    ASSUME IInv, NEW h \in Handlers, Check(h)
    PROVE  IInv' /\ Refusals
  <1> DEFINE w == [work[h] EXCEPT !.overlapped = Busy(h)]
             opens(w2) == work' = [g \in Handlers |->
               IF g = h THEN w2
               ELSE IF Opened(g) THEN [work[g] EXCEPT !.overlapped = TRUE] ELSE work[g]]
  <1>1. /\ work[h].step = "check" /\ row' = row /\ UNCHANGED history
        /\ \/ opens(Queried(w)) /\ UNCHANGED faults
           \/ Faulty /\ \E usable \in BOOLEAN : opens(Unchecked(w, usable))
    BY DEF Check, Busy
  <1> HIDE DEF opens
  <1>2. ~Opened(h)
    BY <1>1 DEF Opened, Open
  <1>3. work[h] \in Work /\ work[h].wrote = {} /\ work[h].copy = None /\ ~work[h].poisoned
    <2>1. work[h] \in Work /\ Shape(work[h])
      BY DEF IInv, TypeOK, Sound
    <2>2. work[h].step = "check"
      BY <1>1
    <2> QED
      BY <2>1, <2>2 DEF Shape, Open, Work
  <1>4. /\ w \in Work /\ w.wrote = {} /\ w.copy = None /\ ~w.poisoned
        /\ w.overlapped = Busy(h)
    BY <1>1, <1>3 DEF Work, Busy
  <1> HIDE DEF w
  <1>5. /\ RowKnown(row) /\ spent \in Nat /\ counted \in Nat /\ waved \in Nat /\ faults \in Nat
        /\ counted <= UsedBy(row) /\ UsedBy(row) <= spent /\ Near(UsedBy(row), waved)
    BY DEF IInv, TypeOK, RowInv
  <1>6. ASSUME NEW w2 \in Work, opens(w2), faults' \in Nat,
               Sound(w2, row, spent, counted, waved), w2.wrote = {},
               w2.step \in Open => w2.overlapped = Busy(h),
               w2.step = "refused" => spent + Estimate > TopLimit
        PROVE  IInv' /\ Refusals
    BY <1>1, <1>2, <1>6, OneOpens DEF opens
  <1>7. CASE opens(Queried(w)) /\ UNCHANGED faults
    <2> DEFINE v == Queried(w)
    <2>1. /\ v \in Work /\ Sound(v, row, spent, counted, waved) /\ v.wrote = {}
          /\ v.step = "refused" => spent + Estimate > TopLimit
          /\ v.step \in Open => v.overlapped = w.overlapped
      BY <1>4, <1>5, QueriedSound
    <2> HIDE DEF v
    <2>2. opens(v) /\ faults' \in Nat
      BY <1>5, <1>7 DEF v
    <2> QED
      BY <1>4, <1>6, <2>1, <2>2
  <1>8. ASSUME Faulty, NEW usable \in BOOLEAN, opens(Unchecked(w, usable))
        PROVE  IInv' /\ Refusals
    <2> DEFINE v == Unchecked(w, usable)
    <2>1. /\ v \in Work /\ Sound(v, row, spent, counted, waved)
          /\ v.step = "call" /\ v.wrote = {} /\ v.overlapped = w.overlapped
      BY <1>4, UncheckedSound
    <2> HIDE DEF v
    <2>2. opens(v) /\ faults' \in Nat
      BY <1>5, <1>8 DEF v, Faulty
    <2> QED
      BY <1>4, <1>6, <2>1, <2>2
  <1> QED
    BY <1>1, <1>7, <1>8

(* What every step of an open session starts from. *)
LEMMA HandlerFacts ==
    ASSUME IInv, NEW h \in Handlers
    PROVE  /\ work[h] \in Work /\ Sound(work[h], row, spent, counted, waved)
           /\ RowKnown(row) /\ UsedBy(row) \in Nat
           /\ spent \in Nat /\ counted \in Nat /\ waved \in Nat /\ faults \in Nat
           /\ Near(UsedBy(row), waved)
           /\ charges \in [Handlers -> Nat] /\ lost \in [Clients -> Nat]
           /\ counted <= UsedBy(row) /\ UsedBy(row) <= spent
           /\ work[h].copy = None \/ work[h].copy \in Quota
  BY RowUsed DEF IInv, TypeOK, RowInv, Work

(* OneMoves, for a session that only waits for the database or has ended. *)
LEMMA SessionMoves ==
    ASSUME IInv, NEW h \in Handlers, Opened(h), NEW w2 \in Work,
           work' = [work EXCEPT ![h] = w2],
           row' = row, UNCHANGED history, UNCHANGED faults \/ Faulty,
           Sound(w2, row, spent, counted, waved),
           w2.step \in Open => w2.overlapped = work[h].overlapped,
           w2.wrote # {} => work[h].wrote # {} \/ ~Locked(h),
           w2.step = "refused" => spent + Estimate > TopLimit
    PROVE  IInv' /\ Refusals
  <1>1. /\ spent \in Nat /\ counted \in Nat /\ faults \in Nat
        /\ charges \in [Handlers -> Nat] /\ lost \in [Clients -> Nat]
    BY HandlerFacts
  <1>2. /\ spent' = spent /\ counted' = counted /\ charges' = charges /\ lost' = lost
        /\ waved' = waved
    BY DEF history
  <1>3. spent' \in Nat /\ spent <= spent' /\ faults' \in Nat
    BY <1>1, <1>2 DEF Faulty
  <1>4. charges' \in [Handlers -> Nat] /\ lost' \in [Clients -> Nat]
    BY <1>1, <1>2
  <1>5. Sound(w2, row, spent', counted, waved)
    BY <1>2
  <1> QED
    BY <1>2, <1>3, <1>4, <1>5, OneMoves

LEMMA InsertKeeps ==
    ASSUME IInv, NEW h \in Handlers, Insert(h)
    PROVE  IInv' /\ Refusals
  <1> DEFINE w == work[h]
             v == [w EXCEPT !.wrote = {"row"}]
  <1>1. /\ w.step = "insert" /\ row' = row /\ UNCHANGED history
        /\ \/ /\ ~Locked(h) /\ row = None /\ UNCHANGED faults
              /\ work' = [work EXCEPT ![h] = Passed(v, w.copy)]
           \/ /\ work' = [work EXCEPT ![h] = Broken(w)]
              /\ UNCHANGED faults \/ Faulty
    BY DEF Insert
  <1>2. /\ w \in Work /\ Sound(w, row, spent, counted, waved) /\ RowKnown(row)
        /\ spent \in Nat /\ counted \in Nat /\ waved \in Nat /\ faults \in Nat
        /\ w.copy = None \/ w.copy \in Quota
    BY HandlerFacts
  <1> HIDE DEF w
  <1>3. Opened(h)
    BY <1>1 DEF Opened, Open, w
  <1>4. CASE /\ ~Locked(h) /\ row = None /\ UNCHANGED faults
             /\ work' = [work EXCEPT ![h] = Passed(v, w.copy)]
    <2>1. /\ w.copy # None /\ w.copy.limit = TopLimit /\ ~w.poisoned
          /\ counted <= w.copy.used /\ w.copy.used <= spent /\ w.copy.used = 0
          /\ ~w.overlapped => w.copy.used = UsedBy(row) + 0
      BY <1>1, <1>2 DEF Sound, Shape, Money, Open
    <2>2. v \in Work /\ v.copy = w.copy /\ v.wrote = {"row"} /\ ~v.poisoned
          /\ v.overlapped = w.overlapped
      BY <1>2, <2>1 DEF Work
    <2> HIDE DEF v
    <2>3. w.copy.used \in Nat /\ UsedBy(row) = 0
      BY <1>2, <1>4, <2>1 DEF Quota, UsedBy
    <2>4. Near(w.copy.used, waved)
      BY <1>2, <2>1, LimitFacts DEF Near
    <2> DEFINE x == Passed(v, v.copy)
    <2>5. /\ x \in Work /\ Sound(x, row, spent, counted, waved)
          /\ x.wrote # {} => x.wrote = v.wrote
          /\ x.step = "refused" => spent + Estimate > TopLimit
          /\ x.step \in Open => x.overlapped = v.overlapped
      BY <1>2, <1>4, <2>1, <2>2, <2>3, <2>4, PassedSound
    <2>6. work' = [work EXCEPT ![h] = x]
      BY <1>4, <2>2
    <2> HIDE DEF x
    <2>7. work[h].overlapped = w.overlapped
      BY DEF w
    <2> QED
      BY <1>1, <1>3, <1>4, <2>2, <2>5, <2>6, <2>7, SessionMoves
  <1>5. CASE /\ work' = [work EXCEPT ![h] = Broken(w)]
             /\ UNCHANGED faults \/ Faulty
    <2> DEFINE x == Broken(w)
    <2>1. /\ x \in Work /\ Sound(x, row, spent, counted, waved)
          /\ x.step \in {"call", "commit"} /\ x.wrote = {}
          /\ x.overlapped = work[h].overlapped
      BY <1>2, BrokenSound DEF w
    <2>2. work' = [work EXCEPT ![h] = x]
      BY <1>5
    <2> HIDE DEF x
    <2> QED
      BY <1>1, <1>3, <1>5, <2>1, <2>2, SessionMoves
  <1> QED
    BY <1>1, <1>4, <1>5

LEMMA UpgradeKeeps ==
    ASSUME IInv, NEW h \in Handlers, Upgrade(h)
    PROVE  IInv' /\ Refusals
  <1> DEFINE w == work[h]
             columns == IF w.copy.used = 0 THEN {"limit"} ELSE {"limit", "used"}
             v == [w EXCEPT !.wrote = columns]
  <1>1. /\ w.step = "upgrade" /\ row' = row /\ UNCHANGED history
        /\ \/ /\ ~Locked(h) /\ UNCHANGED faults
              /\ work' = [work EXCEPT ![h] = Passed(v, w.copy)]
           \/ Faulty /\ work' = [work EXCEPT ![h] = Broken(w)]
    BY DEF Upgrade
  <1>2. /\ w \in Work /\ Sound(w, row, spent, counted, waved) /\ RowKnown(row)
        /\ spent \in Nat /\ counted \in Nat /\ waved \in Nat /\ faults \in Nat
        /\ w.copy = None \/ w.copy \in Quota
    BY HandlerFacts
  <1>3. /\ columns \in SUBSET {"row", "limit", "used"} /\ "limit" \in columns
        /\ "row" \notin columns /\ ("used" \in columns <=> w.copy.used # 0)
    OBVIOUS
  <1> HIDE DEF columns
  <1>4. Opened(h)
    BY <1>1 DEF Opened, Open
  <1> HIDE DEF w
  <1>5. CASE /\ ~Locked(h) /\ UNCHANGED faults
             /\ work' = [work EXCEPT ![h] = Passed(v, w.copy)]
    <2>1. /\ w.copy # None /\ w.copy.limit = TopLimit /\ ~w.poisoned /\ row # None
          /\ counted <= w.copy.used /\ w.copy.used <= spent /\ w.copy.used <= TopLimit
          /\ ~w.overlapped => w.copy.used = UsedBy(row) + 0
          /\ w.copy.used = 0 => row.limit = TopLimit \/ row.used = 0
      BY <1>1, <1>2 DEF Sound, Shape, Fits, Money, Open
    <2>2. v \in Work /\ v.copy = w.copy /\ v.wrote = columns /\ ~v.poisoned
          /\ v.overlapped = w.overlapped
      BY <1>2, <1>3, <2>1 DEF Work
    <2> HIDE DEF v
    <2>3. w.copy.used \in Nat /\ (~w.overlapped => w.copy.used = UsedBy(row))
      BY <1>2, <2>1, RowUsed DEF Quota
    <2>4. Near(w.copy.used, waved)
      BY <1>2, <2>1, <2>3, LimitFacts DEF Near
    <2> DEFINE x == Passed(v, v.copy)
    <2>5. /\ x \in Work /\ Sound(x, row, spent, counted, waved)
          /\ x.wrote # {} => x.wrote = v.wrote
          /\ x.step = "refused" => spent + Estimate > TopLimit
          /\ x.step \in Open => x.overlapped = v.overlapped
      <3>1. w.copy \in Quota
        BY <1>2, <2>1
      <3> QED
        BY <1>2, <1>3, <2>1, <2>2, <2>3, <2>4, <3>1, PassedSound
    <2>6. work' = [work EXCEPT ![h] = x]
      BY <1>5, <2>2
    <2> HIDE DEF x
    <2>7. work[h].overlapped = w.overlapped
      BY DEF w
    <2> QED
      BY <1>1, <1>4, <1>5, <2>2, <2>5, <2>6, <2>7, SessionMoves
  <1>6. CASE Faulty /\ work' = [work EXCEPT ![h] = Broken(w)]
    <2> DEFINE x == Broken(w)
    <2>1. /\ x \in Work /\ Sound(x, row, spent, counted, waved)
          /\ x.step \in {"call", "commit"} /\ x.wrote = {}
          /\ x.overlapped = work[h].overlapped
      BY <1>2, BrokenSound DEF w
    <2>2. work' = [work EXCEPT ![h] = x]
      BY <1>6
    <2> HIDE DEF x
    <2> QED
      BY <1>1, <1>4, <1>6, <2>1, <2>2, SessionMoves
  <1> QED
    BY <1>1, <1>5, <1>6

(* A call changes nothing of what the session has read. *)
LEMMA CallKeeps ==
    ASSUME IInv, NEW h \in Handlers, Call(h)
    PROVE  IInv' /\ Refusals
  <1> DEFINE w == work[h]
  <1>1. /\ w.step = "call" /\ row' = row /\ UNCHANGED history
        /\ \/ \E cost \in Costs :
                 /\ work' = [work EXCEPT ![h].step = "consume", ![h].cost = cost]
                 /\ UNCHANGED faults
           \/ /\ Faulty
              /\ \E x \in {Again(w), Fresh("failed")} : work' = [work EXCEPT ![h] = x]
    BY DEF Call
  <1>2. /\ w \in Work /\ Sound(w, row, spent, counted, waved) /\ RowKnown(row)
        /\ w.copy = None \/ w.copy \in Quota
    BY HandlerFacts
  <1>3. Opened(h)
    BY <1>1 DEF Opened, Open
  <1>4. ASSUME NEW cost \in Costs, UNCHANGED faults,
               work' = [work EXCEPT ![h].step = "consume", ![h].cost = cost]
        PROVE  IInv' /\ Refusals
    <2> DEFINE v == [w EXCEPT !.step = "consume", !.cost = cost]
    <2>1. work' = [work EXCEPT ![h] = v]
      BY <1>4 DEF IInv, TypeOK
    <2>2. cost \in Nat
      BY QuotaAssumption
    <2> HIDE DEF w
    <2>3. /\ v \in Work /\ v.step = "consume" /\ v.cost = cost /\ v.copy = w.copy
          /\ v.wrote = w.wrote /\ v.poisoned = w.poisoned /\ v.overlapped = w.overlapped
          /\ v.checked = w.checked
      BY <1>2, <2>2 DEF Work, Steps, Open
    <2> HIDE DEF v
    <2>4. Shape(v) /\ Fits(v, row)
      BY <1>1, <1>2, <2>3 DEF Sound, Shape, Fits, Open
    <2>5. Money(v, row, spent, counted, waved)
      <3>1. w.copy # None => w.checked
        BY <1>1, <1>2 DEF Sound, Shape
      <3> QED
        BY <1>1, <1>2, <1>4, <2>3, <3>1 DEF Sound, Money
    <2>6. v.overlapped = work[h].overlapped /\ v.wrote = work[h].wrote
      BY <2>3 DEF w
    <2> QED
      BY <1>1, <1>3, <1>4, <2>1, <2>3, <2>4, <2>5, <2>6, SessionMoves DEF Sound
  <1>5. ASSUME Faulty, NEW x \in {Again(w), Fresh("failed")},
               work' = [work EXCEPT ![h] = x]
        PROVE  IInv' /\ Refusals
    <2>1. /\ x \in Work /\ Sound(x, row, spent, counted, waved)
          /\ x.step \in {"check", "failed"} /\ x.wrote = {}
      BY <1>2, AgainSound, FreshSound DEF Steps, Open, Ended
    <2>2. x.step \notin Open /\ x.step # "refused"
      BY <2>1 DEF Open
    <2> HIDE DEF w
    <2> QED
      BY <1>1, <1>3, <1>5, <2>1, <2>2, SessionMoves
  <1> QED
    BY <1>1, <1>4, <1>5

(* The cost is added to the copy, which leaves the limit behind by no more *)
(* than the cost, or, after a check that failed, is a cost that is waved   *)
(* through.                                                                *)
LEMMA ConsumeKeeps ==
    ASSUME IInv, NEW h \in Handlers, Consume(h)
    PROVE  IInv' /\ Refusals
  <1> DEFINE w == work[h]
             skipped == [w EXCEPT !.step = "commit"]
             wrote == IF "row" \in w.wrote THEN w.wrote ELSE w.wrote \cup {"used"}
             summed == [w EXCEPT !.step = "commit", !.copy = Sum(w), !.wrote = wrote]
  <1>1. /\ w.step = "consume" /\ row' = row
        /\ UNCHANGED <<counted, waved, charges, lost>>
        /\ \/ /\ w.poisoned \/ (w.copy # None /\ w.cost = 0)
              /\ work' = [work EXCEPT ![h].step = "commit"] /\ UNCHANGED <<faults, spent>>
           \/ /\ ~w.poisoned /\ w.copy = None
              /\ work' = [work EXCEPT ![h] = Queried(w)] /\ UNCHANGED <<faults, spent>>
           \/ /\ w.copy # None /\ w.cost # 0 /\ ~Locked(h)
              /\ work' = [work EXCEPT ![h] = summed]
              /\ spent' = spent + w.cost /\ UNCHANGED faults
           \/ /\ Faulty /\ work' = [work EXCEPT ![h] = Unconsumed(w)] /\ UNCHANGED spent
    BY DEF Consume
  <1>2. /\ w \in Work /\ Sound(w, row, spent, counted, waved) /\ RowKnown(row)
        /\ UsedBy(row) \in Nat /\ Near(UsedBy(row), waved)
        /\ counted <= UsedBy(row) /\ UsedBy(row) <= spent
        /\ spent \in Nat /\ counted \in Nat /\ waved \in Nat /\ faults \in Nat /\ w.cost \in Nat
        /\ charges \in [Handlers -> Nat] /\ lost \in [Clients -> Nat]
        /\ w.copy = None \/ w.copy \in Quota
    BY HandlerFacts DEF Work
  <1>3. Opened(h)
    BY <1>1 DEF Opened, Open
  <1>4. w.copy # None =>
          /\ counted <= w.copy.used /\ w.copy.used <= spent
          /\ ~w.overlapped => w.copy.used = UsedBy(row) + 0
          /\ w.checked => w.copy.used + Estimate <= TopLimit /\ w.cost \in Costs
          /\ ~w.checked => Near(w.copy.used, waved)
          /\ w.copy.used \in Nat
    BY <1>1, <1>2 DEF Sound, Money, Quota
  <1>5. CASE /\ w.poisoned \/ (w.copy # None /\ w.cost = 0)
             /\ work' = [work EXCEPT ![h].step = "commit"] /\ UNCHANGED <<faults, spent>>
    <2>1. work' = [work EXCEPT ![h] = skipped]
      BY <1>5 DEF IInv, TypeOK
    <2> HIDE DEF w
    <2> DEFINE v == skipped
    <2>2. /\ v \in Work /\ v.step = "commit" /\ v.cost = w.cost /\ v.copy = w.copy
          /\ v.wrote = w.wrote /\ v.poisoned = w.poisoned /\ v.overlapped = w.overlapped
          /\ v.checked = w.checked
      BY <1>2 DEF Work, Steps, Open
    <2> HIDE DEF v
    <2>3. w.copy # None => w.cost = 0 /\ ~w.poisoned
      BY <1>2, <1>5 DEF Sound, Shape
    <2>4. Shape(v) /\ Fits(v, row)
      BY <1>1, <1>2, <1>5, <2>2 DEF Sound, Shape, Fits, Open
    <2>5. Money(v, row, spent, counted, waved)
      <3> SUFFICES ASSUME w.copy # None
                   PROVE  /\ counted <= w.copy.used /\ w.copy.used <= spent
                          /\ ~w.overlapped => w.copy.used = UsedBy(row) + w.cost
                          /\ w.cost = 0
                          /\ Near(w.copy.used, IF w.checked THEN waved ELSE waved + w.cost)
        BY <2>2 DEF Money
      <3>1. waved + w.cost = waved
        BY <1>2, <2>3
      <3>2. w.checked => w.copy.used <= TopLimit + waved
        BY <1>2, <1>4, LimitFacts, QuotaAssumption
      <3>3. Near(w.copy.used, waved)
        BY <1>4, <3>2 DEF Near
      <3> QED
        BY <1>2, <1>4, <2>3, <3>1, <3>3
    <2>6. v.overlapped = work[h].overlapped /\ v.wrote = work[h].wrote
      BY <2>2 DEF w
    <2>7. work' = [work EXCEPT ![h] = v]
      BY <2>1 DEF v
    <2>8. UNCHANGED history
      BY <1>1, <1>5 DEF history
    <2> QED
      BY <1>1, <1>3, <1>5, <2>2, <2>4, <2>5, <2>6, <2>7, <2>8, SessionMoves DEF Sound
  <1>6. CASE /\ ~w.poisoned /\ w.copy = None
             /\ work' = [work EXCEPT ![h] = Queried(w)] /\ UNCHANGED <<faults, spent>>
    <2> HIDE DEF w
    <2> DEFINE v == Queried(w)
    <2>1. w.wrote = {}
      BY <1>2, <1>6 DEF Sound, Shape
    <2>2. /\ v \in Work /\ Sound(v, row, spent, counted, waved) /\ v.wrote = {}
          /\ v.step = "refused" => spent + Estimate > TopLimit
          /\ v.step \in Open => v.overlapped = w.overlapped
      BY <1>2, <1>6, <2>1, QueriedSound
    <2>3. work' = [work EXCEPT ![h] = v]
      BY <1>6
    <2> HIDE DEF v
    <2>4. work[h].overlapped = w.overlapped /\ UNCHANGED history
      BY <1>1, <1>6 DEF w, history
    <2> QED
      BY <1>1, <1>3, <1>6, <2>2, <2>3, <2>4, SessionMoves
  <1>7. CASE /\ w.copy # None /\ w.cost # 0 /\ ~Locked(h)
             /\ work' = [work EXCEPT ![h] = summed]
             /\ spent' = spent + w.cost /\ UNCHANGED faults
    <2> HIDE DEF w
    <2>1. w.copy \in Quota /\ w.copy # None /\ w.copy.limit = TopLimit /\ ~w.poisoned
      BY <1>1, <1>2, <1>7 DEF Sound, Shape, Open
    <2> DEFINE q == Sum(w)
               v == [w EXCEPT !.step = "commit", !.copy = q, !.wrote = wrote]
    <2>2. /\ q \in Quota /\ q.limit = TopLimit /\ q.used = w.copy.used + w.cost /\ q # None
      BY <1>2, <2>1, NoneAssumption DEF Sum, Quota
    <2>3. /\ wrote \in SUBSET {"row", "limit", "used"}
          /\ wrote # {} /\ ("row" \in wrote <=> "row" \in w.wrote)
          /\ ("limit" \in wrote <=> "limit" \in w.wrote) /\ ("used" \in wrote \/ "row" \in wrote)
          /\ "used" \notin wrote => w.wrote # {} /\ "used" \notin w.wrote
      BY <1>2 DEF Work
    <2> HIDE DEF q, wrote
    <2>4. /\ v \in Work /\ v.step = "commit" /\ v.cost = w.cost /\ v.copy = q
          /\ v.wrote = wrote /\ ~v.poisoned /\ v.overlapped = w.overlapped
          /\ v.checked = w.checked
      BY <1>2, <2>1, <2>2, <2>3 DEF Work, Steps, Open
    <2>5. work' = [work EXCEPT ![h] = v]
      BY <1>7 DEF q
    <2> HIDE DEF v
    <2>6. Shape(v)
      BY <2>2, <2>4 DEF Shape, Open
    <2>7. Fits(v, row)
      <3>1. /\ w.wrote # {} => ("row" \in w.wrote <=> row = None)
            /\ "row" \in w.wrote \/ "limit" \in w.wrote \/ (row # None /\ row.limit = TopLimit)
            /\ row # None /\ w.wrote # {} /\ "used" \notin w.wrote
                  => row.limit = TopLimit \/ row.used = 0
        BY <1>1, <1>2, <2>1 DEF Sound, Fits
      <3> QED
        BY <2>3, <2>4, <3>1 DEF Fits
    <2>8. Money(v, row, spent', counted, waved)
      <3>1. /\ counted <= q.used /\ q.used <= spent'
            /\ ~w.overlapped => q.used = UsedBy(row) + w.cost
        BY <1>2, <1>4, <1>7, <2>1, <2>2
      <3>2. CASE w.checked
        <4>1. w.copy.used + Estimate <= TopLimit /\ w.copy.used \in Nat /\ w.cost \in Costs
          BY <1>4, <2>1, <3>2
        <4>2. q.used + Estimate <= TopLimit + w.cost + waved
          BY <1>2, <2>2, <4>1, LimitFacts, QuotaAssumption
        <4>3. Near(q.used, waved)
          BY <4>1, <4>2 DEF Near
        <4> QED
          BY <2>3, <2>4, <3>1, <3>2, <4>3 DEF Money
      <3>3. CASE ~w.checked
        <4>1. Near(w.copy.used, waved) /\ w.copy.used \in Nat
          BY <1>4, <2>1, <3>3
        <4>2. CASE w.copy.used <= TopLimit + waved
          <5>1. q.used <= TopLimit + (waved + w.cost)
            BY <1>2, <2>2, <4>1, <4>2, LimitFacts
          <5> QED
            BY <2>3, <2>4, <3>1, <3>3, <5>1 DEF Money, Near
        <4>3. ASSUME NEW cost \in Costs, w.copy.used + Estimate <= TopLimit + cost + waved
              PROVE  Money(v, row, spent', counted, waved)
          <5>1. q.used + Estimate <= TopLimit + cost + (waved + w.cost)
            BY <1>2, <2>2, <4>1, <4>3, LimitFacts, QuotaAssumption
          <5>2. Near(q.used, waved + w.cost)
            BY <5>1 DEF Near
          <5> QED
            BY <2>3, <2>4, <3>1, <3>3, <5>2 DEF Money
        <4> QED
          BY <4>1, <4>2, <4>3 DEF Near
      <3> QED
        BY <3>2, <3>3
    <2>9. v.overlapped = work[h].overlapped
      BY <2>4 DEF w
    <2>10. /\ spent' \in Nat /\ spent <= spent' /\ faults' \in Nat
           /\ charges' \in [Handlers -> Nat] /\ lost' \in [Clients -> Nat]
           /\ counted' = counted /\ waved' = waved
      BY <1>1, <1>2, <1>7
    <2> QED
      BY <1>1, <1>3, <1>7, <2>4, <2>5, <2>6, <2>7, <2>8, <2>9, <2>10, OneMoves DEF Sound
  <1>8. CASE Faulty /\ work' = [work EXCEPT ![h] = Unconsumed(w)] /\ UNCHANGED spent
    <2> DEFINE v == Unconsumed(w)
    <2>1. /\ v \in Work /\ Sound(v, row, spent, counted, waved)
          /\ v.step = "commit" /\ v.wrote = {} /\ v.overlapped = w.overlapped
      BY <1>2, UnconsumedSound
    <2>2. work' = [work EXCEPT ![h] = v]
      BY <1>8
    <2> HIDE DEF v
    <2>3. UNCHANGED history
      BY <1>1, <1>8 DEF history
    <2> QED
      BY <1>1, <1>3, <1>8, <2>1, <2>2, <2>3, SessionMoves
  <1> QED
    BY <1>1, <1>5, <1>6, <1>7, <1>8

-----------------------------------------------------------------------------
(* What a commit leaves in the row. *)
LEMMA StoredFacts ==
    ASSUME NEW w \in Work, RowKnown(row), NEW sp, NEW ct, NEW wv,
           Sound(w, row, sp, ct, wv), w.wrote # {}
    PROVE  LET r == Stored(w) IN
           /\ r \in Quota /\ r.limit = TopLimit /\ r # None
           /\ UsedBy(r) = IF "row" \in w.wrote \/ "used" \in w.wrote
                          THEN w.copy.used ELSE UsedBy(row)
  <1>1. w.copy \in Quota /\ w.copy # None /\ w.copy.limit = TopLimit
    BY DEF Sound, Shape, Work
  <1>2. \A r \in Quota : r.limit = TopLimit => RowKnown(r) /\ r # None /\ UsedBy(r) = r.used
    BY NoneAssumption, RowUsed DEF RowKnown
  <1>3. CASE "row" \in w.wrote
    BY <1>1, <1>2, <1>3 DEF Stored
  <1>4. CASE "row" \notin w.wrote
    <2> DEFINE l == IF "limit" \in w.wrote THEN w.copy.limit ELSE row.limit
               u == IF "used" \in w.wrote THEN w.copy.used ELSE row.used
    <2>1. row # None /\ row \in Quota
      BY <1>4, RowUsed DEF Sound, Fits
    <2>2. l = TopLimit
      BY <1>1, <1>4 DEF Sound, Fits, Shape
    <2>3. u \in Nat
      BY <1>1, <2>1 DEF Quota
    <2>4. "used" \notin w.wrote => u = UsedBy(row)
      BY <1>1, <2>1, RowUsed DEF Sound, Fits
    <2>5. Stored(w) = [limit |-> l, used |-> u]
      BY <1>4 DEF Stored
    <2> HIDE DEF l
    <2> DEFINE r == Stored(w)
    <2>6. r \in Quota /\ r.limit = TopLimit /\ r.used = u
      BY <2>2, <2>3, <2>5, LimitFacts DEF Quota
    <2> HIDE DEF r
    <2>7. r # None /\ UsedBy(r) = u
      BY <1>2, <2>6
    <2> QED
      BY <1>4, <2>4, <2>6, <2>7 DEF r
  <1> QED
    BY <1>3, <1>4

\* A handler that has no session open.
Settled(w) == w \in Work /\ w.step \notin Open \cup {"refused"} /\ w.copy = None /\ w.wrote = {}
              /\ ~w.poisoned

LEMMA SettledSound ==
    ASSUME NEW w, Settled(w), NEW r, NEW sp, NEW ct, NEW wv
    PROVE  Sound(w, r, sp, ct, wv)
  BY DEF Settled, Sound, Shape, Fits, Money, Open

LEMMA FreshSettled ==
    ASSUME NEW step \in {"check", "remote", "failed", "answer", "answered"}
    PROVE  Settled(Fresh(step)) /\ Fresh(step).step = step
  <1>1. /\ Fresh(step).step = step /\ Fresh(step).wrote = {} /\ Fresh(step).copy = None
        /\ ~Fresh(step).poisoned
    BY DEF Fresh
  <1>2. Fresh(step) \in Work
    BY DEF Fresh, Work, Steps, Ended
  <1> QED
    BY <1>1, <1>2 DEF Settled, Open

LEMMA AttemptSettled ==
    ASSUME NEW w, Settled(w), NEW n \in 1 .. 2
    PROVE  LET v == [w EXCEPT !.attempt = n] IN Settled(v) /\ v.step = w.step
  <1> DEFINE v == [w EXCEPT !.attempt = n]
  <1>1. /\ v \in Work /\ v.step = w.step /\ v.copy = w.copy /\ v.wrote = w.wrote
        /\ v.poisoned = w.poisoned
    BY DEF Settled, Work
  <1> HIDE DEF v
  <1>2. Settled(v) /\ v.step = w.step
    BY <1>1 DEF Settled
  <1> QED
    BY <1>2 DEF v

LEMMA AgainSettled ==
    ASSUME NEW w
    PROVE  Settled(Again(w)) /\ Again(w).step \in {"check", "failed"}
  <1>1. Settled(Fresh("check")) /\ Fresh("check").step = "check"
    BY FreshSettled
  <1>2. Settled(Fresh("failed")) /\ Fresh("failed").step = "failed"
    BY FreshSettled
  <1> DEFINE f == Fresh("check")
             v == [f EXCEPT !.attempt = 2]
  <1>3. Again(w) = v \/ Again(w) = Fresh("failed")
    BY DEF Again
  <1> HIDE DEF f
  <1>4. Settled(v) /\ v.step = "check"
    <2>1. Settled(f) /\ f.step = "check" /\ 2 \in 1 .. 2
      BY <1>1 DEF f
    <2> QED
      BY <2>1, AttemptSettled
  <1> HIDE DEF v
  <1> QED
    BY <1>2, <1>3, <1>4

\* What is left of a handler by its commit.
Committed(w) == [Fresh("answer") EXCEPT !.attempt = w.attempt]

LEMMA CommittedSettled ==
    ASSUME NEW w \in Work
    PROVE  Settled(Committed(w)) /\ Committed(w).step = "answer"
  <1>1. Settled(Fresh("answer")) /\ Fresh("answer").step = "answer" /\ w.attempt \in 1 .. 2
    BY FreshSettled DEF Work
  <1> QED
    BY <1>1, AttemptSettled DEF Committed

(* A commit that goes through. *)
LEMMA CommittedKeeps ==
    ASSUME IInv, NEW h \in Handlers, work[h].step = "commit", ~work[h].poisoned,
           row' = IF work[h].wrote = {} THEN row ELSE Stored(work[h]),
           counted' = IF work[h].overlapped THEN counted ELSE counted + work[h].cost,
           waved' = IF work[h].checked THEN waved ELSE waved + work[h].cost,
           work' = [work EXCEPT ![h] = Committed(work[h])],
           UNCHANGED <<spent, lost, faults>>, charges' \in [Handlers -> Nat]
    PROVE  IInv' /\ Refusals
  <1> DEFINE w == work[h]
  <1>1. /\ w \in Work /\ Sound(w, row, spent, counted, waved) /\ RowKnown(row)
        /\ UsedBy(row) \in Nat
        /\ spent \in Nat /\ counted \in Nat /\ waved \in Nat /\ w.cost \in Nat
        /\ counted <= UsedBy(row) /\ UsedBy(row) <= spent
        /\ w.copy = None \/ w.copy \in Quota
    BY HandlerFacts DEF Work
  <1>2. /\ work \in [Handlers -> Work] /\ Near(UsedBy(row), waved)
        /\ \A g \in Handlers : work[g] \in Work /\ Sound(work[g], row, spent, counted, waved)
    BY DEF IInv, TypeOK, RowInv
  <1>3. Opened(h)
    BY DEF Opened, Open
  <1> DEFINE new == Committed(w)
  <1>4. new \in Work /\ new.step = "answer" /\ new.wrote = {} /\ Settled(new)
    BY <1>1, CommittedSettled DEF Settled
  <1>5. \A g \in Handlers \ {h} : work'[g] = work[g]
    BY <1>2
  <1>6. work'[h] = new
    BY <1>2
  <1> HIDE DEF new
  <1>7. /\ w.copy \in Quota /\ w.copy # None /\ w.copy.used \in Nat
        /\ counted <= w.copy.used /\ w.copy.used <= spent
        /\ ~w.overlapped => w.copy.used = UsedBy(row) + w.cost
        /\ w.cost # 0 => "used" \in w.wrote \/ "row" \in w.wrote
        /\ Near(w.copy.used, IF w.checked THEN waved ELSE waved + w.cost)
    BY <1>1 DEF Sound, Shape, Money, Open, Quota
  <1>8. /\ RowKnown(row')
        /\ w.wrote # {} => row' # None /\ row'.limit = TopLimit
        /\ w.wrote = {} => row' = row
        /\ \/ /\ UsedBy(row') = UsedBy(row)
              /\ w.wrote = {} \/ ~("used" \in w.wrote \/ "row" \in w.wrote)
           \/ UsedBy(row') = w.copy.used /\ ("used" \in w.wrote \/ "row" \in w.wrote)
    <2>1. CASE w.wrote = {}
      BY <1>1, <2>1
    <2>2. CASE w.wrote # {}
      <3> DEFINE r == Stored(w)
      <3>1. /\ r \in Quota /\ r.limit = TopLimit /\ r # None
            /\ UsedBy(r) = IF "row" \in w.wrote \/ "used" \in w.wrote
                           THEN w.copy.used ELSE UsedBy(row)
        BY <1>1, <2>2, StoredFacts
      <3>2. row' = r
        BY <2>2
      <3> HIDE DEF r
      <3> QED
        BY <2>2, <3>1, <3>2 DEF RowKnown
    <2> QED
      BY <2>1, <2>2
  <1>9. /\ counted' = IF w.overlapped THEN counted ELSE counted + w.cost
        /\ waved' = IF w.checked THEN waved ELSE waved + w.cost
        /\ spent' = spent
    OBVIOUS
  <1>10. ASSUME NEW g \in Handlers \ {h}, Opened(g)
         PROVE  w.overlapped /\ work[g].overlapped
    BY <1>3, <1>10 DEF IInv, Apart
  <1>11. w.wrote # {} => \A g \in Handlers \ {h} : work[g].wrote = {}
    BY DEF IInv, Apart
  <1> HIDE DEF w
  <1>12. counted' \in Nat /\ counted' <= UsedBy(row') /\ UsedBy(row') <= spent
    <2>1. CASE w.overlapped
      BY <1>1, <1>7, <1>8, <1>9, <2>1
    <2>2. CASE ~w.overlapped /\ w.cost = 0
      BY <1>1, <1>7, <1>8, <1>9, <2>2
    <2>3. CASE ~w.overlapped /\ w.cost # 0
      BY <1>1, <1>7, <1>8, <1>9, <2>3
    <2> QED
      BY <2>1, <2>2, <2>3
  <1>13. waved' \in Nat /\ waved <= waved' /\ Near(UsedBy(row'), waved')
    <2>1. waved' \in Nat /\ waved <= waved'
      BY <1>1, <1>9
    <2>2. Near(w.copy.used, waved')
      BY <1>7, <1>9
    <2>3. Near(UsedBy(row), waved')
      BY <1>1, <1>2, <2>1, NearLater
    <2> QED
      BY <1>8, <2>1, <2>2, <2>3
  <1>14. TypeOK'
    <2>1. row' \in Quota \cup {None}
      BY <1>8 DEF RowKnown
    <2>2. work' \in [Handlers -> Work]
      <3>1. \A g \in Handlers : work'[g] \in Work
        BY <1>2, <1>4, <1>5, <1>6
      <3> QED
        BY <1>2, <3>1
    <2> QED
      BY <1>1, <1>12, <1>13, <2>1, <2>2 DEF IInv, TypeOK
  <1>15. RowInv'
    BY <1>8, <1>9, <1>12, <1>13 DEF RowInv
  <1>16. ASSUME NEW g \in Handlers
         PROVE  Sound(work'[g], row', spent', counted', waved')
    <2>1. CASE g = h
      BY <1>4, <1>6, <2>1, SettledSound
    <2>2. CASE g # h /\ work[g].copy # None
      <3>1. Opened(g)
        BY <1>2, <2>2 DEF Sound, Shape, Opened
      <3>2. counted' = counted /\ work[g].overlapped
        BY <1>9, <1>10, <2>2, <3>1
      <3>3. Sound(work[g], row', spent, counted, waved)
        <4>1. CASE w.wrote = {}
          BY <1>2, <1>8, <4>1
        <4>2. CASE w.wrote # {}
          BY <1>2, <1>8, <1>11, <2>2, <3>2, <4>2, OtherCommitted
        <4> QED
          BY <4>1, <4>2
      <3>4. spent <= spent' /\ spent' \in Nat
        BY <1>1, <1>9
      <3>5. Sound(work[g], row', spent', counted, waved')
        BY <1>1, <1>2, <1>13, <3>3, <3>4, Later
      <3> QED
        BY <1>5, <2>2, <3>2, <3>5
    <2>3. CASE g # h /\ work[g].copy = None
      <3>1. Sound(work[g], row, spent, counted, waved)
        BY <1>2
      <3>2. work[g].step # "upgrade" /\ work[g].wrote = {}
        BY <2>3, <3>1 DEF Sound, Shape, Open
      <3>3. Sound(work[g], row', spent', counted', waved')
        BY <2>3, <3>1, <3>2 DEF Sound, Shape, Fits, Money
      <3> QED
        BY <1>5, <2>3, <3>3
    <2> QED
      BY <2>1, <2>2, <2>3
  <1>17. Apart'
    <2> SUFFICES ASSUME NEW f \in Handlers, NEW g \in Handlers, f # g
                 PROVE  /\ Opened(f)' /\ Opened(g)' => work'[f].overlapped
                        /\ work'[f].wrote # {} => work'[g].wrote = {}
      BY DEF Apart
    <2>1. \A e \in Handlers : Opened(e)' => e # h /\ Opened(e)
      BY <1>4, <1>5, <1>6 DEF Opened, Open
    <2>2. \A e \in Handlers : work'[e].wrote # {} => e # h /\ work[e].wrote # {}
      BY <1>4, <1>5, <1>6
    <2> QED
      BY <1>4, <1>5, <1>6, <2>1, <2>2 DEF IInv, Apart
  <1>18. Refusals
    BY <1>4, <1>5, <1>6 DEF Refusals
  <1> QED
    BY <1>14, <1>15, <1>16, <1>17, <1>18 DEF IInv

-----------------------------------------------------------------------------
(* Some handlers settle, and nothing else happens. *)
LEMMA SettledMoves ==
    ASSUME IInv, row' = row, UNCHANGED <<spent, counted, waved, charges>>,
           lost' \in [Clients -> Nat],
           UNCHANGED faults \/ Faulty, work' \in [Handlers -> Work],
           \A g \in Handlers : work'[g] = work[g] \/ Settled(work'[g])
    PROVE  IInv' /\ Refusals
  <1>1. /\ spent' = spent /\ counted' = counted /\ charges' = charges /\ waved' = waved
    OBVIOUS
  <1>2. TypeOK'
    BY <1>1 DEF IInv, TypeOK, Faulty
  <1>3. RowInv'
    BY <1>1 DEF IInv, RowInv
  <1>4. ASSUME NEW g \in Handlers
        PROVE  Sound(work'[g], row', spent', counted', waved')
    <2>1. CASE work'[g] = work[g]
      BY <1>1, <2>1 DEF IInv
    <2>2. CASE Settled(work'[g])
      BY <2>2, SettledSound
    <2> QED
      BY <2>1, <2>2
  <1>5. \A g \in Handlers : Opened(g)' \/ work'[g].wrote # {} => work'[g] = work[g]
    BY DEF Settled, Opened
  <1>6. Apart'
    <2> SUFFICES ASSUME NEW f \in Handlers, NEW g \in Handlers, f # g
                 PROVE  /\ Opened(f)' /\ Opened(g)' => work'[f].overlapped
                        /\ work'[f].wrote # {} => work'[g].wrote = {}
      BY DEF Apart
    <2>1. Opened(f)' /\ Opened(g)' => work'[f].overlapped
      <3>1. Opened(f)' /\ Opened(g)' => Opened(f) /\ Opened(g) /\ work'[f] = work[f]
        BY <1>5 DEF Opened
      <3> QED
        BY <3>1 DEF IInv, Apart
    <2>2. work'[f].wrote # {} => work'[g].wrote = {}
      BY <1>5 DEF IInv, Apart
    <2> QED
      BY <2>1, <2>2
  <1>7. Refusals
    BY DEF Refusals, Settled
  <1> QED
    BY <1>2, <1>3, <1>4, <1>6, <1>7 DEF IInv

LEMMA LosesType ==
    ASSUME TypeOK, NEW h \in Handlers, Loses(h) \/ lost' = lost
    PROVE  lost' \in [Clients -> Nat]
  <1>1. h[1] \in Clients /\ lost \in [Clients -> Nat]
    BY DEF Handlers, TypeOK
  <1> QED
    BY <1>1 DEF Loses

(* One handler settles. *)
LEMMA OneSettles ==
    ASSUME IInv, row' = row, UNCHANGED <<spent, counted, waved, charges>>,
           UNCHANGED faults \/ Faulty, NEW h \in Handlers, Loses(h) \/ lost' = lost,
           NEW w, Settled(w), work' = [work EXCEPT ![h] = w]
    PROVE  IInv' /\ Refusals
  <1>1. work \in [Handlers -> Work] /\ w \in Work
    BY DEF IInv, TypeOK, Settled
  <1>2. /\ work' \in [Handlers -> Work]
        /\ \A g \in Handlers : work'[g] = work[g] \/ Settled(work'[g])
    BY <1>1
  <1>3. lost' \in [Clients -> Nat]
    BY LosesType DEF IInv
  <1> QED
    BY <1>2, <1>3, SettledMoves

LEMMA CommitKeeps ==
    ASSUME IInv, NEW h \in Handlers, Commit(h)
    PROVE  IInv' /\ Refusals
  <1>1. charges \in [Handlers -> Nat] /\ Settled(Committed(work[h]))
    BY CommittedSettled DEF IInv, TypeOK
  <1>2. /\ work[h].step = "commit" /\ UNCHANGED <<spent, lost>>
        /\ work' = [work EXCEPT ![h] = Committed(work[h])]
    BY DEF Commit, Committed
  <1>3. CASE /\ ~work[h].poisoned /\ UNCHANGED faults
             /\ row' = IF work[h].wrote = {} THEN row ELSE Stored(work[h])
             /\ counted' = IF work[h].overlapped THEN counted ELSE counted + work[h].cost
             /\ waved' = IF work[h].checked THEN waved ELSE waved + work[h].cost
             /\ charges' = [charges EXCEPT ![h] = IF work[h].cost = 0 THEN @ ELSE @ + 1]
    <2>1. charges' \in [Handlers -> Nat]
      BY <1>1, <1>3
    <2> QED
      BY <1>2, <1>3, <2>1, CommittedKeeps
  <1>4. CASE UNCHANGED <<row, counted, waved, charges>> /\ (UNCHANGED faults \/ Faulty)
    <2>1. UNCHANGED <<spent, counted, waved, charges>> /\ row' = row /\ lost' = lost
      BY <1>2, <1>4
    <2> QED
      BY <1>1, <1>2, <1>4, <2>1, OneSettles
  <1> QED
    BY <1>3, <1>4 DEF Commit

LEMMA AnswerKeeps ==
    ASSUME IInv, NEW h \in Handlers, Answer(h)
    PROVE  IInv' /\ Refusals
  <1>1. PICK w \in {Fresh("answered"), Again(work[h]), Fresh("failed")} :
          work' = [work EXCEPT ![h] = w]
    BY DEF Answer
  <1>2. Settled(w)
    BY FreshSettled, AgainSettled
  <1>3. /\ row' = row /\ UNCHANGED <<spent, counted, waved, charges>>
        /\ UNCHANGED faults \/ Faulty
        /\ Loses(h) \/ lost' = lost
    BY DEF Answer
  <1> QED
    BY <1>1, <1>2, <1>3, OneSettles

LEMMA KillKeeps ==
    ASSUME IInv, NEW h \in Handlers, Kill(h)
    PROVE  IInv' /\ Refusals
  <1>1. Settled(Fresh("failed"))
    BY FreshSettled
  <1>2. /\ work' = [work EXCEPT ![h] = Fresh("failed")]
        /\ row' = row /\ UNCHANGED <<spent, counted, waved, charges>> /\ Faulty
        /\ Loses(h) \/ lost' = lost
    BY DEF Kill
  <1> QED
    BY <1>1, <1>2, OneSettles

LEMMA ClientHandlers ==
    ASSUME NEW c \in Clients
    PROVE  /\ Own(c) \in Handlers /\ Remote(c) \in Handlers /\ Own(c) # Remote(c)
           /\ \A d \in Clients : /\ Own(d) # Remote(c)
                                  /\ d # c => Own(d) # Own(c) /\ Remote(d) # Remote(c)
  BY DEF Own, Remote, Handlers

LEMMA FallbackSettled ==
    ASSUME NEW w \in Fallbacks
    PROVE  Settled(w) /\ w.step \in {"check", "failed"}
  <1> DEFINE f == Fresh("check")
  <1>1. Settled(f) /\ f.step = "check"
    BY FreshSettled DEF Fresh
  <1>2. Settled(Fresh("failed")) /\ Fresh("failed").step = "failed"
    BY FreshSettled DEF Fresh
  <1> HIDE DEF f
  <1> DEFINE v == [f EXCEPT !.attempt = 2]
  <1>3. Settled(v) /\ v.step = "check"
    <2>1. f \in Work
      BY <1>1 DEF Settled
    <2>2. /\ v \in Work /\ v.step = f.step /\ v.copy = f.copy /\ v.wrote = f.wrote
          /\ v.poisoned = f.poisoned
      BY <2>1 DEF Work
    <2> HIDE DEF v
    <2> QED
      BY <1>1, <2>2 DEF Settled
  <1>4. w = f \/ w = v \/ w = Fresh("failed")
    BY DEF Fallbacks, f
  <1> HIDE DEF v
  <1> QED
    BY <1>1, <1>2, <1>3, <1>4

LEMMA ClientKeeps ==
    ASSUME IInv, NEW c \in Clients, Request(c) \/ RemoteAnswers(c) \/ RemoteGivenUp(c)
    PROVE  IInv' /\ Refusals
  <1>1. work \in [Handlers -> Work] /\ Own(c) \in Handlers /\ Remote(c) \in Handlers
    BY ClientHandlers DEF IInv, TypeOK
  <1>2. row' = row
    BY DEF Request, RemoteAnswers, RemoteGivenUp
  <1>3. CASE Request(c)
    <2>1. /\ Settled(Fresh("check")) /\ Settled(Fresh("remote"))
          /\ Fresh("check") \in Work /\ Fresh("remote") \in Work
      BY FreshSettled DEF Settled
    <2>2. UNCHANGED <<spent, counted, waved, charges, faults>> /\ lost' \in [Clients -> Nat]
      BY <1>3 DEF Request, history, IInv, TypeOK
    <2>3. CASE work' = [work EXCEPT ![Own(c)] = Fresh("check")]
      <3>1. /\ work' \in [Handlers -> Work]
            /\ \A g \in Handlers : work'[g] = work[g] \/ Settled(work'[g])
        BY <1>1, <2>1, <2>3
      <3> QED
        BY <1>2, <2>2, <3>1, SettledMoves
    <2>4. CASE work' = [work EXCEPT ![Own(c)] = Fresh("remote"), ![Remote(c)] = Fresh("check")]
      <3>1. /\ work' \in [Handlers -> Work]
            /\ \A g \in Handlers : work'[g] = work[g] \/ Settled(work'[g])
        BY <1>1, <2>1, <2>4
      <3> QED
        BY <1>2, <2>2, <3>1, SettledMoves
    <2> QED
      BY <1>3, <2>3, <2>4 DEF Request
  <1>4. CASE RemoteAnswers(c)
    <2> DEFINE w == work[Own(c)]
               v == [w EXCEPT !.step = "answered"]
    <2>1. w \in Work /\ w.step = "remote" /\ Shape(w)
      BY <1>1, <1>4 DEF RemoteAnswers, IInv, Sound
    <2>2. work' = [work EXCEPT ![Own(c)] = v]
      BY <1>1, <1>4 DEF RemoteAnswers
    <2> HIDE DEF w
    <2>3. w.copy = None /\ w.wrote = {} /\ ~w.poisoned
      BY <2>1 DEF Shape, Open, Work
    <2>4. /\ v \in Work /\ v.step = "answered" /\ v.copy = None /\ v.wrote = {} /\ ~v.poisoned
      BY <2>1, <2>3 DEF Work, Steps, Ended
    <2> HIDE DEF v
    <2>5. Settled(v)
      BY <2>4 DEF Settled, Open
    <2>6. /\ work' \in [Handlers -> Work]
          /\ \A g \in Handlers : work'[g] = work[g] \/ Settled(work'[g])
      BY <1>1, <2>2, <2>4, <2>5
    <2>7. UNCHANGED <<spent, counted, waved, charges, faults>> /\ lost' \in [Clients -> Nat]
      BY <1>4 DEF RemoteAnswers, history, IInv, TypeOK
    <2> QED
      BY <1>2, <2>6, <2>7, SettledMoves
  <1>5. CASE RemoteGivenUp(c)
    <2>1. PICK w \in Fallbacks : work' = [work EXCEPT ![Own(c)] = w]
      BY <1>5 DEF RemoteGivenUp
    <2>2. Settled(w) /\ w \in Work
      BY FallbackSettled DEF Settled
    <2>3. \A g \in Handlers : work'[g] = work[g] \/ Settled(work'[g])
      BY <1>1, <2>1, <2>2
    <2>4. /\ UNCHANGED <<faults, spent, counted, waved, charges>> /\ lost' \in [Clients -> Nat]
          /\ work' \in [Handlers -> Work]
      <3>1. lost \in [Clients -> Nat]
        BY DEF IInv, TypeOK
      <3>2. lost' = lost \/ lost' = [lost EXCEPT ![c] = @ + 1]
        BY <1>5 DEF RemoteGivenUp
      <3> QED
        BY <1>1, <1>5, <2>1, <2>2, <3>1, <3>2 DEF RemoteGivenUp
    <2> QED
      BY <1>2, <2>3, <2>4, SettledMoves
  <1> QED
    BY <1>3, <1>4, <1>5

-----------------------------------------------------------------------------
LEMMA QuotaInit == Init => IInv
  <1> SUFFICES ASSUME Init PROVE IInv
    OBVIOUS
  <1>1. \A h \in Handlers : work[h] = Fresh("idle")
    BY DEF Init
  <1>2. Fresh("idle") \in Work /\ Fresh("idle").step = "idle" /\ Fresh("idle").wrote = {}
        /\ \A r, sp, ct, wv : Sound(Fresh("idle"), r, sp, ct, wv)
    BY FreshSound DEF Steps, Open, Ended
  <1>3. RowKnown(row)
    BY LimitFacts, QuotaAssumption DEF Init, RowKnown, Quota, TopLimit
  <1>4. spent = UsedBy(row) /\ UsedBy(row) \in Nat
    BY <1>3, RowUsed DEF Init, UsedBy
  <1>5. UsedBy(row) <= TopLimit
    <2>1. CASE row = None
      BY <2>1, LimitFacts DEF UsedBy
    <2>2. CASE row # None /\ row.limit # TopLimit
      BY <1>3, <2>2, RowUsed
    <2>3. CASE row # None /\ row.limit = TopLimit
      BY <1>3, <2>3, RowUsed, LimitFacts, QuotaAssumption DEF Init
    <2> QED
      BY <2>1, <2>2, <2>3
  <1>6. TypeOK
    <2>1. row \in Quota \cup {None}
      BY <1>3 DEF RowKnown
    <2>2. work \in [Handlers -> Work]
      BY <1>2 DEF Init
    <2> QED
      BY <1>4, <2>1, <2>2 DEF Init, TypeOK
  <1>7. RowInv
    <2>1. UsedBy(row) <= TopLimit + waved
      BY <1>4, <1>5, LimitFacts DEF Init
    <2> QED
      BY <1>3, <1>4, <2>1 DEF RowInv, Near, Init
  <1>8. Apart
    BY <1>1, <1>2 DEF Apart, Opened, Open
  <1> QED
    BY <1>1, <1>2, <1>6, <1>7, <1>8 DEF IInv

LEMMA QuotaStep ==
    ASSUME IInv, [Next]_vars
    PROVE  IInv' /\ Refusals
  <1>1. CASE UNCHANGED vars
    <2>1. /\ row' = row /\ work' = work /\ UNCHANGED faults
          /\ UNCHANGED <<spent, counted, waved, charges, lost>>
      BY <1>1 DEF vars, history
    <2>2. work' \in [Handlers -> Work] /\ lost' \in [Clients -> Nat]
      BY <2>1 DEF IInv, TypeOK
    <2> QED
      BY <2>1, <2>2, SettledMoves
  <1>2. ASSUME NEW h \in Handlers, Step(h)
        PROVE  IInv' /\ Refusals
    BY <1>2, CheckKeeps, InsertKeeps, UpgradeKeeps, CallKeeps, ConsumeKeeps, CommitKeeps,
       AnswerKeeps DEF Step
  <1> QED
    BY <1>1, <1>2, KillKeeps, ClientKeeps DEF Next

(* The inductive invariant holds in every state (Next).                    *)
THEOREM Invariance == Spec => []IInv
  BY QuotaInit, QuotaStep, PTL DEF Spec

(* Every variable keeps its type: a second attempt is the last.            *)
THEOREM TypeCorrect == Spec => []TypeOK
  <1>1. IInv => TypeOK
    BY DEF IInv
  <1> QED
    BY <1>1, Invariance, PTL

(* The table says no more than consume_quota was given, and no less than   *)
(* what sessions have committed that no other overlapped                   *)
(* (get_or_create_quota, consume_quota).                                   *)
THEOREM UsedBounded == Spec => []UsedIsBetween
  <1>1. IInv => UsedIsBetween
    BY DEF IInv, RowInv, UsedIsBetween
  <1> QED
    BY <1>1, Invariance, PTL

(* The limit is passed by no more than the cost of one answer, and of the  *)
(* calls whose check had failed, however many requests have passed the     *)
(* check (check_quota, _route_llm_in_process).                             *)
THEOREM LimitHolds == Spec => []UsedNearLimit
  <1>1. IInv => UsedNearLimit
    <2> SUFFICES ASSUME IInv
                 PROVE  UsedNearLimit
      OBVIOUS
    <2>1. Near(UsedBy(row), waved) /\ waved \in Nat /\ TopLimit \in Nat
      BY LimitFacts DEF IInv, RowInv, TypeOK
    <2>2. CASE UsedBy(row) <= TopLimit + waved
      BY <2>2 DEF TopLimit, UsedNearLimit
    <2>3. ASSUME NEW cost \in Costs, UsedBy(row) + Estimate <= TopLimit + cost + waved
          PROVE  UsedNearLimit
      <3>1. cost \in Nat
        BY QuotaAssumption
      <3>2. UsedBy(row) + Estimate <= (TopLimit + waved) + cost
        BY <2>1, <2>3, <3>1
      <3> QED
        BY <3>2 DEF TopLimit, UsedNearLimit
    <2> QED
      BY <2>1, <2>2, <2>3 DEF Near
  <1> QED
    BY <1>1, Invariance, PTL

(* A request is refused only when consume_quota was given what the limit   *)
(* allows but for the estimate (check_quota, LLMBudgetExceededError).      *)
THEOREM RefusedRightly == Spec => RefusedWhenSpent
  <1>1. IInv /\ [Next]_vars =>
          [\A h \in Handlers : (work[h].step # "refused" /\ work[h]'.step = "refused")
              => spent + Estimate > DefaultLimit * Scale]_vars
    BY QuotaStep DEF Refusals, TopLimit
  <1> QED
    BY <1>1, Invariance, PTL DEF Spec, RefusedWhenSpent

-----------------------------------------------------------------------------
(* Who is charged: what a handler has committed, and may still commit. *)
Part(h) == charges[h] + (IF work[h].step \in {"check"} \cup Open THEN 1 ELSE 0)
Total(c) == Part(Own(c)) + Part(Remote(c))

(* A request is charged for, or can still be, once more than answers were  *)
(* lost; and no more than that when its own handler is still to fall back. *)
Charged ==
    \A c \in Clients :
        /\ work[Remote(c)].step # "remote"
        /\ work[Own(c)].step = "idle" => work[Remote(c)].step = "idle" /\ Total(c) = 0
        /\ Total(c) <= 1 + lost[c]
        /\ work[Own(c)].step = "remote" /\ work[Remote(c)].step \in {"refused", "failed"}
              => Total(c) <= lost[c]

(* A step of one handler: it stays at work, or ends without a commit, or   *)
(* loses an answer.                                                        *)
Moved(h) ==
    /\ work[h].step # "idle" /\ work'[h].step \notin {"idle", "remote"}
    /\ \A g \in Handlers \ {h} : work'[g].step = work[g].step /\ charges'[g] = charges[g]
    /\ \/ /\ lost' = lost /\ work'[h].step \notin {"refused", "failed"}
          /\ Part(h)' <= Part(h)
       \/ /\ lost' = lost /\ Part(h)' + 1 <= Part(h)
       \/ /\ lost' = lost /\ work[h].step = "remote" /\ Part(h)' <= Part(h)
       \/ /\ Loses(h) /\ Part(h)' <= Part(h) + 1
          /\ work'[h].step \in {"refused", "failed"} => Part(h)' <= Part(h)

LEMMA PartType ==
    ASSUME TypeOK, NEW h \in Handlers
    PROVE  Part(h) \in Nat
  BY DEF TypeOK, Part

LEMMA MovedCharges ==
    ASSUME TypeOK, TypeOK', Charged, NEW h \in Handlers, Moved(h)
    PROVE  Charged'
  <1> SUFFICES ASSUME NEW c \in Clients
               PROVE  /\ work'[Remote(c)].step # "remote"
                      /\ work'[Own(c)].step = "idle"
                            => work'[Remote(c)].step = "idle" /\ Total(c)' = 0
                      /\ Total(c)' <= 1 + lost'[c]
                      /\ /\ work'[Own(c)].step = "remote"
                         /\ work'[Remote(c)].step \in {"refused", "failed"}
                         => Total(c)' <= lost'[c]
    BY DEF Charged
  <1>1. /\ Own(c) \in Handlers /\ Remote(c) \in Handlers /\ Own(c) # Remote(c)
        /\ Own(c)[1] = c /\ Remote(c)[1] = c
    BY ClientHandlers DEF Own, Remote
  <1>2. PICK a \in Nat : a = Part(Own(c))
    BY <1>1, PartType
  <1>3. PICK b \in Nat : b = Part(Remote(c))
    BY <1>1, PartType
  <1>4. PICK a2 \in Nat : a2 = Part(Own(c))'
    <2>1. Part(Own(c))' \in Nat
      BY <1>1 DEF TypeOK, Part
    <2> QED
      BY <2>1
  <1>5. PICK b2 \in Nat : b2 = Part(Remote(c))'
    <2>1. Part(Remote(c))' \in Nat
      BY <1>1 DEF TypeOK, Part
    <2> QED
      BY <2>1
  <1>6. PICK n \in Nat : n = lost[c]
    BY DEF TypeOK
  <1>7. Total(c) = a + b /\ Total(c)' = a2 + b2
    BY <1>2, <1>3, <1>4, <1>5 DEF Total
  <1>8. /\ work[Remote(c)].step # "remote"
        /\ work[Own(c)].step = "idle" => work[Remote(c)].step = "idle" /\ a + b = 0
        /\ a + b <= 1 + n
        /\ work[Own(c)].step = "remote" /\ work[Remote(c)].step \in {"refused", "failed"}
              => a + b <= n
    BY <1>6, <1>7 DEF Charged
  <1>9. \A g \in Handlers \ {h} : Part(g)' = Part(g)
    BY DEF Moved, Part
  <1>10. Loses(h) /\ h[1] = c => lost'[c] = n + 1
    BY <1>6 DEF Loses, TypeOK
  <1>11. Loses(h) /\ h[1] # c => lost'[c] = n
    BY <1>6 DEF Loses, TypeOK
  <1>12. lost' = lost => lost'[c] = n
    BY <1>6
  <1>13. CASE h = Own(c)
    <2>1. b2 = b /\ work'[Remote(c)].step = work[Remote(c)].step
      BY <1>1, <1>3, <1>5, <1>9, <1>13 DEF Moved
    <2>2. work[Own(c)].step # "idle" /\ work'[Own(c)].step \notin {"idle", "remote"}
      BY <1>13 DEF Moved
    <2>3. \/ lost'[c] = n /\ a2 <= a
          \/ lost'[c] = n + 1 /\ a2 <= a + 1
      <3>1. \/ lost' = lost /\ (a2 <= a \/ a2 + 1 <= a)
            \/ Loses(h) /\ a2 <= a + 1
        BY <1>2, <1>4, <1>13 DEF Moved
      <3> QED
        BY <1>1, <1>10, <1>12, <1>13, <3>1
    <2> QED
      BY <1>7, <1>8, <2>1, <2>2, <2>3
  <1>14. CASE h = Remote(c)
    <2>1. a2 = a /\ work'[Own(c)].step = work[Own(c)].step
      BY <1>1, <1>2, <1>4, <1>9, <1>14 DEF Moved
    <2>2. work[Remote(c)].step # "idle" /\ work'[Remote(c)].step \notin {"idle", "remote"}
      BY <1>14 DEF Moved
    <2>3. \/ lost'[c] = n /\ b2 <= b /\ work'[Remote(c)].step \notin {"refused", "failed"}
          \/ lost'[c] = n /\ b2 + 1 <= b
          \/ /\ lost'[c] = n + 1 /\ b2 <= b + 1
             /\ work'[Remote(c)].step \in {"refused", "failed"} => b2 <= b
      <3>1. \/ lost' = lost /\ b2 <= b /\ work'[Remote(c)].step \notin {"refused", "failed"}
            \/ lost' = lost /\ b2 + 1 <= b
            \/ /\ Loses(h) /\ b2 <= b + 1
               /\ work'[Remote(c)].step \in {"refused", "failed"} => b2 <= b
        BY <1>3, <1>5, <1>8, <1>14 DEF Moved
      <3> QED
        BY <1>1, <1>10, <1>12, <1>14, <3>1
    <2> QED
      BY <1>7, <1>8, <2>1, <2>2, <2>3
  <1>15. CASE h # Own(c) /\ h # Remote(c)
    <2>1. /\ a2 = a /\ work'[Own(c)].step = work[Own(c)].step
          /\ b2 = b /\ work'[Remote(c)].step = work[Remote(c)].step
      BY <1>1, <1>2, <1>3, <1>4, <1>5, <1>9, <1>15 DEF Moved
    <2>2. h[1] # c
      BY <1>15 DEF Handlers, Own, Remote
    <2>3. lost'[c] = n
      BY <1>11, <1>12, <2>2 DEF Moved
    <2> QED
      BY <1>7, <1>8, <2>1, <2>3
  <1> QED
    BY <1>13, <1>14, <1>15

-----------------------------------------------------------------------------
(* Each step of a handler is such a step. *)

LEMMA GoesOn ==
    ASSUME TypeOK, NEW h \in Handlers, work[h].step \in {"check"} \cup Open,
           work'[h].step \in Open \cup {"check", "refused", "failed"},
           \A g \in Handlers \ {h} : work'[g].step = work[g].step,
           charges' = charges, lost' = lost
    PROVE  Moved(h)
  <1>1. charges[h] \in Nat
    BY DEF TypeOK
  <1>2. Part(h) = charges[h] + 1
    BY DEF Part
  <1>3. CASE work'[h].step \in {"check"} \cup Open
    <2>1. Part(h)' = charges[h] + 1
      BY <1>3 DEF Part
    <2>2. work'[h].step \notin {"refused", "failed", "idle", "remote"} /\ work[h].step # "idle"
      BY <1>3 DEF Open
    <2> QED
      BY <1>1, <1>2, <2>1, <2>2 DEF Moved
  <1>4. CASE work'[h].step \in {"refused", "failed"}
    <2>1. Part(h)' = charges[h] + 0
      BY <1>4 DEF Part, Open
    <2>2. work'[h].step \notin {"idle", "remote"} /\ work[h].step # "idle"
      BY <1>4 DEF Open
    <2> QED
      BY <1>1, <1>2, <2>1, <2>2 DEF Moved
  <1> QED
    BY <1>3, <1>4

LEMMA OneGoesOn ==
    ASSUME TypeOK, NEW h \in Handlers, work[h].step \in {"check"} \cup Open, NEW w2,
           work' = [work EXCEPT ![h] = w2], charges' = charges, lost' = lost,
           w2.step \in Open \cup {"check", "refused", "failed"}
    PROVE  Moved(h)
  <1>1. work'[h].step = w2.step /\ \A g \in Handlers \ {h} : work'[g].step = work[g].step
    BY DEF TypeOK
  <1> QED
    BY <1>1, GoesOn

LEMMA NextSteps ==
    ASSUME NEW w \in Work
    PROVE  /\ \A q : Passed(w, q).step \in {"call", "refused", "consume"}
           /\ Queried(w).step \in {"insert", "upgrade", "call", "refused", "consume"}
           /\ \A usable : Unchecked(w, usable).step = "call"
           /\ Unconsumed(w).step = "commit" /\ Broken(w).step \in {"call", "commit"}
  <1>1. ASSUME NEW v \in Work, NEW q
        PROVE  Passed(v, q).step \in {"call", "refused", "consume"}
    <2>1. /\ [v EXCEPT !.step = "call"].step = "call"
          /\ [v EXCEPT !.step = "consume"].step = "consume"
          /\ Fresh("refused").step = "refused"
      BY DEF Work, Fresh
    <2>2. \/ Passed(v, q) = [v EXCEPT !.step = "call"]
          \/ Passed(v, q) = [v EXCEPT !.step = "consume"]
          \/ Passed(v, q) = Fresh("refused")
      BY DEF Passed, Tested
    <2> QED
      BY <2>1, <2>2
  <1>2. Queried(w).step \in {"insert", "upgrade", "call", "refused", "consume"}
    <2> DEFINE inserted == [w EXCEPT !.step = "insert", !.wrote = {},
                               !.copy = [limit |-> DefaultLimit * Scale, used |-> 0]]
               upgraded == [w EXCEPT !.step = "upgrade", !.copy = Upgraded(row)]
               loaded == [w EXCEPT !.copy = row]
    <2>1. inserted.step = "insert" /\ upgraded.step = "upgrade"
      BY DEF Work
    <2>2. Passed(loaded, row).step \in {"call", "refused", "consume"}
      <3>1. /\ [loaded EXCEPT !.step = "call"].step = "call"
            /\ [loaded EXCEPT !.step = "consume"].step = "consume"
            /\ Fresh("refused").step = "refused"
        BY DEF Work, Fresh
      <3>2. \/ Passed(loaded, row) = [loaded EXCEPT !.step = "call"]
            \/ Passed(loaded, row) = [loaded EXCEPT !.step = "consume"]
            \/ Passed(loaded, row) = Fresh("refused")
        BY DEF Passed, Tested
      <3> HIDE DEF loaded
      <3> QED
        BY <3>1, <3>2
    <2>3. \/ Queried(w) = inserted \/ Queried(w) = upgraded
          \/ Queried(w) = Passed(loaded, row)
      BY DEF Queried
    <2> HIDE DEF inserted, upgraded, loaded
    <2> QED
      BY <2>1, <2>2, <2>3
  <1>3. /\ \A usable : Unchecked(w, usable).step = "call"
        /\ Unconsumed(w).step = "commit"
    BY DEF Unchecked, Unconsumed, Work
  <1>4. Broken(w).step \in {"call", "commit"}
    BY <1>3 DEF Broken
  <1> QED
    BY <1>1, <1>2, <1>3, <1>4

LEMMA StepMoves ==
    ASSUME TypeOK, NEW h \in Handlers, Step(h)
    PROVE  Moved(h)
  <1> DEFINE w == work[h]
  <1>1. w \in Work /\ work \in [Handlers -> Work] /\ charges \in [Handlers -> Nat]
    BY DEF TypeOK
  <1>2. CASE Check(h)
    <2> DEFINE u == [w EXCEPT !.overlapped = Busy(h)]
               opens(w2) == work' = [g \in Handlers |->
                 IF g = h THEN w2
                 ELSE IF Opened(g) THEN [work[g] EXCEPT !.overlapped = TRUE] ELSE work[g]]
    <2>1. u \in Work
      BY <1>1 DEF Work, Busy
    <2>2. ASSUME NEW w2, opens(w2), w2.step \in Open \cup {"check", "refused", "failed"}
          PROVE  Moved(h)
      <3>1. \A g \in Handlers \ {h} : work'[g].step = work[g].step
        BY <1>1, <2>2 DEF Work
      <3>2. charges' = charges /\ lost' = lost /\ work[h].step = "check"
        BY <1>2 DEF Check, history
      <3>3. work'[h] = w2
        BY <2>2
      <3> QED
        BY <2>2, <3>1, <3>2, <3>3, GoesOn
    <2>3. opens(Queried(u)) \/ \E usable \in BOOLEAN : opens(Unchecked(u, usable))
      BY <1>2 DEF Check, Busy
    <2> HIDE DEF opens, u
    <2>4. /\ Queried(u).step \in {"insert", "upgrade", "call", "refused", "consume"}
          /\ \A usable : Unchecked(u, usable).step = "call"
      BY <2>1, NextSteps
    <2> QED
      BY <2>2, <2>3, <2>4 DEF Open
  <1>3. CASE Insert(h)
    <2> DEFINE v == [w EXCEPT !.wrote = {"row"}]
    <2>1. /\ w.step = "insert" /\ charges' = charges /\ lost' = lost
          /\ \/ work' = [work EXCEPT ![h] = Passed(v, w.copy)]
             \/ work' = [work EXCEPT ![h] = Broken(w)]
      BY <1>3 DEF Insert, history
    <2>2. v \in Work
      BY <1>1 DEF Work
    <2> HIDE DEF v
    <2>3. Passed(v, w.copy).step \in {"call", "refused", "consume"}
          /\ Broken(w).step \in {"call", "commit"}
      BY <1>1, <2>2, NextSteps
    <2> QED
      BY <2>1, <2>3, OneGoesOn DEF Open
  <1>4. CASE Upgrade(h)
    <2> DEFINE v == [w EXCEPT !.wrote = IF w.copy.used = 0 THEN {"limit"} ELSE {"limit", "used"}]
    <2>1. /\ w.step = "upgrade" /\ charges' = charges /\ lost' = lost
          /\ \/ work' = [work EXCEPT ![h] = Passed(v, w.copy)]
             \/ work' = [work EXCEPT ![h] = Broken(w)]
      BY <1>4 DEF Upgrade, history
    <2>2. v \in Work
      BY <1>1 DEF Work
    <2> HIDE DEF v
    <2>3. Passed(v, w.copy).step \in {"call", "refused", "consume"}
          /\ Broken(w).step \in {"call", "commit"}
      BY <1>1, <2>2, NextSteps
    <2> QED
      BY <2>1, <2>3, OneGoesOn DEF Open
  <1>5. CASE Call(h)
    <2>1. w.step = "call" /\ charges' = charges /\ lost' = lost
      BY <1>5 DEF Call, history
    <2>2. ASSUME NEW cost, work' = [work EXCEPT ![h].step = "consume", ![h].cost = cost]
          PROVE  Moved(h)
      <3> DEFINE v == [w EXCEPT !.step = "consume", !.cost = cost]
      <3>1. work' = [work EXCEPT ![h] = v] /\ v.step = "consume"
        BY <1>1, <2>2 DEF Work
      <3> HIDE DEF v
      <3> QED
        BY <2>1, <3>1, OneGoesOn DEF Open
    <2>3. ASSUME NEW x \in {Again(w), Fresh("failed")}, work' = [work EXCEPT ![h] = x]
          PROVE  Moved(h)
      <3>1. Again(w).step \in {"check", "failed"} /\ Fresh("failed").step = "failed"
        BY AgainSettled, FreshSettled
      <3> QED
        BY <2>1, <2>3, <3>1, OneGoesOn DEF Open
    <2> QED
      BY <1>5, <2>2, <2>3 DEF Call
  <1>6. CASE Consume(h)
    <2> DEFINE wrote == IF "row" \in w.wrote THEN w.wrote ELSE w.wrote \cup {"used"}
               summed == [w EXCEPT !.step = "commit", !.copy = Sum(w), !.wrote = wrote]
               skipped == [w EXCEPT !.step = "commit"]
    <2>1. w.step = "consume" /\ charges' = charges /\ lost' = lost
      BY <1>6 DEF Consume
    <2>2. \/ work' = [work EXCEPT ![h] = skipped]
          \/ work' = [work EXCEPT ![h] = summed]
          \/ work' = [work EXCEPT ![h] = Queried(w)]
          \/ work' = [work EXCEPT ![h] = Unconsumed(w)]
      BY <1>1, <1>6 DEF Consume
    <2>3. skipped.step = "commit" /\ summed.step = "commit"
      BY <1>1 DEF Work
    <2>4. /\ Unconsumed(w).step = "commit"
          /\ Queried(w).step \in {"insert", "upgrade", "call", "refused", "consume"}
      BY <1>1, NextSteps
    <2> HIDE DEF skipped, summed
    <2> QED
      BY <2>1, <2>2, <2>3, <2>4, OneGoesOn DEF Open
  <1>7. CASE Commit(h)
    <2>1. /\ w.step = "commit" /\ lost' = lost /\ work' = [work EXCEPT ![h] = Committed(w)]
          /\ charges' = charges \/ charges' = [charges EXCEPT ![h] = @ + 1]
      BY <1>1, <1>7 DEF Commit, Committed
    <2>2. /\ work'[h].step = "answer" /\ \A g \in Handlers \ {h} : work'[g] = work[g]
      BY <1>1, <2>1, CommittedSettled
    <2>3. /\ \A g \in Handlers \ {h} : charges'[g] = charges[g]
          /\ charges'[h] = charges[h] \/ charges'[h] = charges[h] + 1
          /\ charges[h] \in Nat
      BY <1>1, <2>1
    <2>4. Part(h) = charges[h] + 1 /\ Part(h)' = charges'[h] + 0
      BY <2>1, <2>2 DEF Part, Open
    <2>5. Part(h)' <= Part(h)
      BY <2>3, <2>4
    <2> QED
      BY <2>1, <2>2, <2>3, <2>5 DEF Moved
  <1>8. CASE Answer(h)
    <2>1. w.step = "answer" /\ charges' = charges
      BY <1>8 DEF Answer
    <2>2. /\ Again(w).step \in {"check", "failed"} /\ Fresh("failed").step = "failed"
          /\ Fresh("answered").step = "answered"
      BY AgainSettled, FreshSettled
    <2>3. charges[h] \in Nat /\ Part(h) = charges[h] + 0
      BY <1>1, <2>1 DEF Part, Open
    <2>4. CASE work' = [work EXCEPT ![h] = Fresh("answered")] /\ lost' = lost
      <3>1. work'[h].step = "answered" /\ \A g \in Handlers \ {h} : work'[g] = work[g]
        BY <1>1, <2>2, <2>4
      <3>2. Part(h)' = charges[h] + 0
        BY <2>1, <3>1 DEF Part, Open
      <3> QED
        BY <2>1, <2>3, <2>4, <3>1, <3>2 DEF Moved
    <2>5. ASSUME Loses(h), NEW x \in {Again(w), Fresh("failed")}, work' = [work EXCEPT ![h] = x]
          PROVE  Moved(h)
      <3>1. /\ work'[h].step \in {"check", "failed"}
            /\ \A g \in Handlers \ {h} : work'[g] = work[g]
        BY <1>1, <2>2, <2>5
      <3>2. Part(h)' = charges[h] + (IF work'[h].step = "check" THEN 1 ELSE 0)
        BY <2>1, <3>1 DEF Part, Open
      <3> QED
        BY <2>1, <2>3, <2>5, <3>1, <3>2 DEF Moved
    <2> QED
      BY <1>8, <2>4, <2>5 DEF Answer
  <1> QED
    BY <1>2, <1>3, <1>4, <1>5, <1>6, <1>7, <1>8 DEF Step

LEMMA KillMoves ==
    ASSUME TypeOK, NEW h \in Handlers, Kill(h)
    PROVE  Moved(h)
  <1>1. /\ work[h].step \in {"remote", "check", "answer"} \cup Open /\ charges' = charges
        /\ work' = [work EXCEPT ![h] = Fresh("failed")]
        /\ IF work[h].step = "answer" THEN Loses(h) ELSE lost' = lost
    BY DEF Kill
  <1>2. work'[h].step = "failed" /\ \A g \in Handlers \ {h} : work'[g] = work[g]
    BY <1>1, FreshSettled DEF TypeOK
  <1>3. charges[h] \in Nat /\ Part(h)' = charges[h] + 0
    BY <1>1, <1>2 DEF TypeOK, Part, Open
  <1>4. work[h].step \in {"remote", "answer"} => Part(h) = charges[h] + 0
    BY DEF Part, Open
  <1>5. work[h].step \notin {"remote", "answer"} => Part(h) = charges[h] + 1
    BY <1>1 DEF Part
  <1>6. work[h].step # "idle"
    BY <1>1 DEF Open
  <1> QED
    BY <1>1, <1>2, <1>3, <1>4, <1>5, <1>6 DEF Moved

(* What a client does is no such step. *)
LEMMA ClientCharges ==
    ASSUME TypeOK, Charged, NEW c \in Clients,
           Request(c) \/ RemoteAnswers(c) \/ RemoteGivenUp(c)
    PROVE  Charged'
  <1>1. /\ work \in [Handlers -> Work] /\ charges \in [Handlers -> Nat] /\ charges' = charges
        /\ lost \in [Clients -> Nat]
        /\ Own(c) \in Handlers /\ Remote(c) \in Handlers /\ Own(c) # Remote(c)
    BY ClientHandlers DEF TypeOK, Request, RemoteAnswers, RemoteGivenUp, history
  <1>2. /\ Fresh("check").step = "check" /\ Fresh("remote").step = "remote"
        /\ Fresh("failed").step = "failed"
    BY DEF Fresh
  <1>3. \A g \in Handlers \ {Own(c), Remote(c)} : work'[g] = work[g]
    BY <1>1 DEF Request, RemoteAnswers, RemoteGivenUp
  <1>4. lost' = lost \/ lost' = [lost EXCEPT ![c] = @ + 1]
    BY DEF Request, RemoteAnswers, RemoteGivenUp, history
  <1>5. PICK a \in Nat : a = charges[Own(c)]
    BY <1>1
  <1>6. PICK b \in Nat : b = charges[Remote(c)]
    BY <1>1
  <1>7. PICK n \in Nat : n = lost[c]
    BY <1>1
  <1> DEFINE due(step) == IF step \in {"check"} \cup Open THEN 1 ELSE 0
             total(s1, s2) == (a + due(s1)) + (b + due(s2))
             fine(s1, s2, m) ==
                 /\ s2 # "remote"
                 /\ s1 = "idle" => s2 = "idle" /\ total(s1, s2) = 0
                 /\ total(s1, s2) <= 1 + m
                 /\ s1 = "remote" /\ s2 \in {"refused", "failed"} => total(s1, s2) <= m
  <1>8. /\ Total(c) = total(work[Own(c)].step, work[Remote(c)].step)
        /\ Total(c)' = total(work'[Own(c)].step, work'[Remote(c)].step)
    BY <1>1, <1>5, <1>6 DEF Total, Part
  <1>9. fine(work[Own(c)].step, work[Remote(c)].step, n)
    BY <1>7, <1>8 DEF Charged
  <1>10. fine(work'[Own(c)].step, work'[Remote(c)].step, lost'[c])
    <2>1. /\ due("check") = 1 /\ due("remote") = 0 /\ due("idle") = 0
          /\ due("failed") = 0 /\ due("answered") = 0
          /\ \A s : due(s) \in {0, 1}
      BY DEF Open
    <2> HIDE DEF due
    <2>2. CASE Request(c)
      <3>1. work[Own(c)].step = "idle" /\ lost'[c] = n
        BY <1>7, <2>2 DEF Request, history
      <3>2. \/ work'[Own(c)].step = "check" /\ work'[Remote(c)].step = work[Remote(c)].step
            \/ work'[Own(c)].step = "remote" /\ work'[Remote(c)].step = "check"
        BY <1>1, <1>2, <2>2 DEF Request
      <3>3. work[Remote(c)].step = "idle" /\ a = 0 /\ b = 0
        <4>1. work[Remote(c)].step = "idle" /\ total("idle", "idle") = 0
          BY <1>9, <3>1
        <4>2. total("idle", "idle") = (a + 0) + (b + 0)
          BY <2>1
        <4>3. a \in Nat /\ b \in Nat
          OBVIOUS
        <4> HIDE DEF total
        <4>4. (a + 0) + (b + 0) = 0
          BY <4>1, <4>2
        <4> QED
          BY <4>1, <4>3, <4>4
      <3> QED
        BY <2>1, <3>1, <3>2, <3>3
    <2>3. CASE RemoteAnswers(c)
      <3>1. /\ work[Own(c)].step = "remote" /\ lost'[c] = n
            /\ work'[Remote(c)].step = work[Remote(c)].step
        BY <1>1, <1>7, <2>3 DEF RemoteAnswers, history
      <3>2. work'[Own(c)].step = "answered"
        BY <1>1, <2>3 DEF RemoteAnswers, Work
      <3> QED
        BY <1>9, <2>1, <3>1, <3>2
    <2>4. CASE RemoteGivenUp(c)
      <3>1. /\ work[Own(c)].step = "remote"
            /\ work'[Remote(c)].step = work[Remote(c)].step
            /\ work'[Own(c)].step \in {"check", "failed"}
        BY <1>1, <2>4, FallbackSettled DEF RemoteGivenUp
      <3>2. lost'[c] = IF work[Remote(c)].step \in {"refused", "failed"} THEN n ELSE n + 1
        BY <1>1, <1>7, <2>4 DEF RemoteGivenUp
      <3>3. PICK d \in Nat : d = due(work[Remote(c)].step)
        BY <2>1
      <3> QED
        BY <1>9, <2>1, <3>1, <3>2, <3>3
    <2> QED
      BY <2>2, <2>3, <2>4
  <1> SUFFICES ASSUME NEW d \in Clients
               PROVE  /\ work'[Remote(d)].step # "remote"
                      /\ work'[Own(d)].step = "idle"
                            => work'[Remote(d)].step = "idle" /\ Total(d)' = 0
                      /\ Total(d)' <= 1 + lost'[d]
                      /\ /\ work'[Own(d)].step = "remote"
                         /\ work'[Remote(d)].step \in {"refused", "failed"}
                         => Total(d)' <= lost'[d]
    BY DEF Charged
  <1>11. CASE d = c
    <2>1. Total(c)' <= 1 + lost'[c]
      BY <1>8, <1>10
    <2> HIDE DEF total, due
    <2> QED
      BY <1>8, <1>10, <1>11 DEF Total, Part
  <1>12. CASE d # c
    <2>1. /\ Own(d) \in Handlers \ {Own(c), Remote(c)}
          /\ Remote(d) \in Handlers \ {Own(c), Remote(c)}
      BY <1>12 DEF Own, Remote, Handlers
    <2>2. work'[Own(d)] = work[Own(d)] /\ work'[Remote(d)] = work[Remote(d)]
      BY <1>3, <2>1
    <2>3. Total(d)' = Total(d)
      BY <1>1, <2>2 DEF Total, Part
    <2>4. lost'[d] = lost[d]
      BY <1>1, <1>4, <1>12
    <2> QED
      BY <2>2, <2>3, <2>4 DEF Charged
  <1> QED
    BY <1>11, <1>12

LEMMA ChargedInit == Init => Charged
  <1> SUFFICES ASSUME Init, NEW c \in Clients
               PROVE  /\ work[Remote(c)].step = "idle" /\ Total(c) = 0 /\ lost[c] = 0
                      /\ work[Own(c)].step = "idle"
    BY DEF Charged
  <1>1. /\ \A h \in Handlers : work[h].step = "idle" /\ charges[h] = 0
        /\ Own(c) \in Handlers /\ Remote(c) \in Handlers
    BY ClientHandlers DEF Init, Fresh
  <1> QED
    BY <1>1 DEF Init, Total, Part, Open

LEMMA ChargedStep ==
    ASSUME TypeOK, TypeOK', Charged, [Next]_vars
    PROVE  Charged'
  <1>1. CASE UNCHANGED vars
    BY <1>1 DEF vars, history, Charged, Total, Part
  <1>2. CASE Next
    BY <1>2, StepMoves, KillMoves, MovedCharges, ClientCharges DEF Next
  <1> QED
    BY <1>1, <1>2

(* A request is charged for more often than once only as often as an       *)
(* answer was lost after its commit or the remote instance given up that   *)
(* had neither refused nor failed (route_llm, route_llm_request).          *)
THEOREM ChargedOnce == Spec => []ChargedTwiceHasACause
  <1>1. TypeOK /\ Charged => ChargedTwiceHasACause
    <2> SUFFICES ASSUME TypeOK, Charged, NEW c \in Clients
                 PROVE  charges[Own(c)] + charges[Remote(c)] <= 1 + lost[c]
      BY DEF ChargedTwiceHasACause
    <2>1. Own(c) \in Handlers /\ Remote(c) \in Handlers
      BY ClientHandlers
    <2>2. /\ charges[Own(c)] \in Nat /\ charges[Remote(c)] \in Nat /\ lost[c] \in Nat
          /\ Part(Own(c)) \in Nat /\ Part(Remote(c)) \in Nat
          /\ charges[Own(c)] <= Part(Own(c)) /\ charges[Remote(c)] <= Part(Remote(c))
      BY <2>1 DEF TypeOK, Part
    <2>3. Part(Own(c)) + Part(Remote(c)) <= 1 + lost[c]
      BY DEF Charged, Total
    <2> QED
      BY <2>2, <2>3
  <1> QED
    BY <1>1, ChargedInit, ChargedStep, TypeCorrect, PTL DEF Spec
=============================================================================
