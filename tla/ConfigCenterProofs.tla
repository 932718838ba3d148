------------------------- MODULE ConfigCenterProofs -------------------------
(***************************************************************************)
(* What the table and the memories hold of a configuration, for every      *)
(* number of keys, processes, sessions and failures.                       *)
(***************************************************************************)
EXTENDS ConfigCenter, TLAPS

(* A payload with c publications so far.                                   *)
Good(payload, c) == payload # None =>
    /\ payload \in Payload
    /\ Len(payload.history) <= HistoryLimit
    /\ \A e \in Entries(payload) : e.version <= c
    /\ Chain(payload)

(* What new keeps of the payload that it was made from.                    *)
Follows(op, old, new) == old # None =>
    IF op = "rollback" THEN Ids(old) \ {old.current.id} \subseteq Ids(new)
    ELSE Ids(old) \ (IF Len(old.history) = HistoryLimit THEN {Head(old.history).id} ELSE {})
            \subseteq Ids(new)

(* A publication that has been in the table is there, or is excused.       *)
Known(id, r, x) == id \in x \/ \E k \in Keys : id \in Ids(r[k])

Making(w) == w.step \in {"select again", "flush"}

(* What a session holds is made of good payloads.                          *)
Copies(w, c) ==
    /\ Good(w.found, c) /\ Good(w.seen, c) /\ Good(w.new, c)
    /\ \A k \in Keys : Good(w.wrote[k], c) /\ Good(w.based[k], c)

(* The keys to come have not been written, and what was written follows    *)
(* from what it was based on.                                              *)
Shape(w) ==
    /\ w.keys # <<>> /\ IsInjective(w.keys)
    /\ w.step # "commit" => \A i \in DOMAIN w.keys : w.wrote[w.keys[i]] = None
    /\ Making(w) => w.new # None /\ Follows(w.op, w.based[Head(w.keys)], w.new)
    /\ \A k \in Keys : w.wrote[k] # None => Follows(w.op, w.based[k], w.wrote[k])

(* Where the publications of a session are.                                *)
Carried(w, r, x) ==
    /\ \A id \in w.ids :
          \/ Known(id, r, x)
          \/ Making(w) /\ id \in Ids(w.new)
          \/ \E k \in Keys : id \in Ids(w.wrote[k])
    /\ w.step = "flush" => \A id \in Ids(w.seen) : Known(id, r, x)

Sound(w, r, x, c) == w \in Session /\ Copies(w, c) /\ Shape(w) /\ Carried(w, r, x)

Stored ==
    /\ \A k \in Keys : Good(row[k], changes)
    /\ \A p \in Processes, k \in Keys : Good(memory[p][k], changes)
Held == \A s \in Sessions : sess[s] # None => Sound(sess[s], row, excused, changes)

IInv == TypeOK /\ Stored /\ Held /\ PublishedIsKept

-----------------------------------------------------------------------------
(* Payloads. *)
LEMMA IdsType ==
    ASSUME NEW p, p # None => p \in Payload
    PROVE  /\ Ids(p) \subseteq 1 .. MaxChanges
           /\ p = None => Ids(p) = {}
           /\ \A e \in Entries(p) : e \in Entry
  <1>1. CASE p = None
    BY <1>1 DEF Ids, Entries
  <1>2. CASE p \in Payload /\ p # None
    <2>1. p.current \in Entry /\ p.history \in Seq(Entry)
      BY <1>2 DEF Payload
    <2>2. Range(p.history) \subseteq Entry
      BY <2>1 DEF Range
    <2>3. Entries(p) \subseteq Entry
      BY <1>2, <2>1, <2>2 DEF Entries
    <2> QED
      BY <1>2, <2>3 DEF Ids, Entry
  <1> QED
    BY <1>1, <1>2

LEMMA GoodGrows ==
    ASSUME NEW p, NEW c \in Nat, NEW d \in Nat, c <= d, Good(p, c)
    PROVE  Good(p, d)
  <1>1. p # None => \A e \in Entries(p) : e.version \in Nat
    BY IdsType DEF Good, Entry
  <1> QED
    BY <1>1 DEF Good

LEMMA AppendFacts ==
    ASSUME NEW S, NEW h \in Seq(S), NEW e \in S, NEW all, all = Append(h, e)
    PROVE  /\ all \in Seq(S) /\ Len(all) = Len(h) + 1 /\ Len(h) \in Nat
           /\ all[Len(h) + 1] = e /\ \A i \in 1 .. Len(h) : all[i] = h[i]
           /\ DOMAIN h = 1 .. Len(h)
  OBVIOUS

LEMMA ChainMeans ==
    ASSUME NEW p \in Payload, p # None
    PROVE  Chain(p) <=>
             /\ \A i \in 1 .. Len(p.history) - 1 :
                   p.history[i + 1].version = p.history[i].version + 1
             /\ p.history # <<>> =>
                   p.current.version = p.history[Len(p.history)].version + 1
  <1> DEFINE h == p.history  n == Len(p.history)  all == Append(h, p.current)
  <1>1. h \in Seq(Entry) /\ n \in Nat /\ p.current \in Entry
    BY DEF Payload
  <1>2. Len(all) = n + 1 /\ all[n + 1] = p.current /\ \A i \in 1 .. n : all[i] = h[i]
    BY <1>1
  <1>3. Chain(p) <=> \A i \in 1 .. n : all[i + 1].version = all[i].version + 1
    BY <1>1, <1>2 DEF Chain
  <1>4. h # <<>> <=> n > 0
    BY <1>1
  <1> HIDE DEF all, h, n
  <1>5. (\A i \in 1 .. n : all[i + 1].version = all[i].version + 1) <=>
           /\ \A i \in 1 .. n - 1 : h[i + 1].version = h[i].version + 1
           /\ n > 0 => p.current.version = h[n].version + 1
    <2>1. \A i \in 1 .. n - 1 : all[i + 1] = h[i + 1] /\ all[i] = h[i]
      BY <1>1, <1>2
    <2>2. n > 0 => all[n] = h[n]
      BY <1>1, <1>2
    <2>3. 1 .. n = (1 .. n - 1) \cup (IF n > 0 THEN {n} ELSE {})
      BY <1>1
    <2> QED
      BY <1>2, <2>1, <2>2, <2>3
  <1> QED
    BY <1>3, <1>4, <1>5 DEF h, n

LEMMA PublishedFirst ==
    ASSUME NEW key \in Keys, NEW c \in Nat, c < MaxChanges,
           NEW new, new = Published(key, None, c + 1)
    PROVE  /\ new \in Payload /\ new # None /\ Good(new, c + 1)
           /\ c + 1 \in Ids(new)
  <1>0. HistoryLimit \in Nat \ {0} /\ MaxChanges \in Nat
    BY ConfigAssumption
  <1>1. Newest(<<>>) = <<>> /\ 0 + 1 = 1
    BY <1>0 DEF Newest
  <1>2. new = [current |-> [key |-> key, version |-> 1, id |-> c + 1], history |-> <<>>]
    BY <1>1 DEF Published
  <1>3. [key |-> key, version |-> 1, id |-> c + 1] \in Entry
    BY <1>0 DEF Entry
  <1>4. /\ new \in Payload /\ new.history = <<>> /\ Len(new.history) = 0
        /\ new.current.version = 1 /\ new.current.id = c + 1
    <2>1. <<>> \in Seq(Entry) /\ Len(<<>>) = 0
      OBVIOUS
    <2>2. /\ new.current = [key |-> key, version |-> 1, id |-> c + 1]
          /\ new.history = <<>>
      BY <1>2
    <2>3. new \in Payload
      <3>1. \A e \in Entry, h \in Seq(Entry) : [current |-> e, history |-> h] \in Payload
        BY DEF Payload
      <3> QED
        BY <3>1, <1>2, <1>3, <2>1
    <2> QED
      BY <2>1, <2>2, <2>3
  <1>5. new # None
    BY <1>4, NoneAssumption
  <1>6. Entries(new) = {new.current}
    BY <1>4, <1>5 DEF Entries, Range
  <1>7. Chain(new)
    BY <1>4, <1>5, ChainMeans
  <1>8. c + 1 \in Ids(new)
    BY <1>4, <1>6 DEF Ids
  <1> QED
    BY <1>0, <1>4, <1>5, <1>6, <1>7, <1>8 DEF Good

LEMMA PublishedNext ==
    ASSUME NEW key \in Keys, NEW old, old # None, NEW c \in Nat, c < MaxChanges, Good(old, c),
           NEW new, new = Published(key, old, c + 1)
    PROVE  /\ new \in Payload /\ new # None /\ Good(new, c + 1)
           /\ c + 1 \in Ids(new) /\ Follows("publish", old, new)
  <1>0. HistoryLimit \in Nat \ {0} /\ MaxChanges \in Nat
    BY ConfigAssumption
  <1>1. PICK h, all, kept, n, d :
           /\ h = old.history /\ all = Append(h, old.current) /\ kept = Newest(all)
           /\ n = Len(h) /\ d \in {0, 1} /\ (d = 1 <=> Len(h) = HistoryLimit)
    <2>1. \E d \in {0, 1} : d = 1 <=> Len(old.history) = HistoryLimit
      OBVIOUS
    <2> QED
      BY <2>1
  <1>2. /\ old \in Payload /\ h \in Seq(Entry) /\ n \in Nat /\ old.current \in Entry
        /\ n <= HistoryLimit /\ d \in {0, 1}
    BY <1>1 DEF Good, Payload
  <1>3. /\ kept \in Seq(Entry) /\ Len(kept) <= HistoryLimit
        /\ Len(kept) > 0 /\ Len(kept) = n + 1 - d
        /\ \A i \in 1 .. Len(kept) : kept[i] = all[i + d]
        /\ kept[Len(kept)] = old.current
    <2>1. /\ all \in Seq(Entry) /\ Len(all) = Len(h) + 1
          /\ all[Len(h) + 1] = old.current /\ \A i \in 1 .. Len(h) : all[i] = h[i]
      BY <1>1, <1>2, AppendFacts
    <2>2. /\ HistoryLimit \in Nat \ {0} /\ Len(h) \in Nat /\ Len(h) <= HistoryLimit
          /\ kept = Newest(all) /\ (d = 1 <=> Len(h) = HistoryLimit) /\ d \in {0, 1} /\ n = Len(h)
      BY <1>0, <1>1, <1>2
    <2>3. CASE Len(h) < HistoryLimit
      <3>1. Len(all) <= HistoryLimit /\ d = 0
        BY <2>1, <2>2, <2>3
      <3>2. kept = all
        BY <2>2, <3>1 DEF Newest
      <3>3. Len(kept) > 0 /\ Len(kept) = Len(h) + 1 - d /\ Len(kept) <= HistoryLimit
        BY <2>1, <2>2, <3>1, <3>2
      <3>4. \A i \in 1 .. Len(kept) : i + d = i
        BY <3>1
      <3> QED
        BY <2>1, <2>2, <3>2, <3>3, <3>4
    <2>4. CASE Len(h) = HistoryLimit
      <3>1. kept = SubSeq(all, 2, Len(h) + 1) /\ d = 1
        BY <2>1, <2>2, <2>4 DEF Newest
      <3>2. /\ SubSeq(all, 2, Len(h) + 1) \in Seq(Entry)
            /\ Len(SubSeq(all, 2, Len(h) + 1)) = Len(h)
            /\ \A i \in 1 .. Len(h) : SubSeq(all, 2, Len(h) + 1)[i] = all[i + 1]
        BY <2>1, <2>2
      <3>3. kept[Len(h)] = all[Len(h) + 1]
        BY <2>2, <2>4, <3>1, <3>2
      <3>4. Len(kept) = Len(h) + 1 - d /\ Len(kept) > 0
        BY <2>2, <2>4, <3>1, <3>2
      <3> QED
        BY <2>1, <2>2, <2>4, <3>1, <3>2, <3>3, <3>4
    <2> QED
      BY <2>2, <2>3, <2>4
  <1>4. /\ Len(all) = n + 1 /\ all[n + 1] = old.current
        /\ \A i \in 1 .. n : all[i] = h[i]
        /\ DOMAIN kept = 1 .. Len(kept) /\ DOMAIN h = 1 .. n /\ Len(kept) \in Nat
    <2>1. /\ Len(all) = Len(h) + 1 /\ all[Len(h) + 1] = old.current
          /\ \A i \in 1 .. Len(h) : all[i] = h[i]
          /\ DOMAIN h = 1 .. Len(h)
      BY <1>1, <1>2, AppendFacts
    <2>2. DOMAIN kept = 1 .. Len(kept) /\ Len(kept) \in Nat
      BY <1>3
    <2> QED
      BY <1>1, <2>1, <2>2
  <1>5. \A e \in Entries(old) : e \in Entry /\ e.version <= c /\ e.version \in Nat
    <2>1. \A e \in Entries(old) : e \in Entry /\ e.version <= c
      BY IdsType DEF Good
    <2> QED
      BY <2>1 DEF Entry
  <1>6. /\ Entries(old) = {old.current} \cup Range(h)
        /\ Chain(old) /\ old.current.version \in Nat /\ old.current.version <= c
    BY <1>1, <1>5 DEF Entries, Good
  <1>7. /\ new = [current |-> [key |-> key, version |-> old.current.version + 1, id |-> c + 1],
                  history |-> kept]
        /\ new.current = [key |-> key, version |-> old.current.version + 1, id |-> c + 1]
        /\ new.history = kept
    BY <1>1 DEF Published
  <1>8. new \in Payload
    <2>1. new.current \in Entry
      BY <1>0, <1>2, <1>6, <1>7 DEF Entry
    <2> QED
      BY <2>1, <1>3, <1>7 DEF Payload
  <1>9. new # None
    BY <1>8, NoneAssumption
  <1>10. Entries(new) = {new.current} \cup Range(kept)
    BY <1>7, <1>9 DEF Entries
  <1>11. \A e \in Range(kept) : e \in Entries(old)
    <2>1. \A i \in 1 .. n + 1 : all[i] \in Entries(old)
      <3> TAKE i \in 1 .. n + 1
      <3>1. CASE i = n + 1
        BY <3>1, <1>4, <1>6
      <3>2. CASE i # n + 1
        <4>1. i \in 1 .. n
          BY <3>2, <1>2
        <4> QED
          BY <4>1, <1>4, <1>6 DEF Range
      <3> QED
        BY <3>1, <3>2
    <2>2. \A i \in 1 .. Len(kept) : i + d \in 1 .. n + 1
      BY <1>2, <1>3, <1>4
    <2> QED
      BY <2>1, <2>2, <1>3, <1>4 DEF Range
  <1>12. \A e \in Entries(new) : e.version <= c + 1
    <2>1. new.current.version <= c + 1
      BY <1>6, <1>7
    <2>2. \A e \in Range(kept) : e.version <= c + 1
      BY <1>5, <1>11
    <2> QED
      BY <2>1, <2>2, <1>10
  <1>13. Chain(new)
    <2>1. \A i \in 1 .. n : all[i + 1].version = all[i].version + 1
      <3>1. \A i \in 1 .. Len(all) - 1 : all[i + 1].version = all[i].version + 1
        BY <1>1, <1>6 DEF Chain
      <3> QED
        BY <3>1, <1>2, <1>4
    <2>2. ASSUME NEW i \in 1 .. Len(kept) - 1
          PROVE  kept[i + 1].version = kept[i].version + 1
      <3>1. i + 1 \in 1 .. Len(kept) /\ i \in 1 .. Len(kept) /\ i + d \in 1 .. n
        BY <1>2, <1>3, <1>4
      <3>2. kept[i + 1] = all[(i + 1) + d] /\ kept[i] = all[i + d]
        BY <3>1, <1>3
      <3>3. (i + 1) + d = (i + d) + 1
        BY <1>2, <1>4
      <3> QED
        BY <3>1, <3>2, <3>3, <2>1
    <2>3. new.current.version = kept[Len(kept)].version + 1
      BY <1>3, <1>7
    <2> QED
      BY <2>2, <2>3, <1>7, <1>8, <1>9, ChainMeans
  <1>14. c + 1 \in Ids(new)
    BY <1>7, <1>10 DEF Ids
  <1>15. Follows("publish", old, new)
    <2> SUFFICES ASSUME NEW id \in Ids(old), n = HistoryLimit => id # Head(h).id
                 PROVE  id \in Ids(new)
      BY <1>1 DEF Follows
    <2>1. PICK e \in Entries(old) : e.id = id
      BY DEF Ids
    <2>2. e \in Range(kept)
      <3>1. CASE e = old.current
        <4>1. Len(kept) \in DOMAIN kept
          BY <1>3, <1>4
        <4> QED
          BY <4>1, <3>1, <1>3 DEF Range
      <3>2. CASE e # old.current
        <4>1. PICK i \in 1 .. n : h[i] = e
          BY <3>2, <1>4, <1>6 DEF Range
        <4>2. n = HistoryLimit => i # 1
          <5>1. Head(h) = h[1]
            BY <4>1, <1>1, <1>2
          <5> QED
            BY <5>1, <4>1, <2>1
        <4>3. i - d \in 1 .. Len(kept) /\ (i - d) + d = i
          BY <4>1, <4>2, <1>1, <1>2, <1>3
        <4>4. kept[i - d] = e
          BY <4>1, <4>3, <1>3, <1>4
        <4> QED
          BY <4>3, <4>4, <1>4 DEF Range
      <3> QED
        BY <3>1, <3>2
    <2> QED
      BY <2>1, <2>2, <1>10 DEF Ids
  <1> QED
    BY <1>3, <1>7, <1>8, <1>9, <1>12, <1>13, <1>14, <1>15 DEF Good

LEMMA PublishedGood ==
    ASSUME NEW key \in Keys, NEW old, NEW c \in Nat, c < MaxChanges, Good(old, c),
           NEW new, new = Published(key, old, c + 1)
    PROVE  /\ new \in Payload /\ new # None /\ Good(new, c + 1)
           /\ c + 1 \in Ids(new) /\ Follows("publish", old, new)
  <1>1. CASE old = None
    BY <1>1, PublishedFirst DEF Follows
  <1>2. CASE old # None
    BY <1>2, PublishedNext
  <1> QED
    BY <1>1, <1>2

LEMMA RolledBackGood ==
    ASSUME NEW old, NEW c \in Nat, Good(old, c), old # None, old.history # <<>>,
           NEW new, new = RolledBack(old)
    PROVE  /\ new \in Payload /\ new # None /\ Good(new, c)
           /\ Follows("rollback", old, new)
  <1> DEFINE h == old.history  n == Len(old.history)  f == Front(h)
  <1>1. /\ old \in Payload /\ h \in Seq(Entry) /\ n \in Nat \ {0} /\ old.current \in Entry
        /\ n <= HistoryLimit
    BY DEF Good, Payload
  <1>2. /\ f \in Seq(Entry) /\ Len(f) = n - 1 /\ \A i \in 1 .. n - 1 : f[i] = h[i]
        /\ Last(h) = h[n] /\ h[n] \in Entry
    BY <1>1 DEF Front, Last
  <1>3. new = [current |-> h[n], history |-> f]
    BY <1>2 DEF RolledBack
  <1> HIDE DEF f
  <1>4. new \in Payload /\ new.current = h[n] /\ new.history = f
    BY <1>2, <1>3 DEF Payload
  <1>5. new # None
    BY <1>4, NoneAssumption
  <1>6. Entries(new) = Range(h)
    <2>1. DOMAIN f = 1 .. n - 1 /\ DOMAIN h = 1 .. n
      BY <1>1, <1>2
    <2>2. Range(f) \cup {h[n]} = Range(h)
      <3>1. ASSUME NEW e \in Range(h) PROVE e \in Range(f) \cup {h[n]}
        <4>1. PICK i \in 1 .. n : h[i] = e
          BY <2>1 DEF Range
        <4>2. CASE i = n
          BY <4>1, <4>2
        <4>3. CASE i # n
          <5>1. i \in 1 .. n - 1
            BY <4>1, <4>3, <1>1
          <5> QED
            BY <5>1, <4>1, <2>1, <1>2 DEF Range
        <4> QED
          BY <4>2, <4>3
      <3>2. ASSUME NEW e \in Range(f) PROVE e \in Range(h)
        <4>1. PICK i \in 1 .. n - 1 : f[i] = e
          BY <2>1 DEF Range
        <4>2. i \in 1 .. n /\ h[i] = e
          BY <4>1, <1>1, <1>2
        <4> QED
          BY <4>2, <2>1 DEF Range
      <3>3. h[n] \in Range(h)
        BY <2>1, <1>1 DEF Range
      <3> QED
        BY <3>1, <3>2, <3>3
    <2> QED
      BY <1>4, <1>5, <2>2 DEF Entries
  <1>7. \A e \in Entries(new) : e.version <= c
    BY <1>6 DEF Good, Entries
  <1>8. Chain(new)
    <2>1. \A i \in 1 .. n - 1 : h[i + 1].version = h[i].version + 1
      BY <1>1, ChainMeans DEF Good
    <2>2. \A i \in 1 .. (n - 1) - 1 : f[i + 1].version = f[i].version + 1
      BY <2>1, <1>1, <1>2
    <2>3. f # <<>> => h[n].version = f[n - 1].version + 1
      <3>1. f # <<>> => n - 1 \in 1 .. n - 1
        BY <1>1, <1>2
      <3> QED
        BY <3>1, <2>1, <1>1, <1>2
    <2> QED
      BY <2>2, <2>3, <1>2, <1>4, <1>5, ChainMeans
  <1>9. Follows("rollback", old, new)
    <2>1. Ids(old) = {old.current.id} \cup Ids(new)
      BY <1>6 DEF Ids, Entries
    <2> QED
      BY <2>1 DEF Follows
  <1>10. Len(new.history) <= HistoryLimit
    BY <1>1, <1>2, <1>4, ConfigAssumption
  <1> QED
    BY <1>4, <1>5, <1>7, <1>8, <1>9, <1>10 DEF Good

-----------------------------------------------------------------------------
(* What the others keep, and where a session goes on. *)
LEMMA SoundKept ==
    ASSUME NEW w, NEW r, NEW x, NEW c \in Nat, NEW r2, NEW x2, NEW c2 \in Nat,
           Sound(w, r, x, c), c <= c2, \A id : Known(id, r, x) => Known(id, r2, x2)
    PROVE  Sound(w, r2, x2, c2)
  <1>1. Copies(w, c2)
    BY GoodGrows DEF Sound, Copies
  <1>2. Carried(w, r2, x2)
    BY DEF Sound, Carried
  <1> QED
    BY <1>1, <1>2 DEF Sound

LEMMA OthersKept ==
    ASSUME TypeOK, Held, NEW s \in Sessions, NEW w2, sess' = [sess EXCEPT ![s] = w2],
           w2 # None => Sound(w2, row', excused', changes'),
           changes' \in Nat, changes <= changes',
           \A id : Known(id, row, excused) => Known(id, row', excused')
    PROVE  Held' /\ sess' \in [Sessions -> Session \cup {None}]
  <1>1. changes \in Nat
    BY ConfigAssumption DEF TypeOK
  <1>2. ASSUME NEW t \in Sessions, sess'[t] # None
        PROVE  Sound(sess'[t], row', excused', changes')
    <2>1. CASE t = s
      BY <1>2, <2>1 DEF TypeOK
    <2>2. CASE t # s
      <3>1. sess'[t] = sess[t]
        BY <2>2 DEF TypeOK
      <3>2. Sound(sess[t], row, excused, changes)
        BY <1>2, <3>1 DEF Held
      <3> QED
        BY <1>1, <3>1, <3>2, SoundKept
    <2> QED
      BY <2>1, <2>2
  <1>3. w2 \in Session \cup {None}
    BY DEF Sound
  <1> QED
    BY <1>2, <1>3 DEF Held, TypeOK

LEMMA StillKept ==
    ASSUME TypeOK, Held, NEW s \in Sessions, NEW w2, sess' = [sess EXCEPT ![s] = w2],
           Sound(w2, row, excused, changes), UNCHANGED <<row, excused, changes>>
    PROVE  Held' /\ sess' \in [Sessions -> Session \cup {None}]
  <1>1. row' = row /\ excused' = excused /\ changes' = changes /\ changes \in Nat
    BY ConfigAssumption DEF TypeOK
  <1>2. /\ Sound(w2, row', excused', changes') /\ changes' \in Nat /\ changes <= changes'
        /\ \A id : Known(id, row, excused) => Known(id, row', excused')
    BY <1>1
  <1> QED
    BY <1>2, OthersKept

LEMMA Empty ==
    /\ Nothing \in [Keys -> Payload \cup {None}]
    /\ \A k \in Keys : Nothing[k] = None
    /\ Ids(None) = {}
    /\ \A c : Good(None, c)
  BY DEF Nothing, Ids, Entries, Good

LEMMA HeadOf ==
    ASSUME NEW keys \in Seq(Keys), keys # <<>>
    PROVE  /\ Head(keys) \in Keys /\ Head(keys) = keys[1] /\ 1 \in DOMAIN keys
           /\ DOMAIN keys = 1 .. Len(keys) /\ Len(keys) \in Nat /\ Len(keys) > 0
  OBVIOUS

LEMMA OnwardSound ==
    ASSUME NEW w \in Session, NEW r, NEW x, NEW c, Copies(w, c),
           w.keys # <<>>, IsInjective(w.keys),
           \A i \in DOMAIN w.keys : i # 1 => w.wrote[w.keys[i]] = None,
           \A k \in Keys : w.wrote[k] # None => Follows(w.op, w.based[k], w.wrote[k]),
           \A id \in w.ids : Known(id, r, x) \/ \E k \in Keys : id \in Ids(w.wrote[k])
    PROVE  Sound(Onward(w), r, x, c)
  <1>1. w.keys \in Seq(Keys)
    BY DEF Session
  <1>2. CASE Len(w.keys) > 1
    <2>1. PICK v : v = Onward(w)
      OBVIOUS
    <2>2. v = [w EXCEPT !.keys = Tail(@), !.step = "select", !.found = None, !.seen = None,
                       !.new = None]
      BY <1>2, <2>1 DEF Onward
    <2>3. /\ Tail(w.keys) \in Seq(Keys) /\ Len(Tail(w.keys)) = Len(w.keys) - 1
          /\ DOMAIN Tail(w.keys) = 1 .. Len(w.keys) - 1
          /\ \A i \in 1 .. Len(w.keys) - 1 : Tail(w.keys)[i] = w.keys[i + 1]
          /\ DOMAIN w.keys = 1 .. Len(w.keys) /\ Len(w.keys) \in Nat
      BY <1>1, <1>2
    <2>4. /\ v.keys = Tail(w.keys) /\ v.step = "select" /\ v.found = None /\ v.seen = None
          /\ v.new = None /\ v.wrote = w.wrote /\ v.based = w.based /\ v.op = w.op
          /\ v.ids = w.ids /\ v \in Session
      BY <2>2, <2>3 DEF Session, Steps
    <2>5. Copies(v, c)
      BY <2>4, Empty DEF Copies
    <2>6. v.keys # <<>>
      <3>1. Len(v.keys) > 0 /\ Len(<<>>) = 0
        BY <1>2, <2>3, <2>4
      <3> QED
        BY <3>1
    <2>7. IsInjective(v.keys)
      <3> SUFFICES ASSUME NEW i \in 1 .. Len(w.keys) - 1, NEW j \in 1 .. Len(w.keys) - 1,
                          Tail(w.keys)[i] = Tail(w.keys)[j]
                   PROVE  i = j
        BY <2>3, <2>4 DEF IsInjective
      <3>1. w.keys[i + 1] = w.keys[j + 1] /\ i + 1 \in DOMAIN w.keys /\ j + 1 \in DOMAIN w.keys
        BY <2>3
      <3>2. i + 1 = j + 1
        BY <3>1 DEF IsInjective
      <3> QED
        BY <2>3, <3>2
    <2>8. \A i \in DOMAIN v.keys : v.wrote[v.keys[i]] = None
      <3>1. \A i \in 1 .. Len(w.keys) - 1 : i + 1 \in DOMAIN w.keys /\ i + 1 # 1
        BY <2>3
      <3> QED
        BY <2>3, <2>4, <3>1
    <2>9. ~Making(v) /\ v.step # "flush"
      BY <2>4 DEF Making
    <2>10. Shape(v)
      BY <2>4, <2>6, <2>7, <2>8, <2>9 DEF Shape
    <2>11. Carried(v, r, x)
      BY <2>4, <2>9 DEF Carried
    <2> QED
      BY <2>1, <2>4, <2>5, <2>10, <2>11 DEF Sound
  <1>3. CASE ~(Len(w.keys) > 1)
    <2>1. PICK v : v = [w EXCEPT !.step = "commit"]
      OBVIOUS
    <2>2. Onward(w) = v
      BY <1>3, <2>1 DEF Onward
    <2>3. /\ v.keys = w.keys /\ v.step = "commit" /\ v.found = w.found /\ v.seen = w.seen
          /\ v.new = w.new /\ v.wrote = w.wrote /\ v.based = w.based /\ v.op = w.op
          /\ v.ids = w.ids /\ v \in Session
      BY <2>1 DEF Session, Steps
    <2>4. ~Making(v) /\ v.step # "flush"
      BY <2>3 DEF Making
    <2>5. Copies(v, c) /\ Shape(v) /\ Carried(v, r, x)
      BY <2>3, <2>4 DEF Copies, Shape, Carried
    <2> QED
      BY <2>2, <2>3, <2>5 DEF Sound
  <1> QED
    BY <1>2, <1>3

LEMMA GiveUpSound ==
    ASSUME NEW w, NEW r, NEW x, NEW c, Sound(w, r, x, c)
    PROVE  Sound(Onward([w EXCEPT !.wrote = Nothing, !.based = Nothing]), r, x \cup w.ids, c)
  <1>1. PICK v : v = [w EXCEPT !.wrote = Nothing, !.based = Nothing]
    OBVIOUS
  <1>2. /\ v.keys = w.keys /\ v.found = w.found /\ v.seen = w.seen /\ v.new = w.new
        /\ v.wrote = Nothing /\ v.based = Nothing /\ v.ids = w.ids /\ v \in Session
    BY <1>1, Empty DEF Sound, Session
  <1>3. Copies(v, c)
    BY <1>2, Empty DEF Sound, Copies
  <1>4. v.keys # <<>> /\ IsInjective(v.keys) /\ v.keys \in Seq(Keys)
    BY <1>2 DEF Sound, Shape, Session
  <1>5. \A i \in DOMAIN v.keys : v.keys[i] \in Keys
    BY <1>4
  <1>6. \A id \in v.ids : Known(id, r, x \cup w.ids)
    BY <1>2 DEF Known
  <1>7. /\ \A i \in DOMAIN v.keys : i # 1 => v.wrote[v.keys[i]] = None
        /\ \A k \in Keys : v.wrote[k] # None => Follows(v.op, v.based[k], v.wrote[k])
    BY <1>2, <1>5, Empty
  <1>8. Sound(Onward(v), r, x \cup w.ids, c)
    BY <1>2, <1>3, <1>4, <1>6, <1>7, OnwardSound
  <1> QED
    BY <1>1, <1>8

LEMMA AtMeans ==
    ASSUME TypeOK, Held, NEW s \in Sessions, NEW step, At(s, step)
    PROVE  /\ sess[s] # None /\ sess[s].step = step
           /\ Sound(sess[s], row, excused, changes) /\ sess[s] \in Session
           /\ Key(s) \in Keys /\ Key(s) = Head(sess[s].keys) /\ Key(s) = sess[s].keys[1]
           /\ 1 \in DOMAIN sess[s].keys /\ sess[s].by \in Processes
           /\ changes \in Nat
  <1>1. Sound(sess[s], row, excused, changes) /\ sess[s] # None /\ sess[s].step = step
    BY DEF At, Held
  <1>2. sess[s].keys \in Seq(Keys) /\ sess[s].keys # <<>> /\ sess[s].by \in Processes
    BY <1>1 DEF Sound, Shape, Session
  <1>3. changes \in Nat
    BY ConfigAssumption DEF TypeOK
  <1> QED
    BY <1>1, <1>2, <1>3, HeadOf DEF Key, Sound

-----------------------------------------------------------------------------
(* The steps. *)
LEMMA BeginKeeps ==
    ASSUME IInv, NEW s \in Sessions, NEW p \in Processes, NEW op \in Operations,
           NEW keys \in Seq(Keys), keys # <<>>, IsInjective(keys), NEW loud \in BOOLEAN,
           Begin(s, p, op, keys, loud)
    PROVE  IInv'
  <1>1. PICK w : w = [op |-> op, by |-> p, keys |-> keys, step |-> "select", loud |-> loud,
                      found |-> None, seen |-> None, new |-> None,
                      wrote |-> Nothing, based |-> Nothing, ids |-> {}]
    OBVIOUS
  <1>2. w \in Session
    BY <1>1, Empty DEF Session, Steps
  <1>3. /\ w.keys = keys /\ w.step = "select" /\ w.found = None /\ w.seen = None
        /\ w.new = None /\ w.wrote = Nothing /\ w.based = Nothing /\ w.ids = {}
    BY <1>1
  <1>4. ~Making(w) /\ w.step # "flush"
    BY <1>3 DEF Making
  <1>5. \A i \in DOMAIN keys : keys[i] \in Keys
    OBVIOUS
  <1>6. Sound(w, row, excused, changes)
    BY <1>2, <1>3, <1>4, <1>5, Empty DEF Sound, Copies, Shape, Carried
  <1>7. /\ sess' = [sess EXCEPT ![s] = w] /\ requests' = requests + 1
        /\ UNCHANGED <<row, memory, changes, faults, kills, answered, excused>>
    BY <1>1 DEF Begin
  <1>8. TypeOK /\ Held /\ Stored /\ PublishedIsKept /\ changes \in Nat
    BY ConfigAssumption DEF IInv, TypeOK
  <1>9. Held' /\ sess' \in [Sessions -> Session \cup {None}]
    BY <1>6, <1>7, <1>8, StillKept
  <1> QED
    BY <1>7, <1>8, <1>9 DEF IInv, TypeOK, Stored, PublishedIsKept

LEMMA SelectKeeps ==
    ASSUME IInv, NEW s \in Sessions, Select(s)
    PROVE  IInv'
  <1>1. TypeOK /\ Held /\ Stored /\ PublishedIsKept
    BY DEF IInv
  <1>2. PICK w : w = sess[s]
    OBVIOUS
  <1>3. /\ w # None /\ w.step = "select" /\ Sound(w, row, excused, changes) /\ w \in Session
        /\ Key(s) \in Keys /\ changes \in Nat
    BY <1>1, <1>2, AtMeans DEF Select
  <1>4. PICK found \in {row[Key(s)], None} :
           sess' = [sess EXCEPT ![s] = [sess[s] EXCEPT !.found = found, !.step = "change"]]
    BY DEF Select
  <1>5. PICK v : v = [w EXCEPT !.found = found, !.step = "change"]
    OBVIOUS
  <1>6. found \in Payload \cup {None} /\ Good(found, changes)
    BY <1>1, <1>3, <1>4, Empty DEF TypeOK, Stored
  <1>7. /\ v \in Session /\ v.keys = w.keys /\ v.step = "change" /\ v.found = found
        /\ v.seen = w.seen /\ v.new = w.new /\ v.wrote = w.wrote /\ v.based = w.based
        /\ v.ids = w.ids /\ v.op = w.op
    BY <1>3, <1>5, <1>6 DEF Session, Steps
  <1>8. ~Making(v) /\ ~Making(w) /\ v.step # "flush"
    BY <1>3, <1>7 DEF Making
  <1>9. Sound(v, row, excused, changes)
    BY <1>3, <1>6, <1>7, <1>8 DEF Sound, Copies, Shape, Carried
  <1>10. sess' = [sess EXCEPT ![s] = v]
    BY <1>1, <1>2, <1>4, <1>5 DEF TypeOK
  <1>11. UNCHANGED <<row, memory, changes, requests, kills, answered, excused>> /\ faults' \in Nat
    BY <1>1 DEF Select, Faulty, TypeOK
  <1>12. Held' /\ sess' \in [Sessions -> Session \cup {None}]
    BY <1>1, <1>9, <1>10, <1>11, StillKept
  <1> QED
    BY <1>1, <1>11, <1>12 DEF IInv, TypeOK, Stored, PublishedIsKept

\* What the change of a payload makes of the session.
LEMMA StoreSound ==
    ASSUME NEW w, NEW r, NEW x, NEW c \in Nat, NEW c2 \in Nat, c <= c2, Sound(w, r, x, c),
           w.step = "change", NEW old, old = None \/ old \in Payload, Good(old, c),
           NEW new \in Payload, new # None, Good(new, c2), Follows(w.op, old, new),
           NEW ids \in SUBSET (1 .. MaxChanges), ids \subseteq Ids(new), NEW k, k = Head(w.keys)
    PROVE  Sound([w EXCEPT !.new = new, !.step = "select again",
                           !.based = [@ EXCEPT ![k] = old], !.ids = @ \cup ids], r, x, c2)
  <1>1. PICK v : v = [w EXCEPT !.new = new, !.step = "select again",
                           !.based = [@ EXCEPT ![k] = old], !.ids = @ \cup ids]
    OBVIOUS
  <1>2. w \in Session /\ Copies(w, c2) /\ Shape(w) /\ Carried(w, r, x) /\ Good(old, c2)
    BY GoodGrows DEF Sound, Copies
  <1>3. /\ w.keys \in Seq(Keys) /\ w.keys # <<>> /\ w.based \in [Keys -> Payload \cup {None}]
        /\ w.ids \subseteq 1 .. MaxChanges
    BY <1>2 DEF Session, Shape
  <1>4. k \in Keys /\ k = w.keys[1] /\ 1 \in DOMAIN w.keys
    BY <1>3, HeadOf
  <1>5. PICK based : based = [w.based EXCEPT ![k] = old]
    OBVIOUS
  <1>6. /\ based \in [Keys -> Payload \cup {None}] /\ based[k] = old
        /\ \A j \in Keys : j # k => based[j] = w.based[j]
    BY <1>3, <1>4, <1>5
  <1>7. /\ v.keys = w.keys /\ v.step = "select again" /\ v.found = w.found
        /\ v.seen = w.seen /\ v.new = new /\ v.wrote = w.wrote /\ v.based = based
        /\ v.ids = w.ids \cup ids /\ v.op = w.op
    BY <1>1, <1>2, <1>5 DEF Session
  <1>8. v \in Session
    BY <1>1, <1>2, <1>3, <1>5, <1>6 DEF Session, Steps
  <1>9. Making(v) /\ ~Making(w)
    BY <1>7 DEF Making
  <1>10. Copies(v, c2)
    BY <1>2, <1>4, <1>6, <1>7 DEF Copies
  <1>11. Shape(v)
    <2>1. w.wrote[k] = None
      BY <1>2, <1>4 DEF Shape
    <2> QED
      BY <1>2, <1>4, <1>6, <1>7, <2>1 DEF Shape
  <1>12. Carried(v, r, x)
    BY <1>2, <1>7, <1>9 DEF Carried
  <1> QED
    BY <1>1, <1>8, <1>10, <1>11, <1>12 DEF Sound

LEMMA ChangeStores ==
    ASSUME IInv, NEW s \in Sessions, At(s, "change"),
           NEW new \in Payload, new # None, Follows(sess[s].op, Loaded(s), new),
           NEW ids \in SUBSET (1 .. MaxChanges), ids \subseteq Ids(new),
           changes' \in 0 .. MaxChanges, changes <= changes', Good(new, changes'),
           memory' = [memory EXCEPT ![sess[s].by][Key(s)] = new],
           sess' = [sess EXCEPT ![s] =
                           [sess[s] EXCEPT !.new = new, !.step = "select again",
                               !.based[Key(s)] = Loaded(s), !.ids = @ \cup ids]],
           UNCHANGED <<row, bounds, answered, excused>>
    PROVE  IInv'
  <1>1. TypeOK /\ Held /\ Stored /\ PublishedIsKept
    BY DEF IInv
  <1>2. PICK w, k, p, old : w = sess[s] /\ k = Key(s) /\ p = w.by /\ old = Loaded(s)
    OBVIOUS
  <1>3. /\ w # None /\ w.step = "change" /\ Sound(w, row, excused, changes) /\ w \in Session
        /\ k \in Keys /\ k = Head(w.keys) /\ p \in Processes /\ changes \in Nat
    BY <1>1, <1>2, AtMeans
  <1>4. old = None \/ old \in Payload
    BY <1>1, <1>2, <1>3 DEF Loaded, TypeOK, Session
  <1>5. Good(old, changes)
    BY <1>1, <1>2, <1>3 DEF Loaded, Stored, Sound, Copies
  <1>6. changes' \in Nat
    BY ConfigAssumption
  <1>7. PICK v : v = [w EXCEPT !.new = new, !.step = "select again",
                           !.based = [@ EXCEPT ![k] = old], !.ids = @ \cup ids]
    OBVIOUS
  <1>8. Sound(v, row, excused, changes')
    BY <1>2, <1>3, <1>4, <1>5, <1>6, <1>7, StoreSound
  <1>9. sess' = [sess EXCEPT ![s] = v]
    BY <1>2, <1>7
  <1>10. row' = row /\ excused' = excused /\ answered' = answered /\ UNCHANGED bounds
    OBVIOUS
  <1>11. Held' /\ sess' \in [Sessions -> Session \cup {None}]
    <2>1. Sound(v, row', excused', changes')
      BY <1>8, <1>10
    <2>2. \A id : Known(id, row, excused) => Known(id, row', excused')
      BY <1>10
    <2> QED
      BY <1>1, <1>6, <1>9, <2>1, <2>2, OthersKept
  <1>12. /\ memory' \in [Processes -> [Keys -> Payload \cup {None}]]
         /\ \A q \in Processes, j \in Keys : memory'[q][j] = new \/ memory'[q][j] = memory[q][j]
    BY <1>1, <1>2, <1>3 DEF TypeOK
  <1>13. \A q \in Processes, j \in Keys : Good(memory'[q][j], changes')
    BY <1>1, <1>3, <1>6, <1>12, GoodGrows DEF Stored
  <1>14. \A j \in Keys : Good(row'[j], changes')
    BY <1>1, <1>3, <1>6, <1>10, GoodGrows DEF Stored
  <1>15. Stored'
    BY <1>13, <1>14 DEF Stored
  <1>16. TypeOK'
    BY <1>1, <1>10, <1>11, <1>12 DEF TypeOK, bounds
  <1>17. PublishedIsKept'
    BY <1>1, <1>10 DEF PublishedIsKept
  <1> QED
    BY <1>11, <1>15, <1>16, <1>17 DEF IInv

LEMMA ChangeKeeps ==
    ASSUME IInv, NEW s \in Sessions, Change(s)
    PROVE  IInv'
  <1>1. TypeOK /\ Held /\ Stored /\ PublishedIsKept
    BY DEF IInv
  <1>2. At(s, "change") /\ UNCHANGED <<row, bounds, answered, excused>>
    BY DEF Change
  <1>3. PICK w, k, old : w = sess[s] /\ k = Key(s) /\ old = Loaded(s)
    OBVIOUS
  <1>4. /\ w # None /\ Sound(w, row, excused, changes) /\ w \in Session
        /\ k \in Keys /\ w.by \in Processes /\ changes \in Nat
    BY <1>1, <1>2, <1>3, AtMeans
  <1>5. Good(old, changes)
    BY <1>1, <1>3, <1>4 DEF Loaded, Stored, Sound, Copies
  <1>6. CASE w.op = "publish" /\ changes < MaxChanges
    <2>1. CASE changes' = changes + 1 /\
               \E new : /\ new = Published(k, old, changes + 1)
                        /\ memory' = [memory EXCEPT ![sess[s].by][Key(s)] = new]
                        /\ sess' = [sess EXCEPT ![s] =
                           [sess[s] EXCEPT !.new = new, !.step = "select again",
                               !.based[Key(s)] = Loaded(s), !.ids = @ \cup {changes + 1}]]
      <3>1. PICK new :
               /\ new = Published(k, old, changes + 1)
               /\ memory' = [memory EXCEPT ![sess[s].by][Key(s)] = new]
               /\ sess' = [sess EXCEPT ![s] =
                           [sess[s] EXCEPT !.new = new, !.step = "select again",
                               !.based[Key(s)] = Loaded(s), !.ids = @ \cup {changes + 1}]]
        BY <2>1
      <3>2. /\ new \in Payload /\ new # None /\ Good(new, changes + 1)
            /\ changes + 1 \in Ids(new) /\ Follows("publish", old, new)
        BY <1>4, <1>5, <1>6, <3>1, PublishedGood
      <3>3. /\ changes' \in 0 .. MaxChanges /\ changes <= changes'
            /\ {changes + 1} \in SUBSET (1 .. MaxChanges) /\ {changes + 1} \subseteq Ids(new)
        BY <1>4, <1>6, <2>1, <3>2, ConfigAssumption
      <3>4. Follows(sess[s].op, Loaded(s), new) /\ Good(new, changes')
        BY <1>3, <1>6, <2>1, <3>2
      <3> QED
        BY <1>2, <3>1, <3>2, <3>3, <3>4, ChangeStores
    <2> QED
      BY <1>3, <1>6, <2>1 DEF Change
  <1>7. CASE w.op = "rollback" /\ old # None /\ old.history # <<>>
    <2>1. PICK new :
               /\ new = RolledBack(old)
               /\ memory' = [memory EXCEPT ![sess[s].by][Key(s)] = new]
               /\ sess' = [sess EXCEPT ![s] =
                           [sess[s] EXCEPT !.new = new, !.step = "select again",
                               !.based[Key(s)] = Loaded(s), !.ids = @ \cup {}]]
               /\ changes' = changes
      BY <1>3, <1>7 DEF Change
    <2>2. /\ new \in Payload /\ new # None /\ Good(new, changes)
          /\ Follows("rollback", old, new)
      BY <1>4, <1>5, <1>7, <2>1, RolledBackGood
    <2>3. /\ changes' \in 0 .. MaxChanges /\ changes <= changes'
          /\ {} \in SUBSET (1 .. MaxChanges) /\ {} \subseteq Ids(new)
      BY <1>1, <1>4, <2>1 DEF TypeOK
    <2>4. Follows(sess[s].op, Loaded(s), new) /\ Good(new, changes')
      BY <1>3, <1>7, <2>1, <2>2
    <2> QED
      BY <1>2, <2>1, <2>2, <2>3, <2>4, ChangeStores
  <1>8. CASE /\ ~(w.op = "publish" /\ changes < MaxChanges)
             /\ ~(w.op = "rollback" /\ old # None /\ old.history # <<>>)
    <2>1. sess' = [sess EXCEPT ![s] = None] /\ UNCHANGED <<memory, changes>>
      BY <1>3, <1>8 DEF Change
    <2>2. /\ row' = row /\ excused' = excused /\ changes' = changes /\ memory' = memory
          /\ answered' = answered /\ UNCHANGED bounds
      BY <1>2, <2>1
    <2>3. Held' /\ sess' \in [Sessions -> Session \cup {None}]
      <3>1. \A id : Known(id, row, excused) => Known(id, row', excused')
        BY <2>2
      <3>2. changes' \in Nat /\ changes <= changes'
        BY <1>4, <2>2
      <3> QED
        BY <1>1, <2>1, <3>1, <3>2, OthersKept
    <2> QED
      BY <1>1, <2>2, <2>3 DEF IInv, TypeOK, Stored, PublishedIsKept, bounds
  <1> QED
    BY <1>6, <1>7, <1>8

\* A store that failed.
LEMMA GiveUpKeeps ==
    ASSUME IInv, NEW s \in Sessions, NEW step, At(s, step), GiveUp(s),
           UNCHANGED <<row, memory, changes, requests, kills, answered>>, faults' \in Nat
    PROVE  IInv'
  <1>1. TypeOK /\ Held /\ Stored /\ PublishedIsKept
    BY DEF IInv
  <1>2. PICK w : w = sess[s]
    OBVIOUS
  <1>3. /\ w # None /\ Sound(w, row, excused, changes) /\ w \in Session /\ changes \in Nat
    BY <1>1, <1>2, AtMeans
  <1>4. PICK v : v = Onward([w EXCEPT !.wrote = Nothing, !.based = Nothing])
    OBVIOUS
  <1>5. sess' = [sess EXCEPT ![s] = v] /\ excused' = excused \cup w.ids
    BY <1>2, <1>4 DEF GiveUp
  <1>6. row' = row /\ changes' = changes /\ answered' = answered /\ memory' = memory
    OBVIOUS
  <1>7. Sound(v, row', excused', changes')
    BY <1>3, <1>4, <1>5, <1>6, GiveUpSound
  <1>8. \A id : Known(id, row, excused) => Known(id, row', excused')
    BY <1>5, <1>6 DEF Known
  <1>9. changes' \in Nat /\ changes <= changes'
    BY <1>3, <1>6
  <1>10. Held' /\ sess' \in [Sessions -> Session \cup {None}]
    BY <1>1, <1>5, <1>7, <1>8, <1>9, OthersKept
  <1>11. w.ids \subseteq 1 .. MaxChanges
    BY <1>3 DEF Session
  <1>12. TypeOK'
    BY <1>1, <1>5, <1>6, <1>10, <1>11 DEF TypeOK
  <1>13. PublishedIsKept'
    BY <1>1, <1>5, <1>6 DEF PublishedIsKept
  <1>14. Stored'
    BY <1>1, <1>6 DEF Stored
  <1> QED
    BY <1>10, <1>12, <1>13, <1>14 DEF IInv

\* A step of a session alone.
LEMMA OneKeeps ==
    ASSUME IInv, NEW s \in Sessions, NEW v, sess' = [sess EXCEPT ![s] = v],
           Sound(v, row, excused, changes),
           UNCHANGED <<row, memory, changes, bounds, answered, excused>>
    PROVE  IInv'
  <1>1. TypeOK /\ Held /\ Stored /\ PublishedIsKept
    BY DEF IInv
  <1>2. Held' /\ sess' \in [Sessions -> Session \cup {None}]
    BY <1>1, StillKept
  <1> QED
    BY <1>1, <1>2 DEF IInv, TypeOK, Stored, PublishedIsKept, bounds

LEMMA SelectAgainKeeps ==
    ASSUME IInv, NEW s \in Sessions, SelectAgain(s)
    PROVE  IInv'
  <1>1. TypeOK /\ Held /\ Stored /\ At(s, "select again")
    BY DEF IInv, SelectAgain
  <1>2. CASE Faulty /\ GiveUp(s)
    <2>1. faults' \in Nat
      <3>1. faults \in Nat
        BY <1>1 DEF TypeOK
      <3>2. faults' = faults + 1
        BY <1>2 DEF Faulty
      <3> QED
        BY <3>1, <3>2
    <2>2. UNCHANGED <<row, memory, changes, requests, kills, answered>>
      BY DEF SelectAgain
    <2> QED
      BY <1>1, <1>2, <2>1, <2>2, GiveUpKeeps
  <1>3. CASE /\ sess' = [sess EXCEPT ![s] = [sess[s] EXCEPT !.seen = row[Key(s)], !.step = "flush"]]
             /\ UNCHANGED <<faults, excused>>
    <2>1. PICK w, k : w = sess[s] /\ k = Key(s)
      OBVIOUS
    <2>2. /\ w # None /\ w.step = "select again" /\ Sound(w, row, excused, changes)
          /\ w \in Session /\ k \in Keys
      BY <1>1, <2>1, AtMeans
    <2>3. PICK v : v = [w EXCEPT !.seen = row[k], !.step = "flush"]
      OBVIOUS
    <2>4. row[k] \in Payload \cup {None} /\ Good(row[k], changes)
      BY <1>1, <2>2 DEF TypeOK, Stored
    <2>5. /\ v \in Session /\ v.keys = w.keys /\ v.step = "flush" /\ v.found = w.found
          /\ v.seen = row[k] /\ v.new = w.new /\ v.wrote = w.wrote /\ v.based = w.based
          /\ v.ids = w.ids /\ v.op = w.op
      BY <2>2, <2>3, <2>4 DEF Session, Steps
    <2>6. Making(v) /\ Making(w)
      BY <2>2, <2>5 DEF Making
    <2>7. \A id \in Ids(row[k]) : Known(id, row, excused)
      BY <2>2 DEF Known
    <2>8. Sound(v, row, excused, changes)
      <3>1. Copies(v, changes)
        BY <2>2, <2>4, <2>5 DEF Sound, Copies
      <3>2. Shape(v)
        BY <2>2, <2>5, <2>6 DEF Sound, Shape
      <3>3. Carried(v, row, excused)
        BY <2>2, <2>5, <2>6, <2>7 DEF Sound, Carried
      <3> QED
        BY <2>5, <3>1, <3>2, <3>3 DEF Sound
    <2>9. sess' = [sess EXCEPT ![s] = v]
      BY <1>1, <1>3, <2>1, <2>3 DEF TypeOK
    <2>10. UNCHANGED <<row, memory, changes, bounds, answered, excused>>
      BY <1>3 DEF SelectAgain, bounds
    <2> QED
      BY <2>8, <2>9, <2>10, OneKeeps
  <1> QED
    BY <1>2, <1>3 DEF SelectAgain

LEMMA FlushKeeps ==
    ASSUME IInv, NEW s \in Sessions, Flush(s)
    PROVE  IInv'
  <1>1. TypeOK /\ Held /\ Stored /\ At(s, "flush")
    BY DEF IInv, Flush
  <1>2. PICK w, k : w = sess[s] /\ k = Key(s)
    OBVIOUS
  <1>3. /\ w # None /\ w.step = "flush" /\ Sound(w, row, excused, changes) /\ w \in Session
        /\ k \in Keys /\ k = w.keys[1] /\ k = Head(w.keys) /\ 1 \in DOMAIN w.keys
    BY <1>1, <1>2, AtMeans
  <1>4. UNCHANGED <<row, memory, changes, requests, kills, answered>>
    BY DEF Flush
  <1>5. /\ Copies(w, changes) /\ w.keys # <<>> /\ IsInjective(w.keys)
        /\ \A i \in DOMAIN w.keys : w.wrote[w.keys[i]] = None
        /\ \A j \in Keys : w.wrote[j] # None => Follows(w.op, w.based[j], w.wrote[j])
        /\ w.new # None /\ Follows(w.op, w.based[k], w.new)
        /\ \A id \in w.ids : \/ Known(id, row, excused) \/ id \in Ids(w.new)
                              \/ \E j \in Keys : id \in Ids(w.wrote[j])
        /\ \A id \in Ids(w.seen) : Known(id, row, excused)
    <2>1. Making(w) /\ w.step # "commit"
      BY <1>3 DEF Making
    <2> QED
      BY <1>3, <2>1 DEF Sound, Shape, Carried
  <1>6. CASE /\ w.seen = w.new /\ sess' = [sess EXCEPT ![s] = Onward(w)]
             /\ UNCHANGED <<faults, excused>>
    <2>1. \A id \in w.ids : Known(id, row, excused) \/ \E j \in Keys : id \in Ids(w.wrote[j])
      BY <1>5, <1>6
    <2>2. Sound(Onward(w), row, excused, changes)
      BY <1>3, <1>5, <2>1, OnwardSound
    <2>3. UNCHANGED <<row, memory, changes, bounds, answered, excused>>
      BY <1>4, <1>6 DEF bounds
    <2> QED
      BY <1>6, <2>2, <2>3, OneKeeps
  <1>7. CASE /\ sess' = [sess EXCEPT ![s] = Onward([w EXCEPT !.wrote[k] = w.new])]
             /\ UNCHANGED <<faults, excused>>
    <2>1. PICK v : v = [w EXCEPT !.wrote[k] = w.new]
      OBVIOUS
    <2>2. w.wrote \in [Keys -> Payload \cup {None}] /\ w.new \in Payload \cup {None}
      BY <1>3 DEF Session
    <2>3. /\ v \in Session /\ v.keys = w.keys /\ v.step = w.step /\ v.found = w.found
          /\ v.seen = w.seen /\ v.new = w.new /\ v.based = w.based
          /\ v.ids = w.ids /\ v.op = w.op
          /\ v.wrote[k] = w.new /\ \A j \in Keys : j # k => v.wrote[j] = w.wrote[j]
      BY <1>3, <2>1, <2>2 DEF Session
    <2>4. Copies(v, changes)
      BY <1>5, <2>3 DEF Copies
    <2>5. \A i \in DOMAIN v.keys : v.keys[i] \in Keys
      BY <1>3, <2>3 DEF Session
    <2>6. \A i \in DOMAIN v.keys : i # 1 => v.wrote[v.keys[i]] = None
      <3> SUFFICES ASSUME NEW i \in DOMAIN w.keys, i # 1 PROVE v.wrote[w.keys[i]] = None
        BY <2>3
      <3>1. w.keys[i] # k
        BY <1>3, <1>5 DEF IsInjective
      <3> QED
        BY <1>5, <2>3, <2>5, <3>1
    <2>7. \A j \in Keys : v.wrote[j] # None => Follows(v.op, v.based[j], v.wrote[j])
      BY <1>3, <1>5, <2>3
    <2>8. \A id \in v.ids : Known(id, row, excused) \/ \E j \in Keys : id \in Ids(v.wrote[j])
      <3> SUFFICES ASSUME NEW id \in w.ids, ~Known(id, row, excused)
                   PROVE  \E j \in Keys : id \in Ids(v.wrote[j])
        BY <2>3
      <3>1. CASE id \in Ids(w.new)
        BY <1>3, <2>3, <3>1
      <3>2. CASE \E j \in Keys : id \in Ids(w.wrote[j])
        <4>1. PICK j \in Keys : id \in Ids(w.wrote[j])
          BY <3>2
        <4>2. j # k
          BY <1>3, <1>5, <4>1, Empty
        <4> QED
          BY <2>3, <4>1, <4>2
      <3> QED
        BY <1>5, <3>1, <3>2
    <2>9. v.keys # <<>> /\ IsInjective(v.keys)
      BY <1>5, <2>3
    <2>10. Sound(Onward(v), row, excused, changes)
      BY <2>3, <2>4, <2>6, <2>7, <2>8, <2>9, OnwardSound
    <2>11. UNCHANGED <<row, memory, changes, bounds, answered, excused>>
      BY <1>4, <1>7 DEF bounds
    <2> QED
      BY <1>7, <2>1, <2>10, <2>11, OneKeeps
  <1>8. CASE GiveUp(s) /\ (Faulty \/ UNCHANGED faults)
    <2>1. faults' \in Nat
      <3>1. faults \in Nat
        BY <1>1 DEF TypeOK
      <3>2. faults' = faults + 1 \/ faults' = faults
        BY <1>8 DEF Faulty
      <3> QED
        BY <3>1, <3>2
    <2> QED
      BY <1>1, <1>4, <1>8, <2>1, GiveUpKeeps
  <1> QED
    BY <1>2, <1>6, <1>7, <1>8 DEF Flush

\* A commit takes nothing out of the table but what it excuses.
LEMMA CommitExcuses ==
    ASSUME NEW w \in Session, Shape(w), NEW k \in Keys, w.wrote[k] # None, NEW old,
           row[k] = old, NEW id \in Ids(old)
    PROVE  id \in Ids(w.wrote[k]) \/ id \in Excused(w, k)
  <1>1. old # None
    BY DEF Ids, Entries
  <1>2. CASE w.based[k] # old
    BY <1>1, <1>2 DEF Excused
  <1>3. CASE w.based[k] = old
    <2>1. Follows(w.op, old, w.wrote[k])
      BY <1>3 DEF Shape
    <2>2. CASE w.op = "rollback"
      BY <1>1, <1>3, <2>1, <2>2 DEF Follows, Excused
    <2>3. CASE w.op # "rollback"
      BY <1>1, <1>3, <2>1, <2>3 DEF Follows, Excused
    <2> QED
      BY <2>2, <2>3
  <1> QED
    BY <1>2, <1>3

LEMMA ExcusedType ==
    ASSUME TypeOK, Stored, NEW w \in Session, NEW k \in Keys
    PROVE  Excused(w, k) \subseteq 1 .. MaxChanges
  <1>1. PICK old : old = row[k]
    OBVIOUS
  <1>2. old = None \/ old \in Payload
    BY <1>1 DEF TypeOK
  <1>3. Ids(old) \subseteq 1 .. MaxChanges
    BY <1>2, IdsType
  <1>4. CASE old = None
    BY <1>1, <1>4 DEF Excused
  <1>5. CASE old # None
    <2>1. old.current.id \in 1 .. MaxChanges /\ old.history \in Seq(Entry)
      BY <1>2, <1>5 DEF Payload, Entry
    <2>2. Len(old.history) = HistoryLimit => Head(old.history).id \in 1 .. MaxChanges
      <3> SUFFICES ASSUME Len(old.history) = HistoryLimit
                   PROVE  Head(old.history).id \in 1 .. MaxChanges
        OBVIOUS
      <3>1. Len(old.history) > 0
        BY ConfigAssumption
      <3>2. Head(old.history) \in Entry
        BY <2>1, <3>1
      <3> QED
        BY <3>2 DEF Entry
    <2> QED
      BY <1>1, <1>3, <2>1, <2>2 DEF Excused
  <1> QED
    BY <1>4, <1>5

LEMMA CommitKeeps ==
    ASSUME IInv, NEW s \in Sessions, Commit(s)
    PROVE  IInv'
  <1>1. TypeOK /\ Held /\ Stored /\ PublishedIsKept /\ At(s, "commit")
    BY DEF IInv, Commit
  <1>2. PICK w : w = sess[s]
    OBVIOUS
  <1>3. /\ w # None /\ w.step = "commit" /\ Sound(w, row, excused, changes) /\ w \in Session
        /\ changes \in Nat
    BY <1>1, <1>2, AtMeans
  <1>4. /\ sess' = [sess EXCEPT ![s] = None] /\ memory' = memory /\ changes' = changes
        /\ requests' = requests /\ kills' = kills
    BY DEF Commit
  <1>5. /\ w.ids \subseteq 1 .. MaxChanges /\ w.wrote \in [Keys -> Payload \cup {None}]
        /\ ~Making(w)
    BY <1>3 DEF Session, Making
  <1>6. faults' \in Nat
    <2>1. faults \in Nat
      BY <1>1 DEF TypeOK
    <2>2. faults' = faults + 1 \/ faults' = faults
      BY DEF Commit, Faulty
    <2> QED
      BY <2>1, <2>2
  <1>7. CASE /\ row' = [k \in Keys |-> IF w.wrote[k] # None THEN w.wrote[k] ELSE row[k]]
             /\ answered' = answered \cup w.ids
             /\ excused' = excused \cup UNION {Excused(w, k) : k \in Keys}
    <2>1. \A k \in Keys : row'[k] = IF w.wrote[k] # None THEN w.wrote[k] ELSE row[k]
      BY <1>7
    <2>2. row' \in [Keys -> Payload \cup {None}] /\ \A k \in Keys : Good(row'[k], changes)
      <3>1. \A k \in Keys : /\ row'[k] \in Payload \cup {None}
                             /\ Good(row'[k], changes)
        BY <1>1, <1>3, <1>5, <2>1 DEF TypeOK, Stored, Sound, Copies
      <3> QED
        BY <1>7, <3>1
    <2>3. ASSUME NEW id, Known(id, row, excused) PROVE Known(id, row', excused')
      <3>1. CASE id \in excused
        BY <1>7, <3>1 DEF Known
      <3>2. CASE \E k \in Keys : id \in Ids(row[k])
        <4>1. PICK k \in Keys : id \in Ids(row[k])
          BY <3>2
        <4>2. CASE w.wrote[k] = None
          BY <2>1, <4>1, <4>2 DEF Known
        <4>3. CASE w.wrote[k] # None
          <5>1. id \in Ids(w.wrote[k]) \/ id \in Excused(w, k)
            BY <1>3, <4>1, <4>3, CommitExcuses DEF Sound
          <5>2. row'[k] = w.wrote[k] /\ Excused(w, k) \subseteq excused'
            BY <1>7, <2>1, <4>3
          <5> QED
            BY <5>1, <5>2 DEF Known
        <4> QED
          BY <4>2, <4>3
      <3> QED
        BY <2>3, <3>1, <3>2 DEF Known
    <2>4. ASSUME NEW id \in w.ids PROVE Known(id, row', excused')
      <3>1. Known(id, row, excused) \/ \E k \in Keys : id \in Ids(w.wrote[k])
        BY <1>3, <1>5 DEF Sound, Carried
      <3>2. ASSUME NEW k \in Keys, id \in Ids(w.wrote[k]) PROVE Known(id, row', excused')
        <4>1. w.wrote[k] # None
          BY <3>2, Empty
        <4> QED
          BY <2>1, <3>2, <4>1 DEF Known
      <3> QED
        BY <2>3, <3>1, <3>2
    <2>5. excused' \subseteq 1 .. MaxChanges /\ answered' \subseteq 1 .. MaxChanges
      BY <1>1, <1>3, <1>5, <1>7, ExcusedType DEF TypeOK
    <2>6. PublishedIsKept'
      <3>1. \A id \in answered : Known(id, row, excused)
        BY <1>1 DEF PublishedIsKept, Known
      <3>2. \A id \in answered' : Known(id, row', excused')
        BY <1>7, <2>3, <2>4, <3>1
      <3> QED
        BY <3>2 DEF PublishedIsKept, Known
    <2>7. Held' /\ sess' \in [Sessions -> Session \cup {None}]
      <3>1. changes' \in Nat /\ changes <= changes'
        BY <1>3, <1>4
      <3> QED
        BY <1>1, <1>4, <2>3, <3>1, OthersKept
    <2>8. TypeOK' /\ Stored'
      BY <1>1, <1>4, <1>6, <2>2, <2>5, <2>7 DEF TypeOK, Stored
    <2> QED
      BY <2>6, <2>7, <2>8 DEF IInv
  <1>8. CASE /\ answered' = (IF w.loud THEN answered ELSE answered \cup w.ids)
             /\ excused' = excused \cup w.ids
             /\ row' = row
    <2>1. \A id : Known(id, row, excused) => Known(id, row', excused')
      BY <1>8 DEF Known
    <2>2. Held' /\ sess' \in [Sessions -> Session \cup {None}]
      <3>1. changes' \in Nat /\ changes <= changes'
        BY <1>3, <1>4
      <3> QED
        BY <1>1, <1>4, <2>1, <3>1, OthersKept
    <2>3. excused' \subseteq 1 .. MaxChanges /\ answered' \subseteq 1 .. MaxChanges
      BY <1>1, <1>5, <1>8 DEF TypeOK
    <2>4. PublishedIsKept'
      BY <1>1, <1>8 DEF PublishedIsKept
    <2>5. TypeOK' /\ Stored'
      BY <1>1, <1>4, <1>6, <1>8, <2>2, <2>3 DEF TypeOK, Stored
    <2> QED
      BY <2>2, <2>4, <2>5 DEF IInv
  <1> QED
    BY <1>2, <1>7, <1>8 DEF Commit

LEMMA KillKeeps ==
    ASSUME IInv, NEW p \in Processes, Kill(p)
    PROVE  IInv'
  <1>1. TypeOK /\ Held /\ Stored /\ PublishedIsKept
    BY DEF IInv
  <1>2. /\ UNCHANGED <<row, changes, requests, faults, answered, excused>> /\ kills' = kills + 1
        /\ memory' = [memory EXCEPT ![p] = Nothing]
        /\ sess' = [s \in Sessions |-> IF sess[s] # None /\ sess[s].by = p THEN None ELSE sess[s]]
    BY DEF Kill, Nothing
  <1>3. \A s \in Sessions : sess'[s] = None \/ sess'[s] = sess[s]
    BY <1>2
  <1>4. sess' \in [Sessions -> Session \cup {None}]
    BY <1>1, <1>2, <1>3 DEF TypeOK
  <1>5. Held'
    BY <1>1, <1>2, <1>3 DEF Held
  <1>6. /\ memory' \in [Processes -> [Keys -> Payload \cup {None}]]
        /\ \A q \in Processes, k \in Keys : memory'[q][k] = None \/ memory'[q][k] = memory[q][k]
    BY <1>1, <1>2, Empty DEF TypeOK
  <1>7. Stored'
    BY <1>1, <1>2, <1>6, Empty DEF Stored
  <1>8. kills' \in Nat
    BY <1>1, <1>2 DEF TypeOK
  <1>9. TypeOK'
    BY <1>1, <1>2, <1>4, <1>6, <1>8 DEF TypeOK
  <1>10. PublishedIsKept'
    BY <1>1, <1>2 DEF PublishedIsKept
  <1> QED
    BY <1>5, <1>7, <1>9, <1>10 DEF IInv

LEMMA ConfigInit == Init => IInv
  <1> SUFFICES ASSUME Init PROVE IInv
    OBVIOUS
  <1>1. \A s \in Sessions : sess[s] = None
    BY DEF Init
  <1>2. /\ row = Nothing /\ memory = [p \in Processes |-> Nothing]
    BY DEF Init, Nothing
  <1>3. Stored
    BY <1>2, Empty DEF Stored
  <1>4. changes \in 0 .. MaxChanges
    BY ConfigAssumption DEF Init
  <1>5. TypeOK
    BY <1>2, <1>4, Empty DEF Init, TypeOK
  <1> QED
    BY <1>1, <1>3, <1>5 DEF IInv, Held, PublishedIsKept, Init

LEMMA ConfigStep == IInv /\ [Next]_vars => IInv'
  <1> SUFFICES ASSUME IInv, [Next]_vars PROVE IInv'
    OBVIOUS
  <1>1. ASSUME NEW s \in Sessions, NEW p \in Processes, NEW op \in Operations, NEW k \in Keys,
               NEW loud \in BOOLEAN, Begin(s, p, op, <<k>>, loud)
        PROVE  IInv'
    <2>1. <<k>> \in Seq(Keys) /\ <<k>> # <<>> /\ IsInjective(<<k>>)
      BY DEF IsInjective
    <2> QED
      BY <1>1, <2>1, BeginKeeps
  <1>2. ASSUME NEW s \in Sessions, NEW p \in Processes, Begin(s, p, "publish", Bundle, TRUE)
        PROVE  IInv'
    <2>1. "publish" \in Operations /\ TRUE \in BOOLEAN
      BY DEF Operations
    <2> QED
      BY <1>2, <2>1, BeginKeeps, ConfigAssumption
  <1>3. CASE UNCHANGED vars
    <2>1. UNCHANGED <<row, memory, sess, changes, requests, faults, kills, answered, excused>>
      BY <1>3 DEF vars, bounds
    <2>2. TypeOK /\ Held /\ Stored /\ PublishedIsKept
      BY DEF IInv
    <2>3. TypeOK' /\ Held' /\ Stored' /\ PublishedIsKept'
      BY <2>1, <2>2 DEF TypeOK, Held, Stored, PublishedIsKept
    <2> QED
      BY <2>3 DEF IInv
  <1> QED
    BY <1>1, <1>2, <1>3, SelectKeeps, ChangeKeeps, SelectAgainKeeps, FlushKeeps, CommitKeeps,
       KillKeeps DEF Next

-----------------------------------------------------------------------------
(* The inductive invariant holds in every state (Next).                    *)
THEOREM Invariance == Spec => []IInv
  BY ConfigInit, ConfigStep, PTL DEF Spec

(* Every variable keeps its type: a version never exceeds the number of    *)
(* publications.                                                           *)
THEOREM TypeCorrect == Spec => []TypeOK
  <1>1. IInv => TypeOK
    BY DEF IInv
  <1> QED
    BY <1>1, Invariance, PTL

(* In every row and every memory the versions count up by one, whatever    *)
(* the payload was made from (publish_config, rollback_config).            *)
THEOREM VersionsKept == Spec => []VersionsCount
  <1>1. IInv => VersionsCount
    <2>1. ASSUME NEW payload, Good(payload, changes) PROVE Chain(payload)
      <3>1. CASE payload = None
        BY <3>1 DEF Chain
      <3>2. CASE payload # None
        BY <2>1, <3>2 DEF Good
      <3> QED
        BY <3>1, <3>2
    <2> QED
      BY <2>1 DEF IInv, Stored, VersionsCount
  <1> QED
    BY <1>1, Invariance, PTL

(* An answered publication stays in the table unless there is one of the   *)
(* reasons that Excused and GiveUp name (publish_config, _persist_payload).*)
THEOREM PublicationsKept == Spec => []PublishedIsKept
  <1>1. IInv => PublishedIsKept
    BY DEF IInv
  <1> QED
    BY <1>1, Invariance, PTL
=============================================================================
