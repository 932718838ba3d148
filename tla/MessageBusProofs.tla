-------------------------- MODULE MessageBusProofs --------------------------
(***************************************************************************)
(* The safety properties of MessageBus for every number of processes,      *)
(* receivers and messages, any size of history and page, and any faults.   *)
(***************************************************************************)
EXTENDS MessageBus, FiniteSetTheorems, SequenceTheorems, TLAPS

(* The numbers of the messages accepted so far.                             *)
Sent == 1 .. Len(log)

(* A process that accepts n knows of m: it has accepted m in the same run,  *)
(* or it has started after m and read it in the file.                       *)
Accepted(p, from, m) == log[m].by = p /\ m > from
KnewOf(n, m) ==
    \/ Accepted(log[n].by, log[n].start, m)
    \/ m <= log[n].start /\ log[n].intact /\ InFile(m)
Knows(p, m) ==
    \/ Accepted(p, start[p], m)
    \/ m <= start[p] /\ intact[p] /\ InFile(m)

LogInv ==
    /\ Len(log) <= MaxSent
    /\ \A n \in Sent : log[n].start < n
    /\ \A m, n \in Sent :
           m < n /\ ~log[m].given /\ ~log[n].given /\ KnewOf(n, m) => Offset(m) < Offset(n)

(* The lines are in the order of the messages.                              *)
FileInv ==
    /\ \A i \in 1 .. Len(file) : file[i] = Garbage \/ file[i] \in Sent
    /\ \A i, j \in 1 .. Len(file) :
           i < j /\ file[i] # Garbage /\ file[j] # Garbage => file[i] < file[j]
    /\ unended => Len(file) > 0

(* The history of a process is in order too, and all of it was read or      *)
(* accepted by the process.                                                 *)
HistoryInv(p) ==
    /\ Len(history[p]) <= MaxHistory
    /\ \A i \in 1 .. Len(history[p]) :
           /\ history[p][i] \in Sent
           /\ \/ history[p][i] <= start[p] /\ intact[p]
              \/ Accepted(p, start[p], history[p][i])
           /\ \A j \in 1 .. Len(history[p]) : i < j => history[p][i] < history[p][j]

ProcessInv(p) ==
    /\ start[p] <= Len(log)
    /\ HistoryInv(p)
    /\ p \in up =>
          /\ \A m \in Sent : Accepted(p, start[p], m) =>
                log[m].start = start[p] /\ log[m].intact = intact[p]
          /\ \A m \in Sent : Knows(p, m) =>
                /\ log[m].given \/ Offset(m) <= last[p]
                /\ \/ m \in Range(history[p])
                   \/ /\ m \in cut
                      /\ Len(history[p]) = MaxHistory
                      /\ \A k \in Range(history[p]) : k > m

ReadInv ==
    /\ read \subseteq Sent
    /\ cursor = 0 \/ \E k \in read : Offset(k) = cursor

IInv ==
    /\ TypeOK
    /\ LogInv /\ FileInv
    /\ \A p \in Processes : ProcessInv(p)
    /\ ReadInv
    /\ PassedOverHasACause
    /\ WaitsOrIsReceived

-----------------------------------------------------------------------------
(* Sequences and sets of numbers *)

LEMMA SeqRange ==
    ASSUME NEW S, NEW q \in Seq(S)
    PROVE  /\ Len(q) \in Nat /\ DOMAIN q = 1 .. Len(q)
           /\ \A x : x \in Range(q) <=> \E i \in 1 .. Len(q) : q[i] = x
           /\ \A i \in 1 .. Len(q) : q[i] \in S /\ q[i] \in Range(q)
           /\ Range(q) \subseteq S
BY LenProperties, ElementOfSeq DEF Range

LEMMA AppendFacts ==
    ASSUME NEW S, NEW q \in Seq(S), NEW e \in S
    PROVE  /\ Append(q, e) \in Seq(S)
           /\ Len(Append(q, e)) = Len(q) + 1
           /\ \A i \in 1 .. Len(q) : Append(q, e)[i] = q[i]
           /\ Append(q, e)[Len(q) + 1] = e
BY AppendProperties

LEMMA LastPartFacts ==
    ASSUME NEW S, NEW q \in Seq(S), NEW size \in Nat \ {0}, NEW z, z = LastPart(q, size)
    PROVE  /\ z \in Seq(S) /\ Len(z) \in Nat
           /\ Len(z) <= size /\ Len(z) <= Len(q)
           /\ Len(z) # Len(q) => Len(z) = size
           /\ \A i \in 1 .. Len(z) : z[i] = q[(Len(q) - Len(z)) + i]
<1>1. Len(q) \in Nat
  BY LenProperties
<1>2. CASE Len(q) <= size
  BY <1>1, <1>2 DEF LastPart
<1>3. CASE ~(Len(q) <= size)
  <2> DEFINE a == Len(q) - size + 1
  <2>1. z = SubSeq(q, a, Len(q))
    BY <1>3 DEF LastPart
  <2>2. a \in Int /\ Len(q) \in Int /\ a .. Len(q) \subseteq 1 .. Len(q) /\ a <= Len(q)
    BY <1>1, <1>3
  <2>3. \A i \in a .. Len(q) : q[i] \in S
    BY <2>2, ElementOfSeq
  <2>4. /\ z \in Seq(S)
        /\ Len(z) = Len(q) - a + 1
        /\ \A i \in 1 .. Len(q) - a + 1 : z[i] = q[a + i - 1]
    BY <2>1, <2>2, <2>3, SubSeqProperties
  <2>5. Len(q) - a + 1 = size
    BY <1>1
  <2>6. \A i \in 1 .. size : a + i - 1 = (Len(q) - size) + i
    BY <1>1
  <2> HIDE DEF a
  <2> QED BY <2>4, <2>5, <2>6, <1>1, <1>3
<1> QED BY <1>2, <1>3

(* The last part of a list in order has its newest members.                 *)
LEMMA NewestKept ==
    ASSUME NEW S \in SUBSET Nat, NEW q \in Seq(S), NEW size \in Nat \ {0},
           NEW z, z = LastPart(q, size),
           \A i, j \in 1 .. Len(q) : i < j => q[i] < q[j]
    PROVE  /\ z \in Seq(S) /\ Len(z) \in Nat /\ Len(z) <= size
           /\ \A i, j \in 1 .. Len(z) : i < j => z[i] < z[j]
           /\ Range(z) \subseteq Range(q)
           /\ \A x \in Range(q) \ Range(z) :
                  Len(z) = size /\ \A k \in Range(z) : k > x
           /\ Len(q) > 0 => q[Len(q)] \in Range(z)
           /\ Len(q) > size => Len(z) = size
<1>1. z \in Seq(S)
  BY LastPartFacts
<1>2. /\ Len(z) \in Nat /\ Len(z) <= size /\ Len(z) <= Len(q) /\ Len(q) \in Nat
  BY LastPartFacts, LenProperties
<1>3. Len(z) # Len(q) => Len(z) = size
  BY LastPartFacts
<1>4. \A i \in 1 .. Len(z) : z[i] = q[(Len(q) - Len(z)) + i]
  BY LastPartFacts
<1>5. \A i \in 1 .. Len(z) : (Len(q) - Len(z)) + i \in 1 .. Len(q)
  BY <1>2
<1>6. \A x : x \in Range(z) <=> \E i \in 1 .. Len(z) : z[i] = x
  BY <1>1, SeqRange
<1>7. \A x : x \in Range(q) <=> \E i \in 1 .. Len(q) : q[i] = x
  BY SeqRange
<1>8. ASSUME NEW i \in 1 .. Len(z), NEW j \in 1 .. Len(z), i < j PROVE z[i] < z[j]
  <2>1. (Len(q) - Len(z)) + i < (Len(q) - Len(z)) + j
    BY <1>2, <1>8
  <2> QED BY <2>1, <1>4, <1>5
<1>9. Range(z) \subseteq Range(q)
  BY <1>4, <1>5, <1>6, <1>7
<1>10. ASSUME NEW x \in Range(q), x \notin Range(z)
       PROVE  Len(z) = size /\ \A k \in Range(z) : k > x
  <2>1. PICK i \in 1 .. Len(q) : q[i] = x
    BY <1>7
  <2>2. i <= Len(q) - Len(z)
    <3>1. ASSUME ~(i <= Len(q) - Len(z)) PROVE FALSE
      <4>1. PICK j : j = i - (Len(q) - Len(z))
        OBVIOUS
      <4>2. j \in 1 .. Len(z) /\ (Len(q) - Len(z)) + j = i
        BY <3>1, <4>1, <1>2
      <4>3. z[j] = x
        BY <4>2, <2>1, <1>4
      <4> QED BY <4>2, <4>3, <1>6, <1>10
    <3> QED BY <3>1
  <2>3. Len(z) = size
    BY <2>2, <1>2, <1>3
  <2>4. ASSUME NEW j \in 1 .. Len(z) PROVE z[j] > x
    <3>1. i < (Len(q) - Len(z)) + j
      BY <2>2, <1>2
    <3>2. q[i] < q[(Len(q) - Len(z)) + j]
      BY <3>1, <1>5
    <3>3. z[j] = q[(Len(q) - Len(z)) + j] /\ z[j] \in Nat /\ x \in Nat
      BY <1>1, <1>4, <2>1, ElementOfSeq
    <3> QED BY <3>2, <3>3, <2>1
  <2> QED BY <2>3, <2>4, <1>6
<1>11. ASSUME Len(q) > 0 PROVE q[Len(q)] \in Range(z)
  <2>1. Len(z) \in 1 .. Len(z)
    BY <1>2, <1>3, <1>11
  <2>2. (Len(q) - Len(z)) + Len(z) = Len(q)
    BY <1>2
  <2>3. z[Len(z)] = q[Len(q)]
    BY <2>1, <2>2, <1>4
  <2> QED BY <2>1, <2>3, <1>6
<1>12. Len(q) > size => Len(z) = size
  BY <1>2, <1>3
<1> QED BY <1>1, <1>2, <1>8, <1>9, <1>10, <1>11, <1>12

(* A finite set of numbers has a largest and a smallest one: the numbers    *)
(* above those that are larger get fewer and fewer.                         *)
LEMMA LargestExists ==
    ASSUME NEW S \in SUBSET Int, IsFiniteSet(S), S # {}
    PROVE  \E x \in S : \A y \in S : x >= y
<1> DEFINE Above(x) == {y \in S : y > x}
           F == {Above(x) : x \in S}
<1>1. IsWellFoundedOn(StrictSubsetOrdering(S), SUBSET S)
  BY FS_StrictSubsetOrderingWellFounded, FS_FiniteSubsetsOfFinite
<1>2. F \subseteq SUBSET S /\ F # {}
  OBVIOUS
<1> HIDE DEF F
<1>3. PICK a \in F : \A b \in F : ~(<<b, a>> \in StrictSubsetOrdering(S))
  BY <1>1, <1>2, WFMin
<1>4. PICK x \in S : a = Above(x)
  BY <1>3 DEF F
<1>5. ASSUME NEW y \in S, y > x PROVE FALSE
  <2>0. \A u \in S : u \in Int
    OBVIOUS
  <2>a. (\A u \in S : u > y => u > x) /\ ~(y > y)
    BY <1>5, <2>0
  <2>1. Above(y) \subseteq Above(x) /\ y \in Above(x) /\ y \notin Above(y)
    BY <1>5, <2>a
  <2>2. Above(y) \in F /\ Above(y) \in SUBSET S /\ Above(x) \in SUBSET S
    BY DEF F
  <2> HIDE DEF Above
  <2>3. <<Above(y), Above(x)>> \in StrictSubsetOrdering(S)
    BY <2>1, <2>2 DEF StrictSubsetOrdering
  <2> QED BY <1>3, <1>4, <2>2, <2>3
<1>6. \A y \in S : x >= y
  BY <1>5
<1> QED BY <1>6

LEMMA SmallestExists ==
    ASSUME NEW S \in SUBSET Int, IsFiniteSet(S), S # {}
    PROVE  \E x \in S : \A y \in S : x <= y
<1> DEFINE Below(x) == {y \in S : y < x}
           F == {Below(x) : x \in S}
<1>1. IsWellFoundedOn(StrictSubsetOrdering(S), SUBSET S)
  BY FS_StrictSubsetOrderingWellFounded, FS_FiniteSubsetsOfFinite
<1>2. F \subseteq SUBSET S /\ F # {}
  OBVIOUS
<1> HIDE DEF F
<1>3. PICK a \in F : \A b \in F : ~(<<b, a>> \in StrictSubsetOrdering(S))
  BY <1>1, <1>2, WFMin
<1>4. PICK x \in S : a = Below(x)
  BY <1>3 DEF F
<1>5. ASSUME NEW y \in S, y < x PROVE FALSE
  <2>0. \A u \in S : u \in Int
    OBVIOUS
  <2>a. (\A u \in S : u < y => u < x) /\ ~(y < y)
    BY <1>5, <2>0
  <2>1. Below(y) \subseteq Below(x) /\ y \in Below(x) /\ y \notin Below(y)
    BY <1>5, <2>a
  <2>2. Below(y) \in F /\ Below(y) \in SUBSET S /\ Below(x) \in SUBSET S
    BY DEF F
  <2> HIDE DEF Below
  <2>3. <<Below(y), Below(x)>> \in StrictSubsetOrdering(S)
    BY <2>1, <2>2 DEF StrictSubsetOrdering
  <2> QED BY <1>3, <1>4, <2>2, <2>3
<1>6. \A y \in S : x <= y
  BY <1>5
<1> QED BY <1>6

LEMMA MaxFacts ==
    ASSUME NEW S, \E x \in S : \A y \in S : x >= y
    PROVE  Max(S) \in S /\ \A y \in S : Max(S) >= y
BY DEF Max

LEMMA MinFacts ==
    ASSUME NEW S, \E x \in S : \A y \in S : x =< y
    PROVE  Min(S) \in S /\ \A y \in S : Min(S) =< y
BY DEF Min

LEMMA LargestFacts ==
    ASSUME NEW S \in SUBSET Int, IsFiniteSet(S), S # {}, NEW z, z = Largest(S)
    PROVE  z \in S /\ z \in Int /\ \A y \in S : y <= z
<1>1. z \in S /\ \A y \in S : z >= y
  BY LargestExists, MaxFacts DEF Largest
<1> QED BY <1>1

(* The largest of a number and the offsets of finitely many messages.       *)
LEMMA LargestOffset ==
    ASSUME NEW c \in Nat, NEW T, IsFiniteSet(T), \A n \in T : Offset(n) \in Int,
           NEW z, z = Largest({c} \cup {Offset(n) : n \in T})
    PROVE  /\ z \in Nat /\ z >= c
           /\ z = c \/ \E n \in T : Offset(n) = z
           /\ \A n \in T : Offset(n) <= z
<1>1. PICK S : S = {Offset(n) : n \in T}
  OBVIOUS
<1>2. IsFiniteSet(S)
  <2>1. PICK f : f = [n \in T |-> Offset(n)]
    OBVIOUS
  <2>2. f \in Surjection(T, S)
    BY <1>1, <2>1 DEF Surjection
  <2> QED BY <2>2, FS_Surjection
<1>3. IsFiniteSet({c})
  BY FS_Singleton
<1>4. IsFiniteSet({c} \cup S)
  BY <1>2, <1>3, FS_Union
<1>5. {c} \cup S \in SUBSET Int /\ {c} \cup S # {} /\ z = Largest({c} \cup S)
  BY <1>1
<1>6. z \in {c} \cup S /\ z \in Int /\ \A y \in {c} \cup S : y <= z
  BY <1>4, <1>5, LargestFacts
<1>7. c \in {c} \cup S /\ \A n \in T : Offset(n) \in {c} \cup S
  BY <1>1
<1>8. c <= z /\ \A n \in T : Offset(n) <= z
  BY <1>6, <1>7
<1>9. z = c \/ \E n \in T : Offset(n) = z
  BY <1>1, <1>6
<1>10. z \in Nat /\ z >= c
  BY <1>6, <1>8
<1> QED BY <1>8, <1>9, <1>10

LEMMA PairFacts ==
    ASSUME NEW m \in Nat, NEW n \in Nat, m < n
    PROVE  /\ Min({m, n}) = m /\ Min({n, m}) = m
           /\ Max({m, n}) = n /\ Max({n, m}) = n
<1>1. Min({m, n}) = m /\ Min({n, m}) = m
  <2>1. \A S : S = {m, n} => Min(S) \in S /\ \A y \in S : Min(S) =< y
    BY MinFacts
  <2> QED BY <2>1
<1>2. Max({m, n}) = n /\ Max({n, m}) = n
  <2>1. \A S : S = {m, n} => Max(S) \in S /\ \A y \in S : Max(S) >= y
    BY MaxFacts
  <2> QED BY <2>1
<1> QED BY <1>1, <1>2

(* Of two messages, the later one's process may not have known the other.   *)
LEMMA UnawareFacts ==
    ASSUME NEW m \in Nat, NEW n \in Nat, m < n
    PROVE  /\ Unaware(m, n) <=> \/ log[n].by # log[m].by /\ log[n].start < m
                                \/ ~log[n].intact /\ m <= log[n].start
           /\ Unaware(n, m) <=> \/ log[n].by # log[m].by /\ log[n].start < m
                                \/ ~log[n].intact /\ m <= log[n].start
BY PairFacts DEF Unaware

LEMMA UnawareKept ==
    ASSUME NEW m \in Nat, NEW n \in Nat, log'[m] = log[m], log'[n] = log[n]
    PROVE  Unaware(m, n)' <=> Unaware(m, n)
<1>1. CASE m = n
  <2>1. Min({n}) = n /\ Max({n}) = n /\ {m, n} = {n}
    BY <1>1 DEF Min, Max
  <2> QED BY <1>1, <2>1 DEF Unaware
<1>2. CASE m < n
  BY <1>2, PairFacts DEF Unaware
<1>3. CASE n < m
  BY <1>3, PairFacts DEF Unaware
<1> QED BY <1>1, <1>2, <1>3

-----------------------------------------------------------------------------
(* Types *)

LEMMA BusTypes ==
    ASSUME TypeOK, LogInv
    PROVE  /\ Len(log) \in Nat /\ DOMAIN log = Sent /\ Sent \subseteq Numbers
           /\ \A n \in Sent : /\ log[n] \in Message /\ n \in Nat /\ n > 0
                              /\ Offset(n) \in Int /\ log[n].given \in BOOLEAN
                              /\ log[n].start \in Nat /\ log[n].by \in Processes
                              /\ log[n].start < n /\ log[n].intact \in BOOLEAN
           /\ Len(file) \in Nat
           /\ \A p \in Processes : /\ history[p] \in Seq(Numbers) /\ Len(history[p]) \in Nat
                                   /\ last[p] \in Nat /\ start[p] \in Nat
           /\ MaxSent \in Nat /\ MaxHistory \in Nat \ {0}
<1>1. log \in Seq(Message) /\ file \in Seq(Numbers \cup {Garbage})
      /\ history \in [Processes -> Seq(Numbers)]
      /\ last \in [Processes -> Nat] /\ start \in [Processes -> Nat]
  BY DEF TypeOK
<1>2. Len(log) \in Nat /\ DOMAIN log = Sent /\ Len(file) \in Nat
  BY <1>1, LenProperties DEF Sent
<1>3. MaxSent \in Nat /\ MaxHistory \in Nat \ {0} /\ Len(log) <= MaxSent
  BY BusAssumption DEF LogInv
<1>4. Sent \subseteq Numbers
  BY <1>2, <1>3 DEF Sent, Numbers
<1>5. ASSUME NEW n \in Sent
      PROVE  /\ log[n] \in Message /\ n \in Nat /\ n > 0
             /\ Offset(n) \in Int /\ log[n].given \in BOOLEAN
             /\ log[n].start \in Nat /\ log[n].by \in Processes
             /\ log[n].start < n /\ log[n].intact \in BOOLEAN
  <2>1. log[n] \in Message
    BY <1>1, ElementOfSeq DEF Sent
  <2>2. n \in Nat /\ n > 0
    BY <1>2 DEF Sent
  <2>3. log[n].start < n
    BY DEF LogInv
  <2> QED BY <2>1, <2>2, <2>3 DEF Message, Offset
<1>6. ASSUME NEW p \in Processes
      PROVE  /\ history[p] \in Seq(Numbers) /\ Len(history[p]) \in Nat
             /\ last[p] \in Nat /\ start[p] \in Nat
  BY <1>1, LenProperties
<1> QED BY <1>2, <1>3, <1>4, <1>5, <1>6

-----------------------------------------------------------------------------
(* The file *)

(* A line in the file names a message or cannot be parsed.                  *)
LEMMA FileRange ==
    ASSUME TypeOK, FileInv
    PROVE  /\ DOMAIN file = 1 .. Len(file) /\ Len(file) \in Nat
           /\ Range(file) \subseteq Sent \cup {Garbage}
           /\ \A x : x \in Range(file) <=> \E i \in 1 .. Len(file) : file[i] = x
<1>1. file \in Seq(Numbers \cup {Garbage})
  BY DEF TypeOK
<1>2. \A x : x \in Range(file) <=> \E i \in 1 .. Len(file) : file[i] = x
  BY <1>1, SeqRange
<1> QED BY <1>1, <1>2, SeqRange DEF FileInv

(* What is read of a file are numbers of messages, all of them if the file  *)
(* is unharmed.                                                             *)
LEMMA ReadableFacts ==
    ASSUME TypeOK, LogInv, FileInv, NEW z, z = Readable
    PROVE  /\ Garbage \notin Range(file) => z = file
           /\ z \in Seq(Sent)
<1> DEFINE U == {k \in DOMAIN file : file[k] = Garbage}
<1>1. file \in Seq(Numbers \cup {Garbage}) /\ Len(file) \in Nat /\ DOMAIN file = 1 .. Len(file)
  BY FileRange DEF TypeOK
<1>2. U = {} <=> Garbage \notin Range(file)
  BY DEF Range
<1>3. CASE U = {}
  <2>1. z = file
    BY <1>3 DEF Readable
  <2>2. \A i \in 1 .. Len(file) : file[i] \in Sent
    BY <1>3, <1>1 DEF FileInv
  <2>3. file = SubSeq(file, 1, Len(file))
    BY <1>1, SubSeqFull
  <2>4. SubSeq(file, 1, Len(file)) \in Seq(Sent)
    BY <1>1, <2>2, SubSeqProperties
  <2> QED BY <2>1, <2>3, <2>4
<1>4. CASE U # {}
  <2>1. IsFiniteSet(1 .. Len(file)) /\ U \in SUBSET (1 .. Len(file))
    BY <1>1, FS_Interval
  <2>2. IsFiniteSet(U)
    BY <2>1, FS_Subset
  <2>3. 1 .. Len(file) \subseteq Int
    OBVIOUS
  <2>4. U \in SUBSET Int
    BY <2>1, <2>3
  <2> HIDE DEF U
  <2>5. PICK a : a = Min(U)
    OBVIOUS
  <2>6. a \in U /\ \A y \in U : a =< y
    BY <1>4, <2>2, <2>4, <2>5, SmallestExists, MinFacts
  <2>7. a \in 1 .. Len(file) /\ a - 1 \in Int
    BY <2>1, <2>6
  <2>8. z = SubSeq(file, 1, a - 1)
    BY <1>4, <2>5 DEF Readable, U
  <2>9. ASSUME NEW i \in 1 .. a - 1 PROVE file[i] \in Sent
    <3>1. i \in 1 .. Len(file) /\ i < a
      BY <2>7
    <3>2. i \notin U
      BY <3>1, <2>6, <2>7
    <3> QED BY <3>1, <3>2, <1>1 DEF U, FileInv
  <2>10. SubSeq(file, 1, a - 1) \in Seq(Sent)
    BY <2>7, <2>9, SubSeqProperties
  <2> QED BY <2>8, <2>10, <1>2, <1>4
<1> QED BY <1>2, <1>3, <1>4

(* An append adds the line of its message at most.                          *)
LEMMA PersistFacts ==
    ASSUME TypeOK, LogInv, FileInv, NEW n, NEW outcome \in Outcomes, Persist(n, outcome),
           n = Len(log) + 1 \/ (n = Garbage /\ outcome = "part"),
           n \in Numbers \cup {Garbage}
    PROVE  /\ file' \in Seq(Numbers \cup {Garbage})
           /\ unended' \in BOOLEAN /\ faults' \in Nat
           /\ unended' => Len(file') > 0
           /\ \A i \in 1 .. Len(file') :
                  file'[i] \in {Garbage, n} \/ (i \in 1 .. Len(file) /\ file'[i] = file[i])
           /\ \A i, j \in 1 .. Len(file') :
                  i < j /\ file'[i] # Garbage /\ file'[j] # Garbage => file'[i] < file'[j]
           /\ \A m \in Sent : m \in Range(file') => m \in Range(file)
<1>1. /\ file \in Seq(Numbers \cup {Garbage}) /\ unended \in BOOLEAN /\ faults \in Nat
      /\ Len(file) \in Nat /\ Len(log) \in Nat
      /\ DOMAIN file = 1 .. Len(file)
  BY FileRange, BusTypes DEF TypeOK
<1>2. /\ faults' = IF outcome = "whole" THEN faults ELSE faults + 1
      /\ file' = Appended(n, outcome)
      /\ unended' = CASE outcome = "nothing" -> unended
                      [] outcome \in {"whole", "split"} -> FALSE
                      [] OTHER               -> TRUE
  BY DEF Persist
<1>a. faults' \in Nat
  BY <1>1, <1>2
<1>b. unended' \in BOOLEAN
  <2>1. unended' = unended \/ unended' = TRUE \/ unended' = FALSE
    BY <1>2
  <2> QED BY <2>1, <1>1
<1>3. faults' \in Nat /\ unended' \in BOOLEAN
  BY <1>a, <1>b
<1>4. \A i \in 1 .. Len(file) : file[i] = Garbage \/ (file[i] \in Nat /\ file[i] < Len(log) + 1)
  BY <1>1 DEF FileInv, Sent
<1>5. \A m \in Sent : m # Len(log) + 1 /\ m # Garbage
  BY <1>1 DEF Sent, Garbage
<1>6. CASE outcome = "nothing"
  <2>1. file' = file /\ unended' = unended
    BY <1>2, <1>6 DEF Appended
  <2> QED BY <1>1, <1>3, <2>1 DEF FileInv, InFile
<1>7. CASE outcome # "nothing" /\ unended
  <2>1. file' = [file EXCEPT ![Len(file)] = Garbage]
    BY <1>2, <1>7 DEF Appended, Outcomes
  <2>2. Len(file) \in 1 .. Len(file) /\ Garbage \in Numbers \cup {Garbage}
    BY <1>1, <1>7 DEF FileInv
  <2>3. /\ file' \in Seq(Numbers \cup {Garbage}) /\ Len(file') = Len(file)
        /\ \A i \in 1 .. Len(file) : file'[i] = IF i = Len(file) THEN Garbage ELSE file[i]
    BY <1>1, <2>1, <2>2, ExceptSeq
  <2>4. \A m \in Sent : m \in Range(file') => m \in Range(file)
    <3>1. \A y : y \in Range(file) <=> \E i \in 1 .. Len(file) : file[i] = y
      BY <1>1, SeqRange
    <3>2. \A y : y \in Range(file') <=> \E i \in 1 .. Len(file') : file'[i] = y
      BY <2>3, SeqRange
    <3> QED BY <3>1, <3>2, <2>3, <1>5
  <2>a. Len(file) > 0
    BY <1>7 DEF FileInv
  <2>5. Len(file') > 0
    BY <2>a, <2>3
  <2>6. \A i \in 1 .. Len(file') :
            file'[i] \in {Garbage, n} \/ (i \in 1 .. Len(file) /\ file'[i] = file[i])
    BY <2>3
  <2>7. \A i, j \in 1 .. Len(file') :
            i < j /\ file'[i] # Garbage /\ file'[j] # Garbage => file'[i] < file'[j]
    BY <2>3 DEF FileInv
  <2> QED BY <1>3, <2>3, <2>4, <2>5, <2>6, <2>7
<1>8. CASE outcome # "nothing" /\ ~unended
  <2> DEFINE x == IF outcome \in {"part", "split"} THEN Garbage ELSE n
  <2>1. file' = Append(file, x) /\ x \in Numbers \cup {Garbage}
    BY <1>2, <1>8 DEF Appended, Outcomes
  <2>2. x = Garbage \/ (x = n /\ n = Len(log) + 1)
    OBVIOUS
  <2> HIDE DEF x
  <2>3. /\ file' \in Seq(Numbers \cup {Garbage}) /\ Len(file') = Len(file) + 1
        /\ \A i \in 1 .. Len(file) : file'[i] = file[i]
        /\ file'[Len(file) + 1] = x
    BY <1>1, <2>1, AppendFacts
  <2>4. \A i \in 1 .. Len(file') : i \in 1 .. Len(file) \/ i = Len(file) + 1
    BY <1>1, <2>3
  <2>5. \A i \in 1 .. Len(file) : i \in 1 .. Len(file') /\ i < Len(file) + 1
    BY <1>1, <2>3
  <2>a. \A i \in 1 .. Len(file') :
            file'[i] \in {Garbage, n} \/ (i \in 1 .. Len(file) /\ file'[i] = file[i])
    BY <2>2, <2>3, <2>4
  <2>b. ASSUME NEW i \in 1 .. Len(file'), NEW j \in 1 .. Len(file'), i < j,
               file'[i] # Garbage, file'[j] # Garbage
        PROVE  file'[i] < file'[j]
    <3>1. i \in 1 .. Len(file)
      BY <2>b, <2>4, <2>5, <1>1
    <3>2. CASE j \in 1 .. Len(file)
      BY <2>b, <2>3, <3>1, <3>2 DEF FileInv
    <3>3. CASE j = Len(file) + 1
      BY <2>b, <2>2, <2>3, <3>1, <3>3, <1>4
    <3> QED BY <2>4, <3>2, <3>3
  <2>d. \A y : y \in Range(file') => y \in Range(file) \/ y = x
    <3>1. \A y : y \in Range(file) <=> \E i \in 1 .. Len(file) : file[i] = y
      BY <1>1, SeqRange
    <3>2. \A y : y \in Range(file') <=> \E i \in 1 .. Len(file') : file'[i] = y
      BY <2>3, SeqRange
    <3> QED BY <3>1, <3>2, <2>3, <2>4
  <2>e. \A m \in Sent : m \in Range(file') => m \in Range(file)
    BY <2>2, <2>d, <1>5
  <2>f. Len(file') > 0
    BY <1>1, <2>3
  <2> QED BY <1>3, <2>3, <2>a, <2>b, <2>e, <2>f
<1> QED BY <1>6, <1>7, <1>8

-----------------------------------------------------------------------------
(* What a step leaves as it was *)

LEMMA InboxesFacts ==
    /\ \A b \in Inboxes : /\ DOMAIN b \subseteq Receivers
                          /\ \A r \in DOMAIN b : b[r] \subseteq Numbers
                          /\ b = [r \in DOMAIN b |-> b[r]]
    /\ \A b : /\ DOMAIN b \subseteq Receivers
              /\ \A r \in DOMAIN b : b[r] \subseteq Numbers
              /\ b = [r \in DOMAIN b |-> b[r]]
              => b \in Inboxes
<1>1. ASSUME NEW b \in Inboxes
      PROVE  /\ DOMAIN b \subseteq Receivers
             /\ \A r \in DOMAIN b : b[r] \subseteq Numbers
             /\ b = [r \in DOMAIN b |-> b[r]]
  <2>1. PICK names \in SUBSET Receivers : b \in [names -> SUBSET Numbers]
    BY DEF Inboxes
  <2> QED BY <2>1
<1>2. ASSUME NEW b, DOMAIN b \subseteq Receivers,
             \A r \in DOMAIN b : b[r] \subseteq Numbers,
             b = [r \in DOMAIN b |-> b[r]]
      PROVE  b \in Inboxes
  <2>1. b \in [DOMAIN b -> SUBSET Numbers]
    BY <1>2
  <2> QED BY <1>2, <2>1 DEF Inboxes
<1> QED BY <1>1, <1>2

(* A process that does not take the step.                                   *)
LEMMA ProcessKept ==
    ASSUME TypeOK, LogInv, NEW p \in Processes, ProcessInv(p),
           history'[p] = history[p], last'[p] = last[p],
           start'[p] = start[p], intact'[p] = intact[p],
           p \in up' => p \in up,
           cut \subseteq cut',
           Len(log') \in Nat, Len(log) <= Len(log'),
           \A m \in Sent : log'[m] = log[m],
           \A m \in Sent' : m \in Sent \/ (m > Len(log) /\ log'[m].by # p),
           \A m \in Sent : InFile(m)' => InFile(m)
    PROVE  ProcessInv(p)'
<1>1. Len(log) \in Nat /\ start[p] \in Nat /\ last[p] \in Nat
  BY BusTypes
<1>2. Sent \subseteq Sent'
  BY <1>1 DEF Sent
<1>3. start'[p] <= Len(log')
  BY <1>1 DEF ProcessInv
<1>4. HistoryInv(p)'
  <2>1. HistoryInv(p)
    BY DEF ProcessInv
  <2> QED BY <2>1, <1>2 DEF HistoryInv, Accepted
<1>5. ASSUME NEW m \in Sent', Accepted(p, start[p], m)' \/ Knows(p, m)'
      PROVE  /\ m \in Sent
             /\ Accepted(p, start[p], m)' <=> Accepted(p, start[p], m)
             /\ Knows(p, m)' => Knows(p, m)
             /\ Offset(m)' = Offset(m)
  <2>1. m \in Sent
    <3>1. m > Len(log) => ~(m <= start[p])
      BY <1>1 DEF ProcessInv, Sent
    <3> QED BY <1>5, <3>1 DEF Accepted, Knows
  <2> QED BY <2>1 DEF Accepted, Knows, Offset
<1>6. ASSUME p \in up'
      PROVE  /\ \A m \in Sent' : Accepted(p, start[p], m)' =>
                   log'[m].start = start'[p] /\ log'[m].intact = intact'[p]
             /\ \A m \in Sent' : Knows(p, m)' =>
                   /\ log'[m].given \/ Offset(m)' <= last'[p]
                   /\ \/ m \in Range(history'[p])
                      \/ /\ m \in cut'
                         /\ Len(history'[p]) = MaxHistory
                         /\ \A k \in Range(history'[p]) : k > m
  <2>1. p \in up
    BY <1>6
  <2>3. \A m \in Sent' : Accepted(p, start[p], m)' =>
            log'[m].start = start'[p] /\ log'[m].intact = intact'[p]
    BY <2>1, <1>5 DEF ProcessInv
  <2>4. ASSUME NEW m \in Sent', Knows(p, m)'
        PROVE  /\ log'[m].given \/ Offset(m)' <= last'[p]
               /\ \/ m \in Range(history'[p])
                  \/ /\ m \in cut'
                     /\ Len(history'[p]) = MaxHistory
                     /\ \A k \in Range(history'[p]) : k > m
    <3>1. m \in Sent /\ Knows(p, m) /\ Offset(m)' = Offset(m)
      BY <2>4, <1>5
    <3> QED BY <2>1, <3>1 DEF ProcessInv
  <2> QED BY <2>3, <2>4
<1> QED BY <1>3, <1>4, <1>6 DEF ProcessInv

LEMMA LogKept ==
    ASSUME LogInv, log' = log, \A m \in Sent : InFile(m)' => InFile(m)
    PROVE  LogInv'
<1>1. Sent' = Sent
  BY DEF Sent
<1>2. \A m, n \in Sent : KnewOf(n, m)' => KnewOf(n, m)
  BY DEF KnewOf, Accepted
<1> QED BY <1>1, <1>2 DEF LogInv, Offset

LEMMA PassedKept ==
    ASSUME TypeOK, LogInv, PassedOverHasACause, ReadInv,
           UNCHANGED <<log, cursor, read>>, cut \subseteq cut',
           \A m \in Sent : InFile(m)' => InFile(m)
    PROVE  PassedOverHasACause' /\ ReadInv'
<1>1. DOMAIN log = Sent
  BY BusTypes
<1>2. \A k, n : Unaware(k, n)' <=> Unaware(k, n)
  BY DEF Unaware
<1>3. \A n : Offset(n)' = Offset(n)
  BY DEF Offset
<1>4. read \subseteq Sent
  BY DEF ReadInv
<1>5. PassedOverHasACause'
  BY <1>1, <1>2, <1>3, <1>4 DEF PassedOverHasACause
<1>6. ReadInv'
  BY <1>3 DEF ReadInv, Sent
<1> QED BY <1>5, <1>6

(* A step on the inboxes only.                                              *)
LEMMA InboxStep ==
    ASSUME IInv, TypeOK', WaitsOrIsReceived',
           UNCHANGED <<log, file, unended, up, history, last, cursor, start, intact, read, cut>>
    PROVE  IInv'
<1>1. \A m : InFile(m)' <=> InFile(m)
  BY DEF InFile
<1>2. LogInv'
  BY <1>1, LogKept DEF IInv
<1>3. FileInv'
  BY DEF IInv, FileInv, Sent
<1>4. PassedOverHasACause' /\ ReadInv'
  BY <1>1, PassedKept DEF IInv
<1>5. ASSUME NEW p \in Processes PROVE ProcessInv(p)'
  <2>1. Sent' = Sent /\ Len(log) \in Nat
    BY BusTypes DEF Sent, IInv
  <2> QED BY <2>1, <1>1, ProcessKept DEF IInv
<1> QED BY <1>2, <1>3, <1>4, <1>5 DEF IInv

-----------------------------------------------------------------------------
(* The steps *)

LEMMA BusInit == Init => IInv
<1> SUFFICES ASSUME Init PROVE IInv
  OBVIOUS
<1>1. Len(<<>>) = 0 /\ Sent = {}
  BY EmptySeq DEF Init, Sent
<1>2. <<>> \in Seq(Message) /\ <<>> \in Seq(Numbers \cup {Garbage}) /\ <<>> \in Seq(Numbers)
  BY EmptySeq
<1>3. [r \in {} |-> {}] \in Inboxes
  BY InboxesFacts
<1>4. TypeOK
  BY <1>2, <1>3 DEF Init, TypeOK
<1>5. LogInv
  BY <1>1, BusAssumption DEF LogInv, Init
<1>6. FileInv /\ ReadInv
  BY <1>1 DEF Init, FileInv, ReadInv
<1>7. ASSUME NEW p \in Processes PROVE ProcessInv(p)
  BY <1>1, BusAssumption DEF Init, ProcessInv, HistoryInv
<1>8. DOMAIN log = {}
  BY <1>1, <1>4, <1>5, BusTypes
<1>9. PassedOverHasACause /\ WaitsOrIsReceived
  BY <1>8 DEF PassedOverHasACause, WaitsOrIsReceived
<1> QED BY <1>4, <1>5, <1>6, <1>7, <1>9 DEF IInv

(* What is known of the inbox of one process after a step on it.            *)
LEMMA InboxTypes ==
    ASSUME TypeOK, NEW p \in Processes
    PROVE  /\ inbox \in [Processes -> Inboxes] /\ inbox[p] \in Inboxes
           /\ DOMAIN inbox[p] \subseteq Receivers
           /\ \A r : Waiting(inbox[p], r) \subseteq Numbers
           /\ \A r \in DOMAIN inbox[p] : inbox[p][r] \subseteq Numbers
<1>1. inbox \in [Processes -> Inboxes] /\ inbox[p] \in Inboxes
  BY DEF TypeOK
<1> QED BY <1>1, InboxesFacts DEF Waiting

LEMMA ReceiveStep ==
    ASSUME IInv, NEW p \in Processes, NEW r \in Receivers, NEW kind \in Kinds \cup {None},
           Receive(p, r, kind)
    PROVE  IInv'
<1>1. PICK here : here = Waiting(inbox[p], r)
  OBVIOUS
<1>2. PICK result \in Firsts({n \in here : kind = None \/ log[n].kind = kind}, PageSize) :
          /\ inbox' = [inbox EXCEPT ![p] =
                 [q \in DOMAIN inbox[p] \cup {r} |->
                     IF q = r THEN here \ result ELSE inbox[p][q]]]
          /\ received' = [received EXCEPT ![r] = @ \cup result]
  BY <1>1 DEF Receive
<1>3. result \subseteq here
  BY <1>2 DEF Firsts, Parts
<1>4. PICK box : box = [q \in DOMAIN inbox[p] \cup {r} |->
                           IF q = r THEN here \ result ELSE inbox[p][q]]
  OBVIOUS
<1>5. /\ inbox' = [inbox EXCEPT ![p] = box]
      /\ received' = [received EXCEPT ![r] = @ \cup result]
      /\ UNCHANGED <<log, file, unended, up, history, last, cursor, faults, kills, start,
                     intact, gone, read, cut>>
  BY <1>2, <1>4 DEF Receive
<1>6. TypeOK
  BY DEF IInv
<1>7. here \subseteq Numbers
  BY <1>1, <1>6, InboxTypes
<1>8. box \in Inboxes
  BY <1>3, <1>4, <1>6, <1>7, InboxTypes, InboxesFacts
<1>9. received \in [Receivers -> SUBSET Numbers]
  BY <1>6 DEF TypeOK
<1>10. TypeOK'
  <2>1. inbox' \in [Processes -> Inboxes]
    BY <1>5, <1>6, <1>8, InboxTypes
  <2>2. received' \in [Receivers -> SUBSET Numbers]
    BY <1>3, <1>5, <1>7, <1>9
  <2> QED BY <1>5, <1>6, <2>1, <2>2 DEF TypeOK
<1>11. WaitsOrIsReceived'
  <2> SUFFICES ASSUME NEW n \in DOMAIN log, log[n].to # Everybody,
                      NEW q, q = log[n].to, NEW o, o = log[n].by
               PROVE  \/ n \in received'[q]
                      \/ n \in gone
                      \/ q \in DOMAIN inbox'[o] /\ n \in inbox'[o][q]
    BY <1>5 DEF WaitsOrIsReceived
  <2>1. \/ n \in received[q] \/ n \in gone
        \/ q \in DOMAIN inbox[o] /\ n \in inbox[o][q]
    BY DEF IInv, WaitsOrIsReceived
  <2>2. n \in DOMAIN log /\ o \in Processes /\ q \in Receivers
    <3>1. log[n] \in Message
      BY <1>6, BusTypes DEF IInv
    <3> QED BY <3>1 DEF Message
  <2>3. received[q] \subseteq received'[q]
    BY <1>5, <1>9, <2>2
  <2>4. CASE o = p /\ q = r /\ q \in DOMAIN inbox[o] /\ n \in inbox[o][q]
    <3>1. n \in here
      BY <2>4, <1>1 DEF Waiting
    <3>2. CASE n \in result
      BY <3>2, <2>4, <1>5, <1>9
    <3>3. CASE n \notin result
      <4>1. inbox'[o] = box
        BY <2>4, <1>5, <1>6, InboxTypes
      <4> QED BY <3>1, <3>3, <4>1, <2>4, <1>4
    <3> QED BY <3>2, <3>3
  <2>5. CASE o = p /\ q # r /\ q \in DOMAIN inbox[o] /\ n \in inbox[o][q]
    <3>1. inbox'[o] = box
      BY <2>5, <1>5, <1>6, InboxTypes
    <3> QED BY <3>1, <2>5, <1>4
  <2>6. CASE o # p
    <3>1. inbox'[o] = inbox[o]
      BY <2>2, <2>6, <1>5, <1>6, InboxTypes
    <3> QED BY <3>1, <2>1, <2>3
  <2> QED BY <2>1, <2>3, <2>4, <2>5, <2>6
<1> QED BY <1>5, <1>10, <1>11, InboxStep

LEMMA RegisterStep ==
    ASSUME IInv, NEW p \in Processes, NEW r \in Receivers, Register(p, r)
    PROVE  IInv'
<1>1. PICK box : box = [q \in DOMAIN inbox[p] \cup {r} |-> IF q = r THEN {} ELSE inbox[p][q]]
  OBVIOUS
<1>2. /\ inbox' = [inbox EXCEPT ![p] = box] /\ r \notin DOMAIN inbox[p]
      /\ UNCHANGED <<log, file, unended, up, history, last, cursor, faults, kills, start,
                     intact, received, gone, read, cut>>
  BY <1>1 DEF Register
<1>3. TypeOK /\ inbox \in [Processes -> Inboxes]
  BY DEF IInv, TypeOK
<1>4. box \in Inboxes
  BY <1>1, <1>3, InboxTypes, InboxesFacts
<1>5. TypeOK'
  <2>1. inbox' \in [Processes -> Inboxes]
    BY <1>2, <1>3, <1>4
  <2> QED BY <1>2, <1>3, <2>1 DEF TypeOK
<1>6. WaitsOrIsReceived'
  <2>1. ASSUME NEW o, NEW q, q \in DOMAIN inbox[o], o \in Processes
        PROVE  q \in DOMAIN inbox'[o] /\ inbox'[o][q] = inbox[o][q]
    <3>1. inbox'[o] = IF o = p THEN box ELSE inbox[o]
      BY <2>1, <1>2, <1>3
    <3> QED BY <3>1, <2>1, <1>1, <1>2
  <2>2. \A n \in DOMAIN log : log[n].by \in Processes
    BY <1>3, BusTypes DEF IInv
  <2> QED BY <1>2, <2>1, <2>2 DEF IInv, WaitsOrIsReceived
<1> QED BY <1>2, <1>5, <1>6, InboxStep

LEMMA UnregisterStep ==
    ASSUME IInv, NEW p \in Processes, NEW r \in Receivers, Unregister(p, r)
    PROVE  IInv'
<1>1. PICK box : box = [q \in DOMAIN inbox[p] \ {r} |-> inbox[p][q]]
  OBVIOUS
<1>2. /\ inbox' = [inbox EXCEPT ![p] = box] /\ r \in DOMAIN inbox[p]
      /\ gone' = gone \cup inbox[p][r]
      /\ UNCHANGED <<log, file, unended, up, history, last, cursor, faults, kills, start,
                     intact, received, read, cut>>
  BY <1>1 DEF Unregister
<1>3. TypeOK /\ inbox \in [Processes -> Inboxes]
  BY DEF IInv, TypeOK
<1>4. box \in Inboxes
  BY <1>1, <1>3, InboxTypes, InboxesFacts
<1>5. TypeOK'
  <2>1. inbox' \in [Processes -> Inboxes]
    BY <1>2, <1>3, <1>4
  <2>2. gone' \subseteq Numbers
    BY <1>2, <1>3, InboxTypes DEF TypeOK
  <2> QED BY <1>2, <1>3, <2>1, <2>2 DEF TypeOK
<1>6. WaitsOrIsReceived'
  <2>1. ASSUME NEW o, NEW q, NEW n, q \in DOMAIN inbox[o], o \in Processes, n \in inbox[o][q]
        PROVE  n \in gone' \/ (q \in DOMAIN inbox'[o] /\ n \in inbox'[o][q])
    <3>1. inbox'[o] = IF o = p THEN box ELSE inbox[o]
      BY <2>1, <1>2, <1>3
    <3> QED BY <3>1, <2>1, <1>1, <1>2
  <2>2. \A n \in DOMAIN log : log[n].by \in Processes
    BY <1>3, BusTypes DEF IInv
  <2> QED BY <1>2, <2>1, <2>2 DEF IInv, WaitsOrIsReceived
<1> QED BY <1>2, <1>5, <1>6, InboxStep

LEMMA HistoryRange ==
    ASSUME TypeOK, LogInv, NEW p \in Processes, HistoryInv(p)
    PROVE  /\ Range(history[p]) \subseteq Sent
           /\ \A k \in Range(history[p]) :
                  (k <= start[p] /\ intact[p]) \/ Accepted(p, start[p], k)
<1>1. history[p] \in Seq(Numbers)
  BY BusTypes
<1>2. \A x : x \in Range(history[p]) <=> \E i \in 1 .. Len(history[p]) : history[p][i] = x
  BY <1>1, SeqRange
<1> QED BY <1>2 DEF HistoryInv

(* A message that a process reads and one that it does not have, though it  *)
(* has no smaller offset: their processes were unaware.                     *)
LEMMA NotInHistory ==
    ASSUME IInv, NEW p \in Processes, p \in up, NEW k \in Sent, NEW n \in Sent,
           k \in Range(history[p]), n \notin Range(history[p]), n \notin cut,
           InFile(k), InFile(n), Offset(k) >= Offset(n), ~log[k].given, ~log[n].given
    PROVE  Unaware(k, n)
<1>1. /\ Len(log) \in Nat /\ k \in Nat /\ n \in Nat /\ start[p] \in Nat
      /\ Offset(k) \in Int /\ Offset(n) \in Int
      /\ log[n].start \in Nat /\ log[k].start \in Nat
  BY BusTypes DEF IInv
<1>2. ~Knows(p, n)
  BY DEF IInv, ProcessInv
<1>3. (n > start[p] /\ log[n].by # p) \/ (n <= start[p] /\ ~intact[p])
  BY <1>1, <1>2 DEF Knows, Accepted
<1>4. k # n
  OBVIOUS
<1>5. CASE k < n
  <2>1. ~KnewOf(n, k)
    BY <1>1, <1>5 DEF IInv, LogInv
  <2>2. \/ k > log[n].start /\ log[k].by # log[n].by
        \/ k <= log[n].start /\ ~log[n].intact
    BY <1>1, <2>1 DEF KnewOf, Accepted
  <2> QED BY <1>1, <1>5, <2>2, UnawareFacts
<1>6. CASE n < k
  <2>1. (k <= start[p] /\ intact[p]) \/ Accepted(p, start[p], k)
    BY HistoryRange DEF IInv, ProcessInv
  <2>2. Accepted(p, start[p], k)
    BY <2>1, <1>1, <1>3, <1>6
  <2>3. log[k].start = start[p] /\ log[k].intact = intact[p] /\ log[k].by = p
    BY <2>2 DEF IInv, ProcessInv, Accepted
  <2> QED BY <1>1, <1>3, <1>6, <2>3, UnawareFacts
<1> QED BY <1>1, <1>4, <1>5, <1>6

LEMMA ReplayStep ==
    ASSUME IInv, NEW p \in Processes, Replay(p)
    PROVE  IInv'
<1>1. PICK page \in Lasts(Found(p), PageSize) :
          /\ cursor' = Largest({cursor} \cup {Offset(n) : n \in page})
          /\ read' = read \cup page
          /\ cut' = cut \cup (Found(p) \ page)
  BY DEF Replay
<1>2. /\ cursor' = Largest({cursor} \cup {Offset(n) : n \in page})
      /\ read' = read \cup page
      /\ cut' = cut \cup (Found(p) \ page)
      /\ UNCHANGED <<log, file, unended, up, history, last, inbox, faults, kills, start, intact,
                     received, gone>>
      /\ p \in up
  BY <1>1 DEF Replay, bus
<1>3. page \subseteq Found(p) /\ Found(p) \subseteq Range(history[p])
  BY <1>1 DEF Lasts, Parts, Found
<1>4. /\ Range(history[p]) \subseteq Sent /\ Sent \subseteq Numbers /\ Len(log) \in Nat
      /\ DOMAIN log = Sent
      /\ \A n \in Sent : Offset(n) \in Int /\ n \in Nat /\ log[n].given \in BOOLEAN
  BY HistoryRange, BusTypes DEF IInv, ProcessInv
<1>5. cursor \in Nat /\ read \subseteq Sent /\ cut \subseteq Numbers
  BY DEF IInv, TypeOK, ReadInv
<1>6. /\ cursor' \in Nat /\ cursor' >= cursor
      /\ cursor' = cursor \/ \E k \in page : Offset(k) = cursor'
  <2>1. IsFiniteSet(Sent)
    BY <1>4, FS_Interval DEF Sent
  <2>2. page \subseteq Sent
    BY <1>3, <1>4
  <2>3. IsFiniteSet(page)
    BY <2>1, <2>2, FS_Subset
  <2>4. \A n \in page : Offset(n) \in Int
    BY <2>2, <1>4
  <2> QED BY <1>2, <1>5, <2>3, <2>4, LargestOffset
<1>7. TypeOK'
  <2>1. read' \subseteq Numbers /\ cut' \subseteq Numbers
    BY <1>2, <1>3, <1>4, <1>5
  <2> QED BY <1>2, <1>6, <2>1 DEF IInv, TypeOK
<1>8. /\ \A m : InFile(m)' <=> InFile(m)
      /\ \A m : Offset(m)' = Offset(m)
      /\ \A k, m : Unaware(k, m)' <=> Unaware(k, m)
      /\ Sent' = Sent
  BY <1>2 DEF InFile, Offset, Unaware, Sent
<1>9. LogInv' /\ FileInv'
  BY <1>2, <1>8, LogKept DEF IInv, FileInv
<1>10. ReadInv'
  BY <1>2, <1>3, <1>4, <1>5, <1>6, <1>8 DEF IInv, ReadInv
<1>11. WaitsOrIsReceived'
  BY <1>2 DEF IInv, WaitsOrIsReceived
<1>12. ASSUME NEW q \in Processes PROVE ProcessInv(q)'
  BY <1>2, <1>4, <1>8, ProcessKept DEF IInv
<1>13. PassedOverHasACause'
  <2> SUFFICES ASSUME NEW n \in Sent, Offset(n) <= cursor', n \notin read', n \notin cut',
                      ~log[n].given, InFile(n)
               PROVE  \E k \in read' : /\ Offset(k) >= Offset(n)
                                       /\ log[k].given \/ Unaware(k, n) \/ ~InFile(k)
    BY <1>2, <1>4, <1>8 DEF PassedOverHasACause
  <2>1. CASE Offset(n) <= cursor
    BY <2>1, <1>2, <1>4 DEF IInv, PassedOverHasACause
  <2>2. CASE ~(Offset(n) <= cursor)
    <3>1. PICK k \in page : Offset(k) = cursor'
      BY <2>2, <1>6
    <3>2. k \in Sent /\ k \in Range(history[p]) /\ k \in read'
      BY <3>1, <1>2, <1>3, <1>4
    <3>3. Offset(n) > cursor /\ Offset(k) >= Offset(n)
      BY <2>2, <3>1, <3>2, <1>4, <1>5
    <3>4. n \notin Found(p) /\ n \notin cut
      BY <1>2
    <3>5. n \notin Range(history[p])
      BY <3>3, <3>4 DEF Found
    <3>6. InFile(k) /\ ~log[k].given => Unaware(k, n)
      BY <3>2, <3>3, <3>4, <3>5, <1>2, NotInHistory
    <3> QED BY <3>2, <3>3, <3>6
  <2> QED BY <2>1, <2>2
<1> QED BY <1>7, <1>9, <1>10, <1>11, <1>12, <1>13 DEF IInv

(* A process that starts: it has what it could read.                        *)
LEMMA LoadStep ==
    ASSUME IInv, NEW p \in Processes, Load(p)
    PROVE  IInv'
<1>0. PICK read_text \in BOOLEAN :
       LET loaded == IF read_text THEN Readable ELSE <<>>
           whole == read_text /\ Garbage \notin Range(file)
       IN  /\ faults' = IF read_text THEN faults ELSE faults + 1
           /\ last' = [last EXCEPT ![p] = Largest({0} \cup {Offset(n) : n \in Range(loaded)})]
           /\ history' = [history EXCEPT ![p] =
                  IF whole THEN LastPart(loaded, MaxHistory) ELSE <<>>]
           /\ intact' = [intact EXCEPT ![p] = whole]
           /\ cut' = IF whole
                     THEN cut \cup (Range(loaded) \ Range(LastPart(loaded, MaxHistory)))
                     ELSE cut
  BY DEF Load
<1>1. PICK loaded : loaded = IF read_text THEN Readable ELSE <<>>
  OBVIOUS
<1>2. PICK whole \in BOOLEAN : whole <=> read_text /\ Garbage \notin Range(file)
  OBVIOUS
<1>3. PICK kept : kept = LastPart(loaded, MaxHistory)
  OBVIOUS
<1>4. PICK top : top = Largest({0} \cup {Offset(n) : n \in Range(loaded)})
  OBVIOUS
<1>5. /\ p \notin up /\ up' = up \cup {p}
      /\ last' = [last EXCEPT ![p] = top]
      /\ history' = [history EXCEPT ![p] = IF whole THEN kept ELSE <<>>]
      /\ intact' = [intact EXCEPT ![p] = whole]
      /\ cut' = IF whole THEN cut \cup (Range(loaded) \ Range(kept)) ELSE cut
      /\ start' = [start EXCEPT ![p] = Len(log)]
      /\ faults' = IF read_text THEN faults ELSE faults + 1
      /\ UNCHANGED <<log, file, unended, inbox, cursor, kills, received, gone, read>>
  BY <1>0, <1>1, <1>2, <1>3, <1>4 DEF Load
<1>6. TypeOK /\ LogInv /\ FileInv
  BY DEF IInv
<1>7. /\ Len(log) \in Nat /\ Sent \subseteq Numbers /\ MaxHistory \in Nat \ {0}
      /\ \A n \in Sent : Offset(n) \in Int /\ n \in Nat
      /\ history \in [Processes -> Seq(Numbers)] /\ last \in [Processes -> Nat]
      /\ start \in [Processes -> Nat] /\ intact \in [Processes -> BOOLEAN]
  BY <1>6, BusTypes DEF TypeOK
<1>8. loaded \in Seq(Sent) /\ (whole => loaded = file)
  <2>1. <<>> \in Seq(Sent)
    BY EmptySeq
  <2> QED BY <2>1, <1>1, <1>2, <1>6, ReadableFacts
<1>9. /\ Range(loaded) \subseteq Sent /\ Len(loaded) \in Nat
      /\ \A x : x \in Range(loaded) <=> \E i \in 1 .. Len(loaded) : loaded[i] = x
  BY <1>8, SeqRange
<1>a. Sent \in SUBSET Nat /\ Garbage \notin Sent
  BY DEF Sent, Garbage
<1>b. whole => \A i, j \in 1 .. Len(loaded) : i < j => loaded[i] < loaded[j]
  <2>1. \A i \in 1 .. Len(loaded) : loaded[i] # Garbage
    BY <1>8, <1>a, ElementOfSeq
  <2> QED BY <2>1, <1>6, <1>8 DEF FileInv
<1>10. /\ kept \in Seq(Sent) /\ Len(kept) \in Nat
       /\ whole =>
             /\ Len(kept) <= MaxHistory
             /\ \A i, j \in 1 .. Len(kept) : i < j => kept[i] < kept[j]
             /\ \A x \in Range(loaded) \ Range(kept) :
                    Len(kept) = MaxHistory /\ \A k \in Range(kept) : k > x
  <2>1. kept \in Seq(Sent)
    BY <1>3, <1>7, <1>8, LastPartFacts
  <2>2. Len(kept) \in Nat
    BY <2>1, LenProperties
  <2>3. CASE whole
    <3>1. /\ Sent \in SUBSET Nat /\ loaded \in Seq(Sent) /\ MaxHistory \in Nat \ {0}
          /\ \A i, j \in 1 .. Len(loaded) : i < j => loaded[i] < loaded[j]
      BY <2>3, <1>7, <1>8, <1>a, <1>b
    <3>2. Len(kept) <= MaxHistory
      BY <3>1, <1>3, LastPartFacts
    <3>3. \A i, j \in 1 .. Len(kept) : i < j => kept[i] < kept[j]
      BY <3>1, <1>3, NewestKept
    <3>4. \A x \in Range(loaded) \ Range(kept) :
              Len(kept) = MaxHistory /\ \A k \in Range(kept) : k > x
      BY <3>1, <1>3, NewestKept
    <3> QED BY <2>1, <2>2, <3>2, <3>3, <3>4
  <2> QED BY <2>1, <2>2, <2>3
<1>11. top \in Nat /\ \A n \in Range(loaded) : Offset(n) <= top
  <2>1. IsFiniteSet(Sent)
    BY <1>7, FS_Interval DEF Sent
  <2>2. IsFiniteSet(Range(loaded))
    BY <2>1, <1>9, FS_Subset
  <2>3. \A n \in Range(loaded) : Offset(n) \in Int
    BY <1>7, <1>9
  <2> QED BY <1>4, <2>2, <2>3, LargestOffset
<1>12. kept \in Seq(Numbers)
  <2>1. SubSeq(kept, 1, Len(kept)) = kept
    BY <1>10, SubSeqFull
  <2>2. \A i \in 1 .. Len(kept) : kept[i] \in Numbers
    BY <1>7, <1>10, ElementOfSeq
  <2> QED BY <2>1, <2>2, <1>10, SubSeqProperties
<1>13. TypeOK'
  <2>1. last' \in [Processes -> Nat] /\ start' \in [Processes -> Nat]
        /\ intact' \in [Processes -> BOOLEAN]
    BY <1>5, <1>7, <1>11
  <2>2. <<>> \in Seq(Numbers)
    BY EmptySeq
  <2>3. history' \in [Processes -> Seq(Numbers)]
    BY <1>5, <1>7, <1>12, <2>2
  <2>4. cut' \subseteq Numbers /\ up' \subseteq Processes
    BY <1>5, <1>6, <1>7, <1>9 DEF TypeOK
  <2>5. faults' \in Nat
    BY <1>5, <1>6 DEF TypeOK
  <2> QED BY <1>5, <1>6, <2>1, <2>3, <2>4, <2>5 DEF TypeOK
<1>14. (\A m : InFile(m)' <=> InFile(m)) /\ Sent' = Sent /\ cut \subseteq cut'
  BY <1>5 DEF InFile, Sent
<1>15. LogInv' /\ FileInv'
  BY <1>5, <1>6, <1>14, LogKept DEF FileInv
<1>16. PassedOverHasACause' /\ ReadInv'
  BY <1>5, <1>14, PassedKept DEF IInv
<1>17. WaitsOrIsReceived'
  BY <1>5 DEF IInv, WaitsOrIsReceived
<1>18. ASSUME NEW q \in Processes, q # p PROVE ProcessInv(q)'
  <2>1. /\ history'[q] = history[q] /\ last'[q] = last[q]
        /\ start'[q] = start[q] /\ intact'[q] = intact[q] /\ (q \in up' => q \in up)
    BY <1>5, <1>7, <1>18
  <2> QED BY <2>1, <1>5, <1>7, <1>14, ProcessKept DEF IInv
<1>19. ProcessInv(p)'
  <2>1. /\ start'[p] = Len(log) /\ last'[p] = top /\ intact'[p] = whole
        /\ history'[p] = IF whole THEN kept ELSE <<>>
    BY <1>5, <1>7
  <2>2. Len(<<>>) = 0
    BY EmptySeq
  <2>3. \A i \in 1 .. Len(kept) : kept[i] \in Sent
    BY <1>10, ElementOfSeq
  <2>4. HistoryInv(p)'
    <3>1. CASE whole
      <4>1. \A i \in 1 .. Len(kept) : kept[i] <= Len(log)
        BY <2>3, <3>1, <1>7 DEF Sent
      <4> QED BY <2>1, <2>3, <3>1, <4>1, <1>10, <1>14 DEF HistoryInv
    <3>2. CASE ~whole
      BY <2>1, <2>2, <3>2, <1>7 DEF HistoryInv
    <3> QED BY <3>1, <3>2
  <2>5. ASSUME NEW m \in Sent PROVE ~Accepted(p, start[p], m)'
    BY <2>1, <1>7 DEF Accepted, Sent
  <2>6. ASSUME NEW m \in Sent, whole, InFile(m)
        PROVE  /\ Offset(m)' <= top
               /\ \/ m \in Range(kept)
                  \/ /\ m \in cut'
                     /\ Len(kept) = MaxHistory
                     /\ \A k \in Range(kept) : k > m
    <3>1. m \in Range(loaded) /\ Offset(m)' = Offset(m)
      BY <2>6, <1>5, <1>8 DEF InFile, Offset
    <3>2. CASE m \notin Range(kept)
      BY <2>6, <3>1, <3>2, <1>5, <1>10, <1>11
    <3> QED BY <3>1, <3>2, <1>11
  <2>7. ASSUME NEW m \in Sent, Knows(p, m)' PROVE whole /\ InFile(m)
    BY <2>1, <2>5, <2>7, <1>14 DEF Knows
  <2>8. ASSUME NEW m \in Sent, Knows(p, m)'
        PROVE  /\ log'[m].given \/ Offset(m)' <= last'[p]
               /\ \/ m \in Range(history'[p])
                  \/ /\ m \in cut'
                     /\ Len(history'[p]) = MaxHistory
                     /\ \A k \in Range(history'[p]) : k > m
    BY <2>1, <2>6, <2>7, <2>8
  <2>9. start'[p] <= Len(log')
    BY <2>1, <1>5, <1>7
  <2> QED BY <2>4, <2>5, <2>8, <2>9, <1>14 DEF ProcessInv
<1> QED BY <1>13, <1>15, <1>16, <1>17, <1>18, <1>19 DEF IInv

LEMMA KillStep ==
    ASSUME IInv, NEW p \in Processes, Kill(p)
    PROVE  IInv'
<1>1. /\ p \in up /\ up' = up \ {p}
      /\ history' = [history EXCEPT ![p] = <<>>]
      /\ last' = [last EXCEPT ![p] = 0]
      /\ inbox' = [inbox EXCEPT ![p] = [r \in {} |-> {}]]
      /\ gone' = gone \cup UNION {inbox[p][r] : r \in DOMAIN inbox[p]}
      /\ UNCHANGED <<file, unended, faults>> \/ Persist(Garbage, "part")
      /\ start' = [start EXCEPT ![p] = 0] /\ intact' = [intact EXCEPT ![p] = TRUE]
      /\ kills' = kills + 1
      /\ UNCHANGED <<log, cursor, received, read, cut>>
  BY DEF Kill
<1>2. TypeOK /\ LogInv /\ FileInv
  BY DEF IInv
<1>3. /\ Len(log) \in Nat
      /\ history \in [Processes -> Seq(Numbers)] /\ last \in [Processes -> Nat]
      /\ start \in [Processes -> Nat] /\ intact \in [Processes -> BOOLEAN]
      /\ inbox \in [Processes -> Inboxes]
  BY <1>2, BusTypes DEF TypeOK
<1>4. /\ file' \in Seq(Numbers \cup {Garbage}) /\ unended' \in BOOLEAN /\ faults' \in Nat
      /\ FileInv'
      /\ \A m \in Sent : InFile(m)' => InFile(m)
  <2>1. Sent' = Sent
    BY <1>1 DEF Sent
  <2>2. CASE UNCHANGED <<file, unended, faults>>
    BY <2>1, <2>2, <1>2 DEF TypeOK, FileInv, InFile
  <2>3. CASE Persist(Garbage, "part")
    <3>1. "part" \in Outcomes /\ Garbage \in Numbers \cup {Garbage}
      BY DEF Outcomes
    <3>2. file' \in Seq(Numbers \cup {Garbage}) /\ unended' \in BOOLEAN /\ faults' \in Nat
      BY <1>2, <2>3, <3>1, PersistFacts
    <3>3. unended' => Len(file') > 0
      BY <1>2, <2>3, <3>1, PersistFacts
    <3>4. \A i \in 1 .. Len(file') :
              file'[i] = Garbage \/ (i \in 1 .. Len(file) /\ file'[i] = file[i])
      BY <1>2, <2>3, <3>1, PersistFacts
    <3>5. \A i, j \in 1 .. Len(file') :
              i < j /\ file'[i] # Garbage /\ file'[j] # Garbage => file'[i] < file'[j]
      BY <1>2, <2>3, <3>1, PersistFacts
    <3>7. \A m \in Sent : m \in Range(file') => m \in Range(file)
      BY <1>2, <2>3, <3>1, PersistFacts
    <3>8. FileInv'
      BY <2>1, <3>3, <3>4, <3>5, <1>2 DEF FileInv
    <3> QED BY <3>2, <3>7, <3>8 DEF InFile
  <2> QED BY <1>1, <2>2, <2>3
<1>5. TypeOK'
  <2>1. <<>> \in Seq(Numbers) /\ [r \in {} |-> {}] \in Inboxes
    BY EmptySeq, InboxesFacts
  <2>2. history' \in [Processes -> Seq(Numbers)] /\ last' \in [Processes -> Nat]
        /\ start' \in [Processes -> Nat] /\ intact' \in [Processes -> BOOLEAN]
    BY <1>1, <1>3, <2>1
  <2>3. inbox' \in [Processes -> Inboxes]
    BY <1>1, <1>3, <2>1
  <2>4. gone' \subseteq Numbers
    BY <1>1, <1>2, InboxTypes DEF TypeOK
  <2>5. kills' \in Nat /\ up' \subseteq Processes
    BY <1>1, <1>2 DEF TypeOK
  <2> QED BY <1>1, <1>2, <1>4, <2>2, <2>3, <2>4, <2>5 DEF TypeOK
<1>6. LogInv'
  BY <1>1, <1>2, <1>4, LogKept
<1>7. PassedOverHasACause' /\ ReadInv'
  BY <1>1, <1>4, PassedKept DEF IInv
<1>8. WaitsOrIsReceived'
  <2>1. ASSUME NEW o, NEW q, NEW n, q \in DOMAIN inbox[o], o \in Processes, n \in inbox[o][q]
        PROVE  n \in gone' \/ (q \in DOMAIN inbox'[o] /\ n \in inbox'[o][q])
    <3>1. CASE o = p
      BY <2>1, <3>1, <1>1
    <3>2. CASE o # p
      <4>1. inbox'[o] = inbox[o]
        BY <2>1, <3>2, <1>1, <1>3
      <4> QED BY <2>1, <4>1
    <3> QED BY <3>1, <3>2
  <2>2. \A n \in DOMAIN log : log[n].by \in Processes
    BY <1>2, BusTypes
  <2> QED BY <1>1, <2>1, <2>2 DEF IInv, WaitsOrIsReceived
<1>9. ASSUME NEW q \in Processes, q # p PROVE ProcessInv(q)'
  <2>1. /\ history'[q] = history[q] /\ last'[q] = last[q]
        /\ start'[q] = start[q] /\ intact'[q] = intact[q] /\ (q \in up' => q \in up)
    BY <1>1, <1>3, <1>9
  <2>2. /\ cut \subseteq cut'
        /\ Len(log') \in Nat /\ Len(log) <= Len(log')
        /\ \A m \in Sent : log'[m] = log[m]
        /\ \A m \in Sent' : m \in Sent
    BY <1>1, <1>3 DEF Sent
  <2>3. ProcessInv(q)
    BY DEF IInv
  <2> QED BY <2>1, <2>2, <2>3, <1>2, <1>4, ProcessKept
<1>10. ProcessInv(p)'
  <2>1. history'[p] = <<>> /\ last'[p] = 0 /\ start'[p] = 0 /\ p \notin up'
    BY <1>1, <1>3
  <2>2. Len(history'[p]) = 0
    BY <2>1, EmptySeq
  <2> QED BY <2>1, <2>2, <1>1, <1>3, BusAssumption DEF ProcessInv, HistoryInv
<1> QED BY <1>4, <1>5, <1>6, <1>7, <1>8, <1>9, <1>10 DEF IInv

(* A process accepts a message: it is the newest of all, and its offset is  *)
(* larger than those of all messages that the process knows.                *)
LEMMA SendStep ==
    ASSUME IInv, NEW p \in Processes, NEW to \in Receivers \cup {Everybody}, NEW kind \in Kinds,
           NEW supplied \in ClientOffsets \cup {None}, Send(p, to, kind, supplied)
    PROVE  IInv'
<1>1. PICK n : n = Len(log) + 1
  OBVIOUS
<1>2. PICK e : e = [to |-> to, kind |-> kind,
                    offset |-> IF supplied = None THEN last[p] + 1 ELSE supplied,
                    given |-> supplied # None,
                    by |-> p, start |-> start[p], intact |-> intact[p]]
  OBVIOUS
<1>3. PICK kept : kept = Append(history[p], n)
  OBVIOUS
<1>4. PICK hist : hist = LastPart(kept, MaxHistory)
  OBVIOUS
<1>5. PICK box : box = Delivered(inbox[p], to, n)
  OBVIOUS
<1>6. /\ p \in up /\ Len(log) < MaxSent
      /\ log' = Append(log, e)
      /\ last' = [last EXCEPT ![p] = last[p] + 1]
      /\ history' = [history EXCEPT ![p] = hist]
      /\ cut' = cut \cup (Range(kept) \ Range(hist))
      /\ \E outcome \in Outcomes : Persist(n, outcome)
      /\ inbox' = [inbox EXCEPT ![p] = box]
      /\ UNCHANGED <<up, cursor, kills, start, intact, received, gone, read>>
  BY <1>1, <1>2, <1>3, <1>4, <1>5 DEF Send, NextOffset, TypeOK, IInv
<1>7. TypeOK /\ LogInv /\ FileInv /\ ReadInv
  BY DEF IInv
<1>8. /\ Len(log) \in Nat /\ Sent \subseteq Numbers /\ MaxHistory \in Nat \ {0} /\ MaxSent \in Nat
      /\ \A m \in Sent : Offset(m) \in Int /\ m \in Nat /\ m > 0
      /\ history \in [Processes -> Seq(Numbers)] /\ last \in [Processes -> Nat]
      /\ start \in [Processes -> Nat] /\ intact \in [Processes -> BOOLEAN] /\ inbox \in [Processes -> Inboxes]
      /\ log \in Seq(Message)
  BY <1>7, BusTypes DEF TypeOK
<1>9. n \in Numbers /\ n \in Nat /\ n > 0 /\ n \notin Sent
  BY <1>1, <1>6, <1>8 DEF Numbers, Sent
<1>10. e \in Message
  BY <1>2, <1>8, BusAssumption DEF Message
<1>11. /\ log' \in Seq(Message) /\ Len(log') = n
       /\ \A m \in Sent : log'[m] = log[m]
       /\ log'[n] = e
  BY <1>1, <1>6, <1>8, <1>10, AppendFacts DEF Sent
<1>12. Sent' = Sent \cup {n} /\ \A m \in Sent : m < n
  <2>1. Len(log') = Len(log) + 1 /\ Len(log) \in Nat
    BY <1>1, <1>8, <1>11
  <2> QED BY <2>1, <1>1 DEF Sent
<1>13. /\ \A m \in Sent : Offset(m)' = Offset(m)
       /\ ~log'[n].given => Offset(n)' = last[p] + 1
       /\ log'[n].by = p /\ log'[n].start = start[p] /\ log'[n].intact = intact[p]
       /\ log'[n].to = to
  <2>1. \A m \in Sent : Offset(m)' = Offset(m)
    BY <1>11 DEF Offset
  <2>2. log'[n] = e /\ Offset(n)' = e.offset
    BY <1>11 DEF Offset
  <2>3. /\ e.given = (supplied # None)
        /\ e.offset = IF supplied = None THEN last[p] + 1 ELSE supplied
        /\ e.by = p /\ e.start = start[p] /\ e.intact = intact[p] /\ e.to = to
    BY <1>2
  <2>4. ~e.given => supplied = None
    BY <2>3
  <2> QED BY <2>1, <2>2, <2>3, <2>4
<1>14. ProcessInv(p) /\ start[p] <= Len(log)
  BY DEF IInv, ProcessInv
<1>15. /\ file' \in Seq(Numbers \cup {Garbage}) /\ unended' \in BOOLEAN /\ faults' \in Nat
       /\ FileInv'
       /\ \A m \in Sent : InFile(m)' => InFile(m)
  <2>1. PICK outcome \in Outcomes : Persist(n, outcome)
    BY <1>6
  <2>2. n \in Numbers \cup {Garbage} /\ n = Len(log) + 1
    BY <1>1, <1>9
  <2>3. file' \in Seq(Numbers \cup {Garbage}) /\ unended' \in BOOLEAN /\ faults' \in Nat
    BY <1>7, <2>1, <2>2, PersistFacts
  <2>4. unended' => Len(file') > 0
    BY <1>7, <2>1, <2>2, PersistFacts
  <2>5. \A i \in 1 .. Len(file') :
            file'[i] \in {Garbage, n} \/ (i \in 1 .. Len(file) /\ file'[i] = file[i])
    BY <1>7, <2>1, <2>2, PersistFacts
  <2>6. \A i, j \in 1 .. Len(file') :
            i < j /\ file'[i] # Garbage /\ file'[j] # Garbage => file'[i] < file'[j]
    BY <1>7, <2>1, <2>2, PersistFacts
  <2>8. \A m \in Sent : m \in Range(file') => m \in Range(file)
    BY <1>7, <2>1, <2>2, PersistFacts
  <2>9. \A i \in 1 .. Len(file') : file'[i] = Garbage \/ file'[i] \in Sent'
    BY <2>5, <1>7, <1>12 DEF FileInv
  <2>10. FileInv'
    BY <2>4, <2>6, <2>9 DEF FileInv
  <2> QED BY <2>3, <2>8, <2>10 DEF InFile
<1>16. /\ kept \in Seq(Sent') /\ Len(kept) = Len(history[p]) + 1
       /\ \A i \in 1 .. Len(history[p]) : kept[i] = history[p][i]
       /\ kept[Len(kept)] = n
       /\ Range(kept) = Range(history[p]) \cup {n}
  <2>1. history[p] \in Seq(Numbers) /\ Len(history[p]) \in Nat
    BY <1>7, BusTypes
  <2>2. \A i \in 1 .. Len(history[p]) : history[p][i] \in Sent'
    BY <1>12, <1>14 DEF ProcessInv, HistoryInv
  <2>3. history[p] \in Seq(Sent')
    <3>1. SubSeq(history[p], 1, Len(history[p])) = history[p]
      BY <2>1, SubSeqFull
    <3> QED BY <3>1, <2>1, <2>2, SubSeqProperties
  <2>4. n \in Sent'
    BY <1>12
  <2>5. /\ kept \in Seq(Sent') /\ Len(kept) = Len(history[p]) + 1
        /\ \A i \in 1 .. Len(history[p]) : kept[i] = history[p][i]
        /\ kept[Len(history[p]) + 1] = n
    BY <2>3, <2>4, <1>3, AppendFacts
  <2>6. \A x : x \in Range(history[p]) <=> \E i \in 1 .. Len(history[p]) : history[p][i] = x
    BY <2>1, SeqRange
  <2>7. \A x : x \in Range(kept) <=> \E i \in 1 .. Len(kept) : kept[i] = x
    BY <2>5, SeqRange
  <2>8. \A i : i \in 1 .. Len(kept) <=> i \in 1 .. Len(history[p]) \/ i = Len(history[p]) + 1
    BY <2>1, <2>5
  <2>9. \A x : x \in Range(kept) <=> x \in Range(history[p]) \/ x = n
    BY <2>5, <2>6, <2>7, <2>8
  <2> QED BY <2>5, <2>9
<1>17. \A i, j \in 1 .. Len(kept) : i < j => kept[i] < kept[j]
  <2>1. Len(history[p]) \in Nat
    BY <1>7, BusTypes
  <2> SUFFICES ASSUME NEW i \in 1 .. Len(kept), NEW j \in 1 .. Len(kept), i < j
               PROVE  kept[i] < kept[j]
    OBVIOUS
  <2>2. i \in 1 .. Len(history[p]) /\ (j \in 1 .. Len(history[p]) \/ j = Len(kept))
    BY <2>1, <1>16
  <2>3. HistoryInv(p)
    BY <1>14 DEF ProcessInv
  <2>4. CASE j \in 1 .. Len(history[p])
    BY <2>2, <2>3, <2>4, <1>16 DEF HistoryInv
  <2>5. CASE j = Len(kept)
    <3>1. kept[i] \in Sent
      BY <2>2, <2>3, <1>16 DEF HistoryInv
    <3> QED BY <3>1, <2>5, <1>12, <1>16
  <2> QED BY <2>2, <2>4, <2>5
<1>18. /\ hist \in Seq(Sent') /\ Len(hist) \in Nat /\ Len(hist) <= MaxHistory
       /\ \A i, j \in 1 .. Len(hist) : i < j => hist[i] < hist[j]
       /\ Range(hist) \subseteq Range(kept) /\ n \in Range(hist)
       /\ \A x \in Range(kept) \ Range(hist) :
              Len(hist) = MaxHistory /\ \A k \in Range(hist) : k > x
       /\ Len(kept) > MaxHistory => Len(hist) = MaxHistory
  <2>1. /\ Sent' \in SUBSET Nat /\ kept \in Seq(Sent') /\ MaxHistory \in Nat \ {0}
        /\ \A i, j \in 1 .. Len(kept) : i < j => kept[i] < kept[j]
    BY <1>8, <1>9, <1>12, <1>16, <1>17
  <2>2. Len(kept) > 0
    <3>1. Len(history[p]) \in Nat
      BY <1>7, BusTypes
    <3> QED BY <3>1, <1>16
  <2>3. hist \in Seq(Sent') /\ Len(hist) \in Nat /\ Len(hist) <= MaxHistory
    BY <2>1, <1>4, LastPartFacts
  <2>4. \A i, j \in 1 .. Len(hist) : i < j => hist[i] < hist[j]
    BY <2>1, <1>4, NewestKept
  <2>5. Range(hist) \subseteq Range(kept)
    BY <2>1, <1>4, NewestKept
  <2>6. n \in Range(hist)
    BY <2>1, <2>2, <1>4, <1>16, NewestKept
  <2>7. \A x \in Range(kept) \ Range(hist) :
            Len(hist) = MaxHistory /\ \A k \in Range(hist) : k > x
    BY <2>1, <1>4, NewestKept
  <2>8. Len(kept) > MaxHistory => Len(hist) = MaxHistory
    BY <2>1, <1>4, NewestKept
  <2> QED BY <2>3, <2>4, <2>5, <2>6, <2>7, <2>8
<1>19. \A i \in 1 .. Len(hist) : hist[i] \in Range(hist) /\ hist[i] \in Sent'
  BY <1>18, SeqRange
<1>20. TypeOK'
  <2>1. /\ DOMAIN inbox[p] \subseteq Receivers
        /\ \A r : Waiting(inbox[p], r) \subseteq Numbers
        /\ \A r \in DOMAIN inbox[p] : inbox[p][r] \subseteq Numbers
    BY <1>7, InboxTypes
  <2>2. box \in Inboxes
    <3>1. CASE to = Everybody
      <4>1. box = [r \in DOMAIN inbox[p] |-> inbox[p][r] \cup {n}]
        BY <3>1, <1>5 DEF Delivered
      <4> QED BY <4>1, <2>1, <1>9, InboxesFacts
    <3>2. CASE to # Everybody
      <4>1. box = [r \in DOMAIN inbox[p] \cup {to} |->
                      IF r = to THEN Waiting(inbox[p], to) \cup {n} ELSE inbox[p][r]]
        BY <3>2, <1>5 DEF Delivered
      <4>2. to \in Receivers
        BY <3>2
      <4> QED BY <4>1, <4>2, <2>1, <1>9, InboxesFacts
    <3> QED BY <3>1, <3>2
  <2>3. inbox' \in [Processes -> Inboxes]
    BY <2>2, <1>6, <1>8
  <2>4. hist \in Seq(Numbers)
    <3>1. SubSeq(hist, 1, Len(hist)) = hist
      BY <1>18, SubSeqFull
    <3>2. \A i \in 1 .. Len(hist) : hist[i] \in Numbers
      BY <1>8, <1>9, <1>12, <1>19
    <3> QED BY <3>1, <3>2, <1>18, SubSeqProperties
  <2>5. history' \in [Processes -> Seq(Numbers)] /\ last' \in [Processes -> Nat]
    BY <2>4, <1>6, <1>8
  <2>6. Range(kept) \subseteq Numbers
    <3>1. Range(history[p]) \subseteq Sent
      BY <1>7, <1>14, HistoryRange DEF ProcessInv
    <3> QED BY <3>1, <1>8, <1>9, <1>16
  <2>7. cut' \subseteq Numbers
    BY <2>6, <1>6, <1>7 DEF TypeOK
  <2> QED BY <1>6, <1>7, <1>11, <1>15, <2>3, <2>5, <2>7 DEF TypeOK
<1>21. \A m \in Sent : Knows(p, m) => log[m].given \/ Offset(m) <= last[p]
  BY <1>6, <1>14 DEF ProcessInv
<1>22. LogInv'
  <2>1. Len(log') <= MaxSent
    BY <1>1, <1>6, <1>8, <1>11
  <2>2. ASSUME NEW m \in Sent' PROVE log'[m].start < m
    <3>1. CASE m \in Sent
      BY <3>1, <1>7, <1>11 DEF LogInv
    <3>2. CASE m = n
      BY <3>2, <1>1, <1>8, <1>13, <1>14
    <3> QED BY <3>1, <3>2, <1>12
  <2>3. ASSUME NEW m \in Sent', NEW k \in Sent', m < k, KnewOf(k, m)',
               ~log'[m].given, ~log'[k].given
        PROVE  Offset(m)' < Offset(k)'
    <3>1. m \in Sent
      BY <2>3, <1>8, <1>9, <1>12
    <3>2. CASE k \in Sent
      <4>1. KnewOf(k, m)
        BY <2>3, <3>1, <3>2, <1>11, <1>15 DEF KnewOf, Accepted
      <4> QED BY <4>1, <2>3, <3>1, <3>2, <1>7, <1>11, <1>13 DEF LogInv
    <3>3. CASE k = n
      <4>1. Knows(p, m)
        BY <2>3, <3>1, <3>3, <1>11, <1>13, <1>15 DEF KnewOf, Knows, Accepted
      <4>2. Offset(m) <= last[p] /\ Offset(m) \in Int /\ last[p] \in Nat
        BY <2>3, <4>1, <3>1, <1>8, <1>11, <1>21
      <4> QED BY <2>3, <4>2, <3>1, <3>3, <1>13
    <3> QED BY <3>2, <3>3, <1>12
  <2> QED BY <2>1, <2>2, <2>3 DEF LogInv
<1>23. ASSUME NEW q \in Processes, q # p PROVE ProcessInv(q)'
  <2>1. /\ history'[q] = history[q] /\ last'[q] = last[q]
        /\ start'[q] = start[q] /\ intact'[q] = intact[q] /\ (q \in up' => q \in up)
    BY <1>6, <1>8, <1>23
  <2>2. cut \subseteq cut' /\ Len(log') \in Nat /\ Len(log) <= Len(log')
    BY <1>1, <1>6, <1>8, <1>11
  <2>3. \A m \in Sent' : m \in Sent \/ (m > Len(log) /\ log'[m].by # q)
    BY <1>1, <1>8, <1>12, <1>13, <1>23
  <2>4. ProcessInv(q)
    BY DEF IInv
  <2> QED BY <2>1, <2>2, <2>3, <2>4, <1>7, <1>11, <1>15, ProcessKept
<1>24. ProcessInv(p)'
  <2>1. /\ history'[p] = hist /\ last'[p] = last[p] + 1
        /\ start'[p] = start[p] /\ intact'[p] = intact[p]
        /\ start[p] \in Nat /\ last[p] \in Nat
    BY <1>6, <1>8
  <2>2. start'[p] <= Len(log')
    BY <2>1, <1>1, <1>8, <1>11, <1>14
  <2>3. HistoryInv(p)'
    <3>1. \A k \in Range(history[p]) :
              k \in Sent /\ ((k <= start[p] /\ intact[p]) \/ Accepted(p, start[p], k))
      BY <1>7, <1>14, HistoryRange DEF ProcessInv
    <3>2. n > start[p]
      BY <2>1, <1>1, <1>8, <1>14
    <3>3. \A k \in Range(hist) : (k <= start[p] /\ intact[p]) \/ (log'[k].by = p /\ k > start[p])
      BY <3>1, <3>2, <1>11, <1>13, <1>16, <1>18 DEF Accepted
    <3> QED BY <2>1, <3>3, <1>18, <1>19 DEF HistoryInv, Accepted
  <2>5. ASSUME NEW m \in Sent', Accepted(p, start[p], m)'
        PROVE  log'[m].start = start'[p] /\ log'[m].intact = intact'[p]
    <3>1. CASE m \in Sent
      <4>1. Accepted(p, start[p], m)
        BY <2>1, <2>5, <3>1, <1>11 DEF Accepted
      <4> QED BY <2>1, <3>1, <4>1, <1>6, <1>11, <1>14 DEF ProcessInv
    <3>2. CASE m = n
      BY <3>2, <2>1, <1>13
    <3> QED BY <3>1, <3>2, <1>12
  <2>6. ASSUME NEW m \in Sent', Knows(p, m)'
        PROVE  /\ log'[m].given \/ Offset(m)' <= last'[p]
               /\ \/ m \in Range(history'[p])
                  \/ /\ m \in cut'
                     /\ Len(history'[p]) = MaxHistory
                     /\ \A k \in Range(history'[p]) : k > m
    <3>1. CASE m = n
      BY <3>1, <2>1, <1>13, <1>18
    <3>2. CASE m \in Sent
      <4>1. Knows(p, m)
        BY <2>1, <2>6, <3>2, <1>11, <1>15 DEF Knows, Accepted
      <4>2. log'[m].given \/ Offset(m)' <= last'[p]
        <5>1. (log[m].given \/ Offset(m) <= last[p]) /\ Offset(m) \in Int
          BY <3>2, <4>1, <1>8, <1>21
        <5> QED BY <5>1, <2>1, <3>2, <1>11, <1>13
      <4>3. CASE m \in Range(history[p])
        <5>1. m \in Range(kept)
          BY <4>3, <1>16
        <5>2. CASE m \notin Range(hist)
          <6>1. m \in cut'
            BY <5>1, <5>2, <1>6
          <6> QED BY <2>1, <4>2, <5>1, <5>2, <6>1, <1>18
        <5> QED BY <2>1, <4>2, <5>2
      <4>4. CASE m \in cut /\ Len(history[p]) = MaxHistory /\ \A k \in Range(history[p]) : k > m
        <5>1. Len(hist) = MaxHistory
          BY <4>4, <1>8, <1>16, <1>18
        <5>2. n > m
          BY <3>2, <1>8, <1>9, <1>12
        <5>3. \A k \in Range(hist) : k > m
          BY <4>4, <5>2, <1>16, <1>18
        <5> QED BY <2>1, <4>2, <4>4, <5>1, <5>3, <1>6
      <4>5. \/ m \in Range(history[p])
            \/ m \in cut /\ Len(history[p]) = MaxHistory /\ \A k \in Range(history[p]) : k > m
        BY <3>2, <4>1, <1>6, <1>14 DEF ProcessInv
      <4> QED BY <4>3, <4>4, <4>5
    <3> QED BY <3>1, <3>2, <1>12
  <2> QED BY <2>2, <2>3, <2>5, <2>6 DEF ProcessInv
<1>25. ReadInv'
  BY <1>6, <1>7, <1>12, <1>13 DEF ReadInv
<1>26. PassedOverHasACause'
  <2> SUFFICES ASSUME NEW m \in Sent', Offset(m)' <= cursor, m \notin read, m \notin cut',
                      InFile(m)', ~log'[m].given
               PROVE  \E k \in read :
                          /\ Offset(k)' >= Offset(m)'
                          /\ log'[k].given \/ Unaware(k, m)' \/ ~InFile(k)'
    <3>1. DOMAIN log' = Sent'
      BY <1>11, SeqRange DEF Sent
    <3> QED BY <3>1, <1>6 DEF PassedOverHasACause
  <2>1. read \subseteq Sent /\ cursor \in Nat /\ DOMAIN log = Sent
    BY <1>7, BusTypes DEF ReadInv, TypeOK
  <2>2. CASE m \in Sent
    <3>1. m \notin cut /\ InFile(m) /\ Offset(m) <= cursor /\ ~log[m].given
      BY <2>2, <1>6, <1>11, <1>13, <1>15
    <3>2. PICK k \in read : /\ Offset(k) >= Offset(m)
                            /\ log[k].given \/ Unaware(k, m) \/ ~InFile(k)
      BY <2>1, <2>2, <3>1 DEF IInv, PassedOverHasACause
    <3>3. k \in Sent /\ k \in Nat /\ m \in Nat /\ log'[k] = log[k] /\ log'[m] = log[m]
      BY <2>1, <2>2, <3>2, <1>8, <1>11
    <3>4. Unaware(k, m)' <=> Unaware(k, m)
      BY <3>3, UnawareKept
    <3> QED BY <2>2, <3>2, <3>3, <3>4, <1>13, <1>15
  <2>3. CASE m = n
    <3>1. last[p] + 1 <= cursor /\ last[p] \in Nat
      BY <2>3, <1>8, <1>13
    <3>2. PICK k \in read : Offset(k) = cursor
      BY <2>1, <3>1, <1>7 DEF ReadInv
    <3>3. k \in Sent /\ k \in Nat /\ k < n /\ Offset(k)' >= Offset(m)'
      BY <2>1, <2>3, <3>1, <3>2, <1>8, <1>12, <1>13
    <3>4. log[k].given \/ ~Knows(p, k)
      BY <2>1, <3>1, <3>2, <3>3, <1>21
    <3>5. ASSUME InFile(k)', ~log'[k].given PROVE Unaware(k, m)'
      <4>1. InFile(k) /\ start[p] \in Nat /\ ~Knows(p, k)
        BY <3>3, <3>4, <3>5, <1>8, <1>11, <1>15
      <4>2. (k > start[p] /\ log[k].by # p) \/ (k <= start[p] /\ ~intact[p])
        BY <3>3, <4>1 DEF Knows, Accepted
      <4>3. /\ log'[n].by = p /\ log'[n].start = start[p] /\ log'[n].intact = intact[p]
            /\ log'[k].by = log[k].by
        BY <3>3, <1>11, <1>13
      <4>4. Min({k, n}) = k /\ Max({k, n}) = n
        BY <3>3, <1>9, PairFacts
      <4> QED BY <4>1, <4>2, <4>3, <4>4, <3>3, <2>3 DEF Unaware
    <3> QED BY <3>3, <3>5
  <2> QED BY <2>2, <2>3, <1>12
<1>27. WaitsOrIsReceived'
  <2> SUFFICES ASSUME NEW m \in Sent', log'[m].to # Everybody,
                      NEW r, r = log'[m].to, NEW o, o = log'[m].by
               PROVE  \/ m \in received[r]
                      \/ m \in gone
                      \/ r \in DOMAIN inbox'[o] /\ m \in inbox'[o][r]
    <3>1. DOMAIN log' = Sent'
      BY <1>11, SeqRange DEF Sent
    <3> QED BY <3>1, <1>6 DEF WaitsOrIsReceived
  <2>1. inbox'[p] = box
    BY <1>6, <1>8
  <2>2. CASE m = n
    <3>1. r = to /\ o = p /\ to # Everybody
      BY <2>2, <1>13
    <3> QED BY <2>1, <2>2, <3>1, <1>5 DEF Delivered
  <2>3. CASE m \in Sent
    <3>1. log'[m] = log[m] /\ o \in Processes /\ m \in DOMAIN log
      BY <2>3, <1>7, <1>11, BusTypes
    <3>2. \/ m \in received[r]
          \/ m \in gone
          \/ r \in DOMAIN inbox[o] /\ m \in inbox[o][r]
      BY <3>1 DEF IInv, WaitsOrIsReceived
    <3>3. ASSUME r \in DOMAIN inbox[p], m \in inbox[p][r]
          PROVE  r \in DOMAIN box /\ m \in box[r]
      BY <3>3, <1>5 DEF Delivered, Waiting
    <3>4. o # p => inbox'[o] = inbox[o]
      BY <3>1, <1>6, <1>8
    <3> QED BY <2>1, <3>2, <3>3, <3>4
  <2> QED BY <2>2, <2>3, <1>12
<1> QED BY <1>15, <1>20, <1>22, <1>23, <1>24, <1>25, <1>26, <1>27 DEF IInv

LEMMA BusStutter == IInv /\ UNCHANGED vars => IInv'
<1> SUFFICES ASSUME IInv, UNCHANGED vars PROVE IInv'
  OBVIOUS
<1>1. UNCHANGED <<log, file, unended, up, history, last, inbox, cursor, faults, kills, start,
                  intact, received, gone, read, cut>>
  BY DEF vars, bus
<1>2. TypeOK'
  BY <1>1 DEF IInv, TypeOK
<1>3. WaitsOrIsReceived'
  BY <1>1 DEF IInv, WaitsOrIsReceived
<1> QED BY <1>1, <1>2, <1>3, InboxStep

LEMMA BusStep == IInv /\ [Next]_vars => IInv'
<1> SUFFICES ASSUME IInv, [Next]_vars PROVE IInv'
  OBVIOUS
<1>1. ASSUME NEW p \in Processes, Load(p) PROVE IInv'
  BY <1>1, LoadStep
<1>2. ASSUME NEW p \in Processes, NEW to \in Receivers \cup {Everybody}, NEW kind \in Kinds,
             NEW supplied \in ClientOffsets \cup {None}, Send(p, to, kind, supplied)
      PROVE  IInv'
  BY <1>2, SendStep
<1>3. ASSUME NEW p \in Processes, NEW r \in Receivers, NEW kind \in Kinds \cup {None},
             Receive(p, r, kind)
      PROVE  IInv'
  BY <1>3, ReceiveStep
<1>4. ASSUME NEW p \in Processes, NEW r \in Receivers, Register(p, r) PROVE IInv'
  BY <1>4, RegisterStep
<1>5. ASSUME NEW p \in Processes, NEW r \in Receivers, Unregister(p, r) PROVE IInv'
  BY <1>5, UnregisterStep
<1>6. ASSUME NEW p \in Processes, Replay(p) PROVE IInv'
  BY <1>6, ReplayStep
<1>7. ASSUME NEW p \in Processes, Kill(p) PROVE IInv'
  BY <1>7, KillStep
<1>8. CASE UNCHANGED vars
  BY <1>8, BusStutter
<1> QED BY <1>1, <1>2, <1>3, <1>4, <1>5, <1>6, <1>7, <1>8 DEF Next

(* The inductive invariant of the bus: offsets grow along what a process    *)
(* knew (_next_offset), the file is in order (_append_persistence), and     *)
(* each process has what it knows (send, _load_persisted_history).          *)
THEOREM Invariance == Spec => []IInv
<1>1. Init => IInv
  BY BusInit
<1>2. IInv /\ [Next]_vars => IInv'
  BY BusStep
<1> QED BY <1>1, <1>2, PTL DEF Spec

(* The variables of the bus have their types (InMemoryMessageBus).          *)
THEOREM TypeCorrect == Spec => []TypeOK
<1>1. IInv => TypeOK
  BY DEF IInv
<1> QED BY <1>1, Invariance, PTL

(* Two messages that the bus numbered share an offset only if the later     *)
(* one's process was unaware of the earlier one, as of another process's or *)
(* of a file that it could not read, or the file does not hold the earlier  *)
(* one (_next_offset, setdefault in send).                                  *)
THEOREM SameOffsetProof == Spec => []SameOffsetHasACause
<1>1. IInv => SameOffsetHasACause
  <2> SUFFICES ASSUME IInv, NEW m \in Sent, NEW n \in Sent, m < n, Offset(m) = Offset(n),
                      ~log[m].given, ~log[n].given, InFile(m)
               PROVE  Unaware(m, n)
    BY BusTypes DEF IInv, SameOffsetHasACause
  <2>1. m \in Nat /\ n \in Nat /\ Offset(m) \in Int /\ log[n].start \in Nat
    BY BusTypes DEF IInv
  <2>2. ~KnewOf(n, m)
    BY <2>1 DEF IInv, LogInv
  <2>3. \/ log[n].start < m /\ log[n].by # log[m].by
        \/ ~log[n].intact /\ m <= log[n].start
    BY <2>1, <2>2 DEF KnewOf, Accepted
  <2> QED BY <2>1, <2>3, UnawareFacts
<1> QED BY <1>1, Invariance, PTL

(* A process that runs has every message that it accepted and every one of  *)
(* a file that it could read, but for the oldest of a full history (send,   *)
(* _load_persisted_history).                                                *)
THEOREM HistoryProof == Spec => []HistoryIsComplete
<1>1. IInv => HistoryIsComplete
  <2> SUFFICES ASSUME IInv, NEW p \in up, NEW n \in Sent,
                      \/ log[n].by = p /\ n > start[p]
                      \/ n <= start[p] /\ intact[p] /\ InFile(n)
               PROVE  \/ n \in Range(history[p])
                      \/ /\ Len(history[p]) = MaxHistory
                         /\ \A k \in Range(history[p]) : k > n
    BY BusTypes DEF IInv, HistoryIsComplete
  <2>1. Knows(p, n) /\ p \in Processes
    BY DEF Knows, Accepted, IInv, TypeOK
  <2> QED BY <2>1 DEF IInv, ProcessInv
<1> QED BY <1>1, Invariance, PTL

(* A client that follows next_offset passes a message over only if a page   *)
(* or a history had no room for it, or its offset or one that the client    *)
(* read was supplied, or their processes were unaware, or the file does not *)
(* hold one of them (replay, query).                                        *)
THEOREM PassedOverProof == Spec => []PassedOverHasACause
<1>1. IInv => PassedOverHasACause
  BY DEF IInv
<1> QED BY <1>1, Invariance, PTL

(* A message to one receiver waits where it was accepted until it is        *)
(* received or dropped with its inbox (send, receive, unregister).          *)
THEOREM WaitsProof == Spec => []WaitsOrIsReceived
<1>1. IInv => WaitsOrIsReceived
  BY DEF IInv
<1> QED BY <1>1, Invariance, PTL

-----------------------------------------------------------------------------
(* MessageBus implements Mailbox *)

(* What waits at a process was accepted by it in this run.                  *)
InboxInv ==
    \A p \in Processes, r \in Receivers : \A n \in Waiting(inbox[p], r) :
        p \in up /\ n \in Sent /\ Accepted(p, start[p], n)

BoxInv == IInv /\ InboxInv

LEMMA WaitsForFacts ==
    ASSUME NEW r
    PROVE  \A n : n \in WaitsFor(r) <=> \E p \in Processes : n \in Waiting(inbox[p], r)
BY DEF WaitsFor

(* What waits for a receiver after a step of one process on its inbox.      *)
LEMMA WaitsForStep ==
    ASSUME InboxInv, NEW p \in Processes, NEW r \in Receivers,
           \A o \in Processes \ {p} : inbox'[o] = inbox[o]
    PROVE  \A n : n \in WaitsFor(r)' <=>
               \/ n \in Waiting(inbox'[p], r)
               \/ n \in WaitsFor(r) /\ n \notin Waiting(inbox[p], r)
<1>1. \A n : n \in WaitsFor(r)' <=> \E o \in Processes : n \in Waiting(inbox'[o], r)
  BY DEF WaitsFor
<1>2. \A o \in Processes \ {p} : Waiting(inbox'[o], r) = Waiting(inbox[o], r)
  OBVIOUS
<1>3. \A o \in Processes : \A n \in Waiting(inbox[o], r) : log[n].by = o
  BY DEF InboxInv, Accepted
<1> QED BY <1>1, <1>2, <1>3, WaitsForFacts

(* In one inbox the offsets that the bus gave are in the order of the       *)
(* messages (receive sorts by them).                                        *)
LEMMA InboxOrder ==
    ASSUME BoxInv, NEW p \in Processes, NEW r \in Receivers,
           NEW m \in Waiting(inbox[p], r), NEW n \in Waiting(inbox[p], r), m < n,
           ~log[m].given, ~log[n].given
    PROVE  Offset(m) < Offset(n)
<1>1. /\ p \in up /\ m \in Sent /\ n \in Sent
      /\ Accepted(p, start[p], m) /\ Accepted(p, start[p], n)
  BY DEF BoxInv, InboxInv
<1>2. log[n].start = start[p]
  BY <1>1 DEF BoxInv, IInv, ProcessInv
<1>3. KnewOf(n, m)
  BY <1>1, <1>2 DEF KnewOf, Accepted
<1> QED BY <1>1, <1>3 DEF BoxInv, IInv, LogInv

(* A step that leaves what waits as it is.                                  *)
LEMMA QuietMail ==
    ASSUME BoxInv, NEW p \in Processes,
           UNCHANGED <<log, received, gone>>,
           \A o \in Processes, r \in Receivers :
               Waiting(inbox'[o], r) = Waiting(inbox[o], r),
           \A o \in Processes \ {p} : start'[o] = start[o] /\ (o \in up => o \in up'),
           p \in up => start'[p] = start[p] /\ p \in up'
    PROVE  InboxInv' /\ UNCHANGED Mailboxes!vars
<1>1. InboxInv'
  <2> SUFFICES ASSUME NEW o \in Processes, NEW r \in Receivers, NEW n \in Waiting(inbox'[o], r)
               PROVE  o \in up' /\ n \in Sent /\ Accepted(o, start'[o], n)
    BY DEF InboxInv, Sent, Accepted
  <2>1. o \in up /\ n \in Sent /\ Accepted(o, start[o], n)
    BY DEF BoxInv, InboxInv
  <2>2. start'[o] = start[o] /\ o \in up'
    BY <2>1
  <2> QED BY <2>1, <2>2
<1>2. \A r \in Receivers : WaitsFor(r)' = WaitsFor(r)
  BY DEF WaitsFor
<1>3. [r \in Receivers |-> WaitsFor(r)]' = [r \in Receivers |-> WaitsFor(r)]
  BY <1>2
<1>4. UNCHANGED Mailboxes!vars
  BY <1>3 DEF Mailboxes!vars
<1> QED BY <1>1, <1>4

LEMMA SendMail ==
    ASSUME BoxInv, IInv', NEW p \in Processes, NEW to \in Receivers \cup {Everybody},
           NEW kind \in Kinds, NEW supplied \in ClientOffsets \cup {None},
           Send(p, to, kind, supplied)
    PROVE  InboxInv' /\ Mailboxes!Next
<1>1. PICK n : n = Len(log) + 1
  OBVIOUS
<1>2. PICK e : e = [to |-> to, kind |-> kind,
                    offset |-> IF supplied = None THEN last[p] + 1 ELSE supplied,
                    given |-> supplied # None,
                    by |-> p, start |-> start[p], intact |-> intact[p]]
  OBVIOUS
<1>3. PICK box : box = Delivered(inbox[p], to, n)
  OBVIOUS
<1>4. /\ p \in up /\ log' = Append(log, e)
      /\ inbox' = [inbox EXCEPT ![p] = box]
      /\ UNCHANGED <<up, start, received, gone>>
  BY <1>1, <1>2, <1>3 DEF Send, NextOffset, BoxInv, IInv, TypeOK
<1>5. /\ TypeOK /\ LogInv /\ log \in Seq(Message) /\ Len(log) \in Nat
      /\ inbox \in [Processes -> Inboxes] /\ start[p] \in Nat /\ start[p] <= Len(log)
      /\ last[p] \in Nat /\ intact[p] \in BOOLEAN
  BY BusTypes DEF BoxInv, IInv, TypeOK, ProcessInv
<1>6. e \in Message
  BY <1>2, <1>5, BusAssumption DEF Message
<1>7. /\ Len(log') = n /\ log'[n] = e
      /\ \A k \in 1 .. Len(log) : log'[k] = log[k]
  BY <1>1, <1>4, <1>5, <1>6, AppendFacts
<1>8. inbox'[p] = box /\ \A o \in Processes \ {p} : inbox'[o] = inbox[o]
  BY <1>4, <1>5
<1>9. PICK addressees : addressees = IF to = Everybody THEN DOMAIN inbox[p] ELSE {to}
  OBVIOUS
<1>10. addressees \in SUBSET Receivers
  BY <1>9, <1>5, InboxTypes
<1>11. ASSUME NEW r \in Receivers
       PROVE  Waiting(box, r) = IF r \in addressees THEN Waiting(inbox[p], r) \cup {n}
                                                    ELSE Waiting(inbox[p], r)
  <2>1. CASE to = Everybody
    BY <2>1, <1>3, <1>9 DEF Delivered, Waiting
  <2>2. CASE to # Everybody /\ r = to
    BY <2>2, <1>3, <1>9 DEF Delivered, Waiting
  <2>3. CASE to # Everybody /\ r # to
    BY <2>3, <1>3, <1>9 DEF Delivered, Waiting
  <2> QED BY <2>1, <2>2, <2>3
<1>12. n \in Sent' /\ Sent \subseteq Sent' /\ Accepted(p, start[p], n)'
  BY <1>1, <1>2, <1>4, <1>5, <1>7 DEF Sent, Accepted
<1>13. InboxInv'
  <2> SUFFICES ASSUME NEW o \in Processes, NEW r \in Receivers, NEW m \in Waiting(inbox'[o], r)
               PROVE  o \in up /\ m \in Sent' /\ Accepted(o, start[o], m)'
    BY <1>4 DEF InboxInv, Accepted
  <2>1. CASE m \in Waiting(inbox[o], r)
    <3>1. o \in up /\ m \in Sent /\ Accepted(o, start[o], m)
      BY <2>1 DEF BoxInv, InboxInv
    <3>2. log'[m] = log[m]
      BY <3>1, <1>7 DEF Sent
    <3> QED BY <3>1, <3>2, <1>4, <1>12 DEF Accepted
  <2>2. CASE m \notin Waiting(inbox[o], r)
    <3>1. o = p
      BY <2>2, <1>8
    <3>2. m = n
      BY <2>2, <3>1, <1>8, <1>11
    <3> QED BY <3>1, <3>2, <1>4, <1>12
  <2> QED BY <2>1, <2>2
<1>14. ASSUME NEW r \in Receivers
       PROVE  WaitsFor(r)' = IF r \in addressees THEN WaitsFor(r) \cup {n} ELSE WaitsFor(r)
  <2>1. \A m : m \in WaitsFor(r)' <=>
            \/ m \in Waiting(box, r)
            \/ m \in WaitsFor(r) /\ m \notin Waiting(inbox[p], r)
    BY <1>8, WaitsForStep DEF BoxInv
  <2>2. \A m \in Waiting(inbox[p], r) : m \in WaitsFor(r)
    BY WaitsForFacts
  <2>3. \A m : m \in WaitsFor(r)' <=> m \in WaitsFor(r) \/ (r \in addressees /\ m = n)
    BY <2>1, <2>2, <1>11
  <2> QED BY <2>3
<1>15. [r \in Receivers |-> WaitsFor(r)]' =
           [r \in Receivers |-> IF r \in addressees THEN WaitsFor(r) \cup {n} ELSE WaitsFor(r)]
  BY <1>14
<1>16. e.to # Everybody => addressees = {e.to}
  BY <1>2, <1>9
<1>17. Mailboxes!Post(addressees)
  BY <1>1, <1>4, <1>6, <1>7, <1>15, <1>16 DEF Mailboxes!Post
<1> QED BY <1>10, <1>13, <1>17 DEF Mailboxes!Next

(* receive takes the first ones of a kind.                                  *)
LEMMA OldestFirst ==
    ASSUME BoxInv, NEW p \in Processes, NEW r \in Receivers, NEW kind \in Kinds \cup {None},
           NEW here, here = Waiting(inbox[p], r),
           NEW result \in Firsts({n \in here : kind = None \/ log[n].kind = kind}, PageSize),
           NEW k \in result, NEW n \in here, n < k, log[n].kind = log[k].kind,
           ~log[n].given, ~log[k].given
    PROVE  n \in result
<1>1. PICK C : C = {j \in here : kind = None \/ log[j].kind = kind}
  OBVIOUS
<1>2. k \in C /\ n \in C /\ k \in here
  BY <1>1 DEF Firsts, Parts
<1>3. Offset(n) < Offset(k)
  BY <1>2, InboxOrder
<1>4. Offset(n) \in Int /\ Offset(k) \in Int
  BY <1>2, BusTypes DEF BoxInv, IInv, InboxInv
<1>5. n \notin result => Offset(k) <= Offset(n)
  BY <1>1, <1>2 DEF Firsts
<1> QED BY <1>3, <1>4, <1>5

LEMMA ReceiveMail ==
    ASSUME BoxInv, IInv', NEW p \in Processes, NEW r \in Receivers,
           NEW kind \in Kinds \cup {None}, Receive(p, r, kind)
    PROVE  InboxInv' /\ Mailboxes!Next
<1>1. PICK here : here = Waiting(inbox[p], r)
  OBVIOUS
<1>2. PICK result \in Firsts({n \in here : kind = None \/ log[n].kind = kind}, PageSize) :
          /\ inbox' = [inbox EXCEPT ![p] =
                 [q \in DOMAIN inbox[p] \cup {r} |->
                     IF q = r THEN here \ result ELSE inbox[p][q]]]
          /\ received' = [received EXCEPT ![r] = @ \cup result]
  BY <1>1 DEF Receive
<1>3. result \subseteq here
  BY <1>2 DEF Firsts, Parts
<1>4. PICK box : box = [q \in DOMAIN inbox[p] \cup {r} |->
                           IF q = r THEN here \ result ELSE inbox[p][q]]
  OBVIOUS
<1>5. /\ inbox' = [inbox EXCEPT ![p] = box]
      /\ received' = [received EXCEPT ![r] = @ \cup result]
      /\ UNCHANGED <<log, up, start, gone>>
  BY <1>2, <1>4 DEF Receive
<1>6. inbox \in [Processes -> Inboxes]
  BY DEF BoxInv, IInv, TypeOK
<1>7. inbox'[p] = box /\ \A o \in Processes \ {p} : inbox'[o] = inbox[o]
  BY <1>5, <1>6
<1>8. ASSUME NEW q \in Receivers
      PROVE  Waiting(box, q) = IF q = r THEN here \ result ELSE Waiting(inbox[p], q)
  BY <1>4 DEF Waiting
<1>9. InboxInv'
  <2> SUFFICES ASSUME NEW o \in Processes, NEW q \in Receivers, NEW m \in Waiting(inbox'[o], q)
               PROVE  o \in up /\ m \in Sent /\ Accepted(o, start[o], m)
    BY <1>5 DEF InboxInv, Accepted, Sent
  <2>1. m \in Waiting(inbox[o], q)
    BY <1>1, <1>7, <1>8
  <2> QED BY <2>1 DEF BoxInv, InboxInv
<1>10. \A m \in here : m \in WaitsFor(r)
  BY <1>1, WaitsForFacts
<1>11. ASSUME NEW q \in Receivers
       PROVE  WaitsFor(q)' = IF q = r THEN WaitsFor(q) \ result ELSE WaitsFor(q)
  <2>1. \A m : m \in WaitsFor(q)' <=>
            \/ m \in Waiting(box, q)
            \/ m \in WaitsFor(q) /\ m \notin Waiting(inbox[p], q)
    BY <1>7, WaitsForStep DEF BoxInv
  <2>2. \A m \in Waiting(inbox[p], q) : m \in WaitsFor(q)
    BY WaitsForFacts
  <2>3. \A m : m \in WaitsFor(q)' <=> m \in WaitsFor(q) /\ (q = r => m \notin result)
    BY <2>1, <2>2, <1>1, <1>3, <1>8
  <2> QED BY <2>3
<1>12. [q \in Receivers |-> WaitsFor(q)]' =
           [[q \in Receivers |-> WaitsFor(q)] EXCEPT ![r] = @ \ result]
  BY <1>11
<1>13. ASSUME NEW k \in result, NEW n \in WaitsFor(r) \ result
       PROVE  ~Mailboxes!Before(n, k)
  <2> SUFFICES ASSUME n < k, log[n].by = log[k].by, log[n].kind = log[k].kind,
                      ~log[n].given, ~log[k].given
               PROVE  FALSE
    BY DEF Mailboxes!Before
  <2>1. PICK o \in Processes : n \in Waiting(inbox[o], r)
    BY WaitsForFacts
  <2>2. log[n].by = o /\ log[k].by = p
    BY <2>1, <1>1, <1>3 DEF BoxInv, InboxInv, Accepted
  <2>3. n \in here
    BY <2>1, <2>2, <1>1
  <2> QED BY <2>3, <1>1, <1>2, OldestFirst
<1>14. result \in SUBSET [q \in Receivers |-> WaitsFor(q)][r]
  BY <1>3, <1>10
<1>15. Mailboxes!Take(r, result)
  <2>1. \A k \in result : \A n \in [q \in Receivers |-> WaitsFor(q)][r] \ result :
            ~Mailboxes!Before(n, k)
    BY <1>13
  <2> QED BY <2>1, <1>5, <1>12 DEF Mailboxes!Take
<1> QED BY <1>9, <1>14, <1>15 DEF Mailboxes!Next

(* An inbox that is dropped, or all of those of a process.                  *)
LEMMA LoseMail ==
    ASSUME BoxInv, IInv', NEW p \in Processes, UNCHANGED <<log, received>>,
           \A o \in Processes \ {p} : /\ inbox'[o] = inbox[o] /\ start'[o] = start[o]
                                      /\ o \in up => o \in up',
           \A r \in Receivers : /\ Waiting(inbox'[p], r) \subseteq Waiting(inbox[p], r)
                                /\ Waiting(inbox'[p], r) # {} => p \in up' /\ start'[p] = start[p],
           NEW dropped, gone' = gone \cup dropped,
           \A n : n \in dropped <=>
               \E r \in Receivers : n \in Waiting(inbox[p], r) \ Waiting(inbox'[p], r)
    PROVE  InboxInv' /\ Mailboxes!Next
<1>1. ASSUME NEW o \in Processes, NEW r \in Receivers, NEW n \in Waiting(inbox'[o], r)
      PROVE  n \in Waiting(inbox[o], r) /\ start'[o] = start[o] /\ o \in up'
  <2>1. n \in Waiting(inbox[o], r)
    BY <1>1
  <2>2. o \in up
    BY <2>1 DEF BoxInv, InboxInv
  <2> QED BY <2>1, <2>2, <1>1
<1>2. InboxInv'
  BY <1>1 DEF BoxInv, InboxInv, Accepted, Sent
<1>3. ASSUME NEW r \in Receivers
      PROVE  \A n : n \in WaitsFor(r)' <=>
                 n \in WaitsFor(r) /\ n \notin Waiting(inbox[p], r) \ Waiting(inbox'[p], r)
  BY WaitsForStep, WaitsForFacts DEF BoxInv
<1>4. \A r \in Receivers : WaitsFor(r)' \subseteq WaitsFor(r)
  BY <1>3
<1>5. \A r \in Receivers : WaitsFor(r) \subseteq 1 .. Len(log)
  BY WaitsForFacts DEF BoxInv, InboxInv, Sent
<1>6. \A r \in Receivers : WaitsFor(r) \ WaitsFor(r)' =
                               Waiting(inbox[p], r) \ Waiting(inbox'[p], r)
  BY <1>3, WaitsForFacts
<1>7. dropped = UNION {WaitsFor(r) \ WaitsFor(r)' : r \in Receivers}
  BY <1>6
<1>8. PICK w : w = [r \in Receivers |-> WaitsFor(r)]
  OBVIOUS
<1>9. PICK v : v = [r \in Receivers |-> WaitsFor(r)']
  OBVIOUS
<1>10. v \in [Receivers -> SUBSET (1 .. Len(log))]
  BY <1>4, <1>5, <1>9
<1>11. \A r \in Receivers : v[r] \subseteq w[r]
  BY <1>4, <1>8, <1>9
<1>12. UNION {w[r] \ v[r] : r \in Receivers} = dropped
  BY <1>7, <1>8, <1>9
<1>13. Mailboxes!Lose
  BY <1>8, <1>9, <1>10, <1>11, <1>12 DEF Mailboxes!Lose
<1> QED BY <1>2, <1>13 DEF Mailboxes!Next

LEMMA MailInit == Init => BoxInv /\ Mailboxes!Init
<1> SUFFICES ASSUME Init PROVE BoxInv /\ Mailboxes!Init
  OBVIOUS
<1>1. \A p \in Processes, r \in Receivers : Waiting(inbox[p], r) = {}
  BY DEF Init, Waiting
<1>2. \A r \in Receivers : WaitsFor(r) = {}
  BY <1>1 DEF WaitsFor
<1>3. Mailboxes!Init
  BY <1>2 DEF Init, Mailboxes!Init
<1> QED BY <1>1, <1>3, BusInit DEF BoxInv, InboxInv

LEMMA MailStep == BoxInv /\ [Next]_vars => BoxInv' /\ [Mailboxes!Next]_Mailboxes!vars
<1> SUFFICES ASSUME BoxInv, [Next]_vars PROVE BoxInv' /\ [Mailboxes!Next]_Mailboxes!vars
  OBVIOUS
<1>1. IInv'
  BY BusStep DEF BoxInv
<1>2. inbox \in [Processes -> Inboxes] /\ start \in [Processes -> Nat]
  BY DEF BoxInv, IInv, TypeOK
<1>3. ASSUME NEW p \in Processes, Load(p) PROVE InboxInv' /\ UNCHANGED Mailboxes!vars
  <2>1. /\ p \notin up /\ up' = up \cup {p} /\ start' = [start EXCEPT ![p] = Len(log)]
        /\ UNCHANGED <<log, inbox, received, gone>>
    BY <1>3 DEF Load
  <2>2. \A o \in Processes \ {p} : start'[o] = start[o]
    BY <2>1, <1>2
  <2> QED BY <2>1, <2>2, QuietMail
<1>4. ASSUME NEW p \in Processes, NEW to \in Receivers \cup {Everybody}, NEW kind \in Kinds,
             NEW supplied \in ClientOffsets \cup {None}, Send(p, to, kind, supplied)
      PROVE  InboxInv' /\ Mailboxes!Next
  BY <1>1, <1>4, SendMail
<1>5. ASSUME NEW p \in Processes, NEW r \in Receivers, NEW kind \in Kinds \cup {None},
             Receive(p, r, kind)
      PROVE  InboxInv' /\ Mailboxes!Next
  BY <1>1, <1>5, ReceiveMail
<1>6. ASSUME NEW p \in Processes, NEW r \in Receivers, Register(p, r)
      PROVE  InboxInv' /\ UNCHANGED Mailboxes!vars
  <2>1. PICK box : box = [q \in DOMAIN inbox[p] \cup {r} |-> IF q = r THEN {} ELSE inbox[p][q]]
    OBVIOUS
  <2>2. /\ inbox' = [inbox EXCEPT ![p] = box] /\ r \notin DOMAIN inbox[p]
        /\ UNCHANGED <<log, up, start, received, gone>>
    BY <1>6, <2>1 DEF Register
  <2>3. \A q \in Receivers : Waiting(box, q) = Waiting(inbox[p], q)
    BY <2>1, <2>2 DEF Waiting
  <2>4. \A o \in Processes : inbox'[o] = IF o = p THEN box ELSE inbox[o]
    BY <2>2, <1>2
  <2>5. \A o \in Processes, q \in Receivers : Waiting(inbox'[o], q) = Waiting(inbox[o], q)
    BY <2>3, <2>4
  <2> QED BY <2>2, <2>5, QuietMail
<1>7. ASSUME NEW p \in Processes, NEW r \in Receivers, Unregister(p, r)
      PROVE  InboxInv' /\ Mailboxes!Next
  <2>1. PICK box : box = [q \in DOMAIN inbox[p] \ {r} |-> inbox[p][q]]
    OBVIOUS
  <2>2. /\ inbox' = [inbox EXCEPT ![p] = box] /\ r \in DOMAIN inbox[p] /\ p \in up
        /\ gone' = gone \cup inbox[p][r]
        /\ UNCHANGED <<log, up, start, received>>
    BY <1>7, <2>1 DEF Unregister
  <2>3. \A q \in Receivers : Waiting(box, q) = IF q = r THEN {} ELSE Waiting(inbox[p], q)
    BY <2>1, <2>2 DEF Waiting
  <2>4. inbox'[p] = box /\ \A o \in Processes \ {p} : inbox'[o] = inbox[o]
    BY <2>2, <1>2
  <2>5. Waiting(inbox[p], r) = inbox[p][r]
    BY <2>2 DEF Waiting
  <2>6. \A q \in Receivers : Waiting(inbox'[p], q) \subseteq Waiting(inbox[p], q)
    BY <2>3, <2>4
  <2>7. \A n : n \in inbox[p][r] <=>
            \E q \in Receivers : n \in Waiting(inbox[p], q) \ Waiting(inbox'[p], q)
    BY <2>3, <2>4, <2>5
  <2> QED BY <1>1, <2>2, <2>4, <2>6, <2>7, LoseMail
<1>8. ASSUME NEW p \in Processes, Replay(p) PROVE InboxInv' /\ UNCHANGED Mailboxes!vars
  <2>1. UNCHANGED <<log, up, inbox, start, received, gone>>
    BY <1>8 DEF Replay, bus
  <2> QED BY <2>1, QuietMail
<1>9. ASSUME NEW p \in Processes, Kill(p) PROVE InboxInv' /\ Mailboxes!Next
  <2>1. PICK dropped : dropped = UNION {inbox[p][r] : r \in DOMAIN inbox[p]}
    OBVIOUS
  <2>2. /\ up' = up \ {p} /\ inbox' = [inbox EXCEPT ![p] = [r \in {} |-> {}]]
        /\ gone' = gone \cup dropped
        /\ start' = [start EXCEPT ![p] = 0]
        /\ UNCHANGED <<log, received>>
    BY <1>9, <2>1 DEF Kill
  <2>3. inbox'[p] = [r \in {} |-> {}] /\ \A o \in Processes \ {p} : inbox'[o] = inbox[o]
    BY <2>2, <1>2
  <2>4. \A q : Waiting(inbox'[p], q) = {}
    BY <2>3 DEF Waiting
  <2>5. \A o \in Processes \ {p} : start'[o] = start[o] /\ (o \in up => o \in up')
    BY <2>2, <1>2
  <2>6. DOMAIN inbox[p] \subseteq Receivers
    BY InboxTypes DEF BoxInv, IInv
  <2>7. \A n : n \in dropped <=>
            \E q \in Receivers : n \in Waiting(inbox[p], q) \ Waiting(inbox'[p], q)
    BY <2>1, <2>4, <2>6 DEF Waiting
  <2> QED BY <1>1, <2>2, <2>3, <2>4, <2>5, <2>7, LoseMail
<1>10. CASE UNCHANGED vars
  <2>1. UNCHANGED <<log, up, inbox, start, received, gone>>
    BY <1>10 DEF vars, bus
  <2>2. InboxInv'
    BY <2>1 DEF BoxInv, InboxInv, Sent, Accepted
  <2>a. \A r \in Receivers : WaitsFor(r)' = WaitsFor(r)
    BY <2>1 DEF WaitsFor
  <2>b. [r \in Receivers |-> WaitsFor(r)]' = [r \in Receivers |-> WaitsFor(r)]
    BY <2>a
  <2>3. UNCHANGED Mailboxes!vars
    BY <2>1, <2>b DEF Mailboxes!vars
  <2> QED BY <1>1, <2>2, <2>3 DEF BoxInv
<1> QED BY <1>1, <1>3, <1>4, <1>5, <1>6, <1>7, <1>8, <1>9, <1>10 DEF Next, BoxInv

(* The buses of all processes implement Mailbox: for any number of          *)
(* processes, receivers and messages, a message waits for whom it is for,   *)
(* each receiver takes it once, and those of a process and kind that the    *)
(* bus numbered in order, and only an unregistered name or a killed process *)
(* loses it (send, receive, unregister_receiver).                           *)
THEOREM MailboxRefined == Spec => ImplementsMailbox
<1>1. Spec => Mailboxes!Spec
  BY MailInit, MailStep, PTL DEF Spec, Mailboxes!Spec
<1> QED BY <1>1 DEF ImplementsMailbox

(* A message that has been received does not wait any more.                 *)
NoneAgain ==
    \A r \in Receivers : /\ WaitsFor(r) \subseteq Sent /\ received[r] \subseteq Sent
                         /\ WaitsFor(r) \cap received[r] = {}

LEMMA OnceStep ==
    ASSUME BoxInv, BoxInv', NoneAgain, [Mailboxes!Next]_Mailboxes!vars
    PROVE  NoneAgain'
<1>1. PICK w : w = [r \in Receivers |-> WaitsFor(r)]
  OBVIOUS
<1>2. PICK v : v = [r \in Receivers |-> WaitsFor(r)']
  OBVIOUS
<1>3. \A r \in Receivers : w[r] = WaitsFor(r) /\ v[r] = WaitsFor(r)'
  BY <1>1, <1>2
<1>4. received \in [Receivers -> SUBSET Numbers] /\ Len(log) \in Nat
  BY BusTypes DEF BoxInv, IInv, TypeOK
<1>5. ASSUME NEW addressees \in SUBSET Receivers, Mailboxes!Post(addressees) PROVE NoneAgain'
  <2>1. /\ Len(log') = Len(log) + 1 /\ received' = received
        /\ v = [r \in Receivers |-> IF r \in addressees THEN w[r] \cup {Len(log) + 1} ELSE w[r]]
    BY <1>1, <1>2, <1>5 DEF Mailboxes!Post
  <2>2. Sent' = Sent \cup {Len(log) + 1} /\ Len(log) + 1 \notin Sent
    BY <2>1, <1>4 DEF Sent
  <2>3. ASSUME NEW r \in Receivers PROVE WaitsFor(r)' \subseteq WaitsFor(r) \cup {Len(log) + 1}
    BY <2>1, <1>3
  <2> QED BY <2>1, <2>2, <2>3 DEF NoneAgain
<1>6. ASSUME NEW r \in Receivers, NEW batch \in SUBSET w[r], Mailboxes!Take(r, batch)
      PROVE  NoneAgain'
  <2>1. /\ log' = log /\ received' = [received EXCEPT ![r] = @ \cup batch]
        /\ v = [w EXCEPT ![r] = @ \ batch]
    BY <1>1, <1>2, <1>6 DEF Mailboxes!Take
  <2>2. \A q \in Receivers :
            /\ WaitsFor(q)' = IF q = r THEN WaitsFor(q) \ batch ELSE WaitsFor(q)
            /\ received'[q] = IF q = r THEN received[q] \cup batch ELSE received[q]
    BY <2>1, <1>1, <1>3, <1>4
  <2>3. Sent' = Sent /\ batch \subseteq WaitsFor(r)
    BY <2>1, <1>3 DEF Sent
  <2> QED BY <2>2, <2>3 DEF NoneAgain
<1>7. CASE Mailboxes!Lose
  <2>1. log' = log /\ received' = received /\ \A r \in Receivers : v[r] \subseteq w[r]
    BY <1>1, <1>2, <1>7 DEF Mailboxes!Lose
  <2> QED BY <2>1, <1>3 DEF NoneAgain, Sent
<1>8. CASE UNCHANGED Mailboxes!vars
  <2>1. log' = log /\ received' = received /\ v = w
    BY <1>1, <1>2, <1>8 DEF Mailboxes!vars
  <2> QED BY <2>1, <1>3 DEF NoneAgain, Sent
<1> QED BY <1>1, <1>5, <1>6, <1>7, <1>8 DEF Mailboxes!Next

(* No receiver gets a message twice, at no process and after no restart:    *)
(* this follows from Mailbox alone (receive takes from the inbox what it    *)
(* answers, and nothing but send puts a message into one).                  *)
THEOREM ReceivedOnce ==
    Spec => [](\A r \in Receivers : WaitsFor(r) \cap received[r] = {})
<1>1. Init => BoxInv /\ NoneAgain
  <2>1. Init => \A r \in Receivers : WaitsFor(r) = {} /\ received[r] = {}
    BY DEF Init, WaitsFor, Waiting
  <2> QED BY <2>1, MailInit DEF NoneAgain
<1>2. BoxInv /\ NoneAgain /\ [Next]_vars => BoxInv' /\ NoneAgain'
  BY MailStep, OnceStep
<1>3. NoneAgain => \A r \in Receivers : WaitsFor(r) \cap received[r] = {}
  BY DEF NoneAgain
<1> QED BY <1>1, <1>2, <1>3, PTL DEF Spec
=============================================================================
