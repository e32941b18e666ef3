-------------------------- MODULE KafkaQueueProofs --------------------------
(***************************************************************************)
(* Proofs about KafkaQueue, for every number of producers, partitions,     *)
(* retries and every capacity.                                             *)
(*                                                                         *)
(* What a write puts on the topic is a recursion over the messages of the  *)
(* batch; AppendEachFacts says what it computes, by an induction that      *)
(* shows a set of numbers to be all of Nat (SetInduction).  The steps of   *)
(* produceLoop then fall into few outcomes (LoopOutcome), and KafkaInv is  *)
(* preserved part by part:                                                 *)
(*   InStage, CloseOrder  what the loop's variables hold at each stage;    *)
(*   BatchKept            what a partial write may still owe the topic;    *)
(*   InOrder              older events of a connection are further along;  *)
(*   Counted, Backlog     the counters against the events;                 *)
(*   BreakerTrips         consecutive errors are messages that were read.  *)
(***************************************************************************)
EXTENDS KafkaQueue, FiniteSetTheorems, SequenceTheorems, WellFoundedInduction, TLAPS

----------------------------------------------------------------------------
\* Induction over the natural numbers, for the members of a set.
LessThan == {ss \in Nat \X Nat : ss[1] < ss[2]}

LEMMA LessThanWellFounded == IsWellFoundedOn(LessThan, Nat)
  <1>1. LessThan = OpToRel(<, Nat)
    BY Zenon DEF LessThan, OpToRel
  <1> QED BY <1>1, NatLessThanWellFounded, Zenon

LEMMA SetInduction ==
    ASSUME NEW S, 0 \in S, \A n \in Nat : n \in S => n + 1 \in S
    PROVE  Nat \subseteq S
  <1> DEFINE T == Nat \ S
  <1>1. SUFFICES ASSUME T # {} PROVE FALSE
    OBVIOUS
  <1>2. PICK x \in T : \A y \in T : ~(<<y, x>> \in LessThan)
    <2> HIDE DEF T
    <2>1. T \subseteq Nat
      BY DEF T
    <2> QED BY <1>1, <2>1, LessThanWellFounded, WFMin
  <1>3. x # 0 /\ x - 1 \in Nat
    BY <1>2
  <1>4. x - 1 \in T
    BY <1>3
  <1>5. <<x - 1, x>> \in LessThan
    BY <1>3 DEF LessThan
  <1> QED BY <1>2, <1>4, <1>5

----------------------------------------------------------------------------
\* The appends of a batch, one message after the other.
Appending(g, n, h, t, ms, K) ==
    g = [i \in 0..n |-> IF i = 0 THEN t ELSE AppendOne(h, g[i - 1], ms[i], K)]

LEMMA AppendingExists ==
    ASSUME NEW h, NEW t, NEW ms, NEW K
    PROVE  \A n \in Nat : \E g : Appending(g, n, h, t, ms, K)
  <1> DEFINE S == {n \in Nat : \E g : Appending(g, n, h, t, ms, K)}
  <1>1. 0 \in S
    <2>1. Appending([i \in 0..0 |-> t], 0, h, t, ms, K)
      BY DEF Appending
    <2> QED BY <2>1
  <1>2. ASSUME NEW n \in Nat, n \in S PROVE n + 1 \in S
    <2>1. PICK g : Appending(g, n, h, t, ms, K)
      BY <1>2
    <2> DEFINE g2 == [i \in 0..n + 1 |-> IF i = n + 1 THEN AppendOne(h, g[n], ms[n + 1], K) ELSE g[i]]
               body == [i \in 0..n + 1 |-> IF i = 0 THEN t ELSE AppendOne(h, g2[i - 1], ms[i], K)]
    <2>2. ASSUME NEW i \in 0..n + 1 PROVE g2[i] = body[i]
      <3>1. CASE i = n + 1
        <4>1. i - 1 = n /\ n \in 0..n + 1 /\ n # n + 1 /\ i # 0
          BY <3>1
        <4>2. g2[i - 1] = g[n]
          BY <4>1
        <4>3. g2[i] = AppendOne(h, g[n], ms[n + 1], K) /\ body[i] = AppendOne(h, g2[i - 1], ms[i], K)
          BY <3>1, <4>1
        <4> QED BY <3>1, <4>2, <4>3
      <3>2. CASE i # n + 1
        <4>1. i \in 0..n /\ g2[i] = g[i]
          BY <3>2
        <4>2. g[i] = IF i = 0 THEN t ELSE AppendOne(h, g[i - 1], ms[i], K)
          BY <2>1, <4>1 DEF Appending
        <4>3. i # 0 => g2[i - 1] = g[i - 1]
          <5>1. i # 0 => i - 1 \in 0..n + 1 /\ i - 1 # n + 1
            BY <4>1
          <5> QED BY <5>1
        <4>4. body[i] = IF i = 0 THEN t ELSE AppendOne(h, g2[i - 1], ms[i], K)
          OBVIOUS
        <4> QED BY <4>1, <4>2, <4>3, <4>4
      <3> QED BY <3>1, <3>2
    <2>3. g2 = body
      <3> HIDE <2>2
      <3>1. DOMAIN g2 = 0..n + 1 /\ DOMAIN body = 0..n + 1
        OBVIOUS
      <3> QED BY <2>2, <3>1, Zenon
    <2>4. Appending(g2, n + 1, h, t, ms, K)
      BY <2>3, Zenon DEF Appending
    <2> QED BY <2>4
  <1>3. Nat \subseteq S
    <2> HIDE DEF S
    <2> QED BY <1>1, <1>2, SetInduction
  <1> QED BY <1>3

LEMMA AppendEachSteps ==
    ASSUME NEW h, NEW t, NEW ms, Len(ms) \in Nat, NEW K
    PROVE  \E g : /\ Appending(g, Len(ms), h, t, ms, K)
                  /\ AppendEach(h, t, ms, K) = g[Len(ms)]
  <1> DEFINE g == CHOOSE g : g = [i \in 0..Len(ms) |-> IF i = 0 THEN t ELSE AppendOne(h, g[i - 1], ms[i], K)]
  <1>1. AppendEach(h, t, ms, K) = g[Len(ms)]
    BY DEF AppendEach
  <1>2. \E f : f = [i \in 0..Len(ms) |-> IF i = 0 THEN t ELSE AppendOne(h, f[i - 1], ms[i], K)]
    <2>1. PICK f : Appending(f, Len(ms), h, t, ms, K)
      BY AppendingExists
    <2> QED BY <2>1, Zenon DEF Appending
  <1>3. Appending(g, Len(ms), h, t, ms, K)
    BY <1>2, Zenon DEF Appending
  <1> QED BY <1>1, <1>3, Zenon

Message == Event \union {Garbage}
Topics == [Partitions -> Seq(Message)]
Ordered(ms) == \A i, j \in 1..Len(ms) : i < j /\ ms[i].conn = ms[j].conn => ms[i].seq < ms[j].seq
OwnOf(t) == UNION {{k} \X {i \in DOMAIN t[k] : t[k][i] # Garbage} : k \in Partitions}

\* u is t with messages of ms behind it; it has those of the first n that are
\* for the partitions K, and what is new in it is in order.
Grown(u, t) == \A k \in Partitions : /\ Len(t[k]) <= Len(u[k])
                                    /\ \A i \in 1..Len(t[k]) : u[k][i] = t[k][i]
FromBatch(u, t, ms, n) ==
    \A k \in Partitions : \A i \in Len(t[k]) + 1..Len(u[k]) : \E j \in 1..n : u[k][i] = ms[j]
Contains(u, h, ms, n, K) ==
    \A j \in 1..n : h[ms[j].conn] \in K =>
        \E i \in 1..Len(u[h[ms[j].conn]]) : u[h[ms[j].conn]][i] = ms[j]
NewInOrder(u, t) ==
    \A k \in Partitions : \A i, j \in Len(t[k]) + 1..Len(u[k]) :
        i < j /\ u[k][i].conn = u[k][j].conn => u[k][i].seq < u[k][j].seq

LEMMA AppendOneFacts ==
    ASSUME NEW h \in [Producers -> Partitions], NEW K \in SUBSET Partitions,
           NEW u \in Topics, NEW m \in Event
    PROVE  /\ AppendOne(h, u, m, K) \in Topics
           /\ h[m.conn] \in Partitions
           /\ \A k \in Partitions : k # h[m.conn] => AppendOne(h, u, m, K)[k] = u[k]
           /\ h[m.conn] \notin K => AppendOne(h, u, m, K) = u
           /\ h[m.conn] \in K => AppendOne(h, u, m, K)[h[m.conn]] = Append(u[h[m.conn]], m)
  <1>1. m.conn \in Producers /\ h[m.conn] \in Partitions /\ m \in Message
    BY DEF Event, Message
  <1>2. CASE h[m.conn] \notin K
    BY <1>1, <1>2 DEF AppendOne
  <1>3. CASE h[m.conn] \in K
    <2> DEFINE k == h[m.conn]
               u2 == [u EXCEPT ![k] = Append(u[k], m)]
    <2>1. AppendOne(h, u, m, K) = u2
      BY <1>3 DEF AppendOne
    <2> HIDE DEF k
    <2>2. k \in Partitions /\ u[k] \in Seq(Message)
      BY <1>1 DEF Topics, k
    <2>3. Append(u[k], m) \in Seq(Message)
      BY <1>1, <2>2
    <2>4. u2 \in Topics /\ u2[k] = Append(u[k], m) /\ \A l \in Partitions : l # k => u2[l] = u[l]
      BY <2>2, <2>3 DEF Topics
    <2> QED BY <1>1, <1>3, <2>1, <2>4 DEF k
  <1> QED BY <1>2, <1>3

\* One append keeps each of the facts.
LEMMA AppendOneKeeps ==
    ASSUME NEW h \in [Producers -> Partitions], NEW K \in SUBSET Partitions,
           NEW t \in Topics, NEW u \in Topics, NEW ms \in Seq(Event), NEW n \in Nat,
           n + 1 \in 1..Len(ms), Grown(u, t)
    PROVE  LET v == AppendOne(h, u, ms[n + 1], K)
           IN  /\ v \in Topics
               /\ Grown(v, t)
               /\ FromBatch(u, t, ms, n) => FromBatch(v, t, ms, n + 1)
               /\ Contains(u, h, ms, n, K) => Contains(v, h, ms, n + 1, K)
               /\ Ordered(ms) /\ FromBatch(u, t, ms, n) /\ NewInOrder(u, t) => NewInOrder(v, t)
  <1> DEFINE m == ms[n + 1]
             k == h[m.conn]
             v == AppendOne(h, u, m, K)
  <1>m. m \in Event
    OBVIOUS
  <1> HIDE DEF m
  <1>1. /\ v \in Topics /\ k \in Partitions
        /\ \A l \in Partitions : l # k => v[l] = u[l]
        /\ k \notin K => v = u
        /\ k \in K => v[k] = Append(u[k], m)
    BY <1>m, AppendOneFacts
  <1> HIDE DEF v, k
  <1>t. /\ \A l \in Partitions : t[l] \in Seq(Message) /\ Len(t[l]) \in Nat
        /\ \A l \in Partitions : u[l] \in Seq(Message) /\ Len(u[l]) \in Nat
        /\ Len(ms) \in Nat /\ m \in Message
    BY <1>m DEF Topics, Message
  <1>2. k \in K => /\ Len(v[k]) = Len(u[k]) + 1 /\ v[k][Len(u[k]) + 1] = m
                   /\ \A i \in 1..Len(u[k]) : v[k][i] = u[k][i]
    BY <1>1, <1>t
  <1>3. \A l \in Partitions : Len(u[l]) <= Len(v[l]) /\ \A i \in 1..Len(u[l]) : v[l][i] = u[l][i]
    <2> TAKE l \in Partitions
    <2>1. CASE l = k /\ k \in K
      <3>1. Len(u[k]) <= Len(u[k]) + 1
        BY <1>1, <1>t
      <3> QED BY <1>2, <2>1, <3>1
    <2>2. CASE ~(l = k /\ k \in K)
      <3>1. v[l] = u[l]
        BY <1>1, <2>2
      <3> QED BY <1>t, <3>1
    <2> QED BY <2>1, <2>2
  <1>4. \A l \in Partitions : Len(v[l]) \in Nat
    BY <1>1 DEF Topics
  <1>5. Grown(v, t)
    <2> SUFFICES ASSUME NEW l \in Partitions
                 PROVE  Len(t[l]) <= Len(v[l]) /\ \A i \in 1..Len(t[l]) : v[l][i] = t[l][i]
      BY DEF Grown
    <2>1. Len(t[l]) <= Len(u[l]) /\ \A i \in 1..Len(t[l]) : u[l][i] = t[l][i]
      BY DEF Grown
    <2>2. \A i \in 1..Len(t[l]) : i \in 1..Len(u[l])
      BY <1>t, <2>1
    <2> QED BY <1>t, <1>3, <1>4, <2>1, <2>2
  \* A new message is one that was new before, or the one appended.
  <1>6. ASSUME NEW l \in Partitions, NEW i \in Len(t[l]) + 1..Len(v[l])
        PROVE  \/ i \in Len(t[l]) + 1..Len(u[l]) /\ v[l][i] = u[l][i]
               \/ l = k /\ k \in K /\ i = Len(u[k]) + 1 /\ v[l][i] = m
    <2>1. CASE l = k /\ k \in K
      <3>1. i = Len(u[k]) + 1 \/ i \in Len(t[l]) + 1..Len(u[l])
        BY <1>2, <1>t, <2>1
      <3>2. \A j \in Len(t[l]) + 1..Len(u[l]) : j \in 1..Len(u[l])
        BY <1>t
      <3> QED BY <1>2, <2>1, <3>1, <3>2
    <2>2. CASE ~(l = k /\ k \in K)
      BY <1>1, <2>2
    <2> QED BY <2>1, <2>2
  <1>7. \A j \in 1..n : j \in 1..n + 1 /\ j < n + 1 /\ j \in 1..Len(ms)
    BY <1>t
  <1>8. n + 1 \in 1..n + 1
    OBVIOUS
  <1>9. ASSUME FromBatch(u, t, ms, n) PROVE FromBatch(v, t, ms, n + 1)
    BY <1>6, <1>7, <1>8, <1>9 DEF FromBatch, m
  <1>10. ASSUME Contains(u, h, ms, n, K) PROVE Contains(v, h, ms, n + 1, K)
    <2> SUFFICES ASSUME NEW j \in 1..n + 1, h[ms[j].conn] \in K
                 PROVE  \E i \in 1..Len(v[h[ms[j].conn]]) : v[h[ms[j].conn]][i] = ms[j]
      BY DEF Contains
    <2>1. CASE j = n + 1
      <3>1. k = h[ms[j].conn] /\ ms[j] = m
        BY <2>1 DEF k, m
      <3>2. Len(u[k]) + 1 \in 1..Len(v[k])
        BY <1>1, <1>2, <1>t, <3>1
      <3> QED BY <1>2, <3>1, <3>2
    <2>2. CASE j # n + 1
      <3> DEFINE l == h[ms[j].conn]
      <3>1. j \in 1..n
        BY <2>2
      <3>2. l \in Partitions
        BY DEF Topics
      <3>3. PICK i \in 1..Len(u[l]) : u[l][i] = ms[j]
        BY <1>10, <3>1 DEF Contains
      <3> HIDE DEF l
      <3>4. i \in 1..Len(v[l]) /\ v[l][i] = u[l][i]
        BY <1>t, <1>3, <1>4, <3>2
      <3> QED BY <3>3, <3>4 DEF l
    <2> QED BY <2>1, <2>2
  <1>11. ASSUME Ordered(ms), FromBatch(u, t, ms, n), NewInOrder(u, t) PROVE NewInOrder(v, t)
    <2> SUFFICES ASSUME NEW l \in Partitions, NEW i \in Len(t[l]) + 1..Len(v[l]),
                        NEW j \in Len(t[l]) + 1..Len(v[l]), i < j, v[l][i].conn = v[l][j].conn
                 PROVE  v[l][i].seq < v[l][j].seq
      BY DEF NewInOrder
    <2>1. CASE j \in Len(t[l]) + 1..Len(u[l]) /\ v[l][j] = u[l][j]
      <3>1. i # Len(u[l]) + 1
        BY <1>t, <2>1
      <3>2. i \in Len(t[l]) + 1..Len(u[l]) /\ v[l][i] = u[l][i]
        BY <1>6, <3>1
      <3> QED BY <1>11, <2>1, <3>2 DEF NewInOrder
    <2>2. CASE l = k /\ j = Len(u[k]) + 1 /\ v[l][j] = m
      <3>1. i # Len(u[l]) + 1
        BY <1>t, <2>2
      <3>2. i \in Len(t[l]) + 1..Len(u[l]) /\ v[l][i] = u[l][i]
        BY <1>6, <3>1
      <3>3. PICK a \in 1..n : u[l][i] = ms[a]
        BY <1>11, <3>2 DEF FromBatch
      <3>4. a \in 1..Len(ms) /\ a < n + 1
        BY <1>7
      <3> QED BY <1>11, <2>2, <3>2, <3>3, <3>4 DEF Ordered, m
    <2> QED BY <1>6, <2>1, <2>2
  <1> QED BY <1>1, <1>5, <1>9, <1>10, <1>11 DEF v, m

\* The messages of a topic that decode are finitely many, and one append of an
\* event makes them one more.
IsOwn(t, x) == \E k \in Partitions : \E i \in 1..Len(t[k]) : t[k][i] # Garbage /\ x = <<k, i>>

LEMMA InOwn == ASSUME NEW t \in Topics, NEW x PROVE x \in OwnOf(t) <=> IsOwn(t, x)
  <1>1. \A k \in Partitions : DOMAIN t[k] = 1..Len(t[k])
    BY DEF Topics
  <1>2. x \in OwnOf(t) <=> \E k \in Partitions : x \in {k} \X {i \in DOMAIN t[k] : t[k][i] # Garbage}
    BY DEF OwnOf
  <1> QED BY <1>1, <1>2 DEF IsOwn

LEMMA OwnFinite == ASSUME NEW t \in Topics PROVE IsFiniteSet(OwnOf(t))
  <1> DEFINE Part(k) == {k} \X {i \in DOMAIN t[k] : t[k][i] # Garbage}
             Parts == {Part(k) : k \in Partitions}
             part == [k \in Partitions |-> Part(k)]
  <1>1. IsFiniteSet(Parts)
    <2>1. part \in Surjection(Partitions, Parts)
      BY DEF Surjection
    <2> QED BY <2>1, KafkaQueueAssumption, FS_Surjection
  <1>2. ASSUME NEW k \in Partitions PROVE IsFiniteSet(Part(k))
    <2>1. DOMAIN t[k] = 1..Len(t[k]) /\ Len(t[k]) \in Nat
      BY DEF Topics
    <2>2. IsFiniteSet(1..Len(t[k]))
      BY <2>1, FS_Interval
    <2>3. IsFiniteSet({i \in DOMAIN t[k] : t[k][i] # Garbage})
      BY <2>1, <2>2, FS_Subset
    <2>4. IsFiniteSet({k})
      BY FS_Singleton
    <2> QED BY <2>3, <2>4, FS_Product
  <1>3. \A T \in Parts : IsFiniteSet(T)
    BY <1>2
  <1> QED BY <1>1, <1>3, FS_UNION DEF OwnOf

LEMMA AppendOneCounts ==
    ASSUME NEW h \in [Producers -> Partitions], NEW K \in SUBSET Partitions,
           NEW u \in Topics, NEW m \in Event, h[m.conn] \in K
    PROVE  Cardinality(OwnOf(AppendOne(h, u, m, K))) = Cardinality(OwnOf(u)) + 1
  <1> DEFINE k == h[m.conn]
             v == AppendOne(h, u, m, K)
  <1>1. /\ v \in Topics /\ k \in Partitions
        /\ \A l \in Partitions : l # k => v[l] = u[l]
        /\ v[k] = Append(u[k], m)
    BY AppendOneFacts
  <1> HIDE DEF v, k
  <1>t. u[k] \in Seq(Message) /\ m \in Message /\ m # Garbage /\ Len(u[k]) \in Nat
    BY <1>1, KafkaQueueAssumption DEF Topics, Message
  <1>2. /\ Len(v[k]) = Len(u[k]) + 1 /\ v[k][Len(u[k]) + 1] = m
        /\ \A i \in 1..Len(u[k]) : v[k][i] = u[k][i]
    BY <1>1, <1>t
  <1> DEFINE x == <<k, Len(u[k]) + 1>>
  <1>3. ASSUME NEW l \in Partitions, NEW i
        PROVE  (i \in 1..Len(v[l]) /\ v[l][i] # Garbage) <=>
               (i \in 1..Len(u[l]) /\ u[l][i] # Garbage) \/ <<l, i>> = x
    <2>1. CASE l = k
      <3>1. i \in 1..Len(v[k]) <=> i \in 1..Len(u[k]) \/ i = Len(u[k]) + 1
        BY <1>2, <1>t
      <3> QED BY <1>2, <1>t, <2>1, <3>1
    <2>2. CASE l # k
      BY <1>1, <2>2
    <2> QED BY <2>1, <2>2
  <1>4. x \notin OwnOf(u)
    <2>1. Len(u[k]) + 1 \notin 1..Len(u[k])
      BY <1>t
    <2>2. ASSUME NEW l \in Partitions, NEW i \in 1..Len(u[l]) PROVE x # <<l, i>>
      BY <2>1
    <2>3. ~IsOwn(u, x)
      BY <2>2, Zenon DEF IsOwn
    <2> QED BY <2>3, InOwn
  <1>5. OwnOf(v) = OwnOf(u) \cup {x}
    <2>1. ASSUME NEW y PROVE y \in OwnOf(v) <=> y \in OwnOf(u) \cup {x}
      <3>1. y \in OwnOf(v) <=> IsOwn(v, y)
        BY <1>1, InOwn
      <3>2. y \in OwnOf(u) <=> IsOwn(u, y)
        BY InOwn
      <3>3. IsOwn(v, y) <=> IsOwn(u, y) \/ y = x
        BY <1>1, <1>3, Zenon DEF IsOwn
      <3> QED BY <3>1, <3>2, <3>3
    <2> HIDE DEF x
    <2> QED BY <2>1
  <1> HIDE DEF x
  <1>6. Cardinality(OwnOf(u) \cup {x}) = Cardinality(OwnOf(u)) + 1
    BY <1>4, OwnFinite, FS_AddElement
  <1> QED BY <1>5, <1>6 DEF v

\* What AppendEach computes, for every batch.
LEMMA AppendEachFacts ==
    ASSUME NEW h \in [Producers -> Partitions], NEW K \in SUBSET Partitions,
           NEW t \in Topics, NEW ms \in Seq(Event)
    PROVE  LET u == AppendEach(h, t, ms, K)
           IN  /\ u \in Topics
               /\ Grown(u, t)
               /\ FromBatch(u, t, ms, Len(ms))
               /\ Contains(u, h, ms, Len(ms), K)
               /\ Ordered(ms) => NewInOrder(u, t)
               /\ (\A i \in 1..Len(ms) : h[ms[i].conn] \in K) =>
                    Cardinality(OwnOf(u)) = Cardinality(OwnOf(t)) + Len(ms)
  <1>n. Len(ms) \in Nat
    OBVIOUS
  <1>1. PICK g : /\ Appending(g, Len(ms), h, t, ms, K)
                 /\ AppendEach(h, t, ms, K) = g[Len(ms)]
    BY <1>n, AppendEachSteps
  <1>2. g[0] = t /\ \A n \in Nat : n + 1 \in 1..Len(ms) => g[n + 1] = AppendOne(h, g[n], ms[n + 1], K)
    <2>1. \A i \in 0..Len(ms) : g[i] = IF i = 0 THEN t ELSE AppendOne(h, g[i - 1], ms[i], K)
      BY <1>1, Zenon DEF Appending
    <2>2. g[0] = t
      BY <1>n, <2>1
    <2>3. ASSUME NEW n \in Nat, n + 1 \in 1..Len(ms)
          PROVE  n + 1 \in 0..Len(ms) /\ n + 1 # 0 /\ (n + 1) - 1 = n
      BY <1>n, <2>3
    <2> QED BY <2>1, <2>2, <2>3
  <1> DEFINE All == \A i \in 1..Len(ms) : h[ms[i].conn] \in K
             Good(n) == /\ g[n] \in Topics
                        /\ Grown(g[n], t)
                        /\ FromBatch(g[n], t, ms, n)
                        /\ Contains(g[n], h, ms, n, K)
                        /\ Ordered(ms) => NewInOrder(g[n], t)
                        /\ All => Cardinality(OwnOf(g[n])) = Cardinality(OwnOf(t)) + n
             S == {n \in Nat : n <= Len(ms) => Good(n)}
  <1>3. 0 \in S
    <2>1. \A k \in Partitions : Len(t[k]) \in Nat
      BY DEF Topics
    <2>2. \A k \in Partitions : Len(t[k]) + 1..Len(t[k]) = {}
      BY <2>1
    <2>3. Grown(t, t)
      BY <2>1 DEF Grown
    <2>4. FromBatch(t, t, ms, 0) /\ NewInOrder(t, t)
      BY <2>2 DEF FromBatch, NewInOrder
    <2>5. Contains(t, h, ms, 0, K)
      BY DEF Contains
    <2>6. Cardinality(OwnOf(t)) = Cardinality(OwnOf(t)) + 0
      BY OwnFinite, FS_CardinalityType
    <2> QED BY <1>2, <2>3, <2>4, <2>5, <2>6
  <1>4. ASSUME NEW n \in Nat, n \in S PROVE n + 1 \in S
    <2> SUFFICES ASSUME n + 1 <= Len(ms) PROVE Good(n + 1)
      OBVIOUS
    <2>1. n + 1 \in 1..Len(ms) /\ n <= Len(ms)
      BY <1>n
    <2>2. Good(n)
      BY <1>4, <2>1
    <2>3. g[n + 1] = AppendOne(h, g[n], ms[n + 1], K)
      BY <1>2, <2>1
    <2>4. /\ g[n + 1] \in Topics
          /\ Grown(g[n + 1], t)
          /\ FromBatch(g[n + 1], t, ms, n + 1)
          /\ Contains(g[n + 1], h, ms, n + 1, K)
          /\ Ordered(ms) => NewInOrder(g[n + 1], t)
      BY <2>1, <2>2, <2>3, AppendOneKeeps
    <2>5. ASSUME All PROVE Cardinality(OwnOf(g[n + 1])) = Cardinality(OwnOf(t)) + (n + 1)
      <3>1. ms[n + 1] \in Event /\ h[ms[n + 1].conn] \in K
        BY <2>1, <2>5
      <3>2. Cardinality(OwnOf(g[n + 1])) = Cardinality(OwnOf(g[n])) + 1
        BY <2>2, <2>3, <3>1, AppendOneCounts
      <3>3. Cardinality(OwnOf(g[n])) = Cardinality(OwnOf(t)) + n
        BY <2>2, <2>5
      <3>4. Cardinality(OwnOf(t)) \in Nat
        BY OwnFinite, FS_CardinalityType
      <3> QED BY <3>2, <3>3, <3>4
    <2> QED BY <2>4, <2>5
  <1>5. Nat \subseteq S
    <2> HIDE DEF S
    <2> QED BY <1>3, <1>4, SetInduction
  <1>6. Good(Len(ms))
    BY <1>n, <1>5
  <1> QED BY <1>1, <1>6

----------------------------------------------------------------------------
\* A write adds messages of the batch behind the topic, and takes nothing away.
TopicSet(t) == UNION {Elems(t[k]) : k \in Partitions}

LEMMA InElems == ASSUME NEW T, NEW s \in Seq(T), NEW e
                 PROVE  e \in Elems(s) <=> \E i \in 1..Len(s) : e = s[i]
  <1>1. DOMAIN s = 1..Len(s)
    OBVIOUS
  <1> QED BY <1>1 DEF Elems

LEMMA InTopicSet == ASSUME NEW t \in Topics, NEW e
                    PROVE  e \in TopicSet(t) <=> \E k \in Partitions : \E i \in 1..Len(t[k]) : e = t[k][i]
  <1>1. e \in TopicSet(t) <=> \E k \in Partitions : e \in Elems(t[k])
    BY DEF TopicSet
  <1>2. \A k \in Partitions : t[k] \in Seq(Message)
    BY DEF Topics
  <1>3. \A k \in Partitions : e \in Elems(t[k]) <=> \E i \in 1..Len(t[k]) : e = t[k][i]
    BY <1>2, InElems
  <1> QED BY <1>1, <1>3

LEMMA ElemsFinite == ASSUME NEW T, NEW s \in Seq(T)
                     PROVE  IsFiniteSet(Elems(s)) /\ Cardinality(Elems(s)) <= Len(s) /\ Elems(s) \subseteq T
  <1> DEFINE f == [i \in 1..Len(s) |-> s[i]]
  <1>1. Len(s) \in Nat /\ DOMAIN s = 1..Len(s)
    OBVIOUS
  <1>2. f \in Surjection(1..Len(s), Elems(s))
    BY <1>1 DEF Surjection, Elems
  <1>3. IsFiniteSet(1..Len(s)) /\ Cardinality(1..Len(s)) = Len(s)
    BY <1>1, FS_Interval, SMTT(30)
  <1>4. IsFiniteSet(Elems(s)) /\ Cardinality(Elems(s)) <= Cardinality(1..Len(s))
    BY <1>2, <1>3, FS_Surjection
  <1>5. Elems(s) \subseteq T
    BY <1>1 DEF Elems
  <1> QED BY <1>3, <1>4, <1>5

LEMMA GrownSets ==
    ASSUME NEW t \in Topics, NEW u \in Topics, NEW ms \in Seq(Event),
           Grown(u, t), FromBatch(u, t, ms, Len(ms))
    PROVE  TopicSet(t) \subseteq TopicSet(u) /\ TopicSet(u) \subseteq TopicSet(t) \cup Elems(ms)
  <1>t. \A k \in Partitions : Len(t[k]) \in Nat /\ Len(u[k]) \in Nat
    BY DEF Topics
  <1>1. ASSUME NEW e \in TopicSet(t) PROVE e \in TopicSet(u)
    <2>1. PICK k \in Partitions : \E i \in 1..Len(t[k]) : e = t[k][i]
      BY InTopicSet
    <2>2. PICK i \in 1..Len(t[k]) : e = t[k][i]
      BY <2>1
    <2>3. u[k][i] = t[k][i] /\ Len(t[k]) <= Len(u[k])
      BY DEF Grown
    <2>4. i \in 1..Len(u[k])
      BY <1>t, <2>3
    <2> QED BY <2>2, <2>3, <2>4, InTopicSet
  <1>2. ASSUME NEW e \in TopicSet(u) PROVE e \in TopicSet(t) \cup Elems(ms)
    <2>1. PICK k \in Partitions : \E i \in 1..Len(u[k]) : e = u[k][i]
      BY InTopicSet
    <2>2. PICK i \in 1..Len(u[k]) : e = u[k][i]
      BY <2>1
    <2>3. CASE i \in 1..Len(t[k])
      <3>1. u[k][i] = t[k][i]
        BY <2>3 DEF Grown
      <3> QED BY <2>2, <2>3, <3>1, InTopicSet
    <2>4. CASE i \notin 1..Len(t[k])
      <3>1. i \in Len(t[k]) + 1..Len(u[k])
        BY <1>t, <2>4
      <3>2. PICK j \in 1..Len(ms) : u[k][i] = ms[j]
        BY <3>1 DEF FromBatch
      <3> QED BY <2>2, <3>2, InElems
    <2> QED BY <2>3, <2>4
  <1> QED BY <1>1, <1>2

\* A call of WriteMessages, whatever it returns.
Adds(ms) == /\ topic' \in Topics /\ Grown(topic', topic) /\ FromBatch(topic', topic, ms, Len(ms))
            /\ Ordered(ms) => NewInOrder(topic', topic)
            /\ TopicSet(topic) \subseteq TopicSet(topic')
            /\ TopicSet(topic') \subseteq TopicSet(topic) \cup Elems(ms)

LEMMA TroublesBound ==
    ASSUME TypeOK, Troubles < MaxFaults
    PROVE  faults + 1 \in 1..MaxFaults
  <1> DEFINE X == {x \in Partitions \X (1..BreakerLimit) : x[2] <= Foreign(x[1])}
  <1>1. faults \in Nat /\ readFaults \in Nat /\ MaxFaults \in Nat /\ BreakerLimit \in Nat
    BY KafkaQueueAssumption DEF TypeOK
  <1>2. IsFiniteSet(Partitions \X (1..BreakerLimit))
    <2>1. IsFiniteSet(1..BreakerLimit) /\ IsFiniteSet(Partitions)
      BY <1>1, FS_Interval, KafkaQueueAssumption
    <2> QED BY <2>1, FS_Product
  <1>3. IsFiniteSet(X)
    BY <1>2, FS_Subset
  <1>4. Cardinality(X) \in Nat
    BY <1>3, FS_CardinalityType
  <1>5. Troubles = faults + readFaults + Cardinality(X)
    BY DEF Troubles
  <1> HIDE DEF X
  <1> QED BY <1>1, <1>4, <1>5

LEMMA TopicType == ASSUME TypeOK
                   PROVE  /\ hash \in [Producers -> Partitions] /\ topic \in Topics
                          /\ OnTopic = TopicSet(topic) /\ Own = OwnOf(topic)
  BY Zenon DEF TypeOK, Topics, Message, OnTopic, TopicSet, Own, OwnOf

LEMMA WriteAdds ==
    ASSUME TypeOK, NEW ms \in Seq(Event), NEW K \in SUBSET Partitions, topic' = Appended(ms, K)
    PROVE  Adds(ms)
  <1>1. hash \in [Producers -> Partitions] /\ topic \in Topics
    BY TopicType
  <1>2. topic' = AppendEach(hash, topic, ms, K)
    BY DEF Appended
  <1>3. /\ topic' \in Topics /\ Grown(topic', topic) /\ FromBatch(topic', topic, ms, Len(ms))
        /\ Ordered(ms) => NewInOrder(topic', topic)
    BY <1>1, <1>2, AppendEachFacts
  <1>4. TopicSet(topic) \subseteq TopicSet(topic') /\ TopicSet(topic') \subseteq TopicSet(topic) \cup Elems(ms)
    BY <1>1, <1>3, GrownSets
  <1> QED BY <1>3, <1>4 DEF Adds

LEMMA PartitionsOfType ==
    ASSUME TypeOK, NEW ms \in Seq(Event)
    PROVE  /\ PartitionsOf(ms) \in SUBSET Partitions
           /\ \A i \in 1..Len(ms) : hash[ms[i].conn] \in PartitionsOf(ms)
  <1>1. hash \in [Producers -> Partitions] /\ DOMAIN ms = 1..Len(ms)
    BY DEF TypeOK
  <1>2. \A i \in 1..Len(ms) : ms[i].conn \in Producers
    <2>1. \A i \in 1..Len(ms) : ms[i] \in Event
      OBVIOUS
    <2> QED BY <2>1 DEF Event
  <1> QED BY <1>1, <1>2 DEF PartitionsOf

LEMMA WriteOKAdds ==
    ASSUME TypeOK, NEW ms \in Seq(Event), WriteOK(ms)
    PROVE  /\ Adds(ms) /\ Elems(ms) \subseteq TopicSet(topic') /\ faults' = faults
           /\ Cardinality(OwnOf(topic')) = Cardinality(OwnOf(topic)) + Len(ms)
  <1> DEFINE K == PartitionsOf(ms)
  <1>1. K \in SUBSET Partitions /\ \A i \in 1..Len(ms) : hash[ms[i].conn] \in K
    BY PartitionsOfType
  <1>2. topic' = Appended(ms, K) /\ faults' = faults
    BY DEF WriteOK
  <1> HIDE DEF K
  <1>3. Adds(ms)
    BY <1>1, <1>2, WriteAdds
  <1>4. hash \in [Producers -> Partitions] /\ topic \in Topics /\ topic' = AppendEach(hash, topic, ms, K)
    BY <1>2, TopicType DEF Appended
  <1>5. /\ Contains(topic', hash, ms, Len(ms), K)
        /\ Cardinality(OwnOf(topic')) = Cardinality(OwnOf(topic)) + Len(ms)
    BY <1>1, <1>4, AppendEachFacts
  <1>6. ASSUME NEW e \in Elems(ms) PROVE e \in TopicSet(topic')
    <2>1. PICK j \in 1..Len(ms) : e = ms[j]
      BY InElems
    <2>2. hash[ms[j].conn] \in K /\ hash[ms[j].conn] \in Partitions
      BY <1>1
    <2>3. \E i \in 1..Len(topic'[hash[ms[j].conn]]) : topic'[hash[ms[j].conn]][i] = ms[j]
      BY <1>5, <2>2 DEF Contains
    <2>4. topic' \in Topics
      BY <1>3 DEF Adds
    <2> QED BY <2>1, <2>2, <2>3, <2>4, InTopicSet
  <1> QED BY <1>2, <1>3, <1>5, <1>6

LEMMA WriteFailsAdds ==
    ASSUME TypeOK, NEW ms \in Seq(Event), WriteFails(ms)
    PROVE  Adds(ms) /\ faults' \in 1..MaxFaults
  <1>1. PICK K \in SUBSET PartitionsOf(ms) : topic' = Appended(ms, K)
    BY DEF WriteFails
  <1>2. K \in SUBSET Partitions
    BY PartitionsOfType
  <1>3. faults' = faults + 1 /\ Troubles < MaxFaults
    BY DEF WriteFails
  <1> QED BY <1>1, <1>2, <1>3, WriteAdds, TroublesBound

----------------------------------------------------------------------------
(***************************************************************************)
(* The inductive invariant.                                                *)
(***************************************************************************)
WriteStages == {"full", "retry", "single", "left", "right", "each"}
Failing == {"each", "count", "report"}

\* What batch, pending and nfailed hold at each stage of produceLoop.
InStage == /\ at \in WriteStages => batch # <<>>
           /\ at = "done" => batch = <<>> /\ msgCh = <<>> /\ chClosed
           /\ at = "single" => Len(batch) = 1
           /\ at \notin {"right", "each"} => pending = <<>>
           /\ at = "right" => pending = <<>> \/ pending = Left
           /\ at \notin Failing => nfailed = 0
           /\ at \in Failing => nfailed + Len(pending) <= Len(batch)
           /\ Elems(pending) \subseteq Elems(batch)

CloseOrder == /\ closed <=> closer # "none"
              /\ chClosed <=> closer \in {"waiting", "returned"}

\* The messages of the batch that are neither on the topic nor to be tried again.
Missing == Elems(batch) \ (OnTopic \union Elems(pending))
BatchKept == /\ at = "right" => Missing \subseteq Elems(Right)
             /\ at \in Failing => Cardinality(Missing) <= nfailed

\* Older events of a connection are further along: on the topic, in the batch,
\* in the channel.  While a batch is retried, its own events are on the topic.
Written == OnTopic \ {Garbage}
Older(A, B) == \A a \in A : \A b \in B : a.conn = b.conn => a.seq < b.seq
InOrder == /\ Ordered(batch) /\ Ordered(msgCh)
           /\ Older(Elems(batch), Elems(msgCh)) /\ Older(Written, Elems(msgCh))
           /\ at \in {"collect", "full", "done"} => Older(Written, Elems(batch))
           /\ Older(Written \ Elems(batch), Elems(batch))
           /\ \A e \in Elems(msgCh) \union Elems(batch) \union Written : e.seq <= sent[e.conn]

Counted == /\ IsFiniteSet(accepted) /\ \A e \in accepted : e.seq <= sent[e.conn]
           /\ MessagesCounted

Smooth == {"collect", "full", "count", "report", "done"}
Backlog == /\ faults = 0 => produced + Acknowledged = Cardinality(Own) /\ at \in Smooth /\ nfailed = 0
           /\ consumer # "ended" /\ readFaults = 0 => consumed + HandedOut = Cardinality(Read)

\* One partition alone has messages that do not decode, and the consecutive
\* errors of Dequeue are such messages that have been read.
OnlyForeign(t, k) == \A l \in Partitions : l # k => \A i \in 1..Len(t[l]) : t[l][i] # Garbage
Passed(t, o, k) == {i \in 1..o[k] : t[k][i] = Garbage}
BreakerTrips == /\ consumer # "ended" => errors < BreakerLimit
                /\ \E k \in Partitions : OnlyForeign(topic, k) /\ errors <= Cardinality(Passed(topic, offset, k))

KafkaInv == /\ TypeOK /\ InStage /\ CloseOrder /\ BatchKept /\ InOrder /\ Counted
            /\ LossesReported /\ Backlog /\ BreakerTrips /\ EndsOnlyWhenDone

----------------------------------------------------------------------------
\* The halves of the batch, and the sequences that are written one by one.
LEMMA BatchType == ASSUME TypeOK
                   PROVE  /\ batch \in Seq(Event) /\ Len(batch) \in Nat /\ pending \in Seq(Event)
                          /\ Len(pending) \in Nat /\ msgCh \in Seq(Event) /\ Len(msgCh) \in Nat
  BY DEF TypeOK

LEMMA EmptyElems == Elems(<<>>) = {}
  BY DEF Elems

LEMMA LeftFacts ==
    ASSUME TypeOK
    PROVE  /\ Left \in Seq(Event) /\ Len(Left) <= Len(batch) /\ Elems(Left) \subseteq Elems(batch)
           /\ Ordered(batch) => Ordered(Left)
  <1> DEFINE h == Len(batch) \div 2
  <1>t. batch \in Seq(Event) /\ Len(batch) \in Nat
    BY BatchType
  <1>1. h \in Nat /\ h <= Len(batch)
    BY <1>t
  <1> HIDE DEF h
  <1>2. \A i \in 1..h : batch[i] \in Event
    BY <1>t, <1>1
  <1>3. /\ SubSeq(batch, 1, h) \in Seq(Event)
        /\ Len(SubSeq(batch, 1, h)) = IF 1 <= h THEN h - 1 + 1 ELSE 0
        /\ \A i \in 1..h - 1 + 1 : SubSeq(batch, 1, h)[i] = batch[1 + i - 1]
    <2> HIDE <1>t
    <2>1. 1 \in Int /\ h \in Int
      BY <1>1
    <2> QED BY <1>2, <2>1, SubSeqProperties
  <1>4. Left \in Seq(Event) /\ Len(Left) = h /\ \A i \in 1..h : Left[i] = batch[i] /\ i \in 1..Len(batch)
    <2>1. Left = SubSeq(batch, 1, h)
      BY DEF Left, h
    <2>2. h - 1 + 1 = h /\ \A i \in 1..h : 1 + i - 1 = i /\ i \in 1..Len(batch)
      BY <1>1, <1>t
    <2> HIDE DEF Left
    <2>3. Len(Left) = h
      BY <1>1, <1>3, <2>1
    <2>4. ASSUME NEW i \in 1..h PROVE Left[i] = batch[i]
      BY <1>3, <2>1, <2>2
    <2> QED BY <1>3, <2>1, <2>2, <2>3, <2>4
  <1> HIDE DEF Left
  <1>5. ASSUME NEW e \in Elems(Left) PROVE e \in Elems(batch)
    <2>1. PICK i \in 1..Len(Left) : e = Left[i]
      BY <1>4, InElems
    <2> QED BY <1>t, <1>4, <2>1, InElems
  <1>6. Ordered(batch) => Ordered(Left)
    BY <1>4 DEF Ordered
  <1> QED BY <1>1, <1>4, <1>5, <1>6

LEMMA RightFacts ==
    ASSUME TypeOK
    PROVE  /\ Right \in Seq(Event) /\ Len(Right) <= Len(batch) /\ Elems(Right) \subseteq Elems(batch)
           /\ Ordered(batch) => Ordered(Right)
           /\ Elems(batch) \subseteq Elems(Left) \cup Elems(Right)
  <1> DEFINE h == Len(batch) \div 2
             n == Len(batch) - h
  <1>t. batch \in Seq(Event) /\ Len(batch) \in Nat
    BY BatchType
  <1>1. h \in Nat /\ h <= Len(batch) /\ n \in Nat
    BY <1>t
  <1>n. n + h = Len(batch)
    BY <1>t, <1>1
  <1> HIDE DEF h, n
  <1>2. \A i \in h + 1..Len(batch) : batch[i] \in Event
    BY <1>t, <1>1
  <1>3. /\ SubSeq(batch, h + 1, Len(batch)) \in Seq(Event)
        /\ Len(SubSeq(batch, h + 1, Len(batch))) = IF h + 1 <= Len(batch) THEN Len(batch) - (h + 1) + 1 ELSE 0
        /\ \A i \in 1..Len(batch) - (h + 1) + 1 : SubSeq(batch, h + 1, Len(batch))[i] = batch[h + 1 + i - 1]
    <2>1. h + 1 \in Int /\ Len(batch) \in Int
      BY <1>t, <1>1
    <2> HIDE <1>t
    <2> QED BY <1>2, <2>1, SubSeqProperties
  <1>4. Right \in Seq(Event) /\ Len(Right) = n /\ \A i \in 1..n : Right[i] = batch[i + h] /\ i + h \in 1..Len(batch)
    <2>1. Right = SubSeq(batch, h + 1, Len(batch))
      BY DEF Right, h
    <2>2. Len(batch) - (h + 1) + 1 = n /\ \A i \in 1..n : h + 1 + i - 1 = i + h /\ i + h \in 1..Len(batch)
      BY <1>1, <1>t, <1>n
    <2> HIDE DEF Right
    <2>3. Len(Right) = n
      <3>1. (IF h + 1 <= Len(batch) THEN Len(batch) - (h + 1) + 1 ELSE 0) = n
        BY <1>1, <1>t, <1>n
      <3> QED BY <1>3, <2>1, <3>1
    <2>4. ASSUME NEW i \in 1..n PROVE Right[i] = batch[i + h]
      BY <1>3, <2>1, <2>2
    <2> QED BY <1>3, <2>1, <2>2, <2>3, <2>4
  <1>l. Left \in Seq(Event) /\ Len(Left) = h /\ \A i \in 1..h : Left[i] = batch[i]
    BY <1>t, <1>1 DEF Left, h
  <1> HIDE DEF Right
  <1>5. ASSUME NEW e \in Elems(Right) PROVE e \in Elems(batch)
    <2>1. PICK i \in 1..Len(Right) : e = Right[i]
      BY <1>4, InElems
    <2> QED BY <1>t, <1>4, <2>1, InElems
  <1>6. Ordered(batch) => Ordered(Right)
    <2>1. ASSUME Ordered(batch), NEW i \in 1..n, NEW j \in 1..n, i < j, Right[i].conn = Right[j].conn
          PROVE  Right[i].seq < Right[j].seq
      <3>1. i + h < j + h /\ Right[i] = batch[i + h] /\ Right[j] = batch[j + h] /\ i + h \in 1..Len(batch) /\ j + h \in 1..Len(batch)
        BY <1>1, <1>4, <2>1
      <3> QED BY <2>1, <3>1 DEF Ordered
    <2> QED BY <1>4, <2>1 DEF Ordered
  <1>7. ASSUME NEW e \in Elems(batch) PROVE e \in Elems(Left) \cup Elems(Right)
    <2>1. PICK i \in 1..Len(batch) : e = batch[i]
      BY <1>t, InElems
    <2>2. CASE i <= h
      <3>1. i \in 1..h
        BY <1>1, <2>2
      <3> QED BY <1>l, <2>1, <3>1, InElems
    <2>3. CASE ~(i <= h)
      <3>1. i - h \in 1..n /\ (i - h) + h = i
        BY <1>1, <1>t, <1>n, <2>3
      <3> QED BY <1>4, <2>1, <3>1, InElems
    <2> QED BY <2>2, <2>3
  <1>8. Len(Right) <= Len(batch)
    BY <1>1, <1>4, <1>n
  <1> QED BY <1>4, <1>5, <1>6, <1>7, <1>8

LEMMA HeadFacts ==
    ASSUME NEW s \in Seq(Event), s # <<>>
    PROVE  /\ Head(s) \in Event /\ <<Head(s)>> \in Seq(Event) /\ Elems(<<Head(s)>>) = {Head(s)}
           /\ Ordered(<<Head(s)>>) /\ Head(s) \in Elems(s)
           /\ Tail(s) \in Seq(Event) /\ Len(s) \in Nat /\ Len(Tail(s)) \in Nat /\ Len(s) = Len(Tail(s)) + 1
           /\ Elems(s) = Elems(Tail(s)) \cup {Head(s)}
  <1>1. Head(s) \in Event /\ Head(s) = s[1] /\ Len(s) \in Nat /\ 1 \in 1..Len(s)
    OBVIOUS
  <1>2. <<Head(s)>> \in Seq(Event) /\ Len(<<Head(s)>>) = 1 /\ <<Head(s)>>[1] = Head(s)
    BY <1>1
  <1>3. /\ Tail(s) \in Seq(Event) /\ Len(Tail(s)) = Len(s) - 1 /\ Len(Tail(s)) \in Nat
        /\ \A i \in 1..Len(Tail(s)) : Tail(s)[i] = s[i + 1]
    BY <1>1, HeadTailProperties
  <1>4. Elems(<<Head(s)>>) = {Head(s)}
    <2>1. DOMAIN <<Head(s)>> = {1}
      OBVIOUS
    <2> QED BY <1>2, <2>1 DEF Elems
  <1>5. Ordered(<<Head(s)>>)
    BY <1>2 DEF Ordered
  <1>6. ASSUME NEW e PROVE e \in Elems(s) <=> e \in Elems(Tail(s)) \cup {Head(s)}
    <2>1. e \in Elems(s) <=> \E i \in 1..Len(s) : e = s[i]
      BY InElems
    <2>2. e \in Elems(Tail(s)) <=> \E i \in 1..Len(Tail(s)) : e = Tail(s)[i]
      <3>1. Tail(s) \in Seq(Event)
        BY <1>3
      <3> HIDE <1>1, <1>2, <1>3
      <3> QED BY <3>1, InElems, ZenonT(60)
    <2>3. ASSUME NEW i \in 1..Len(s), e = s[i] PROVE e \in Elems(Tail(s)) \cup {Head(s)}
      <3>1. CASE i = 1
        BY <1>1, <2>3, <3>1
      <3>2. CASE i # 1
        <4>1. i - 1 \in 1..Len(Tail(s)) /\ (i - 1) + 1 = i
          BY <1>1, <1>3, <3>2
        <4> QED BY <1>3, <2>2, <2>3, <4>1
      <3> QED BY <3>1, <3>2
    <2>4. \A i \in 1..Len(Tail(s)) : i + 1 \in 1..Len(s)
      BY <1>1, <1>3
    <2> QED BY <1>1, <1>3, <2>1, <2>2, <2>3, <2>4
  <1>7. Len(s) = Len(Tail(s)) + 1
    BY <1>1, <1>3
  <1> QED BY <1>1, <1>2, <1>3, <1>4, <1>5, <1>6, <1>7

----------------------------------------------------------------------------
(***************************************************************************)
(* What the steps of produceLoop have in common: a write of messages of    *)
(* the batch, after which the loop goes on with the batch or is over with  *)
(* n failed messages, which it has still to count.                         *)
(***************************************************************************)
AddsOf(ms) == /\ ms \in Seq(Event) /\ Elems(ms) \subseteq Elems(batch)
              /\ Ordered(batch) => Ordered(ms)
              /\ Adds(ms) /\ faults' \in 0..MaxFaults
              /\ faults' = 0 => faults = 0

GoesOn == /\ Loops /\ UNCHANGED <<msgCh, batch, produced, overflow>>
          /\ at \in WriteStages /\ at' \in WriteStages \ {"full"} /\ \E ms : AddsOf(ms)
          /\ at = "full" => faults' # 0

Ends(n) == /\ Over(n) /\ at \in WriteStages /\ n \in 0..Len(batch) /\ \E ms : AddsOf(ms)
           /\ Cardinality(Elems(batch) \ TopicSet(topic')) <= n
           /\ at = "full" => n = 0 /\ Cardinality(OwnOf(topic')) = Cardinality(OwnOf(topic)) + Len(batch)

LEMMA WriteOKOf ==
    ASSUME TypeOK, NEW ms \in Seq(Event), Elems(ms) \subseteq Elems(batch),
           Ordered(batch) => Ordered(ms), WriteOK(ms)
    PROVE  AddsOf(ms) /\ Elems(ms) \subseteq TopicSet(topic')
  <1>1. faults \in 0..MaxFaults
    BY DEF TypeOK
  <1>2. Adds(ms) /\ Elems(ms) \subseteq TopicSet(topic') /\ faults' = faults
    BY WriteOKAdds
  <1> QED BY <1>1, <1>2 DEF AddsOf

LEMMA WriteFailsOf ==
    ASSUME TypeOK, NEW ms \in Seq(Event), Elems(ms) \subseteq Elems(batch),
           Ordered(batch) => Ordered(ms), WriteFails(ms)
    PROVE  AddsOf(ms) /\ faults' # 0
  <1>1. MaxFaults \in Nat
    BY KafkaQueueAssumption
  <1>2. Adds(ms) /\ faults' \in 1..MaxFaults
    BY WriteFailsAdds
  <1>3. faults' \in 0..MaxFaults /\ faults' # 0
    BY <1>1, <1>2
  <1> QED BY <1>2, <1>3 DEF AddsOf

LEMMA NoWriteOf ==
    ASSUME TypeOK, UNCHANGED cluster
    PROVE  AddsOf(<<>>)
  <1>1. topic' = topic /\ faults' = faults /\ faults \in 0..MaxFaults /\ topic \in Topics
    BY TopicType DEF cluster, TypeOK
  <1>2. \A k \in Partitions : Len(topic[k]) \in Nat
    BY <1>1 DEF Topics
  <1>3. \A k \in Partitions : Len(topic[k]) + 1..Len(topic[k]) = {}
    BY <1>2
  <1>4. Grown(topic, topic)
    BY <1>2 DEF Grown
  <1>5. FromBatch(topic, topic, <<>>, Len(<<>>)) /\ NewInOrder(topic, topic)
    BY <1>3 DEF FromBatch, NewInOrder
  <1>6. Ordered(<<>>) /\ <<>> \in Seq(Event)
    BY DEF Ordered
  <1>7. Adds(<<>>)
    BY <1>1, <1>4, <1>5, <1>6, EmptyElems DEF Adds
  <1> QED BY <1>1, <1>6, <1>7, EmptyElems DEF AddsOf

\* Nothing of the batch is missing when it is written, and no more than failed.
LEMMA NothingMissing ==
    ASSUME NEW S, NEW T, S \subseteq T PROVE Cardinality(S \ T) <= 0
  <1>1. S \ T = {}
    OBVIOUS
  <1> QED BY <1>1, FS_EmptySet

LEMMA AtMostMissing ==
    ASSUME TypeOK, NEW T
    PROVE  IsFiniteSet(Elems(batch) \ T) /\ Cardinality(Elems(batch) \ T) <= Len(batch)
  <1>1. IsFiniteSet(Elems(batch)) /\ Cardinality(Elems(batch)) <= Len(batch) /\ Len(batch) \in Nat
    BY BatchType, ElemsFinite
  <1>2. IsFiniteSet(Elems(batch) \ T) /\ Cardinality(Elems(batch) \ T) <= Cardinality(Elems(batch))
    BY <1>1, FS_Subset
  <1>3. Cardinality(Elems(batch)) \in Nat /\ Cardinality(Elems(batch) \ T) \in Nat
    BY <1>1, <1>2, FS_CardinalityType
  <1> QED BY <1>1, <1>2, <1>3

\* The whole batch: the first try, a retry and a single message.
LEMMA WholeBatch ==
    ASSUME TypeOK, at \in WriteStages, WriteOK(batch), Over(0)
    PROVE  Ends(0)
  <1>1. batch \in Seq(Event) /\ Len(batch) \in Nat
    BY BatchType
  <1>2. AddsOf(batch) /\ Elems(batch) \subseteq TopicSet(topic')
    BY <1>1, WriteOKOf
  <1>3. Cardinality(OwnOf(topic')) = Cardinality(OwnOf(topic)) + Len(batch)
    BY <1>1, WriteOKAdds
  <1>4. Cardinality(Elems(batch) \ TopicSet(topic')) <= 0
    BY <1>2, NothingMissing
  <1>5. 0 \in 0..Len(batch)
    BY <1>1
  <1> QED BY <1>2, <1>3, <1>4, <1>5 DEF Ends

LEMMA WriteFullOutcome == ASSUME TypeOK, WriteFull PROVE GoesOn \/ \E n : Ends(n)
  <1>b. batch \in Seq(Event)
    BY BatchType
  <1>1. CASE at = "full" /\ WriteOK(batch) /\ Over(0)
    BY <1>1, WholeBatch DEF WriteStages
  <1>2. CASE Writes("full") /\ WriteFails(batch) /\ Goes("retry") /\ UNCHANGED <<attempt, pending, nfailed>>
    <2>1. AddsOf(batch) /\ faults' # 0
      BY <1>b, <1>2, WriteFailsOf
    <2> QED BY <1>2, <2>1 DEF GoesOn, Writes, Goes, WriteStages
  <1> QED BY <1>1, <1>2 DEF WriteFull

LEMMA RetryOutcome == ASSUME TypeOK, Retry \/ RetryAbandoned PROVE GoesOn \/ \E n : Ends(n)
  <1>b. batch \in Seq(Event)
    BY BatchType
  <1>h. Halves \in {"left", "single"}
    BY DEF Halves
  <1>1. CASE at = "retry" /\ WriteOK(batch) /\ Over(0)
    BY <1>1, WholeBatch DEF WriteStages
  <1>2. CASE /\ Writes("retry") /\ WriteFails(batch) /\ UNCHANGED <<pending, nfailed>>
             /\ \/ attempt + 1 < MaxRetries /\ attempt' = attempt + 1 /\ Goes("retry")
                \/ Goes(Halves) /\ attempt' = 0
    <2>1. AddsOf(batch)
      BY <1>b, <1>2, WriteFailsOf
    <2> QED BY <1>2, <1>h, <2>1 DEF GoesOn, Writes, Goes, WriteStages
  <1>3. CASE RetryAbandoned
    <2>1. AddsOf(<<>>)
      BY <1>3, NoWriteOf DEF RetryAbandoned
    <2> QED BY <1>3, <1>h, <2>1 DEF RetryAbandoned, GoesOn, Writes, Goes, WriteStages
  <1> QED BY <1>1, <1>2, <1>3 DEF Retry

LEMMA WriteSingleOutcome == ASSUME TypeOK, InStage, WriteSingle PROVE \E n : Ends(n)
  <1>b. batch \in Seq(Event) /\ Len(batch) \in Nat
    BY BatchType
  <1>1. CASE at = "single" /\ WriteOK(batch) /\ Over(0)
    BY <1>1, WholeBatch DEF WriteStages
  <1>2. CASE at = "single" /\ WriteFails(batch) /\ Over(1)
    <2>1. AddsOf(batch)
      BY <1>b, <1>2, WriteFailsOf
    <2>2. Len(batch) = 1
      BY <1>2 DEF InStage
    <2>3. Cardinality(Elems(batch) \ TopicSet(topic')) <= 1
      BY <2>2, AtMostMissing
    <2>4. Ends(1)
      BY <1>2, <2>1, <2>2, <2>3 DEF Ends, WriteStages
    <2> QED BY <2>4
  <1> QED BY <1>1, <1>2 DEF WriteSingle

LEMMA WriteLeftOutcome == ASSUME TypeOK, WriteLeft PROVE GoesOn
  <1>1. \E ms : AddsOf(ms)
    <2>1. CASE WriteOK(Left)
      BY <2>1, LeftFacts, WriteOKOf
    <2>2. CASE WriteFails(Left)
      BY <2>2, LeftFacts, WriteFailsOf
    <2> QED BY <2>1, <2>2 DEF WriteLeft
  <1> QED BY <1>1 DEF WriteLeft, GoesOn, Writes, Goes, WriteStages

LEMMA WriteRightOutcome ==
    ASSUME TypeOK, InStage, BatchKept, WriteRight
    PROVE  GoesOn \/ \E n : Ends(n)
  <1>b. Len(batch) \in Nat /\ topic \in Topics /\ OnTopic = TopicSet(topic)
    BY BatchType, TopicType
  <1>1. CASE at = "right" /\ pending = <<>> /\ WriteOK(Right) /\ Over(0)
    <2>1. AddsOf(Right) /\ Elems(Right) \subseteq TopicSet(topic')
      BY <1>1, RightFacts, WriteOKOf
    <2>2. Elems(batch) \subseteq TopicSet(topic')
      <3>1. Elems(batch) \ TopicSet(topic) \subseteq Elems(Right)
        BY <1>b, <1>1, EmptyElems DEF BatchKept, Missing
      <3>2. TopicSet(topic) \subseteq TopicSet(topic')
        BY <2>1 DEF AddsOf, Adds
      <3> QED BY <2>1, <3>1, <3>2
    <2>3. Cardinality(Elems(batch) \ TopicSet(topic')) <= 0
      BY <2>2, NothingMissing
    <2>4. Ends(0)
      BY <1>b, <1>1, <2>1, <2>3 DEF Ends, WriteStages
    <2> QED BY <2>4
  <1>2. CASE at = "right" /\ pending # <<>> /\ WriteFails(Right) /\ Over(Len(batch))
    <2>1. AddsOf(Right)
      BY <1>2, RightFacts, WriteFailsOf
    <2>2. Cardinality(Elems(batch) \ TopicSet(topic')) <= Len(batch)
      BY AtMostMissing
    <2>3. Ends(Len(batch))
      BY <1>b, <1>2, <2>1, <2>2 DEF Ends, WriteStages
    <2> QED BY <2>3
  <1>3. CASE /\ Writes("right") /\ Goes("each") /\ UNCHANGED <<attempt, nfailed>>
             /\ \/ pending # <<>> /\ WriteOK(Right) /\ UNCHANGED pending
                \/ pending = <<>> /\ WriteFails(Right) /\ pending' = Right
    <2>1. \E ms : AddsOf(ms)
      <3>1. CASE WriteOK(Right)
        BY <3>1, RightFacts, WriteOKOf
      <3>2. CASE WriteFails(Right)
        BY <3>2, RightFacts, WriteFailsOf
      <3> QED BY <1>3, <3>1, <3>2
    <2> QED BY <1>3, <2>1 DEF GoesOn, Writes, Goes, WriteStages
  <1> QED BY <1>1, <1>2, <1>3 DEF WriteRight

LEMMA WriteEachOutcome ==
    ASSUME TypeOK, InStage, BatchKept, WriteEach
    PROVE  GoesOn \/ \E n : Ends(n)
  <1>b. Len(batch) \in Nat /\ pending \in Seq(Event) /\ nfailed \in Nat /\ OnTopic = TopicSet(topic)
    BY BatchType, TopicType, SMTT(30) DEF TypeOK
  <1>1. CASE /\ Writes("each") /\ pending # <<>> /\ Goes("each") /\ pending' = Tail(pending) /\ UNCHANGED attempt
             /\ \/ WriteOK(<<Head(pending)>>) /\ UNCHANGED nfailed
                \/ WriteFails(<<Head(pending)>>) /\ nfailed' = nfailed + 1
    <2>1. /\ <<Head(pending)>> \in Seq(Event) /\ Ordered(<<Head(pending)>>)
          /\ Elems(<<Head(pending)>>) \subseteq Elems(batch)
      <3>1. /\ <<Head(pending)>> \in Seq(Event) /\ Ordered(<<Head(pending)>>)
            /\ Elems(<<Head(pending)>>) = {Head(pending)} /\ Head(pending) \in Elems(pending)
        BY <1>b, <1>1, HeadFacts
      <3>2. Elems(pending) \subseteq Elems(batch)
        BY DEF InStage
      <3> QED BY <3>1, <3>2
    <2>2. \E ms : AddsOf(ms)
      <3>1. CASE WriteOK(<<Head(pending)>>)
        BY <2>1, <3>1, WriteOKOf
      <3>2. CASE WriteFails(<<Head(pending)>>)
        BY <2>1, <3>2, WriteFailsOf
      <3> QED BY <1>1, <3>1, <3>2
    <2> QED BY <1>1, <2>2 DEF GoesOn, Writes, Goes, WriteStages
  <1>2. CASE at = "each" /\ pending = <<>> /\ Over(nfailed) /\ UNCHANGED cluster
    <2>1. AddsOf(<<>>) /\ topic' = topic
      BY <1>2, NoWriteOf DEF cluster
    <2>2. Cardinality(Elems(batch) \ TopicSet(topic)) <= nfailed
      <3>1. Missing = Elems(batch) \ TopicSet(topic)
        BY <1>b, <1>2, EmptyElems DEF Missing
      <3> QED BY <1>2, <3>1 DEF BatchKept, Failing
    <2>3. nfailed \in 0..Len(batch)
      <3>1. nfailed + Len(pending) <= Len(batch) /\ Len(pending) = 0
        BY <1>2 DEF InStage, Failing
      <3> QED BY <1>b, <3>1
    <2>4. Ends(nfailed)
      <3>1. Cardinality(Elems(batch) \ TopicSet(topic')) <= nfailed
        BY <2>1, <2>2
      <3> QED BY <1>2, <2>1, <2>3, <3>1 DEF Ends, WriteStages
    <2> QED BY <2>4
  <1> QED BY <1>1, <1>2 DEF WriteEach

LEMMA LoopOutcome ==
    ASSUME TypeOK, InStage, BatchKept, produceLoop
    PROVE  Receive \/ Flush \/ LoopEnds \/ GoesOn \/ (\E n : Ends(n)) \/ CountProduced \/ ReportFailed
  BY WriteFullOutcome, RetryOutcome, WriteSingleOutcome, WriteLeftOutcome, WriteRightOutcome, WriteEachOutcome
     DEF produceLoop

\* A write that is over has one of these outcomes.
LEMMA OverEnds == ASSUME TypeOK, InStage, BatchKept, produceLoop, NEW n, Over(n) PROVE \E m : Ends(m)
  <1>1. at' = "count"
    BY DEF Over
  <1>2. ~GoesOn
    BY <1>1 DEF GoesOn, WriteStages
  <1>3. ~Receive /\ ~Flush /\ ~LoopEnds /\ ~CountProduced /\ ~ReportFailed
    BY <1>1 DEF Receive, Flush, LoopEnds, CountProduced, ReportFailed, NextBatch
  <1> QED BY <1>2, <1>3, LoopOutcome

----------------------------------------------------------------------------
(***************************************************************************)
(* One lemma for each part of the invariant: a step preserves it.          *)
(***************************************************************************)
LEMMA EndsStage == ASSUME TypeOK, NEW n, Ends(n) PROVE InStage' /\ BatchKept'
  <1>1. /\ at' = "count" /\ pending' = <<>> /\ nfailed' = n /\ batch' = batch /\ n \in 0..Len(batch)
        /\ Cardinality(Elems(batch) \ TopicSet(topic')) <= n
    BY DEF Ends, Over
  <1>2. Elems(pending)' \subseteq Elems(batch)'
    BY <1>1, EmptyElems
  <1>3. nfailed' + Len(pending') <= Len(batch')
    <2>1. Len(batch) \in Nat /\ Len(<<>>) = 0
      BY BatchType
    <2> QED BY <1>1, <2>1
  <1>4. Missing' = Elems(batch) \ TopicSet(topic')
    <2>1. OnTopic' = TopicSet(topic') /\ Elems(pending') = {}
      BY <1>1, EmptyElems DEF OnTopic, TopicSet
    <2> QED BY <1>1, <2>1 DEF Missing, Elems
  <1>5. InStage'
    BY <1>1, <1>2, <1>3 DEF InStage, WriteStages, Failing
  <1>6. BatchKept'
    BY <1>1, <1>4 DEF BatchKept, Failing
  <1> QED BY <1>5, <1>6

LEMMA CountStage ==
    ASSUME TypeOK, InStage, BatchKept, CountProduced
    PROVE  InStage' /\ BatchKept'
  <1>1. at = "count" /\ at' = "report" /\ UNCHANGED <<batch, pending, nfailed, topic>>
    BY DEF CountProduced, cluster
  <1>2. InStage'
    BY <1>1 DEF InStage, WriteStages, Failing, Elems
  <1>3. Missing' = Missing
    BY <1>1 DEF Missing, OnTopic, Elems
  <1>4. BatchKept'
    BY <1>1, <1>3 DEF BatchKept, Failing
  <1> QED BY <1>2, <1>4

LEMMA ReportStage ==
    ASSUME TypeOK, InStage, ReportFailed
    PROVE  InStage' /\ BatchKept'
  <1>1. at = "report" /\ at' = "collect" /\ nfailed' = 0 /\ batch' = <<>> /\ UNCHANGED pending
    BY DEF ReportFailed, NextBatch
  <1>2. pending = <<>>
    BY <1>1 DEF InStage
  <1>3. Elems(pending)' \subseteq Elems(batch)'
    BY <1>1, <1>2, EmptyElems
  <1> QED BY <1>1, <1>2, <1>3 DEF InStage, BatchKept, WriteStages, Failing

LEMMA InStageStep ==
    ASSUME TypeOK, InStage, CloseOrder, BatchKept, [Next]_vars
    PROVE  InStage'
  <1>t. /\ batch \in Seq(Event) /\ Len(batch) \in Nat /\ pending \in Seq(Event) /\ Len(pending) \in Nat
        /\ nfailed \in Nat
    BY BatchType DEF TypeOK
  <1>f. ASSUME NEW n, Over(n), produceLoop PROVE InStage'
    BY <1>f, OverEnds, EndsStage
  <1>u. CASE UNCHANGED <<msgCh, batch, at, pending, nfailed, chClosed>>
    BY <1>u DEF InStage, Left, Elems
  <1>1. CASE \E p \in Producers : EnqueueSend(p)
    <2>1. UNCHANGED <<batch, at, pending, nfailed, chClosed>> /\ ~closed
      BY <1>1 DEF EnqueueSend, Offers, loop
    <2>2. at # "done"
      BY <2>1 DEF InStage, CloseOrder
    <2> QED BY <2>1, <2>2 DEF InStage, Left, Elems
  <1>2. CASE Receive
    <2>1. at = "collect" /\ UNCHANGED <<at, pending, nfailed, chClosed>>
      BY <1>2 DEF Receive, Loops
    <2>2. pending = <<>>
      BY <2>1 DEF InStage
    <2>3. Elems(pending)' \subseteq Elems(batch)'
      BY <2>1, <2>2, EmptyElems
    <2> QED BY <2>1, <2>2, <2>3 DEF InStage, WriteStages, Failing
  <1>3. CASE Flush
    <2>1. at = "collect" /\ at' = "full" /\ batch # <<>> /\ UNCHANGED <<msgCh, batch, pending, nfailed, chClosed>>
      BY <1>3 DEF Flush, Loops
    <2>2. pending = <<>>
      BY <2>1 DEF InStage
    <2>3. Elems(pending)' \subseteq Elems(batch)'
      BY <2>1, <2>2, EmptyElems
    <2> QED BY <2>1, <2>2, <2>3 DEF InStage, WriteStages, Failing
  <1>4. CASE LoopEnds
    <2>1. /\ at = "collect" /\ at' = "done" /\ batch = <<>> /\ msgCh = <<>> /\ chClosed
          /\ UNCHANGED <<msgCh, batch, pending, nfailed, chClosed>>
      BY <1>4 DEF LoopEnds, Loops
    <2>2. pending = <<>>
      BY <2>1 DEF InStage
    <2>3. Elems(pending)' \subseteq Elems(batch)'
      BY <2>1, <2>2, EmptyElems
    <2> QED BY <2>1, <2>2, <2>3 DEF InStage, WriteStages, Failing
  <1>h. at \in WriteStages => (Halves = "single" => Len(batch) = 1) /\ Halves \in {"left", "single"}
    <2>1. at \in WriteStages => batch # <<>>
      BY DEF InStage
    <2>2. batch # <<>> => Len(batch) # 0
      BY <1>t
    <2>3. Halves \in {"left", "single"} /\ (Halves = "single" => ~(Len(batch) > 1))
      <3>1. CASE Len(batch) > 1
        <4>1. Halves = "left"
          BY <3>1 DEF Halves
        <4>2. "left" # "single"
          OBVIOUS
        <4> QED BY <4>1, <4>2
      <3>2. CASE ~(Len(batch) > 1)
        <4>1. Halves = "single"
          BY <3>2 DEF Halves
        <4> QED BY <3>2, <4>1
      <3> QED BY <3>1, <3>2
    <2>4. Len(batch) # 0 /\ ~(Len(batch) > 1) => Len(batch) = 1
      <3>1. \A x \in Nat : x # 0 /\ ~(x > 1) => x = 1
        OBVIOUS
      <3>2. Len(batch) \in Nat
        BY <1>t
      <3> QED BY <3>1, <3>2
    <2> QED BY <2>1, <2>2, <2>3, <2>4
  <1>g. ASSUME at \in {"full", "retry"}, at' \in {"retry", Halves}, UNCHANGED <<batch, pending, nfailed>>
        PROVE  InStage'
    <2>1. pending = <<>> /\ nfailed = 0 /\ batch # <<>> /\ at \in WriteStages
      BY <1>g DEF InStage, WriteStages, Failing
    <2>2. Elems(pending)' \subseteq Elems(batch)'
      BY <1>g, <2>1, EmptyElems
    <2>3. at' \in {"retry", "left", "single"} /\ (at' = "single" => Len(batch) = 1)
      BY <1>g, <1>h, <2>1
    <2> QED BY <1>g, <2>1, <2>2, <2>3 DEF InStage
  <1>5. CASE WriteFull
    BY <1>5, <1>f, <1>g DEF WriteFull, Writes, Goes, produceLoop
  <1>6. CASE Retry
    BY <1>6, <1>f, <1>g DEF Retry, Writes, Goes, produceLoop
  <1>7. CASE RetryAbandoned
    BY <1>7, <1>g DEF RetryAbandoned, Writes, Goes
  <1>8. CASE WriteSingle
    BY <1>8, <1>f DEF WriteSingle, produceLoop
  <1>9. CASE WriteLeft
    <2>1. at = "left" /\ at' = "right" /\ UNCHANGED <<batch, nfailed>> /\ (UNCHANGED pending \/ pending' = Left)
      BY <1>9 DEF WriteLeft, Writes, Goes
    <2>2. pending = <<>> /\ nfailed = 0 /\ batch # <<>>
      BY <2>1 DEF InStage, WriteStages, Failing
    <2>3. Left' = Left
      BY <2>1 DEF Left
    <2>4. Elems(pending') \subseteq Elems(batch)
      BY <2>1, <2>2, EmptyElems, LeftFacts
    <2> QED BY <2>1, <2>2, <2>3, <2>4 DEF InStage, Elems, Failing
  <1>10. CASE WriteRight
    <2>1. CASE /\ Writes("right") /\ Goes("each") /\ UNCHANGED <<attempt, nfailed>>
               /\ \/ pending # <<>> /\ WriteOK(Right) /\ UNCHANGED pending
                  \/ pending = <<>> /\ WriteFails(Right) /\ pending' = Right
      <3>1. /\ at = "right" /\ at' = "each" /\ UNCHANGED <<batch, nfailed>>
            /\ (pending # <<>> /\ UNCHANGED pending) \/ pending' = Right
        BY <2>1 DEF Writes, Goes
      <3>2. nfailed = 0 /\ batch # <<>> /\ (pending = <<>> \/ pending = Left)
        BY <3>1 DEF InStage, WriteStages, Failing
      <3>3. Elems(pending') \subseteq Elems(batch) /\ Len(pending') <= Len(batch) /\ Len(pending') \in Nat
        BY <3>1, <3>2, LeftFacts, RightFacts
      <3>4. nfailed' + Len(pending') <= Len(batch')
        BY <1>t, <3>1, <3>2, <3>3
      <3> QED BY <3>1, <3>2, <3>3, <3>4 DEF InStage, Elems, Failing
    <2> QED BY <1>10, <1>f, <2>1 DEF WriteRight, produceLoop
  <1>11. CASE WriteEach
    <2>1. CASE /\ Writes("each") /\ pending # <<>> /\ Goes("each") /\ pending' = Tail(pending) /\ UNCHANGED attempt
               /\ \/ WriteOK(<<Head(pending)>>) /\ UNCHANGED nfailed
                  \/ WriteFails(<<Head(pending)>>) /\ nfailed' = nfailed + 1
      <3>1. /\ at = "each" /\ at' = "each" /\ UNCHANGED batch /\ pending # <<>> /\ pending' = Tail(pending)
            /\ nfailed' \in {nfailed, nfailed + 1}
        BY <2>1 DEF Writes, Goes
      <3>2. nfailed + Len(pending) <= Len(batch) /\ batch # <<>> /\ Elems(pending) \subseteq Elems(batch)
        BY <3>1 DEF InStage, WriteStages, Failing
      <3>3. /\ Len(pending') \in Nat /\ Len(pending) = Len(pending') + 1
            /\ Elems(pending') \subseteq Elems(pending)
        BY <1>t, <3>1, HeadFacts
      <3>4. nfailed' + Len(pending') <= Len(batch')
        BY <1>t, <3>1, <3>2, <3>3
      <3> QED BY <3>1, <3>2, <3>3, <3>4 DEF InStage, Elems, Failing
    <2> QED BY <1>11, <1>f, <2>1 DEF WriteEach, produceLoop
  <1>12. CASE CloseChannel
    <2>1. UNCHANGED <<msgCh, batch, at, pending, nfailed>> /\ chClosed'
      BY <1>12 DEF CloseChannel, Closes, loop
    <2> QED BY <2>1 DEF InStage, Left, Elems
  <1>13. CASE CountProduced \/ ReportFailed
    BY <1>13, CountStage, ReportStage
  <1> QED BY <1>u, <1>1, <1>2, <1>3, <1>4, <1>5, <1>6, <1>7, <1>8, <1>9, <1>10, <1>11, <1>12, <1>13
          DEF Next, vars, loop, produceLoop, EnqueueClosed, EnqueueFull, Offers, Dequeue, DequeueStart, DequeueFails,
              DequeueCounts, DequeueEvent, DequeueSkips, DequeueBreaks, Fetches, DequeueCancelled, Reads, Close, CloseReturn, Closes

LEMMA CloseOrderStep ==
    ASSUME TypeOK, CloseOrder, [Next]_vars
    PROVE  CloseOrder'
  <1>1. CASE Close
    BY <1>1, Zenon DEF Close, Closes, CloseOrder
  <1>2. CASE CloseChannel
    BY <1>2, Zenon DEF CloseChannel, Closes, CloseOrder
  <1>3. CASE CloseReturn
    BY <1>3 DEF CloseReturn, Closes, CloseOrder
  <1>4. CASE UNCHANGED <<closed, chClosed, closer>>
    BY <1>4 DEF CloseOrder
  <1>5. CASE produceLoop
    <2>1. UNCHANGED <<closed, chClosed, closer>>
      BY <1>5 DEF produceLoop, Receive, Flush, LoopEnds, WriteFull, RetryAbandoned, Retry, WriteSingle, WriteLeft,
                  WriteRight, WriteEach, CountProduced, ReportFailed, NextBatch, Writes, Over, Loops
    <2> QED BY <1>4, <2>1
  <1> QED BY <1>1, <1>2, <1>3, <1>4, <1>5
          DEF Next, vars, EnqueueClosed, EnqueueSend, EnqueueFull, Offers, Dequeue, DequeueStart, DequeueFails,
              DequeueCounts, DequeueEvent, DequeueSkips, DequeueBreaks, Fetches, DequeueCancelled, Reads

LEMMA BatchKeptStep ==
    ASSUME TypeOK, InStage, BatchKept, [Next]_vars
    PROVE  BatchKept'
  <1>t. /\ batch \in Seq(Event) /\ pending \in Seq(Event) /\ nfailed \in Nat
        /\ OnTopic = TopicSet(topic) /\ OnTopic' = TopicSet(topic')
    BY BatchType DEF TypeOK, OnTopic, TopicSet
  <1>f. ASSUME NEW n, Over(n), produceLoop PROVE BatchKept'
    BY <1>f, OverEnds, EndsStage
  <1>u. CASE UNCHANGED <<batch, at, pending, nfailed, topic>>
    <2>1. Missing' = Missing
      <3>1. OnTopic' = OnTopic /\ Elems(batch)' = Elems(batch) /\ Elems(pending)' = Elems(pending)
        BY <1>u, <1>t
      <3> QED BY <3>1 DEF Missing
    <2>2. Elems(Right)' = Elems(Right)
      BY <1>u, Zenon DEF Right, Elems
    <2> QED BY <1>u, <2>1, <2>2 DEF BatchKept
  <1>o. CASE at' \notin {"right"} \cup Failing
    BY <1>o DEF BatchKept
  <1>h. Halves \in {"left", "single"}
    BY DEF Halves
  <1>1. CASE WriteLeft
    <2>1. at' = "right" /\ UNCHANGED batch
      BY <1>1 DEF WriteLeft, Writes, Goes
    <2>2. Right' = Right
      BY <2>1 DEF Right
    <2>3. Elems(Left) \subseteq TopicSet(topic') \cup Elems(pending')
      <3>1. CASE WriteOK(Left)
        BY <3>1, LeftFacts, WriteOKAdds
      <3>2. CASE pending' = Left
        BY <3>2
      <3> QED BY <1>1, <3>1, <3>2 DEF WriteLeft
    <2>4. Missing' \subseteq Elems(Right)
      <3>1. Missing' = Elems(batch) \ (TopicSet(topic') \cup Elems(pending'))
        BY <1>t, <2>1 DEF Missing, Elems
      <3> QED BY <2>3, <3>1, RightFacts
    <2>5. Elems(Right)' = Elems(Right)
      BY <2>2 DEF Elems
    <2> QED BY <2>1, <2>4, <2>5 DEF BatchKept, Failing
  <1>2. CASE WriteRight
    <2>1. CASE /\ Writes("right") /\ Goes("each") /\ UNCHANGED <<attempt, nfailed>>
               /\ \/ pending # <<>> /\ WriteOK(Right) /\ UNCHANGED pending
                  \/ pending = <<>> /\ WriteFails(Right) /\ pending' = Right
      <3>1. at = "right" /\ at' = "each" /\ UNCHANGED <<batch, nfailed>>
        BY <2>1 DEF Writes, Goes
      <3>2. Elems(batch) \ (TopicSet(topic) \cup Elems(pending)) \subseteq Elems(Right)
        BY <1>t, <3>1 DEF BatchKept, Missing
      <3>3. Elems(batch) \subseteq TopicSet(topic') \cup Elems(pending')
        <4>1. CASE WriteOK(Right) /\ UNCHANGED pending
          <5>1. TopicSet(topic) \subseteq TopicSet(topic') /\ Elems(Right) \subseteq TopicSet(topic')
            BY <4>1, RightFacts, WriteOKAdds DEF Adds
          <5> QED BY <3>2, <4>1, <5>1
        <4>2. CASE pending = <<>> /\ WriteFails(Right) /\ pending' = Right
          <5>1. TopicSet(topic) \subseteq TopicSet(topic')
            BY <4>2, RightFacts, WriteFailsAdds DEF Adds
          <5> QED BY <3>2, <4>2, <5>1, EmptyElems
        <4> QED BY <2>1, <4>1, <4>2
      <3>4. Missing' = {}
        <4>1. Missing' = Elems(batch) \ (TopicSet(topic') \cup Elems(pending'))
          BY <1>t, <3>1 DEF Missing, Elems
        <4> QED BY <3>3, <4>1
      <3>5. Cardinality(Missing') = 0
        BY <3>4, FS_EmptySet
      <3>6. nfailed' = 0
        BY <3>1 DEF InStage, Failing
      <3> QED BY <3>1, <3>5, <3>6 DEF BatchKept, Failing
    <2> QED BY <1>2, <1>f, <2>1 DEF WriteRight, produceLoop
  <1>3. CASE WriteEach
    <2>1. CASE /\ Writes("each") /\ pending # <<>> /\ Goes("each") /\ pending' = Tail(pending) /\ UNCHANGED attempt
               /\ \/ WriteOK(<<Head(pending)>>) /\ UNCHANGED nfailed
                  \/ WriteFails(<<Head(pending)>>) /\ nfailed' = nfailed + 1
      <3>1. at = "each" /\ at' = "each" /\ UNCHANGED batch /\ pending # <<>> /\ pending' = Tail(pending)
        BY <2>1 DEF Writes, Goes
      <3>2. /\ <<Head(pending)>> \in Seq(Event) /\ Elems(<<Head(pending)>>) = {Head(pending)}
            /\ Elems(pending) = Elems(pending') \cup {Head(pending)}
        BY <1>t, <3>1, HeadFacts
      <3>3. Missing = Elems(batch) \ (TopicSet(topic) \cup Elems(pending))
        BY <1>t DEF Missing
      <3>4. Missing' = Elems(batch) \ (TopicSet(topic') \cup Elems(pending'))
        BY <1>t, <3>1 DEF Missing, Elems
      <3>5. IsFiniteSet(Missing) /\ Cardinality(Missing) <= nfailed /\ Cardinality(Missing) \in Nat
        <4>1. IsFiniteSet(Missing)
          BY <3>3, AtMostMissing
        <4> QED BY <3>1, <4>1, FS_CardinalityType DEF BatchKept, Failing
      <3>6. Cardinality(Missing') <= nfailed'
        <4>1. CASE WriteOK(<<Head(pending)>>) /\ UNCHANGED nfailed
          <5>1. TopicSet(topic) \subseteq TopicSet(topic') /\ Head(pending) \in TopicSet(topic')
            BY <3>2, <4>1, WriteOKAdds DEF Adds
          <5>2. Missing' \subseteq Missing
            BY <3>2, <3>3, <3>4, <5>1
          <5>3. Cardinality(Missing') <= Cardinality(Missing) /\ IsFiniteSet(Missing')
            BY <3>5, <5>2, FS_Subset
          <5>4. Cardinality(Missing') \in Nat
            BY <5>3, FS_CardinalityType
          <5>5. \A a, b, c \in Nat : a <= b /\ b <= c => a <= c
            OBVIOUS
          <5> QED BY <1>t, <3>5, <4>1, <5>3, <5>4, <5>5
        <4>2. CASE WriteFails(<<Head(pending)>>) /\ nfailed' = nfailed + 1
          <5>1. TopicSet(topic) \subseteq TopicSet(topic')
            BY <3>2, <4>2, WriteFailsAdds DEF Adds
          <5>2. Missing' \subseteq Missing \cup {Head(pending)}
            BY <3>2, <3>3, <3>4, <5>1
          <5>3. IsFiniteSet(Missing \cup {Head(pending)}) /\ Cardinality(Missing \cup {Head(pending)}) <= Cardinality(Missing) + 1
            BY <3>5, FS_AddElement
          <5>4. IsFiniteSet(Missing') /\ Cardinality(Missing') <= Cardinality(Missing \cup {Head(pending)})
            BY <5>2, <5>3, FS_Subset
          <5>5. Cardinality(Missing') \in Nat /\ Cardinality(Missing \cup {Head(pending)}) \in Nat
            BY <5>3, <5>4, FS_CardinalityType
          <5>6. \A a, b, c, d \in Nat : a <= b /\ b <= c + 1 /\ c <= d => a <= d + 1
            OBVIOUS
          <5> QED BY <1>t, <3>5, <4>2, <5>3, <5>4, <5>5, <5>6
        <4> QED BY <2>1, <4>1, <4>2
      <3> QED BY <3>1, <3>6 DEF BatchKept, Failing
    <2> QED BY <1>3, <1>f, <2>1 DEF WriteEach, produceLoop
  <1>4. CASE Receive \/ Flush \/ LoopEnds
    <2>1. at' \notin {"right"} \cup Failing
      BY <1>4 DEF Receive, Flush, LoopEnds, Failing
    <2> QED BY <1>o, <2>1
  <1>5. CASE WriteFull \/ Retry \/ RetryAbandoned \/ WriteSingle
    BY <1>5, <1>f, <1>o, <1>h DEF WriteFull, Retry, RetryAbandoned, WriteSingle, Writes, Goes, Failing, produceLoop
  <1>6. CASE CountProduced \/ ReportFailed
    BY <1>6, CountStage, ReportStage
  <1> QED BY <1>u, <1>1, <1>2, <1>3, <1>4, <1>5, <1>6
          DEF Next, vars, loop, cluster, produceLoop, EnqueueClosed, EnqueueSend, EnqueueFull, Offers, Dequeue,
              DequeueStart, DequeueCounts, DequeueFails, DequeueEvent, DequeueSkips, DequeueBreaks, Fetches,
              DequeueCancelled, Reads, Close, CloseChannel, CloseReturn, Closes

\* The steps, with those of produceLoop by their outcome.
Calls(p) == EnqueueClosed(p) \/ EnqueueSend(p) \/ EnqueueFull(p)
LoopSteps == \/ Receive \/ Flush \/ LoopEnds \/ GoesOn \/ (\E n : Ends(n))
             \/ CountProduced \/ ReportFailed
Finds(k) == DequeueEvent(k) \/ DequeueSkips(k) \/ DequeueBreaks(k)
ReadSteps == DequeueStart \/ DequeueCounts \/ DequeueFails \/ DequeueCancelled \/ \E k \in Partitions : Finds(k)
CloseSteps == Close \/ CloseChannel \/ CloseReturn

LEMMA NextOutcome ==
    ASSUME TypeOK, InStage, BatchKept, [Next]_vars
    PROVE  (\E p \in Producers : Calls(p)) \/ LoopSteps \/ ReadSteps \/ CloseSteps \/ UNCHANGED vars
  BY LoopOutcome DEF Next, Calls, LoopSteps, ReadSteps, Finds, CloseSteps, Dequeue

\* What each actor leaves alone.
LEMMA CallsFrame == ASSUME NEW p, Calls(p)
                    PROVE  UNCHANGED <<hash, closed, chClosed, batch, at, attempt, pending, nfailed, topic, faults,
                                       produced, closer, offset, consumed, consumer, errors, readFaults, early>>
  BY DEF Calls, EnqueueClosed, EnqueueSend, EnqueueFull, Offers, loop, cluster, reading

LEMMA LoopFrame == ASSUME LoopSteps
                   PROVE  UNCHANGED <<hash, closed, chClosed, closer, offset, consumed, consumer, errors, readFaults,
                                      early, sent, accepted, rejected>>
  BY DEF LoopSteps, Receive, Flush, LoopEnds, GoesOn, Ends, Over, CountProduced, ReportFailed, NextBatch, Loops,
         reading, calls

LEMMA ReadFrame == ASSUME ReadSteps
                   PROVE  UNCHANGED <<hash, closed, msgCh, chClosed, batch, at, attempt, pending, nfailed, topic, faults,
                                      produced, overflow, closer, sent, accepted, rejected>>
  BY DEF ReadSteps, Finds, DequeueStart, DequeueCounts, DequeueFails, DequeueCancelled, DequeueEvent, DequeueSkips,
         DequeueBreaks, Fetches, Reads, loop, cluster, calls

LEMMA CloseFrame == ASSUME CloseSteps
                    PROVE  UNCHANGED <<hash, msgCh, batch, at, attempt, pending, nfailed, topic, faults, produced,
                                       overflow, offset, consumed, consumer, errors, readFaults, early,
                                       sent, accepted, rejected>>
  BY DEF CloseSteps, Close, CloseChannel, CloseReturn, Closes, loop, cluster, reading, calls

LEMMA StutterFrame == ASSUME UNCHANGED vars
                      PROVE  UNCHANGED <<hash, closed, msgCh, chClosed, batch, at, attempt, pending, nfailed, topic,
                                         faults, produced, overflow, closer, offset, consumed, consumer, errors,
                                         readFaults, early, sent, accepted, rejected>>
  BY DEF vars, loop, cluster, reading, calls

----------------------------------------------------------------------------
\* Type correctness, one part of the state at a time.
FlagsOK == /\ hash \in [Producers -> Partitions] /\ closed \in BOOLEAN /\ chClosed \in BOOLEAN
           /\ closer \in {"none", "closing", "waiting", "returned"}
ChannelOK == msgCh \in Seq(Event) /\ Len(msgCh) <= BufferSize
BatchOK == batch \in Seq(Event) /\ Len(batch) <= BatchCap /\ at \in Stages
RetryOK == attempt \in 0..MaxRetries /\ pending \in Seq(Event) /\ nfailed \in 0..BatchCap
TopicOK == topic \in Topics /\ faults \in 0..MaxFaults
OffsetsOK == offset \in [Partitions -> Nat] /\ \A k \in Partitions : offset[k] <= Len(topic[k])
CountersOK == produced \in Nat /\ consumed \in Nat /\ overflow \in Nat /\ rejected \in Nat /\ readFaults \in Nat
ReaderOK == /\ consumer \in {"idle", "reading", "counting", "skipping", "ended"}
            /\ errors \in 0..BreakerLimit /\ early \in BOOLEAN
CallsOK == sent \in [Producers -> 0..MaxSeq] /\ accepted \subseteq Event

LEMMA TypeParts ==
    TypeOK <=> /\ FlagsOK /\ ChannelOK /\ BatchOK /\ RetryOK /\ TopicOK /\ OffsetsOK /\ CountersOK
               /\ ReaderOK /\ CallsOK
  <1>1. {produced, consumed, overflow, rejected, readFaults} \subseteq Nat <=> CountersOK
    BY DEF CountersOK
  <1> QED BY <1>1, Zenon DEF TypeOK, FlagsOK, ChannelOK, BatchOK, RetryOK, TopicOK, OffsetsOK, ReaderOK, CallsOK,
                              Topics, Message

LEMMA ConstantsOK == /\ BufferSize \in Nat /\ BatchCap \in Nat /\ MaxRetries \in Nat /\ BreakerLimit \in Nat
                     /\ MaxSeq \in Nat /\ MaxFaults \in Nat /\ BreakerLimit # 0
  BY KafkaQueueAssumption

LEMMA FlagsStep == ASSUME TypeOK, InStage, BatchKept, [Next]_vars PROVE FlagsOK'
  <1>t. FlagsOK
    BY TypeParts
  <1>1. CASE UNCHANGED <<hash, closed, chClosed, closer>>
    BY <1>t, <1>1 DEF FlagsOK
  <1>2. CASE Close
    <2>1. closed' \in BOOLEAN /\ chClosed' \in BOOLEAN
      BY <1>t, <1>2, Zenon DEF Close, FlagsOK
    <2> QED BY <1>t, <1>2, <2>1 DEF Close, Closes, FlagsOK
  <1>3. CASE CloseChannel
    <2>1. closed' \in BOOLEAN /\ chClosed' \in BOOLEAN
      BY <1>t, <1>3, Zenon DEF CloseChannel, FlagsOK
    <2> QED BY <1>t, <1>3, <2>1 DEF CloseChannel, Closes, FlagsOK
  <1>4. CASE CloseReturn
    BY <1>t, <1>4 DEF CloseReturn, Closes, FlagsOK
  <1> QED BY <1>1, <1>2, <1>3, <1>4, NextOutcome, CallsFrame, LoopFrame, ReadFrame, StutterFrame DEF CloseSteps

LEMMA ChannelStep == ASSUME TypeOK, InStage, BatchKept, [Next]_vars PROVE ChannelOK'
  <1>t. ChannelOK /\ Len(msgCh) \in Nat /\ BufferSize \in Nat /\ sent \in [Producers -> 0..MaxSeq] /\ MaxSeq \in Nat
    BY TypeParts, BatchType, ConstantsOK DEF CallsOK
  <1>1. CASE UNCHANGED msgCh
    BY <1>t, <1>1 DEF ChannelOK
  <1>2. ASSUME NEW p \in Producers, Calls(p) PROVE ChannelOK'
    <2>1. CASE EnqueueSend(p)
      <3>1. NextEvent(p) \in Event
        <4>1. sent[p] < MaxSeq /\ sent[p] \in 0..MaxSeq
          BY <1>t, <2>1 DEF EnqueueSend, Offers
        <4>2. sent[p] + 1 \in 1..MaxSeq
          BY <1>t, <4>1
        <4> QED BY <4>2 DEF NextEvent, Event
      <3>2. msgCh' = Append(msgCh, NextEvent(p)) /\ Len(msgCh) < BufferSize
        BY <2>1 DEF EnqueueSend
      <3> QED BY <1>t, <3>1, <3>2 DEF ChannelOK
    <2>2. CASE EnqueueClosed(p) \/ EnqueueFull(p)
      BY <1>1, <2>2 DEF EnqueueClosed, EnqueueFull
    <2> QED BY <1>2, <2>1, <2>2 DEF Calls
  <1>3. CASE Receive
    <2>1. msgCh # <<>> /\ msgCh' = Tail(msgCh)
      BY <1>3 DEF Receive
    <2>2. Tail(msgCh) \in Seq(Event) /\ Len(Tail(msgCh)) \in Nat /\ Len(msgCh) = Len(Tail(msgCh)) + 1
      BY <1>t, <2>1, HeadFacts DEF ChannelOK
    <2> QED BY <1>t, <2>1, <2>2 DEF ChannelOK
  <1>4. CASE Flush \/ LoopEnds \/ GoesOn \/ (\E n : Ends(n)) \/ CountProduced \/ ReportFailed
    BY <1>1, <1>4 DEF Flush, LoopEnds, GoesOn, Ends, Over, CountProduced, ReportFailed
  <1> QED BY <1>1, <1>2, <1>3, <1>4, NextOutcome, ReadFrame, CloseFrame, StutterFrame DEF LoopSteps

LEMMA BatchStep == ASSUME TypeOK, InStage, BatchKept, [Next]_vars PROVE BatchOK'
  <1>t. BatchOK /\ Len(batch) \in Nat /\ BatchCap \in Nat /\ msgCh \in Seq(Event)
    BY TypeParts, BatchType, ConstantsOK
  <1>1. CASE UNCHANGED <<batch, at>>
    BY <1>t, <1>1 DEF BatchOK
  <1>2. CASE Receive
    <2>1. msgCh # <<>> /\ batch' = Append(batch, Head(msgCh)) /\ Len(batch) < BatchCap /\ at' = at
      BY <1>2 DEF Receive
    <2>2. Head(msgCh) \in Event
      BY <1>t, <2>1, HeadFacts
    <2> QED BY <1>t, <2>1, <2>2 DEF BatchOK
  <1>3. CASE Flush \/ LoopEnds
    BY <1>t, <1>3 DEF Flush, LoopEnds, BatchOK, Stages
  <1>4. CASE GoesOn
    BY <1>t, <1>4 DEF GoesOn, BatchOK, Stages, WriteStages
  <1>5. CASE (\E n : Ends(n)) \/ CountProduced
    <2>1. batch' = batch /\ at' \in {"count", "report"}
      BY <1>5 DEF Ends, Over, CountProduced
    <2> QED BY <1>t, <2>1 DEF BatchOK, Stages
  <1>6. CASE ReportFailed
    <2>1. batch' = <<>> /\ at' = "collect" /\ Len(<<>>) = 0 /\ <<>> \in Seq(Event)
      BY <1>6 DEF ReportFailed, NextBatch
    <2> QED BY <1>t, <2>1 DEF BatchOK, Stages
  <1> QED BY <1>1, <1>2, <1>3, <1>4, <1>5, <1>6, NextOutcome, CallsFrame, ReadFrame, CloseFrame, StutterFrame DEF LoopSteps

LEMMA RetryStep == ASSUME TypeOK, InStage, BatchKept, [Next]_vars PROVE RetryOK'
  <1>t. /\ RetryOK /\ Len(pending) \in Nat /\ Len(batch) \in Nat /\ Len(batch) <= BatchCap
        /\ BatchCap \in Nat /\ MaxRetries \in Nat /\ nfailed \in Nat
    BY TypeParts, BatchType, ConstantsOK DEF RetryOK, BatchOK
  <1>1. CASE UNCHANGED <<attempt, pending, nfailed>>
    BY <1>t, <1>1 DEF RetryOK
  <1>f. ASSUME NEW n, Over(n), produceLoop PROVE RetryOK'
    <2>1. PICK m : Ends(m)
      BY <1>f, OverEnds
    <2>2. attempt' = 0 /\ pending' = <<>> /\ nfailed' = m /\ m \in 0..Len(batch) /\ <<>> \in Seq(Event)
      BY <2>1 DEF Ends, Over
    <2> QED BY <1>t, <2>2 DEF RetryOK
  <1>r. ASSUME attempt' \in {0, attempt}, UNCHANGED <<pending, nfailed>> PROVE RetryOK'
    BY <1>t, <1>r DEF RetryOK
  <1>2. CASE WriteFull \/ RetryAbandoned \/ WriteSingle
    BY <1>2, <1>r, <1>f DEF WriteFull, RetryAbandoned, WriteSingle, produceLoop
  <1>3. CASE Retry
    <2>1. CASE \E n : Over(n)
      BY <1>3, <1>f, <2>1 DEF produceLoop
    <2>2. CASE UNCHANGED <<pending, nfailed>> /\ attempt + 1 < MaxRetries /\ attempt' = attempt + 1
      BY <1>t, <2>2 DEF RetryOK
    <2>3. CASE attempt' = 0 /\ UNCHANGED <<pending, nfailed>>
      BY <1>r, <2>3
    <2> QED BY <1>3, <2>1, <2>2, <2>3 DEF Retry
  <1>4. CASE WriteLeft
    <2>1. UNCHANGED <<attempt, nfailed>> /\ (UNCHANGED pending \/ pending' = Left)
      BY <1>4 DEF WriteLeft
    <2> QED BY <1>t, <2>1, LeftFacts DEF RetryOK
  <1>5. CASE WriteRight
    <2>1. CASE UNCHANGED <<attempt, nfailed>> /\ (UNCHANGED pending \/ pending' = Right)
      BY <1>t, <2>1, RightFacts DEF RetryOK
    <2> QED BY <1>5, <1>f, <2>1 DEF WriteRight, produceLoop
  <1>6. CASE WriteEach
    <2>1. CASE /\ Writes("each") /\ pending # <<>> /\ Goes("each") /\ pending' = Tail(pending) /\ UNCHANGED attempt
               /\ \/ WriteOK(<<Head(pending)>>) /\ UNCHANGED nfailed
                  \/ WriteFails(<<Head(pending)>>) /\ nfailed' = nfailed + 1
      <3>1. nfailed + Len(pending) <= Len(batch) /\ nfailed' \in {nfailed, nfailed + 1}
        BY <2>1 DEF Writes, InStage, Failing
      <3>2. pending' \in Seq(Event) /\ Len(pending) = Len(pending') + 1 /\ Len(pending') \in Nat
        BY <1>t, <2>1, HeadFacts DEF RetryOK
      <3>3. \A a, b, c, d, e \in Nat : a + b <= c /\ b = e + 1 /\ c <= d => a \in 0..d /\ a + 1 \in 0..d
        OBVIOUS
      <3>4. nfailed \in 0..BatchCap /\ nfailed + 1 \in 0..BatchCap
        BY <1>t, <3>1, <3>2, <3>3
      <3> QED BY <1>t, <2>1, <3>1, <3>2, <3>4 DEF RetryOK
    <2> QED BY <1>6, <1>f, <2>1 DEF WriteEach, produceLoop
  <1>7. CASE Receive \/ Flush \/ LoopEnds \/ CountProduced
    BY <1>1, <1>7 DEF Receive, Flush, LoopEnds, CountProduced
  <1>11. CASE ReportFailed
    <2>1. UNCHANGED <<attempt, pending>> /\ nfailed' = 0
      BY <1>11 DEF ReportFailed, NextBatch
    <2> QED BY <1>t, <2>1 DEF RetryOK
  <1>8. CASE produceLoop
    BY <1>2, <1>3, <1>4, <1>5, <1>6, <1>7, <1>8, <1>11 DEF produceLoop
  <1>9. CASE \E p \in Producers : Calls(p)
    BY <1>1, <1>9, CallsFrame
  <1>10. CASE ReadSteps \/ CloseSteps \/ UNCHANGED vars
    BY <1>1, <1>10, ReadFrame, CloseFrame, StutterFrame
  <1> QED BY <1>8, <1>9, <1>10 DEF Next, Calls, ReadSteps, Finds, Dequeue, CloseSteps

LEMMA TopicStep == ASSUME TypeOK, InStage, BatchKept, [Next]_vars PROVE TopicOK'
  <1>t. TopicOK
    BY TypeParts
  <1>1. CASE UNCHANGED <<topic, faults>>
    BY <1>t, <1>1 DEF TopicOK
  <1>2. CASE Receive \/ Flush \/ LoopEnds \/ CountProduced \/ ReportFailed
    BY <1>1, <1>2 DEF Receive, Flush, LoopEnds, CountProduced, ReportFailed, NextBatch, cluster
  <1>3. CASE GoesOn \/ \E n : Ends(n)
    <2>1. \E ms : AddsOf(ms)
      BY <1>3 DEF GoesOn, Ends
    <2> QED BY <2>1 DEF AddsOf, Adds, TopicOK
  <1> QED BY <1>1, <1>2, <1>3, NextOutcome, CallsFrame, ReadFrame, CloseFrame, StutterFrame DEF LoopSteps

\* Every step writes messages of the batch, or none.
LEMMA StepAdds == ASSUME TypeOK, InStage, BatchKept, [Next]_vars PROVE \E ms : AddsOf(ms)
  <1>1. CASE UNCHANGED <<topic, faults>>
    BY <1>1, NoWriteOf DEF cluster
  <1>2. CASE Receive \/ Flush \/ LoopEnds \/ CountProduced \/ ReportFailed
    BY <1>1, <1>2 DEF Receive, Flush, LoopEnds, CountProduced, ReportFailed, NextBatch, cluster
  <1>3. CASE GoesOn \/ \E n : Ends(n)
    BY <1>3 DEF GoesOn, Ends
  <1> QED BY <1>1, <1>2, <1>3, NextOutcome, CallsFrame, ReadFrame, CloseFrame, StutterFrame DEF LoopSteps

LEMMA OffsetsStep == ASSUME TypeOK, InStage, BatchKept, [Next]_vars PROVE OffsetsOK'
  <1>t. OffsetsOK /\ topic \in Topics
    BY TypeParts, TopicType
  <1>g. topic' \in Topics /\ Grown(topic', topic)
    BY StepAdds DEF AddsOf, Adds
  <1>l. \A k \in Partitions : Len(topic[k]) \in Nat /\ Len(topic'[k]) \in Nat /\ Len(topic[k]) <= Len(topic'[k])
    BY <1>t, <1>g DEF Topics, Grown
  <1>1. CASE UNCHANGED offset
    <2>1. \A k \in Partitions : offset[k] \in Nat /\ offset[k] <= Len(topic[k])
      BY <1>t DEF OffsetsOK
    <2>2. \A a, b, c \in Nat : a <= b /\ b <= c => a <= c
      OBVIOUS
    <2>3. \A k \in Partitions : offset[k] <= Len(topic'[k])
      BY <1>l, <2>1, <2>2
    <2> QED BY <1>t, <1>1, <2>3 DEF OffsetsOK
  <1>2. ASSUME NEW k \in Partitions, offset[k] < Len(topic[k]), offset' = [offset EXCEPT ![k] = @ + 1], topic' = topic
        PROVE  OffsetsOK'
    <2>1. offset[k] \in Nat /\ offset[k] + 1 \in Nat /\ offset[k] + 1 <= Len(topic[k])
      BY <1>t, <1>l, <1>2 DEF OffsetsOK
    <2>2. offset' \in [Partitions -> Nat]
      BY <1>t, <1>2, <2>1 DEF OffsetsOK
    <2>3. \A l \in Partitions : offset'[l] = IF l = k THEN offset[k] + 1 ELSE offset[l]
      BY <1>t, <1>2 DEF OffsetsOK
    <2> QED BY <1>t, <1>2, <2>1, <2>2, <2>3 DEF OffsetsOK
  <1>3. CASE ReadSteps
    <2>1. topic' = topic
      BY <1>3, ReadFrame
    <2>2. CASE DequeueStart \/ DequeueCounts \/ DequeueCancelled
      BY <1>1, <2>2 DEF DequeueStart, DequeueCounts, DequeueCancelled
    <2>3. CASE DequeueFails
      BY <1>1, <1>2, <2>1, <2>3 DEF DequeueFails
    <2>4. CASE \E k \in Partitions : Finds(k)
      BY <1>2, <2>1, <2>4 DEF Finds, DequeueEvent, DequeueSkips, DequeueBreaks, Fetches
    <2> QED BY <1>3, <2>2, <2>3, <2>4 DEF ReadSteps
  <1> QED BY <1>1, <1>3, NextOutcome, CallsFrame, LoopFrame, CloseFrame, StutterFrame

LEMMA FailedBound == ASSUME TypeOK, InStage, at \in Failing PROVE nfailed \in Nat /\ nfailed <= Len(batch)
  <1>1. nfailed \in Nat /\ Len(pending) \in Nat /\ Len(batch) \in Nat
    BY BatchType DEF TypeOK
  <1>2. nfailed + Len(pending) <= Len(batch)
    BY DEF InStage
  <1> QED BY <1>1, <1>2

LEMMA CountersStep == ASSUME TypeOK, InStage, BatchKept, [Next]_vars PROVE CountersOK'
  <1>t. CountersOK /\ Len(batch) \in Nat
    BY TypeParts, BatchType
  <1>1. CASE UNCHANGED <<produced, consumed, overflow, rejected, readFaults>>
    BY <1>t, <1>1 DEF CountersOK
  <1>2. ASSUME NEW p \in Producers, Calls(p) PROVE CountersOK'
    <2>1. UNCHANGED <<produced, consumed, readFaults>>
      BY <1>2, CallsFrame
    <2>2. (rejected' = rejected /\ overflow' = overflow) \/ (rejected' = rejected + 1 /\ overflow' = overflow + 1)
      BY <1>2 DEF Calls, EnqueueClosed, EnqueueSend, EnqueueFull
    <2> QED BY <1>t, <2>1, <2>2 DEF CountersOK
  <1>3. CASE LoopSteps
    <2>1. UNCHANGED <<consumed, rejected, readFaults>>
      BY <1>3, LoopFrame
    <2>2. CASE Receive \/ Flush \/ LoopEnds \/ GoesOn \/ \E n : Ends(n)
      BY <1>1, <2>1, <2>2 DEF Receive, Flush, LoopEnds, GoesOn, Ends, Over
    <2>3. CASE CountProduced
      <3>1. /\ nfailed \in Nat /\ nfailed <= Len(batch) /\ overflow' = overflow
            /\ produced' = produced + Len(batch) - nfailed
        BY <2>3, FailedBound DEF CountProduced, Failing
      <3> QED BY <1>t, <2>1, <3>1 DEF CountersOK
    <2>4. CASE ReportFailed
      <3>1. nfailed \in Nat /\ overflow' = overflow + nfailed /\ produced' = produced
        BY <2>4, FailedBound DEF ReportFailed, NextBatch, Failing
      <3> QED BY <1>t, <2>1, <3>1 DEF CountersOK
    <2> QED BY <1>3, <2>2, <2>3, <2>4 DEF LoopSteps
  <1>4. CASE ReadSteps
    <2>1. UNCHANGED <<produced, overflow, rejected>>
      BY <1>4, ReadFrame
    <2>2. consumed' \in {consumed, consumed + 1} /\ readFaults' \in {readFaults, readFaults + 1}
      BY <1>4 DEF ReadSteps, Finds, DequeueStart, DequeueCounts, DequeueFails, DequeueCancelled, DequeueEvent,
                  DequeueSkips, DequeueBreaks
    <2> QED BY <1>t, <2>1, <2>2 DEF CountersOK
  <1> QED BY <1>1, <1>2, <1>3, <1>4, NextOutcome, CloseFrame, StutterFrame

LEMMA ReaderStep == ASSUME TypeOK, InStage, BatchKept, BreakerTrips, [Next]_vars PROVE ReaderOK'
  <1>t. ReaderOK /\ BreakerLimit \in Nat /\ BreakerLimit # 0 /\ closed \in BOOLEAN
    BY TypeParts, ConstantsOK DEF FlagsOK
  <1>1. CASE UNCHANGED <<consumer, errors, early>>
    BY <1>t, <1>1 DEF ReaderOK
  <1>2. CASE ReadSteps
    <2>1. early' \in BOOLEAN
      <3>1. CASE UNCHANGED early
        BY <1>t, <3>1, Zenon DEF ReaderOK
      <3>2. CASE early' = (early \/ ~closed)
        BY <3>2, Zenon
      <3> QED BY <1>2, <3>1, <3>2 DEF ReadSteps, Finds, DequeueStart, DequeueCounts, DequeueFails, DequeueCancelled, DequeueEvent,
                                      DequeueSkips, DequeueBreaks
    <2>2. consumer' \in {"idle", "reading", "counting", "skipping", "ended"}
      BY <1>t, <1>2 DEF ReadSteps, Finds, DequeueStart, DequeueCounts, DequeueFails, DequeueCancelled, DequeueEvent,
                        DequeueSkips, DequeueBreaks, ReaderOK
    <2>3. errors' \in 0..BreakerLimit
      <3>1. errors \in Nat /\ errors <= BreakerLimit
        BY <1>t DEF ReaderOK
      <3>2. CASE errors' = 0 \/ errors' = errors
        BY <1>t, <3>1, <3>2
      <3>3. CASE errors' = errors + 1 /\ consumer = "reading"
        <4>1. errors < BreakerLimit
          BY <3>3 DEF BreakerTrips
        <4> QED BY <1>t, <3>1, <3>3, <4>1
      <3> QED BY <1>2, <3>2, <3>3 DEF ReadSteps, Finds, DequeueStart, DequeueCounts, DequeueFails, DequeueCancelled, DequeueEvent,
                                      DequeueSkips, DequeueBreaks, Fetches
    <2> QED BY <2>1, <2>2, <2>3 DEF ReaderOK
  <1> QED BY <1>1, <1>2, NextOutcome, CallsFrame, LoopFrame, CloseFrame, StutterFrame

LEMMA CallsStep == ASSUME TypeOK, InStage, BatchKept, [Next]_vars PROVE CallsOK'
  <1>t. CallsOK /\ MaxSeq \in Nat
    BY TypeParts, ConstantsOK
  <1>1. CASE UNCHANGED <<sent, accepted>>
    BY <1>t, <1>1 DEF CallsOK
  <1>2. ASSUME NEW p \in Producers, Calls(p) PROVE CallsOK'
    <2>1. sent[p] < MaxSeq /\ sent' = [sent EXCEPT ![p] = @ + 1] /\ accepted' \in {accepted, accepted \cup {NextEvent(p)}}
      BY <1>2 DEF Calls, EnqueueClosed, EnqueueSend, EnqueueFull, Offers
    <2>2. sent[p] \in 0..MaxSeq
      BY <1>t DEF CallsOK
    <2>3. sent[p] + 1 \in 1..MaxSeq /\ sent[p] + 1 \in 0..MaxSeq
      BY <1>t, <2>1, <2>2
    <2>4. NextEvent(p) \in Event
      BY <2>3 DEF NextEvent, Event
    <2>5. sent' \in [Producers -> 0..MaxSeq]
      BY <1>t, <2>1, <2>3 DEF CallsOK
    <2> QED BY <1>t, <2>1, <2>4, <2>5 DEF CallsOK
  <1> QED BY <1>1, <1>2, NextOutcome, LoopFrame, ReadFrame, CloseFrame, StutterFrame

LEMMA TypeStep == ASSUME TypeOK, InStage, BatchKept, BreakerTrips, [Next]_vars PROVE TypeOK'
  <1>1. /\ FlagsOK' /\ ChannelOK' /\ BatchOK' /\ RetryOK' /\ TopicOK' /\ OffsetsOK' /\ CountersOK'
        /\ ReaderOK' /\ CallsOK'
    BY FlagsStep, ChannelStep, BatchStep, RetryStep, TopicStep, OffsetsStep, CountersStep, ReaderStep, CallsStep
  <1> QED BY <1>1, TypeParts, PTL

----------------------------------------------------------------------------
\* The order of events.
LEMMA InOrderStep ==
    ASSUME TypeOK, InStage, BatchKept, InOrder, [Next]_vars
    PROVE  InOrder'
  <1>t. /\ batch \in Seq(Event) /\ msgCh \in Seq(Event) /\ Len(batch) \in Nat /\ Len(msgCh) \in Nat
        /\ sent \in [Producers -> 0..MaxSeq] /\ MaxSeq \in Nat /\ topic \in Topics
        /\ OnTopic = TopicSet(topic) /\ OnTopic' = TopicSet(topic')
    BY BatchType, TopicType, ConstantsOK DEF TypeOK, OnTopic, TopicSet
  <1>e. Elems(batch) \subseteq Event /\ Elems(msgCh) \subseteq Event
    BY <1>t, ElemsFinite
  <1>w. Written \subseteq Event /\ \A e \in Event : e.conn \in Producers /\ e.seq \in Nat
    <2>1. Written \subseteq Event
      <3>1. ASSUME NEW e \in Written PROVE e \in Event
        <4>1. e # Garbage /\ e \in TopicSet(topic)
          BY <1>t DEF Written
        <4>2. PICK k \in Partitions : \E i \in 1..Len(topic[k]) : e = topic[k][i]
          BY <1>t, <4>1, InTopicSet
        <4>3. topic[k] \in Seq(Message)
          BY <1>t DEF Topics
        <4> QED BY <4>1, <4>2, <4>3 DEF Message
      <3> QED BY <3>1
    <2> QED BY <2>1 DEF Event
  <1>1. CASE UNCHANGED <<batch, msgCh, at, sent, topic>>
    BY <1>t, <1>1 DEF InOrder, Written
  <1>2. ASSUME NEW p \in Producers, Calls(p) PROVE InOrder'
    <2>1. UNCHANGED <<batch, at, topic>>
      BY <1>2, CallsFrame
    <2>2. Written' = Written /\ Elems(batch)' = Elems(batch)
      BY <1>t, <2>1 DEF Written
    <2>3. sent' = [sent EXCEPT ![p] = @ + 1] /\ sent[p] \in Nat
      BY <1>t, <1>2 DEF Calls, EnqueueClosed, EnqueueSend, EnqueueFull, Offers
    <2>4. \A q \in Producers : sent'[q] = IF q = p THEN sent[p] + 1 ELSE sent[q]
      BY <1>t, <2>3
    <2>5. ASSUME NEW e \in Event, e.seq <= sent[e.conn] PROVE e.seq <= sent'[e.conn]
      <3>1. e.seq \in Nat /\ e.conn \in Producers /\ sent[e.conn] \in Nat
        BY <1>t, <1>w
      <3> QED BY <2>3, <2>4, <2>5, <3>1
    <2>6. CASE UNCHANGED msgCh
      <3>1. \A e \in Elems(msgCh) \union Elems(batch) \union Written : e.seq <= sent'[e.conn]
        BY <1>e, <1>w, <2>5 DEF InOrder
      <3> QED BY <2>1, <2>2, <2>6, <3>1 DEF InOrder
    <2>7. CASE EnqueueSend(p)
      <3> DEFINE new == NextEvent(p)
      <3>1. msgCh' = Append(msgCh, new) /\ sent[p] < MaxSeq
        BY <2>7 DEF EnqueueSend, Offers
      <3>2. new \in Event /\ new.conn = p /\ new.seq = sent[p] + 1
        <4>1. sent[p] + 1 \in 1..MaxSeq
          BY <1>t, <2>3, <3>1
        <4> QED BY <4>1 DEF NextEvent, Event
      <3> HIDE DEF new
      <3>3. /\ msgCh' \in Seq(Event) /\ Len(msgCh') = Len(msgCh) + 1 /\ msgCh'[Len(msgCh) + 1] = new
            /\ \A i \in 1..Len(msgCh) : msgCh'[i] = msgCh[i]
        BY <1>t, <3>1, <3>2
      <3>4. Elems(msgCh') = Elems(msgCh) \cup {new}
        <4>1. ASSUME NEW e PROVE e \in Elems(msgCh') <=> e \in Elems(msgCh) \cup {new}
          <5>1. e \in Elems(msgCh') <=> \E i \in 1..Len(msgCh') : e = msgCh'[i]
            BY <3>3, InElems
          <5>2. e \in Elems(msgCh) <=> \E i \in 1..Len(msgCh) : e = msgCh[i]
            BY <1>t, InElems
          <5>3. \A i : i \in 1..Len(msgCh') <=> i \in 1..Len(msgCh) \/ i = Len(msgCh) + 1
            BY <1>t, <3>3
          <5> QED BY <3>3, <5>1, <5>2, <5>3
        <4> QED BY <4>1
      <3>5. ASSUME NEW e \in Elems(msgCh) \union Elems(batch) \union Written, e.conn = new.conn
            PROVE  e.seq < new.seq
        <4>1. e \in Event /\ e.seq <= sent[e.conn]
          BY <1>e, <1>w DEF InOrder
        <4> QED BY <1>w, <2>3, <3>2, <3>5, <4>1
      <3>6. Ordered(msgCh')
        <4> SUFFICES ASSUME NEW i \in 1..Len(msgCh'), NEW j \in 1..Len(msgCh'), i < j, msgCh'[i].conn = msgCh'[j].conn
                     PROVE  msgCh'[i].seq < msgCh'[j].seq
          BY DEF Ordered
        <4>1. i \in 1..Len(msgCh)
          BY <1>t, <3>3
        <4>2. msgCh[i] \in Elems(msgCh) /\ msgCh'[i] = msgCh[i]
          BY <1>t, <3>3, <4>1, InElems
        <4>3. CASE j \in 1..Len(msgCh)
          BY <3>3, <4>1, <4>2, <4>3 DEF InOrder, Ordered
        <4>4. CASE j \notin 1..Len(msgCh)
          <5>1. j = Len(msgCh) + 1
            BY <1>t, <3>3, <4>4
          <5> QED BY <3>3, <3>5, <4>2, <5>1
        <4> QED BY <4>3, <4>4
      <3>7. Older(Elems(batch), Elems(msgCh')) /\ Older(Written, Elems(msgCh'))
        BY <3>4, <3>5 DEF InOrder, Older
      <3>8. \A e \in Elems(msgCh') \union Elems(batch) \union Written : e.seq <= sent'[e.conn]
        <4>1. new.seq <= sent'[new.conn]
          BY <2>3, <2>4, <3>2
        <4>2. \A e \in Elems(msgCh) \union Elems(batch) \union Written : e.seq <= sent'[e.conn]
          BY <1>e, <1>w, <2>5 DEF InOrder
        <4> QED BY <3>4, <4>1, <4>2
      <3>9. /\ Ordered(batch) /\ (at \in {"collect", "full", "done"} => Older(Written, Elems(batch)))
            /\ Older(Written \ Elems(batch), Elems(batch))
        BY DEF InOrder
      <3> QED BY <2>1, <2>2, <3>6, <3>7, <3>8, <3>9 DEF InOrder
    <2> QED BY <1>2, <2>6, <2>7 DEF Calls, EnqueueClosed, EnqueueFull
  <1>3. CASE Receive
    <2> DEFINE m == Head(msgCh)
    <2>1. /\ msgCh # <<>> /\ at = "collect" /\ at' = at /\ batch' = Append(batch, m) /\ msgCh' = Tail(msgCh)
          /\ sent' = sent /\ topic' = topic
      BY <1>3, LoopFrame DEF Receive, cluster, LoopSteps
    <2>2. /\ m \in Event /\ m \in Elems(msgCh) /\ Tail(msgCh) \in Seq(Event) /\ Len(msgCh) = Len(Tail(msgCh)) + 1
          /\ Len(Tail(msgCh)) \in Nat /\ Elems(msgCh) = Elems(Tail(msgCh)) \cup {m}
      BY <1>t, <2>1, HeadFacts
    <2>3. \A i \in 1..Len(msgCh') : msgCh'[i] = msgCh[i + 1] /\ i + 1 \in 1..Len(msgCh)
      BY <1>t, <2>1, <2>2
    <2>4. m = msgCh[1] /\ 1 \in 1..Len(msgCh)
      BY <1>t, <2>1
    <2> HIDE DEF m
    <2>5. Ordered(msgCh')
      BY <2>1, <2>2, <2>3 DEF InOrder, Ordered
    <2>6. \A e \in Elems(msgCh') : m.conn = e.conn => m.seq < e.seq
      <3>1. ASSUME NEW e \in Elems(msgCh'), m.conn = e.conn PROVE m.seq < e.seq
        <4>1. PICK i \in 1..Len(msgCh') : e = msgCh'[i]
          BY <2>1, <2>2, InElems
        <4>2. e = msgCh[i + 1] /\ i + 1 \in 1..Len(msgCh) /\ 1 < i + 1
          BY <2>3, <4>1
        <4> QED BY <2>4, <3>1, <4>2 DEF InOrder, Ordered
      <3> QED BY <3>1
    <2>7. /\ batch' \in Seq(Event) /\ Len(batch') = Len(batch) + 1 /\ batch'[Len(batch) + 1] = m
          /\ \A i \in 1..Len(batch) : batch'[i] = batch[i]
      BY <1>t, <2>1, <2>2
    <2>8. Elems(batch') = Elems(batch) \cup {m}
      <3>1. ASSUME NEW e PROVE e \in Elems(batch') <=> e \in Elems(batch) \cup {m}
        <4>1. e \in Elems(batch') <=> \E i \in 1..Len(batch') : e = batch'[i]
          BY <2>7, InElems
        <4>2. e \in Elems(batch) <=> \E i \in 1..Len(batch) : e = batch[i]
          BY <1>t, InElems
        <4>3. \A i : i \in 1..Len(batch') <=> i \in 1..Len(batch) \/ i = Len(batch) + 1
          BY <1>t, <2>7
        <4> QED BY <2>7, <4>1, <4>2, <4>3
      <3> QED BY <3>1
    <2>9. Ordered(batch')
      <3> SUFFICES ASSUME NEW i \in 1..Len(batch'), NEW j \in 1..Len(batch'), i < j, batch'[i].conn = batch'[j].conn
                   PROVE  batch'[i].seq < batch'[j].seq
        BY DEF Ordered
      <3>1. i \in 1..Len(batch)
        BY <1>t, <2>7
      <3>2. batch[i] \in Elems(batch) /\ batch'[i] = batch[i]
        BY <1>t, <2>7, <3>1, InElems
      <3>3. CASE j \in 1..Len(batch)
        BY <2>7, <3>1, <3>2, <3>3 DEF InOrder, Ordered
      <3>4. CASE j \notin 1..Len(batch)
        <4>1. j = Len(batch) + 1
          <5>1. \A x \in Nat : \A y \in 1..x + 1 : y \notin 1..x => y = x + 1
            OBVIOUS
          <5>2. j \in 1..Len(batch) + 1 /\ Len(batch) \in Nat
            BY <1>t, <2>7
          <5> QED BY <3>4, <5>1, <5>2
        <4> QED BY <2>2, <2>7, <3>2, <4>1 DEF InOrder, Older
      <3> QED BY <3>3, <3>4
    <2>10. Written' = Written
      BY <1>t, <2>1 DEF Written
    <2>11. Older(Elems(batch'), Elems(msgCh')) /\ Older(Written, Elems(msgCh')) /\ Older(Written, Elems(batch'))
      <3>1. Older(Elems(batch), Elems(msgCh)) /\ Older(Written, Elems(msgCh)) /\ Older(Written, Elems(batch))
        BY <2>1 DEF InOrder
      <3> QED BY <2>1, <2>2, <2>6, <2>8, <3>1 DEF Older
    <2>12. Older(Written \ Elems(batch'), Elems(batch'))
      BY <2>11 DEF Older
    <2>13. \A e \in Elems(msgCh') \union Elems(batch') \union Written : e.seq <= sent[e.conn]
      BY <2>1, <2>2, <2>8 DEF InOrder
    <2> QED BY <2>1, <2>5, <2>9, <2>10, <2>11, <2>12, <2>13 DEF InOrder
  <1>4. CASE Flush \/ LoopEnds
    <2>1. /\ at = "collect" /\ batch' = batch /\ msgCh' = msgCh /\ topic' = topic /\ sent' = sent
          /\ at' \in {"full", "done"}
      BY <1>4, LoopFrame DEF Flush, LoopEnds, cluster, LoopSteps
    <2>2. Written' = Written
      BY <1>t, <2>1 DEF Written
    <2> QED BY <2>1, <2>2 DEF InOrder
  \* What a write adds is of the batch.
  <1>5. ASSUME \E ms : AddsOf(ms) PROVE Written' \subseteq Written \cup Elems(batch)
    <2>1. PICK ms : AddsOf(ms)
      BY <1>5
    <2> QED BY <1>t, <2>1 DEF AddsOf, Adds, Written
  <1>6. CASE GoesOn \/ (\E n : Ends(n)) \/ CountProduced
    <2>1. batch' = batch /\ msgCh' = msgCh /\ sent' = sent /\ at' \notin {"collect", "full", "done"}
      BY <1>6, LoopFrame DEF GoesOn, Ends, Over, CountProduced, WriteStages, LoopSteps
    <2>2. Written' \subseteq Written \cup Elems(batch)
      BY <1>5, StepAdds
    <2>3. Older(Written', Elems(msgCh)) /\ Older(Written' \ Elems(batch), Elems(batch))
      BY <2>2 DEF InOrder, Older
    <2>4. \A e \in Elems(msgCh) \union Elems(batch) \union Written' : e.seq <= sent[e.conn]
      BY <2>2 DEF InOrder
    <2> QED BY <2>1, <2>3, <2>4 DEF InOrder
  <1>7. CASE ReportFailed
    <2>1. batch' = <<>> /\ msgCh' = msgCh /\ sent' = sent /\ topic' = topic
      BY <1>7, LoopFrame DEF ReportFailed, NextBatch, cluster, LoopSteps
    <2>2. Written' = Written
      BY <1>t, <2>1 DEF Written
    <2>3. Elems(batch') = {}
      BY <2>1, EmptyElems
    <2>4. Ordered(batch')
      BY <2>1 DEF Ordered
    <2>5. Older(Written', Elems(msgCh)) /\ \A S : Older(S, {}) /\ Older({}, S)
      BY <2>2 DEF InOrder, Older
    <2>6. \A e \in Elems(msgCh) \union {} \union Written' : e.seq <= sent[e.conn]
      BY <2>2 DEF InOrder
    <2> QED BY <2>1, <2>3, <2>4, <2>5, <2>6 DEF InOrder
  <1>8. CASE LoopSteps
    BY <1>3, <1>4, <1>6, <1>7, <1>8 DEF LoopSteps
  <1> QED BY <1>1, <1>2, <1>8, NextOutcome, ReadFrame, CloseFrame, StutterFrame

----------------------------------------------------------------------------
\* The counters.
LEMMA CountedStep ==
    ASSUME TypeOK, InStage, BatchKept, Counted, [Next]_vars
    PROVE  Counted'
  <1>t. /\ Len(batch) \in Nat /\ Len(msgCh) \in Nat /\ msgCh \in Seq(Event) /\ batch \in Seq(Event)
        /\ produced \in Nat /\ overflow \in Nat /\ rejected \in Nat
        /\ sent \in [Producers -> 0..MaxSeq] /\ MaxSeq \in Nat /\ accepted \subseteq Event
    BY BatchType, ConstantsOK, TypeParts DEF CountersOK, CallsOK
  <1>c. /\ IsFiniteSet(accepted) /\ (\A e \in accepted : e.seq <= sent[e.conn])
        /\ produced + overflow - rejected + Uncounted + Len(msgCh) = Cardinality(accepted)
        /\ Cardinality(accepted) \in Nat /\ Uncounted \in Nat /\ nfailed \in Nat
    <2>1. IsFiniteSet(accepted)
      BY DEF Counted
    <2>2. Uncounted \in Nat /\ nfailed \in Nat
      BY <1>t, TypeParts DEF Uncounted, RetryOK
    <2> QED BY <2>1, <2>2, FS_CardinalityType DEF Counted, MessagesCounted
  <1>1. CASE UNCHANGED <<accepted, sent, produced, overflow, rejected, Uncounted, msgCh>>
    BY <1>1 DEF Counted, MessagesCounted
  <1>2. ASSUME NEW p \in Producers, Calls(p) PROVE Counted'
    <2>1. Uncounted' = Uncounted /\ produced' = produced
      BY <1>2, CallsFrame DEF Uncounted
    <2>2. sent' = [sent EXCEPT ![p] = @ + 1] /\ sent[p] \in Nat /\ sent[p] < MaxSeq
      BY <1>t, <1>2 DEF Calls, EnqueueClosed, EnqueueSend, EnqueueFull, Offers
    <2>3. \A q \in Producers : sent[q] \in Nat /\ sent'[q] = IF q = p THEN sent[p] + 1 ELSE sent[q]
      BY <1>t, <2>2
    <2>4. \A e \in accepted : e.seq <= sent'[e.conn]
      <3>1. ASSUME NEW e \in accepted PROVE e.seq <= sent'[e.conn]
        <4>1. e.seq \in Nat /\ e.conn \in Producers
          BY <1>t DEF Event
        <4>2. e.seq <= sent[e.conn]
          BY <1>c
        <4> QED BY <2>3, <4>1, <4>2
      <3> QED BY <3>1
    <2>5. CASE EnqueueClosed(p)
      BY <1>c, <2>1, <2>4, <2>5 DEF EnqueueClosed, Counted, MessagesCounted
    <2>6. CASE EnqueueFull(p)
      <3>1. rejected' = rejected + 1 /\ overflow' = overflow + 1 /\ msgCh' = msgCh /\ accepted' = accepted
        BY <2>6 DEF EnqueueFull
      <3>2. produced' + overflow' - rejected' + Uncounted' + Len(msgCh') = Cardinality(accepted')
        BY <1>t, <1>c, <2>1, <3>1
      <3> QED BY <1>c, <2>4, <3>1, <3>2 DEF Counted, MessagesCounted
    <2>7. CASE EnqueueSend(p)
      <3> DEFINE new == NextEvent(p)
      <3>1. msgCh' = Append(msgCh, new) /\ accepted' = accepted \cup {new} /\ rejected' = rejected /\ overflow' = overflow
        BY <2>7 DEF EnqueueSend
      <3>2. new \in Event /\ new.conn = p /\ new.seq = sent[p] + 1
        <4>1. sent[p] + 1 \in 1..MaxSeq
          BY <1>t, <2>2
        <4> QED BY <4>1 DEF NextEvent, Event
      <3> HIDE DEF new
      <3>3. new \notin accepted
        <4>1. new \in accepted => sent[p] + 1 <= sent[p]
          BY <1>c, <3>2
        <4> QED BY <2>2, <4>1
      <3>4. IsFiniteSet(accepted') /\ Cardinality(accepted') = Cardinality(accepted) + 1
        BY <1>c, <3>1, <3>3, FS_AddElement
      <3>5. Len(msgCh') = Len(msgCh) + 1
        BY <1>t, <3>1, <3>2
      <3>6. produced' + overflow' - rejected' + Uncounted' + Len(msgCh') = Cardinality(accepted')
        <4>1. \A a, b, c, d, e, f \in Nat : a + b - c + d + e = f => a + b - c + d + (e + 1) = f + 1
          OBVIOUS
        <4> QED BY <1>t, <1>c, <2>1, <3>1, <3>4, <3>5, <4>1
      <3>7. \A e \in accepted' : e.seq <= sent'[e.conn]
        <4>1. new.seq <= sent'[new.conn]
          BY <2>2, <2>3, <3>2
        <4> QED BY <2>4, <3>1, <4>1
      <3> QED BY <3>4, <3>6, <3>7 DEF Counted, MessagesCounted
    <2> QED BY <1>2, <2>5, <2>6, <2>7 DEF Calls
  <1>3. CASE Receive
    <2>1. /\ msgCh # <<>> /\ batch' = Append(batch, Head(msgCh)) /\ msgCh' = Tail(msgCh)
          /\ UNCHANGED <<accepted, sent, produced, overflow, rejected>>
      BY <1>3, LoopFrame DEF Receive, LoopSteps
    <2>2. Len(msgCh) = Len(msgCh') + 1 /\ Len(msgCh') \in Nat /\ Head(msgCh) \in Event
      BY <1>t, <2>1, HeadFacts
    <2>3. Uncounted' = Uncounted + 1
      <3>1. Len(batch') = Len(batch) + 1
        BY <1>t, <2>1, <2>2
      <3> QED BY <1>3, <3>1 DEF Receive, Uncounted
    <2>4. \A a, b, c, d, e, f \in Nat : a + b - c + d + (e + 1) = f => a + b - c + (d + 1) + e = f
      OBVIOUS
    <2>5. produced' + overflow' - rejected' + Uncounted' + Len(msgCh') = Cardinality(accepted')
      BY <1>t, <1>c, <2>1, <2>2, <2>3, <2>4
    <2> QED BY <1>c, <2>1, <2>5 DEF Counted, MessagesCounted
  <1>4. CASE CountProduced
    <2>1. /\ at = "count" /\ at' = "report" /\ produced' = produced + Len(batch) - nfailed
          /\ UNCHANGED <<overflow, nfailed, msgCh, accepted, sent, rejected>>
      BY <1>4, LoopFrame DEF CountProduced, LoopSteps
    <2>2. Uncounted = Len(batch) /\ Uncounted' = nfailed
      BY <2>1 DEF Uncounted
    <2>3. produced' + overflow' - rejected' + Uncounted' + Len(msgCh') = Cardinality(accepted')
      BY <1>t, <1>c, <2>1, <2>2
    <2> QED BY <1>c, <2>1, <2>3 DEF Counted, MessagesCounted
  <1>6. CASE ReportFailed
    <2>1. /\ at = "report" /\ at' = "collect" /\ overflow' = overflow + nfailed /\ batch' = <<>>
          /\ UNCHANGED <<produced, msgCh, accepted, sent, rejected>>
      BY <1>6, LoopFrame DEF ReportFailed, NextBatch, LoopSteps
    <2>2. Uncounted = nfailed /\ Uncounted' = 0
      BY <2>1 DEF Uncounted
    <2>3. produced' + overflow' - rejected' + Uncounted' + Len(msgCh') = Cardinality(accepted')
      BY <1>t, <1>c, <2>1, <2>2
    <2> QED BY <1>c, <2>1, <2>3 DEF Counted, MessagesCounted
  <1>5. CASE Flush \/ LoopEnds \/ GoesOn \/ \E n : Ends(n)
    <2>1. UNCHANGED <<accepted, sent, produced, overflow, rejected, batch, msgCh>>
      BY <1>5, LoopFrame DEF Flush, LoopEnds, GoesOn, Ends, Over, LoopSteps
    <2>2. at # "report" /\ at' # "report"
      BY <1>5 DEF Flush, LoopEnds, GoesOn, Ends, Over, WriteStages
    <2>3. Uncounted' = Uncounted
      BY <2>1, <2>2 DEF Uncounted
    <2> QED BY <1>1, <2>1, <2>3
  <1>7. CASE ReadSteps \/ CloseSteps \/ UNCHANGED vars
    <2>1. UNCHANGED <<accepted, sent, produced, overflow, rejected, batch, msgCh, at, nfailed>>
      BY <1>7, ReadFrame, CloseFrame, StutterFrame
    <2>2. Uncounted' = Uncounted
      BY <2>1 DEF Uncounted
    <2> QED BY <1>1, <2>1, <2>2
  <1> QED BY <1>2, <1>3, <1>4, <1>5, <1>6, <1>7, NextOutcome DEF LoopSteps

Lost == accepted \ (InFlight \union OnTopic)

\* A step loses at most n more events.
LEMMA LosesFew ==
    ASSUME NEW S, NEW T, NEW L, IsFiniteSet(S), IsFiniteSet(T), L \subseteq S \cup T,
           NEW a \in Int, NEW n \in Nat, Cardinality(S) <= a, Cardinality(T) <= n
    PROVE  Cardinality(L) <= a + n
  <1>1. IsFiniteSet(S \cup T) /\ Cardinality(S \cup T) = Cardinality(S) + Cardinality(T) - Cardinality(S \cap T)
    BY FS_Union
  <1>2. IsFiniteSet(S \cap T)
    BY FS_Intersection
  <1>3. IsFiniteSet(L) /\ Cardinality(L) <= Cardinality(S \cup T)
    BY <1>1, FS_Subset
  <1>4. /\ Cardinality(S) \in Nat /\ Cardinality(T) \in Nat /\ Cardinality(S \cap T) \in Nat
        /\ Cardinality(L) \in Nat /\ Cardinality(S \cup T) \in Nat
    BY <1>1, <1>2, <1>3, FS_CardinalityType
  <1> QED BY <1>1, <1>3, <1>4

LEMMA LossesStep ==
    ASSUME TypeOK, InStage, BatchKept, Counted, LossesReported, [Next]_vars
    PROVE  LossesReported'
  <1>t. /\ overflow \in Nat /\ rejected \in Nat /\ Len(batch) \in Nat /\ batch \in Seq(Event) /\ msgCh \in Seq(Event)
        /\ OnTopic = TopicSet(topic) /\ OnTopic' = TopicSet(topic')
    BY BatchType, TypeParts DEF CountersOK, OnTopic, TopicSet
  <1>l. IsFiniteSet(Lost) /\ Cardinality(Lost) <= overflow - rejected
    <2>1. IsFiniteSet(Lost)
      BY FS_Subset DEF Counted, Lost
    <2> QED BY <2>1 DEF LossesReported, Lost
  <1>g. OnTopic \subseteq OnTopic'
    BY <1>t, StepAdds DEF AddsOf, Adds
  <1>z. IsFiniteSet({}) /\ Cardinality({}) <= 0
    BY FS_EmptySet
  <1>k. ASSUME Lost' \subseteq Lost, overflow' - rejected' = overflow - rejected PROVE LossesReported'
    <2>1. overflow - rejected \in Int /\ Lost' \subseteq Lost \cup {}
      BY <1>t, <1>k
    <2>2. Cardinality(Lost') <= (overflow - rejected) + 0
      BY <1>l, <1>z, <2>1, LosesFew
    <2>3. (overflow - rejected) + 0 = overflow' - rejected'
      BY <1>k, <2>1
    <2> QED BY <2>2, <2>3 DEF LossesReported, Lost
  <1>1. CASE UNCHANGED <<accepted, batch, msgCh, overflow, rejected>>
    <2>1. InFlight' = InFlight /\ accepted' = accepted
      BY <1>1 DEF InFlight
    <2>2. Lost' \subseteq Lost
      BY <1>g, <2>1 DEF Lost
    <2> QED BY <1>1, <1>k, <2>2
  <1>2. ASSUME NEW p \in Producers, Calls(p) PROVE LossesReported'
    <2>1. batch' = batch /\ topic' = topic
      BY <1>2, CallsFrame
    <2>2. CASE EnqueueClosed(p)
      BY <1>1, <2>1, <2>2 DEF EnqueueClosed
    <2>3. CASE EnqueueFull(p)
      <3>1. rejected' = rejected + 1 /\ overflow' = overflow + 1 /\ msgCh' = msgCh /\ accepted' = accepted
        BY <2>3 DEF EnqueueFull
      <3>2. InFlight' = InFlight
        BY <2>1, <3>1 DEF InFlight
      <3>3. Lost' \subseteq Lost
        BY <1>g, <3>1, <3>2 DEF Lost
      <3>4. overflow' - rejected' = overflow - rejected
        BY <1>t, <3>1
      <3> QED BY <1>k, <3>3, <3>4
    <2>4. CASE EnqueueSend(p)
      <3> DEFINE new == NextEvent(p)
      <3>1. msgCh' = Append(msgCh, new) /\ accepted' = accepted \cup {new} /\ rejected' = rejected /\ overflow' = overflow
        BY <2>4 DEF EnqueueSend
      <3>2. msgCh' \in Seq(Event)
        BY ChannelStep DEF ChannelOK
      <3> HIDE DEF new
      <3>3. Len(msgCh') = Len(msgCh) + 1 /\ msgCh'[Len(msgCh) + 1] = new /\ \A i \in 1..Len(msgCh) : msgCh'[i] = msgCh[i]
        BY <1>t, <3>1
      <3>4. Len(msgCh) + 1 \in 1..Len(msgCh') /\ \A i \in 1..Len(msgCh) : i \in 1..Len(msgCh')
        BY <1>t, <3>3
      <3>5. Elems(msgCh) \cup {new} \subseteq Elems(msgCh')
        <4>1. new \in Elems(msgCh')
          BY <3>2, <3>3, <3>4, InElems
        <4>2. ASSUME NEW e \in Elems(msgCh) PROVE e \in Elems(msgCh')
          <5>1. PICK i \in 1..Len(msgCh) : e = msgCh[i]
            BY <1>t, InElems
          <5> QED BY <3>2, <3>3, <3>4, <5>1, InElems
        <4> QED BY <4>1, <4>2
      <3>6. Lost' \subseteq Lost
        BY <1>g, <2>1, <3>1, <3>5 DEF Lost, InFlight
      <3> QED BY <1>k, <3>1, <3>6
    <2> QED BY <1>2, <2>2, <2>3, <2>4 DEF Calls
  <1>3. CASE Receive
    <2>1. /\ msgCh # <<>> /\ batch' = Append(batch, Head(msgCh)) /\ msgCh' = Tail(msgCh)
          /\ UNCHANGED <<accepted, overflow, rejected>>
      BY <1>3, LoopFrame DEF Receive, LoopSteps
    <2>2. Elems(msgCh) = Elems(msgCh') \cup {Head(msgCh)} /\ Head(msgCh) \in Event
      BY <1>t, <2>1, HeadFacts
    <2>3. Elems(batch) \cup {Head(msgCh)} \subseteq Elems(batch')
      <3>1. batch' \in Seq(Event)
        BY BatchStep DEF BatchOK
      <3>2. Len(batch') = Len(batch) + 1 /\ batch'[Len(batch) + 1] = Head(msgCh) /\ \A i \in 1..Len(batch) : batch'[i] = batch[i]
        BY <1>t, <2>1, <2>2
      <3>3. Len(batch) + 1 \in 1..Len(batch') /\ \A i \in 1..Len(batch) : i \in 1..Len(batch')
        BY <1>t, <3>2
      <3>4. Head(msgCh) \in Elems(batch')
        BY <3>1, <3>2, <3>3, InElems
      <3>5. ASSUME NEW e \in Elems(batch) PROVE e \in Elems(batch')
        <4>1. PICK i \in 1..Len(batch) : e = batch[i]
          BY <1>t, InElems
        <4> QED BY <3>1, <3>2, <3>3, <4>1, InElems
      <3> QED BY <3>4, <3>5
    <2>4. Lost' \subseteq Lost
      BY <1>g, <2>1, <2>2, <2>3 DEF Lost, InFlight
    <2> QED BY <1>k, <2>1, <2>4
  <1>4. CASE ReportFailed
    <2>1. /\ at = "report" /\ overflow' = overflow + nfailed /\ UNCHANGED <<msgCh, accepted, rejected>>
      BY <1>4, LoopFrame DEF ReportFailed, NextBatch, LoopSteps
    <2>2. Missing = Elems(batch) \ TopicSet(topic)
      <3>1. pending = <<>>
        BY <2>1 DEF InStage
      <3> QED BY <1>t, <3>1, EmptyElems DEF Missing
    <2>3. IsFiniteSet(Missing) /\ Cardinality(Missing) <= nfailed
      BY <2>1, <2>2, AtMostMissing DEF BatchKept, Failing
    <2>4. Lost' \subseteq Lost \cup Missing
      BY <1>t, <1>g, <2>1, <2>2 DEF Lost, InFlight
    <2>5. overflow - rejected \in Int /\ nfailed \in Nat
      BY <1>t, <2>1, FailedBound DEF Failing
    <2>6. Cardinality(Lost') <= (overflow - rejected) + nfailed
      BY <1>l, <2>3, <2>4, <2>5, LosesFew
    <2>7. (overflow - rejected) + nfailed = overflow' - rejected'
      BY <1>t, <2>1, <2>5
    <2> QED BY <2>6, <2>7 DEF LossesReported, Lost
  <1>5. CASE Flush \/ LoopEnds \/ GoesOn \/ (\E n : Ends(n)) \/ CountProduced
    BY <1>1, <1>5, LoopFrame DEF Flush, LoopEnds, GoesOn, Ends, Over, CountProduced, LoopSteps
  <1> QED BY <1>1, <1>2, <1>3, <1>4, <1>5, NextOutcome, ReadFrame, CloseFrame, StutterFrame DEF LoopSteps

----------------------------------------------------------------------------
\* The places of the topic that have been read.
ReadOf(o) == UNION {{k} \X (1..o[k]) : k \in Partitions}
IsRead(o, x) == \E k \in Partitions : \E i \in 1..o[k] : x = <<k, i>>

LEMMA InRead == ASSUME NEW o, NEW x PROVE x \in ReadOf(o) <=> IsRead(o, x)
  <1>1. x \in ReadOf(o) <=> \E k \in Partitions : x \in {k} \X (1..o[k])
    BY DEF ReadOf
  <1> QED BY <1>1 DEF IsRead

LEMMA ReadFinite == ASSUME NEW o \in [Partitions -> Nat] PROVE IsFiniteSet(ReadOf(o))
  <1> DEFINE Part(k) == {k} \X (1..o[k])
             Parts == {Part(k) : k \in Partitions}
             part == [k \in Partitions |-> Part(k)]
  <1>1. IsFiniteSet(Parts)
    <2>1. part \in Surjection(Partitions, Parts)
      BY DEF Surjection
    <2> QED BY <2>1, KafkaQueueAssumption, FS_Surjection
  <1>2. ASSUME NEW k \in Partitions PROVE IsFiniteSet(Part(k))
    <2>1. IsFiniteSet(1..o[k])
      BY FS_Interval
    <2>2. IsFiniteSet({k})
      BY FS_Singleton
    <2> QED BY <2>1, <2>2, FS_Product
  <1>3. \A T \in Parts : IsFiniteSet(T)
    BY <1>2
  <1> QED BY <1>1, <1>3, FS_UNION DEF ReadOf

LEMMA ReadOneMore ==
    ASSUME NEW o \in [Partitions -> Nat], NEW k \in Partitions
    PROVE  Cardinality(ReadOf([o EXCEPT ![k] = @ + 1])) = Cardinality(ReadOf(o)) + 1
  <1> DEFINE v == [o EXCEPT ![k] = @ + 1]
             x == <<k, o[k] + 1>>
  <1>1. /\ \A l \in Partitions : l # k => v[l] = o[l]
        /\ v[k] = o[k] + 1 /\ o[k] \in Nat
    OBVIOUS
  <1> HIDE DEF v
  <1>2. ASSUME NEW l \in Partitions, NEW i
        PROVE  i \in 1..v[l] <=> i \in 1..o[l] \/ <<l, i>> = x
    <2>1. CASE l = k
      <3>1. i \in 1..v[k] <=> i \in 1..o[k] \/ i = o[k] + 1
        BY <1>1
      <3> QED BY <2>1, <3>1
    <2>2. CASE l # k
      BY <1>1, <2>2
    <2> QED BY <2>1, <2>2
  <1>3. x \notin ReadOf(o)
    <2>1. o[k] + 1 \notin 1..o[k]
      BY <1>1
    <2>2. ASSUME NEW l \in Partitions, NEW i \in 1..o[l] PROVE x # <<l, i>>
      BY <2>1
    <2>3. ~IsRead(o, x)
      BY <2>2, Zenon DEF IsRead
    <2> QED BY <2>3, InRead
  <1>4. ReadOf(v) = ReadOf(o) \cup {x}
    <2>1. ASSUME NEW y PROVE y \in ReadOf(v) <=> y \in ReadOf(o) \cup {x}
      <3>1. y \in ReadOf(v) <=> IsRead(v, y)
        BY InRead
      <3>2. y \in ReadOf(o) <=> IsRead(o, y)
        BY InRead
      <3>3. IsRead(v, y) <=> IsRead(o, y) \/ y = x
        BY <1>2, Zenon DEF IsRead
      <3> QED BY <3>1, <3>2, <3>3
    <2> HIDE DEF x
    <2> QED BY <2>1
  <1> HIDE DEF x
  <1>5. Cardinality(ReadOf(o) \cup {x}) = Cardinality(ReadOf(o)) + 1
    BY <1>3, ReadFinite, FS_AddElement
  <1> QED BY <1>4, <1>5 DEF v

LEMMA BacklogStep ==
    ASSUME TypeOK, InStage, BatchKept, Backlog, [Next]_vars
    PROVE  Backlog'
  <1>t. /\ Own = OwnOf(topic) /\ Own' = OwnOf(topic') /\ Read = ReadOf(offset) /\ Read' = ReadOf(offset')
        /\ offset \in [Partitions -> Nat] /\ Len(batch) \in Nat /\ produced \in Nat /\ readFaults \in Nat
        /\ consumed \in Nat
    BY TypeParts, BatchType DEF Own, OwnOf, Read, ReadOf, OffsetsOK, CountersOK
  <1>1. /\ faults = 0 => produced + Acknowledged = Cardinality(OwnOf(topic)) /\ at \in Smooth /\ nfailed = 0
        /\ consumer # "ended" /\ readFaults = 0 => consumed + HandedOut = Cardinality(ReadOf(offset))
    BY <1>t DEF Backlog
  <1>2. faults' = 0 => produced' + Acknowledged' = Cardinality(OwnOf(topic')) /\ at' \in Smooth /\ nfailed' = 0
    <2>1. ASSUME UNCHANGED <<topic, faults, produced, at, batch, nfailed>>, faults' = 0
          PROVE  produced' + Acknowledged' = Cardinality(OwnOf(topic')) /\ at' \in Smooth /\ nfailed' = 0
      BY <1>1, <2>1 DEF Acknowledged
    <2>2. ASSUME Receive \/ Flush \/ LoopEnds, faults' = 0
          PROVE  produced' + Acknowledged' = Cardinality(OwnOf(topic')) /\ at' \in Smooth /\ nfailed' = 0
      <3>1. UNCHANGED <<topic, faults, produced, nfailed>> /\ at' \in Smooth
        BY <2>2 DEF Receive, Flush, LoopEnds, cluster, Smooth
      <3>2. Acknowledged = 0 /\ Acknowledged' = 0
        BY <2>2 DEF Receive, Flush, LoopEnds, Acknowledged
      <3> QED BY <1>1, <2>2, <3>1, <3>2
    <2>3. ASSUME GoesOn PROVE faults' # 0
      <3>1. (faults' = 0 => faults = 0) /\ (at = "full" => faults' # 0) /\ at \in WriteStages
        BY <2>3 DEF GoesOn, AddsOf
      <3> QED BY <1>1, <3>1 DEF WriteStages, Smooth
    <2>4. ASSUME NEW n, Ends(n), faults' = 0
          PROVE  produced' + Acknowledged' = Cardinality(OwnOf(topic')) /\ at' \in Smooth /\ nfailed' = 0
      <3>1. faults = 0 /\ at \in WriteStages
        BY <2>4 DEF Ends, AddsOf
      <3>2. at = "full" /\ produced + Acknowledged = Cardinality(OwnOf(topic))
        BY <1>1, <3>1 DEF WriteStages, Smooth
      <3>3. n = 0 /\ Cardinality(OwnOf(topic')) = Cardinality(OwnOf(topic)) + Len(batch)
        BY <2>4, <3>2 DEF Ends
      <3>4. produced' = produced /\ at' = "count" /\ batch' = batch /\ nfailed' = n
        BY <2>4 DEF Ends, Over
      <3>5. Acknowledged = 0 /\ Acknowledged' = Len(batch)
        BY <3>2, <3>4 DEF Acknowledged
      <3> QED BY <1>t, <3>2, <3>3, <3>4, <3>5 DEF Smooth
    <2>5. ASSUME CountProduced, faults' = 0
          PROVE  produced' + Acknowledged' = Cardinality(OwnOf(topic')) /\ at' \in Smooth /\ nfailed' = 0
      <3>1. /\ at = "count" /\ at' = "report" /\ UNCHANGED <<topic, faults, nfailed>>
            /\ produced' = produced + Len(batch) - nfailed
        BY <2>5 DEF CountProduced, cluster
      <3>2. Acknowledged = Len(batch) /\ Acknowledged' = 0
        BY <3>1 DEF Acknowledged
      <3> QED BY <1>t, <1>1, <2>5, <3>1, <3>2 DEF Smooth
    <2>6. ASSUME ReportFailed, faults' = 0
          PROVE  produced' + Acknowledged' = Cardinality(OwnOf(topic')) /\ at' \in Smooth /\ nfailed' = 0
      <3>1. at = "report" /\ at' = "collect" /\ UNCHANGED <<topic, faults, produced>> /\ nfailed' = 0
        BY <2>6 DEF ReportFailed, NextBatch, cluster
      <3>2. Acknowledged = 0 /\ Acknowledged' = 0
        BY <3>1 DEF Acknowledged
      <3> QED BY <1>1, <2>6, <3>1, <3>2 DEF Smooth
    <2> QED BY <2>1, <2>2, <2>3, <2>4, <2>5, <2>6, NextOutcome, CallsFrame, ReadFrame, CloseFrame, StutterFrame
            DEF LoopSteps
  <1>3. consumer' # "ended" /\ readFaults' = 0 => consumed' + HandedOut' = Cardinality(ReadOf(offset'))
    <2>1. CASE UNCHANGED <<consumer, readFaults, consumed, offset>>
      BY <1>1, <2>1 DEF HandedOut
    <2>2. CASE consumer' = "ended"
      BY <2>2
    <2>3. CASE DequeueStart
      BY <1>1, <2>3 DEF DequeueStart, HandedOut
    <2>4. ASSUME NEW k \in Partitions, DequeueEvent(k) \/ DequeueSkips(k), readFaults' = 0
          PROVE  consumed' + HandedOut' = Cardinality(ReadOf(offset'))
      <3>1. /\ consumer = "reading" /\ offset' = [offset EXCEPT ![k] = @ + 1] /\ consumed' = consumed
            /\ consumer' \in {"counting", "skipping"} /\ readFaults' = readFaults
        BY <2>4 DEF DequeueEvent, DequeueSkips, Fetches
      <3>2. Cardinality(ReadOf(offset')) = Cardinality(ReadOf(offset)) + 1
        BY <1>t, <3>1, ReadOneMore
      <3>3. HandedOut = 0 /\ HandedOut' = 1
        BY <3>1 DEF HandedOut
      <3>4. consumed + 0 = Cardinality(ReadOf(offset))
        BY <1>1, <2>4, <3>1, <3>3
      <3> QED BY <1>t, <3>1, <3>2, <3>3, <3>4
    <2>5. CASE DequeueFails \/ DequeueCancelled \/ \E k \in Partitions : DequeueBreaks(k)
      BY <2>2, <2>5 DEF DequeueFails, DequeueCancelled, DequeueBreaks
    <2>6. ASSUME DequeueCounts, readFaults' = 0
          PROVE  consumed' + HandedOut' = Cardinality(ReadOf(offset'))
      <3>1. /\ consumer \in {"counting", "skipping"} /\ consumer' \in {"idle", "reading"}
            /\ consumed' = consumed + 1 /\ UNCHANGED <<offset, readFaults>>
        BY <2>6 DEF DequeueCounts
      <3>2. HandedOut = 1 /\ HandedOut' = 0
        BY <3>1 DEF HandedOut
      <3> QED BY <1>t, <1>1, <2>6, <3>1, <3>2
    <2> QED BY <2>1, <2>3, <2>4, <2>5, <2>6, NextOutcome, CallsFrame, LoopFrame, CloseFrame, StutterFrame
            DEF ReadSteps, Finds
  <1> QED BY <1>t, <1>2, <1>3 DEF Backlog

----------------------------------------------------------------------------
\* The circuit breaker.
LEMMA PassedFinite ==
    ASSUME NEW t \in Topics, NEW o \in [Partitions -> Nat], NEW k \in Partitions
    PROVE  IsFiniteSet(Passed(t, o, k)) /\ Cardinality(Passed(t, o, k)) \in Nat
  <1>1. IsFiniteSet(1..o[k])
    BY FS_Interval
  <1>2. IsFiniteSet(Passed(t, o, k))
    BY <1>1, FS_Subset DEF Passed
  <1> QED BY <1>2, FS_CardinalityType

LEMMA PassedGrows ==
    ASSUME NEW t \in Topics, NEW u \in Topics, NEW o \in [Partitions -> Nat], NEW v \in [Partitions -> Nat],
           NEW k \in Partitions, o[k] <= v[k], \A i \in 1..o[k] : u[k][i] = t[k][i]
    PROVE  Cardinality(Passed(t, o, k)) <= Cardinality(Passed(u, v, k))
  <1>1. \A i \in 1..o[k] : i \in 1..v[k]
    OBVIOUS
  <1>2. Passed(t, o, k) \subseteq Passed(u, v, k)
    BY <1>1 DEF Passed
  <1> QED BY <1>2, PassedFinite, FS_Subset

LEMMA PassedOneMore ==
    ASSUME NEW t \in Topics, NEW o \in [Partitions -> Nat], NEW k \in Partitions, t[k][o[k] + 1] = Garbage
    PROVE  Cardinality(Passed(t, [o EXCEPT ![k] = @ + 1], k)) = Cardinality(Passed(t, o, k)) + 1
  <1> DEFINE v == [o EXCEPT ![k] = @ + 1]
  <1>1. v[k] = o[k] + 1 /\ o[k] \in Nat
    OBVIOUS
  <1> HIDE DEF v
  <1>2. \A i : i \in 1..v[k] <=> i \in 1..o[k] \/ i = o[k] + 1
    BY <1>1
  <1>3. Passed(t, v, k) = Passed(t, o, k) \cup {o[k] + 1}
    BY <1>2 DEF Passed
  <1>4. o[k] + 1 \notin 1..o[k]
    BY <1>1
  <1>5. o[k] + 1 \notin Passed(t, o, k)
    BY <1>4 DEF Passed
  <1>6. Cardinality(Passed(t, o, k) \cup {o[k] + 1}) = Cardinality(Passed(t, o, k)) + 1
    BY <1>5, PassedFinite, FS_AddElement
  <1> QED BY <1>3, <1>6 DEF v

LEMMA BreakerStep ==
    ASSUME TypeOK, InStage, BatchKept, BreakerTrips, [Next]_vars
    PROVE  BreakerTrips'
  <1>t. /\ topic \in Topics /\ offset \in [Partitions -> Nat] /\ (\A k \in Partitions : offset[k] <= Len(topic[k]))
        /\ errors \in Nat /\ BreakerLimit \in Nat /\ BreakerLimit # 0
    BY TypeParts, ConstantsOK DEF TopicOK, OffsetsOK, ReaderOK
  <1>l. \A k \in Partitions : Len(topic[k]) \in Nat
    BY <1>t DEF Topics
  <1>1. PICK k \in Partitions : OnlyForeign(topic, k) /\ errors <= Cardinality(Passed(topic, offset, k))
    BY DEF BreakerTrips
  <1>p. Cardinality(Passed(topic, offset, k)) \in Nat
    BY <1>t, PassedFinite
  \* What a step writes decodes, and it changes nothing that was read.
  <1>2. /\ topic' \in Topics /\ OnlyForeign(topic', k)
        /\ \A l \in Partitions : \A i \in 1..offset[l] : topic'[l][i] = topic[l][i]
    <2>1. PICK ms : AddsOf(ms)
      BY StepAdds
    <2>2. topic' \in Topics /\ Grown(topic', topic) /\ FromBatch(topic', topic, ms, Len(ms)) /\ ms \in Seq(Event)
      BY <2>1 DEF AddsOf, Adds
    <2>3. \A l \in Partitions : \A i \in 1..offset[l] : topic'[l][i] = topic[l][i]
      <3>1. ASSUME NEW l \in Partitions, NEW i \in 1..offset[l] PROVE i \in 1..Len(topic[l])
        BY <1>t, <1>l
      <3> QED BY <2>2, <3>1 DEF Grown
    <2>4. ASSUME NEW l \in Partitions, l # k, NEW i \in 1..Len(topic'[l]) PROVE topic'[l][i] # Garbage
      <3>1. CASE i \in 1..Len(topic[l])
        <4>1. topic'[l][i] = topic[l][i]
          BY <2>2, <3>1 DEF Grown
        <4> QED BY <1>1, <2>4, <3>1, <4>1 DEF OnlyForeign
      <3>2. CASE i \notin 1..Len(topic[l])
        <4>0. Len(topic'[l]) \in Nat /\ Len(topic[l]) \in Nat
          BY <1>l, <2>2 DEF Topics
        <4>1. i \in Len(topic[l]) + 1..Len(topic'[l])
          BY <3>2, <4>0
        <4>2. PICK j \in 1..Len(ms) : topic'[l][i] = ms[j]
          BY <2>2, <4>1 DEF FromBatch
        <4>3. ms[j] \in Event
          BY <2>2
        <4> QED BY <4>2, <4>3, KafkaQueueAssumption
      <3> QED BY <3>1, <3>2
    <2> QED BY <2>2, <2>3, <2>4 DEF OnlyForeign
  <1>o. offset' \in [Partitions -> Nat]
    BY OffsetsStep DEF OffsetsOK
  <1>q. Cardinality(Passed(topic', offset', k)) \in Nat
    BY <1>2, <1>o, PassedFinite
  <1>3. ASSUME offset[k] <= offset'[k]
        PROVE  Cardinality(Passed(topic, offset, k)) <= Cardinality(Passed(topic', offset', k))
    BY <1>t, <1>2, <1>3, <1>o, PassedGrows
  <1>4. offset[k] <= offset'[k]
    <2>1. CASE UNCHANGED offset
      BY <1>t, <2>1
    <2>2. ASSUME NEW l \in Partitions, offset' = [offset EXCEPT ![l] = @ + 1] PROVE offset[k] <= offset'[k]
      BY <1>t, <2>2
    <2> QED BY <2>1, <2>2, NextOutcome, CallsFrame, LoopFrame, CloseFrame, StutterFrame
            DEF ReadSteps, Finds, DequeueStart, DequeueCounts, DequeueFails, DequeueCancelled, DequeueEvent, DequeueSkips,
                DequeueBreaks, Fetches
  <1>5. errors' <= Cardinality(Passed(topic', offset', k))
    <2>1. CASE errors' = errors
      BY <1>t, <1>1, <1>p, <1>q, <1>3, <1>4, <2>1
    <2>2. CASE errors' = 0
      BY <1>q, <2>2
    <2>3. ASSUME NEW l \in Partitions, DequeueSkips(l) \/ DequeueBreaks(l)
          PROVE  errors' <= Cardinality(Passed(topic', offset', k))
      <3>1. /\ offset' = [offset EXCEPT ![l] = @ + 1] /\ topic[l][offset[l] + 1] = Garbage /\ offset[l] < Len(topic[l])
            /\ errors' = errors + 1 /\ topic' = topic
        BY <2>3, ReadFrame DEF DequeueSkips, DequeueBreaks, Fetches, Fetched, ReadSteps, Finds
      <3>2. offset[l] + 1 \in 1..Len(topic[l])
        BY <1>t, <1>l, <3>1
      <3>3. l = k
        BY <1>1, <3>1, <3>2 DEF OnlyForeign
      <3>4. Cardinality(Passed(topic', offset', k)) = Cardinality(Passed(topic, offset, k)) + 1
        BY <1>t, <3>1, <3>3, PassedOneMore
      <3> QED BY <1>t, <1>1, <1>p, <3>1, <3>4
    <2> QED BY <2>1, <2>2, <2>3, NextOutcome, CallsFrame, LoopFrame, CloseFrame, StutterFrame
            DEF ReadSteps, Finds, DequeueStart, DequeueCounts, DequeueFails, DequeueCancelled, DequeueEvent
  <1>6. consumer' # "ended" => errors' < BreakerLimit
    <2>1. CASE UNCHANGED <<consumer, errors>>
      BY <2>1 DEF BreakerTrips
    <2>2. CASE errors' = 0
      BY <1>t, <2>2
    <2>3. ASSUME NEW l \in Partitions, DequeueSkips(l) PROVE errors' < BreakerLimit
      BY <2>3 DEF DequeueSkips
    <2>4. CASE DequeueCounts
      BY <2>4 DEF DequeueCounts, BreakerTrips
    <2> QED BY <2>1, <2>2, <2>3, <2>4, NextOutcome, CallsFrame, LoopFrame, CloseFrame, StutterFrame
            DEF ReadSteps, Finds, DequeueStart, DequeueCounts, DequeueFails, DequeueCancelled, DequeueEvent, DequeueBreaks
  <1> QED BY <1>2, <1>5, <1>6 DEF BreakerTrips

ForeignOf(t, k) == Cardinality({i \in DOMAIN t[k] : t[k][i] = Garbage})

LEMMA ForeignCount ==
    ASSUME NEW t \in Topics, NEW k \in Partitions, NEW S, \A i \in S : i \in 1..Len(t[k]) /\ t[k][i] = Garbage
    PROVE  Cardinality(S) <= ForeignOf(t, k) /\ ForeignOf(t, k) \in Nat /\ Cardinality(S) \in Nat
  <1> DEFINE F == {i \in DOMAIN t[k] : t[k][i] = Garbage}
  <1>1. DOMAIN t[k] = 1..Len(t[k]) /\ Len(t[k]) \in Nat
    BY DEF Topics
  <1>2. IsFiniteSet(1..Len(t[k]))
    <2>1. 1 \in Int /\ Len(t[k]) \in Int
      BY <1>1
    <2> HIDE <1>1
    <2> QED BY <2>1, FS_Interval, Zenon
  <1>3. IsFiniteSet(F) /\ S \subseteq F
    BY <1>1, <1>2, FS_Subset
  <1>4. ForeignOf(t, k) = Cardinality(F)
    BY DEF ForeignOf
  <1> HIDE DEF F
  <1>5. IsFiniteSet(S) /\ Cardinality(S) <= Cardinality(F)
    BY <1>3, FS_Subset
  <1> QED BY <1>3, <1>4, <1>5, FS_CardinalityType

LEMMA EndsStep ==
    ASSUME TypeOK, InStage, CloseOrder, BatchKept, BreakerTrips, EndsOnlyWhenDone, [Next]_vars
    PROVE  EndsOnlyWhenDone'
  <1>t. topic \in Topics /\ readFaults \in Nat /\ errors \in Nat /\ BreakerLimit \in Nat
    BY TypeParts, ConstantsOK DEF TopicOK, CountersOK, ReaderOK
  <1>l. \A k \in Partitions : Len(topic[k]) \in Nat /\ DOMAIN topic[k] = 1..Len(topic[k])
    BY <1>t DEF Topics
  <1>g. topic' \in Topics /\ Grown(topic', topic)
    BY StepAdds DEF AddsOf, Adds
  <1>m. \A k \in Partitions : Len(topic'[k]) \in Nat
    BY <1>g DEF Topics
  <1>0. SUFFICES ASSUME early'
                 PROVE  readFaults' > 0 \/ \E k \in Partitions : ForeignOf(topic', k) >= BreakerLimit
    BY DEF EndsOnlyWhenDone, Foreign, ForeignOf
  <1>r. readFaults' \in Nat /\ readFaults <= readFaults'
    <2>1. readFaults' \in {readFaults, readFaults + 1}
      BY NextOutcome, CallsFrame, LoopFrame, CloseFrame, StutterFrame
         DEF ReadSteps, Finds, DequeueStart, DequeueCounts, DequeueFails, DequeueCancelled, DequeueEvent, DequeueSkips, DequeueBreaks
    <2> QED BY <1>t, <2>1
  <1>1. CASE early
    <2>1. readFaults > 0 \/ \E k \in Partitions : ForeignOf(topic, k) >= BreakerLimit
      BY <1>1 DEF EndsOnlyWhenDone, Foreign, ForeignOf
    <2>2. CASE readFaults > 0
      BY <1>t, <1>r, <2>2
    <2>3. ASSUME NEW k \in Partitions, ForeignOf(topic, k) >= BreakerLimit
          PROVE  ForeignOf(topic', k) >= BreakerLimit
      <3> DEFINE S == {i \in DOMAIN topic[k] : topic[k][i] = Garbage}
      <3>1. \A i \in S : i \in 1..Len(topic'[k]) /\ topic'[k][i] = Garbage
        <4>1. Len(topic[k]) <= Len(topic'[k]) /\ \A i \in 1..Len(topic[k]) : topic'[k][i] = topic[k][i]
          BY <1>g DEF Grown
        <4>2. \A i \in 1..Len(topic[k]) : i \in 1..Len(topic'[k])
          BY <1>l, <1>m, <4>1
        <4> QED BY <1>l, <4>1, <4>2
      <3>2. ForeignOf(topic, k) = Cardinality(S)
        BY DEF ForeignOf
      <3> HIDE DEF S
      <3>3. Cardinality(S) <= ForeignOf(topic', k) /\ ForeignOf(topic', k) \in Nat /\ Cardinality(S) \in Nat
        BY <1>g, <3>1, ForeignCount
      <3> QED BY <1>t, <2>3, <3>2, <3>3
    <2> QED BY <2>1, <2>2, <2>3
  <1>2. CASE ~early /\ DequeueFails
    <2>1. ~closed
      BY <1>0, <1>2, Zenon DEF DequeueFails
    <2>2. closer # "returned"
      BY <2>1 DEF CloseOrder
    <2>3. readFaults' = readFaults + 1
      BY <1>2, <2>2 DEF DequeueFails
    <2> QED BY <1>t, <2>3
  <1>3. ASSUME NEW l \in Partitions, DequeueBreaks(l)
        PROVE  \E k \in Partitions : ForeignOf(topic', k) >= BreakerLimit
    <2>1. errors' = errors + 1 /\ errors + 1 >= BreakerLimit
      BY <1>3 DEF DequeueBreaks
    <2>2. BreakerTrips' /\ OffsetsOK'
      BY BreakerStep, OffsetsStep
    <2>3. PICK k \in Partitions : errors' <= Cardinality(Passed(topic', offset', k))
      BY <2>2 DEF BreakerTrips
    <2>4. \A i \in Passed(topic', offset', k) : i \in 1..Len(topic'[k]) /\ topic'[k][i] = Garbage
      <3>1. offset'[k] \in Nat /\ offset'[k] <= Len(topic'[k])
        BY <2>2 DEF OffsetsOK
      <3>2. \A i \in 1..offset'[k] : i \in 1..Len(topic'[k])
        BY <1>m, <3>1
      <3> QED BY <3>2 DEF Passed
    <2>5. /\ Cardinality(Passed(topic', offset', k)) <= ForeignOf(topic', k) /\ ForeignOf(topic', k) \in Nat
          /\ Cardinality(Passed(topic', offset', k)) \in Nat
      BY <1>g, <2>4, ForeignCount
    <2>6. \A a, b, c, d \in Nat : a >= b /\ a <= c /\ c <= d => d >= b
      OBVIOUS
    <2>7. errors + 1 \in Nat
      BY <1>t
    <2> QED BY <1>t, <2>1, <2>3, <2>5, <2>6, <2>7
  <1>4. CASE UNCHANGED early
    BY <1>0, <1>1, <1>4
  <1> QED BY <1>1, <1>2, <1>3, <1>4, NextOutcome, CallsFrame, LoopFrame, CloseFrame, StutterFrame
          DEF ReadSteps, Finds, DequeueStart, DequeueCounts, DequeueCancelled, DequeueEvent, DequeueSkips

----------------------------------------------------------------------------
LEMMA InitKafka == ASSUME Init PROVE KafkaInv
  <1>c. BufferSize \in Nat /\ BatchCap \in Nat /\ MaxRetries \in Nat /\ BreakerLimit \in Nat /\ BreakerLimit # 0
    BY ConstantsOK
  <1>n. <<>> \in Seq(Event) /\ Len(<<>>) = 0
    OBVIOUS
  <1>1. PICK n \in 0..BreakerLimit, k \in Partitions :
          topic = [j \in Partitions |-> IF j = k THEN [i \in 1..n |-> Garbage] ELSE <<>>]
    BY DEF Init
  <1>2. /\ topic \in Topics
        /\ \A j \in Partitions : j # k => topic[j] = <<>>
        /\ topic[k] = [i \in 1..n |-> Garbage]
    <2>1. [i \in 1..n |-> Garbage] \in Seq(Message)
      BY DEF Message
    <2>2. <<>> \in Seq(Message)
      OBVIOUS
    <2> QED BY <1>1, <2>1, <2>2 DEF Topics
  <1>3. \A j \in Partitions : \A i \in 1..Len(topic[j]) : topic[j][i] = Garbage
    BY <1>2
  <1>i. /\ hash \in [Producers -> Partitions] /\ msgCh = <<>> /\ batch = <<>> /\ at = "collect" /\ attempt = 0
        /\ pending = <<>> /\ nfailed = 0 /\ offset = [j \in Partitions |-> 0] /\ produced = 0 /\ consumed = 0
        /\ overflow = 0 /\ closer = "none" /\ consumer = "idle" /\ errors = 0 /\ sent = [p \in Producers |-> 0]
        /\ accepted = {} /\ rejected = 0 /\ faults = 0 /\ readFaults = 0
    BY DEF Init
  <1>b. ~closed /\ ~chClosed /\ ~early /\ closed \in BOOLEAN /\ chClosed \in BOOLEAN /\ early \in BOOLEAN
    BY Zenon DEF Init
  <1>4. TypeOK
    <2>1. FlagsOK /\ ChannelOK /\ BatchOK /\ RetryOK /\ CountersOK /\ ReaderOK
      BY <1>c, <1>n, <1>i, <1>b DEF FlagsOK, ChannelOK, BatchOK, RetryOK, CountersOK, ReaderOK, Stages
    <2>2. TopicOK /\ CallsOK
      BY <1>2, <1>i, ConstantsOK DEF TopicOK, CallsOK
    <2>3. OffsetsOK
      <3>1. \A j \in Partitions : Len(topic[j]) \in Nat
        BY <1>2 DEF Topics
      <3> QED BY <1>i, <3>1 DEF OffsetsOK
    <2> QED BY <2>1, <2>2, <2>3, TypeParts
  <1>e. Elems(batch) = {} /\ Elems(msgCh) = {} /\ Elems(pending) = {}
    BY <1>i, EmptyElems
  <1>5. InStage /\ CloseOrder /\ BatchKept
    BY <1>i, <1>b, <1>e DEF InStage, CloseOrder, BatchKept, WriteStages, Failing
  <1>6. InOrder
    <2>1. Written = {}
      <3>1. ASSUME NEW e \in TopicSet(topic) PROVE e = Garbage
        BY <1>2, <1>3, InTopicSet
      <3> QED BY <1>4, <3>1, TopicType DEF Written
    <2>2. Ordered(<<>>)
      BY DEF Ordered
    <2> QED BY <1>i, <1>e, <2>1, <2>2 DEF InOrder, Older
  <1>7. Counted /\ LossesReported
    <2>1. IsFiniteSet({}) /\ Cardinality({}) = 0
      BY FS_EmptySet
    <2>2. accepted \ (InFlight \union OnTopic) = {}
      BY <1>i
    <2>3. MessagesCounted
      BY <1>n, <1>i, <2>1 DEF MessagesCounted, Uncounted
    <2>4. LossesReported
      BY <1>i, <2>1, <2>2 DEF LossesReported
    <2> QED BY <1>i, <2>1, <2>3, <2>4 DEF Counted
  <1>8. Backlog
    <2>1. Own = {}
      <3>1. ASSUME NEW x \in OwnOf(topic) PROVE FALSE
        BY <1>2, <1>3, InOwn DEF IsOwn
      <3> QED BY <1>4, <3>1, TopicType
    <2>2. Read = {}
      <3>1. ReadOf(offset) = {}
        <4>1. \A j \in Partitions : 1..offset[j] = {}
          BY <1>i
        <4>2. \A x : x \notin ReadOf(offset)
          BY <4>1, InRead DEF IsRead
        <4> QED BY <4>2
      <3> QED BY <3>1 DEF Read, ReadOf
    <2> QED BY <1>i, <2>1, <2>2, FS_EmptySet DEF Backlog, Smooth, Acknowledged, HandedOut
  <1>9. BreakerTrips
    <2>1. OnlyForeign(topic, k)
      BY <1>2 DEF OnlyForeign
    <2>2. Cardinality(Passed(topic, offset, k)) \in Nat
      BY <1>2, <1>4, TypeParts, PassedFinite DEF OffsetsOK
    <2> QED BY <1>c, <1>i, <2>1, <2>2 DEF BreakerTrips
  <1>10. EndsOnlyWhenDone
    BY <1>b DEF EndsOnlyWhenDone
  <1> QED BY <1>4, <1>5, <1>6, <1>7, <1>8, <1>9, <1>10 DEF KafkaInv

LEMMA KafkaStep == ASSUME KafkaInv, [Next]_vars PROVE KafkaInv'
  BY TypeStep, InStageStep, CloseOrderStep, BatchKeptStep, InOrderStep, CountedStep, LossesStep, BacklogStep,
     BreakerStep, EndsStep
     DEF KafkaInv

\* The invariant holds in every reachable state.
LEMMA KafkaInvariant == Spec => []KafkaInv
  <1>1. Init => KafkaInv
    BY InitKafka
  <1>2. KafkaInv /\ [Next]_vars => KafkaInv'
    BY KafkaStep
  <1> QED BY <1>1, <1>2, PTL DEF Spec

(***************************************************************************)
(* Every variable of the Kafka queue keeps its type: the channel and the   *)
(* batch stay within their capacities, and the reader never gets past the  *)
(* end of a partition.                                                     *)
(***************************************************************************)
THEOREM KafkaTypeCorrect == Spec => []TypeOK
  <1>1. KafkaInv => TypeOK
    BY DEF KafkaInv
  <1> QED BY <1>1, KafkaInvariant, PTL

(***************************************************************************)
(* Every event that Enqueue took is counted exactly once, none is lost     *)
(* without being counted as an overflow, whatever write fails at whatever  *)
(* stage; and as long as no call of the cluster fails, produced less       *)
(* consumed differs from the backlog by the batch that is acknowledged and *)
(* the message that is read but not yet counted, and by nothing else: for  *)
(* any number of producers, partitions and retries.                        *)
(***************************************************************************)
THEOREM KafkaEventsAccounted == Spec => []EventsAccounted
  <1>1. KafkaInv => EventsAccounted
    <2>1. ASSUME KafkaInv PROVE DepthTracksBacklog
      <3>1. Backlog
        BY <2>1 DEF KafkaInv
      <3> QED BY <3>1 DEF Backlog, DepthTracksBacklog
    <2> QED BY <2>1 DEF KafkaInv, Counted, EventsAccounted
  <1> QED BY <1>1, KafkaInvariant, PTL

(***************************************************************************)
(* produceLoop ends only when the queue is closed and all is flushed; the  *)
(* consumer ends on its own only when reading failed or the topic holds    *)
(* enough undecodable messages to trip the breaker.                        *)
(***************************************************************************)
THEOREM KafkaNeitherEndsEarly == Spec => []NeitherEndsEarly
  <1>1. KafkaInv => NeitherEndsEarly
    <2>1. ASSUME KafkaInv PROVE CloseFlushes
      <3>1. InStage /\ CloseOrder
        BY <2>1 DEF KafkaInv
      <3> QED BY <3>1, Zenon DEF InStage, CloseOrder, CloseFlushes
    <2> QED BY <2>1 DEF KafkaInv, NeitherEndsEarly
  <1> QED BY <1>1, KafkaInvariant, PTL

LEMMA WritesStayInBatch == ASSUME KafkaInv, Next PROVE StaysInBatch
  <1>i. TypeOK /\ InStage /\ BatchKept /\ InOrder /\ [Next]_vars
    BY DEF KafkaInv
  <1>t. topic \in Topics /\ OnTopic = TopicSet(topic)
    BY <1>i, TopicType
  <1>1. PICK ms : AddsOf(ms)
    BY <1>i, StepAdds
  <1>2. /\ topic' \in Topics /\ Grown(topic', topic) /\ FromBatch(topic', topic, ms, Len(ms)) /\ ms \in Seq(Event)
        /\ Elems(ms) \subseteq Elems(batch) /\ NewInOrder(topic', topic)
    <2>1. Ordered(batch)
      BY <1>i DEF InOrder
    <2> QED BY <1>1, <2>1 DEF AddsOf, Adds
  <1>l. \A k \in Partitions : Len(topic[k]) \in Nat /\ Len(topic'[k]) \in Nat
    BY <1>t, <1>2 DEF Topics
  <1>3. SUFFICES ASSUME NEW k \in Partitions, NEW j \in Len(topic[k]) + 1..Len(topic'[k]), NEW i \in 1..j - 1,
                        topic'[k][i] # Garbage, topic'[k][i].conn = topic'[k][j].conn,
                        topic'[k][i].seq >= topic'[k][j].seq
                 PROVE  at # "full" /\ topic'[k][i] \in Elems(batch)
    BY DEF StaysInBatch
  <1> DEFINE e == topic'[k][i]
             new == topic'[k][j]
  <1>4. new \in Elems(batch) /\ new \in Event
    <2>1. PICK b \in 1..Len(ms) : new = ms[b]
      BY <1>2 DEF FromBatch
    <2>2. new \in Elems(ms) /\ new \in Event
      BY <1>2, <2>1, InElems
    <2> QED BY <1>2, <2>2
  <1>5. j \in Nat /\ i \in Nat /\ i < j /\ i \in 1..Len(topic'[k])
    BY <1>l
  <1>6. e \in Event /\ ~(e.seq < new.seq)
    <2>1. topic'[k] \in Seq(Message)
      BY <1>2 DEF Topics
    <2>2. e \in Message
      BY <1>5, <2>1
    <2>3. e \in Event
      BY <1>3, <2>2 DEF Message
    <2>4. e.seq \in Nat /\ new.seq \in Nat
      BY <1>4, <2>3 DEF Event
    <2> QED BY <1>3, <2>3, <2>4
  \* What one write adds is in order: e was on the topic before.
  <1>7. i \in 1..Len(topic[k])
    <2>1. i \notin Len(topic[k]) + 1..Len(topic'[k])
      BY <1>2, <1>3, <1>5, <1>6 DEF NewInOrder
    <2> QED BY <1>5, <1>l, <2>1
  <1>8. e \in Written
    <2>1. e = topic[k][i]
      BY <1>2, <1>7 DEF Grown
    <2>2. e \in TopicSet(topic)
      BY <1>t, <1>7, <2>1, InTopicSet
    <2> QED BY <1>t, <1>3, <2>2 DEF Written
  <1> HIDE DEF e, new
  <1>9. e.conn = new.conn
    BY <1>3 DEF e, new
  <1>10. e \in Elems(batch)
    BY <1>i, <1>4, <1>6, <1>8, <1>9 DEF InOrder, Older
  <1>11. at # "full"
    BY <1>i, <1>4, <1>6, <1>8, <1>9 DEF InOrder, Older
  <1> QED BY <1>10, <1>11 DEF e

(***************************************************************************)
(* Reordering and duplication stay within the batch that is retried: a     *)
(* first try puts every event behind the older ones of its connection, and *)
(* a retry overtakes nothing but events of the same batch.                 *)
(***************************************************************************)
THEOREM KafkaRetriesStayInBatch == Spec => RetriesStayInBatch
  <1>1. KafkaInv /\ [Next]_vars => [StaysInBatch]_vars
    BY WritesStayInBatch
  <1> QED BY <1>1, KafkaInvariant, PTL DEF Spec, RetriesStayInBatch

=============================================================================
