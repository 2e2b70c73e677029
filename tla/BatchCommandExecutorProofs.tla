--------------------- MODULE BatchCommandExecutorProofs ---------------------
(***************************************************************************)
(* Theorems about the history of command states that the executor keeps,   *)
(* for any number of commands and any maximal size of the history.         *)
(*                                                                         *)
(* The capper's queue comes first: how many states it takes and what it    *)
(* leaves.  The types, what may leave the history and what a cap leaves    *)
(* hold however often the service is initialized; that each state is found *)
(* by its id needs ids that are used once, so it is proved up to the       *)
(* second initialization, at which the ids restart.                        *)
(***************************************************************************)
EXTENDS BatchCommandExecutor, FiniteSetTheorems, TLAPS

USE MaxCommandsAssumption, MaxInitsAssumption, MaxSizeAssumption

-----------------------------------------------------------------------------
(* How the capper shortens the queue *)

\* A set of naturals has a least element.
LEMMA LeastNumber ==
    ASSUME NEW T, T \subseteq Nat, T # {}
    PROVE  \E x \in T : \A y \in T : x <= y
<1> DEFINE R == {ss \in Nat \X Nat : ss[1] < ss[2]}
<1>1. IsWellFoundedOn(R, Nat)
  BY Zenon, NatLessThanWellFounded DEF OpToRel
<1>2. PICK x \in T : \A y \in T : <<y, x>> \notin R
  <2> HIDE DEF R
  <2> QED BY Zenon, <1>1, WFMin
<1>3. \A y \in T : ~(y < x)
  BY <1>2
<1> QED BY <1>3

\* How many of the first k states have terminated: none of none, and each
\* state counts for one at most.
LEMMA TerminatedCount ==
    ASSUME NEW q \in Seq(Command)
    PROVE  /\ \A k \in 0 .. Len(q) : /\ IsFiniteSet(TerminatedIn(q, k))
                                     /\ Cardinality(TerminatedIn(q, k)) \in 0 .. k
           /\ \A k \in 1 .. Len(q) : Cardinality(TerminatedIn(q, k))
                                       <= Cardinality(TerminatedIn(q, k - 1)) + 1
<1>1. ASSUME NEW k \in 0 .. Len(q)
      PROVE  /\ IsFiniteSet(TerminatedIn(q, k))
             /\ Cardinality(TerminatedIn(q, k)) \in 0 .. k
  <2>1. IsFiniteSet(1 .. k) /\ Cardinality(1 .. k) = k
    BY FS_Interval
  <2>2. TerminatedIn(q, k) \in SUBSET (1 .. k)
    BY DEF TerminatedIn
  <2> HIDE DEF TerminatedIn
  <2>3. /\ IsFiniteSet(TerminatedIn(q, k))
        /\ Cardinality(TerminatedIn(q, k)) <= k
    BY <2>1, <2>2, FS_Subset
  <2> QED BY <2>3, FS_CardinalityType
<1>2. ASSUME NEW k \in 1 .. Len(q)
      PROVE  Cardinality(TerminatedIn(q, k))
               <= Cardinality(TerminatedIn(q, k - 1)) + 1
  <2> DEFINE S == TerminatedIn(q, k - 1)
  <2>1. IsFiniteSet(S) /\ Cardinality(S) \in Nat
    BY <1>1, k - 1 \in 0 .. Len(q)
  <2>2. TerminatedIn(q, k) \in {S, S \cup {k}}
    BY DEF TerminatedIn
  <2> HIDE DEF S
  <2>3. Cardinality(S \cup {k})
          = IF k \in S THEN Cardinality(S) ELSE Cardinality(S) + 1
    BY Zenon, <2>1, FS_AddElement
  <2>4. \/ Cardinality(TerminatedIn(q, k)) = Cardinality(S)
        \/ Cardinality(TerminatedIn(q, k)) = Cardinality(S) + 1
    BY Zenon, <2>2, <2>3
  <2>5. Cardinality(TerminatedIn(q, k)) <= Cardinality(S) + 1
    BY <2>1, <2>4
  <2> QED BY <2>5 DEF S
<1> QED BY <1>1, <1>2

\* capCommanaQueue stops when it has dropped enough or the queue is empty,
\* never having dropped more than enough; it takes nothing from a queue that
\* is not too long.
LEMMA TakenStops ==
    ASSUME NEW q \in Seq(Command)
    PROVE  /\ Taken(q) \in 0 .. Len(q)
           /\ \/ Taken(q) = Len(q)
              \/ Cardinality(TerminatedIn(q, Taken(q))) = Excess(q)
           /\ Cardinality(TerminatedIn(q, Taken(q))) <= Excess(q)
           /\ Excess(q) = 0 => Taken(q) = 0
<1> DEFINE count(k) == Cardinality(TerminatedIn(q, k))
           Stops == {k \in 0 .. Len(q) : k = Len(q) \/ count(k) = Excess(q)}
<1>1. Len(q) \in Nat /\ Excess(q) \in Nat
  BY DEF Excess
<1>2. /\ \A k \in 0 .. Len(q) : count(k) \in 0 .. k
      /\ \A k \in 1 .. Len(q) : count(k) <= count(k - 1) + 1
  BY Zenon, TerminatedCount
<1>3. Taken(q) = (CHOOSE x \in Stops : \A y \in Stops : x =< y)
  BY Zenon DEF Taken, Min
<1> HIDE DEF count
<1>4. \E x \in Stops : \A y \in Stops : x <= y
  <2>1. Stops \subseteq Nat /\ Len(q) \in Stops
    BY <1>1
  <2> HIDE DEF Stops
  <2> QED BY <2>1, LeastNumber
<1>5. Taken(q) \in Stops /\ \A y \in Stops : Taken(q) <= y
  <2> HIDE DEF Stops
  <2> QED BY Zenon, <1>3, <1>4
<1>6. count(Taken(q)) <= Excess(q)
  <2> SUFFICES ASSUME count(Taken(q)) > Excess(q) PROVE FALSE
    BY <1>1, <1>2, <1>5
  <2> DEFINE Enough == {k \in 0 .. Len(q) : count(k) >= Excess(q)}
  <2>1. Taken(q) \in Enough /\ Enough \subseteq Nat
    BY <1>1, <1>2, <1>5
  <2>2. PICK k \in Enough : \A y \in Enough : k <= y
    <3> HIDE DEF Enough
    <3> QED BY <2>1, LeastNumber
  <2>3. count(k) = Excess(q)
    <3>1. CASE k = 0
      BY <1>1, <1>2, <3>1, <2>2
    <3>2. CASE k # 0
      <4>1. k \in 1 .. Len(q) /\ k - 1 \in 0 .. Len(q)
        BY <1>1, <2>2, <3>2
      <4>2. k - 1 \notin Enough
        BY <1>1, <2>2, <4>1
      <4> QED BY <1>1, <1>2, <2>2, <4>1, <4>2
    <3> QED BY <3>1, <3>2
  <2>4. k = Taken(q)
    BY <1>1, <1>5, <2>1, <2>2, <2>3
  <2> QED BY <1>1, <2>3, <2>4
<1>7. Excess(q) = 0 => Taken(q) = 0
  <2>1. count(0) = 0
    BY <1>1, <1>2
  <2> QED BY <1>1, <1>5, <2>1
<1> QED BY <1>5, <1>6, <1>7 DEF count

\* The numbers of a finite set are ranked by how many are not below them.
LEMMA Ranks ==
    ASSUME NEW K \in SUBSET Nat, IsFiniteSet(K)
    PROVE  /\ Cardinality(K) \in Nat
           /\ \A p \in 1 .. Cardinality(K) :
                \E k \in K : Cardinality({j \in K : j >= k}) = p
           /\ \A k \in K : Cardinality({j \in K : j >= k}) \in 1 .. Cardinality(K)
           /\ \A k, l \in K :
                Cardinality({j \in K : j >= k}) = Cardinality({j \in K : j >= l})
                  => k = l
<1> DEFINE up(k) == {j \in K : j >= k}
           rank == [k \in K |-> Cardinality(up(k))]
           n == Cardinality(K)
<1>1. n \in Nat
  BY FS_CardinalityType
<1>2. ASSUME NEW k \in K PROVE IsFiniteSet(up(k)) /\ rank[k] \in 1 .. n
  <2>1. up(k) \in SUBSET K /\ up(k) # {}
    OBVIOUS
  <2>2. /\ IsFiniteSet(up(k)) /\ Cardinality(up(k)) <= n
        /\ Cardinality(up(k)) \in Nat /\ Cardinality(up(k)) # 0
    <3> HIDE DEF up
    <3>1. IsFiniteSet(up(k)) /\ Cardinality(up(k)) <= n
      BY Zenon, <2>1, FS_Subset
    <3> QED BY Zenon, <2>1, <3>1, FS_CardinalityType, FS_EmptySet
  <2> QED BY <1>1, <2>2
<1>3. ASSUME NEW k \in K, NEW l \in K, k < l PROVE rank[k] # rank[l]
  <2>1. up(l) \in SUBSET up(k) /\ up(l) # up(k)
    <3>1. \A j \in K : j >= l => j >= k
      BY <1>3
    <3>2. k \in up(k) /\ k \notin up(l)
      BY <1>3
    <3> QED BY <3>1, <3>2
  <2>2. IsFiniteSet(up(k))
    BY <1>2
  <2>3. Cardinality(up(k)) # Cardinality(up(l))
    <3> HIDE DEF up
    <3> QED BY <2>1, <2>2, FS_Subset
  <2> QED BY <2>3
<1>4. \A k, l \in K : rank[k] = rank[l] => k = l
  <2> HIDE DEF rank
  <2> QED BY <1>3
<1>5. rank \in Injection(K, 1 .. n)
  <2>1. rank \in [K -> 1 .. n]
    BY <1>2
  <2> HIDE DEF rank
  <2> QED BY <1>4, <2>1 DEF Injection, IsInjective
<1>6. IsFiniteSet(1 .. n) /\ Cardinality(1 .. n) = n
  BY <1>1, FS_Interval
<1>7. rank \in Surjection(K, 1 .. n)
  <2> HIDE DEF rank
  <2> QED BY <1>5, <1>6, FS_Injection
<1>8. \A p \in 1 .. n : \E k \in K : rank[k] = p
  <2> HIDE DEF rank
  <2> QED BY Zenon, <1>7 DEF Surjection
<1> QED BY <1>1, <1>2, <1>4, <1>8

\* The positions of the states the capper does not drop.
Survivors(q) == (1 .. Len(q)) \ TerminatedIn(q, Taken(q))

\* g numbers the positions in the set S from 1 to n.
Numbers(g, n, S) ==
    /\ g \in [1 .. n -> S]
    /\ \A a, b \in 1 .. n : g[a] = g[b] => a = b
    /\ \A i \in S : \E p \in 1 .. n : g[p] = i

\* The states that go back to the front are those that were taken and had not
\* terminated, each once.
LEMMA ReinsertedOnce ==
    ASSUME NEW q \in Seq(Command)
    PROVE  /\ Reinserted(q) \in Seq(Command)
           /\ Len(Reinserted(q))
                = Taken(q) - Cardinality(TerminatedIn(q, Taken(q)))
           /\ \E g : /\ Numbers(g, Len(Reinserted(q)), ToReinsert(q))
                     /\ \A p \in 1 .. Len(Reinserted(q)) :
                          Reinserted(q)[p] = q[g[p]]
<1> DEFINE t == Taken(q)
           K == ToReinsert(q)
           m == Cardinality(K)
           rank(k) == Cardinality({j \in K : j >= k})
           g == [p \in 1 .. m |-> CHOOSE k \in K : rank(k) = p]
<1>1. t \in 0 .. Len(q) /\ Len(q) \in Nat
  BY TakenStops
<1>2. IsFiniteSet(1 .. t) /\ Cardinality(1 .. t) = t
  BY <1>1, FS_Interval
<1>3. /\ K \in SUBSET (1 .. t) /\ TerminatedIn(q, t) = (1 .. t) \ K
      /\ (1 .. t) \cap K = K
  BY DEF ToReinsert, TerminatedIn
<1> HIDE DEF t, K
<1>4. IsFiniteSet(K) /\ K \in SUBSET Nat
  BY <1>1, <1>2, <1>3, FS_Subset
<1>5. /\ m \in Nat
      /\ \A p \in 1 .. m : \E k \in K : rank(k) = p
      /\ \A k \in K : rank(k) \in 1 .. m
      /\ \A k, l \in K : rank(k) = rank(l) => k = l
  BY Zenon, <1>4, Ranks
<1>6. m = t - Cardinality(TerminatedIn(q, t))
  <2>1. Cardinality(TerminatedIn(q, t)) = t - m
    <3>1. Cardinality((1 .. t) \ K) = Cardinality(1 .. t) - Cardinality((1 .. t) \cap K)
      BY Zenon, <1>2, FS_Difference
    <3> QED BY Zenon, <1>2, <1>3, <3>1
  <2> QED BY <1>1, <1>5, <2>1
<1> HIDE DEF m, rank
<1>7. ASSUME NEW p \in 1 .. m PROVE g[p] \in K /\ rank(g[p]) = p
  BY Zenon, <1>5
<1>8. Numbers(g, m, K)
  <2>1. g \in [1 .. m -> K]
    BY <1>7
  <2> HIDE DEF g
  <2>2. \A a, b \in 1 .. m : g[a] = g[b] => a = b
    BY Zenon, <1>7
  <2>3. \A i \in K : \E p \in 1 .. m : g[p] = i
    BY Zenon, <1>5, <1>7
  <2> QED BY Zenon, <2>1, <2>2, <2>3 DEF Numbers
<1>9. Reinserted(q) = [p \in 1 .. m |-> q[g[p]]]
  <2>1. \A p \in 1 .. m :
          g[p] = CHOOSE k \in K : Cardinality({j \in K : j >= k}) = p
    BY Zenon DEF rank
  <2> HIDE DEF g
  <2>2. Reinserted(q)
          = [p \in 1 .. m |->
               q[CHOOSE k \in K : Cardinality({j \in K : j >= k}) = p]]
    BY Zenon DEF Reinserted, m, K
  <2> QED BY Zenon, <2>1, <2>2
<1> HIDE DEF g
<1>10. \A p \in 1 .. m : q[g[p]] \in Command
  <2>1. \A p \in 1 .. m : g[p] \in 1 .. Len(q)
    BY <1>1, <1>3, <1>7
  <2> QED BY <2>1
<1>11. Reinserted(q) \in Seq(Command) /\ Len(Reinserted(q)) = m
  BY <1>5, <1>9, <1>10
<1>12. \A p \in 1 .. m : Reinserted(q)[p] = q[g[p]]
  BY <1>9
<1>13. Numbers(g, Len(Reinserted(q)), ToReinsert(q))
  BY Zenon, <1>8, <1>11 DEF K
<1> QED BY Zenon, <1>6, <1>11, <1>12, <1>13 DEF t

\* A part of a queue.
LEMMA PartIs ==
    ASSUME NEW q \in Seq(Command), NEW a \in 1 .. Len(q) + 1, NEW b \in a - 1 .. Len(q)
    PROVE  /\ SubSeq(q, a, b) \in Seq(Command) /\ Len(SubSeq(q, a, b)) = b - a + 1
           /\ \A i \in 1 .. b - a + 1 : SubSeq(q, a, b)[i] = q[a + i - 1]
<1>1. \A i \in 1 .. b - a + 1 : a + i - 1 \in DOMAIN q
  OBVIOUS
<1>2. SubSeq(q, a, b) \in Seq(Command)
  BY <1>1
<1>3. Len(SubSeq(q, a, b)) = b - a + 1
  OBVIOUS
<1>4. \A i \in 1 .. b - a + 1 : SubSeq(q, a, b)[i] = q[a + i - 1]
  OBVIOUS
<1> QED BY <1>2, <1>3, <1>4

\* A queue after another.
LEMMA JoinIs ==
    ASSUME NEW r \in Seq(Command), NEW s \in Seq(Command)
    PROVE  /\ r \o s \in Seq(Command) /\ Len(r \o s) = Len(r) + Len(s)
           /\ \A i \in 1 .. Len(r) + Len(s) :
                (r \o s)[i] = IF i <= Len(r) THEN r[i] ELSE s[i - Len(r)]
<1>1. r \o s \in Seq(Command)
  OBVIOUS
<1>2. Len(r \o s) = Len(r) + Len(s)
  OBVIOUS
<1>3. \A i \in 1 .. Len(r) + Len(s) :
        (r \o s)[i] = IF i <= Len(r) THEN r[i] ELSE s[i - Len(r)]
  OBVIOUS
<1> QED BY <1>1, <1>2, <1>3

\* What capCommanaQueue leaves is the queue without the terminated states it
\* has taken: each other state keeps one place.
LEMMA CappedSurvivors ==
    ASSUME NEW q \in Seq(Command)
    PROVE  /\ CappedQueue(q) \in Seq(Command)
           /\ Len(CappedQueue(q))
                = Len(q) - Cardinality(TerminatedIn(q, Taken(q)))
           /\ \E g : /\ Numbers(g, Len(CappedQueue(q)), Survivors(q))
                     /\ \A p \in 1 .. Len(CappedQueue(q)) :
                          CappedQueue(q)[p] = q[g[p]]
<1> DEFINE t == Taken(q)
           n == Len(q)
           r == Reinserted(q)
           m == Len(r)
           rest == SubSeq(q, t + 1, n)
<1>1. t \in 0 .. n /\ n \in Nat
  BY TakenStops
<1>2. Cardinality(TerminatedIn(q, t)) \in 0 .. t
  BY Zenon, <1>1, TerminatedCount
<1>3. r \in Seq(Command) /\ m = t - Cardinality(TerminatedIn(q, t))
  BY Zenon, ReinsertedOnce
<1>4. PICK f : /\ Numbers(f, m, ToReinsert(q))
               /\ \A p \in 1 .. m : r[p] = q[f[p]]
  BY Zenon, ReinsertedOnce
<1>5. /\ rest \in Seq(Command) /\ Len(rest) = n - t
      /\ \A i \in 1 .. n - t : rest[i] = q[t + i]
  <2> HIDE DEF t, n, rest
  <2>1. t + 1 \in 1 .. n + 1 /\ n \in t .. n /\ (t + 1) - 1 = t
    BY <1>1
  <2>2. /\ rest \in Seq(Command) /\ Len(rest) = n - (t + 1) + 1
        /\ \A i \in 1 .. n - (t + 1) + 1 : rest[i] = q[(t + 1) + i - 1]
    BY <2>1, PartIs DEF n, rest
  <2>3. n - (t + 1) + 1 = n - t /\ \A i \in 1 .. n - t : (t + 1) + i - 1 = t + i
    BY <1>1
  <2> QED BY Zenon, <2>2, <2>3
<1>6. CappedQueue(q) = r \o rest
  BY Zenon DEF CappedQueue
<1>7. /\ ToReinsert(q) = {i \in Survivors(q) : i <= t}
      /\ \A i \in t + 1 .. n : i \in Survivors(q)
      /\ Survivors(q) \subseteq 1 .. n
  BY <1>1 DEF ToReinsert, Survivors, TerminatedIn
<1> HIDE DEF t, n, r, rest, m
<1>8. /\ r \o rest \in Seq(Command) /\ Len(r \o rest) = m + (n - t)
      /\ \A i \in 1 .. m + (n - t) :
           (r \o rest)[i] = IF i <= m THEN r[i] ELSE rest[i - m]
  <2>1. Len(r) + Len(rest) = m + (n - t)
    BY <1>5 DEF m
  <2>2. /\ r \o rest \in Seq(Command) /\ Len(r \o rest) = Len(r) + Len(rest)
        /\ \A i \in 1 .. Len(r) + Len(rest) :
             (r \o rest)[i] = IF i <= Len(r) THEN r[i] ELSE rest[i - Len(r)]
    BY <1>3, <1>5, JoinIs
  <2> QED BY <2>1, <2>2 DEF m
<1> DEFINE g == [p \in 1 .. m + (n - t) |-> IF p <= m THEN f[p] ELSE t + (p - m)]
<1>9. m \in 0 .. t
  BY <1>1, <1>2, <1>3
<1>10. ASSUME NEW p \in 1 .. m + (n - t)
       PROVE  /\ p <= m => g[p] = f[p] /\ g[p] \in Survivors(q) /\ g[p] <= t
              /\ p > m => /\ g[p] = t + (p - m) /\ p - m \in 1 .. n - t
                          /\ g[p] \in t + 1 .. n /\ g[p] \in Survivors(q)
  <2>1. CASE p <= m
    <3>1. f[p] \in ToReinsert(q) /\ p \in 1 .. m
      BY <1>1, <1>4, <1>9, <2>1 DEF Numbers
    <3> QED BY <1>1, <1>7, <1>9, <2>1, <3>1
  <2>2. CASE p > m
    BY <1>1, <1>7, <1>9, <2>2
  <2> HIDE DEF g
  <2> QED BY <1>1, <1>9, <2>1, <2>2
<1>11. \A p \in 1 .. m + (n - t) : (r \o rest)[p] = q[g[p]]
  <2> SUFFICES ASSUME NEW p \in 1 .. m + (n - t) PROVE (r \o rest)[p] = q[g[p]]
    BY Zenon
  <2>1. CASE p <= m
    <3>1. p \in 1 .. m
      BY <1>1, <1>9, <2>1
    <3> HIDE DEF g
    <3> QED BY <1>4, <1>8, <1>10, <2>1, <3>1
  <2>2. CASE p > m
    <3> HIDE DEF g
    <3>1. g[p] = t + (p - m) /\ p - m \in 1 .. n - t
      BY <1>10, <2>2
    <3>2. (r \o rest)[p] = rest[p - m]
      BY <1>8, <1>9, <2>2
    <3> QED BY Zenon, <1>5, <3>1, <3>2
  <2>3. p <= m \/ p > m
    BY <1>1, <1>9
  <2> QED BY Zenon, <2>1, <2>2, <2>3
<1>12. Numbers(g, m + (n - t), Survivors(q))
  <2>1. g \in [1 .. m + (n - t) -> Survivors(q)]
    <3>1. \A p \in 1 .. m + (n - t) : p <= m \/ p > m
      BY <1>1, <1>9
    <3>2. \A p \in 1 .. m + (n - t) : g[p] \in Survivors(q)
      BY Zenon, <1>10, <3>1
    <3> QED BY Zenon, <3>2
  <2>2. ASSUME NEW i \in Survivors(q) PROVE \E p \in 1 .. m + (n - t) : g[p] = i
    <3>1. CASE i <= t
      <4>1. PICK p \in 1 .. m : f[p] = i
        BY <1>4, <1>7, <3>1 DEF Numbers
      <4>2. p \in 1 .. m + (n - t) /\ g[p] = i
        BY <1>1, <1>9, <4>1
      <4> QED BY Zenon, <4>2
    <3>2. CASE i > t
      <4>1. i - t + m \in 1 .. m + (n - t) /\ g[i - t + m] = i
        BY <1>1, <1>7, <1>9, <3>2
      <4> QED BY Zenon, <4>1
    <3> QED BY <1>1, <1>7, <3>1, <3>2
  <2> HIDE DEF g
  <2>3. ASSUME NEW a \in 1 .. m + (n - t), NEW b \in 1 .. m + (n - t), g[a] = g[b]
        PROVE  a = b
    <3>1. CASE a <= m /\ b <= m
      <4>1. a \in 1 .. m /\ b \in 1 .. m /\ f[a] = f[b]
        BY <1>1, <1>9, <1>10, <2>3, <3>1
      <4> QED BY Zenon, <1>4, <4>1 DEF Numbers
    <3>2. CASE a > m /\ b > m
      BY <1>1, <1>9, <1>10, <2>3, <3>2
    <3>3. CASE (a <= m) # (b <= m)
      BY <1>1, <1>7, <1>9, <1>10, <2>3, <3>3
    <3> QED BY <1>1, <1>9, <3>1, <3>2, <3>3
  <2> QED BY Zenon, <2>1, <2>2, <2>3 DEF Numbers
<1>13. Len(r \o rest) = n - Cardinality(TerminatedIn(q, t))
  BY <1>1, <1>2, <1>3, <1>8
<1> HIDE DEF g
<1>14. \E h : /\ Numbers(h, Len(r \o rest), Survivors(q))
              /\ \A p \in 1 .. Len(r \o rest) : (r \o rest)[p] = q[h[p]]
  BY Zenon, <1>8, <1>11, <1>12
<1>15. CappedQueue(q) \in Seq(Command)
  BY Zenon, <1>6, <1>8
<1>16. Len(CappedQueue(q)) = Len(q) - Cardinality(TerminatedIn(q, Taken(q)))
  BY Zenon, <1>6, <1>13 DEF t, n
<1>17. \E h : /\ Numbers(h, Len(CappedQueue(q)), Survivors(q))
              /\ \A p \in 1 .. Len(CappedQueue(q)) : CappedQueue(q)[p] = q[h[p]]
  BY Zenon, <1>6, <1>14
<1> QED BY Zenon, <1>15, <1>16, <1>17

-----------------------------------------------------------------------------
(* Types *)

\* The map stays a map when states are erased from it.
LEMMA EraseType ==
    ASSUME NEW S, command_state_fast_access_map \in [Command -> 0 .. MaxCommands]
    PROVE  Erase(S) \in [Command -> 0 .. MaxCommands]
  BY DEF Erase, NoCommand

\* A new command has a number, an id, an event and a state.
LEMMA EnqueueTypes ==
    ASSUME TypeOK, NEW id, EnqueueNew(id)
    PROVE  /\ submitted' \in 0 .. MaxCommands
           /\ command_sequence_id' \in 0 .. MaxCommands
           /\ unique_id' \in [Command -> 0 .. MaxCommands]
           /\ event' \in [Command -> EventType]
           /\ live' \subseteq Command
           /\ command_state_queue' \in Seq(Command)
           /\ command_state_fast_access_map' \in [Command -> 0 .. MaxCommands]
           /\ last_event' \in [Command -> EventType]
           /\ UNCHANGED fault_description
<1> USE DEF TypeOK, EnqueueNew, addComamndState
<1>1. submitted + 1 \in Command /\ id \in Command
  BY Zenon
<1>2. submitted' \in 0 .. MaxCommands /\ command_sequence_id' \in 0 .. MaxCommands
  BY <1>1 DEF Command
<1>3. unique_id' \in [Command -> 0 .. MaxCommands]
  BY <1>1 DEF Command
<1>4. "QUEUED" \in EventType
  BY DEF EventType
<1>5. event' \in [Command -> EventType] /\ last_event' \in [Command -> EventType]
  BY <1>4
<1>6. live' \subseteq Command
  BY <1>1
<1>7. command_state_queue' \in Seq(Command)
  BY <1>1
<1>8. command_state_fast_access_map' \in [Command -> 0 .. MaxCommands]
  BY <1>1 DEF Command
<1> QED BY <1>2, <1>3, <1>5, <1>6, <1>7, <1>8

\* A command that a sandbox holds was given an id.
Identified == \A c \in live : unique_id[c] \in Command

\* Submissions, events and descriptions.
LEMMA EventTypes ==
    ASSUME TypeOK, Identified, Event, UNCHANGED <<flushing, readVars>> PROVE TypeOK'
<1> USE DEF TypeOK, readVars, historyVars, fieldVars, commandVars, serviceVars
<1>1. CASE SubmitTest
  BY <1>1 DEF SubmitTest
<1>2. CASE SubmitCommand
  <2>1. CASE EnqueueNew(command_sequence_id + 1)
    BY <1>2, <2>1, EnqueueTypes DEF SubmitCommand
  <2>2. CASE /\ command_sequence_id < MaxCommands
             /\ command_sequence_id' = command_sequence_id + 1
             /\ UNCHANGED <<submitted, unique_id, event, live, historyVars,
                            fieldVars>>
    <3>1. command_sequence_id' \in 0 .. MaxCommands
      BY <2>2
    <3>2. /\ UNCHANGED <<submitted, unique_id, event, live, historyVars,
                         fieldVars, capper, faulting, serviceState, inits>>
          /\ submitting' = FALSE
      BY Zenon, <1>2, <2>2 DEF SubmitCommand
    <3> QED BY <3>1, <3>2
  <2> QED BY <1>2, <2>1, <2>2 DEF SubmitCommand
<1>3. ASSUME NEW c \in Command, WriteDescription(c) PROVE TypeOK'
  BY <1>3 DEF WriteDescription
<1>4. ASSUME NEW c \in Command, NEW e \in EventType, HandleCommandEvent(c, e)
      PROVE  TypeOK'
  <2> DEFINE state == getCommandState(unique_id[c])
  <2>1. /\ UNCHANGED <<historyVars, fault_description, submitted,
                       command_sequence_id, unique_id, capper, serviceVars>>
        /\ event' = [event EXCEPT ![c] = e]
        /\ live' \in {live, live \ {c}}
    BY <1>4 DEF HandleCommandEvent
  <2>2. CASE state = NoCommand
    BY <1>4, <2>1, <2>2 DEF HandleCommandEvent
  <2>3. CASE state # NoCommand
    <3>1. last_event' = [last_event EXCEPT ![state] = e]
      BY <1>4, <2>3 DEF HandleCommandEvent
    <3>3. last_event' \in [Command -> EventType]
      BY <3>1
    <3>4. state \in Command
      <4>1. unique_id[c] \in Command
        BY <1>4 DEF HandleCommandEvent, Identified
      <4> QED BY <2>3, <4>1 DEF getCommandState, NoCommand, Command
    <3>5. faulting' \in {faulting, faulting \cup {state}}
      BY <1>4, <2>3 DEF HandleCommandEvent
    <3> QED BY <2>1, <3>3, <3>4, <3>5
  <2> QED BY <2>2, <2>3
<1> QED BY <1>1, <1>2, <1>3, <1>4 DEF Event

\* The queue without its last state, and that state.
Front(q) == SubSeq(q, 1, Len(q) - 1)
Last(q) == q[Len(q)]

\* Removing the last state leaves the others where they were.
LEMMA FrontIs ==
    ASSUME NEW q \in Seq(Command), q # <<>>
    PROVE  /\ Front(q) \in Seq(Command) /\ Len(Front(q)) = Len(q) - 1
           /\ \A i \in 1 .. Len(q) - 1 : Front(q)[i] = q[i]
           /\ Len(q) \in Nat \ {0}
<1>1. Len(q) \in Nat \ {0} /\ Len(q) - 1 \in 1 - 1 .. Len(q) /\ 1 \in 1 .. Len(q) + 1
  OBVIOUS
<1>2. /\ Front(q) \in Seq(Command) /\ Len(Front(q)) = (Len(q) - 1) - 1 + 1
      /\ \A i \in 1 .. (Len(q) - 1) - 1 + 1 : Front(q)[i] = q[1 + i - 1]
  BY <1>1, PartIs DEF Front
<1>3. (Len(q) - 1) - 1 + 1 = Len(q) - 1 /\ \A i \in 1 .. Len(q) - 1 : 1 + i - 1 = i
  BY <1>1
<1> QED BY Zenon, <1>1, <1>2, <1>3

\* The capper.
LEMMA CapTypes ==
    ASSUME TypeOK, CapWorker, UNCHANGED <<flushing, readVars>> PROVE TypeOK'
<1> USE DEF readVars, fieldVars, commandVars, serviceVars
<1>1. UNCHANGED <<fieldVars, commandVars, faulting, serviceVars>>
  BY DEF CapWorker, CapTest, CapCommanaQueue, CapWake
<1>2. capper' \in {"off", "test", "cap", "wait"}
  BY DEF CapWorker, CapTest, CapCommanaQueue, CapWake
<1>3. /\ command_state_queue' \in Seq(Command)
      /\ command_state_fast_access_map' \in [Command -> 0 .. MaxCommands]
  <2>1. CASE CapCommanaQueue
    BY <2>1, CappedSurvivors, EraseType DEF CapCommanaQueue, TypeOK
  <2>2. CASE UNCHANGED historyVars
    BY <2>2 DEF historyVars, TypeOK
  <2> QED BY <2>1, <2>2 DEF CapWorker, CapTest, CapWake
<1> QED BY <1>1, <1>2, <1>3 DEF TypeOK

\* The flush and the reads.
LEMMA RpcTypes ==
    ASSUME TypeOK, (FlushCommandStates /\ UNCHANGED readVars) \/ Read PROVE TypeOK'
<1> USE DEF readVars, fieldVars, commandVars, serviceVars
<1>1. CASE FlushCommandStates /\ UNCHANGED readVars
  <2>1. /\ UNCHANGED <<fieldVars, commandVars, capper, faulting, serviceVars>>
        /\ flushing' \in BOOLEAN
    BY Zenon, <1>1 DEF FlushCommandStates, FlushStart, FlushRemove, FlushEnd,
       TypeOK
  <2>2. /\ command_state_queue' \in Seq(Command)
        /\ command_state_fast_access_map' \in [Command -> 0 .. MaxCommands]
    <3>1. CASE FlushRemove
      BY <3>1, FrontIs, EraseType DEF FlushRemove, EndedAtBack, Front, TypeOK
    <3>2. CASE UNCHANGED historyVars
      BY <3>2 DEF historyVars, TypeOK
    <3> QED BY <1>1, <3>1, <3>2 DEF FlushCommandStates, FlushStart, FlushEnd
  <2> QED BY <1>1, <2>1, <2>2 DEF TypeOK
<1>2. CASE Read
  <2>1. reading' \in 0 .. MaxCommands /\ read_event' \in EventType
    <3>1. ASSUME NEW id \in Command, ReadState(id)
          PROVE  reading' \in 0 .. MaxCommands /\ read_event' \in EventType
      BY <3>1 DEF ReadState, getCommandState, NoCommand, TypeOK, Command
    <3>2. CASE ReadDescription
      BY <3>2 DEF ReadDescription, NoCommand, EventType
    <3> QED BY <1>2, <3>1, <3>2 DEF Read
  <2>2. UNCHANGED <<historyVars, fieldVars, commandVars, capper, flushing,
                    faulting, serviceVars>>
    BY <1>2 DEF Read
  <2> QED BY <2>1, <2>2 DEF TypeOK, historyVars
<1> QED BY <1>1, <1>2

\* The service.
LEMMA ServiceTypes ==
    ASSUME TypeOK, Service, UNCHANGED <<flushing, readVars>> PROVE TypeOK'
<1> USE DEF readVars, historyVars, fieldVars, commandVars
<1>1. UNCHANGED <<faulting, submitting, flushing, reading, read_event>>
  BY DEF Service
<1>2. CASE InitService
  <2>1. /\ serviceState' = "Initialized" /\ inits' \in 0 .. MaxInits
        /\ UNCHANGED capper
    BY <1>2 DEF InitService, TypeOK
  <2>2. CASE EnqueueNew(1)
    BY <1>1, <2>1, <2>2, EnqueueTypes DEF TypeOK
  <2>3. CASE /\ command_sequence_id' = 0
             /\ UNCHANGED <<submitted, unique_id, event, live, historyVars,
                            fieldVars>>
    BY <1>1, <2>1, <2>3 DEF TypeOK
  <2> QED BY <1>2, <2>2, <2>3 DEF InitService
<1>3. CASE StartService \/ StopCall \/ StopDone
  BY <1>1, <1>3 DEF StartService, StopCall, StopDone, TypeOK
<1>4. CASE DeinitService
  <2>1. /\ UNCHANGED <<historyVars, fault_description, submitted,
                       command_sequence_id, unique_id, capper, inits>>
        /\ serviceState' = "Deinitialized" /\ live' = {}
    BY <1>4 DEF DeinitService
  <2>2. "KILLED" \in EventType
    BY DEF EventType, Ending
  <2>3. event' \in [Command -> EventType]
    BY <1>4, <2>2 DEF DeinitService, TypeOK
  <2>4. last_event' \in [Command -> EventType]
    BY <1>4, <2>2 DEF DeinitService, TypeOK
  <2> QED BY <1>1, <2>1, <2>3, <2>4 DEF TypeOK
<1> QED BY <1>2, <1>3, <1>4 DEF Service

\* Only a command with an id is given to a sandbox, and it keeps its id.
LEMMA IdentifiedStep ==
    ASSUME TypeOK, Identified, [Next]_vars PROVE Identified'
<1> USE DEF Identified
<1>1. CASE UNCHANGED unique_id /\ live' \subseteq live
  BY <1>1
<1>2. ASSUME NEW id, EnqueueNew(id) PROVE Identified'
  BY <1>2 DEF EnqueueNew, TypeOK
<1>3. CASE Event
  BY <1>1, <1>2, <1>3 DEF Event, SubmitTest, SubmitCommand, WriteDescription,
     HandleCommandEvent, commandVars
<1>4. CASE Service
  BY <1>1, <1>2, <1>4 DEF Service, InitService, StartService, StopCall,
     StopDone, DeinitService, commandVars
<1>5. CASE CapWorker \/ FlushCommandStates \/ Read \/ UNCHANGED vars
  BY <1>1, <1>5 DEF CapWorker, FlushCommandStates, Read, vars, commandVars
<1> QED BY <1>3, <1>4, <1>5 DEF Next

\* Every step keeps the types.
LEMMA TypeStep ==
    TypeOK /\ Identified /\ [Next]_vars => TypeOK' /\ Identified'
<1> SUFFICES ASSUME TypeOK, Identified, [Next]_vars PROVE TypeOK'
  BY IdentifiedStep
<1>1. CASE UNCHANGED vars
  BY <1>1 DEF vars, historyVars, fieldVars, commandVars, readVars, serviceVars,
     TypeOK
<1> QED BY <1>1, EventTypes, CapTypes, RpcTypes, ServiceTypes DEF Next

\* The types hold at the start.
LEMMA TypeInit == Init => TypeOK /\ Identified
<1> SUFFICES ASSUME Init PROVE TypeOK /\ Identified
  OBVIOUS
<1> USE DEF Init
<1>1. "NONE" \in EventType
  BY DEF EventType
<1>2. /\ command_state_queue \in Seq(Command) /\ live \subseteq Command
      /\ event \in [Command -> EventType] /\ last_event \in [Command -> EventType]
      /\ read_event \in EventType
  BY <1>1
<1>3. /\ unique_id \in [Command -> 0 .. MaxCommands]
      /\ command_state_fast_access_map \in [Command -> 0 .. MaxCommands]
      /\ fault_description \in [Command -> BOOLEAN]
      /\ submitted \in 0 .. MaxCommands /\ command_sequence_id \in 0 .. MaxCommands
      /\ reading \in 0 .. MaxCommands /\ inits \in 0 .. MaxInits
  BY DEF NoCommand
<1> QED BY <1>2, <1>3 DEF TypeOK, Identified

\* Every variable keeps its type.
THEOREM TypeCorrect == Spec => []TypeOK
<1>1. Spec => [](TypeOK /\ Identified)
  BY TypeInit, TypeStep, PTL DEF Spec
<1> QED BY <1>1, PTL

-----------------------------------------------------------------------------
(* What leaves the history *)

\* The states in the queue q, that each is in it once, and the states a cap of
\* it drops.
StatesOf(q) == {q[i] : i \in DOMAIN q}
OnceEach(q) == \A i, j \in DOMAIN q : q[i] = q[j] => i = j
Dropped(q) == {q[i] : i \in TerminatedIn(q, Taken(q))}

\* The capper drops terminated states only, keeps all others, and if it takes
\* the whole queue it drops all the terminated ones.
LEMMA CapKeeps ==
    ASSUME NEW q \in Seq(Command)
    PROVE  /\ StatesOf(CappedQueue(q)) = {q[i] : i \in Survivors(q)}
           /\ \A c \in Dropped(q) : Terminated(c)
           /\ StatesOf(q) = StatesOf(CappedQueue(q)) \cup Dropped(q)
           /\ OnceEach(q) => /\ OnceEach(CappedQueue(q))
                             /\ StatesOf(CappedQueue(q)) = StatesOf(q) \ Dropped(q)
           /\ Taken(q) = Len(q) =>
                \A c \in StatesOf(CappedQueue(q)) : ~Terminated(c)
           /\ Taken(q) = 0 => Dropped(q) = {}
<1> DEFINE r == CappedQueue(q)
           gone == TerminatedIn(q, Taken(q))
<1>1. r \in Seq(Command)
  BY CappedSurvivors
<1>2. PICK g : /\ Numbers(g, Len(r), Survivors(q))
               /\ \A p \in 1 .. Len(r) : r[p] = q[g[p]]
  BY Zenon, CappedSurvivors
<1>3. DOMAIN q = 1 .. Len(q) /\ DOMAIN r = 1 .. Len(r)
  BY <1>1
<1>4. Taken(q) \in 0 .. Len(q)
  BY TakenStops
<1>5. /\ gone \subseteq DOMAIN q
      /\ \A i \in gone : Terminated(q[i])
      /\ Survivors(q) = DOMAIN q \ gone
      /\ Taken(q) = Len(q) => \A i \in Survivors(q) : ~Terminated(q[i])
      /\ Taken(q) = 0 => gone = {}
  BY <1>3, <1>4 DEF TerminatedIn, Survivors
<1> HIDE DEF r, gone
<1>6. StatesOf(r) = {q[i] : i \in Survivors(q)}
  <2>1. \A p \in DOMAIN r : g[p] \in Survivors(q) /\ r[p] = q[g[p]]
    BY <1>2, <1>3 DEF Numbers
  <2>2. ASSUME NEW i \in Survivors(q) PROVE \E p \in DOMAIN r : r[p] = q[i]
    <3>1. PICK p \in 1 .. Len(r) : g[p] = i
      BY <1>2 DEF Numbers
    <3> QED BY <1>2, <1>3, <3>1
  <2> QED BY <2>1, <2>2 DEF StatesOf
<1>7. Dropped(q) = {q[i] : i \in gone}
  BY DEF Dropped, gone
<1>8. StatesOf(q) = StatesOf(r) \cup Dropped(q)
  BY Zenon, <1>5, <1>6, <1>7 DEF StatesOf
<1>9. ASSUME OnceEach(q)
      PROVE  OnceEach(r) /\ StatesOf(r) = StatesOf(q) \ Dropped(q)
  <2>1. OnceEach(r)
    <3> SUFFICES ASSUME NEW a \in 1 .. Len(r), NEW b \in 1 .. Len(r), r[a] = r[b]
                 PROVE  a = b
      BY <1>3 DEF OnceEach
    <3>1. /\ g[a] \in DOMAIN q /\ g[b] \in DOMAIN q /\ q[g[a]] = q[g[b]]
      BY <1>2, <1>5 DEF Numbers
    <3>2. g[a] = g[b]
      BY Zenon, <1>9, <3>1 DEF OnceEach
    <3> QED BY Zenon, <1>2, <3>2 DEF Numbers
  <2>2. \A c \in StatesOf(r) : c \notin Dropped(q)
    BY Zenon, <1>5, <1>6, <1>7, <1>9 DEF OnceEach
  <2> QED BY Zenon, <1>8, <2>1, <2>2
<1>10. \A c \in Dropped(q) : Terminated(c)
  BY Zenon, <1>5, <1>7
<1>11. Taken(q) = Len(q) => \A c \in StatesOf(r) : ~Terminated(c)
  BY Zenon, <1>5, <1>6
<1>12. Taken(q) = 0 => Dropped(q) = {}
  BY Zenon, <1>5, <1>7
<1> QED BY Zenon, <1>6, <1>8, <1>9, <1>10, <1>11, <1>12 DEF r

\* flushCommandStates removes one terminated state.
LEMMA FlushKeeps ==
    ASSUME NEW q \in Seq(Command), q # <<>>
    PROVE  /\ StatesOf(q) = StatesOf(Front(q)) \cup {Last(q)}
           /\ OnceEach(q) => /\ OnceEach(Front(q))
                             /\ StatesOf(Front(q)) = StatesOf(q) \ {Last(q)}
<1> DEFINE f == Front(q)
           n == Len(q)
<1>1. /\ f \in Seq(Command) /\ Len(f) = n - 1 /\ n \in Nat \ {0}
      /\ \A i \in 1 .. n - 1 : f[i] = q[i]
  BY FrontIs
<1>2. DOMAIN f = 1 .. n - 1 /\ DOMAIN q = 1 .. n /\ Last(q) = q[n]
  BY <1>1 DEF Last
<1>3. 1 .. n = (1 .. n - 1) \cup {n} /\ n \notin 1 .. n - 1
  BY <1>1
<1> HIDE DEF f, n
<1>4. StatesOf(q) = StatesOf(f) \cup {Last(q)}
  <2>1. \A i \in DOMAIN f : f[i] = q[i]
    BY <1>1, <1>2
  <2>2. DOMAIN q = DOMAIN f \cup {n}
    BY <1>2, <1>3
  <2> QED BY <1>2, <2>1, <2>2 DEF StatesOf
<1>5. OnceEach(q) => OnceEach(f)
  BY Zenon, <1>1, <1>2, <1>3 DEF OnceEach
<1>6. OnceEach(q) => Last(q) \notin StatesOf(f)
  <2> SUFFICES ASSUME OnceEach(q), NEW i \in DOMAIN f, f[i] = Last(q) PROVE FALSE
    BY Zenon DEF StatesOf
  <2>1. i \in DOMAIN q /\ n \in DOMAIN q /\ q[i] = q[n] /\ i # n
    BY <1>1, <1>2, <1>3
  <2> QED BY Zenon, <2>1 DEF OnceEach
<1> QED BY Zenon, <1>4, <1>5, <1>6 DEF f

\* A submission adds its state at the end.
LEMMA AppendKeeps ==
    ASSUME NEW q \in Seq(Command), NEW c \in Command
    PROVE  /\ StatesOf(Append(q, c)) = StatesOf(q) \cup {c}
           /\ OnceEach(q) /\ c \notin StatesOf(q) => OnceEach(Append(q, c))
<1> DEFINE a == Append(q, c)
           n == Len(q)
<1>1. /\ DOMAIN a = 1 .. n + 1 /\ DOMAIN q = 1 .. n /\ a[n + 1] = c
      /\ \A i \in 1 .. n : a[i] = q[i]
  OBVIOUS
<1>2. 1 .. n + 1 = (1 .. n) \cup {n + 1}
  OBVIOUS
<1> HIDE DEF a, n
<1>3. StatesOf(a) = StatesOf(q) \cup {c}
  BY <1>1, <1>2 DEF StatesOf
<1>4. OnceEach(q) /\ c \notin StatesOf(q) => OnceEach(a)
  BY <1>1, <1>2 DEF StatesOf, OnceEach
<1> QED BY Zenon, <1>3, <1>4 DEF a

-----------------------------------------------------------------------------
(* What may leave the history, and how much of it *)

\* What a step makes of the queue: it keeps it, adds a new state to it, caps
\* it or removes a terminated state from its end.
LEMMA QueueSteps ==
    ASSUME TypeOK, [Next]_vars
    PROVE  \/ UNCHANGED command_state_queue
           \/ command_state_queue' = Append(command_state_queue, submitted + 1)
              /\ submitted + 1 \in Command
           \/ CapCommanaQueue /\ CapWorker
           \/ FlushRemove
<1> USE DEF historyVars
<1>1. ASSUME NEW id, EnqueueNew(id)
      PROVE  /\ command_state_queue' = Append(command_state_queue, submitted + 1)
             /\ submitted + 1 \in Command
  BY <1>1 DEF EnqueueNew, addComamndState
<1>2. CASE Event
  BY <1>1, <1>2 DEF Event, SubmitTest, SubmitCommand, WriteDescription,
     HandleCommandEvent
<1>3. CASE Service
  BY <1>1, <1>3 DEF Service, InitService, StartService, StopCall, StopDone,
     DeinitService
<1>4. CASE CapWorker
  BY Zenon, <1>4 DEF CapWorker, CapTest, CapWake
<1>5. CASE FlushCommandStates
  BY Zenon, <1>5 DEF FlushCommandStates, FlushStart, FlushEnd
<1>6. CASE Read \/ UNCHANGED vars
  BY Zenon, <1>6 DEF Read, vars
<1> QED BY Zenon, <1>2, <1>3, <1>4, <1>5, <1>6 DEF Next

\* Whatever a step makes of the queue, what it takes from it has terminated.
LEMMA ForgottenStep ==
    ASSUME TypeOK, [Next]_vars
    PROVE  \A c \in InQueue : c \notin InQueue' => last_event[c] \in Ending
<1> DEFINE q == command_state_queue
<1>1. InQueue = StatesOf(q) /\ InQueue' = StatesOf(q')
  BY DEF InQueue, StatesOf
<1>2. q \in Seq(Command)
  BY DEF TypeOK
<1> HIDE DEF q
<1>3. CASE q' = q
  BY <1>1, <1>3
<1>4. CASE q' = Append(q, submitted + 1) /\ submitted + 1 \in Command
  BY Zenon, <1>1, <1>2, <1>4, AppendKeeps
<1>5. CASE q' = CappedQueue(q)
  <2>1. StatesOf(q) = StatesOf(q') \cup Dropped(q)
    BY Zenon, <1>2, <1>5, CapKeeps
  <2>2. \A c \in Dropped(q) : Terminated(c)
    BY Zenon, <1>2, CapKeeps
  <2> QED BY Zenon, <1>1, <2>1, <2>2 DEF Terminated
<1>6. CASE q # <<>> /\ Terminated(Last(q)) /\ q' = Front(q)
  <2>1. StatesOf(q) = StatesOf(q') \cup {Last(q)}
    BY <1>2, <1>6, FlushKeeps
  <2> QED BY Zenon, <1>1, <1>6, <2>1 DEF Terminated
<1> QED BY Zenon, <1>3, <1>4, <1>5, <1>6, QueueSteps
     DEF q, CapCommanaQueue, FlushRemove, EndedAtBack, Front, Last, back

\* Only what has terminated leaves the history, whatever capCommanaQueue,
\* flushCommandStates and the submissions do to it, and however often the
\* service is initialized.
THEOREM TerminatedForgotten == Spec => OnlyTerminatedForgotten
<1>1. Spec => [](TypeOK /\ Identified)
  BY TypeInit, TypeStep, PTL DEF Spec
<1>2. TypeOK /\ Identified /\ [Next]_vars
        => [\A c \in InQueue : c \notin InQueue' => last_event[c] \in Ending]_vars
  BY ForgottenStep
<1> QED BY <1>1, <1>2, PTL DEF Spec, OnlyTerminatedForgotten

\* A step that looks like a cap is one: no other step leaves the capper's
\* pass behind.
LEMMA CapIsCapper ==
    ASSUME [Next]_vars, CapCommanaQueue PROVE UNCHANGED last_event
<1>1. capper = "cap" /\ capper' = "wait"
  BY DEF CapCommanaQueue
<1>2. ~UNCHANGED capper /\ capper' # "test"
  BY <1>1
<1>3. ~Event
  BY <1>2 DEF Event, SubmitTest, SubmitCommand, WriteDescription,
     HandleCommandEvent
<1>4. ~Service
  BY <1>2 DEF Service, InitService, StartService, StopCall, StopDone,
     DeinitService
<1>5. ~FlushCommandStates /\ ~Read /\ ~UNCHANGED vars
  BY Zenon, <1>2 DEF FlushCommandStates, Read, vars
<1> QED BY Zenon, <1>3, <1>4, <1>5 DEF Next, CapWorker, fieldVars

\* What one cap leaves in the history.
LEMMA CapStep ==
    ASSUME TypeOK, [Next]_vars, CapCommanaQueue
    PROVE  /\ \/ Len(command_state_queue') <= command_state_queue_max_size
              \/ \A c \in InQueue' : last_event'[c] \notin Ending
           /\ \/ InQueue' = InQueue
              \/ Len(command_state_queue') >= command_state_queue_max_size
<1> DEFINE q == command_state_queue
           gone == Cardinality(TerminatedIn(q, Taken(q)))
           max == command_state_queue_max_size
<1>1. InQueue = StatesOf(q) /\ InQueue' = StatesOf(q')
  BY DEF InQueue, StatesOf
<1>2. q \in Seq(Command) /\ q' = CappedQueue(q)
  BY DEF TypeOK, CapCommanaQueue
<1>3. last_event' = last_event
  BY CapIsCapper
<1>4. /\ Taken(q) \in 0 .. Len(q) /\ gone \in Nat /\ gone <= Excess(q)
      /\ Taken(q) = Len(q) \/ gone = Excess(q)
      /\ Excess(q) = 0 => Taken(q) = 0
      /\ Len(q') = Len(q) - gone
  <2>1. Taken(q) \in 0 .. Len(q)
    BY <1>2, TakenStops
  <2>2. gone \in 0 .. Taken(q)
    BY Zenon, <1>2, <2>1, TerminatedCount
  <2>3. /\ gone <= Excess(q)
        /\ Taken(q) = Len(q) \/ gone = Excess(q)
        /\ Excess(q) = 0 => Taken(q) = 0
    BY Zenon, <1>2, TakenStops
  <2>4. Len(q') = Len(q) - gone
    BY Zenon, <1>2, CappedSurvivors
  <2> QED BY <2>1, <2>2, <2>3, <2>4
<1>5. Len(q) \in Nat /\ max \in Nat
  BY <1>2
<1> HIDE DEF q, gone, max
<1>6. CASE Len(q) > max
  <2>1. Excess(q) = Len(q) - max
    BY <1>6 DEF Excess, max
  <2>2. Len(q') >= max
    BY <1>4, <1>5, <2>1
  <2>3. CASE Taken(q) = Len(q)
    <3>1. \A c \in StatesOf(q') : ~Terminated(c)
      BY Zenon, <1>2, <2>3, CapKeeps
    <3> QED BY <1>1, <1>3, <2>2, <3>1 DEF Terminated, q, max
  <2>4. CASE gone = Excess(q)
    <3>1. Len(q') <= max
      BY <1>4, <1>5, <2>1, <2>4
    <3> QED BY <2>2, <3>1 DEF q, max
  <2> QED BY <1>4, <2>3, <2>4
<1>7. CASE ~(Len(q) > max)
  <2>1. Excess(q) = 0
    BY <1>7 DEF Excess, max
  <2>2. StatesOf(q') = StatesOf(q)
    <3>1. Dropped(q) = {}
      BY Zenon, <1>2, <1>4, <2>1, CapKeeps
    <3>2. StatesOf(q) = StatesOf(q') \cup Dropped(q)
      BY Zenon, <1>2, CapKeeps
    <3> QED BY <3>1, <3>2
  <2>3. Len(q') <= max
    BY <1>4, <1>5, <1>7, <2>1
  <2> QED BY <1>1, <2>2, <2>3 DEF q, max
<1> QED BY <1>6, <1>7

\* A cap leaves the history at its maximal size, or with nothing in it that
\* could be dropped, and drops no more than it has to.
THEOREM CapsExactly == Spec => CapExact
<1>1. Spec => [](TypeOK /\ Identified)
  BY TypeInit, TypeStep, PTL DEF Spec
<1>2. TypeOK /\ Identified /\ [Next]_vars
        => [ CapCommanaQueue =>
          /\ \/ Len(command_state_queue') <= command_state_queue_max_size
             \/ \A c \in InQueue' : last_event'[c] \notin Ending
          /\ \/ InQueue' = InQueue
             \/ Len(command_state_queue') >= command_state_queue_max_size ]_vars
  BY CapStep
<1> QED BY <1>1, <1>2, PTL DEF Spec, CapExact

-----------------------------------------------------------------------------
(* The history and the map that finds its states *)

\* Nothing is submitted before the first initialization.
Fresh == inits = 0 => submitted = 0 /\ serviceState = "Deinitialized"

\* Ids are used once, the history holds each state once, and what is still
\* live has not ended.
History ==
    /\ \A c \in 1 .. submitted : unique_id[c] \in 1 .. command_sequence_id
    /\ \A c, d \in 1 .. submitted : unique_id[c] = unique_id[d] => c = d
    /\ live \subseteq 1 .. submitted
    /\ InQueue \subseteq 1 .. submitted
    /\ OnceEach(command_state_queue)
    /\ \A c \in live : event[c] \notin Ending
    /\ QueueMapAgree
    /\ ActiveIsKnown

\* Initializations are counted, and none is submitted to before the first.
LEMMA FreshStep ==
    ASSUME TypeOK, Fresh, [Next]_vars PROVE Fresh' /\ inits <= inits'
<1> USE DEF Fresh
<1>1. inits \in Nat
  BY DEF TypeOK
<1>2. CASE UNCHANGED <<submitted, serviceState, inits>>
  BY <1>1, <1>2
<1>3. CASE Event
  <2>1. CASE SubmitCommand /\ serviceState # "Deinitialized"
    BY <1>1, <2>1 DEF SubmitCommand
  <2> QED
    BY Zenon, <1>2, <1>3, <2>1 DEF Event, SubmitTest, SubmitCommand, WriteDescription,
       HandleCommandEvent, commandVars, serviceVars
<1>4. CASE Service
  <2>1. CASE InitService
    BY <1>1, <2>1 DEF InitService
  <2>2. CASE StartService \/ StopCall \/ StopDone \/ DeinitService
    BY <1>1, <2>2 DEF StartService, StopCall, StopDone, DeinitService
  <2> QED BY <1>4, <2>1, <2>2 DEF Service
<1>5. CASE CapWorker \/ FlushCommandStates \/ Read \/ UNCHANGED vars
  BY Zenon, <1>2, <1>5 DEF CapWorker, CapTest, CapCommanaQueue, CapWake,
     FlushCommandStates, Read, vars, commandVars, serviceVars
<1> QED BY <1>3, <1>4, <1>5 DEF Next

\* A command that gets an id larger than all ids so far.
LEMMA EnqueueKeeps ==
    ASSUME TypeOK, History, NEW id, EnqueueNew(id),
           \A c \in 1 .. submitted : unique_id[c] < id
    PROVE  History'
<1> DEFINE c == submitted + 1
           map == command_state_fast_access_map
<1>1. /\ c \in Command /\ id \in Command
      /\ submitted' = c /\ command_sequence_id' = id
      /\ unique_id' = [unique_id EXCEPT ![c] = id]
      /\ event' = [event EXCEPT ![c] = "QUEUED"]
      /\ live' = live \cup {c}
      /\ command_state_queue' = Append(command_state_queue, c)
      /\ map' = [map EXCEPT ![id] = IF @ = NoCommand THEN c ELSE @]
      /\ last_event' = [last_event EXCEPT ![c] = "QUEUED"]
  BY Zenon DEF EnqueueNew, addComamndState
<1>2. /\ 1 .. c = (1 .. submitted) \cup {c} /\ c \notin 1 .. submitted
      /\ 1 .. submitted \subseteq Command /\ c # 0
  <2>1. submitted \in Nat /\ submitted + 1 \in 1 .. MaxCommands
    BY <1>1 DEF TypeOK, Command
  <2> QED BY <2>1 DEF Command
<1>3. /\ unique_id'[c] = id
      /\ \A d \in 1 .. submitted : unique_id'[d] = unique_id[d]
  BY <1>1, <1>2 DEF TypeOK
<1>4. ASSUME NEW d \in 1 .. submitted
      PROVE  unique_id[d] # id /\ unique_id[d] \in 1 .. id
  <2>1. unique_id[d] \in 1 .. command_sequence_id /\ command_sequence_id \in Nat
    BY DEF TypeOK, History
  <2>2. unique_id[d] < id /\ id \in Nat
    BY <1>1 DEF Command
  <2> QED BY <2>1, <2>2
<1>5. InQueue = StatesOf(command_state_queue)
      /\ InQueue' = StatesOf(command_state_queue')
  BY DEF InQueue, StatesOf
<1>6. InQueue' = InQueue \cup {c}
  BY <1>1, <1>5, AppendKeeps DEF TypeOK
<1>7. map[id] = NoCommand
  BY <1>1, <1>4 DEF History, QueueMapAgree
<1>8. map'[id] = c /\ \A i \in Command \ {id} : map'[i] = map[i]
  BY <1>1, <1>7 DEF TypeOK
<1>9. /\ event'[c] = "QUEUED" /\ last_event'[c] = "QUEUED"
      /\ \A d \in 1 .. submitted : event'[d] = event[d]
                                   /\ last_event'[d] = last_event[d]
  BY <1>1, <1>2 DEF TypeOK
<1>10. \A d \in 1 .. submitted : unique_id[d] \in Command
  <2>1. id \in 1 .. MaxCommands
    BY <1>1 DEF Command
  <2> QED BY <1>4, <2>1 DEF Command
<1>11. NoCommand \notin 1 .. c
  BY DEF NoCommand
<1> HIDE DEF c, map
<1>22. \A d \in 1 .. submitted : map'[unique_id'[d]] = map[unique_id[d]]
  BY Zenon, <1>3, <1>4, <1>8, <1>10
<1>12. \A d \in 1 .. c : unique_id'[d] \in 1 .. id
  <2>1. id \in 1 .. id
    BY <1>1 DEF Command
  <2> QED BY Zenon, <1>2, <1>3, <1>4, <2>1
<1>13. \A d, e \in 1 .. c : unique_id'[d] = unique_id'[e] => d = e
  BY Zenon, <1>2, <1>3, <1>4 DEF History
<1>14. live' \subseteq 1 .. c /\ InQueue' \subseteq 1 .. c
  BY Zenon, <1>1, <1>2, <1>6 DEF History
<1>15. OnceEach(command_state_queue')
  <2>1. c \notin StatesOf(command_state_queue)
    BY Zenon, <1>2, <1>5 DEF History
  <2> QED BY <1>1, <2>1, AppendKeeps DEF TypeOK, History
<1>16. \A d \in live' : event'[d] \notin Ending
  <2>1. "QUEUED" \notin Ending
    BY DEF Ending
  <2> QED BY Zenon, <1>1, <1>9, <2>1 DEF History
<1>17. \A d \in InQueue' : map'[unique_id'[d]] = d
  <2>1. map'[unique_id'[c]] = c
    BY Zenon, <1>3, <1>8
  <2>2. ASSUME NEW d \in InQueue PROVE map'[unique_id'[d]] = d
    <3>1. d \in 1 .. submitted /\ map[unique_id[d]] = d
      BY Zenon DEF History, QueueMapAgree, map
    <3> QED BY Zenon, <1>22, <3>1
  <2> QED BY Zenon, <1>6, <2>1, <2>2
<1>18. ASSUME NEW i \in Command, map'[i] # NoCommand
       PROVE  map'[i] \in InQueue' /\ unique_id'[map'[i]] = i
  <2>1. CASE i = id
    BY Zenon, <1>3, <1>6, <1>8, <2>1
  <2>2. CASE i # id
    <3>1. map'[i] = map[i]
      BY Zenon, <1>8, <2>2
    <3>2. map[i] \in InQueue /\ unique_id[map[i]] = i
      BY Zenon, <1>18, <3>1 DEF History, QueueMapAgree, map
    <3>3. map[i] \in 1 .. submitted
      BY Zenon, <3>2 DEF History
    <3> QED BY Zenon, <1>3, <1>6, <3>1, <3>2, <3>3
  <2> QED BY <2>1, <2>2
<1>19. \A d \in live' : map'[unique_id'[d]] = d /\ last_event'[d] = event'[d]
  <2>1. map'[unique_id'[c]] = c /\ last_event'[c] = event'[c]
    BY Zenon, <1>3, <1>8, <1>9
  <2>2. ASSUME NEW d \in live
        PROVE  map'[unique_id'[d]] = d /\ last_event'[d] = event'[d]
    <3>1. d \in 1 .. submitted /\ map[unique_id[d]] = d /\ last_event[d] = event[d]
      BY Zenon DEF History, ActiveIsKnown, map
    <3> QED BY Zenon, <1>9, <1>22, <3>1
  <2> QED BY Zenon, <1>1, <2>1, <2>2
<1>20. QueueMapAgree'
  BY Zenon, <1>17, <1>18 DEF QueueMapAgree, map
<1>21. ActiveIsKnown'
  BY Zenon, <1>19 DEF ActiveIsKnown, map
<1> QED BY <1>1, <1>12, <1>13, <1>14, <1>15, <1>16, <1>20, <1>21 DEF History

\* Terminated states leave the queue and the map together.
LEMMA ForgetKeeps ==
    ASSUME TypeOK, History, NEW S, S \subseteq InQueue,
           \A c \in S : Terminated(c),
           InQueue' = InQueue \ S, OnceEach(command_state_queue'),
           command_state_fast_access_map' = Erase(S),
           UNCHANGED <<fieldVars, commandVars>>
    PROVE  History'
<1> DEFINE map == command_state_fast_access_map
<1> USE DEF fieldVars, commandVars
<1>1. \A i \in Command : /\ (\E c \in S : unique_id[c] = i) => map'[i] = NoCommand
                         /\ (~\E c \in S : unique_id[c] = i) => map'[i] = map[i]
  BY DEF Erase
<1>2. /\ \A c \in 1 .. submitted : unique_id[c] \in Command
      /\ NoCommand \notin 1 .. submitted
  <2>1. command_sequence_id \in Nat /\ command_sequence_id <= MaxCommands
    BY DEF TypeOK
  <2>2. \A c \in 1 .. submitted : unique_id[c] \in 1 .. command_sequence_id
    BY DEF History
  <2> QED BY <2>1, <2>2 DEF Command, NoCommand
<1> HIDE DEF map
<1>3. ASSUME NEW c \in (1 .. submitted) \ S
      PROVE  map'[unique_id[c]] = map[unique_id[c]]
  <2>1. \A d \in S : unique_id[d] # unique_id[c]
    BY Zenon DEF History
  <2> QED BY Zenon, <1>1, <1>2, <2>1
<1>4. \A c \in InQueue' : map'[unique_id[c]] = c
  BY Zenon, <1>3 DEF History, QueueMapAgree, map
<1>5. ASSUME NEW i \in Command, map'[i] # NoCommand
      PROVE  map'[i] \in InQueue' /\ unique_id[map'[i]] = i
  <2>1. map'[i] = map[i] /\ \A c \in S : unique_id[c] # i
    BY Zenon, <1>1, <1>5
  <2>2. map[i] \in InQueue /\ unique_id[map[i]] = i
    BY Zenon, <1>5, <2>1 DEF History, QueueMapAgree, map
  <2> QED BY Zenon, <2>1, <2>2
<1>6. \A c \in live : c \notin S
  BY Zenon DEF History, ActiveIsKnown, Terminated
<1>7. \A c \in live : map'[unique_id[c]] = c /\ last_event[c] = event[c]
  BY Zenon, <1>3, <1>6 DEF History, ActiveIsKnown, map
<1>8. QueueMapAgree'
  BY Zenon, <1>4, <1>5 DEF QueueMapAgree, map
<1>9. ActiveIsKnown'
  BY Zenon, <1>7 DEF ActiveIsKnown, map
<1> QED BY Zenon, <1>8, <1>9 DEF History

\* An event of a live command reaches its own state.
LEMMA EventKeeps ==
    ASSUME TypeOK, Identified, History,
           NEW c \in Command, NEW e \in EventType, HandleCommandEvent(c, e)
    PROVE  History'
<1>1. /\ UNCHANGED <<historyVars, submitted, command_sequence_id, unique_id>>
      /\ c \in live
      /\ event' = [event EXCEPT ![c] = e]
      /\ live' = IF e \in Ending THEN live \ {c} ELSE live
  BY DEF HandleCommandEvent
<1>2. getCommandState(unique_id[c]) = c /\ c # NoCommand
  BY <1>1 DEF getCommandState, History, ActiveIsKnown, Command, NoCommand
<1>3. last_event' = [last_event EXCEPT ![c] = e]
  BY Zenon, <1>2 DEF HandleCommandEvent
<1>4. InQueue' = InQueue /\ command_state_queue' = command_state_queue
  BY <1>1 DEF InQueue, historyVars
<1>5. /\ live' \subseteq live
      /\ \A d \in live' : event'[d] \notin Ending
  BY <1>1 DEF TypeOK, History
<1>6. \A d \in live' : last_event'[d] = event'[d]
  BY <1>1, <1>3, <1>5 DEF TypeOK, History, ActiveIsKnown
<1>7. QueueMapAgree'
  BY Zenon, <1>1, <1>4 DEF QueueMapAgree, History, historyVars
<1>8. ActiveIsKnown'
  BY Zenon, <1>1, <1>5, <1>6 DEF ActiveIsKnown, History, historyVars
<1> QED BY <1>1, <1>4, <1>5, <1>7, <1>8 DEF History

\* deinit leaves no command in a sandbox, and the history as it is.
LEMMA DeinitKeeps ==
    ASSUME History, DeinitService PROVE History'
<1>1. /\ UNCHANGED <<historyVars, submitted, command_sequence_id, unique_id>>
      /\ live' = {}
  BY DEF DeinitService
<1>2. InQueue' = InQueue /\ command_state_queue' = command_state_queue
  BY <1>1 DEF InQueue, historyVars
<1>3. QueueMapAgree' /\ ActiveIsKnown'
  BY <1>1, <1>2 DEF QueueMapAgree, ActiveIsKnown, History, historyVars
<1> QED BY <1>1, <1>2, <1>3 DEF History

\* The capper forgets what has terminated, nothing else.
LEMMA CapperKeeps ==
    ASSUME TypeOK, History, CapCommanaQueue, UNCHANGED <<fieldVars, commandVars>>
    PROVE  History'
<1> DEFINE q == command_state_queue
<1>1. q \in Seq(Command) /\ OnceEach(q)
  BY DEF TypeOK, History
<1>2. q' = CappedQueue(q) /\ command_state_fast_access_map' = Erase(Dropped(q))
  BY DEF CapCommanaQueue, Dropped
<1>3. InQueue = StatesOf(q) /\ InQueue' = StatesOf(q')
  BY DEF InQueue, StatesOf
<1> HIDE DEF q
<1>4. /\ OnceEach(q') /\ StatesOf(q') = StatesOf(q) \ Dropped(q)
      /\ Dropped(q) \subseteq StatesOf(q)
      /\ \A c \in Dropped(q) : Terminated(c)
  BY Zenon, <1>1, <1>2, CapKeeps
<1> QED BY <1>2, <1>3, <1>4, ForgetKeeps DEF q

\* So does the flush, one state at a time.
LEMMA FlusherKeeps ==
    ASSUME TypeOK, History, FlushRemove, UNCHANGED <<fieldVars, commandVars>>
    PROVE  History'
<1> DEFINE q == command_state_queue
<1>1. q \in Seq(Command) /\ OnceEach(q) /\ q # <<>>
  BY DEF TypeOK, History, FlushRemove, EndedAtBack
<1>2. /\ q' = Front(q) /\ command_state_fast_access_map' = Erase({Last(q)})
      /\ Terminated(Last(q))
  BY DEF FlushRemove, EndedAtBack, Front, Last, back
<1>3. InQueue = StatesOf(q) /\ InQueue' = StatesOf(q')
  BY DEF InQueue, StatesOf
<1> HIDE DEF q
<1>4. /\ OnceEach(q') /\ StatesOf(q') = StatesOf(q) \ {Last(q)}
      /\ {Last(q)} \subseteq StatesOf(q)
  <2>1. StatesOf(q) = StatesOf(q') \cup {Last(q)}
    BY <1>1, <1>2, FlushKeeps
  <2>2. OnceEach(q') /\ StatesOf(q') = StatesOf(q) \ {Last(q)}
    BY <1>1, <1>2, FlushKeeps
  <2> QED BY Zenon, <2>1, <2>2
<1> QED BY <1>2, <1>3, <1>4, ForgetKeeps DEF q

\* History during the first initialization.
LEMMA HistoryStep ==
    ASSUME TypeOK, Identified, Fresh, inits <= 1 => History, [Next]_vars
    PROVE  inits' <= 1 => History'
<1> SUFFICES ASSUME inits' <= 1 PROVE History'
  OBVIOUS
<1>1. inits \in Nat /\ inits' \in Nat /\ inits <= inits'
  BY FreshStep, TypeStep DEF TypeOK
<1>2. History
  BY <1>1
<1>3. ASSUME UNCHANGED <<command_state_queue, command_state_fast_access_map,
                         last_event>>,
             UNCHANGED <<submitted, unique_id, event, live>>,
             \/ UNCHANGED command_sequence_id
             \/ command_sequence_id' = command_sequence_id + 1
             \/ submitted = 0
      PROVE  History'
  <2>1. InQueue' = InQueue
    BY <1>3 DEF InQueue
  <2>2. QueueMapAgree' /\ ActiveIsKnown'
    BY Zenon, <1>2, <1>3, <2>1 DEF QueueMapAgree, ActiveIsKnown, History
  <2>3. \A c \in 1 .. submitted' : unique_id'[c] \in 1 .. command_sequence_id'
    BY <1>2, <1>3 DEF History, TypeOK
  <2> QED BY Zenon, <1>2, <1>3, <2>1, <2>2, <2>3 DEF History
<1>4. CASE Event
  <2>1. CASE SubmitCommand /\ EnqueueNew(command_sequence_id + 1)
    <3>1. \A c \in 1 .. submitted : unique_id[c] < command_sequence_id + 1
      BY <1>2 DEF History, TypeOK
    <3> QED BY <1>2, <2>1, <3>1, EnqueueKeeps
  <2>2. CASE SubmitCommand /\ ~EnqueueNew(command_sequence_id + 1)
    BY Zenon, <1>3, <2>2 DEF SubmitCommand, historyVars, fieldVars
  <2>3. CASE SubmitTest
    BY Zenon, <1>3, <2>3 DEF SubmitTest, historyVars, fieldVars, commandVars
  <2>4. CASE \E c \in Command : WriteDescription(c)
    BY Zenon, <1>3, <2>4 DEF WriteDescription, historyVars, fieldVars, commandVars
  <2> QED BY Zenon, <1>2, <1>4, <2>1, <2>2, <2>3, <2>4, EventKeeps DEF Event
<1>5. CASE Service
  <2>1. CASE InitService
    <3>1. submitted = 0
      BY <1>1, <2>1 DEF InitService, Fresh
    <3>2. CASE EnqueueNew(1)
      BY <1>2, <3>1, <3>2, EnqueueKeeps
    <3>3. CASE ~EnqueueNew(1)
      BY Zenon, <1>3, <2>1, <3>1, <3>3 DEF InitService, historyVars, fieldVars
    <3> QED BY <3>2, <3>3
  <2>2. CASE StartService \/ StopCall \/ StopDone
    BY Zenon, <1>3, <2>2 DEF StartService, StopCall, StopDone, historyVars,
       fieldVars, commandVars
  <2> QED BY <1>2, <1>5, <2>1, <2>2, DeinitKeeps DEF Service
<1>6. CASE CapWorker
  <2>1. UNCHANGED <<fieldVars, commandVars>>
    BY <1>6 DEF CapWorker
  <2>2. CASE CapTest \/ CapWake
    BY Zenon, <1>3, <2>1, <2>2 DEF CapTest, CapWake, historyVars, fieldVars,
       commandVars
  <2> QED BY <1>2, <1>6, <2>1, <2>2, CapperKeeps DEF CapWorker
<1>7. CASE FlushCommandStates
  <2>1. UNCHANGED <<fieldVars, commandVars>>
    BY <1>7 DEF FlushCommandStates
  <2>2. CASE FlushStart \/ FlushEnd
    BY Zenon, <1>3, <2>1, <2>2 DEF FlushStart, FlushEnd, historyVars, fieldVars,
       commandVars
  <2> QED BY <1>2, <1>7, <2>1, <2>2, FlusherKeeps DEF FlushCommandStates
<1>8. CASE Read \/ UNCHANGED vars
  BY Zenon, <1>3, <1>8 DEF Read, vars, historyVars, fieldVars, commandVars
<1> QED BY <1>4, <1>5, <1>6, <1>7, <1>8 DEF Next

\* Nothing has been submitted at the start.
LEMMA HistoryInit == Init => Fresh /\ History
<1> SUFFICES ASSUME Init PROVE Fresh /\ History
  OBVIOUS
<1>1. InQueue = {} /\ live = {} /\ submitted = 0
  BY DEF Init, InQueue
<1>2. \A i \in Command : command_state_fast_access_map[i] = NoCommand
  BY DEF Init
<1>3. OnceEach(command_state_queue)
  BY DEF Init, OnceEach
<1>4. QueueMapAgree /\ ActiveIsKnown
  BY Zenon, <1>1, <1>2 DEF QueueMapAgree, ActiveIsKnown
<1>5. Fresh
  BY DEF Init, Fresh
<1> QED BY <1>1, <1>3, <1>4, <1>5 DEF History

\* The inductive invariant.
IInv == TypeOK /\ Identified /\ Fresh /\ (inits <= 1 => History)
LEMMA Inductive == Spec => []IInv
<1>1. Init => IInv
  BY TypeInit, HistoryInit DEF IInv
<1>2. IInv /\ [Next]_vars => IInv'
  BY TypeStep, FreshStep, HistoryStep DEF IInv
<1> QED BY <1>1, <1>2, PTL DEF Spec

\* Until the service is initialized a second time, when the ids restart, the
\* queue and the map hold the same states.
THEOREM HistoryFound == Spec => [](inits <= 1 => QueueMapAgree)
<1>1. IInv => (inits <= 1 => QueueMapAgree)
  BY DEF IInv, History
<1> QED BY <1>1, Inductive, PTL

\* Until then, too, a command that a sandbox holds is found by its id, with
\* its last event.
THEOREM ActiveFound == Spec => [](inits <= 1 => ActiveIsKnown)
<1>1. IInv => (inits <= 1 => ActiveIsKnown)
  BY DEF IInv, History
<1> QED BY <1>1, Inductive, PTL
=============================================================================
