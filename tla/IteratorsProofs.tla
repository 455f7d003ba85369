-------------------------- MODULE IteratorsProofs --------------------------
(***************************************************************************)
(* Induction over the natural numbers and over sequences, recursion along  *)
(* an interval, and what the iterators give for every sequence.            *)
(***************************************************************************)
EXTENDS Iterators, WellFoundedInduction, SequenceTheorems, TLAPS

-----------------------------------------------------------------------------
(* Induction on a set of natural numbers.                                  *)

NatOrder == {ss \in Nat \X Nat : ss[1] < ss[2]}

(* The order of the naturals is well founded.                              *)
LEMMA NatOrderWellFounded ==
  IsWellFoundedOn(NatOrder, Nat)
BY NatLessThanWellFounded DEF OpToRel, NatOrder

(* A set of naturals that is not empty has a least element.                *)
LEMMA LeastNatural ==
  ASSUME NEW S \in SUBSET Nat, S # {}
  PROVE  \E m \in S : \A k \in S : m <= k
<1>1. PICK m \in S : \A y \in S : ~(<<y, m>> \in NatOrder)
  BY NatOrderWellFounded, WFMin, Zenon
<1>2. m \in Nat
  OBVIOUS
<1>3. ASSUME NEW k \in S PROVE m <= k
  <2>1. k \in Nat
    OBVIOUS
  <2>2. k < m => <<k, m>> \in NatOrder
    BY <1>2, <2>1 DEF NatOrder
  <2>3. ~(k < m)
    BY <1>1, <2>2
  <2>4. QED
    BY <1>2, <2>1, <2>3
<1>4. QED
  BY <1>3

(* Induction: a set with 0 and every successor is the set of naturals.     *)
LEMMA NatInductive ==
  ASSUME NEW B \in SUBSET Nat, 0 \in B, \A n \in B : n + 1 \in B
  PROVE  B = Nat
<1> SUFFICES ASSUME B # Nat PROVE FALSE
  OBVIOUS
<1> DEFINE C == Nat \ B
<1>1. C \in SUBSET Nat /\ C # {}
  BY Zenon
<1> HIDE DEF C
<1>2. PICK m \in C : \A k \in C : m <= k
  BY <1>1, LeastNatural
<1>3. m \in Nat /\ m # 0
  BY DEF C
<1>4. m - 1 \in Nat /\ ~(m <= m - 1) /\ (m - 1) + 1 = m
  BY <1>3
<1>5. m - 1 \in B
  BY <1>2, <1>4 DEF C
<1>6. m \in B
  BY <1>4, <1>5
<1>7. QED
  BY <1>6 DEF C

(* The same for a set of the numbers up to n.                              *)
LEMMA IntervalInductive ==
  ASSUME NEW n \in Nat, NEW B, 0 \in B, \A i \in 0 .. n : i < n /\ i \in B => i + 1 \in B
  PROVE  \A i \in 0 .. n : i \in B
<1> DEFINE A == {i \in Nat : i <= n => i \in B}
<1>1. 0 \in A
  OBVIOUS
<1>2. \A i \in A : i + 1 \in A
  <2> TAKE i \in A
  <2>1. i \in Nat /\ (i <= n => i \in B)
    OBVIOUS
  <2>2. i + 1 <= n => i + 1 \in B
    BY <2>1
  <2>3. QED
    BY <2>1, <2>2
<1>3. A \in SUBSET Nat
  OBVIOUS
<1> HIDE DEF A
<1>4. A = Nat
  BY <1>1, <1>2, <1>3, NatInductive
<1>5. QED
  BY <1>4 DEF A

-----------------------------------------------------------------------------
(* Recursion along an interval.                                            *)

Follows(s, n, z, f) == s[0] = z /\ \A i \in 1 .. n : s[i] = f[i][s[i - 1]]

(* Whatever the steps f, there is a function that begins with z and makes  *)
(* step i from i - 1 to i.                                                 *)
LEMMA Recursion ==
  ASSUME NEW n \in Nat, NEW S, NEW z \in S, NEW f \in [1 .. n -> [S -> S]]
  PROVE  \E s \in [0 .. n -> S] : Follows(s, n, z, f)
<1> DEFINE B == {k \in Nat : \E s \in [0 .. k -> S] : Follows(s, k, z, f)}
<1>1. 0 \in B
  <2>1. [i \in 0 .. 0 |-> z] \in [0 .. 0 -> S] /\ Follows([i \in 0 .. 0 |-> z], 0, z, f)
    BY DEF Follows
  <2>2. QED
    BY <2>1
<1>2. ASSUME NEW k \in 0 .. n, k < n, k \in B PROVE k + 1 \in B
  <2>1. PICK s \in [0 .. k -> S] : Follows(s, k, z, f)
    BY <1>2
  <2> DEFINE t == [i \in 0 .. k + 1 |-> IF i = k + 1 THEN f[k + 1][s[k]] ELSE s[i]]
  <2>2. k \in Nat /\ k + 1 \in 1 .. n
    BY <1>2
  <2>3. f[k + 1][s[k]] \in S
    BY <2>2
  <2>4. t \in [0 .. k + 1 -> S]
    <3> SUFFICES ASSUME NEW i \in 0 .. k + 1 PROVE t[i] \in S
      OBVIOUS
    <3>1. i # k + 1 => i \in 0 .. k
      BY <2>2
    <3>2. QED
      BY <2>3, <3>1
  <2>5. t[0] = z
    BY <2>1, <2>2 DEF Follows
  <2>6. ASSUME NEW i \in 1 .. k + 1 PROVE t[i] = f[i][t[i - 1]]
    <3>1. i \in 0 .. k + 1 /\ i - 1 \in 0 .. k + 1 /\ i - 1 # k + 1
      BY <2>2
    <3>2. t[i - 1] = s[i - 1]
      BY <3>1
    <3>3. CASE i = k + 1
      <4>1. t[i] = f[k + 1][s[k]] /\ i - 1 = k
        BY <2>2, <3>1, <3>3
      <4>2. QED
        BY <3>2, <3>3, <4>1
    <3>4. CASE i # k + 1
      <4>1. i \in 1 .. k /\ t[i] = s[i]
        BY <2>2, <3>1, <3>4
      <4>2. QED
        BY <2>1, <3>2, <4>1 DEF Follows
    <3>5. QED
      BY <3>3, <3>4
  <2> HIDE DEF t
  <2>7. QED
    BY <2>2, <2>4, <2>5, <2>6 DEF Follows
<1> HIDE DEF B
<1>3. \A k \in 0 .. n : k < n /\ k \in B => k + 1 \in B
  BY <1>2
<1>4. \A k \in 0 .. n : k \in B
  BY <1>1, <1>3, IntervalInductive, Zenon
<1>5. n \in B
  BY <1>4
<1>6. QED
  BY <1>5 DEF B

-----------------------------------------------------------------------------
(* Folds.                                                                  *)

(* A set that has the empty sequence, and with a sequence every one that   *)
(* is an element longer, has them all.                                     *)
LEMMA SeqInductive ==
  ASSUME NEW T, NEW B, <<>> \in B, \A v \in Seq(T), e \in T : v \in B => Append(v, e) \in B
  PROVE  \A v \in Seq(T) : v \in B
<1> DEFINE L == {n \in Nat : \A v \in Seq(T) : Len(v) = n => v \in B}
<1>1. 0 \in L
  <2>1. ASSUME NEW v \in Seq(T), Len(v) = 0 PROVE v = <<>>
    BY <2>1
  <2>2. QED
    BY <2>1
<1>2. ASSUME NEW n \in L PROVE n + 1 \in L
  <2>1. ASSUME NEW v \in Seq(T), Len(v) = n + 1 PROVE v \in B
    <3> DEFINE u == SubSeq(v, 1, n)
               e == v[n + 1]
    <3>1. n \in Nat /\ n + 1 \in 1 .. Len(v)
      BY <1>2, <2>1
    <3>2. u \in Seq(T) /\ Len(u) = n /\ e \in T /\ \A i \in 1 .. n : u[i] = v[i]
      BY <2>1, <3>1
    <3> HIDE DEF u
    <3>3. Append(u, e) \in Seq(T) /\ Len(Append(u, e)) = n + 1
      BY <3>1, <3>2
    <3>4. ASSUME NEW i \in 1 .. n + 1 PROVE Append(u, e)[i] = v[i]
      <4>1. CASE i = n + 1
        BY <3>1, <3>2, <4>1
      <4>2. CASE i # n + 1
        <5>1. i \in 1 .. n
          BY <3>1, <4>2
        <5>2. QED
          BY <3>2, <5>1
      <4>3. QED
        BY <4>1, <4>2, Zenon
    <3> HIDE DEF e
    <3>5. v = Append(u, e)
      <4>1. ASSUME NEW x \in Seq(T), NEW y \in Seq(T), Len(x) = n + 1, Len(y) = n + 1,
                   \A i \in 1 .. n + 1 : x[i] = y[i]
            PROVE  x = y
        BY <4>1
      <4>2. QED
        BY <2>1, <3>3, <3>4, <4>1
    <3>6. u \in B
      BY <1>2, <3>2
    <3>7. QED
      BY <3>2, <3>5, <3>6
  <2>2. QED
    BY <2>1
<1>3. L \in SUBSET Nat /\ \A n \in L : n + 1 \in L
  BY <1>2
<1> HIDE DEF L
<1>4. L = Nat
  BY <1>1, <1>3, NatInductive
<1>5. ASSUME NEW v \in Seq(T) PROVE v \in B
  <2>1. Len(v) \in L
    BY <1>4
  <2>2. QED
    BY <2>1 DEF L
<1>6. QED
  BY <1>5

(* The accumulators of a fold, and that there are some of type S.          *)
Accumulators(p, v, init, step) ==
  p[0] = init /\ \A i \in 1 .. Len(v) : p[i] = step[p[i - 1]][v[i]]

Accumulates(S, v, init, step) ==
  \E p \in [0 .. Len(v) -> S] :
    Accumulators(p, v, init, step) /\ Fold(v, init, step) = p[Len(v)]

(* A fold goes through accumulators of its type to the last of them.       *)
LEMMA FoldSteps ==
  ASSUME NEW S, NEW T, NEW init \in S, NEW step \in [S -> [T -> S]], NEW v \in Seq(T)
  PROVE  Accumulates(S, v, init, step)
<1> DEFINE n == Len(v)
           f == [i \in 1 .. n |-> [x \in S |-> step[x][v[i]]]]
           E(s) == [i \in 0 .. n |-> IF i = 0 THEN init ELSE step[s[i - 1]][v[i]]]
           p == CHOOSE s : s = E(s)
<1>1. n \in Nat /\ \A i \in 1 .. n : v[i] \in T
  OBVIOUS
<1>2. Fold(v, init, step) = p[n]
  BY DEF Fold
<1> HIDE DEF n
<1>3. f \in [1 .. n -> [S -> S]]
  BY <1>1
<1>4. PICK s \in [0 .. n -> S] : Follows(s, n, init, f)
  <2> HIDE DEF f
  <2>1. QED
    BY <1>1, <1>3, Recursion, Zenon
<1>5. s = E(s)
  <2>1. ASSUME NEW i \in 1 .. n PROVE s[i] = step[s[i - 1]][v[i]]
    <3>1. i - 1 \in 0 .. n
      BY <1>1
    <3>2. s[i - 1] \in S /\ s[i] = f[i][s[i - 1]]
      BY <1>4, <3>1, Zenon DEF Follows
    <3>3. QED
      BY <3>2
  <2>2. \A i \in 0 .. n : s[i] = E(s)[i]
    <3> TAKE i \in 0 .. n
    <3>1. i = 0 \/ i \in 1 .. n
      BY <1>1
    <3>2. QED
      BY <1>1, <1>4, <2>1, <3>1 DEF Follows
  <2>3. QED
    BY <2>2
<1>6. p = E(p)
  <2> HIDE DEF E
  <2>1. QED
    BY <1>5
<1> HIDE DEF p
<1>7. /\ p = [i \in 0 .. n |-> p[i]] /\ p[0] = init
      /\ \A i \in 1 .. n : p[i] = step[p[i - 1]][v[i]]
  <2>1. \A i \in 0 .. n : p[i] = IF i = 0 THEN init ELSE step[p[i - 1]][v[i]]
    BY <1>6, Zenon
  <2>2. p = [i \in 0 .. n |-> p[i]]
    BY <1>6
  <2>3. 0 \in 0 .. n /\ \A i \in 1 .. n : i \in 0 .. n /\ i # 0
    BY <1>1
  <2>4. QED
    BY <2>1, <2>2, <2>3, Zenon
<1> DEFINE B == {i \in 0 .. n : p[i] \in S}
<1>8. \A i \in 0 .. n : i \in B
  <2>1. 0 \in B
    BY <1>1, <1>7
  <2>2. ASSUME NEW i \in 0 .. n, i < n, i \in B PROVE i + 1 \in B
    <3>1. i + 1 \in 1 .. n /\ i + 1 \in 0 .. n /\ (i + 1) - 1 = i
      BY <1>1, <2>2
    <3>2. p[i + 1] = step[p[i]][v[i + 1]] /\ p[i] \in S /\ v[i + 1] \in T
      BY <1>1, <1>7, <2>2, <3>1, Zenon
    <3>3. QED
      BY <3>1, <3>2
  <2> HIDE DEF B
  <2>3. \A i \in 0 .. n : i < n /\ i \in B => i + 1 \in B
    BY <2>2
  <2>4. QED
    BY <1>1, <2>1, <2>3, IntervalInductive, Zenon
<1>9. p \in [0 .. n -> S]
  BY <1>7, <1>8
<1>10. QED
  BY <1>2, <1>7, <1>9, Zenon DEF Accumulates, Accumulators, n

(* A fold of nothing, and of one more element.                             *)
FoldLaws(S, T, init, step) ==
  /\ Fold(<<>>, init, step) = init
  /\ \A v \in Seq(T) : Fold(v, init, step) \in S
  /\ \A v \in Seq(T), e \in T :
       Fold(Append(v, e), init, step) = step[Fold(v, init, step)][e]

(* Every fold whose accumulators have a type obeys them.                   *)
LEMMA FoldAppend ==
  ASSUME NEW S, NEW T, NEW init \in S, NEW step \in [S -> [T -> S]]
  PROVE  FoldLaws(S, T, init, step)
<1>0. \A v \in Seq(T) :
        \E p \in [0 .. Len(v) -> S] :
          Accumulators(p, v, init, step) /\ Fold(v, init, step) = p[Len(v)]
  <2>1. \A v \in Seq(T) : Accumulates(S, v, init, step)
    BY FoldSteps
  <2>2. QED
    BY <2>1 DEF Accumulates
<1>1. Fold(<<>>, init, step) = init
  <2>1. <<>> \in Seq(T) /\ Len(<<>>) = 0
    OBVIOUS
  <2>2. PICK p \in [0 .. Len(<<>>) -> S] :
          Accumulators(p, <<>>, init, step) /\ Fold(<<>>, init, step) = p[Len(<<>>)]
    BY <1>0, <2>1, Zenon
  <2>3. QED
    BY <2>1, <2>2 DEF Accumulators
<1>2. ASSUME NEW v \in Seq(T) PROVE Fold(v, init, step) \in S
  <2>1. PICK p \in [0 .. Len(v) -> S] : Fold(v, init, step) = p[Len(v)]
    BY <1>0
  <2>2. Len(v) \in 0 .. Len(v)
    OBVIOUS
  <2>3. QED
    BY <2>1, <2>2
<1>3. ASSUME NEW v \in Seq(T), NEW e \in T
      PROVE  Fold(Append(v, e), init, step) = step[Fold(v, init, step)][e]
  <2> DEFINE n == Len(v)
             u == Append(v, e)
  <2>0. n \in Nat
    OBVIOUS
  <2>1. /\ u \in Seq(T) /\ Len(u) = n + 1 /\ u[n + 1] = e
        /\ \A i \in 1 .. n : u[i] = v[i]
    OBVIOUS
  <2>2. PICK p \in [0 .. Len(v) -> S] :
          Accumulators(p, v, init, step) /\ Fold(v, init, step) = p[Len(v)]
    BY <1>0
  <2> HIDE DEF u
  <2>3. PICK q \in [0 .. Len(u) -> S] :
          Accumulators(q, u, init, step) /\ Fold(u, init, step) = q[Len(u)]
    BY <1>0, <2>1, Zenon
  <2> HIDE DEF n
  <2>4. /\ p[0] = init /\ \A i \in 1 .. n : p[i] = step[p[i - 1]][v[i]]
        /\ q[0] = init /\ \A i \in 1 .. n + 1 : q[i] = step[q[i - 1]][u[i]]
        /\ Fold(v, init, step) = p[n] /\ Fold(u, init, step) = q[n + 1]
    BY <2>1, <2>2, <2>3 DEF Accumulators, n
  <2> DEFINE B == {i \in 0 .. n : p[i] = q[i]}
  <2>5. 0 \in B
    BY <2>0, <2>4
  <2>6. ASSUME NEW i \in 0 .. n, i < n, i \in B PROVE i + 1 \in B
    <3>1. /\ i + 1 \in 1 .. n /\ i + 1 \in 0 .. n /\ i + 1 \in 1 .. n + 1
          /\ (i + 1) - 1 = i
      BY <2>0, <2>6
    <3>2. /\ p[i + 1] = step[p[(i + 1) - 1]][v[i + 1]] /\ p[i] = q[i]
          /\ q[i + 1] = step[q[(i + 1) - 1]][u[i + 1]]
      BY <2>4, <2>6, <3>1, Zenon
    <3>3. QED
      BY <2>1, <3>1, <3>2, Zenon
  <2> HIDE DEF B
  <2>7. \A i \in 0 .. n : i < n /\ i \in B => i + 1 \in B
    BY <2>6
  <2>8. \A i \in 0 .. n : i \in B
    BY <2>0, <2>5, <2>7, IntervalInductive, Zenon
  <2>9. p[n] = q[n]
    BY <2>0, <2>8 DEF B
  <2>10. q[n + 1] = step[q[n]][u[n + 1]]
    <3>1. n + 1 \in 1 .. n + 1 /\ (n + 1) - 1 = n
      BY <2>0
    <3>2. q[n + 1] = step[q[(n + 1) - 1]][u[n + 1]]
      BY <2>4, <3>1
    <3>3. QED
      BY <3>1, <3>2
  <2>11. QED
    BY <2>1, <2>4, <2>9, <2>10 DEF u
<1>4. QED
  BY <1>1, <1>2, <1>3 DEF FoldLaws

(* A filter keeps what is in its set.                                      *)
LEMMA FilterType ==
  ASSUME NEW T, NEW v \in Seq(T), NEW S
  PROVE  Filter(v, S) \in Seq(S)
<1> DEFINE R == {v[i] : i \in DOMAIN v}
           step == [kept \in Seq(S) |-> [e \in R |-> IF e \in S THEN Append(kept, e) ELSE kept]]
<1>1. v \in Seq(R)
  <2>1. Len(v) \in Nat /\ v \in [1 .. Len(v) -> R]
    OBVIOUS
  <2>2. QED
    BY <2>1, SeqDef
<1>2. Filter(v, S) = Fold(v, <<>>, step)
  BY DEF Filter
<1> HIDE DEF R
<1>3. step \in [Seq(S) -> [R -> Seq(S)]]
  OBVIOUS
<1>4. <<>> \in Seq(S)
  OBVIOUS
<1> HIDE DEF step
<1>5. FoldLaws(Seq(S), R, <<>>, step)
  BY <1>3, <1>4, FoldAppend, Zenon
<1>6. QED
  BY <1>1, <1>2, <1>5 DEF FoldLaws

-----------------------------------------------------------------------------
(* The sums.                                                               *)

(* The prefix sums are numbers that grow by one number of v at a time.     *)
LEMMA PrefixSumsDef ==
  ASSUME NEW v \in Seq(Nat)
  PROVE  /\ PrefixSums(v) \in [0 .. Len(v) -> Nat]
         /\ PrefixSums(v)[0] = 0
         /\ \A i \in 1 .. Len(v) : PrefixSums(v)[i] = PrefixSums(v)[i - 1] + v[i]
<1> DEFINE n == Len(v)
           f == [i \in 1 .. n |-> [x \in Nat |-> x + v[i]]]
           E(s) == [i \in 0 .. n |-> IF i = 0 THEN 0 ELSE s[i - 1] + v[i]]
<1>1. n \in Nat /\ \A i \in 1 .. n : v[i] \in Nat
  OBVIOUS
<1>2. PrefixSums(v) = CHOOSE s : s = E(s)
  BY DEF PrefixSums
<1> HIDE DEF n
<1>3. f \in [1 .. n -> [Nat -> Nat]]
  BY <1>1
<1>4. PICK s \in [0 .. n -> Nat] : Follows(s, n, 0, f)
  <2> HIDE DEF f
  <2>1. QED
    BY <1>1, <1>3, Recursion, Zenon
<1>5. \A i \in 1 .. n : s[i] = s[i - 1] + v[i]
  <2> TAKE i \in 1 .. n
  <2>1. i - 1 \in 0 .. n
    BY <1>1
  <2>2. s[i - 1] \in Nat /\ s[i] = f[i][s[i - 1]]
    BY <1>4, <2>1, Zenon DEF Follows
  <2>3. QED
    BY <2>2, Zenon
<1>6. s = E(s)
  <2>1. \A i \in 0 .. n : s[i] = E(s)[i]
    <3> TAKE i \in 0 .. n
    <3>1. i = 0 \/ i \in 1 .. n
      BY <1>1
    <3>2. QED
      BY <1>1, <1>4, <1>5, <3>1 DEF Follows
  <2>2. QED
    BY <2>1
<1> DEFINE p == PrefixSums(v)
<1>7. p = E(p)
  <2> HIDE DEF E
  <2>1. QED
    BY <1>2, <1>6
<1> HIDE DEF p
<1>8. /\ p = [i \in 0 .. n |-> p[i]] /\ p[0] = 0
      /\ \A i \in 1 .. n : p[i] = p[i - 1] + v[i]
  <2>1. \A i \in 0 .. n : p[i] = IF i = 0 THEN 0 ELSE p[i - 1] + v[i]
    BY <1>7, Zenon
  <2>2. p = [i \in 0 .. n |-> p[i]]
    BY <1>7
  <2>3. 0 \in 0 .. n /\ \A i \in 1 .. n : i \in 0 .. n /\ i # 0
    BY <1>1
  <2>4. QED
    BY <2>1, <2>2, <2>3, Zenon
<1> DEFINE B == {i \in 0 .. n : p[i] \in Nat}
<1>9. \A i \in 0 .. n : i \in B
  <2>1. 0 \in B
    BY <1>1, <1>8
  <2>2. ASSUME NEW i \in 0 .. n, i < n, i \in B PROVE i + 1 \in B
    <3>1. i + 1 \in 1 .. n /\ i + 1 \in 0 .. n /\ (i + 1) - 1 = i
      BY <1>1, <2>2
    <3>2. p[i + 1] = p[(i + 1) - 1] + v[i + 1] /\ p[i] \in Nat /\ v[i + 1] \in Nat
      BY <1>1, <1>8, <2>2, <3>1, Zenon
    <3>3. p[i + 1] \in Nat
      BY <3>1, <3>2
    <3>4. QED
      BY <3>1, <3>3
  <2> HIDE DEF B
  <2>3. \A i \in 0 .. n : i < n /\ i \in B => i + 1 \in B
    BY <2>2
  <2>4. QED
    BY <1>1, <2>1, <2>3, IntervalInductive, Zenon
<1>10. p \in [0 .. n -> Nat]
  BY <1>8, <1>9
<1>11. QED
  BY <1>8, <1>10, Zenon DEF p, n

(* A longer prefix has no smaller sum, and the whole sum covers each       *)
(* number.                                                                 *)
LEMMA PrefixSumsGrow ==
  ASSUME NEW v \in Seq(Nat)
  PROVE  /\ SumOf(v) \in Nat
         /\ \A i, j \in 0 .. Len(v) : i <= j => PrefixSums(v)[i] <= PrefixSums(v)[j]
         /\ \A i \in 1 .. Len(v) : PrefixSums(v)[i] <= SumOf(v) /\ v[i] <= SumOf(v)
<1> DEFINE n == Len(v)
           p == PrefixSums(v)
<1>1. n \in Nat /\ \A i \in 1 .. n : v[i] \in Nat
  OBVIOUS
<1>2. /\ p \in [0 .. n -> Nat]
      /\ \A i \in 1 .. n : p[i] = p[i - 1] + v[i]
  BY PrefixSumsDef
<1>3. SumOf(v) = p[n]
  BY DEF SumOf
<1> HIDE DEF n, p
<1>4. ASSUME NEW i \in 0 .. n
      PROVE  \A j \in 0 .. n : i <= j => p[i] <= p[j]
  <2> DEFINE B == {j \in 0 .. n : i <= j => p[i] <= p[j]}
  <2>1. 0 \in B
    BY <1>1, <1>2
  <2>2. ASSUME NEW j \in 0 .. n, j < n, j \in B PROVE j + 1 \in B
    <3>0. i <= j => p[i] <= p[j]
      BY <2>2
    <3>1. j + 1 \in 1 .. n /\ j + 1 \in 0 .. n /\ (j + 1) - 1 = j
      BY <1>1, <2>2
    <3>2. p[j + 1] = p[j] + v[j + 1] /\ v[j + 1] \in Nat
      BY <1>1, <1>2, <3>1
    <3>3. p[i] \in Nat /\ p[j] \in Nat /\ p[j + 1] \in Nat
      BY <1>2, <3>1, Zenon
    <3>4. CASE i = j + 1
      BY <3>1, <3>3, <3>4
    <3>5. CASE i <= j
      BY <3>0, <3>1, <3>2, <3>3, <3>5
    <3>6. CASE i > j + 1
      BY <3>1, <3>6
    <3>7. QED
      BY <3>4, <3>5, <3>6
  <2> HIDE DEF B
  <2>3. \A j \in 0 .. n : j < n /\ j \in B => j + 1 \in B
    BY <2>2
  <2>4. \A j \in 0 .. n : j \in B
    BY <1>1, <2>1, <2>3, IntervalInductive, Zenon
  <2>5. QED
    BY <2>4 DEF B
<1>5. ASSUME NEW i \in 1 .. n
      PROVE  p[i] <= p[n] /\ v[i] <= p[n]
  <2>1. i \in 0 .. n /\ n \in 0 .. n /\ i <= n /\ i - 1 \in 0 .. n
    BY <1>1
  <2>2. p[i] <= p[n] /\ p[i] = p[i - 1] + v[i]
    BY <1>2, <1>4, <2>1
  <2>3. p[i] \in Nat /\ p[n] \in Nat /\ p[i - 1] \in Nat /\ v[i] \in Nat
    BY <1>1, <1>2, <2>1
  <2>4. QED
    BY <2>2, <2>3
<1>6. p[n] \in Nat
  BY <1>1, <1>2
<1>7. QED
  BY <1>3, <1>4, <1>5, <1>6 DEF n, p

(* The saturating sums, one step at a time.                                *)
LEMMA CappedSumsDef ==
  ASSUME NEW v \in Seq(Nat), NEW cap \in Nat
  PROVE  LET s == CappedSums(v, cap)
         IN  /\ s[0] = 0
             /\ \A i \in 1 .. Len(v) :
                  s[i] = IF s[i - 1] + v[i] > cap THEN cap ELSE s[i - 1] + v[i]
<1> DEFINE n == Len(v)
           plus(x, y) == IF x + y > cap THEN cap ELSE x + y
           f == [i \in 1 .. n |-> [x \in Nat |-> plus(x, v[i])]]
           E(s) == [i \in 0 .. n |-> IF i = 0 THEN 0 ELSE plus(s[i - 1], v[i])]
<1>1. n \in Nat /\ \A i \in 1 .. n : v[i] \in Nat
  OBVIOUS
<1>2. CappedSums(v, cap) = CHOOSE s : s = E(s)
  BY DEF CappedSums
<1> HIDE DEF n
<1>3. f \in [1 .. n -> [Nat -> Nat]]
  BY <1>1
<1>4. PICK s \in [0 .. n -> Nat] : Follows(s, n, 0, f)
  <2> HIDE DEF f
  <2>1. QED
    BY <1>1, <1>3, Recursion, Zenon
<1>5. \A i \in 1 .. n : s[i] = plus(s[i - 1], v[i])
  <2> TAKE i \in 1 .. n
  <2>1. i - 1 \in 0 .. n
    BY <1>1
  <2>2. s[i - 1] \in Nat /\ s[i] = f[i][s[i - 1]]
    BY <1>4, <2>1, Zenon DEF Follows
  <2> HIDE DEF plus
  <2>3. QED
    BY <2>2
<1> HIDE DEF plus
<1>6. s = E(s)
  <2>1. \A i \in 0 .. n : s[i] = E(s)[i]
    <3> TAKE i \in 0 .. n
    <3>1. i = 0 \/ i \in 1 .. n
      BY <1>1
    <3>2. QED
      BY <1>1, <1>4, <1>5, <3>1 DEF Follows
  <2>2. QED
    BY <2>1
<1> DEFINE p == CappedSums(v, cap)
<1>7. p = E(p)
  <2> HIDE DEF E
  <2>1. QED
    BY <1>2, <1>6
<1> HIDE DEF p
<1>8. p[0] = 0 /\ \A i \in 1 .. n : p[i] = plus(p[i - 1], v[i])
  <2>1. \A i \in 0 .. n : p[i] = IF i = 0 THEN 0 ELSE plus(p[i - 1], v[i])
    BY <1>7, Zenon
  <2>2. 0 \in 0 .. n /\ \A i \in 1 .. n : i \in 0 .. n /\ i # 0
    BY <1>1
  <2>3. QED
    BY <2>1, <2>2
<1>9. QED
  BY <1>8 DEF p, n, plus

(* A saturating sum is the sum, or the cap if the sum is above it.         *)
LEMMA CappedSumIsMin ==
  ASSUME NEW v \in Seq(Nat), NEW cap \in Nat
  PROVE  /\ CappedSumOf(v, cap) \in 0 .. cap
         /\ SumOf(v) <= cap => CappedSumOf(v, cap) = SumOf(v)
         /\ SumOf(v) > cap => CappedSumOf(v, cap) = cap
<1> DEFINE n == Len(v)
           p == PrefixSums(v)
           s == CappedSums(v, cap)
           B == {i \in 0 .. n : s[i] = IF p[i] > cap THEN cap ELSE p[i]}
<1>1. n \in Nat /\ \A i \in 1 .. n : v[i] \in Nat
  OBVIOUS
<1>2. /\ p \in [0 .. n -> Nat] /\ p[0] = 0
      /\ \A i \in 1 .. n : p[i] = p[i - 1] + v[i]
  BY PrefixSumsDef
<1>3. /\ s[0] = 0
      /\ \A i \in 1 .. n : s[i] = IF s[i - 1] + v[i] > cap THEN cap ELSE s[i - 1] + v[i]
  BY CappedSumsDef
<1>4. SumOf(v) = p[n] /\ CappedSumOf(v, cap) = s[n]
  BY DEF SumOf, CappedSumOf
<1> HIDE DEF n, p, s
<1>5. 0 \in B
  BY <1>1, <1>2, <1>3
<1>6. \A i \in 0 .. n : i < n /\ i \in B => i + 1 \in B
  <2> SUFFICES ASSUME NEW i \in 0 .. n, i < n, s[i] = IF p[i] > cap THEN cap ELSE p[i]
               PROVE  /\ i + 1 \in 0 .. n
                      /\ s[i + 1] = IF p[i + 1] > cap THEN cap ELSE p[i + 1]
    OBVIOUS
  <2>1. i + 1 \in 1 .. n /\ i + 1 \in 0 .. n /\ (i + 1) - 1 = i
    BY <1>1
  <2>2. p[i + 1] = p[i] + v[i + 1] /\ v[i + 1] \in Nat /\ p[i] \in Nat
    BY <1>1, <1>2, <2>1
  <2>3. s[i + 1] = IF s[i] + v[i + 1] > cap THEN cap ELSE s[i] + v[i + 1]
    BY <1>3, <2>1
  <2>4. QED
    BY <2>1, <2>2, <2>3
<1> HIDE DEF B
<1>7. \A i \in 0 .. n : i \in B
  BY <1>1, <1>5, <1>6, IntervalInductive, Zenon
<1>8. s[n] = (IF p[n] > cap THEN cap ELSE p[n]) /\ p[n] \in Nat
  BY <1>1, <1>2, <1>7 DEF B
<1>9. QED
  BY <1>4, <1>8

=============================================================================
