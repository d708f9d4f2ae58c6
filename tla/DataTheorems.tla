---- MODULE DataTheorems ----
(***************************************************************************)
(* Facts about the data the contracts keep, by induction: lists, sums, pages *)
(* and the hash tree over a history.  The library's induction theorems take *)
(* a predicate; here the predicate is a set of numbers or of sequences, and  *)
(* the least number of its complement does the work.                        *)
(***************************************************************************)
EXTENDS HistoryMerkle, FiniteSetTheorems, SequenceTheorems, Functions, TLAPS

\* Every non-empty set of naturals has a least element.
LEMMA LeastNatural ==
  ASSUME NEW T \in SUBSET Nat, T # {}
  PROVE  \E x \in T : \A y \in T : x <= y
<1>1. PICK R : /\ IsWellFoundedOn(R, Nat)
               /\ \A m, n \in Nat : <<m, n>> \in R <=> m < n
  <2> DEFINE L == OpToRel(<, Nat)
  <2>1. IsWellFoundedOn(L, Nat)
    BY NatLessThanWellFounded, Zenon
  <2>2. \A m, n \in Nat : <<m, n>> \in L <=> m < n
    BY SMT DEF OpToRel
  <2> HIDE DEF L
  <2>3. QED
    BY <2>1, <2>2, Zenon
<1>2. IsWellFoundedOn(R, Nat) /\ T \subseteq Nat
  BY <1>1
<1>3. PICK x \in T : \A y \in T : ~(<<y, x>> \in R)
  BY <1>2, WFMin, Zenon
<1>4. \A y \in T : x <= y
  <2>1. SUFFICES ASSUME NEW y \in T PROVE x <= y
    OBVIOUS
  <2>2. x \in Nat /\ y \in Nat /\ ~(y < x)
    BY <1>1, <1>3
  <2>3. QED
    BY <2>2
<1>5. QED
  BY <1>4

\* A set that holds 0 and with each natural its successor holds them all.
LEMMA InductionOnSet ==
  ASSUME NEW T, 0 \in T, \A n \in Nat : n \in T => n + 1 \in T
  PROVE  \A n \in Nat : n \in T
<1> DEFINE Bad == Nat \ T
<1>1. CASE Bad = {}
  BY <1>1
<1>2. CASE Bad # {}
  <2>1. Bad \in SUBSET Nat
    OBVIOUS
  <2> HIDE DEF Bad
  <2>2. PICK m \in Bad : \A k \in Bad : m <= k
    BY <1>2, <2>1, LeastNatural, Zenon
  <2>3. m \in Nat /\ m \notin T
    BY DEF Bad
  <2>4. m - 1 \in Nat
    BY <2>3
  <2>5. m - 1 \notin Bad
    BY <2>2, <2>3
  <2>6. QED
    BY <2>3, <2>4, <2>5 DEF Bad
<1>3. QED
  BY <1>1, <1>2

\* The same for sequences, which grow at their end.
LEMMA InductionOnSequences ==
  ASSUME NEW S, NEW T, << >> \in T,
         \A s \in Seq(S), e \in S : s \in T => Append(s, e) \in T
  PROVE  Seq(S) \subseteq T
<1> DEFINE Good == {n \in Nat : \A s \in Seq(S) : Len(s) = n => s \in T}
<1>1. 0 \in Good
  BY EmptySeq
<1>2. ASSUME NEW n \in Nat, n \in Good
      PROVE  n + 1 \in Good
  <2> SUFFICES ASSUME NEW s \in Seq(S), Len(s) = n + 1
               PROVE  s \in T
    OBVIOUS
  <2>1. s # << >>
    OBVIOUS
  <2>2. PICK t \in Seq(S), e \in S : s = Append(t, e)
    BY <2>1, SequenceEmptyOrAppend
  <2>3. Len(t) = n
    BY <2>2, AppendProperties
  <2>4. QED
    BY <1>2, <2>2, <2>3
<1>3. \A n \in Nat : n \in Good
  <2> HIDE DEF Good
  <2>1. QED
    BY <1>1, <1>2, InductionOnSet
<1>4. QED
  BY <1>3, LenProperties

\* And for the subsets of a finite set.
LEMMA InductionOnSubsets ==
  ASSUME NEW S, IsFiniteSet(S), NEW T,
         \A U \in SUBSET S : (\A x \in U : U \ {x} \in T) => U \in T
  PROVE  \A U \in SUBSET S : U \in T
<1> DEFINE Good == {n \in Nat : \A U \in SUBSET S : Cardinality(U) = n => U \in T}
<1>1. \A U \in SUBSET S : IsFiniteSet(U) /\ Cardinality(U) \in Nat
  BY FS_Subset, FS_CardinalityType
<1>2. 0 \in Good
  <2>1. \A U \in SUBSET S : Cardinality(U) = 0 => U = {}
    BY <1>1, FS_EmptySet
  <2>2. {} \in T
    OBVIOUS
  <2>3. QED
    BY <2>1, <2>2
<1>3. ASSUME NEW n \in Nat, n \in Good
      PROVE  n + 1 \in Good
  <2> SUFFICES ASSUME NEW U \in SUBSET S, Cardinality(U) = n + 1
               PROVE  U \in T
    OBVIOUS
  <2>1. ASSUME NEW x \in U
        PROVE  U \ {x} \in T
    <3>1. IsFiniteSet(U)
      BY <1>1
    <3>2. Cardinality(U \ {x}) = Cardinality(U) - 1
      BY <2>1, <3>1, FS_RemoveElement
    <3>3. QED
      BY <1>3, <3>2
  <2>2. QED
    BY <2>1
<1>4. \A n \in Nat : n \in Good
  <2> HIDE DEF Good
  <2>1. QED
    BY <1>2, <1>3, InductionOnSet
<1>5. QED
  BY <1>1, <1>4

----
\* A function defined by recursion over 0..n exists, and there is only one.
Iterates(f, n, c, G) == f[0] = c /\ \A i \in 1..n : f[i] = G[i][f[i - 1]]

LEMMA IterationExists ==
  ASSUME NEW n \in Nat, NEW V, NEW c \in V, NEW G \in [1..n -> [V -> V]]
  PROVE  \E f \in [0..n -> V] : Iterates(f, n, c, G)
<1> DEFINE It(m, f) == f[0] = c /\ \A i \in 1..m : f[i] = G[i][f[i - 1]]
           Good == {m \in Nat : m <= n => \E f \in [0..m -> V] : It(m, f)}
<1>1. 0 \in Good
  <2> DEFINE f == [i \in 0..0 |-> c]
  <2>1. f \in [0..0 -> V] /\ It(0, f)
    OBVIOUS
  <2>2. QED
    BY <2>1
<1>2. ASSUME NEW m \in Nat, m \in Good
      PROVE  m + 1 \in Good
  <2> SUFFICES ASSUME m + 1 <= n
               PROVE  \E f \in [0..(m + 1) -> V] : It(m + 1, f)
    OBVIOUS
  <2>1. PICK g \in [0..m -> V] : It(m, g)
    BY <1>2
  <2> DEFINE f == [i \in 0..(m + 1) |-> IF i = m + 1 THEN G[m + 1][g[m]] ELSE g[i]]
  <2>2. G[m + 1][g[m]] \in V
    OBVIOUS
  <2>3. f \in [0..(m + 1) -> V]
    BY <2>2
  <2>4. It(m + 1, f)
    BY <2>1
  <2>5. QED
    BY <2>3, <2>4
<1>3. n \in Good
  <2> HIDE DEF Good
  <2>1. QED
    BY <1>1, <1>2, InductionOnSet
<1>4. QED
  BY <1>3 DEF Iterates

\* The recursion behind Filter.
Keeps(f, s, A) ==
  f[0] = << >> /\ \A i \in 1..Len(s) : f[i] = Keep(f[i - 1], s[i], A)

LEMMA KeepType ==
  ASSUME NEW S, NEW v \in Seq(S), NEW x \in S, NEW A
  PROVE  Keep(v, x, A) \in Seq(S)
BY DEF Keep

LEMMA FilterIteration ==
  ASSUME NEW S, NEW s \in Seq(S), NEW A
  PROVE  \E f \in [0..Len(s) -> Seq(S)] : Keeps(f, s, A) /\ Filter(s, A) = f[Len(s)]
<1>1. PICK n \in Nat : n = Len(s)
  OBVIOUS
<1>2. PICK V : V = Seq(S)
  OBVIOUS
<1>3. PICK empty : empty = << >>
  OBVIOUS
<1>4. empty \in V
  BY <1>2, <1>3
<1>5. \A v \in V, i \in 1..n : Keep(v, s[i], A) \in V
  BY <1>1, <1>2, KeepType
<1> DEFINE Step(f) == [i \in 0..n |-> IF i = 0 THEN empty ELSE Keep(f[i - 1], s[i], A)]
<1>6. \E f \in [0..n -> V] : f = Step(f)
  <2> DEFINE G == [i \in 1..n |-> [v \in V |-> Keep(v, s[i], A)]]
  <2>1. G \in [1..n -> [V -> V]]
    BY <1>5
  <2>2. \A i \in 1..n, v \in V : G[i][v] = Keep(v, s[i], A)
    OBVIOUS
  <2> HIDE DEF G
  <2>3. PICK f \in [0..n -> V] : Iterates(f, n, empty, G)
    BY <1>4, <2>1, IterationExists
  <2>4. f[0] = empty /\ \A i \in 1..n : f[i] = Keep(f[i - 1], s[i], A)
    BY <2>2, <2>3 DEF Iterates
  <2>5. f = Step(f)
    BY <2>4
  <2>6. QED
    BY <2>5
<1>7. PICK f : f = Step(f) /\ Filter(s, A) = f[n]
  <2>1. \E f : f = Step(f)
    BY <1>6
  <2> DEFINE kept == CHOOSE f : f = Step(f)
  <2>2. kept = Step(kept)
    <3> HIDE DEF Step
    <3>1. QED
      BY <2>1, Zenon
  <2>3. Filter(s, A) = kept[n]
    BY <1>1, <1>3, Zenon DEF Filter
  <2> HIDE DEF kept
  <2>4. QED
    BY <2>2, <2>3, Zenon
<1>8. f[0] = empty /\ \A i \in 1..n : f[i] = Keep(f[i - 1], s[i], A)
  <2>1. f = Step(f)
    BY <1>7, Zenon
  <2>2. f[0] = empty
    BY <2>1
  <2>3. \A i \in 1..n : f[i] = Keep(f[i - 1], s[i], A)
    BY <2>1
  <2>4. QED
    BY <2>2, <2>3
<1>9. \A i \in 0..n : f[i] \in V
  <2> DEFINE Good == {i \in Nat : i <= n => f[i] \in V}
  <2>1. 0 \in Good
    BY <1>4, <1>8
  <2>2. ASSUME NEW i \in Nat, i \in Good
        PROVE  i + 1 \in Good
    BY <1>5, <1>8, <2>2
  <2>3. \A i \in Nat : i \in Good
    <3> HIDE DEF Good
    <3>1. QED
      BY <2>1, <2>2, InductionOnSet
  <2>4. QED
    BY <2>3
<1>10. f = [i \in 0..n |-> f[i]]
  BY <1>7
<1>11. f \in [0..n -> V]
  BY <1>9, <1>10
<1>12. QED
  BY <1>1, <1>2, <1>3, <1>7, <1>8, <1>11, Zenon DEF Keeps

\* Filter at the two ways a list is built.
LEMMA FilterType ==
  ASSUME NEW S, NEW s \in Seq(S), NEW A
  PROVE  Filter(s, A) \in Seq(S)
<1>1. PICK f \in [0..Len(s) -> Seq(S)] : Filter(s, A) = f[Len(s)]
  BY FilterIteration
<1>2. Len(s) \in 0..Len(s)
  OBVIOUS
<1>3. QED
  BY <1>1, <1>2

LEMMA FilterEmpty ==
  ASSUME NEW A
  PROVE  Filter(<< >>, A) = << >>
<1>1. << >> \in Seq({}) /\ Len(<< >>) = 0
  BY EmptySeq
<1>2. PICK f : Keeps(f, << >>, A) /\ Filter(<< >>, A) = f[0]
  BY <1>1, FilterIteration, Zenon
<1>3. QED
  BY <1>2, Zenon DEF Keeps

LEMMA FilterAppend ==
  ASSUME NEW S, NEW s \in Seq(S), NEW e \in S, NEW A
  PROVE  Filter(Append(s, e), A) = IF e \in A THEN Append(Filter(s, A), e) ELSE Filter(s, A)
<1>1. PICK n \in Nat : n = Len(s)
  OBVIOUS
<1>2. PICK t : t = Append(s, e)
  OBVIOUS
<1>3. /\ t \in Seq(S) /\ Len(t) = n + 1 /\ t[n + 1] = e
      /\ \A i \in 1..n : t[i] = s[i]
  BY <1>1, <1>2, AppendProperties
<1>4. PICK f : Keeps(f, t, A) /\ Filter(t, A) = f[n + 1]
  <2>1. \E f : Keeps(f, t, A) /\ Filter(t, A) = f[Len(t)]
    BY <1>3, FilterIteration, Zenon
  <2>2. QED
    BY <1>3, <2>1, Zenon
<1>5. PICK g : Keeps(g, s, A) /\ Filter(s, A) = g[n]
  BY <1>1, FilterIteration
<1>6. /\ f[0] = g[0]
      /\ \A i \in 1..n : f[i] = Keep(f[i - 1], s[i], A)
      /\ \A i \in 1..n : g[i] = Keep(g[i - 1], s[i], A)
      /\ f[n + 1] = Keep(f[n], e, A)
  <2>1. f[0] = g[0]
    BY <1>4, <1>5, Zenon DEF Keeps
  <2>2. \A i \in 1..(n + 1) : f[i] = Keep(f[i - 1], t[i], A)
    BY <1>3, <1>4, Zenon DEF Keeps
  <2>3. \A i \in 1..n : g[i] = Keep(g[i - 1], s[i], A)
    BY <1>1, <1>5, Zenon DEF Keeps
  <2>4. \A i \in 1..n : f[i] = Keep(f[i - 1], s[i], A)
    BY <1>3, <2>2
  <2>5. f[n + 1] = Keep(f[n], e, A)
    BY <1>3, <2>2
  <2>6. QED
    BY <2>1, <2>3, <2>4, <2>5
<1>7. f[n] = g[n]
  <2> DEFINE Same == {i \in Nat : i <= n => f[i] = g[i]}
  <2>1. 0 \in Same
    BY <1>6
  <2>2. ASSUME NEW i \in Nat, i \in Same
        PROVE  i + 1 \in Same
    BY <1>6, <2>2
  <2>3. \A i \in Nat : i \in Same
    <3> HIDE DEF Same
    <3>1. QED
      BY <2>1, <2>2, InductionOnSet
  <2>4. QED
    BY <2>3
<1>8. Filter(t, A) = Keep(Filter(s, A), e, A)
  BY <1>4, <1>5, <1>6, <1>7, Zenon
<1>9. QED
  BY <1>2, <1>8, Zenon DEF Keep

LEMMA FilterConcat ==
  ASSUME NEW S, NEW s \in Seq(S), NEW t \in Seq(S), NEW A
  PROVE  Filter(s \o t, A) = Filter(s, A) \o Filter(t, A)
<1> DEFINE Good == {u \in Seq(S) : Filter(s \o u, A) = Filter(s, A) \o Filter(u, A)}
<1>1. << >> \in Good
  <2>1. << >> \in Seq(S)
    OBVIOUS
  <2>2. Filter(s \o << >>, A) = Filter(s, A)
    BY ConcatEmptySeq
  <2>3. Filter(s, A) \o << >> = Filter(s, A)
    BY FilterType, ConcatEmptySeq
  <2>4. Filter(<< >>, A) = << >>
    BY FilterEmpty
  <2>5. QED
    BY <2>1, <2>2, <2>3, <2>4, Zenon
<1>2. ASSUME NEW u \in Seq(S), NEW e \in S, u \in Good
      PROVE  Append(u, e) \in Good
  <2>1. s \o u \in Seq(S) /\ Append(u, e) \in Seq(S)
    OBVIOUS
  <2>2. s \o Append(u, e) = Append(s \o u, e)
    OBVIOUS
  <2>3. Filter(s, A) \in Seq(S) /\ Filter(u, A) \in Seq(S)
    BY FilterType
  <2>4. Filter(s, A) \o Append(Filter(u, A), e) = Append(Filter(s, A) \o Filter(u, A), e)
    BY <2>3
  <2>5. Filter(s \o Append(u, e), A) =
          IF e \in A THEN Append(Filter(s \o u, A), e) ELSE Filter(s \o u, A)
    BY <2>1, <2>2, FilterAppend
  <2>6. Filter(Append(u, e), A) = IF e \in A THEN Append(Filter(u, A), e) ELSE Filter(u, A)
    BY FilterAppend
  <2>7. Filter(s \o u, A) = Filter(s, A) \o Filter(u, A)
    BY <1>2
  <2>8. Filter(s \o Append(u, e), A) = Filter(s, A) \o Filter(Append(u, e), A)
    BY <2>4, <2>5, <2>6, <2>7, Zenon
  <2>9. QED
    BY <2>1, <2>8
<1>3. Seq(S) \subseteq Good
  <2> HIDE DEF Good
  <2>1. QED
    BY <1>1, <1>2, InductionOnSequences
<1>4. QED
  BY <1>3

\* Filter keeps the order: its entries are those of s at increasing positions,
\* which are the positions of the entries in A.
Embeds(h, r, s, A) ==
  /\ h \in [1..Len(r) -> 1..Len(s)]
  /\ \A i, j \in 1..Len(r) : i < j => h[i] < h[j]
  /\ \A j \in 1..Len(r) : r[j] = s[h[j]] /\ r[j] \in A
  /\ \A i \in 1..Len(s) : s[i] \in A => \E j \in 1..Len(r) : h[j] = i

LEMMA FilterPositions ==
  ASSUME NEW S, NEW s \in Seq(S), NEW A
  PROVE  \E h : Embeds(h, Filter(s, A), s, A)
<1> DEFINE Good == {u \in Seq(S) : \E h : Embeds(h, Filter(u, A), u, A)}
<1>1. << >> \in Good
  <2>1. << >> \in Seq(S) /\ Len(<< >>) = 0
    BY EmptySeq
  <2> DEFINE h == [i \in 1..0 |-> 0]
  <2>2. Embeds(h, << >>, << >>, A)
    BY <2>1 DEF Embeds
  <2>3. QED
    BY <2>1, <2>2, FilterEmpty, Zenon
<1>2. ASSUME NEW u \in Seq(S), NEW e \in S, u \in Good
      PROVE  Append(u, e) \in Good
  <2>1. PICK r \in Seq(S) : r = Filter(u, A)
    BY FilterType
  <2>2. PICK h : Embeds(h, r, u, A)
    BY <1>2, <2>1
  <2>3. PICK t \in Seq(S) : t = Append(u, e)
    BY AppendProperties, Zenon
  <2>4. Len(t) = Len(u) + 1 /\ t[Len(u) + 1] = e /\ \A i \in 1..Len(u) : t[i] = u[i]
    BY <2>3, AppendProperties
  <2>5. CASE e \in A
    <3>1. PICK q \in Seq(S) : q = Append(r, e)
      BY AppendProperties, Zenon
    <3>2. Len(q) = Len(r) + 1 /\ q[Len(r) + 1] = e /\ \A i \in 1..Len(r) : q[i] = r[i]
      BY <3>1, AppendProperties
    <3>3. Filter(t, A) = q
      BY <2>1, <2>3, <2>5, <3>1, FilterAppend
    <3> DEFINE g == [j \in 1..Len(q) |-> IF j = Len(q) THEN Len(t) ELSE h[j]]
    <3>4. Len(r) \in Nat /\ Len(u) \in Nat
      OBVIOUS
    <3>5. Embeds(g, q, t, A)
      <4>1. h \in [1..Len(r) -> 1..Len(u)]
        BY <2>2 DEF Embeds
      <4>2. g \in [1..Len(q) -> 1..Len(t)]
        BY <2>4, <3>2, <3>4, <4>1
      <4>3. ASSUME NEW i \in 1..Len(q), NEW j \in 1..Len(q), i < j
            PROVE  g[i] < g[j]
        <5>1. i \in 1..Len(r) /\ g[i] = h[i] /\ h[i] \in 1..Len(u)
          BY <3>2, <3>4, <4>1, <4>3
        <5>2. CASE j = Len(q)
          BY <2>4, <3>4, <5>1, <5>2
        <5>3. CASE j # Len(q)
          <6>1. j \in 1..Len(r) /\ g[j] = h[j]
            BY <3>2, <3>4, <5>3
          <6>2. h[i] < h[j]
            BY <2>2, <4>3, <5>1, <6>1 DEF Embeds
          <6>3. QED
            BY <5>1, <6>1, <6>2
        <5>4. QED
          BY <5>2, <5>3
      <4>4. ASSUME NEW j \in 1..Len(q)
            PROVE  q[j] = t[g[j]] /\ q[j] \in A
        <5>1. CASE j = Len(q)
          BY <2>4, <2>5, <3>2, <3>4, <5>1
        <5>2. CASE j # Len(q)
          <6>1. j \in 1..Len(r) /\ g[j] = h[j] /\ h[j] \in 1..Len(u)
            <7>1. j \in 1..Len(r)
              BY <3>2, <3>4, <5>2
            <7>2. QED
              BY <4>1, <5>2, <7>1
          <6>2. r[j] = u[h[j]] /\ r[j] \in A
            BY <2>2, <6>1 DEF Embeds
          <6>3. q[j] = r[j] /\ t[h[j]] = u[h[j]]
            BY <2>4, <3>2, <6>1
          <6>4. QED
            BY <6>1, <6>2, <6>3
        <5>3. QED
          BY <5>1, <5>2
      <4>5. ASSUME NEW i \in 1..Len(t), t[i] \in A
            PROVE  \E j \in 1..Len(q) : g[j] = i
        <5>1. CASE i = Len(t)
          BY <3>2, <3>4, <5>1
        <5>2. CASE i # Len(t)
          <6>1. i \in 1..Len(u) /\ u[i] \in A
            BY <2>4, <3>4, <4>5, <5>2
          <6>2. PICK j \in 1..Len(r) : h[j] = i
            BY <2>2, <6>1 DEF Embeds
          <6>3. j \in 1..Len(q) /\ g[j] = i
            BY <3>2, <3>4, <6>2
          <6>4. QED
            BY <6>3
        <5>3. QED
          BY <5>1, <5>2
      <4>6. QED
        BY <4>2, <4>3, <4>4, <4>5 DEF Embeds
    <3>6. QED
      BY <2>3, <3>3, <3>5, Zenon
  <2>6. CASE e \notin A
    <3>1. Filter(t, A) = r
      BY <2>1, <2>3, <2>6, FilterAppend
    <3>2. Len(r) \in Nat /\ Len(u) \in Nat
      OBVIOUS
    <3>3. Embeds(h, r, t, A)
      <4>1. h \in [1..Len(r) -> 1..Len(u)]
        BY <2>2 DEF Embeds
      <4>2. h \in [1..Len(r) -> 1..Len(t)]
        BY <2>4, <3>2, <4>1
      <4>3. ASSUME NEW j \in 1..Len(r)
            PROVE  r[j] = t[h[j]] /\ r[j] \in A
        <5>1. r[j] = u[h[j]] /\ r[j] \in A /\ h[j] \in 1..Len(u)
          BY <2>2, <4>1 DEF Embeds
        <5>2. QED
          BY <2>4, <5>1
      <4>4. ASSUME NEW i \in 1..Len(t), t[i] \in A
            PROVE  \E j \in 1..Len(r) : h[j] = i
        <5>1. i \in 1..Len(u) /\ u[i] \in A
          BY <2>4, <2>6, <3>2, <4>4
        <5>2. QED
          BY <2>2, <5>1 DEF Embeds
      <4>5. \A i, j \in 1..Len(r) : i < j => h[i] < h[j]
        BY <2>2 DEF Embeds
      <4>6. QED
        BY <4>2, <4>3, <4>4, <4>5 DEF Embeds
    <3>4. QED
      BY <2>3, <3>1, <3>3, Zenon
  <2>7. QED
    BY <2>5, <2>6
<1>3. Seq(S) \subseteq Good
  <2> HIDE DEF Good
  <2>1. QED
    BY <1>1, <1>2, InductionOnSequences
<1>4. QED
  BY <1>3

\* Lists without repetition.
Distinct(s) == \A i, j \in 1..Len(s) : s[i] = s[j] => i = j

LEMMA FilterEntries ==
  ASSUME NEW S, NEW s \in Seq(S), NEW A
  PROVE  \A x : Contains(Filter(s, A), x) <=> x \in A /\ Contains(s, x)
<1>1. PICK r \in Seq(S) : r = Filter(s, A)
  BY FilterType
<1>2. PICK h : Embeds(h, r, s, A)
  BY <1>1, FilterPositions, Zenon
<1>3. SUFFICES ASSUME NEW x
               PROVE  Contains(r, x) <=> x \in A /\ Contains(s, x)
  BY <1>1, Zenon
<1>4. ASSUME Contains(r, x)
      PROVE  x \in A /\ Contains(s, x)
  <2>1. PICK j \in 1..Len(r) : r[j] = x
    BY <1>4 DEF Contains
  <2>2. h[j] \in 1..Len(s) /\ r[j] = s[h[j]] /\ r[j] \in A
    BY <1>2 DEF Embeds
  <2>3. QED
    BY <2>1, <2>2 DEF Contains
<1>5. ASSUME x \in A, Contains(s, x)
      PROVE  Contains(r, x)
  <2>1. PICK i \in 1..Len(s) : s[i] = x
    BY <1>5 DEF Contains
  <2>2. PICK j \in 1..Len(r) : h[j] = i
    BY <1>2, <1>5, <2>1 DEF Embeds
  <2>3. r[j] = s[i]
    BY <1>2, <2>2 DEF Embeds
  <2>4. QED
    BY <2>1, <2>3 DEF Contains
<1>6. QED
  BY <1>4, <1>5

LEMMA FunctionIsList ==
  ASSUME NEW S, NEW n \in Nat, NEW f \in [1..n -> S]
  PROVE  f \in Seq(S) /\ Len(f) = n
<1>1. f \in Seq(S)
  BY SeqDef
<1>2. DOMAIN f = 1..n
  OBVIOUS
<1>3. QED
  BY <1>1, <1>2, LenProperties

LEMMA AppendEntries ==
  ASSUME NEW S, NEW s \in Seq(S), NEW e \in S
  PROVE  \A x : Contains(Append(s, e), x) <=> Contains(s, x) \/ x = e
<1>1. PICK t \in Seq(S) : t = Append(s, e)
  BY AppendProperties, Zenon
<1>2. PICK n \in Nat : n = Len(s)
  OBVIOUS
<1>3. Len(t) = n + 1 /\ t[n + 1] = e /\ \A i \in 1..n : t[i] = s[i]
  BY <1>1, <1>2, AppendProperties
<1>4. ASSUME NEW x
      PROVE  (\E i \in 1..(n + 1) : t[i] = x) <=> (\E i \in 1..n : s[i] = x) \/ x = e
  <2>1. \A i \in 1..(n + 1) : i \in 1..n \/ i = n + 1
    OBVIOUS
  <2>2. n + 1 \in 1..(n + 1) /\ \A i \in 1..n : i \in 1..(n + 1)
    OBVIOUS
  <2>3. QED
    BY <1>3, <2>1, <2>2
<1>5. \A x : Contains(t, x) <=> Contains(s, x) \/ x = e
  BY <1>2, <1>3, <1>4, Zenon DEF Contains
<1>6. QED
  BY <1>1, <1>5, Zenon

LEMMA ConcatEntries ==
  ASSUME NEW S, NEW s \in Seq(S), NEW t \in Seq(S)
  PROVE  \A x : Contains(s \o t, x) <=> Contains(s, x) \/ Contains(t, x)
<1>1. PICK u \in Seq(S) : u = s \o t
  BY ConcatProperties, Zenon
<1>2. PICK m \in Nat, n \in Nat : m = Len(s) /\ n = Len(t)
  OBVIOUS
<1>3. Len(u) = m + n /\ \A i \in 1..(m + n) : u[i] = IF i <= m THEN s[i] ELSE t[i - m]
  BY <1>1, <1>2, ConcatProperties
<1>4. ASSUME NEW x
      PROVE  (\E i \in 1..(m + n) : u[i] = x)
               <=> (\E i \in 1..m : s[i] = x) \/ (\E i \in 1..n : t[i] = x)
  <2>1. ASSUME NEW i \in 1..m, s[i] = x PROVE \E j \in 1..(m + n) : u[j] = x
    <3>1. i \in 1..(m + n) /\ i <= m
      OBVIOUS
    <3>2. QED
      BY <1>3, <2>1, <3>1
  <2>2. ASSUME NEW i \in 1..n, t[i] = x PROVE \E j \in 1..(m + n) : u[j] = x
    <3>1. PICK j \in 1..(m + n) : j = m + i /\ ~(j <= m) /\ j - m = i
      OBVIOUS
    <3>2. QED
      BY <1>3, <2>2, <3>1
  <2>3. ASSUME NEW i \in 1..(m + n), u[i] = x
        PROVE  (\E j \in 1..m : s[j] = x) \/ (\E j \in 1..n : t[j] = x)
    <3>1. (i <= m => i \in 1..m) /\ (~(i <= m) => i - m \in 1..n)
      OBVIOUS
    <3>2. QED
      BY <1>3, <2>3, <3>1
  <2>4. QED
    BY <2>1, <2>2, <2>3
<1>5. \A x : Contains(u, x) <=> Contains(s, x) \/ Contains(t, x)
  BY <1>2, <1>3, <1>4, Zenon DEF Contains
<1>6. QED
  BY <1>1, <1>5, Zenon

\* A list cut in two.
LEMMA CutEntries ==
  ASSUME NEW S, NEW s \in Seq(S), NEW c \in 0..Len(s)
  PROVE  /\ SubSeq(s, 1, c) \in Seq(S) /\ SubSeq(s, c + 1, Len(s)) \in Seq(S)
         /\ Len(SubSeq(s, 1, c)) = c /\ \A i \in 1..c : SubSeq(s, 1, c)[i] = s[i]
         /\ Len(SubSeq(s, c + 1, Len(s))) = Len(s) - c
         /\ \A i \in 1..(Len(s) - c) : SubSeq(s, c + 1, Len(s))[i] = s[c + i]
         /\ \A x : Contains(s, x) <=> Contains(SubSeq(s, 1, c), x)
                                    \/ Contains(SubSeq(s, c + 1, Len(s)), x)
<1>1. PICK n \in Nat : n = Len(s)
  OBVIOUS
<1>2. \A i \in 1..n : s[i] \in S
  BY <1>1
<1>3. c \in Int /\ 1 \in Int /\ c + 1 \in Int /\ n \in Int
  BY <1>1
<1>4. (\A i \in 1..c : s[i] \in S) /\ (\A i \in (c + 1)..n : s[i] \in S)
  BY <1>1, <1>2
<1>5. PICK a \in Seq(S) : a = SubSeq(s, 1, c)
  BY <1>3, <1>4, SubSeqProperties
<1>6. PICK b \in Seq(S) : b = SubSeq(s, c + 1, n)
  BY <1>3, <1>4, SubSeqProperties
<1>7. Len(a) = c /\ \A i \in 1..c : a[i] = s[i]
  <2>1. /\ Len(a) = IF 1 <= c THEN c - 1 + 1 ELSE 0
        /\ \A i \in 1..(c - 1 + 1) : a[i] = s[1 + i - 1]
    <3>1. Len(SubSeq(s, 1, c)) = IF 1 <= c THEN c - 1 + 1 ELSE 0
      BY <1>3, <1>4, SubSeqProperties
    <3>2. \A i \in 1..(c - 1 + 1) : SubSeq(s, 1, c)[i] = s[1 + i - 1]
      BY <1>3, <1>4, SubSeqProperties
    <3>3. QED
      BY <1>5, <3>1, <3>2, Zenon
  <2>2. \A i \in 1..c : i \in 1..(c - 1 + 1) /\ 1 + i - 1 = i
    BY <1>1
  <2>3. Len(a) = c
    BY <1>1, <2>1
  <2>4. QED
    BY <2>1, <2>2, <2>3
<1>8. Len(b) = n - c /\ \A i \in 1..(n - c) : b[i] = s[c + i]
  <2>1. /\ Len(b) = IF c + 1 <= n THEN n - (c + 1) + 1 ELSE 0
        /\ \A i \in 1..(n - (c + 1) + 1) : b[i] = s[(c + 1) + i - 1]
    <3>1. Len(SubSeq(s, c + 1, n)) = IF c + 1 <= n THEN n - (c + 1) + 1 ELSE 0
      BY <1>3, <1>4, SubSeqProperties
    <3>2. \A i \in 1..(n - (c + 1) + 1) : SubSeq(s, c + 1, n)[i] = s[(c + 1) + i - 1]
      BY <1>3, <1>4, SubSeqProperties
    <3>3. QED
      BY <1>6, <3>1, <3>2, Zenon
  <2>2. \A i \in 1..(n - c) : i \in 1..(n - (c + 1) + 1) /\ (c + 1) + i - 1 = c + i
    BY <1>1
  <2>3. Len(b) = n - c
    BY <1>1, <2>1
  <2>4. QED
    BY <2>1, <2>2, <2>3
<1>9. ASSUME NEW x
      PROVE  (\E i \in 1..n : s[i] = x)
               <=> (\E i \in 1..c : a[i] = x) \/ (\E i \in 1..(n - c) : b[i] = x)
  <2>1. ASSUME NEW i \in 1..c, a[i] = x PROVE \E j \in 1..n : s[j] = x
    <3>1. i \in 1..n
      BY <1>1
    <3>2. QED
      BY <1>7, <2>1, <3>1
  <2>2. ASSUME NEW i \in 1..(n - c), b[i] = x PROVE \E j \in 1..n : s[j] = x
    <3>1. c + i \in 1..n
      BY <1>1
    <3>2. QED
      BY <1>8, <2>2, <3>1
  <2>3. ASSUME NEW i \in 1..n, s[i] = x
        PROVE  (\E j \in 1..c : a[j] = x) \/ (\E j \in 1..(n - c) : b[j] = x)
    <3>1. CASE i <= c
      <4>1. i \in 1..c
        BY <1>1, <3>1
      <4>2. QED
        BY <1>7, <2>3, <4>1
    <3>2. CASE ~(i <= c)
      <4>1. i - c \in 1..(n - c) /\ c + (i - c) = i
        BY <1>1, <3>2
      <4>2. b[i - c] = s[c + (i - c)]
        BY <1>8, <4>1
      <4>3. QED
        BY <2>3, <4>1, <4>2
    <3>3. QED
      BY <3>1, <3>2
  <2>4. QED
    BY <2>1, <2>2, <2>3
<1>10. \A x : Contains(s, x) <=> Contains(a, x) \/ Contains(b, x)
  BY <1>1, <1>7, <1>8, <1>9, Zenon DEF Contains
<1>11. QED
  BY <1>1, <1>5, <1>6, <1>7, <1>8, <1>10, Zenon

LEMMA FilterDistinct ==
  ASSUME NEW S, NEW s \in Seq(S), NEW A, Distinct(s)
  PROVE  Distinct(Filter(s, A))
<1>1. PICK r \in Seq(S) : r = Filter(s, A)
  BY FilterType
<1>2. PICK h : Embeds(h, r, s, A)
  BY <1>1, FilterPositions, Zenon
<1>3. SUFFICES ASSUME NEW i \in 1..Len(r), NEW j \in 1..Len(r), r[i] = r[j]
               PROVE  i = j
  BY <1>1 DEF Distinct
<1>4. h[i] \in 1..Len(s) /\ h[j] \in 1..Len(s) /\ s[h[i]] = s[h[j]]
  BY <1>2, <1>3 DEF Embeds
<1>5. h[i] = h[j]
  BY <1>4 DEF Distinct
<1>6. i < j => h[i] < h[j]
  BY <1>2 DEF Embeds
<1>7. j < i => h[j] < h[i]
  BY <1>2 DEF Embeds
<1>8. QED
  BY <1>4, <1>5, <1>6, <1>7

LEMMA FilterLength ==
  ASSUME NEW S, NEW s \in Seq(S), NEW A
  PROVE  /\ Len(Filter(s, A)) = Cardinality({i \in 1..Len(s) : s[i] \in A})
         /\ Len(Filter(s, A)) <= Len(s)
<1>1. PICK r \in Seq(S) : r = Filter(s, A)
  BY FilterType
<1>2. PICK h : Embeds(h, r, s, A)
  BY <1>1, FilterPositions, Zenon
<1> DEFINE I == {i \in 1..Len(s) : s[i] \in A}
<1>3. Len(r) \in Nat /\ Len(s) \in Nat
  OBVIOUS
<1>4. h \in [1..Len(r) -> 1..Len(s)]
  BY <1>2 DEF Embeds
<1>5. \A j \in 1..Len(r) : h[j] \in I
  BY <1>2, <1>4 DEF Embeds
<1>6. h \in [1..Len(r) -> I]
  BY <1>4, <1>5
<1>7. \A i \in I : \E j \in 1..Len(r) : h[j] = i
  BY <1>2 DEF Embeds
<1>8. \A i, j \in 1..Len(r) : h[i] = h[j] => i = j
  <2>1. SUFFICES ASSUME NEW i \in 1..Len(r), NEW j \in 1..Len(r), h[i] = h[j]
                 PROVE  i = j
    OBVIOUS
  <2>2. (i < j => h[i] < h[j]) /\ (j < i => h[j] < h[i])
    BY <1>2 DEF Embeds
  <2>3. h[i] \in Nat /\ h[j] \in Nat
    BY <1>4
  <2>4. QED
    BY <2>1, <2>2, <2>3
<1>9. ExistsBijection(1..Len(r), I)
  BY <1>6, <1>7, <1>8 DEF ExistsBijection, Bijection, Injection, Surjection, IsInjective
<1>10. Cardinality(I) = Len(r)
  BY <1>3, <1>9, FS_CountingElements
<1>11. Cardinality(I) <= Len(s)
  <2>1. IsFiniteSet(1..Len(s)) /\ Cardinality(1..Len(s)) = Len(s)
    <3>1. 1 \in Int /\ Len(s) \in Int
      BY <1>3
    <3>2. /\ IsFiniteSet(1..Len(s))
          /\ Cardinality(1..Len(s)) = IF 1 > Len(s) THEN 0 ELSE Len(s) - 1 + 1
      BY <3>1, FS_Interval, Zenon
    <3>3. QED
      BY <1>3, <3>2
  <2>2. I \in SUBSET (1..Len(s))
    OBVIOUS
  <2> HIDE DEF I
  <2>3. QED
    BY <2>1, <2>2, FS_Subset
<1>12. QED
  BY <1>1, <1>10, <1>11

\* Nothing is dropped from a list whose entries are all in A.
LEMMA FilterAll ==
  ASSUME NEW S, NEW s \in Seq(S), NEW A, \A i \in 1..Len(s) : s[i] \in A
  PROVE  Filter(s, A) = s
<1> DEFINE Good == {u \in Seq(S) : (\A i \in 1..Len(u) : u[i] \in A) => Filter(u, A) = u}
<1>1. << >> \in Good
  <2>1. << >> \in Seq(S)
    OBVIOUS
  <2>2. QED
    BY <2>1, FilterEmpty
<1>2. ASSUME NEW u \in Seq(S), NEW e \in S, u \in Good
      PROVE  Append(u, e) \in Good
  <2>1. PICK t \in Seq(S) : t = Append(u, e)
    BY AppendProperties, Zenon
  <2>2. /\ Len(t) = Len(u) + 1 /\ t[Len(u) + 1] = e
        /\ \A i \in 1..Len(u) : t[i] = u[i]
    BY <2>1, AppendProperties
  <2>3. ASSUME \A i \in 1..Len(t) : t[i] \in A
        PROVE  Filter(t, A) = t
    <3>1. e \in A /\ \A i \in 1..Len(u) : u[i] \in A
      BY <2>2, <2>3
    <3>2. Filter(u, A) = u
      BY <1>2, <3>1
    <3>3. QED
      BY <2>1, <3>1, <3>2, FilterAppend, Zenon
  <2>4. QED
    BY <2>1, <2>3, Zenon
<1>3. Seq(S) \subseteq Good
  <2> HIDE DEF Good
  <2>1. QED
    BY <1>1, <1>2, InductionOnSequences
<1>4. QED
  BY <1>3

----
(***************************************************************************)
(* How often an entry is listed.                                            *)
(***************************************************************************)
LEMMA PositionsFinite ==
  ASSUME NEW n \in Nat, NEW I \in SUBSET (1..n)
  PROVE  IsFiniteSet(I) /\ Cardinality(I) \in Nat
<1>1. 1 \in Int /\ n \in Int
  OBVIOUS
<1>2. IsFiniteSet(1..n)
  BY <1>1, FS_Interval, Zenon
<1>3. IsFiniteSet(I)
  BY <1>2, FS_Subset
<1> QED
  BY <1>3, FS_CardinalityType

LEMMA OccurrencesIn ==
  ASSUME NEW S, NEW s \in Seq(S), NEW x
  PROVE  /\ Occurrences(s, x) = Cardinality({i \in 1..Len(s) : s[i] = x})
         /\ Occurrences(s, x) \in Nat
         /\ IsFiniteSet({i \in 1..Len(s) : s[i] = x})
<1>1. DOMAIN s = 1..Len(s) /\ Len(s) \in Nat
  OBVIOUS
<1> DEFINE I == {i \in 1..Len(s) : s[i] = x}
<1>2. I \in SUBSET (1..Len(s))
  OBVIOUS
<1>3. Occurrences(s, x) = Cardinality(I)
  BY <1>1 DEF Occurrences
<1> HIDE DEF I
<1>4. IsFiniteSet(I) /\ Cardinality(I) \in Nat
  BY <1>1, <1>2, PositionsFinite
<1> QED
  BY <1>3, <1>4 DEF I

LEMMA OccurrencesNone ==
  ASSUME NEW S, NEW s \in Seq(S), NEW x
  PROVE  Occurrences(s, x) = 0 <=> ~Contains(s, x)
<1> DEFINE I == {i \in 1..Len(s) : s[i] = x}
<1>1. Occurrences(s, x) = Cardinality(I) /\ IsFiniteSet(I)
  BY OccurrencesIn
<1>2. I = {} <=> ~Contains(s, x)
  BY DEF Contains
<1> HIDE DEF I
<1> QED
  BY <1>1, <1>2, FS_EmptySet

LEMMA OccurrencesAppend ==
  ASSUME NEW S, NEW s \in Seq(S), NEW e \in S, NEW x
  PROVE  Occurrences(Append(s, e), x) = Occurrences(s, x) + (IF x = e THEN 1 ELSE 0)
<1>1. PICK t \in Seq(S) : t = Append(s, e)
  BY AppendProperties, Zenon
<1>2. PICK n \in Nat : n = Len(s)
  OBVIOUS
<1>3. Len(t) = n + 1 /\ t[n + 1] = e /\ \A i \in 1..n : t[i] = s[i]
  BY <1>1, <1>2, AppendProperties
<1> DEFINE I == {i \in 1..n : s[i] = x}
           J == {i \in 1..(n + 1) : t[i] = x}
<1>4. /\ Occurrences(s, x) = Cardinality(I) /\ IsFiniteSet(I)
      /\ Occurrences(t, x) = Cardinality(J) /\ Cardinality(I) \in Nat
  <2>1. /\ Occurrences(s, x) = Cardinality(I) /\ IsFiniteSet(I) /\ Occurrences(s, x) \in Nat
    BY <1>2, OccurrencesIn
  <2>2. Occurrences(t, x) = Cardinality(J)
    BY <1>3, OccurrencesIn
  <2> QED
    BY <2>1, <2>2
<1>5. J = IF x = e THEN I \cup {n + 1} ELSE I
  <2>1. \A i : i \in 1..(n + 1) <=> i \in 1..n \/ i = n + 1
    OBVIOUS
  <2> QED
    BY <1>3, <2>1
<1>6. n + 1 \notin I
  OBVIOUS
<1> HIDE DEF I, J
<1>7. Cardinality(J) = Cardinality(I) + (IF x = e THEN 1 ELSE 0)
  <2>1. Cardinality(I \cup {n + 1}) = Cardinality(I) + 1
    BY <1>4, <1>6, FS_AddElement
  <2>2. CASE x = e
    BY <1>5, <2>1, <2>2
  <2>3. CASE x # e
    BY <1>4, <1>5, <2>3
  <2> QED
    BY <2>2, <2>3
<1> QED
  BY <1>1, <1>4, <1>7

LEMMA OccurrencesConcat ==
  ASSUME NEW S, NEW s \in Seq(S), NEW t \in Seq(S), NEW x
  PROVE  Occurrences(s \o t, x) = Occurrences(s, x) + Occurrences(t, x)
<1> DEFINE Good == {u \in Seq(S) :
                      Occurrences(s \o u, x) = Occurrences(s, x) + Occurrences(u, x)}
<1>1. << >> \in Good
  <2>1. << >> \in Seq(S) /\ ~Contains(<< >>, x)
    BY EmptySeq DEF Contains
  <2>2. s \o << >> = s
    BY ConcatEmptySeq
  <2>3. Occurrences(<< >>, x) = 0 /\ Occurrences(s, x) \in Nat
    BY <2>1, OccurrencesNone, OccurrencesIn
  <2> QED
    BY <2>1, <2>2, <2>3
<1>2. ASSUME NEW u \in Seq(S), NEW e \in S, u \in Good
      PROVE  Append(u, e) \in Good
  <2>1. s \o u \in Seq(S) /\ Append(u, e) \in Seq(S)
    OBVIOUS
  <2>2. s \o Append(u, e) = Append(s \o u, e)
    OBVIOUS
  <2>3. PICK one \in Nat : one = IF x = e THEN 1 ELSE 0
    OBVIOUS
  <2>4. Occurrences(s \o Append(u, e), x) = Occurrences(s \o u, x) + one
    <3>1. PICK v \in Seq(S) : v = s \o u
      BY <2>1
    <3>2. Occurrences(Append(v, e), x) = Occurrences(v, x) + one
      BY <2>3, OccurrencesAppend
    <3> QED
      BY <2>2, <3>1, <3>2
  <2>5. Occurrences(Append(u, e), x) = Occurrences(u, x) + one
    BY <2>3, OccurrencesAppend
  <2>6. Occurrences(s \o u, x) = Occurrences(s, x) + Occurrences(u, x)
    BY <1>2
  <2>7. Occurrences(s, x) \in Nat /\ Occurrences(u, x) \in Nat
    BY OccurrencesIn
  <2>8. Occurrences(s \o Append(u, e), x) = Occurrences(s, x) + Occurrences(Append(u, e), x)
    BY <2>4, <2>5, <2>6, <2>7
  <2> QED
    BY <2>1, <2>8
<1>3. Seq(S) \subseteq Good
  <2> HIDE DEF Good
  <2> QED
    BY <1>1, <1>2, InductionOnSequences
<1> QED
  BY <1>3

LEMMA OccurrencesFilter ==
  ASSUME NEW S, NEW s \in Seq(S), NEW A, NEW x
  PROVE  Occurrences(Filter(s, A), x) = IF x \in A THEN Occurrences(s, x) ELSE 0
<1> DEFINE Good == {u \in Seq(S) :
             Occurrences(Filter(u, A), x) = IF x \in A THEN Occurrences(u, x) ELSE 0}
<1>1. << >> \in Good
  <2>1. << >> \in Seq(S) /\ ~Contains(<< >>, x)
    BY EmptySeq DEF Contains
  <2>2. Occurrences(<< >>, x) = 0
    BY <2>1, OccurrencesNone
  <2> QED
    BY <2>1, <2>2, FilterEmpty
<1>2. ASSUME NEW u \in Seq(S), NEW e \in S, u \in Good
      PROVE  Append(u, e) \in Good
  <2>1. Append(u, e) \in Seq(S)
    OBVIOUS
  <2>2. PICK f \in Seq(S) : f = Filter(u, A)
    BY FilterType
  <2>3. Filter(Append(u, e), A) = IF e \in A THEN Append(f, e) ELSE f
    BY <2>2, FilterAppend
  <2>4. PICK one \in Nat : one = IF x = e THEN 1 ELSE 0
    OBVIOUS
  <2>5. /\ Occurrences(Append(u, e), x) = Occurrences(u, x) + one
        /\ Occurrences(Append(f, e), x) = Occurrences(f, x) + one
    BY <2>4, OccurrencesAppend
  <2>6. Occurrences(f, x) = IF x \in A THEN Occurrences(u, x) ELSE 0
    BY <1>2, <2>2
  <2>7. Occurrences(f, x) \in Nat /\ Occurrences(u, x) \in Nat
    BY OccurrencesIn
  <2>8. Occurrences(Filter(Append(u, e), A), x)
          = IF x \in A THEN Occurrences(Append(u, e), x) ELSE 0
    <3>1. CASE e \in A
      BY <2>3, <2>4, <2>5, <2>6, <2>7, <3>1
    <3>2. CASE e \notin A
      BY <2>3, <2>4, <2>5, <2>6, <2>7, <3>2
    <3> QED
      BY <3>1, <3>2
  <2> QED
    BY <2>1, <2>8
<1>3. Seq(S) \subseteq Good
  <2> HIDE DEF Good
  <2> QED
    BY <1>1, <1>2, InductionOnSequences
<1> QED
  BY <1>3

LEMMA OccurrencesDistinct ==
  ASSUME NEW S, NEW s \in Seq(S)
  PROVE  Distinct(s) <=> \A x \in S : Occurrences(s, x) <= 1
<1>1. ASSUME Distinct(s), NEW x \in S PROVE Occurrences(s, x) <= 1
  <2> DEFINE I == {i \in 1..Len(s) : s[i] = x}
  <2>1. Occurrences(s, x) = Cardinality(I)
    BY OccurrencesIn
  <2>2. \A i, j \in I : i = j
    BY <1>1 DEF Distinct
  <2> HIDE DEF I
  <2>3. CASE I = {}
    BY <2>1, <2>3, FS_EmptySet
  <2>4. CASE I # {}
    <3>1. PICK i \in I : TRUE
      BY <2>4
    <3>2. I = {i}
      BY <2>2, <3>1
    <3>3. Cardinality({i}) = 1
      BY FS_Singleton
    <3> QED
      BY <2>1, <3>2, <3>3
  <2> QED
    BY <2>3, <2>4
<1>2. ASSUME \A x \in S : Occurrences(s, x) <= 1 PROVE Distinct(s)
  <2>1. SUFFICES ASSUME NEW i \in 1..Len(s), NEW j \in 1..Len(s), s[i] = s[j], i # j
                 PROVE  FALSE
    BY DEF Distinct
  <2> DEFINE I == {k \in 1..Len(s) : s[k] = s[i]}
  <2>2. Occurrences(s, s[i]) = Cardinality(I) /\ IsFiniteSet(I)
    BY OccurrencesIn
  <2>3. s[i] \in S
    OBVIOUS
  <2>4. i \in I /\ j \in I
    BY <2>1
  <2> HIDE DEF I
  <2>5. Cardinality({i, j}) = 2 /\ {i, j} \in SUBSET I
    <3>1. IsFiniteSet({i}) /\ Cardinality({i}) = 1
      BY FS_Singleton
    <3>2. {i, j} = {i} \cup {j} /\ j \notin {i}
      BY <2>1
    <3>3. Cardinality({i} \cup {j}) = Cardinality({i}) + 1
      BY <3>1, <3>2, FS_AddElement
    <3>4. Cardinality({i, j}) = 1 + 1
      BY <3>1, <3>2, <3>3, Zenon
    <3>5. {i, j} \in SUBSET I
      BY <2>4, Zenon
    <3> QED
      BY <3>4, <3>5
  <2>6. Cardinality({i, j}) <= Cardinality(I)
    BY <2>2, <2>5, FS_Subset
  <2>7. Cardinality(I) <= 1
    BY <1>2, <2>2, <2>3
  <2>8. Cardinality(I) \in Nat
    BY <2>2, FS_CardinalityType
  <2> QED
    BY <2>5, <2>6, <2>7, <2>8
<1> QED
  BY <1>1, <1>2

\* A list without repetition is as long as the set of its entries.
LEMMA DistinctLength ==
  ASSUME NEW S, NEW s \in Seq(S), Distinct(s)
  PROVE  /\ IsFiniteSet({x \in S : Contains(s, x)})
         /\ Len(s) = Cardinality({x \in S : Contains(s, x)})
<1> DEFINE E == {x \in S : Contains(s, x)}
<1>1. Len(s) \in Nat /\ \A i \in 1..Len(s) : s[i] \in E
  BY DEF Contains
<1>2. \A x \in E : \E i \in 1..Len(s) : s[i] = x
  BY DEF Contains
<1>3. \A i, j \in 1..Len(s) : s[i] = s[j] => i = j
  BY DEF Distinct
<1> HIDE DEF E
<1> DEFINE f == [i \in 1..Len(s) |-> s[i]]
<1>4. /\ f \in [1..Len(s) -> E]
      /\ \A x \in E : \E i \in 1..Len(s) : f[i] = x
      /\ \A i, j \in 1..Len(s) : f[i] = f[j] => i = j
  BY <1>1, <1>2, <1>3
<1> HIDE DEF f
<1>5. ExistsBijection(1..Len(s), E)
  BY <1>4 DEF ExistsBijection, Bijection, Injection, Surjection, IsInjective
<1>6. IsFiniteSet(E) /\ Cardinality(E) = Len(s)
  <2>1. IsFiniteSet(E)
    BY <1>1, <1>5, FS_NatBijection
  <2> QED
    BY <1>1, <1>5, <2>1, FS_CountingElements
<1> QED
  BY <1>6 DEF E

----
(***************************************************************************)
(* A list without one of its entries.                                       *)
(***************************************************************************)
LEMMA RemoveFirstAbsent ==
  ASSUME NEW S, NEW s \in Seq(S), NEW e, ~Contains(s, e)
  PROVE  RemoveFirst(s, e) = s
BY DEF Contains, RemoveFirst

\* The list has an e between u and v; without it, the two meet.
Parts(s, e, u, v) == s = Append(u, e) \o v /\ RemoveFirst(s, e) = u \o v

LEMMA RemoveFirstSplit ==
  ASSUME NEW S, NEW s \in Seq(S), NEW e, Contains(s, e)
  PROVE  \E u, v \in Seq(S) : Parts(s, e, u, v)
<1>1. PICK n \in Nat : n = Len(s)
  OBVIOUS
<1> DEFINE I == {i \in 1..n : s[i] = e}
<1>2. I # {} /\ I \in SUBSET Nat
  BY <1>1 DEF Contains
<1>3. PICK k \in I : \A j \in I : k <= j
  <2> HIDE DEF I
  <2> QED
    BY <1>2, LeastNatural
<1>4. Min(I) = k
  <2>1. \A j \in I : j \in Nat
    OBVIOUS
  <2> HIDE DEF I
  <2>2. \A m \in I : (\A j \in I : m <= j) => m = k
    <3>1. ASSUME NEW m \in I, \A j \in I : m <= j PROVE m = k
      <4>1. m <= k /\ k <= m
        BY <1>3, <3>1
      <4> QED
        BY <2>1, <4>1
    <3> QED
      BY <3>1
  <2> QED
    BY <1>3, <2>2, Zenon DEF Min
<1>5. k \in 1..n /\ s[k] = e
  OBVIOUS
<1>6. RemoveFirst(s, e) = SubSeq(s, 1, k - 1) \o SubSeq(s, k + 1, Len(s))
  <2>1. SelectInSeq(s, LAMBDA x : x = e) = Min(I)
    BY <1>1, <1>2 DEF SelectInSeq
  <2>2. \E i \in 1..Len(s) : s[i] = e
    BY <1>1, <1>5
  <2> HIDE DEF I
  <2>3. RemoveFirst(s, e) = RemoveAt(s, SelectInSeq(s, LAMBDA x : x = e))
    BY <2>2, Zenon DEF RemoveFirst
  <2> QED
    BY <1>4, <2>1, <2>3, Zenon DEF RemoveAt
<1> HIDE DEF I
<1>7. k - 1 \in 0..Len(s) /\ k \in 0..Len(s) /\ k - 1 + 1 = k
  BY <1>1, <1>5
<1>8. PICK u \in Seq(S) : /\ u = SubSeq(s, 1, k - 1)
                          /\ Len(u) = k - 1 /\ \A i \in 1..(k - 1) : u[i] = s[i]
  <2>1. PICK c \in 0..Len(s) : c = k - 1
    BY <1>7
  <2>2. /\ SubSeq(s, 1, c) \in Seq(S)
        /\ Len(SubSeq(s, 1, c)) = c /\ \A i \in 1..c : SubSeq(s, 1, c)[i] = s[i]
    BY CutEntries, Zenon
  <2> QED
    BY <2>1, <2>2, Zenon
<1>9. PICK v \in Seq(S) : /\ v = SubSeq(s, k + 1, Len(s))
                          /\ Len(v) = Len(s) - k
                          /\ \A i \in 1..(Len(s) - k) : v[i] = s[k + i]
  <2>1. k \in 0..Len(s)
    BY <1>7
  <2>2. /\ SubSeq(s, k + 1, Len(s)) \in Seq(S)
        /\ Len(SubSeq(s, k + 1, Len(s))) = Len(s) - k
        /\ \A i \in 1..(Len(s) - k) : SubSeq(s, k + 1, Len(s))[i] = s[k + i]
    BY <2>1, CutEntries, Zenon
  <2> QED
    BY <2>2, Zenon
<1>10. e \in S
  BY <1>1, <1>5
<1>11. PICK a \in Seq(S) : /\ a = Append(u, e) /\ Len(a) = k /\ a[k] = e
                           /\ \A i \in 1..(k - 1) : a[i] = s[i]
  <2>1. PICK a \in Seq(S) : a = Append(u, e)
    BY <1>10, AppendProperties, Zenon
  <2>2. Len(a) = Len(u) + 1 /\ a[Len(u) + 1] = e /\ \A i \in 1..Len(u) : a[i] = u[i]
    BY <1>10, <2>1, AppendProperties
  <2>3. Len(u) + 1 = k
    BY <1>5, <1>8
  <2> QED
    BY <1>8, <2>1, <2>2, <2>3
<1>12. PICK t \in Seq(S) : /\ t = a \o v /\ Len(t) = n
                           /\ \A i \in 1..n : t[i] = IF i <= k THEN a[i] ELSE v[i - k]
  <2>1. PICK t \in Seq(S) : t = a \o v
    BY ConcatProperties, Zenon
  <2>2. /\ Len(t) = Len(a) + Len(v)
        /\ \A i \in 1..(Len(a) + Len(v)) : t[i] = IF i <= Len(a) THEN a[i] ELSE v[i - Len(a)]
    BY <2>1, ConcatProperties
  <2>3. Len(a) + Len(v) = n
    BY <1>1, <1>5, <1>9, <1>11
  <2> QED
    BY <1>11, <2>1, <2>2, <2>3
<1>13. \A i \in 1..n : t[i] = s[i]
  <2>1. SUFFICES ASSUME NEW i \in 1..n PROVE t[i] = s[i]
    OBVIOUS
  <2>2. CASE i < k
    <3>1. i \in 1..(k - 1) /\ i <= k
      BY <1>5, <2>2
    <3> QED
      BY <1>11, <1>12, <3>1
  <2>3. CASE i = k
    BY <1>5, <1>11, <1>12, <2>3
  <2>4. CASE i > k
    <3>1. ~(i <= k) /\ i - k \in 1..(Len(s) - k) /\ k + (i - k) = i
      BY <1>1, <1>5, <2>4
    <3>2. v[i - k] = s[k + (i - k)]
      BY <1>9, <3>1
    <3> QED
      BY <1>12, <3>1, <3>2
  <2> QED
    BY <1>5, <2>2, <2>3, <2>4
<1>14. t = s
  BY <1>1, <1>12, <1>13, SeqEqual
<1> QED
  BY <1>6, <1>8, <1>9, <1>11, <1>12, <1>14, Zenon DEF Parts

LEMMA RemoveFirstType ==
  ASSUME NEW S, NEW s \in Seq(S), NEW e
  PROVE  RemoveFirst(s, e) \in Seq(S)
<1>1. CASE Contains(s, e)
  <2>1. PICK u \in Seq(S), v \in Seq(S) : Parts(s, e, u, v)
    BY <1>1, RemoveFirstSplit
  <2> QED
    BY <2>1 DEF Parts
<1>2. CASE ~Contains(s, e)
  BY <1>2, RemoveFirstAbsent
<1> QED
  BY <1>1, <1>2

LEMMA RemoveFirstLength ==
  ASSUME NEW S, NEW s \in Seq(S), NEW e, Contains(s, e)
  PROVE  Len(s) > 0 /\ Len(RemoveFirst(s, e)) = Len(s) - 1
<1>1. PICK u \in Seq(S), v \in Seq(S) : Parts(s, e, u, v)
  BY RemoveFirstSplit
<1>2. e \in S
  BY DEF Contains
<1>3. PICK a \in Seq(S) : a = Append(u, e) /\ Len(a) = Len(u) + 1
  BY <1>2, AppendProperties
<1>4. Len(a \o v) = Len(a) + Len(v) /\ Len(u \o v) = Len(u) + Len(v)
  BY ConcatProperties
<1> QED
  BY <1>1, <1>3, <1>4 DEF Parts

LEMMA OccurrencesRemoved ==
  ASSUME NEW S, NEW s \in Seq(S), NEW e, Contains(s, e), NEW x
  PROVE  Occurrences(s, x) = Occurrences(RemoveFirst(s, e), x) + (IF x = e THEN 1 ELSE 0)
<1>1. PICK u \in Seq(S), v \in Seq(S) : Parts(s, e, u, v)
  BY RemoveFirstSplit
<1>2. e \in S
  BY DEF Contains
<1>3. PICK a \in Seq(S) : a = Append(u, e)
  BY <1>2, AppendProperties, Zenon
<1>4. /\ Occurrences(s, x) = Occurrences(a, x) + Occurrences(v, x)
      /\ Occurrences(RemoveFirst(s, e), x) = Occurrences(u, x) + Occurrences(v, x)
  <2>1. s = a \o v /\ RemoveFirst(s, e) = u \o v
    BY <1>1, <1>3, Zenon DEF Parts
  <2> QED
    BY <2>1, OccurrencesConcat
<1>5. PICK one \in Nat : one = IF x = e THEN 1 ELSE 0
  OBVIOUS
<1>6. Occurrences(a, x) = Occurrences(u, x) + one
  BY <1>2, <1>3, <1>5, OccurrencesAppend
<1>7. Occurrences(u, x) \in Nat /\ Occurrences(v, x) \in Nat
  BY OccurrencesIn
<1> QED
  BY <1>4, <1>5, <1>6, <1>7

\* Removing one does not touch the others, and what is listed once is gone.
LEMMA OccurrencesRemoveFirst ==
  ASSUME NEW S, NEW s \in Seq(S), NEW e, NEW x
  PROVE  /\ x # e => Occurrences(RemoveFirst(s, e), x) = Occurrences(s, x)
         /\ Occurrences(s, e) <= 1 => Occurrences(RemoveFirst(s, e), e) = 0
<1>1. PICK r \in Seq(S) : r = RemoveFirst(s, e)
  BY RemoveFirstType
<1>2. /\ Occurrences(s, x) \in Nat /\ Occurrences(r, x) \in Nat
      /\ Occurrences(s, e) \in Nat /\ Occurrences(r, e) \in Nat
  BY OccurrencesIn
<1>3. CASE Contains(s, e)
  <2>1. Occurrences(s, e) = Occurrences(r, e) + 1
    BY <1>1, <1>3, OccurrencesRemoved
  <2>2. x # e => Occurrences(s, x) = Occurrences(r, x)
    BY <1>1, <1>2, <1>3, OccurrencesRemoved
  <2> QED
    BY <1>1, <1>2, <2>1, <2>2
<1>4. CASE ~Contains(s, e)
  <2>1. r = s /\ Occurrences(s, e) = 0
    BY <1>1, <1>4, RemoveFirstAbsent, OccurrencesNone
  <2> QED
    BY <1>1, <2>1
<1> QED
  BY <1>3, <1>4

\* What Filter drops may be removed before.
LEMMA FilterRemoveFirst ==
  ASSUME NEW S, NEW s \in Seq(S), NEW e, NEW A, e \notin A
  PROVE  Filter(RemoveFirst(s, e), A) = Filter(s, A)
<1>1. CASE Contains(s, e)
  <2>1. PICK u \in Seq(S), v \in Seq(S) : Parts(s, e, u, v)
    BY <1>1, RemoveFirstSplit
  <2>2. e \in S
    BY <1>1 DEF Contains
  <2>3. PICK a \in Seq(S) : a = Append(u, e)
    BY <2>2, AppendProperties, Zenon
  <2>4. Filter(a, A) = Filter(u, A)
    BY <2>2, <2>3, FilterAppend
  <2>5. Filter(a \o v, A) = Filter(a, A) \o Filter(v, A)
    BY SMTT(60), FilterConcat
  <2>6. Filter(u \o v, A) = Filter(u, A) \o Filter(v, A)
    BY SMTT(60), FilterConcat
  <2> QED
    BY <2>1, <2>3, <2>4, <2>5, <2>6, Zenon DEF Parts
<1>2. CASE ~Contains(s, e)
  BY <1>2, RemoveFirstAbsent, Zenon
<1> QED
  BY <1>1, <1>2

----
(***************************************************************************)
(* Reading a list from a position on, while what is shown of it changes.    *)
(***************************************************************************)
LEMMA BeyondEntries ==
  ASSUME NEW S, NEW s \in Seq(S), NEW c, NEW x
  PROVE  /\ x \in Beyond(s, c) <=> \E i \in 1..Len(s) : i > c /\ s[i] = x
         /\ x \in Upto(s, c) <=> \E i \in 1..Len(s) : i <= c /\ s[i] = x
<1>1. DOMAIN s = 1..Len(s)
  OBVIOUS
<1> QED
  BY <1>1 DEF Beyond, Upto

\* A page of s: its entries from the one after the c-th up to the d-th.
LEMMA PageEntries ==
  ASSUME NEW S, NEW s \in Seq(S), NEW c \in Nat, NEW d \in Nat, c <= d, d <= Len(s)
  PROVE  /\ SubSeq(s, c + 1, d) \in Seq(S)
         /\ Len(SubSeq(s, c + 1, d)) = d - c
         /\ \A i \in 1..(d - c) : SubSeq(s, c + 1, d)[i] = s[c + i]
<1>1. Len(s) \in Nat /\ \A i \in 1..Len(s) : s[i] \in S
  BY LenProperties, ElementOfSeq
<1>2. PICK m \in Int : m = c + 1 /\ d \in Int
  OBVIOUS
<1>3. \A i \in m..d : s[i] \in S
  BY <1>1, <1>2
<1>4. /\ SubSeq(s, m, d) \in Seq(S)
      /\ Len(SubSeq(s, m, d)) = IF m <= d THEN d - m + 1 ELSE 0
      /\ \A i \in 1..d - m + 1 : SubSeq(s, m, d)[i] = s[m + i - 1]
  BY <1>2, <1>3, SubSeqProperties
<1>5. /\ d - m + 1 = d - c /\ (m <= d <=> d - c # 0) /\ d - c \in Nat
      /\ \A i \in 1..(d - c) : m + i - 1 = c + i
  BY <1>2
<1>6. Len(SubSeq(s, m, d)) = d - c
  BY <1>4, <1>5
<1>7. \A i \in 1..(d - c) : SubSeq(s, m, d)[i] = s[c + i]
  BY <1>4, <1>5
<1> QED
  BY <1>2, <1>4, <1>6, <1>7

\* What lies beyond c is in that page or beyond d.
LEMMA PageBeyond ==
  ASSUME NEW S, NEW s \in Seq(S), NEW c \in Nat, NEW d \in Nat, c <= d, d <= Len(s)
  PROVE  \A x \in Beyond(s, c) : Contains(SubSeq(s, c + 1, d), x) \/ x \in Beyond(s, d)
<1> SUFFICES ASSUME NEW x \in Beyond(s, c), x \notin Beyond(s, d)
             PROVE  Contains(SubSeq(s, c + 1, d), x)
  OBVIOUS
<1>1. PICK i \in 1..Len(s) : i > c /\ s[i] = x
  BY BeyondEntries
<1>2. i <= d
  BY <1>1, BeyondEntries
<1>3. i - c \in 1..(d - c) /\ c + (i - c) = i
  BY <1>1, <1>2
<1>4. /\ Len(SubSeq(s, c + 1, d)) = d - c
      /\ \A j \in 1..(d - c) : SubSeq(s, c + 1, d)[j] = s[c + j]
  BY PageEntries
<1>5. SubSeq(s, c + 1, d)[i - c] = x
  BY <1>1, <1>3, <1>4
<1> QED
  BY <1>3, <1>4, <1>5 DEF Contains

LEMMA BeyondAppend ==
  ASSUME NEW S, NEW s \in Seq(S), NEW e \in S, NEW c \in Nat
  PROVE  /\ Beyond(Append(s, e), c) = Beyond(s, c) \cup (IF c <= Len(s) THEN {e} ELSE {})
         /\ Upto(Append(s, e), c) = Upto(s, c) \cup (IF c <= Len(s) THEN {} ELSE {e})
<1>1. PICK t \in Seq(S) : t = Append(s, e)
  BY AppendProperties, Zenon
<1>2. PICK n \in Nat : n = Len(s)
  OBVIOUS
<1>3. Len(t) = n + 1 /\ t[n + 1] = e /\ \A i \in 1..n : t[i] = s[i]
  BY <1>1, <1>2, AppendProperties
<1>4. \A i : i \in 1..(n + 1) <=> i \in 1..n \/ i = n + 1
  OBVIOUS
<1>5. ASSUME NEW x
      PROVE  /\ (\E i \in 1..(n + 1) : i > c /\ t[i] = x)
                  <=> (\E i \in 1..n : i > c /\ s[i] = x) \/ (c <= n /\ x = e)
             /\ (\E i \in 1..(n + 1) : i <= c /\ t[i] = x)
                  <=> (\E i \in 1..n : i <= c /\ s[i] = x) \/ (~(c <= n) /\ x = e)
  <2>1. (n + 1 > c <=> c <= n) /\ (n + 1 <= c <=> ~(c <= n))
    OBVIOUS
  <2> QED
    BY <1>3, <1>4, <2>1
<1>6. ASSUME NEW x
      PROVE  /\ x \in Beyond(t, c) <=> x \in Beyond(s, c) \/ (c <= n /\ x = e)
             /\ x \in Upto(t, c) <=> x \in Upto(s, c) \/ (~(c <= n) /\ x = e)
  <2>1. /\ x \in Beyond(t, c) <=> \E i \in 1..(n + 1) : i > c /\ t[i] = x
        /\ x \in Upto(t, c) <=> \E i \in 1..(n + 1) : i <= c /\ t[i] = x
    <3>1. /\ x \in Beyond(t, c) <=> \E i \in 1..Len(t) : i > c /\ t[i] = x
          /\ x \in Upto(t, c) <=> \E i \in 1..Len(t) : i <= c /\ t[i] = x
      BY BeyondEntries
    <3>2. Len(t) = n + 1
      BY <1>3
    <3> QED
      BY <3>1, <3>2, Zenon
  <2>2. /\ x \in Beyond(s, c) <=> \E i \in 1..n : i > c /\ s[i] = x
        /\ x \in Upto(s, c) <=> \E i \in 1..n : i <= c /\ s[i] = x
    BY <1>2, BeyondEntries
  <2> QED
    BY <1>5, <2>1, <2>2
<1>7. CASE c <= n
  BY <1>1, <1>2, <1>6, <1>7
<1>8. CASE ~(c <= n)
  BY <1>1, <1>2, <1>6, <1>8
<1> QED
  BY <1>7, <1>8

\* While the first c that are kept stay kept, those beyond them stay beyond.
Further(s, c, A, B) ==
  Upto(Filter(s, A), c) \subseteq B =>
    /\ Beyond(Filter(s, A), c) \cap B \subseteq Beyond(Filter(s, B), c)
    /\ c <= Len(Filter(s, A)) => c <= Len(Filter(s, B))
    /\ Len(Filter(s, A)) <= c => Len(Filter(s, A)) <= Len(Filter(s, B))

LEMMA FilterFurther ==
  ASSUME NEW S, NEW s \in Seq(S), NEW A, NEW B, NEW c \in Nat
  PROVE  Further(s, c, A, B)
<1> DEFINE Good == {u \in Seq(S) : Further(u, c, A, B)}
<1>1. << >> \in Good
  <2>1. << >> \in Seq(S) /\ Filter(<< >>, A) = << >> /\ Filter(<< >>, B) = << >>
    BY FilterEmpty
  <2>2. ASSUME NEW x PROVE x \notin Beyond(<< >>, c)
    BY DEF Beyond
  <2>3. Further(<< >>, c, A, B)
    BY <2>1, <2>2 DEF Further
  <2> QED
    BY <2>1, <2>3
<1>2. ASSUME NEW u \in Seq(S), NEW e \in S, u \in Good
      PROVE  Append(u, e) \in Good
  <2>1. PICK t \in Seq(S) : t = Append(u, e)
    BY AppendProperties, Zenon
  <2>2. PICK a \in Seq(S), b \in Seq(S) : a = Filter(u, A) /\ b = Filter(u, B)
    BY FilterType
  <2>3. PICK a1 \in Seq(S), b1 \in Seq(S) : a1 = Append(a, e) /\ b1 = Append(b, e)
    BY AppendProperties, Zenon
  <2>4. /\ Filter(t, A) = IF e \in A THEN a1 ELSE a
        /\ Filter(t, B) = IF e \in B THEN b1 ELSE b
    <3>1. Filter(Append(u, e), A) = IF e \in A THEN Append(Filter(u, A), e) ELSE Filter(u, A)
      BY FilterAppend
    <3>2. Filter(Append(u, e), B) = IF e \in B THEN Append(Filter(u, B), e) ELSE Filter(u, B)
      BY FilterAppend
    <3> QED
      BY <2>1, <2>2, <2>3, <3>1, <3>2, Zenon
  <2>5. Len(a1) = Len(a) + 1 /\ Len(b1) = Len(b) + 1
    BY <2>3, AppendProperties
  <2>6. /\ Beyond(a1, c) = Beyond(a, c) \cup (IF c <= Len(a) THEN {e} ELSE {})
        /\ Upto(a1, c) = Upto(a, c) \cup (IF c <= Len(a) THEN {} ELSE {e})
        /\ Beyond(b1, c) = Beyond(b, c) \cup (IF c <= Len(b) THEN {e} ELSE {})
    <3>1. /\ Beyond(a1, c) = Beyond(a, c) \cup (IF c <= Len(a) THEN {e} ELSE {})
          /\ Upto(a1, c) = Upto(a, c) \cup (IF c <= Len(a) THEN {} ELSE {e})
      BY <2>3, BeyondAppend
    <3>2. Beyond(b1, c) = Beyond(b, c) \cup (IF c <= Len(b) THEN {e} ELSE {})
      BY <2>3, BeyondAppend
    <3> QED
      BY <3>1, <3>2
  <2>7. Upto(a, c) \subseteq B =>
          /\ Beyond(a, c) \cap B \subseteq Beyond(b, c)
          /\ c <= Len(a) => c <= Len(b)
          /\ Len(a) <= c => Len(a) <= Len(b)
    BY <1>2, <2>2 DEF Further
  <2>8. PICK la \in Nat, lb \in Nat : la = Len(a) /\ lb = Len(b)
    OBVIOUS
  <2>9. ASSUME Upto(Filter(t, A), c) \subseteq B
        PROVE  /\ Beyond(Filter(t, A), c) \cap B \subseteq Beyond(Filter(t, B), c)
               /\ c <= Len(Filter(t, A)) => c <= Len(Filter(t, B))
               /\ Len(Filter(t, A)) <= c => Len(Filter(t, A)) <= Len(Filter(t, B))
    <3>1. Upto(a, c) \subseteq B
      BY <2>4, <2>6, <2>9
    <3>2. /\ Beyond(a, c) \cap B \subseteq Beyond(b, c)
          /\ c <= la => c <= lb
          /\ la <= c => la <= lb
      BY <2>7, <2>8, <3>1
    <3>3. CASE e \in A /\ e \in B
      <4>1. Filter(t, A) = a1 /\ Filter(t, B) = b1
        BY <2>4, <3>3
      <4>2. Beyond(a1, c) \cap B \subseteq Beyond(b1, c)
        BY <2>6, <2>8, <3>2
      <4>3. (c <= la + 1 => c <= lb + 1) /\ (la + 1 <= c => la + 1 <= lb + 1)
        BY <3>2
      <4> QED
        BY <2>5, <2>8, <4>1, <4>2, <4>3
    <3>4. CASE e \in A /\ e \notin B
      <4>1. Filter(t, A) = a1 /\ Filter(t, B) = b
        BY <2>4, <3>4
      <4>2. c <= la
        <5>1. e \notin Upto(a1, c)
          BY <2>9, <3>4, <4>1
        <5> QED
          BY <2>6, <2>8, <5>1
      <4>3. Beyond(a1, c) \cap B \subseteq Beyond(b, c)
        BY <2>6, <3>2, <3>4
      <4>4. c <= lb /\ ~(la + 1 <= c)
        BY <3>2, <4>2
      <4> QED
        BY <2>5, <2>8, <4>1, <4>3, <4>4
    <3>5. CASE e \notin A /\ e \in B
      <4>1. Filter(t, A) = a /\ Filter(t, B) = b1
        BY <2>4, <3>5
      <4>2. Beyond(a, c) \cap B \subseteq Beyond(b1, c)
        BY <2>6, <3>2
      <4>3. (c <= la => c <= lb + 1) /\ (la <= c => la <= lb + 1)
        BY <3>2
      <4> QED
        BY <2>5, <2>8, <4>1, <4>2, <4>3
    <3>6. CASE e \notin A /\ e \notin B
      <4>1. Filter(t, A) = a /\ Filter(t, B) = b
        BY <2>4, <3>6
      <4> QED
        BY <2>8, <3>2, <4>1
    <3> QED
      BY <3>3, <3>4, <3>5, <3>6
  <2>10. Further(t, c, A, B)
    BY <2>9 DEF Further
  <2> QED
    BY <2>1, <2>10, Zenon
<1>3. Seq(S) \subseteq Good
  <2> HIDE DEF Good
  <2> QED
    BY <1>1, <1>2, InductionOnSequences
<1> QED
  BY <1>3

----
(***************************************************************************)
(* Each entry once.                                                         *)
(***************************************************************************)
Collects(f, s) ==
  f[0] = << >> /\ \A i \in 1..Len(s) : f[i] = AddNew(f[i - 1], s[i])

LEMMA AddNewType ==
  ASSUME NEW S, NEW v \in Seq(S), NEW x \in S
  PROVE  AddNew(v, x) \in Seq(S)
BY DEF AddNew

LEMMA OnceIteration ==
  ASSUME NEW S, NEW s \in Seq(S)
  PROVE  \E f \in [0..Len(s) -> Seq(S)] : Collects(f, s) /\ Once(s) = f[Len(s)]
<1>1. PICK n \in Nat : n = Len(s)
  OBVIOUS
<1>2. PICK V : V = Seq(S)
  OBVIOUS
<1>3. PICK empty : empty = << >>
  OBVIOUS
<1>4. empty \in V
  BY <1>2, <1>3
<1>5. \A v \in V, i \in 1..n : AddNew(v, s[i]) \in V
  BY <1>1, <1>2, AddNewType
<1> DEFINE Step(f) == [i \in 0..n |-> IF i = 0 THEN empty ELSE AddNew(f[i - 1], s[i])]
<1>6. PICK g \in [0..n -> V] : g[0] = empty /\ \A i \in 1..n : g[i] = AddNew(g[i - 1], s[i])
  <2> DEFINE G == [i \in 1..n |-> [v \in V |-> AddNew(v, s[i])]]
  <2>1. G \in [1..n -> [V -> V]]
    BY <1>5
  <2>2. \A i \in 1..n, v \in V : G[i][v] = AddNew(v, s[i])
    OBVIOUS
  <2> HIDE DEF G
  <2>3. PICK f \in [0..n -> V] : Iterates(f, n, empty, G)
    BY <1>4, <2>1, IterationExists
  <2>4. f[0] = empty /\ \A i \in 1..n : f[i] = AddNew(f[i - 1], s[i])
    BY <2>2, <2>3 DEF Iterates
  <2> QED
    BY <2>4
<1>7. \E f : f = Step(f)
  <2>1. g = Step(g)
    BY <1>6
  <2> QED
    BY <2>1
<1>8. PICK f : f = Step(f) /\ Once(s) = f[n]
  <2> DEFINE seen == CHOOSE f : f = Step(f)
  <2>1. seen = Step(seen)
    <3> HIDE DEF Step
    <3> QED
      BY <1>7, Zenon
  <2>2. Once(s) = seen[n]
    BY <1>1, <1>3, Zenon DEF Once
  <2> HIDE DEF seen
  <2> QED
    BY <2>1, <2>2, Zenon
<1>9. f[0] = empty /\ \A i \in 1..n : f[i] = AddNew(f[i - 1], s[i])
  <2>1. f = Step(f)
    BY <1>8, Zenon
  <2>2. f[0] = empty
    BY <2>1
  <2>3. \A i \in 1..n : f[i] = AddNew(f[i - 1], s[i])
    BY <2>1
  <2> QED
    BY <2>2, <2>3
<1>10. \A i \in 0..n : f[i] \in V
  <2> DEFINE Good == {i \in Nat : i <= n => f[i] \in V}
  <2>1. 0 \in Good
    BY <1>4, <1>9
  <2>2. ASSUME NEW i \in Nat, i \in Good
        PROVE  i + 1 \in Good
    <3>1. SUFFICES ASSUME i + 1 <= n PROVE f[i + 1] \in V
      OBVIOUS
    <3>2. i + 1 \in 1..n /\ f[i] \in V /\ i + 1 - 1 = i
      BY <2>2, <3>1
    <3>3. f[i + 1] = AddNew(f[i + 1 - 1], s[i + 1])
      BY <1>9, <3>2
    <3> QED
      BY <1>5, <3>2, <3>3
  <2>3. \A i \in Nat : i \in Good
    <3> HIDE DEF Good
    <3> QED
      BY <2>1, <2>2, InductionOnSet
  <2> QED
    BY <2>3
<1>11. f \in [0..n -> V]
  <2>1. f = [i \in 0..n |-> f[i]]
    BY <1>8
  <2> QED
    BY <1>10, <2>1
<1> QED
  BY <1>1, <1>2, <1>3, <1>8, <1>9, <1>11, Zenon DEF Collects

LEMMA OnceType ==
  ASSUME NEW S, NEW s \in Seq(S)
  PROVE  Once(s) \in Seq(S)
<1>1. PICK f \in [0..Len(s) -> Seq(S)] : Once(s) = f[Len(s)]
  BY OnceIteration
<1>2. Len(s) \in 0..Len(s)
  OBVIOUS
<1> QED
  BY <1>1, <1>2

LEMMA OnceEmpty == Once(<< >>) = << >>
<1>1. << >> \in Seq({}) /\ Len(<< >>) = 0
  BY EmptySeq
<1>2. PICK f : Collects(f, << >>) /\ Once(<< >>) = f[0]
  BY <1>1, OnceIteration, Zenon
<1> QED
  BY <1>2, Zenon DEF Collects

LEMMA OnceAppend ==
  ASSUME NEW S, NEW s \in Seq(S), NEW e \in S
  PROVE  Once(Append(s, e)) = AddNew(Once(s), e)
<1>1. PICK n \in Nat : n = Len(s)
  OBVIOUS
<1>2. PICK t : t = Append(s, e)
  OBVIOUS
<1>3. /\ t \in Seq(S) /\ Len(t) = n + 1 /\ t[n + 1] = e
      /\ \A i \in 1..n : t[i] = s[i]
  BY <1>1, <1>2, AppendProperties
<1>4. PICK f : Collects(f, t) /\ Once(t) = f[n + 1]
  <2>1. \E f : Collects(f, t) /\ Once(t) = f[Len(t)]
    BY <1>3, OnceIteration, Zenon
  <2> QED
    BY <1>3, <2>1, Zenon
<1>5. PICK g : Collects(g, s) /\ Once(s) = g[n]
  BY <1>1, OnceIteration
<1>6. f[0] = g[0]
  BY <1>4, <1>5, Zenon DEF Collects
<1>7. \A i \in 1..(n + 1) : f[i] = AddNew(f[i - 1], t[i])
  BY <1>3, <1>4, Zenon DEF Collects
<1>8. \A i \in 1..n : g[i] = AddNew(g[i - 1], s[i])
  BY <1>1, <1>5, Zenon DEF Collects
<1>9. \A i \in 1..n : f[i] = AddNew(f[i - 1], s[i])
  BY <1>3, <1>7
<1>10. f[n + 1] = AddNew(f[n], e)
  BY <1>3, <1>7
<1>11. f[n] = g[n]
  <2> DEFINE Same == {i \in Nat : i <= n => f[i] = g[i]}
  <2>1. 0 \in Same
    BY <1>6
  <2>2. ASSUME NEW i \in Nat, i \in Same
        PROVE  i + 1 \in Same
    BY <1>8, <1>9, <2>2
  <2>3. \A i \in Nat : i \in Same
    <3> HIDE DEF Same
    <3> QED
      BY <2>1, <2>2, InductionOnSet
  <2> QED
    BY <2>3
<1> QED
  BY <1>2, <1>4, <1>5, <1>10, <1>11, Zenon

LEMMA OnceEntries ==
  ASSUME NEW S, NEW s \in Seq(S)
  PROVE  \A x : Contains(Once(s), x) <=> Contains(s, x)
<1> DEFINE Good == {u \in Seq(S) : \A x : Contains(Once(u), x) <=> Contains(u, x)}
<1>1. << >> \in Good
  BY OnceEmpty
<1>2. ASSUME NEW u \in Seq(S), NEW e \in S, u \in Good
      PROVE  Append(u, e) \in Good
  <2>1. PICK o \in Seq(S) : o = Once(u)
    BY OnceType
  <2>2. PICK t \in Seq(S) : t = Append(u, e)
    BY AppendProperties, Zenon
  <2>3. \A x : Contains(t, x) <=> Contains(u, x) \/ x = e
    BY <2>2, AppendEntries
  <2>4. Once(t) = AddNew(o, e)
    BY <2>1, <2>2, OnceAppend
  <2>5. \A x : Contains(o, x) <=> Contains(u, x)
    BY <1>2, <2>1
  <2>6. \A x : Contains(AddNew(o, e), x) <=> Contains(o, x) \/ x = e
    <3>1. CASE Contains(o, e)
      <4>1. AddNew(o, e) = o
        BY <3>1 DEF AddNew
      <4> QED
        BY <3>1, <4>1, Zenon
    <3>2. CASE ~Contains(o, e)
      <4>1. AddNew(o, e) = Append(o, e)
        BY <3>2 DEF AddNew
      <4> QED
        BY <4>1, AppendEntries
    <3> QED
      BY <3>1, <3>2
  <2>7. \A x : Contains(Once(t), x) <=> Contains(t, x)
    BY <2>3, <2>4, <2>5, <2>6, Zenon
  <2> QED
    BY <2>2, <2>7
<1>3. Seq(S) \subseteq Good
  <2> HIDE DEF Good
  <2> QED
    BY <1>1, <1>2, InductionOnSequences
<1> QED
  BY <1>3

\* A list without repetition is read as it stands.
LEMMA OnceDistinct ==
  ASSUME NEW S, NEW s \in Seq(S), Distinct(s)
  PROVE  Once(s) = s
<1> DEFINE Good == {u \in Seq(S) : Distinct(u) => Once(u) = u}
<1>1. << >> \in Good
  BY OnceEmpty
<1>2. ASSUME NEW u \in Seq(S), NEW e \in S, u \in Good
      PROVE  Append(u, e) \in Good
  <2>1. PICK t \in Seq(S) : t = Append(u, e)
    BY AppendProperties, Zenon
  <2>2. PICK n \in Nat : n = Len(u)
    OBVIOUS
  <2>3. Len(t) = n + 1 /\ t[n + 1] = e /\ \A i \in 1..n : t[i] = u[i]
    BY <2>1, <2>2, AppendProperties
  <2>4. ASSUME Distinct(t) PROVE Once(t) = t
    <3>1. \A i, j \in 1..(n + 1) : t[i] = t[j] => i = j
      BY <2>3, <2>4 DEF Distinct
    <3>2. Distinct(u)
      <4>1. \A i, j \in 1..n : u[i] = u[j] => i = j
        BY <2>3, <3>1
      <4> QED
        BY <2>2, <4>1 DEF Distinct
    <3>3. ~Contains(u, e)
      <4>1. \A i \in 1..n : u[i] # e
        <5>1. ASSUME NEW i \in 1..n, u[i] = e PROVE FALSE
          <6>1. t[i] = t[n + 1] /\ i \in 1..(n + 1) /\ n + 1 \in 1..(n + 1) /\ i # n + 1
            BY <2>3, <5>1
          <6> QED
            BY <3>1, <6>1
        <5> QED
          BY <5>1
      <4> QED
        BY <2>2, <4>1 DEF Contains
    <3>4. Once(u) = u
      BY <1>2, <3>2
    <3>5. Once(t) = AddNew(u, e)
      BY <2>1, <3>4, OnceAppend
    <3> QED
      BY <2>1, <3>3, <3>5 DEF AddNew
  <2> QED
    BY <2>1, <2>4
<1>3. Seq(S) \subseteq Good
  <2> HIDE DEF Good
  <2> QED
    BY <1>1, <1>2, InductionOnSequences
<1> QED
  BY <1>3

\* A new entry repeats none, and one that is there is not added.
LEMMA AppendDistinct ==
  ASSUME NEW S, NEW s \in Seq(S), NEW e \in S, Distinct(s), ~Contains(s, e)
  PROVE  Distinct(Append(s, e))
<1>1. PICK n \in Nat : n = Len(s)
  OBVIOUS
<1>2. PICK t \in Seq(S) : t = Append(s, e)
  BY AppendProperties, Zenon
<1>3. Len(t) = n + 1 /\ t[n + 1] = e /\ \A i \in 1..n : t[i] = s[i]
  BY <1>1, <1>2, AppendProperties
<1>4. \A i \in 1..n : s[i] # e
  BY <1>1 DEF Contains
<1>5. \A i, j \in 1..n : s[i] = s[j] => i = j
  BY <1>1 DEF Distinct
<1>6. \A i, j \in 1..(n + 1) : t[i] = t[j] => i = j
  BY <1>3, <1>4, <1>5
<1> QED
  BY <1>2, <1>3, <1>6 DEF Distinct

LEMMA AddNewDistinct ==
  ASSUME NEW S, NEW s \in Seq(S), NEW e \in S, Distinct(s)
  PROVE  /\ AddNew(s, e) \in Seq(S) /\ Distinct(AddNew(s, e))
         /\ \A x : Contains(AddNew(s, e), x) <=> Contains(s, x) \/ x = e
<1>1. CASE Contains(s, e)
  <2>1. AddNew(s, e) = s
    BY <1>1 DEF AddNew
  <2> QED
    BY <1>1, <2>1, Zenon
<1>2. CASE ~Contains(s, e)
  <2>1. AddNew(s, e) = Append(s, e)
    BY <1>2 DEF AddNew
  <2>2. Append(s, e) \in Seq(S)
    BY AppendProperties, Zenon
  <2>3. Distinct(Append(s, e))
    BY <1>2, AppendDistinct
  <2>4. \A x : Contains(Append(s, e), x) <=> Contains(s, x) \/ x = e
    BY AppendEntries
  <2> QED
    BY <2>1, <2>2, <2>3, <2>4, Zenon
<1> QED
  BY <1>1, <1>2

\* Each entry of any list is read once.
LEMMA OnceNoRepeats ==
  ASSUME NEW S, NEW s \in Seq(S)
  PROVE  Distinct(Once(s))
<1> DEFINE Good == {u \in Seq(S) : Distinct(Once(u))}
<1>1. << >> \in Good
  <2>1. Distinct(<< >>)
    BY DEF Distinct
  <2> QED
    BY <2>1, OnceEmpty
<1>2. ASSUME NEW u \in Seq(S), NEW e \in S, u \in Good
      PROVE  Append(u, e) \in Good
  <2>1. Append(u, e) \in Seq(S) /\ Once(u) \in Seq(S)
    BY AppendProperties, OnceType, Zenon
  <2>2. Once(Append(u, e)) = AddNew(Once(u), e)
    BY OnceAppend
  <2>3. Distinct(AddNew(Once(u), e))
    BY <1>2, <2>1, AddNewDistinct
  <2> QED
    BY <2>1, <2>2, <2>3
<1>3. Seq(S) \subseteq Good
  <2> HIDE DEF Good
  <2> QED
    BY <1>1, <1>2, InductionOnSequences
<1> QED
  BY <1>3

\* What comes after and has been there before adds nothing.
LEMMA OnceAgain ==
  ASSUME NEW S, NEW s \in Seq(S), NEW t \in Seq(S), \A x : Contains(t, x) => Contains(s, x)
  PROVE  Once(s \o t) = Once(s)
<1> DEFINE Good == {u \in Seq(S) :
                      (\A x : Contains(u, x) => Contains(s, x)) => Once(s \o u) = Once(s)}
<1>1. << >> \in Good
  <2>1. s \o << >> = s
    BY ConcatEmptySeq
  <2> QED
    BY <2>1
<1>2. ASSUME NEW u \in Seq(S), NEW e \in S, u \in Good
      PROVE  Append(u, e) \in Good
  <2>1. PICK t1 \in Seq(S) : t1 = Append(u, e)
    BY AppendProperties, Zenon
  <2>2. PICK v \in Seq(S) : v = s \o u
    BY ConcatProperties, Zenon
  <2>3. s \o t1 = Append(v, e)
    BY <2>1, <2>2
  <2>4. \A x : Contains(t1, x) <=> Contains(u, x) \/ x = e
    BY <2>1, AppendEntries
  <2>5. ASSUME \A x : Contains(t1, x) => Contains(s, x)
        PROVE  Once(s \o t1) = Once(s)
    <3>1. Contains(s, e) /\ \A x : Contains(u, x) => Contains(s, x)
      BY <2>4, <2>5
    <3>2. Once(v) = Once(s)
      BY <1>2, <2>2, <3>1
    <3>3. Contains(Once(s), e)
      BY <3>1, OnceEntries
    <3>4. Once(Append(v, e)) = AddNew(Once(s), e)
      BY <3>2, OnceAppend
    <3>5. AddNew(Once(s), e) = Once(s)
      BY <3>3 DEF AddNew
    <3> QED
      BY <2>3, <3>4, <3>5, Zenon
  <2> QED
    BY <2>1, <2>5
<1>3. Seq(S) \subseteq Good
  <2> HIDE DEF Good
  <2> QED
    BY <1>1, <1>2, InductionOnSequences
<1> QED
  BY <1>3

----
(***************************************************************************)
(* Division.                                                                *)
(***************************************************************************)
LEMMA SmallRemainder ==
  ASSUME NEW N \in Nat \ {0}, NEW k \in 0..(N - 1)
  PROVE  k % N = k /\ k \div N = 0
OBVIOUS

LEMMA NoRemainder == ASSUME NEW N \in Nat \ {0} PROVE N % N = 0
OBVIOUS

LEMMA RemainderRange ==
  ASSUME NEW N \in Nat \ {0}, NEW k \in Nat
  PROVE  k % N \in 0..(N - 1) /\ k \div N \in Nat
OBVIOUS

\* Twice around the ids 1..N, the last one first of all.
LEMMA TwiceAround ==
  ASSUME NEW N \in Nat
  PROVE  \E s \in Seq(1..N) : /\ s = [i \in 1..(2 * N) |-> (i % N) + 1]
                              /\ \A id \in 1..N : Contains(s, id)
<1> DEFINE s == [i \in 1..(2 * N) |-> (i % N) + 1]
<1>1. \A i \in 1..(2 * N) : (i % N) + 1 \in 1..N
  <2>1. ASSUME NEW i \in 1..(2 * N)
        PROVE  (i % N) + 1 \in 1..N
    <3>1. N \in Nat \ {0} /\ i \in Nat
      BY <2>1
    <3>2. i % N \in 0..(N - 1)
      BY <3>1, RemainderRange
    <3> QED
      BY <3>2
  <2> QED
    BY <2>1
<1>2. s \in [1..(2 * N) -> 1..N] /\ 2 * N \in Nat
  BY <1>1
<1>3. \A i \in 1..(2 * N) : s[i] = (i % N) + 1
  OBVIOUS
<1> HIDE DEF s
<1>4. s \in Seq(1..N) /\ Len(s) = 2 * N
  BY <1>2, FunctionIsList
<1>5. ASSUME NEW id \in 1..N
      PROVE  \E i \in 1..(2 * N) : s[i] = id
  <2>1. N \in Nat \ {0} /\ id - 1 \in 0..(N - 1) /\ N \in 1..(2 * N)
    OBVIOUS
  <2>2. (id - 1) % N = id - 1 /\ N % N = 0
    BY <2>1, SmallRemainder, NoRemainder
  <2>3. CASE id = 1
    <3>1. s[N] = id
      BY <1>3, <2>1, <2>2, <2>3
    <3> QED
      BY <2>1, <3>1
  <2>4. CASE id # 1
    <3>1. id - 1 \in 1..(2 * N)
      BY <2>4
    <3>2. s[id - 1] = id
      BY <1>3, <2>2, <3>1
    <3> QED
      BY <3>1, <3>2
  <2> QED
    BY <2>3, <2>4
<1>6. \A id \in 1..N : Contains(s, id)
  BY <1>4, <1>5 DEF Contains
<1> QED
  BY <1>4, <1>6 DEF s

----
(***************************************************************************)
(* Lists joined to one.                                                     *)
(***************************************************************************)
Join(v, w) == v \o w
Joins(f, ss, n) == f[1] = ss[1] /\ \A i \in 2..n : f[i] = Join(f[i - 1], ss[i])

JoinsFrom(g, c, ss, n) == g[0] = c /\ \A i \in 1..n : g[i] = Join(g[i - 1], ss[i])

LEMMA JoinIteration ==
  ASSUME NEW n \in Nat, NEW V, NEW c \in V, NEW ss, \A v \in V, i \in 1..n : Join(v, ss[i]) \in V
  PROVE  \E g \in [0..n -> V] : JoinsFrom(g, c, ss, n)
<1> DEFINE G == [i \in 1..n |-> [v \in V |-> Join(v, ss[i])]]
<1>1. G \in [1..n -> [V -> V]]
  OBVIOUS
<1>2. \A i \in 1..n, v \in V : G[i][v] = Join(v, ss[i])
  OBVIOUS
<1> HIDE DEF G
<1>3. PICK f \in [0..n -> V] : Iterates(f, n, c, G)
  BY <1>1, IterationExists
<1>4. f[0] = c /\ \A i \in 1..n : f[i] = Join(f[i - 1], ss[i])
  BY <1>2, <1>3 DEF Iterates
<1> QED
  BY <1>4 DEF JoinsFrom

LEMMA FlattenIteration ==
  ASSUME NEW S, NEW n \in Nat, n # 0, NEW ss \in [1..n -> Seq(S)]
  PROVE  \E f \in [1..n -> Seq(S)] : Joins(f, ss, n) /\ FlattenSeq(ss) = f[n]
<1>1. PICK V : V = Seq(S)
  OBVIOUS
<1>2. PICK empty : empty = << >>
  OBVIOUS
<1>3. empty \in V
  BY <1>1, <1>2
<1>4. \A v \in V, i \in 1..n : Join(v, ss[i]) \in V
  BY <1>1 DEF Join
<1>5. 1 \in 1..n /\ ss[1] \in V
  BY <1>1
<1>6. Join(empty, ss[1]) = ss[1]
  BY <1>1, <1>2, <1>5, ConcatEmptySeq DEF Join
<1> DEFINE Step(f) == [i \in 1..n |-> IF i = 1 THEN ss[i] ELSE Join(f[i - 1], ss[i])]
<1>7. PICK g \in [0..n -> V] : g[0] = empty /\ \A i \in 1..n : g[i] = Join(g[i - 1], ss[i])
  <2>1. PICK g \in [0..n -> V] : JoinsFrom(g, empty, ss, n)
    BY <1>3, <1>4, JoinIteration
  <2>2. g[0] = empty /\ \A i \in 1..n : g[i] = Join(g[i - 1], ss[i])
    BY <2>1, Zenon DEF JoinsFrom
  <2> QED
    BY <2>2
<1>8. \E f : f = Step(f)
  <2> DEFINE h == [i \in 1..n |-> g[i]]
  <2>1. g[1] = ss[1]
    <3>1. g[1] = Join(g[1 - 1], ss[1]) /\ 1 - 1 = 0
      BY <1>5, <1>7
    <3> QED
      BY <1>6, <1>7, <3>1
  <2>2. \A i \in 1..n : i # 1 => i - 1 \in 1..n
    OBVIOUS
  <2>3. \A i \in 1..n : h[i] = g[i]
    OBVIOUS
  <2>4. \A i \in 1..n : h[i] = IF i = 1 THEN ss[i] ELSE Join(h[i - 1], ss[i])
    BY <1>7, <2>1, <2>2, <2>3
  <2>5. h = Step(h)
    BY <2>4
  <2> QED
    BY <2>5
<1>9. Len(ss) = n
  <2>1. ss \in [1..n -> V]
    BY <1>1
  <2> QED
    BY <2>1, FunctionIsList
<1>10. PICK f : f = Step(f) /\ FlattenSeq(ss) = f[n]
  <2> DEFINE flatten == CHOOSE f : f = Step(f)
  <2>1. flatten = Step(flatten)
    <3> HIDE DEF Step
    <3> QED
      BY <1>8, Zenon
  <2>2. FlattenSeq(ss) = flatten[n]
    BY <1>9, Zenon DEF FlattenSeq, Join
  <2> HIDE DEF flatten
  <2> QED
    BY <2>1, <2>2, Zenon
<1>11. \A i \in 1..n : f[i] = IF i = 1 THEN ss[i] ELSE Join(f[i - 1], ss[i])
  BY <1>10
<1>12. f[1] = ss[1] /\ \A i \in 2..n : f[i] = Join(f[i - 1], ss[i])
  <2>1. \A i \in 2..n : i \in 1..n /\ i # 1
    OBVIOUS
  <2> QED
    BY <1>5, <1>11, <2>1
<1>13. \A i \in 1..n : f[i] \in V
  <2> DEFINE Good == {i \in Nat : i \in 1..n => f[i] \in V}
  <2>1. 0 \in Good
    OBVIOUS
  <2>2. ASSUME NEW i \in Nat, i \in Good
        PROVE  i + 1 \in Good
    <3>1. SUFFICES ASSUME i + 1 \in 1..n PROVE f[i + 1] \in V
      OBVIOUS
    <3>2. CASE i = 0
      BY <1>5, <1>12, <3>2
    <3>3. CASE i # 0
      <4>1. i + 1 \in 2..n /\ i \in 1..n /\ i + 1 - 1 = i
        BY <3>1, <3>3
      <4>2. f[i + 1] = Join(f[i + 1 - 1], ss[i + 1])
        BY <1>12, <4>1
      <4>3. f[i] \in V
        BY <2>2, <4>1
      <4> QED
        BY <1>4, <3>1, <4>1, <4>2, <4>3
    <3> QED
      BY <3>2, <3>3
  <2>3. \A i \in Nat : i \in Good
    <3> HIDE DEF Good
    <3> QED
      BY <2>1, <2>2, InductionOnSet
  <2> QED
    BY <2>3
<1>14. f \in [1..n -> V]
  <2>1. f = [i \in 1..n |-> f[i]]
    BY <1>10
  <2> QED
    BY <1>13, <2>1
<1> QED
  BY <1>1, <1>10, <1>12, <1>14, Zenon DEF Joins

\* An entry of one list only is joined as often as it is listed there.
OnlyIn(ss, n, k, x) == \A j \in 1..n : j # k => Occurrences(ss[j], x) = 0

LEMMA FlattenOccurrences ==
  ASSUME NEW S, NEW n \in Nat, NEW ss \in [1..n -> Seq(S)], NEW k \in 1..n, NEW x,
         OnlyIn(ss, n, k, x)
  PROVE  /\ FlattenSeq(ss) \in Seq(S)
         /\ Occurrences(FlattenSeq(ss), x) = Occurrences(ss[k], x)
<1>1. n # 0
  OBVIOUS
<1>2. PICK f \in [1..n -> Seq(S)] : Joins(f, ss, n) /\ FlattenSeq(ss) = f[n]
  BY <1>1, FlattenIteration
<1>3. f[1] = ss[1] /\ \A i \in 2..n : f[i] = Join(f[i - 1], ss[i])
  BY <1>2, Zenon DEF Joins
<1>4. PICK m \in Nat : m = Occurrences(ss[k], x)
  BY OccurrencesIn
<1>5. \A i \in 1..n : Occurrences(f[i], x) \in Nat /\ Occurrences(ss[i], x) \in Nat
  <2>1. \A i \in 1..n : f[i] \in Seq(S) /\ ss[i] \in Seq(S)
    OBVIOUS
  <2> QED
    BY <2>1, OccurrencesIn
<1>6. \A i \in 2..n : Occurrences(f[i], x) = Occurrences(f[i - 1], x) + Occurrences(ss[i], x)
  <2>1. SUFFICES ASSUME NEW i \in 2..n
                 PROVE  Occurrences(f[i], x) = Occurrences(f[i - 1], x) + Occurrences(ss[i], x)
    OBVIOUS
  <2>2. f[i - 1] \in Seq(S) /\ ss[i] \in Seq(S)
    <3>1. i - 1 \in 1..n /\ i \in 1..n
      OBVIOUS
    <3> QED
      BY <3>1
  <2>3. f[i] = f[i - 1] \o ss[i]
    BY <1>3 DEF Join
  <2> QED
    BY <2>2, <2>3, OccurrencesConcat
<1>7. \A i \in 1..n : Occurrences(f[i], x) = IF i < k THEN 0 ELSE m
  <2> DEFINE Good == {i \in Nat : i \in 1..n =>
                        Occurrences(f[i], x) = IF i < k THEN 0 ELSE m}
  <2>1. 0 \in Good
    OBVIOUS
  <2>2. ASSUME NEW i \in Nat, i \in Good
        PROVE  i + 1 \in Good
    <3>1. SUFFICES ASSUME i + 1 \in 1..n
                   PROVE  Occurrences(f[i + 1], x) = IF i + 1 < k THEN 0 ELSE m
      OBVIOUS
    <3>2. Occurrences(ss[i + 1], x) = IF i + 1 = k THEN m ELSE 0
      BY <1>4, <3>1 DEF OnlyIn
    <3>3. CASE i = 0
      BY <1>3, <3>2, <3>3
    <3>4. CASE i # 0
      <4>1. i + 1 \in 2..n /\ i \in 1..n /\ i + 1 - 1 = i
        BY <3>1, <3>4
      <4>2. Occurrences(f[i + 1], x) = Occurrences(f[i], x) + Occurrences(ss[i + 1], x)
        <5>1. Occurrences(f[i + 1], x)
                = Occurrences(f[i + 1 - 1], x) + Occurrences(ss[i + 1], x)
          BY <1>6, <4>1
        <5> QED
          BY <4>1, <5>1
      <4>3. Occurrences(f[i], x) = IF i < k THEN 0 ELSE m
        BY <2>2, <4>1
      <4> QED
        BY <3>2, <4>2, <4>3
    <3> QED
      BY <3>3, <3>4
  <2>3. \A i \in Nat : i \in Good
    <3> HIDE DEF Good
    <3> QED
      BY <2>1, <2>2, InductionOnSet
  <2> QED
    BY <2>3
<1>8. n \in 1..n /\ ~(n < k)
  OBVIOUS
<1>9. f[n] \in Seq(S) /\ Occurrences(f[n], x) = m
  BY <1>7, <1>8
<1> QED
  BY <1>2, <1>4, <1>9

LEMMA FlattenEntries ==
  ASSUME NEW S, NEW n \in Nat, n # 0, NEW ss \in [1..n -> Seq(S)]
  PROVE  /\ FlattenSeq(ss) \in Seq(S)
         /\ \A x : Contains(FlattenSeq(ss), x) <=> \E k \in 1..n : Contains(ss[k], x)
<1>1. PICK f \in [1..n -> Seq(S)] : Joins(f, ss, n) /\ FlattenSeq(ss) = f[n]
  BY FlattenIteration
<1>2. f[1] = ss[1] /\ \A i \in 2..n : f[i] = Join(f[i - 1], ss[i])
  BY <1>1, Zenon DEF Joins
<1>3. ASSUME NEW x PROVE Contains(f[n], x) <=> \E k \in 1..n : Contains(ss[k], x)
  <2> DEFINE Good == {i \in Nat : i \in 1..n =>
                        (Contains(f[i], x) <=> \E k \in 1..i : Contains(ss[k], x))}
  <2>1. 0 \in Good
    OBVIOUS
  <2>2. ASSUME NEW i \in Nat, i \in Good
        PROVE  i + 1 \in Good
    <3>1. SUFFICES ASSUME i + 1 \in 1..n
                   PROVE  Contains(f[i + 1], x) <=> \E k \in 1..(i + 1) : Contains(ss[k], x)
      OBVIOUS
    <3>2. \A k : k \in 1..(i + 1) <=> k \in 1..i \/ k = i + 1
      OBVIOUS
    <3>3. CASE i = 0
      BY <1>2, <3>2, <3>3
    <3>4. CASE i # 0
      <4>1. i + 1 \in 2..n /\ i \in 1..n /\ i + 1 - 1 = i
        BY <3>1, <3>4
      <4>2. f[i + 1] = f[i] \o ss[i + 1]
        <5>1. f[i + 1] = Join(f[i + 1 - 1], ss[i + 1])
          BY <1>2, <4>1
        <5> QED
          BY <4>1, <5>1 DEF Join
      <4>3. f[i] \in Seq(S) /\ ss[i + 1] \in Seq(S)
        BY <3>1, <4>1
      <4>4. Contains(f[i + 1], x) <=> Contains(f[i], x) \/ Contains(ss[i + 1], x)
        BY <4>2, <4>3, ConcatEntries
      <4>5. Contains(f[i], x) <=> \E k \in 1..i : Contains(ss[k], x)
        BY <2>2, <4>1
      <4> QED
        BY <3>2, <4>4, <4>5
    <3> QED
      BY <3>3, <3>4
  <2>3. \A i \in Nat : i \in Good
    <3> HIDE DEF Good
    <3> QED
      BY <2>1, <2>2, InductionOnSet
  <2>4. n \in 1..n
    OBVIOUS
  <2> QED
    BY <2>3, <2>4
<1>4. f[n] \in Seq(S)
  OBVIOUS
<1> QED
  BY <1>1, <1>3, <1>4

----
(***************************************************************************)
(* Sums over finite sets.                                                   *)
(***************************************************************************)
\* The recursion behind SumFunctionOnSet: g holds the sum over each subset.
Chosen(U) == CHOOSE x \in U : TRUE

Sums(g, f, S) ==
  \A U \in SUBSET S : g[U] = IF U = {} THEN 0 ELSE f[Chosen(U)] + g[U \ {Chosen(U)}]

LEMMA SumIteration ==
  ASSUME NEW S, IsFiniteSet(S), NEW f, \A x \in S : f[x] \in Nat
  PROVE  \E g \in [SUBSET S -> Nat] : Sums(g, f, S) /\ SumFunctionOnSet(f, S) = g[S]
<1>1. PICK c : c = [U \in SUBSET S |-> Chosen(U)]
  OBVIOUS
<1>2. \A U \in SUBSET S : U # {} => c[U] \in U
  BY <1>1 DEF Chosen
<1>3. PICK k \in Nat : k = Cardinality(S) /\ \A U \in SUBSET S : Cardinality(U) \in 0..k
  <2>1. \A U \in SUBSET S : IsFiniteSet(U) /\ Cardinality(U) <= Cardinality(S)
    BY FS_Subset
  <2>2. \A U \in SUBSET S : Cardinality(U) \in Nat
    BY <2>1, FS_CardinalityType
  <2>3. Cardinality(S) \in Nat
    BY FS_CardinalityType
  <2>4. QED
    BY <2>1, <2>2, <2>3
<1>4. \A U \in SUBSET S : \A x \in U : Cardinality(U \ {x}) = Cardinality(U) - 1
  <2>1. \A U \in SUBSET S : IsFiniteSet(U)
    BY FS_Subset
  <2>2. QED
    BY <2>1, FS_RemoveElement
<1> DEFINE Rec(g, U) == IF U = {} THEN 0 ELSE f[c[U]] + g[U \ {c[U]}]
           Level(n) == {U \in SUBSET S : Cardinality(U) <= n}
           Good == {n \in Nat : \E g \in [Level(n) -> Nat] : \A U \in Level(n) : g[U] = Rec(g, U)}
<1>5. 0 \in Good
  <2> DEFINE g == [U \in Level(0) |-> 0]
  <2>1. \A U \in Level(0) : U = {}
    <3>1. \A U \in SUBSET S : Cardinality(U) = 0 => U = {}
      BY FS_Subset, FS_EmptySet
    <3>2. QED
      BY <1>3, <3>1
  <2>2. g \in [Level(0) -> Nat] /\ \A U \in Level(0) : g[U] = Rec(g, U)
    BY <2>1
  <2>3. QED
    BY <2>2
<1>6. ASSUME NEW n \in Nat, n \in Good
      PROVE  n + 1 \in Good
  <2>1. PICK g \in [Level(n) -> Nat] : \A U \in Level(n) : g[U] = Rec(g, U)
    BY <1>6
  <2> DEFINE h == [U \in Level(n + 1) |-> IF U \in Level(n) THEN g[U] ELSE Rec(g, U)]
  <2>2. ASSUME NEW U \in Level(n + 1), U # {}
        PROVE  c[U] \in S /\ U \ {c[U]} \in Level(n) /\ U \ {c[U]} \in Level(n + 1)
    <3>1. c[U] \in U
      BY <1>2, <2>2
    <3>2. U \ {c[U]} \in SUBSET S /\ Cardinality(U \ {c[U]}) = Cardinality(U) - 1
      BY <1>4, <3>1
    <3>3. QED
      BY <1>3, <3>1, <3>2
  <2>3. ASSUME NEW U \in Level(n + 1)
        PROVE  h[U] \in Nat
    BY <2>1, <2>2
  <2>4. ASSUME NEW U \in Level(n + 1)
        PROVE  h[U] = Rec(h, U)
    <3>1. h[U] = Rec(g, U)
      BY <2>1
    <3>2. U # {} => h[U \ {c[U]}] = g[U \ {c[U]}]
      BY <2>2
    <3>3. QED
      BY <3>1, <3>2
  <2>5. h \in [Level(n + 1) -> Nat]
    BY <2>3
  <2>6. QED
    <3>1. \E G \in [Level(n + 1) -> Nat] : \A U \in Level(n + 1) : G[U] = Rec(G, U)
      <4> HIDE DEF h, Rec, Level
      <4>1. QED
        BY <2>4, <2>5
    <3>2. n + 1 \in Nat
      OBVIOUS
    <3>3. QED
      <4> HIDE DEF h, Rec, Level
      <4>1. QED
        BY <3>1, <3>2
<1>7. k \in Good
  <2> HIDE DEF Good
  <2>1. QED
    BY <1>5, <1>6, InductionOnSet
<1>8. Level(k) = SUBSET S
  BY <1>3
<1> DEFINE Step(g) == [U \in SUBSET S |-> IF U = {} THEN 0 ELSE f[Chosen(U)] + g[U \ {Chosen(U)}]]
<1>9. \E g \in [SUBSET S -> Nat] : g = Step(g)
  <2>1. PICK g \in [SUBSET S -> Nat] : \A U \in SUBSET S : g[U] = Rec(g, U)
    BY <1>7, <1>8
  <2>2. \A U \in SUBSET S : Rec(g, U) = Step(g)[U]
    BY <1>1
  <2>3. g = Step(g)
    BY <2>1, <2>2
  <2>4. QED
    BY <2>3
<1>10. PICK g : g = Step(g) /\ SumFunctionOnSet(f, S) = g[S]
  <2> DEFINE iter == CHOOSE g : g = Step(g)
  <2>1. iter = Step(iter)
    <3> HIDE DEF Step
    <3>1. QED
      BY <1>9, Zenon
  <2>2. SumFunctionOnSet(f, S) = iter[S]
    BY Zenon DEF SumFunctionOnSet, FoldFunctionOnSet, MapThenFoldSet, Chosen
  <2> HIDE DEF iter
  <2>3. QED
    BY <2>1, <2>2, Zenon
<1>11. Sums(g, f, S)
  <2>1. ASSUME NEW U \in SUBSET S
        PROVE  g[U] = IF U = {} THEN 0 ELSE f[Chosen(U)] + g[U \ {Chosen(U)}]
    <3>1. g = Step(g)
      BY <1>10
    <3>2. g[U] = Step(g)[U]
      BY <3>1, Zenon
    <3>3. QED
      BY <3>2, Zenon
  <2>2. QED
    BY <2>1 DEF Sums
<1>12. \A U \in SUBSET S : g[U] \in Nat
  <2> DEFINE Typed == {U \in SUBSET S : g[U] \in Nat}
  <2>1. ASSUME NEW U \in SUBSET S, \A x \in U : U \ {x} \in Typed
        PROVE  U \in Typed
    <3>1. CASE U = {}
      <4>1. g[U] = 0
        BY <1>11, <3>1, Zenon DEF Sums
      <4>2. QED
        BY <4>1
    <3>2. CASE U # {}
      <4>1. PICK x : x = Chosen(U)
        OBVIOUS
      <4>2. x \in U
        BY <1>1, <1>2, <3>2, <4>1
      <4>3. g[U] = f[x] + g[U \ {x}]
        BY <1>11, <3>2, <4>1 DEF Sums
      <4>4. g[U \ {x}] \in Nat /\ f[x] \in Nat
        BY <2>1, <4>2
      <4>5. QED
        BY <4>3, <4>4
    <3>3. QED
      BY <3>1, <3>2
  <2>2. QED
    <3> HIDE DEF Typed
    <3>1. \A U \in SUBSET S : U \in Typed
      BY <2>1, InductionOnSubsets
    <3>2. QED
      BY <3>1 DEF Typed
<1>13. g \in [SUBSET S -> Nat]
  <2>1. g = [U \in SUBSET S |-> g[U]]
    BY <1>10
  <2>2. QED
    BY <1>12, <2>1
<1>14. QED
  BY <1>10, <1>11, <1>13

\* What the recursion holds for a subset does not depend on where it starts.
LEMMA SumsAgree ==
  ASSUME NEW S, IsFiniteSet(S), NEW R, R \in SUBSET S, NEW f, NEW g, NEW h,
         Sums(g, f, S), Sums(h, f, R)
  PROVE  \A U \in SUBSET R : g[U] = h[U]
<1> DEFINE Good == {U \in SUBSET R : g[U] = h[U]}
<1>1. ASSUME NEW U \in SUBSET R, \A x \in U : U \ {x} \in Good
      PROVE  U \in Good
  <2>1. CASE U = {}
    BY <2>1 DEF Sums
  <2>2. CASE U # {}
    <3>1. PICK x : x = Chosen(U)
      OBVIOUS
    <3>2. x \in U
      BY <2>2, <3>1 DEF Chosen
    <3>3. g[U] = f[x] + g[U \ {x}] /\ h[U] = f[x] + h[U \ {x}]
      BY <2>2, <3>1 DEF Sums
    <3>4. QED
      BY <1>1, <3>2, <3>3
  <2>3. QED
    BY <2>1, <2>2
<1>2. IsFiniteSet(R)
  BY FS_Subset
<1>3. \A U \in SUBSET R : U \in Good
  <2> HIDE DEF Good
  <2>1. QED
    BY <1>1, <1>2, InductionOnSubsets
<1>4. QED
  BY <1>3

LEMMA SumType ==
  ASSUME NEW S, IsFiniteSet(S), NEW f, \A x \in S : f[x] \in Nat
  PROVE  SumFunctionOnSet(f, S) \in Nat
<1>1. PICK g \in [SUBSET S -> Nat] : SumFunctionOnSet(f, S) = g[S]
  BY SumIteration
<1>2. QED
  BY <1>1

LEMMA SumEmpty ==
  ASSUME NEW f
  PROVE  SumFunctionOnSet(f, {}) = 0
<1>1. IsFiniteSet({})
  BY FS_EmptySet
<1>2. PICK g : Sums(g, f, {}) /\ SumFunctionOnSet(f, {}) = g[{}]
  <2>1. \A x \in {} : f[x] \in Nat
    OBVIOUS
  <2>2. QED
    BY <1>1, <2>1, SumIteration
<1>3. QED
  BY <1>2 DEF Sums

\* The order of the summands does not matter: any element may come first.
LEMMA SumRemove ==
  ASSUME NEW S, IsFiniteSet(S), NEW f, \A x \in S : f[x] \in Nat, NEW x \in S
  PROVE  SumFunctionOnSet(f, S) = f[x] + SumFunctionOnSet(f, S \ {x})
<1>1. PICK g \in [SUBSET S -> Nat] : Sums(g, f, S) /\ SumFunctionOnSet(f, S) = g[S]
  BY SumIteration
<1> DEFINE Good == {U \in SUBSET S : \A y \in U : g[U] = f[y] + g[U \ {y}]}
<1>2. ASSUME NEW U \in SUBSET S, \A y \in U : U \ {y} \in Good
      PROVE  U \in Good
  <2>1. SUFFICES ASSUME NEW y \in U PROVE g[U] = f[y] + g[U \ {y}]
    OBVIOUS
  <2>2. PICK c : c = Chosen(U)
    OBVIOUS
  <2>3. c \in U
    BY <2>1, <2>2 DEF Chosen
  <2>4. g[U] = f[c] + g[U \ {c}]
    BY <1>1, <2>1, <2>2 DEF Sums
  <2>5. CASE y = c
    BY <2>4, <2>5
  <2>6. CASE y # c
    <3>1. g[U \ {c}] = f[y] + g[(U \ {c}) \ {y}]
      BY <1>2, <2>1, <2>3, <2>6
    <3>2. g[U \ {y}] = f[c] + g[(U \ {y}) \ {c}]
      BY <1>2, <2>1, <2>3, <2>6
    <3>3. (U \ {c}) \ {y} = (U \ {y}) \ {c}
      OBVIOUS
    <3>4. /\ f[c] \in Nat /\ f[y] \in Nat
          /\ g[(U \ {y}) \ {c}] \in Nat
      BY <1>1, <2>1, <2>3
    <3>5. QED
      <4>1. g[U] = f[c] + (f[y] + g[(U \ {y}) \ {c}])
        BY <2>4, <3>1, <3>3, Zenon
      <4>2. QED
        BY <3>2, <3>4, <4>1
  <2>7. QED
    BY <2>5, <2>6
<1>3. S \in Good
  <2> HIDE DEF Good
  <2>1. \A U \in SUBSET S : U \in Good
    BY <1>2, InductionOnSubsets
  <2>2. QED
    BY <2>1
<1>4. g[S] = f[x] + g[S \ {x}]
  BY <1>3
<1>5. SumFunctionOnSet(f, S \ {x}) = g[S \ {x}]
  <2>1. IsFiniteSet(S \ {x}) /\ S \ {x} \in SUBSET S /\ \A y \in S \ {x} : f[y] \in Nat
    BY FS_RemoveElement
  <2>2. PICK h : Sums(h, f, S \ {x}) /\ SumFunctionOnSet(f, S \ {x}) = h[S \ {x}]
    BY <2>1, SumIteration
  <2>3. \A U \in SUBSET (S \ {x}) : g[U] = h[U]
    BY <1>1, <2>1, <2>2, SumsAgree
  <2>4. QED
    BY <2>2, <2>3
<1>6. QED
  BY <1>1, <1>4, <1>5

\* Two functions with the same values on a set have the same sum over it.
LEMMA SumSame ==
  ASSUME NEW S, IsFiniteSet(S), NEW f, NEW g,
         \A x \in S : f[x] \in Nat, \A x \in S : g[x] = f[x]
  PROVE  SumFunctionOnSet(g, S) = SumFunctionOnSet(f, S)
<1>1. PICK h : Sums(h, f, S) /\ SumFunctionOnSet(f, S) = h[S]
  BY SumIteration
<1>2. PICK k : Sums(k, g, S) /\ SumFunctionOnSet(g, S) = k[S]
  <2>1. \A x \in S : g[x] \in Nat
    OBVIOUS
  <2>2. QED
    BY <2>1, SumIteration
<1>3. Sums(k, f, S)
  <2>1. ASSUME NEW U \in SUBSET S
        PROVE  k[U] = IF U = {} THEN 0 ELSE f[Chosen(U)] + k[U \ {Chosen(U)}]
    <3>1. CASE U = {}
      BY <1>2, <3>1 DEF Sums
    <3>2. CASE U # {}
      <4>1. Chosen(U) \in U
        BY <3>2 DEF Chosen
      <4>2. k[U] = g[Chosen(U)] + k[U \ {Chosen(U)}]
        BY <1>2, <3>2 DEF Sums
      <4>3. QED
        BY <3>2, <4>1, <4>2
    <3>3. QED
      BY <3>1, <3>2
  <2>2. QED
    BY <2>1 DEF Sums
<1>4. k[S] = h[S]
  <2>1. S \in SUBSET S
    OBVIOUS
  <2>2. QED
    BY <1>1, <1>3, <2>1, SumsAgree
<1>5. QED
  BY <1>1, <1>2, <1>4

\* A sum over a set is the sum over a part and over the rest.
LEMMA SumSplit ==
  ASSUME NEW S, IsFiniteSet(S), NEW f, \A x \in S : f[x] \in Nat, NEW K \in SUBSET S
  PROVE  SumFunctionOnSet(f, S) = SumFunctionOnSet(f, K) + SumFunctionOnSet(f, S \ K)
<1> DEFINE Good == {U \in SUBSET K : SumFunctionOnSet(f, (S \ K) \cup U)
                                       = SumFunctionOnSet(f, U) + SumFunctionOnSet(f, S \ K)}
<1>1. IsFiniteSet(K) /\ IsFiniteSet(S \ K)
  BY FS_Subset
<1>2. ASSUME NEW U \in SUBSET K, \A x \in U : U \ {x} \in Good
      PROVE  U \in Good
  <2>1. CASE U = {}
    <3>1. SumFunctionOnSet(f, U) = 0
      BY <2>1, SumEmpty
    <3>2. SumFunctionOnSet(f, S \ K) \in Nat
      BY <1>1, SumType
    <3>3. (S \ K) \cup U = S \ K
      BY <2>1
    <3>4. SumFunctionOnSet(f, (S \ K) \cup U) = SumFunctionOnSet(f, S \ K)
      BY <3>3, Zenon
    <3>5. QED
      BY <3>1, <3>2, <3>4
  <2>2. CASE U # {}
    <3>1. PICK x \in U : TRUE
      BY <2>2
    <3>2. PICK V : V = (S \ K) \cup U
      OBVIOUS
    <3>3. V \in SUBSET S /\ x \in V /\ V \ {x} = (S \ K) \cup (U \ {x})
      BY <3>1, <3>2
    <3>4. IsFiniteSet(V) /\ IsFiniteSet(U)
      BY <1>1, <3>3, FS_Subset
    <3>5. SumFunctionOnSet(f, V) = f[x] + SumFunctionOnSet(f, V \ {x})
      BY <3>3, <3>4, SumRemove
    <3>6. SumFunctionOnSet(f, U) = f[x] + SumFunctionOnSet(f, U \ {x})
      BY <3>1, <3>4, SumRemove
    <3>7. SumFunctionOnSet(f, V \ {x})
            = SumFunctionOnSet(f, U \ {x}) + SumFunctionOnSet(f, S \ K)
      BY <1>2, <3>1, <3>3
    <3>8. /\ f[x] \in Nat
          /\ SumFunctionOnSet(f, U \ {x}) \in Nat
          /\ SumFunctionOnSet(f, S \ K) \in Nat
      <4>1. IsFiniteSet(U \ {x})
        BY <3>4, FS_RemoveElement
      <4>2. QED
        BY <1>1, <3>1, <4>1, SumType
    <3>9. QED
      BY <3>2, <3>5, <3>6, <3>7, <3>8
  <2>3. QED
    BY <2>1, <2>2
<1>3. \A U \in SUBSET K : U \in Good
  <2> HIDE DEF Good
  <2>1. QED
    BY <1>1, <1>2, InductionOnSubsets
<1>4. (S \ K) \cup K = S
  OBVIOUS
<1>5. QED
  BY <1>3, <1>4

LEMMA SumZero ==
  ASSUME NEW S, IsFiniteSet(S), NEW f, \A x \in S : f[x] = 0
  PROVE  SumFunctionOnSet(f, S) = 0
<1> DEFINE Good == {U \in SUBSET S : SumFunctionOnSet(f, U) = 0}
<1>1. ASSUME NEW U \in SUBSET S, \A x \in U : U \ {x} \in Good
      PROVE  U \in Good
  <2>1. CASE U = {}
    BY <2>1, SumEmpty
  <2>2. CASE U # {}
    <3>1. PICK x \in U : TRUE
      BY <2>2
    <3>2. IsFiniteSet(U) /\ \A y \in U : f[y] \in Nat
      BY FS_Subset
    <3>3. SumFunctionOnSet(f, U) = f[x] + SumFunctionOnSet(f, U \ {x})
      BY <3>1, <3>2, SumRemove
    <3>4. QED
      BY <1>1, <3>1, <3>3
  <2>3. QED
    BY <2>1, <2>2
<1>2. \A U \in SUBSET S : U \in Good
  <2> HIDE DEF Good
  <2>1. QED
    BY <1>1, InductionOnSubsets
<1>3. QED
  BY <1>2

\* The sum after the values at K are dropped.
LEMMA SumCleared ==
  ASSUME NEW S, IsFiniteSet(S), NEW f, \A x \in S : f[x] \in Nat, NEW K \in SUBSET S,
         NEW g, \A x \in S : g[x] = IF x \in K THEN 0 ELSE f[x]
  PROVE  SumFunctionOnSet(f, S) = SumFunctionOnSet(f, K) + SumFunctionOnSet(g, S)
<1>1. IsFiniteSet(K) /\ IsFiniteSet(S \ K)
  BY FS_Subset
<1>2. SumFunctionOnSet(g, S) = SumFunctionOnSet(g, K) + SumFunctionOnSet(g, S \ K)
  BY SumSplit
<1>3. SumFunctionOnSet(g, K) = 0
  BY <1>1, SumZero
<1>4. SumFunctionOnSet(g, S \ K) = SumFunctionOnSet(f, S \ K)
  BY <1>1, SumSame
<1>5. SumFunctionOnSet(f, S) = SumFunctionOnSet(f, K) + SumFunctionOnSet(f, S \ K)
  BY SumSplit
<1>6. SumFunctionOnSet(f, S \ K) \in Nat
  BY <1>1, SumType
<1>7. QED
  BY <1>2, <1>3, <1>4, <1>5, <1>6

\* The sum after one value has changed.
LEMMA SumReplaced ==
  ASSUME NEW S, IsFiniteSet(S), NEW f, \A x \in S : f[x] \in Nat, NEW x \in S,
         NEW g, g[x] \in Nat, \A y \in S \ {x} : g[y] = f[y]
  PROVE  SumFunctionOnSet(g, S) + f[x] = SumFunctionOnSet(f, S) + g[x]
<1>1. IsFiniteSet(S \ {x})
  BY FS_RemoveElement
<1>2. SumFunctionOnSet(f, S) = f[x] + SumFunctionOnSet(f, S \ {x})
  BY SumRemove
<1>3. SumFunctionOnSet(g, S) = g[x] + SumFunctionOnSet(g, S \ {x})
  <2>1. \A y \in S : g[y] \in Nat
    OBVIOUS
  <2>2. QED
    BY <2>1, SumRemove
<1>4. SumFunctionOnSet(g, S \ {x}) = SumFunctionOnSet(f, S \ {x})
  BY <1>1, SumSame
<1>5. SumFunctionOnSet(f, S \ {x}) \in Nat
  BY <1>1, SumType
<1>6. QED
  BY <1>2, <1>3, <1>4, <1>5
\* Lists without repetition, no two of which share an entry.
Disjoint(ss, n, S) ==
  /\ \A k \in 1..n : Distinct(ss[k])
  /\ \A k, j \in 1..n, x \in S : Contains(ss[k], x) /\ Contains(ss[j], x) => k = j

\* Lists without repetitions and without an entry in common join to one
\* without repetitions.
LEMMA FlattenDistinct ==
  ASSUME NEW S, NEW n \in Nat, n # 0, NEW ss \in [1..n -> Seq(S)], Disjoint(ss, n, S)
  PROVE  FlattenSeq(ss) \in Seq(S) /\ Distinct(FlattenSeq(ss))
<1>1. /\ FlattenSeq(ss) \in Seq(S)
      /\ \A x : Contains(FlattenSeq(ss), x) <=> \E k \in 1..n : Contains(ss[k], x)
  BY FlattenEntries
<1>2. ASSUME NEW x \in S
      PROVE  Occurrences(FlattenSeq(ss), x) <= 1
  <2>1. CASE \E k \in 1..n : Contains(ss[k], x)
    <3>1. PICK k \in 1..n : Contains(ss[k], x)
      BY <2>1
    <3>2. ASSUME NEW j \in 1..n, j # k
          PROVE  Occurrences(ss[j], x) = 0
      <4>1. ~Contains(ss[j], x) /\ ss[j] \in Seq(S)
        BY <3>1, <3>2 DEF Disjoint
      <4> QED
        BY <4>1, OccurrencesNone
    <3>3. OnlyIn(ss, n, k, x)
      BY <3>2 DEF OnlyIn
    <3>4. Occurrences(FlattenSeq(ss), x) = Occurrences(ss[k], x)
      BY ZenonT(60), <3>3, FlattenOccurrences
    <3>5. ss[k] \in Seq(S) /\ Distinct(ss[k])
      BY DEF Disjoint
    <3> QED
      BY <3>4, <3>5, OccurrencesDistinct
  <2>2. CASE ~\E k \in 1..n : Contains(ss[k], x)
    <3>1. ~Contains(FlattenSeq(ss), x)
      BY <1>1, <2>2, Zenon
    <3>2. Occurrences(FlattenSeq(ss), x) = 0
      BY <1>1, <3>1, OccurrencesNone
    <3> QED
      BY <3>2
  <2> QED
    BY <2>1, <2>2
<1> QED
  BY <1>1, <1>2, OccurrencesDistinct

----
(***************************************************************************)
(* Lists read page by page.                                                 *)
(***************************************************************************)

\* The entries of s after the a-th, up to the b-th or the last.
PartEnd(s, b) == IF b < Len(s) THEN b ELSE Len(s)
Part(s, a, b) == SubSeq(s, a + 1, PartEnd(s, b))

LEMMA PartEntries ==
  ASSUME NEW S, NEW s \in Seq(S), NEW a \in Nat, NEW b \in Nat, a <= PartEnd(s, b)
  PROVE  /\ Part(s, a, b) \in Seq(S) /\ Len(Part(s, a, b)) = PartEnd(s, b) - a
         /\ \A i \in 1..(PartEnd(s, b) - a) : Part(s, a, b)[i] = s[a + i]
<1>1. PICK d \in Nat : d = PartEnd(s, b) /\ d <= Len(s)
  BY LenProperties DEF PartEnd
<1>2. Part(s, a, b) = SubSeq(s, a + 1, d)
  BY <1>1 DEF Part
<1>3. /\ SubSeq(s, a + 1, d) \in Seq(S) /\ Len(SubSeq(s, a + 1, d)) = d - a
      /\ \A i \in 1..(d - a) : SubSeq(s, a + 1, d)[i] = s[a + i]
  BY <1>1, PageEntries
<1> QED
  BY <1>1, <1>2, <1>3

LEMMA PartEmpty ==
  ASSUME NEW S, NEW s \in Seq(S), NEW a \in Nat, NEW b \in Nat, b <= a \/ Len(s) <= a
  PROVE  Part(s, a, b) = << >>
<1>1. PICK n \in Nat : n = Len(s)
  BY LenProperties
<1>2. PICK m \in Int, d \in Int : m = a + 1 /\ d = (IF b < n THEN b ELSE n)
  OBVIOUS
<1>3. Part(s, a, b) = SubSeq(s, m, d) /\ d < m
  BY <1>1, <1>2 DEF Part, PartEnd
<1> QED
  BY <1>2, <1>3, SubSeqEmpty

LEMMA PartType ==
  ASSUME NEW S, NEW s \in Seq(S), NEW a \in Nat, NEW b \in Nat
  PROVE  Part(s, a, b) \in Seq(S)
<1>1. CASE a <= PartEnd(s, b)
  BY <1>1, PartEntries
<1>2. CASE ~(a <= PartEnd(s, b))
  <2>1. b <= a \/ Len(s) <= a
    BY <1>2, LenProperties DEF PartEnd
  <2> QED
    BY <2>1, PartEmpty, EmptySeq
<1> QED
  BY <1>1, <1>2

LEMMA PartsJoin ==
  ASSUME NEW S, NEW s \in Seq(S), NEW a \in Nat, NEW b \in Nat, NEW c \in Nat, a <= b, b <= c
  PROVE  Part(s, a, b) \o Part(s, b, c) = Part(s, a, c)
<1>1. PICK n \in Nat : n = Len(s)
  BY LenProperties
<1>2. CASE b < n
  <2>1. PICK d \in Nat : d = (IF c < n THEN c ELSE n) /\ d <= n
    OBVIOUS
  <2>2. /\ Part(s, a, b) = SubSeq(s, a + 1, b) /\ Part(s, b, c) = SubSeq(s, b + 1, d)
        /\ Part(s, a, c) = SubSeq(s, a + 1, d)
    BY <1>1, <1>2, <2>1 DEF Part, PartEnd
  <2>3. PICK m \in 1..(n + 1) : m = a + 1 /\ b \in m - 1..n /\ d \in b..n
    BY <1>2, <2>1
  <2>4. SubSeq(s, m, b) \o SubSeq(s, b + 1, d) = SubSeq(s, m, d)
    BY <1>1, <2>3, ConcatAdjacentSubSeq
  <2> QED
    BY <2>2, <2>3, <2>4
<1>3. CASE ~(b < n)
  <2>1. Part(s, a, b) = SubSeq(s, a + 1, n) /\ Part(s, a, c) = SubSeq(s, a + 1, n)
    BY <1>1, <1>3 DEF Part, PartEnd
  <2>2. Part(s, b, c) = << >>
    BY <1>1, <1>3, PartEmpty
  <2>3. Part(s, a, b) \in Seq(S)
    BY PartType
  <2> QED
    BY <2>1, <2>2, <2>3, ConcatEmptySeq, Zenon
<1> QED
  BY <1>2, <1>3

LEMMA PartFull ==
  ASSUME NEW S, NEW s \in Seq(S), NEW b \in Nat, Len(s) <= b
  PROVE  Part(s, 0, b) = s
<1>1. Part(s, 0, b) = SubSeq(s, 1, Len(s))
  BY LenProperties DEF Part, PartEnd
<1> QED
  BY <1>1, SubSeqFull

\* Reading a list by pages of c entries, as many pages as it has entries or
\* more, gives it back.
LEMMA PagesJoin ==
  ASSUME NEW S, NEW s \in Seq(S), NEW c \in Nat \ {0}, NEW n \in Nat, Len(s) <= n,
         NEW pages \in [1..n -> Seq(S)],
         \A i \in 1..n : pages[i] = Part(s, (i - 1) * c, (i - 1) * c + c)
  PROVE  FlattenSeq(pages) = s
<1>1. Len(pages) = n
  <2>1. PICK V : V = Seq(S)
    OBVIOUS
  <2> QED
    BY <2>1, FunctionIsList
<1>4. \A m, k \in Nat : m <= k => Part(s, 0, m) \o Part(s, m, k) = Part(s, 0, k)
  BY PartsJoin
<1>2. CASE n = 0
  <2>1. Len(s) = 0
    BY <1>2, LenProperties
  <2>2. s = << >>
    BY <2>1, EmptySeq
  <2>3. FlattenSeq(pages) = pages
    BY <1>1, <1>2 DEF FlattenSeq
  <2>4. pages = << >>
    <3>1. PICK V : V = Seq(S)
      OBVIOUS
    <3>2. pages \in Seq(V)
      BY <3>1, FunctionIsList
    <3> QED
      BY <1>1, <1>2, <3>2, EmptySeq
  <2> QED
    BY <2>2, <2>3, <2>4
<1>3. CASE n # 0
  <2>1. PICK f \in [1..n -> Seq(S)] : Joins(f, pages, n) /\ FlattenSeq(pages) = f[n]
    BY <1>3, FlattenIteration
  <2>2. f[1] = pages[1] /\ \A i \in 2..n : f[i] = Join(f[i - 1], pages[i])
    BY <2>1, Zenon DEF Joins
  <2> DEFINE Good == {i \in Nat : i \in 1..n => f[i] = Part(s, 0, i * c)}
  <2>3. 0 \in Good
    OBVIOUS
  <2>4. ASSUME NEW i \in Nat, i \in Good
        PROVE  i + 1 \in Good
    <3> SUFFICES ASSUME i + 1 \in 1..n
                 PROVE  f[i + 1] = Part(s, 0, (i + 1) * c)
      OBVIOUS
    <3>1. PICK m \in Nat, k \in Nat : m = i * c /\ k = i * c + c /\ k = (i + 1) * c /\ m <= k
      OBVIOUS
    <3>2. pages[i + 1] = Part(s, m, k)
      BY <3>1
    <3>3. CASE i = 0
      <4>1. m = 0
        BY <3>1, <3>3
      <4> QED
        BY <2>2, <3>1, <3>2, <3>3, <4>1
    <3>4. CASE i # 0
      <4>1. i + 1 \in 2..n /\ i \in 1..n /\ i + 1 - 1 = i
        BY <3>4
      <4>2. f[i + 1] = Join(f[i], pages[i + 1])
        BY <2>2, <4>1
      <4>3. f[i] = Part(s, 0, m)
        BY <2>4, <3>1, <4>1
      <4>4. Part(s, 0, m) \o Part(s, m, k) = Part(s, 0, k)
        BY <1>4, <3>1, Zenon
      <4> QED
        BY <3>1, <3>2, <4>2, <4>3, <4>4, Zenon DEF Join
    <3> QED
      BY <3>3, <3>4
  <2>5. \A i \in Nat : i \in Good
    <3> HIDE DEF Good
    <3> QED
      BY <2>3, <2>4, InductionOnSet
  <2>6. f[n] = Part(s, 0, n * c)
    BY <1>3, <2>5
  <2>10. PICK m \in Nat : m = n * c /\ n <= m
    OBVIOUS
  <2>7. n <= m
    BY <2>10
  <2> HIDE DEF Good
  <2>8. Len(s) <= m
    <3>1. PICK l \in Nat : l = Len(s) /\ l <= n
      BY LenProperties
    <3>2. l <= m
      BY <2>7, <3>1
    <3> QED
      BY <3>1, <3>2
  <2> QED
    BY <2>1, <2>6, <2>10, <2>8, PartFull
<1> QED
  BY <1>2, <1>3

\* The pages are consecutive parts of the list, from one cut to the next.
Consecutive(pages, s, cut, m) ==
  \A i \in 0..(m - 1) : cut[i] <= cut[i + 1] /\ pages[i + 1] = Part(s, cut[i], cut[i + 1])

\* Joined, they are the part they span.
LEMMA CutsJoin ==
  ASSUME NEW S, NEW s \in Seq(S), NEW m \in Nat \ {0}, NEW cut \in [0..m -> Nat],
         NEW pages \in [1..m -> Seq(S)], Consecutive(pages, s, cut, m)
  PROVE  FlattenSeq(pages) = Part(s, cut[0], cut[m])
<1>1. PICK f \in [1..m -> Seq(S)] : Joins(f, pages, m) /\ FlattenSeq(pages) = f[m]
  BY FlattenIteration
<1>2. f[1] = pages[1] /\ \A i \in 2..m : f[i] = Join(f[i - 1], pages[i])
  BY <1>1, Zenon DEF Joins
<1>3. \A a, b, c \in Nat : a <= b /\ b <= c => Part(s, a, b) \o Part(s, b, c) = Part(s, a, c)
  BY PartsJoin
<1> DEFINE Good == {i \in Nat : i \in 1..m => /\ f[i] = Part(s, cut[0], cut[i])
                                              /\ cut[0] <= cut[i]}
<1>4. 0 \in Good
  OBVIOUS
<1>5. ASSUME NEW i \in Nat, i \in Good
      PROVE  i + 1 \in Good
  <2> SUFFICES ASSUME i + 1 \in 1..m
               PROVE  f[i + 1] = Part(s, cut[0], cut[i + 1]) /\ cut[0] <= cut[i + 1]
    OBVIOUS
  <2>1. PICK a \in Nat, b \in Nat, c \in Nat :
          a = cut[0] /\ b = cut[i] /\ c = cut[i + 1] /\ b <= c
    <3>1. i \in 0..(m - 1) /\ i \in 0..m /\ i + 1 \in 0..m /\ 0 \in 0..m
      OBVIOUS
    <3>2. cut[0] \in Nat /\ cut[i] \in Nat /\ cut[i + 1] \in Nat /\ cut[i] <= cut[i + 1]
      BY <3>1 DEF Consecutive
    <3> QED
      BY <3>2
  <2>2. pages[i + 1] = Part(s, b, c)
    BY <2>1 DEF Consecutive
  <2>3. CASE i = 0
    BY <1>2, <2>1, <2>2, <2>3
  <2>4. CASE i # 0
    <3>1. f[i] = Part(s, a, b) /\ a <= b
      BY <1>5, <2>1, <2>4
    <3> HIDE DEF Good
    <3>2. f[i + 1] = Join(f[i], pages[i + 1])
      <4>1. i + 1 \in 2..m /\ i + 1 - 1 = i
        BY <2>4
      <4>2. f[i + 1] = Join(f[i + 1 - 1], pages[i + 1])
        BY <1>2, <4>1
      <4> QED
        BY <4>1, <4>2, Zenon
    <3>3. a <= c
      BY <2>1, <3>1
    <3>4. Part(s, a, b) \o Part(s, b, c) = Part(s, a, c)
      BY <1>3, <2>1, <3>1, Zenon
    <3> QED
      BY <2>1, <2>2, <3>1, <3>2, <3>3, <3>4 DEF Join
  <2> QED
    BY <2>3, <2>4
<1>6. \A i \in Nat : i \in Good
  <2> HIDE DEF Good
  <2> QED
    BY <1>4, <1>5, InductionOnSet
<1> QED
  BY <1>1, <1>6

\* Of one more entry, a part that ends before it does not change.
LEMMA PartAppend ==
  ASSUME NEW S, NEW s \in Seq(S), NEW e \in S, NEW a \in Nat, NEW b \in Nat
  PROVE  Part(Append(s, e), a, b) =
           IF a <= Len(s) /\ Len(s) < b THEN Append(Part(s, a, b), e) ELSE Part(s, a, b)
<1>1. PICK n \in Nat : n = Len(s)
  BY LenProperties
<1>2. PICK t \in Seq(S) : t = Append(s, e)
  BY AppendProperties, Zenon
<1>3. Len(t) = n + 1 /\ t[n + 1] = e /\ \A i \in 1..n : t[i] = s[i]
  BY <1>1, <1>2, AppendProperties
<1>4. PICK p \in Seq(S) : p = Part(s, a, b)
  BY PartType
<1>5. PICK q \in Seq(S) : q = Part(t, a, b)
  BY PartType
<1>6. CASE b <= a \/ n < a
  <2>0. b <= a \/ n <= a
    BY <1>6
  <2>1. p = << >>
    BY <1>1, <1>4, <2>0, PartEmpty
  <2>2. b <= a \/ n + 1 <= a
    BY <1>6
  <2>3. q = << >>
    BY <1>3, <1>5, <2>2, PartEmpty
  <2>4. ~(a <= n /\ n < b)
    BY <1>6
  <2> QED
    BY <1>1, <1>2, <1>4, <1>5, <2>1, <2>3, <2>4
<1>7. CASE a < b /\ a <= n /\ b <= n
  <2>1. Len(p) = b - a /\ \A i \in 1..(b - a) : p[i] = s[a + i]
    <3>1. PartEnd(s, b) = b /\ a <= b
      BY <1>1, <1>7 DEF PartEnd
    <3>2. a <= PartEnd(s, b)
      BY <3>1
    <3>3. /\ Len(Part(s, a, b)) = PartEnd(s, b) - a
          /\ \A i \in 1..(PartEnd(s, b) - a) : Part(s, a, b)[i] = s[a + i]
      BY <3>2, PartEntries
    <3> QED
      BY <1>1, <1>4, <3>1, <3>3
  <2>2. Len(q) = b - a /\ \A i \in 1..(b - a) : q[i] = t[a + i]
    <3>1. PartEnd(t, b) = b /\ a <= b
      BY <1>3, <1>7 DEF PartEnd
    <3>2. a <= PartEnd(t, b)
      BY <3>1
    <3>3. /\ Len(Part(t, a, b)) = PartEnd(t, b) - a
          /\ \A i \in 1..(PartEnd(t, b) - a) : Part(t, a, b)[i] = t[a + i]
      BY <3>2, PartEntries
    <3> QED
      BY <1>3, <1>5, <3>1, <3>3
  <2>3. \A i \in 1..(b - a) : a + i \in 1..n
    BY <1>7
  <2>4. \A i \in 1..(b - a) : p[i] = q[i]
    BY <1>3, <2>1, <2>2, <2>3
  <2>5. p = q
    BY <2>1, <2>2, <2>4, SeqEqual
  <2> QED
    BY <1>1, <1>2, <1>4, <1>5, <1>7, <2>5
<1>8. CASE a < b /\ a <= n /\ n < b
  <2>1. Len(p) = n - a /\ \A i \in 1..(n - a) : p[i] = s[a + i]
    <3>1. PartEnd(s, b) = n /\ a <= n
      BY <1>1, <1>8 DEF PartEnd
    <3>2. a <= PartEnd(s, b)
      BY <3>1
    <3>3. /\ Len(Part(s, a, b)) = PartEnd(s, b) - a
          /\ \A i \in 1..(PartEnd(s, b) - a) : Part(s, a, b)[i] = s[a + i]
      BY <3>2, PartEntries
    <3> QED
      BY <1>1, <1>4, <3>1, <3>3
  <2>2. Len(q) = n + 1 - a /\ \A i \in 1..(n + 1 - a) : q[i] = t[a + i]
    <3>1. PartEnd(t, b) = n + 1 /\ a <= n + 1
      BY <1>3, <1>8 DEF PartEnd
    <3>2. a <= PartEnd(t, b)
      BY <3>1
    <3>3. /\ Len(Part(t, a, b)) = PartEnd(t, b) - a
          /\ \A i \in 1..(PartEnd(t, b) - a) : Part(t, a, b)[i] = t[a + i]
      BY <3>2, PartEntries
    <3> QED
      BY <1>3, <1>5, <3>1, <3>3
  <2>3. PICK r \in Seq(S) : r = Append(p, e)
    BY AppendProperties, Zenon
  <2>4. PICK k \in Nat : k = n - a
    BY <1>8
  <2>5. Len(r) = k + 1 /\ r[k + 1] = e /\ \A i \in 1..k : r[i] = p[i]
    BY <2>1, <2>3, <2>4, AppendProperties
  <2>6. \A i \in 1..k : a + i \in 1..n /\ i \in 1..(n + 1 - a)
    BY <1>8, <2>4
  <2>7. k + 1 \in 1..(n + 1 - a) /\ a + (k + 1) = n + 1 /\ Len(q) = k + 1
    BY <1>8, <2>2, <2>4
  <2>8. \A i \in 1..k : q[i] = r[i]
    BY <1>3, <2>1, <2>2, <2>4, <2>5, <2>6
  <2>9. q[k + 1] = r[k + 1]
    BY <1>3, <2>2, <2>5, <2>7
  <2>10. \A i \in 1..(k + 1) : q[i] = r[i]
    <3>1. \A i \in 1..(k + 1) : i \in 1..k \/ i = k + 1
      OBVIOUS
    <3> QED
      BY <2>8, <2>9, <3>1, Zenon
  <2>11. q = r
    BY <2>5, <2>7, <2>10, SeqEqual
  <2> QED
    BY <1>1, <1>2, <1>4, <1>5, <1>8, <2>3, <2>11
<1> QED
  BY <1>6, <1>7, <1>8

\* The first entries of a list without repetitions have none.
LEMMA PartDistinct ==
  ASSUME NEW S, NEW s \in Seq(S), NEW b \in Nat, Distinct(s)
  PROVE  /\ Part(s, 0, b) \in Seq(S) /\ Distinct(Part(s, 0, b))
         /\ Len(Part(s, 0, b)) = IF b < Len(s) THEN b ELSE Len(s)
         /\ \A x : Contains(Part(s, 0, b), x) => Contains(s, x)
<1>1. PICK n \in Nat : n = Len(s)
  BY LenProperties
<1>2. PICK d \in Nat : d = (IF b < n THEN b ELSE n) /\ d <= n
  OBVIOUS
<1>3. PICK p \in Seq(S) : p = Part(s, 0, b)
  BY PartType
<1>4. Len(p) = d /\ \A i \in 1..d : p[i] = s[0 + i]
  <2>1. 0 \in Nat /\ 0 <= d /\ d - 0 = d
    OBVIOUS
  <2>2. PartEnd(s, b) = d
    BY <1>1, <1>2 DEF PartEnd
  <2>3. 0 <= PartEnd(s, b)
    BY <2>1, <2>2
  <2>4. /\ Len(Part(s, 0, b)) = PartEnd(s, b) - 0
        /\ \A i \in 1..(PartEnd(s, b) - 0) : Part(s, 0, b)[i] = s[0 + i]
    BY SMTT(60), <2>1, <2>3, PartEntries
  <2>5. Len(p) = d - 0 /\ \A i \in 1..(d - 0) : p[i] = s[0 + i]
    BY <1>3, <2>2, <2>4, Zenon
  <2> QED
    BY <2>1, <2>5
<1>5. \A i \in 1..d : i \in 1..n /\ p[i] = s[i]
  BY <1>2, <1>4
<1>6. \A i, j \in 1..n : s[i] = s[j] => i = j
  BY <1>1 DEF Distinct
<1>7. Distinct(p)
  <2>1. \A i, j \in 1..d : p[i] = p[j] => i = j
    BY <1>5, <1>6
  <2> QED
    BY <1>4, <2>1 DEF Distinct
<1>8. \A x : Contains(p, x) => Contains(s, x)
  BY <1>1, <1>4, <1>5 DEF Contains
<1> QED
  BY <1>1, <1>2, <1>3, <1>4, <1>7, <1>8
----
(***************************************************************************)
(* Powers of two.                                                           *)
(***************************************************************************)
\* The first b doublings of 1.
Doubles(f, b) == f[0] = 1 /\ \A i \in 1..b : f[i] = 2 * f[i - 1]

\* The doubling behind Pow2 exists.
LEMMA Pow2Iteration ==
  ASSUME NEW b \in Nat
  PROVE  \E f \in [0..b -> Nat] : Doubles(f, b) /\ Pow2(b) = f[b]
<1> DEFINE Step(f) == [i \in 0..b |-> IF i = 0 THEN 1 ELSE 2 * f[i - 1]]
<1>1. \E f \in [0..b -> Nat] : f = Step(f)
  <2> DEFINE G == [i \in 1..b |-> [v \in Nat |-> 2 * v]]
  <2>1. G \in [1..b -> [Nat -> Nat]]
    OBVIOUS
  <2>2. \A i \in 1..b, v \in Nat : G[i][v] = 2 * v
    OBVIOUS
  <2> HIDE DEF G
  <2>3. PICK f \in [0..b -> Nat] : Iterates(f, b, 1, G)
    BY <2>1, IterationExists
  <2>4. f[0] = 1 /\ \A i \in 1..b : f[i] = 2 * f[i - 1]
    <3>1. f[0] = 1 /\ \A i \in 1..b : f[i] = G[i][f[i - 1]]
      BY <2>3, Zenon DEF Iterates
    <3>2. \A i \in 1..b : f[i - 1] \in Nat
      BY <2>3
    <3> QED
      BY <2>2, <3>1, <3>2
  <2>5. f = Step(f)
    BY <2>4
  <2> QED
    BY <2>5
<1>2. PICK f : f = Step(f) /\ Pow2(b) = f[b]
  <2> DEFINE pow == CHOOSE f : f = Step(f)
  <2>1. pow = Step(pow)
    <3> HIDE DEF Step
    <3> QED
      BY <1>1, Zenon
  <2>2. Pow2(b) = pow[b]
    BY Zenon DEF Pow2
  <2> HIDE DEF pow
  <2> QED
    BY <2>1, <2>2, Zenon
<1>3. f[0] = 1 /\ \A i \in 1..b : f[i] = 2 * f[i - 1]
  <2>1. f = Step(f)
    BY <1>2, Zenon
  <2>2. f[0] = 1
    BY <2>1
  <2>3. \A i \in 1..b : f[i] = 2 * f[i - 1]
    BY <2>1
  <2> QED
    BY <2>2, <2>3
<1>4. \A i \in 0..b : f[i] \in Nat
  <2> DEFINE Good == {i \in Nat : i <= b => f[i] \in Nat}
  <2>1. 0 \in Good
    BY <1>3
  <2>2. ASSUME NEW i \in Nat, i \in Good
        PROVE  i + 1 \in Good
    BY <1>3, <2>2
  <2>3. \A i \in Nat : i \in Good
    <3> HIDE DEF Good
    <3> QED
      BY <2>1, <2>2, InductionOnSet
  <2> QED
    BY <2>3
<1>5. f = [i \in 0..b |-> f[i]]
  BY <1>2
<1>6. f \in [0..b -> Nat]
  BY <1>4, <1>5
<1> QED
  BY <1>2, <1>3, <1>6 DEF Doubles

\* The powers begin at 1.
LEMMA Pow2Zero == Pow2(0) = 1
<1>1. PICK f \in [0..0 -> Nat] : Doubles(f, 0) /\ Pow2(0) = f[0]
  BY Pow2Iteration
<1> QED
  BY <1>1 DEF Doubles

\* Each power is twice the one before.
LEMMA Pow2Next ==
  ASSUME NEW b \in Nat
  PROVE  Pow2(b + 1) = 2 * Pow2(b)
<1>1. PICK f : Doubles(f, b) /\ Pow2(b) = f[b]
  BY Pow2Iteration
<1>2. PICK g : Doubles(g, b + 1) /\ Pow2(b + 1) = g[b + 1]
  <2>1. b + 1 \in Nat
    OBVIOUS
  <2> QED
    BY <2>1, Pow2Iteration, Zenon
<1>3. \A i \in Nat : i <= b => f[i] = g[i]
  <2> DEFINE Same == {i \in Nat : i <= b => f[i] = g[i]}
  <2>1. 0 \in Same
    BY <1>1, <1>2 DEF Doubles
  <2>2. ASSUME NEW i \in Nat, i \in Same
        PROVE  i + 1 \in Same
    <3>1. ASSUME i + 1 <= b
          PROVE  f[i + 1] = g[i + 1]
      <4>1. f[i] = g[i] /\ i + 1 \in 1..b /\ i + 1 \in 1..(b + 1) /\ i + 1 - 1 = i
        BY <2>2, <3>1
      <4>2. f[i + 1] = 2 * f[i] /\ g[i + 1] = 2 * g[i]
        BY <1>1, <1>2, <4>1 DEF Doubles
      <4> QED
        BY <4>1, <4>2
    <3> QED
      BY <3>1
  <2>3. \A i \in Nat : i \in Same
    <3> HIDE DEF Same
    <3> QED
      BY <2>1, <2>2, InductionOnSet
  <2> QED
    BY <2>3
<1>4. g[b + 1] = 2 * g[b]
  BY <1>2 DEF Doubles
<1> QED
  BY <1>1, <1>2, <1>3, <1>4

\* A power is positive and above its exponent.
LEMMA Pow2Above ==
  ASSUME NEW b \in Nat
  PROVE  Pow2(b) \in Nat \ {0} /\ b < Pow2(b)
<1> DEFINE Good == {n \in Nat : Pow2(n) \in Nat /\ n < Pow2(n)}
<1>1. 0 \in Good
  BY Pow2Zero
<1>2. ASSUME NEW n \in Nat, n \in Good
      PROVE  n + 1 \in Good
  BY <1>2, Pow2Next
<1>3. \A n \in Nat : n \in Good
  <2> HIDE DEF Good
  <2> QED
    BY <1>1, <1>2, InductionOnSet
<1> QED
  BY <1>3

\* A higher power is a multiple of a lower one.
LEMMA Pow2Multiple ==
  ASSUME NEW a \in Nat, NEW b \in Nat, a <= b
  PROVE  \E q \in Nat \ {0} : Pow2(b) = q * Pow2(a)
<1> DEFINE Good == {n \in Nat : \E q \in Nat \ {0} : Pow2(a + n) = q * Pow2(a)}
<1>1. 0 \in Good
  BY Pow2Above
<1>2. ASSUME NEW n \in Nat, n \in Good
      PROVE  n + 1 \in Good
  <2>1. PICK q \in Nat \ {0} : Pow2(a + n) = q * Pow2(a)
    BY <1>2
  <2>2. PICK m \in Nat : m = a + n
    OBVIOUS
  <2>3. Pow2(a + (n + 1)) = 2 * Pow2(a + n)
    <3>1. a + (n + 1) = m + 1
      BY <2>2
    <3> QED
      BY <2>2, <3>1, Pow2Next
  <2>4. PICK p \in Nat : p = Pow2(a)
    BY Pow2Above
  <2>5. 2 * (q * p) = (2 * q) * p
    BY <2>4
  <2>6. Pow2(a + (n + 1)) = (2 * q) * Pow2(a)
    BY <2>1, <2>3, <2>4, <2>5
  <2>7. 2 * q \in Nat \ {0}
    OBVIOUS
  <2> QED
    BY <2>6, <2>7
<1>3. \A n \in Nat : n \in Good
  <2> HIDE DEF Good
  <2> QED
    BY <1>1, <1>2, InductionOnSet
<1>4. b - a \in Nat /\ a + (b - a) = b
  OBVIOUS
<1> QED
  BY <1>3, <1>4

\* The next power above is at least twice as much.
LEMMA Pow2Rises ==
  ASSUME NEW a \in Nat, NEW b \in Nat, a < b
  PROVE  2 * Pow2(a) <= Pow2(b)
<1>1. PICK q \in Nat \ {0} : Pow2(b) = q * Pow2(a + 1)
  BY Pow2Multiple
<1>2. PICK p \in Nat : p = Pow2(a + 1)
  BY Pow2Above
<1>3. p <= q * p
  BY <1>2
<1> QED
  BY <1>1, <1>2, <1>3, Pow2Next

\* A power is at least twice its exponent.
LEMMA Pow2Twice ==
  ASSUME NEW b \in Nat
  PROVE  2 * b <= Pow2(b)
<1>1. CASE b = 0
  BY <1>1, Pow2Above
<1>2. CASE b # 0
  <2>1. PICK c \in Nat : b = c + 1
    <3>1. b - 1 \in Nat /\ b = (b - 1) + 1
      BY <1>2
    <3> QED
      BY <3>1
  <2>2. Pow2(b) = 2 * Pow2(c) /\ Pow2(c) \in Nat /\ c < Pow2(c)
    BY <2>1, Pow2Next, Pow2Above
  <2> QED
    BY <2>1, <2>2
<1> QED
  BY <1>1, <1>2

\* The split of a range: a power b and at most as much again.
LEMMA SplitPoint ==
  ASSUME NEW b \in Nat, NEW m \in Nat \ {0}, m <= Pow2(b)
  PROVE  LargestPow2Lt(Pow2(b) + m) = Pow2(b)
<1>1. PICK n \in Nat : n = Pow2(b) + m /\ b \in 0..(n \div 2) /\ Pow2(b) < n
                   /\ 2 * Pow2(b) >= n
  <2>1. 2 * b <= Pow2(b)
    BY Pow2Twice
  <2>2. PICK p \in Nat : p = Pow2(b)
    BY Pow2Above
  <2>3. PICK n \in Nat : n = p + m
    BY <2>2
  <2>4. b <= n \div 2
    BY <2>1, <2>2, <2>3
  <2> QED
    BY <2>1, <2>2, <2>3, <2>4
<1>2. ASSUME NEW c \in 0..(n \div 2), Pow2(c) < n, 2 * Pow2(c) >= n
      PROVE  c = b
  <2>1. ~(c < b)
    BY <1>1, <1>2, Pow2Rises, Pow2Above
  <2>2. ~(b < c)
    BY <1>1, <1>2, Pow2Rises, Pow2Above
  <2> QED
    BY <1>1, <2>1, <2>2
<1>3. LargestPow2Lt(n) = CHOOSE k \in {Pow2(c) : c \in 0..(n \div 2)} : k < n /\ 2 * k >= n
  BY DEF LargestPow2Lt
<1>4. \A k \in {Pow2(c) : c \in 0..(n \div 2)} : (k < n /\ 2 * k >= n) <=> k = Pow2(b)
  BY <1>1, <1>2
<1>5. Pow2(b) \in {Pow2(c) : c \in 0..(n \div 2)}
  BY <1>1
<1> QED
  BY <1>1, <1>3, <1>4, <1>5

\* Every size from two on has such a split.
LEMMA EveryRangeSplits ==
  ASSUME NEW n \in Nat, n >= 2
  PROVE  \E b \in Nat : Pow2(b) < n /\ n - Pow2(b) <= Pow2(b)
<1> DEFINE Enough == {b \in Nat : n <= Pow2(b)}
<1>1. n \in Enough
  BY Pow2Above
<1>2. PICK b \in Enough : \A c \in Enough : b <= c
  <2>1. Enough \in SUBSET Nat /\ Enough # {}
    BY <1>1
  <2> HIDE DEF Enough
  <2> QED
    BY <2>1, LeastNatural
<1>3. b \in Nat /\ n <= Pow2(b) /\ b # 0
  BY Pow2Zero
<1>4. PICK c \in Nat : b = c + 1
  <2>1. b - 1 \in Nat /\ b = (b - 1) + 1
    BY <1>3
  <2> QED
    BY <2>1
<1>5. ~(n <= Pow2(c)) /\ Pow2(b) = 2 * Pow2(c) /\ Pow2(c) \in Nat
  <2>1. c \notin Enough
    BY <1>2, <1>4
  <2> QED
    BY <1>4, <2>1, Pow2Next, Pow2Above
<1> QED
  BY <1>3, <1>5

----
(***************************************************************************)
(* The tree hash of a range.                                                *)
(***************************************************************************)
\* The two ranges a range is split into.
SplitOf(r) == LargestPow2Lt(r[2] - r[1])
LeftPart(r) == <<r[1], r[1] + SplitOf(r)>>
RightPart(r) == <<r[1] + SplitOf(r), r[2]>>

\* Both parts of a range are ranges, and smaller.
LEMMA PartsSmaller ==
  ASSUME NEW leaves, NEW N \in Nat, N = Len(leaves), NEW r \in Ranges(leaves), r[2] - r[1] # 1
  PROVE  /\ LeftPart(r) \in Ranges(leaves) /\ RightPart(r) \in Ranges(leaves)
         /\ LeftPart(r)[2] - LeftPart(r)[1] < r[2] - r[1]
         /\ RightPart(r)[2] - RightPart(r)[1] < r[2] - r[1]
<1>1. PICK s \in 0..N, e \in 0..N : r = <<s, e>> /\ r[1] = s /\ r[2] = e /\ s < e
  BY DEF Ranges
<1>2. PICK n \in Nat : n = e - s /\ n >= 2
  BY <1>1
<1>3. PICK b \in Nat : Pow2(b) < n /\ n - Pow2(b) <= Pow2(b)
  BY <1>2, EveryRangeSplits
<1>4. PICK k \in Nat \ {0} : k = Pow2(b)
  BY Pow2Above
<1>5. SplitOf(r) = k
  <2>1. n - k \in Nat \ {0} /\ n - k <= Pow2(b) /\ k + (n - k) = n
    BY <1>2, <1>3, <1>4
  <2>2. LargestPow2Lt(k + (n - k)) = k
    BY <1>4, <2>1, SplitPoint
  <2> QED
    BY <1>1, <1>2, <2>1, <2>2 DEF SplitOf
<1>6. LeftPart(r) = <<s, s + k>> /\ RightPart(r) = <<s + k, e>>
  BY <1>1, <1>5 DEF LeftPart, RightPart
<1>7. <<s, s + k>> \in Ranges(leaves) /\ <<s + k, e>> \in Ranges(leaves)
  BY <1>1, <1>2, <1>3, <1>4 DEF Ranges
<1>8. /\ LeftPart(r)[1] = s /\ LeftPart(r)[2] = s + k
      /\ RightPart(r)[1] = s + k /\ RightPart(r)[2] = e
  BY <1>6
<1>9. LeftPart(r) \in Ranges(leaves) /\ RightPart(r) \in Ranges(leaves)
  BY <1>6, <1>7
<1>10. (s + k) - s < e - s /\ e - (s + k) < e - s
  BY <1>2, <1>3, <1>4
<1> QED
  BY <1>1, <1>8, <1>9, <1>10

\* The recursion behind MthRange.
TreeHashes(f, leaves) ==
  \A r \in Ranges(leaves) :
    f[r] = IF r[2] - r[1] = 1 THEN leaves[r[1] + 1]
           ELSE NodeHash(f[LeftPart(r)], f[RightPart(r)])

\* The recursion exists, and MthRange is what it returns.
LEMMA MthIteration ==
  ASSUME NEW leaves, NEW N \in Nat, N = Len(leaves)
  PROVE  \E f : TreeHashes(f, leaves) /\ \A s, e : MthRange(leaves, s, e) = f[<<s, e>>]
<1> DEFINE R == Ranges(leaves)
           Rec(g, r) == IF r[2] - r[1] = 1 THEN leaves[r[1] + 1]
                        ELSE NodeHash(g[LeftPart(r)], g[RightPart(r)])
           Small(n) == {r \in R : r[2] - r[1] <= n}
           Good == {n \in Nat : \E g : \A r \in Small(n) : g[r] = Rec(g, r)}
<1>1. \A r \in R : r[2] - r[1] \in Nat \ {0} /\ r[2] - r[1] <= N
  BY DEF Ranges
<1>2. 0 \in Good
  <2>1. Small(0) = {}
    BY <1>1
  <2> QED
    BY <2>1
<1>3. ASSUME NEW n \in Nat, n \in Good
      PROVE  n + 1 \in Good
  <2>1. PICK g : \A r \in Small(n) : g[r] = Rec(g, r)
    BY <1>3
  <2> DEFINE h == [r \in R |-> Rec(g, r)]
  <2>2. ASSUME NEW r \in Small(n + 1)
        PROVE  h[r] = Rec(h, r)
    <3>1. r \in R /\ h[r] = Rec(g, r)
      OBVIOUS
    <3>2. CASE r[2] - r[1] = 1
      BY <3>1, <3>2
    <3>3. CASE r[2] - r[1] # 1
      <4>1. LeftPart(r) \in Small(n) /\ RightPart(r) \in Small(n)
        <5>1. /\ LeftPart(r) \in R /\ RightPart(r) \in R
              /\ LeftPart(r)[2] - LeftPart(r)[1] < r[2] - r[1]
              /\ RightPart(r)[2] - RightPart(r)[1] < r[2] - r[1]
          BY <3>1, <3>3, PartsSmaller
        <5>2. /\ LeftPart(r)[2] - LeftPart(r)[1] \in Nat
              /\ RightPart(r)[2] - RightPart(r)[1] \in Nat
          BY <1>1, <5>1
        <5>3. r[2] - r[1] <= n + 1 /\ r[2] - r[1] \in Nat
          BY <1>1
        <5> QED
          BY <5>1, <5>2, <5>3
      <4>2. PICK x \in Small(n), y \in Small(n) : x = LeftPart(r) /\ y = RightPart(r)
        BY <4>1
      <4>3. h[x] = g[x] /\ h[y] = g[y]
        <5>1. x \in R /\ y \in R /\ g[x] = Rec(g, x) /\ g[y] = Rec(g, y)
          BY <2>1
        <5> QED
          BY <5>1
      <4>4. Rec(g, r) = NodeHash(g[x], g[y]) /\ Rec(h, r) = NodeHash(h[x], h[y])
        <5> HIDE DEF h
        <5> QED
          BY <3>3, <4>2
      <4> QED
        BY <3>1, <4>3, <4>4, Zenon
    <3> QED
      BY <3>2, <3>3
  <2>3. \E f : \A r \in Small(n + 1) : f[r] = Rec(f, r)
    <3> HIDE DEF h, Rec, Small
    <3> QED
      BY <2>2
  <2> QED
    <3> HIDE DEF h, Rec, Small
    <3> QED
      BY <2>3
<1>4. N \in Good
  <2> HIDE DEF Good
  <2> QED
    BY <1>2, <1>3, InductionOnSet
<1> DEFINE Step(f) ==
      [r \in Ranges(leaves) |->
        IF r[2] - r[1] = 1
        THEN leaves[r[1] + 1]
        ELSE LET k == LargestPow2Lt(r[2] - r[1])
             IN  NodeHash(f[<<r[1], r[1] + k>>], f[<<r[1] + k, r[2]>>])]
<1>5. \A f : \A r \in R : Step(f)[r] = Rec(f, r)
  BY DEF LeftPart, RightPart, SplitOf
<1>6. \E f : f = Step(f)
  <2>1. PICK g : \A r \in R : g[r] = Rec(g, r)
    <3>1. Small(N) = R
      BY <1>1
    <3>2. \E g : \A r \in Small(N) : g[r] = Rec(g, r)
      BY <1>4
    <3> QED
      BY <3>1, <3>2
  <2> DEFINE f == [r \in R |-> g[r]]
  <2>2. ASSUME NEW r \in R
        PROVE  f[r] = Rec(f, r)
    <3>1. f[r] = Rec(g, r)
      BY <2>1
    <3>2. CASE r[2] - r[1] = 1
      BY <3>1, <3>2
    <3>3. CASE r[2] - r[1] # 1
      <4>1. PICK x \in R, y \in R : x = LeftPart(r) /\ y = RightPart(r)
        BY <3>3, PartsSmaller
      <4>2. f[x] = g[x] /\ f[y] = g[y]
        OBVIOUS
      <4> HIDE DEF f
      <4> QED
        BY <3>1, <3>3, <4>1, <4>2
    <3> QED
      BY <3>2, <3>3
  <2>3. \A r \in R : f[r] = Step(f)[r]
    <3> HIDE DEF f, Step, Rec
    <3> QED
      BY <1>5, <2>2
  <2>4. f = [r \in R |-> f[r]] /\ Step(f) = [r \in R |-> Step(f)[r]]
    OBVIOUS
  <2>5. f = Step(f)
    <3> HIDE DEF f, Step
    <3> QED
      BY <2>3, <2>4
  <2> QED
    BY <2>5
<1>7. PICK f : f = Step(f) /\ \A s, e : MthRange(leaves, s, e) = f[<<s, e>>]
  <2> DEFINE mth == CHOOSE f : f = Step(f)
  <2>1. mth = Step(mth)
    <3> HIDE DEF Step
    <3> QED
      BY <1>6, Zenon
  <2>2. \A s, e : MthRange(leaves, s, e) = mth[<<s, e>>]
    BY Zenon DEF MthRange
  <2> HIDE DEF mth
  <2> QED
    BY <2>1, <2>2, Zenon
<1>8. \A r \in R : f[r] = Rec(f, r)
  <2>1. f = Step(f)
    BY <1>7, Zenon
  <2> HIDE DEF Step, Rec
  <2> QED
    BY <1>5, <2>1
<1> QED
  BY <1>7, <1>8 DEF TreeHashes

\* The tree hash of one leaf is the leaf.
LEMMA MthLeaf ==
  ASSUME NEW leaves, NEW N \in Nat, N = Len(leaves), NEW s \in Nat, s < N
  PROVE  MthRange(leaves, s, s + 1) = leaves[s + 1]
<1>1. PICK f : TreeHashes(f, leaves) /\ \A a, e : MthRange(leaves, a, e) = f[<<a, e>>]
  BY MthIteration
<1>2. <<s, s + 1>> \in Ranges(leaves)
  BY DEF Ranges
<1>3. f[<<s, s + 1>>] = leaves[s + 1]
  BY <1>1, <1>2 DEF TreeHashes
<1> QED
  BY <1>1, <1>3

\* A range that is split at a power of two.
LEMMA MthNode ==
  ASSUME NEW leaves, NEW N \in Nat, N = Len(leaves), NEW s \in Nat, NEW b \in Nat,
         NEW m \in Nat \ {0}, m <= Pow2(b), NEW k \in Nat, k = Pow2(b), s + k + m <= N
  PROVE  MthRange(leaves, s, s + k + m)
           = NodeHash(MthRange(leaves, s, s + k), MthRange(leaves, s + k, s + k + m))
<1>1. PICK f : TreeHashes(f, leaves) /\ \A a, e : MthRange(leaves, a, e) = f[<<a, e>>]
  BY MthIteration
<1>2. PICK e \in Nat : e = s + k + m /\ e <= N /\ e - s = k + m /\ k > 0
  <2>1. k > 0
    BY Pow2Above
  <2>2. PICK e \in Nat : e = s + k + m
    OBVIOUS
  <2> QED
    BY <2>1, <2>2
<1>3. PICK r : r = <<s, e>>
  OBVIOUS
<1>4. r \in Ranges(leaves) /\ r[1] = s /\ r[2] = e /\ r[2] - r[1] # 1
  BY <1>2, <1>3 DEF Ranges
<1>5. SplitOf(r) = k
  BY <1>2, <1>4, SplitPoint DEF SplitOf
<1>6. LeftPart(r) = <<s, s + k>> /\ RightPart(r) = <<s + k, e>>
  BY <1>4, <1>5 DEF LeftPart, RightPart
<1>7. f[r] = NodeHash(f[LeftPart(r)], f[RightPart(r)])
  BY <1>1, <1>4 DEF TreeHashes
<1> QED
  BY <1>1, <1>2, <1>3, <1>6, <1>7

\* Ranges of any size, from the smaller to the larger.
LEMMA InductionOnSizes ==
  ASSUME NEW T, \A n \in Nat \ {0} : (\A m \in 1..(n - 1) : m \in T) => n \in T
  PROVE  \A n \in Nat \ {0} : n \in T
<1> DEFINE Good == {n \in Nat : \A m \in 1..n : m \in T}
<1>1. 0 \in Good
  OBVIOUS
<1>2. ASSUME NEW n \in Nat, n \in Good
      PROVE  n + 1 \in Good
  <2>1. \A m \in 1..((n + 1) - 1) : m \in T
    BY <1>2
  <2>2. n + 1 \in T
    BY <2>1
  <2> QED
    BY <1>2, <2>2
<1>3. \A n \in Nat : n \in Good
  <2> HIDE DEF Good
  <2> QED
    BY <1>1, <1>2, InductionOnSet
<1> QED
  BY <1>3

\* A range of at least two leaves is split inside.
Splits(n, b, m) == LargestPow2Lt(n) = Pow2(b) /\ n = Pow2(b) + m /\ m <= Pow2(b)

\* LargestPow2Lt is such a split.
LEMMA SplitInside ==
  ASSUME NEW n \in Nat, n >= 2
  PROVE  \E b \in Nat, m \in Nat \ {0} : Splits(n, b, m)
<1>1. PICK b \in Nat : Pow2(b) < n /\ n - Pow2(b) <= Pow2(b)
  BY EveryRangeSplits
<1>2. PICK k \in Nat \ {0} : k = Pow2(b)
  BY Pow2Above
<1>3. PICK m \in Nat \ {0} : m = n - k /\ n = k + m /\ m <= k
  BY <1>1, <1>2
<1>4. LargestPow2Lt(k + m) = k
  BY <1>2, <1>3, SplitPoint
<1> QED
  BY <1>2, <1>3, <1>4 DEF Splits

\* It lies inside.
LEMMA SplitRange ==
  ASSUME NEW n \in Nat, n >= 2
  PROVE  LargestPow2Lt(n) \in 1..(n - 1)
<1>1. PICK b \in Nat, m \in Nat \ {0} : Splits(n, b, m)
  BY SplitInside
<1>2. PICK k \in Nat \ {0} : k = Pow2(b)
  BY Pow2Above
<1> QED
  BY <1>1, <1>2 DEF Splits

\* A range from two leaves on hashes to the node over its two parts.
LEMMA MthSplit ==
  ASSUME NEW leaves, NEW N \in Nat, N = Len(leaves), NEW s \in Nat, NEW e \in Nat, e <= N,
         NEW n \in Nat, n >= 2, n = e - s, NEW k, k = LargestPow2Lt(n)
  PROVE  MthRange(leaves, s, e) = NodeHash(MthRange(leaves, s, s + k), MthRange(leaves, s + k, e))
<1>1. PICK b \in Nat, m \in Nat \ {0} : Splits(n, b, m)
  BY SplitInside
<1>2. k = Pow2(b) /\ n = Pow2(b) + m /\ m <= Pow2(b)
  BY <1>1 DEF Splits
<1>3. k \in Nat
  BY <1>2, Pow2Above
<1>4. s + k + m = e /\ s + k + m <= N
  BY <1>2, <1>3
<1>5. MthRange(leaves, s, s + k + m)
        = NodeHash(MthRange(leaves, s, s + k), MthRange(leaves, s + k, s + k + m))
  BY <1>2, <1>3, <1>4, MthNode
<1> QED
  BY <1>4, <1>5

\* A range does not depend on leaves outside it.
SameOn(v, w, D) ==
  {n \in Nat : \A s, e \in Nat :
     n = e - s /\ e <= Len(v) /\ e <= Len(w) /\ (s + 1)..e \subseteq D
       => MthRange(v, s, e) = MthRange(w, s, e)}

\* Two lists that agree on a range have one hash there.
LEMMA MthLocal ==
  ASSUME NEW v, NEW w, Len(v) \in Nat, Len(w) \in Nat, NEW D, \A i \in D : v[i] = w[i]
  PROVE  \A n \in Nat \ {0} : n \in SameOn(v, w, D)
<1>1. ASSUME NEW n \in Nat \ {0}, \A m \in 1..(n - 1) : m \in SameOn(v, w, D)
      PROVE  n \in SameOn(v, w, D)
  <2> SUFFICES ASSUME NEW s \in Nat, NEW e \in Nat, n = e - s, e <= Len(v), e <= Len(w),
                      (s + 1)..e \subseteq D
               PROVE  MthRange(v, s, e) = MthRange(w, s, e)
    BY DEF SameOn
  <2>1. CASE n = 1
    <3>1. s < Len(v) /\ s < Len(w) /\ s + 1 \in D /\ e = s + 1
      <4>1. e = s + 1 /\ s + 1 \in (s + 1)..e
        BY <2>1
      <4> QED
        BY <4>1
    <3>2. MthRange(v, s, s + 1) = v[s + 1] /\ MthRange(w, s, s + 1) = w[s + 1]
      BY <3>1, MthLeaf
    <3> QED
      BY <3>1, <3>2
  <2>2. CASE n # 1
    <3>1. PICK k \in 1..(n - 1) : k = LargestPow2Lt(n)
      BY <2>2, SplitRange
    <3>2. PICK t \in Nat : t = s + k /\ t <= e /\ n >= 2
      BY <2>2, <3>1
    <3>3. MthRange(v, s, e) = NodeHash(MthRange(v, s, t), MthRange(v, t, e))
      <4>1. MthRange(v, s, e) = NodeHash(MthRange(v, s, s + k), MthRange(v, s + k, e))
        <5>1. \A N \in Nat : N = Len(v) /\ e <= N /\ n >= 2 /\ n = e - s
                => \A l : l = LargestPow2Lt(n)
                     => MthRange(v, s, e) = NodeHash(MthRange(v, s, s + l), MthRange(v, s + l, e))
          BY MthSplit
        <5> QED
          BY <3>1, <3>2, <5>1
      <4> QED
        BY <3>2, <4>1, Zenon
    <3>4. MthRange(w, s, e) = NodeHash(MthRange(w, s, t), MthRange(w, t, e))
      <4>1. MthRange(w, s, e) = NodeHash(MthRange(w, s, s + k), MthRange(w, s + k, e))
        <5>1. \A b \in Nat : b = Len(w) /\ e <= b /\ n >= 2 /\ n = e - s
                => \A l : l = LargestPow2Lt(n)
                     => MthRange(w, s, e) = NodeHash(MthRange(w, s, s + l), MthRange(w, s + l, e))
          BY MthSplit
        <5> QED
          BY <3>1, <3>2, <5>1
      <4> QED
        BY <3>2, <4>1, Zenon
    <3>5. k \in SameOn(v, w, D) /\ n - k \in SameOn(v, w, D)
      BY <1>1
    <3>6. MthRange(v, s, t) = MthRange(w, s, t)
      <4>1. k = t - s /\ t <= Len(v) /\ t <= Len(w) /\ (s + 1)..t \subseteq D
        BY <3>2
      <4> QED
        BY <3>5, <4>1 DEF SameOn
    <3>7. MthRange(v, t, e) = MthRange(w, t, e)
      <4>1. n - k = e - t /\ (t + 1)..e \subseteq D
        BY <3>2
      <4> QED
        BY <3>5, <4>1 DEF SameOn
    <3> QED
      BY <3>3, <3>4, <3>6, <3>7
  <2> QED
    BY <2>1, <2>2
<1> QED
  BY <1>1, InductionOnSizes

\* The same, for one range.
LEMMA MthSame ==
  ASSUME NEW v, NEW w, Len(v) \in Nat, Len(w) \in Nat, NEW s \in Nat, NEW e \in Nat, s < e,
         e <= Len(v), e <= Len(w), \A i \in (s + 1)..e : v[i] = w[i]
  PROVE  MthRange(v, s, e) = MthRange(w, s, e)
<1>1. PICK n \in Nat \ {0} : n = e - s
  OBVIOUS
<1>2. n \in SameOn(v, w, (s + 1)..e)
  BY MthLocal
<1> QED
  BY <1>1, <1>2 DEF SameOn

(***************************************************************************)
(* Two histories with one tree hash are the same: leaves and inner nodes are *)
(* hashed under different tags.                                             *)
(***************************************************************************)
\* Every hash of the list is one of a leaf.
AreLeaves(v) == \A i \in 1..Len(v) : \E x : v[i] = LeafHash(x)

\* The n leaves of v after s and the n leaves of w after t are the same.
Equals(v, w, s, t, n) == \A i \in 1..n : v[s + i] = w[t + i]

\* Ranges of n leaves of v that have the hash of a range of w.
Commits(v, w) ==
  {n \in Nat : \A s, e, t, f \in Nat :
     n = e - s /\ t < f /\ e <= Len(v) /\ f <= Len(w) /\ MthRange(v, s, e) = MthRange(w, t, f)
       => n = f - t /\ Equals(v, w, s, t, n)}

\* The tag tells a leaf from an inner node,
LEMMA NodeIsNoLeaf ==
  ASSUME NEW x, NEW a, NEW b
  PROVE  LeafHash(x) # NodeHash(a, b)
BY DEF LeafHash, NodeHash

\* and a node's two parts are determined by it.
LEMMA NodeParts ==
  ASSUME NEW a, NEW b, NEW c, NEW d, NodeHash(a, b) = NodeHash(c, d)
  PROVE  a = c /\ b = d
BY DEF NodeHash

\* The tree hash of one leaf is that leaf, of more it is an inner node.
IsNode(h) == \E a, b : h = NodeHash(a, b)
IsLeaf(h) == \E x : h = LeafHash(x)

\* One leaf hashes to itself, more to a node.
LEMMA MthKind ==
  ASSUME NEW v, NEW N \in Nat, N = Len(v), AreLeaves(v), NEW s \in Nat, NEW e \in Nat, s < e, e <= N
  PROVE  /\ e - s = 1 => IsLeaf(MthRange(v, s, e)) /\ MthRange(v, s, e) = v[s + 1]
         /\ e - s # 1 => IsNode(MthRange(v, s, e))
<1>1. ASSUME e - s = 1
      PROVE  IsLeaf(MthRange(v, s, e)) /\ MthRange(v, s, e) = v[s + 1]
  <2>1. e = s + 1 /\ s < N /\ s + 1 \in 1..Len(v)
    BY <1>1
  <2>2. MthRange(v, s, s + 1) = v[s + 1]
    BY <2>1, MthLeaf
  <2> QED
    BY <2>1, <2>2 DEF AreLeaves, IsLeaf
<1>2. ASSUME e - s # 1
      PROVE  IsNode(MthRange(v, s, e))
  <2>1. PICK n \in Nat : n = e - s /\ n >= 2
    BY <1>2
  <2>2. PICK k : k = LargestPow2Lt(n)
    OBVIOUS
  <2>3. MthRange(v, s, e) = NodeHash(MthRange(v, s, s + k), MthRange(v, s + k, e))
    BY <2>1, <2>2, MthSplit, SMTT(30)
  <2> QED
    BY <2>3 DEF IsNode
<1> QED
  BY <1>1, <1>2

\* Equal tree hashes: as many leaves, and the same ones.
LEMMA TreeHashCommits ==
  ASSUME NEW v, NEW w, Len(v) \in Nat, Len(w) \in Nat, AreLeaves(v), AreLeaves(w)
  PROVE  \A n \in Nat \ {0} : n \in Commits(v, w)
<1>1. ASSUME NEW n \in Nat \ {0}, \A m \in 1..(n - 1) : m \in Commits(v, w)
      PROVE  n \in Commits(v, w)
  <2> SUFFICES ASSUME NEW s \in Nat, NEW e \in Nat, NEW t \in Nat, NEW f \in Nat,
                      n = e - s, t < f, e <= Len(v), f <= Len(w),
                      MthRange(v, s, e) = MthRange(w, t, f)
               PROVE  n = f - t /\ Equals(v, w, s, t, n)
    BY DEF Commits
  <2>1. PICK q \in Nat \ {0} : q = f - t
    OBVIOUS
  <2>2. /\ n = 1 => IsLeaf(MthRange(v, s, e)) /\ MthRange(v, s, e) = v[s + 1]
        /\ n # 1 => IsNode(MthRange(v, s, e))
    <3>1. s < e
      OBVIOUS
    <3> QED
      BY <3>1, MthKind
  <2>3. /\ q = 1 => IsLeaf(MthRange(w, t, f)) /\ MthRange(w, t, f) = w[t + 1]
        /\ q # 1 => IsNode(MthRange(w, t, f))
    BY <2>1, MthKind
  <2>4. n = 1 <=> q = 1
    BY <2>2, <2>3, NodeIsNoLeaf DEF IsLeaf, IsNode
  <2>5. CASE n = 1
    <3>1. v[s + 1] = w[t + 1]
      BY <2>2, <2>3, <2>4, <2>5
    <3>2. \A i \in 1..1 : i = 1
      OBVIOUS
    <3> QED
      BY <2>1, <2>4, <2>5, <3>1, <3>2 DEF Equals
  <2>6. CASE n # 1
    <3>1. q # 1 /\ n >= 2 /\ q >= 2
      BY <2>4, <2>6
    <3>2. PICK k \in 1..(n - 1) : k = LargestPow2Lt(n)
      BY <3>1, SplitRange
    <3>3. PICK g \in 1..(q - 1) : g = LargestPow2Lt(q)
      BY <3>1, SplitRange
    <3>4. PICK x \in Nat, y \in Nat : x = s + k /\ y = t + g
      OBVIOUS
    <3>5. MthRange(v, s, e) = NodeHash(MthRange(v, s, x), MthRange(v, x, e))
      <4>1. MthRange(v, s, e) = NodeHash(MthRange(v, s, s + k), MthRange(v, s + k, e))
        <5>1. n \in Nat /\ n >= 2 /\ n = e - s /\ k = LargestPow2Lt(n)
          BY <3>1, <3>2
        <5>2. PICK N \in Nat : N = Len(v) /\ e <= N
          OBVIOUS
        <5> QED
          BY <5>1, <5>2, MthSplit, SMTT(30)
      <4> QED
        BY <3>4, <4>1, Zenon
    <3>6. MthRange(w, t, f) = NodeHash(MthRange(w, t, y), MthRange(w, y, f))
      <4>1. MthRange(w, t, f) = NodeHash(MthRange(w, t, t + g), MthRange(w, t + g, f))
        <5>1. q \in Nat /\ q >= 2 /\ q = f - t /\ g = LargestPow2Lt(q)
          BY <2>1, <3>1, <3>3
        <5>2. PICK N \in Nat : N = Len(w) /\ f <= N
          OBVIOUS
        <5> QED
          BY <5>1, <5>2, MthSplit, SMTT(30)
      <4> QED
        BY <3>4, <4>1, Zenon
    <3>7. MthRange(v, s, x) = MthRange(w, t, y) /\ MthRange(v, x, e) = MthRange(w, y, f)
      <4>1. NodeHash(MthRange(v, s, x), MthRange(v, x, e))
              = NodeHash(MthRange(w, t, y), MthRange(w, y, f))
        BY <3>5, <3>6, Zenon
      <4> QED
        BY <4>1, NodeParts
    <3>8. k \in Commits(v, w) /\ n - k \in Commits(v, w)
      BY <1>1
    <3>9. k = g /\ Equals(v, w, s, t, k)
      <4>1. k = x - s /\ g = y - t /\ t < y /\ x <= Len(v) /\ y <= Len(w)
        BY <2>1, <3>4
      <4>2. k = y - t /\ Equals(v, w, s, t, k)
        BY <3>7, <3>8, <4>1 DEF Commits
      <4> QED
        BY <4>1, <4>2
    <3>10. n - k = q - g /\ Equals(v, w, x, y, n - k)
      <4>1. n - k = e - x /\ q - g = f - y /\ y < f
        BY <2>1, <3>4
      <4>2. n - k = f - y /\ Equals(v, w, x, y, n - k)
        BY <3>7, <3>8, <4>1 DEF Commits
      <4> QED
        BY <4>1, <4>2
    <3>11. ASSUME NEW i \in 1..n
           PROVE  v[s + i] = w[t + i]
      <4>1. CASE i <= k
        <5>1. i \in 1..k
          BY <4>1
        <5> QED
          BY <3>9, <5>1 DEF Equals
      <4>2. CASE ~(i <= k)
        <5>1. PICK j \in 1..(n - k) : i = k + j
          <6>1. i - k \in 1..(n - k) /\ i = k + (i - k)
            BY <4>2
          <6> QED
            BY <6>1
        <5>2. v[x + j] = w[y + j]
          BY <3>10 DEF Equals
        <5>3. x + j = s + i /\ y + j = t + i
          BY <3>4, <3>9, <5>1
        <5> QED
          BY <5>2, <5>3
      <4> QED
        BY <4>1, <4>2
    <3>12. n = q
      BY <3>9, <3>10
    <3> QED
      BY <2>1, <3>11, <3>12 DEF Equals
  <2> QED
    BY <2>5, <2>6
<1> QED
  BY <1>1, InductionOnSizes

----
(***************************************************************************)
(* The frontier.  Its peaks cover the first n leaves from the right: the    *)
(* i-th peak is the hash of the range that begins at starts[i] and ends     *)
(* where the peak before it begins.                                         *)
(***************************************************************************)
Covers(frontier, starts, n, leaves) ==
  /\ \A i \in 0..Len(frontier) : starts[i] \in Nat
  /\ \A i \in 1..Len(frontier) : frontier[i].level \in Nat
  /\ \A i, j \in 1..Len(frontier) : i < j => frontier[i].level < frontier[j].level
  /\ starts[0] = n /\ starts[Len(frontier)] = 0
  /\ \A i \in 1..Len(frontier) : starts[i] + Pow2(frontier[i].level) = starts[i - 1]
  /\ \A i \in 1..Len(frontier) : frontier[i].hash = MthRange(leaves, starts[i], starts[i - 1])

\* The peaks up to a level without gaps are the first ones.
Ascend(level, m) ==
  /\ \A i \in 1..m : level[i] \in Nat
  /\ \A i, j \in 1..m : i < j => level[i] < level[j]
\* Every level below f is one of them.
AllBelow(level, m, f) == \A l \in 0..(f - 1) : \E j \in 1..m : level[j] = l

\* Ascending levels that include all below f begin with them.
LEMMA LowPeaks ==
  ASSUME NEW m \in Nat, NEW level, Ascend(level, m), NEW f \in Nat, AllBelow(level, m, f)
  PROVE  f <= m /\ \A i \in 1..f : level[i] = i - 1
<1>10. /\ \A i \in 1..m : level[i] \in Nat
       /\ \A i, j \in 1..m : i < j => level[i] < level[j]
       /\ \A l \in 0..(f - 1) : \E j \in 1..m : level[j] = l
  BY DEF Ascend, AllBelow
<1> DEFINE Good == {i \in Nat : i <= f => i <= m /\ \A j \in 1..i : level[j] = j - 1}
<1>1. 0 \in Good
  OBVIOUS
<1>2. ASSUME NEW i \in Nat, i \in Good
      PROVE  i + 1 \in Good
  <2> SUFFICES ASSUME i + 1 <= f
               PROVE  i + 1 <= m /\ \A j \in 1..(i + 1) : level[j] = j - 1
    OBVIOUS
  <2>1. i <= m /\ \A j \in 1..i : level[j] = j - 1
    BY <1>2
  <2>2. i \in 0..(f - 1)
    OBVIOUS
  <2>3. PICK j \in 1..m : level[j] = i
    BY <1>10, <2>2
  <2>4. ~(j <= i)
    BY <2>1, <2>3
  <2>5. i + 1 <= m /\ i + 1 \in 1..m
    BY <2>4
  <2>6. level[i + 1] >= i
    <3>1. CASE i = 0
      BY <1>10, <2>5, <3>1
    <3>2. CASE i # 0
      <4>1. i \in 1..m /\ i < i + 1 /\ level[i] = i - 1
        BY <2>1, <3>2
      <4>2. level[i] < level[i + 1]
        BY <1>10, <2>5, <4>1
      <4> QED
        BY <1>10, <2>5, <4>1, <4>2
    <3> QED
      BY <3>1, <3>2
  <2>7. ~(i + 1 < j)
    <3>1. ASSUME i + 1 < j
          PROVE  FALSE
      <4>1. level[i + 1] < level[j]
        BY <1>10, <2>5, <3>1
      <4> QED
        BY <1>10, <2>3, <2>5, <2>6, <4>1
    <3> QED
      BY <3>1
  <2>8. j = i + 1
    BY <2>4, <2>7
  <2> QED
    BY <2>1, <2>3, <2>5, <2>8
<1>3. f \in Good
  <2> HIDE DEF Good
  <2> QED
    BY <1>1, <1>2, InductionOnSet
<1> QED
  BY <1>3

\* The free level is free, and the peaks below it are one per level.
LEMMA FreeLevelIs ==
  ASSUME NEW frontier, NEW m \in Nat, m = Len(frontier), DOMAIN frontier = 1..m,
         \A i \in 1..m : frontier[i].level \in Nat,
         \A i, j \in 1..m : i < j => frontier[i].level < frontier[j].level
  PROVE  /\ FreeLevel(frontier) \in 0..m
         /\ \A i \in 1..FreeLevel(frontier) : frontier[i].level = i - 1
         /\ \A i \in (FreeLevel(frontier) + 1)..m : frontier[i].level > FreeLevel(frontier)
<1>1. PICK level : level = [i \in 1..m |-> frontier[i].level]
  OBVIOUS
<1>2. /\ \A i \in 1..m : level[i] \in Nat /\ level[i] = frontier[i].level
      /\ \A i, j \in 1..m : i < j => level[i] < level[j]
  BY <1>1
<1>3. \A l : l \in FrontierLevels(frontier) <=> \E j \in 1..m : level[j] = l
  BY <1>2 DEF FrontierLevels
<1> DEFINE Free(l) == /\ l \notin FrontierLevels(frontier)
                      /\ \A k \in 0..(l - 1) : k \in FrontierLevels(frontier)
           Unused == {l \in 0..m : l \notin FrontierLevels(frontier)}
<1>4. Unused # {}
  <2> SUFFICES ASSUME Unused = {}
               PROVE  FALSE
    OBVIOUS
  <2>1. PICK k \in Nat : k = m + 1
    OBVIOUS
  <2>2. ASSUME NEW l \in 0..(k - 1)
        PROVE  \E j \in 1..m : level[j] = l
    <3>1. l \in 0..m
      BY <2>1
    <3>2. l \in FrontierLevels(frontier)
      BY <3>1
    <3> QED
      BY <1>3, <3>2
  <2> HIDE DEF Unused, Free
  <2>3. k <= m
    <3>1. AllBelow(level, m, k) /\ Ascend(level, m)
      BY <1>2, <2>2 DEF AllBelow, Ascend
    <3> QED
      BY <3>1, LowPeaks
  <2> QED
    BY <2>1, <2>3
<1>5. \E l \in 0..m : Free(l)
  <2>1. Unused \in SUBSET Nat
    OBVIOUS
  <2>2. PICK l \in Unused : \A k \in Unused : l <= k
    <3> HIDE DEF Unused
    <3> QED
      BY <1>4, <2>1, LeastNatural
  <2>3. \A k \in 0..(l - 1) : k \in FrontierLevels(frontier)
    BY <2>2
  <2> QED
    BY <2>2, <2>3
<1>6. PICK f \in 0..m : f = FreeLevel(frontier) /\ Free(f)
  <2>1. FreeLevel(frontier) = CHOOSE l \in 0..m : Free(l)
    BY DEF FreeLevel
  <2> HIDE DEF Free
  <2> QED
    BY <1>5, <2>1
<1>7. \A l \in 0..(f - 1) : \E j \in 1..m : level[j] = l
  BY <1>3, <1>6
<1>8. f \in Nat
  OBVIOUS
<1> HIDE DEF Unused, Free
<1>9. \A i \in 1..f : level[i] = i - 1
  <2>1. PICK g \in Nat : g = f
    BY <1>8
  <2>2. \A l \in 0..(g - 1) : \E j \in 1..m : level[j] = l
    BY <1>7, <2>1
  <2>3. AllBelow(level, m, g)
    BY <2>2 DEF AllBelow
  <2>4. Ascend(level, m)
    BY <1>2 DEF Ascend
  <2>5. g <= m /\ \A i \in 1..g : level[i] = i - 1
    BY <2>3, <2>4, LowPeaks
  <2> QED
    BY <2>1, <2>5
<1>10. ASSUME NEW i \in (f + 1)..m
       PROVE  level[i] > f
  <2>1. i \in 1..m /\ level[i] # f
    BY <1>3, <1>6 DEF Free
  <2>2. CASE f = 0
    BY <1>2, <2>1, <2>2
  <2>3. CASE f # 0
    <3>1. f \in 1..m /\ f < i /\ level[f] = f - 1
      BY <1>9, <2>3
    <3>2. level[f] < level[i]
      BY <1>2, <2>1, <3>1
    <3> QED
      BY <1>2, <2>1, <3>1, <3>2
  <2> QED
    BY <2>2, <2>3
<1> QED
  <2>1. \A i \in 1..f : i \in 1..m
    OBVIOUS
  <2>2. \A i \in (f + 1)..m : i \in 1..m
    OBVIOUS
  <2> QED
    BY <1>2, <1>6, <1>9, <1>10, <2>1, <2>2

\* A list without entries of A has none left.
LEMMA FilterNone ==
  ASSUME NEW S, NEW s \in Seq(S), NEW A, \A i \in 1..Len(s) : s[i] \notin A
  PROVE  Filter(s, A) = << >>
<1>1. PICK r \in Seq(S) : r = Filter(s, A)
  BY FilterType
<1>2. ASSUME NEW i \in 1..Len(r)
      PROVE  FALSE
  <2>1. Contains(r, r[i])
    BY DEF Contains
  <2>2. r[i] \in A /\ Contains(s, r[i])
    BY <1>1, <2>1, FilterEntries
  <2> QED
    BY <2>2 DEF Contains
<1>3. Len(r) = 0
  <2>1. Len(r) \in Nat
    BY LenProperties
  <2> QED
    BY <1>2, <2>1
<1> QED
  BY <1>1, <1>3, EmptySeq

\* The peaks above the free level are those after the carried ones.
LEMMA PeaksAboveIs ==
  ASSUME NEW S, NEW frontier \in Seq(S), NEW f \in 0..Len(frontier),
         \A i \in 1..f : ~(frontier[i].level > f),
         \A i \in (f + 1)..Len(frontier) : frontier[i].level > f
  PROVE  PeaksAbove(frontier, f) = SubSeq(frontier, f + 1, Len(frontier))
<1>1. PICK m \in Nat : m = Len(frontier)
  BY LenProperties
<1>2. PICK lo, hi : lo = SubSeq(frontier, 1, f) /\ hi = SubSeq(frontier, f + 1, Len(frontier))
  OBVIOUS
<1>21. /\ lo \in Seq(S) /\ hi \in Seq(S) /\ Len(lo) = f /\ Len(hi) = Len(frontier) - f
       /\ \A i \in 1..f : lo[i] = frontier[i]
       /\ \A i \in 1..(Len(frontier) - f) : hi[i] = frontier[f + i]
  <2>1. /\ SubSeq(frontier, 1, f) \in Seq(S) /\ SubSeq(frontier, f + 1, Len(frontier)) \in Seq(S)
        /\ Len(SubSeq(frontier, 1, f)) = f
        /\ \A i \in 1..f : SubSeq(frontier, 1, f)[i] = frontier[i]
        /\ Len(SubSeq(frontier, f + 1, Len(frontier))) = Len(frontier) - f
        /\ \A i \in 1..(Len(frontier) - f) :
             SubSeq(frontier, f + 1, Len(frontier))[i] = frontier[f + i]
    BY CutEntries
  <2> QED
    BY <1>2, <2>1, Zenon
<1>20. /\ lo \in Seq(S) /\ hi \in Seq(S) /\ Len(lo) = f /\ Len(hi) = m - f
       /\ \A i \in 1..f : lo[i] = frontier[i]
       /\ \A i \in 1..(m - f) : hi[i] = frontier[f + i]
  BY <1>1, <1>21, Zenon
<1>3. frontier = lo \o hi
  <2>1. f \in Nat /\ f <= m /\ 0 \in Nat /\ 0 <= f
    BY <1>1
  <2>2. Part(frontier, 0, f) \o Part(frontier, f, m) = Part(frontier, 0, m)
    BY <1>1, <2>1, PartsJoin
  <2>3. Part(frontier, 0, m) = frontier
    BY <1>1, PartFull
  <2>4. Part(frontier, 0, f) = lo /\ Part(frontier, f, m) = hi
    BY <1>1, <1>2, <2>1 DEF Part, PartEnd
  <2> QED
    BY <2>2, <2>3, <2>4, Zenon
<1>4. PICK A : A = {peak \in ToSet(frontier) : peak.level > f}
  OBVIOUS
<1>5. PeaksAbove(frontier, f) = Filter(frontier, A)
  BY <1>4, Zenon DEF PeaksAbove
<1>6. Filter(lo, A) = << >>
  <2>1. \A i \in 1..Len(lo) : lo[i] \notin A
    BY <1>20, <1>4
  <2> QED
    BY <1>20, <2>1, FilterNone
<1>7. Filter(hi, A) = hi
  <2>1. \A i \in 1..m : frontier[i] \in ToSet(frontier)
    BY <1>1, LenProperties DEF ToSet
  <2>2. ASSUME NEW i \in 1..(m - f)
        PROVE  hi[i] \in A
    <3>1. f + i \in 1..m /\ f + i \in (f + 1)..Len(frontier)
      BY <1>1
    <3> QED
      BY <1>20, <1>4, <2>1, <3>1
  <2> QED
    BY <1>20, <2>2, FilterAll
<1>8. Filter(lo \o hi, A) = Filter(lo, A) \o Filter(hi, A)
  BY <1>20, FilterConcat
<1>9. << >> \o hi = hi
  BY <1>20, ConcatEmptySeq
<1> QED
  BY <1>1, <1>2, <1>3, <1>5, <1>6, <1>7, <1>8, <1>9, Zenon

----
(***************************************************************************)
(* Hashing upwards, one sibling after the other.                            *)
(***************************************************************************)
\* f climbs from c past the siblings x, of which those in right are on the right.
Climbs(f, n, c, x, right) ==
  /\ f[0] = c
  /\ \A i \in 1..n : f[i] = IF i \in right THEN NodeHash(f[i - 1], x[i])
                            ELSE NodeHash(x[i], f[i - 1])

\* Such a climb exists, however many siblings there are.
LEMMA ClimbExists ==
  ASSUME NEW n \in Nat, NEW c, NEW x, NEW right
  PROVE  \E f : f = [i \in 0..n |-> f[i]] /\ Climbs(f, n, c, x, right)
<1> DEFINE Up(i, h) == IF i \in right THEN NodeHash(h, x[i]) ELSE NodeHash(x[i], h)
           It(f, k) == f[0] = c /\ \A i \in 1..k : f[i] = Up(i, f[i - 1])
           Good == {k \in Nat : \E f : It(f, k)}
<1>1. 0 \in Good
  <2> DEFINE f == [i \in 0..0 |-> c]
  <2>1. It(f, 0)
    OBVIOUS
  <2> QED
    BY <2>1
<1>2. ASSUME NEW k \in Nat, k \in Good
      PROVE  k + 1 \in Good
  <2>1. PICK g : It(g, k)
    BY <1>2
  <2> DEFINE f == [i \in 0..(k + 1) |-> IF i = k + 1 THEN Up(k + 1, g[k]) ELSE g[i]]
  <2>2. f[0] = c
    BY <2>1
  <2>3. ASSUME NEW i \in 1..(k + 1)
        PROVE  f[i] = Up(i, f[i - 1])
    <3>1. f[i - 1] = g[i - 1]
      OBVIOUS
    <3>2. CASE i = k + 1
      <4>1. f[i] = Up(i, g[i - 1])
        BY <3>2
      <4> HIDE DEF f, Up
      <4> QED
        BY <3>1, <4>1
    <3>3. CASE i # k + 1
      <4>1. f[i] = g[i] /\ i \in 1..k
        BY <3>3
      <4>2. g[i] = Up(i, g[i - 1])
        BY <2>1, <4>1
      <4> HIDE DEF f, Up
      <4> QED
        BY <3>1, <4>1, <4>2
    <3> QED
      BY <3>2, <3>3
  <2>4. It(f, k + 1)
    <3> HIDE DEF f, Up
    <3> QED
      BY <2>2, <2>3
  <2> QED
    <3> HIDE DEF f, It
    <3> QED
      BY <2>4
<1>3. n \in Good
  <2> HIDE DEF Good
  <2> QED
    BY <1>1, <1>2, InductionOnSet
<1>4. PICK g : It(g, n)
  BY <1>3
<1> DEFINE f == [i \in 0..n |-> g[i]]
<1>5. f[0] = c /\ \A i \in 1..n : f[i] = Up(i, f[i - 1])
  <2>1. \A i \in 1..n : f[i] = g[i] /\ f[i - 1] = g[i - 1]
    OBVIOUS
  <2>2. f[0] = g[0]
    OBVIOUS
  <2> HIDE DEF f, Up
  <2> QED
    BY <1>4, <2>1, <2>2
<1>6. f = [i \in 0..n |-> f[i]]
  OBVIOUS
<1>7. Climbs(f, n, c, x, right)
  <2> HIDE DEF f
  <2> QED
    BY <1>5 DEF Climbs
<1> HIDE DEF f
<1> QED
  BY <1>6, <1>7

\* frontier_root climbs from the lowest peak past the others.
RootClimb(f, frontier, m) ==
  /\ f[0] = frontier[1].hash
  /\ \A i \in 1..(m - 1) : f[i] = NodeHash(frontier[i + 1].hash, f[i - 1])
  /\ FrontierRoot(frontier) = f[m - 1]

\* FrontierRoot is where that climb ends.
LEMMA FrontierRootClimbs ==
  ASSUME NEW frontier, NEW m \in Nat \ {0}, m = Len(frontier), frontier # << >>
  PROVE  \E f : RootClimb(f, frontier, m)
<1> DEFINE Step(f) == [i \in 0..(Len(frontier) - 1) |->
             IF i = 0 THEN frontier[1].hash ELSE NodeHash(frontier[i + 1].hash, f[i - 1])]
<1>1. \E f : f = Step(f)
  <2>1. PICK x : x = [i \in 1..(m - 1) |-> frontier[i + 1].hash]
    OBVIOUS
  <2>2. PICK n \in Nat : n = m - 1
    OBVIOUS
  <2>3. PICK f : f = [i \in 0..n |-> f[i]] /\ Climbs(f, n, frontier[1].hash, x, {})
    BY ClimbExists
  <2>4. /\ f[0] = frontier[1].hash
        /\ \A i \in 1..n : f[i] = NodeHash(x[i], f[i - 1])
    BY <2>3 DEF Climbs
  <2>5. \A i \in 0..n : f[i] = Step(f)[i]
    BY <2>1, <2>2, <2>4
  <2>6. Step(f) = [i \in 0..n |-> Step(f)[i]]
    BY <2>2
  <2>7. f = Step(f)
    <3> HIDE DEF Step
    <3> QED
      BY <2>3, <2>5, <2>6
  <2> QED
    BY <2>7
<1>2. PICK f : f = Step(f) /\ FrontierRoot(frontier) = f[m - 1]
  <2> DEFINE acc == CHOOSE f : f = Step(f)
  <2>1. acc = Step(acc)
    <3> HIDE DEF Step
    <3> QED
      BY <1>1, Zenon
  <2>2. FrontierRoot(frontier) = acc[m - 1]
    BY Zenon DEF FrontierRoot
  <2> HIDE DEF acc
  <2> QED
    BY <2>1, <2>2, Zenon
<1>3. \A i \in 0..(m - 1) : f[i] = Step(f)[i]
  <2> HIDE DEF Step
  <2> QED
    BY <1>2
<1>4. f[0] = frontier[1].hash
  BY <1>3
<1>5. \A i \in 1..(m - 1) : f[i] = NodeHash(frontier[i + 1].hash, f[i - 1])
  BY <1>3
<1> QED
  BY <1>2, <1>4, <1>5 DEF RootClimb

\* What lies to the right of a peak is less than twice as much as the peak.
LEMMA StartsFall ==
  ASSUME NEW frontier, NEW m \in Nat, m = Len(frontier), NEW starts, NEW n \in Nat, NEW leaves,
         Covers(frontier, starts, n, leaves)
  PROVE  \A i \in 1..m : /\ starts[i] + Pow2(frontier[i].level) <= n
                         /\ n - starts[i] < 2 * Pow2(frontier[i].level)
<1>1. /\ \A i \in 0..m : starts[i] \in Nat
      /\ \A i \in 1..m : frontier[i].level \in Nat
      /\ \A i, j \in 1..m : i < j => frontier[i].level < frontier[j].level
      /\ starts[0] = n
      /\ \A i \in 1..m : starts[i] + Pow2(frontier[i].level) = starts[i - 1]
  BY DEF Covers
<1>2. \A i \in 1..m : Pow2(frontier[i].level) \in Nat \ {0}
  BY <1>1, Pow2Above
<1> DEFINE Good == {i \in Nat : i \in 1..m =>
                      /\ starts[i] + Pow2(frontier[i].level) <= n
                      /\ n - starts[i] < 2 * Pow2(frontier[i].level)}
<1>3. 0 \in Good
  OBVIOUS
<1>4. ASSUME NEW i \in Nat, i \in Good
      PROVE  i + 1 \in Good
  <2> SUFFICES ASSUME i + 1 \in 1..m
               PROVE  /\ starts[i + 1] + Pow2(frontier[i + 1].level) <= n
                      /\ n - starts[i + 1] < 2 * Pow2(frontier[i + 1].level)
    OBVIOUS
  <2>1. PICK p \in Nat \ {0} : p = Pow2(frontier[i + 1].level)
    BY <1>2
  <2>2. PICK a \in Nat, b \in Nat : a = starts[i] /\ b = starts[i + 1]
    <3>1. i \in 0..m /\ i + 1 \in 0..m
      OBVIOUS
    <3> QED
      BY <1>1, <3>1
  <2>3. b + p = a
    <3>1. i + 1 - 1 = i
      OBVIOUS
    <3> QED
      BY <1>1, <2>1, <2>2, <3>1
  <2>4. CASE i = 0
    BY <1>1, <2>1, <2>2, <2>3, <2>4
  <2>5. CASE i # 0
    <3>1. i \in 1..m
      BY <2>5
    <3>2. PICK q \in Nat \ {0} : q = Pow2(frontier[i].level)
      BY <1>2, <3>1
    <3>3. a + q <= n /\ n - a < 2 * q
      BY <1>4, <2>2, <3>1, <3>2
    <3>4. 2 * q <= p
      <4>1. frontier[i].level < frontier[i + 1].level
        BY <1>1, <3>1
      <4> QED
        BY <1>1, <2>1, <3>1, <3>2, <4>1, Pow2Rises
    <3>5. b + p <= n /\ n - b < 2 * p
      BY <2>3, <3>2, <3>3, <3>4
    <3> QED
      BY <2>1, <2>2, <3>5
  <2> QED
    BY <2>4, <2>5
<1>5. \A i \in Nat : i \in Good
  <2> HIDE DEF Good
  <2> QED
    BY <1>3, <1>4, InductionOnSet
<1> QED
  BY <1>5

\* The root of a frontier is the tree hash of what it covers.
LEMMA CoveredRoot ==
  ASSUME NEW frontier, NEW m \in Nat, m = Len(frontier), NEW starts, NEW n \in Nat \ {0},
         NEW leaves, NEW N \in Nat, N = Len(leaves), n <= N, Covers(frontier, starts, n, leaves)
  PROVE  FrontierRoot(frontier) = MthRange(leaves, 0, n)
<1>1. /\ \A i \in 0..m : starts[i] \in Nat
      /\ \A i \in 1..m : frontier[i].level \in Nat
      /\ \A i, j \in 1..m : i < j => frontier[i].level < frontier[j].level
      /\ starts[0] = n /\ starts[m] = 0
      /\ \A i \in 1..m : starts[i] + Pow2(frontier[i].level) = starts[i - 1]
      /\ \A i \in 1..m : frontier[i].hash = MthRange(leaves, starts[i], starts[i - 1])
  BY DEF Covers
<1>2. m # 0
  BY <1>1
<1>3. frontier # << >>
  BY <1>2
<1>4. PICK f : /\ f[0] = frontier[1].hash
               /\ \A i \in 1..(m - 1) : f[i] = NodeHash(frontier[i + 1].hash, f[i - 1])
               /\ FrontierRoot(frontier) = f[m - 1]
  <2>1. m \in Nat \ {0}
    BY <1>2
  <2>2. PICK f : RootClimb(f, frontier, m)
    BY <1>3, <2>1, FrontierRootClimbs
  <2> QED
    BY <2>2 DEF RootClimb
<1> DEFINE Good == {i \in Nat : i < m => f[i] = MthRange(leaves, starts[i + 1], n)}
<1>5. 0 \in Good
  BY <1>1, <1>2, <1>4
<1>6. ASSUME NEW i \in Nat, i \in Good
      PROVE  i + 1 \in Good
  <2> SUFFICES ASSUME i + 1 < m
               PROVE  f[i + 1] = MthRange(leaves, starts[i + 2], n)
    OBVIOUS
  <2>1. i + 1 \in 1..m /\ i + 2 \in 1..m /\ i + 1 \in 1..(m - 1)
    OBVIOUS
  <2>2. PICK a \in Nat, c \in Nat : a = starts[i + 1] /\ c = starts[i + 2]
    BY <1>1, <2>1
  <2>3. PICK k \in Nat, b \in Nat : b = frontier[i + 2].level /\ k = Pow2(b)
    BY <1>1, <2>1, Pow2Above
  <2>4. c + k = a
    <3>1. i + 2 - 1 = i + 1
      OBVIOUS
    <3> QED
      BY <1>1, <2>1, <2>2, <2>3, <3>1
  <2>5. f[i + 1] = NodeHash(MthRange(leaves, c, a), MthRange(leaves, a, n))
    <3>1. f[i] = MthRange(leaves, a, n)
      BY <1>6, <2>2
    <3>2. frontier[i + 2].hash = MthRange(leaves, c, a)
      <4>1. i + 2 - 1 = i + 1
        OBVIOUS
      <4> QED
        BY <1>1, <2>1, <2>2, <4>1
    <3>3. f[i + 1] = NodeHash(frontier[i + 2].hash, f[i])
      <4>1. (i + 1) + 1 = i + 2 /\ (i + 1) - 1 = i
        OBVIOUS
      <4> QED
        BY <1>4, <2>1, <4>1
    <3> QED
      BY <3>1, <3>2, <3>3
  <2>6. PICK d \in Nat \ {0} : a + d = n /\ d <= k
    <3>1. PICK p \in Nat \ {0} : p = Pow2(frontier[i + 1].level)
      BY <1>1, <2>1, Pow2Above
    <3>2. a + p <= n /\ n - a < 2 * p
      BY <2>1, <2>2, <3>1, StartsFall
    <3>3. 2 * p <= k
      <4>1. frontier[i + 1].level < b
        BY SMTT(60), <1>1, <2>1, <2>3
      <4> QED
        BY <1>1, <2>1, <2>3, <3>1, <4>1, Pow2Rises
    <3>4. n - a \in Nat \ {0} /\ n - a <= k
      BY <3>2, <3>3
    <3> QED
      BY <3>4
  <2>7. MthRange(leaves, c, c + k + d)
          = NodeHash(MthRange(leaves, c, c + k), MthRange(leaves, c + k, c + k + d))
    <3>1. PICK L \in Nat : L = Len(leaves) /\ c + k + d <= L
      BY <1>1, <2>4, <2>6
    <3>2. d <= Pow2(b)
      BY <2>3, <2>6
    <3> HIDE DEF Good
    <3> QED
      BY <2>3, <3>1, <3>2, MthNode, SMTT(30)
  <2> QED
    BY <2>2, <2>4, <2>5, <2>6, <2>7
<1>7. \A i \in Nat : i \in Good
  <2> HIDE DEF Good
  <2> QED
    BY <1>5, <1>6, InductionOnSet
<1>8. f[m - 1] = MthRange(leaves, starts[m], n)
  <2>1. m - 1 \in Nat /\ m - 1 < m /\ (m - 1) + 1 = m
    BY <1>2
  <2> QED
    BY <1>7, <2>1
<1> QED
  BY <1>1, <1>4, <1>8

----
(***************************************************************************)
(* frontier_append: the peaks below the first free level and the new leaf    *)
(* are carried into one peak, and the frontier covers one more leaf.         *)
(***************************************************************************)
\* The frontier is the compact one of the first n leaves.
Covering(frontier, n, leaves) ==
  \E S, starts : frontier \in Seq(S) /\ Covers(frontier, starts, n, leaves)

\* The first f peaks have the levels below f.
LowLevels(frontier, f) == \A i \in 1..f : frontier[i].level = i - 1

\* What the peaks below the free level begin at.
LEMMA LowStarts ==
  ASSUME NEW frontier, NEW m \in Nat, m = Len(frontier), NEW starts, NEW n \in Nat, NEW leaves,
         Covers(frontier, starts, n, leaves), NEW f \in 0..m,
         LowLevels(frontier, f)
  PROVE  \A l \in 0..f : starts[l] + Pow2(l) = n + 1
<1>0. \A i \in 1..f : frontier[i].level = i - 1
  BY DEF LowLevels
<1>1. /\ \A i \in 0..m : starts[i] \in Nat
      /\ starts[0] = n
      /\ \A i \in 1..m : starts[i] + Pow2(frontier[i].level) = starts[i - 1]
  BY DEF Covers
<1> DEFINE Good == {l \in Nat : l <= f => starts[l] + Pow2(l) = n + 1}
<1>2. 0 \in Good
  BY <1>1, Pow2Zero
<1>3. ASSUME NEW l \in Nat, l \in Good
      PROVE  l + 1 \in Good
  <2> SUFFICES ASSUME l + 1 <= f
               PROVE  starts[l + 1] + Pow2(l + 1) = n + 1
    OBVIOUS
  <2>1. l + 1 \in 1..m /\ l + 1 \in 1..f /\ l \in 0..m /\ l + 1 \in 0..m /\ (l + 1) - 1 = l
    OBVIOUS
  <2>2. starts[l] + Pow2(l) = n + 1
    BY <1>3
  <2>3. starts[l + 1] + Pow2(l) = starts[l]
    BY <1>0, <1>1, <2>1
  <2>4. PICK p \in Nat : p = Pow2(l) /\ Pow2(l + 1) = 2 * p
    BY Pow2Next, Pow2Above
  <2>5. starts[l] \in Nat /\ starts[l + 1] \in Nat
    BY <1>1, <2>1
  <2> QED
    BY <2>2, <2>3, <2>4, <2>5
<1>4. \A l \in Nat : l \in Good
  <2> HIDE DEF Good
  <2> QED
    BY <1>2, <1>3, InductionOnSet
<1> QED
  BY <1>4

\* A peak is found by its level.
LEMMA PeakHashIs ==
  ASSUME NEW frontier, NEW m \in Nat, DOMAIN frontier = 1..m,
         \A i \in 1..m : frontier[i].level \in Nat,
         \A i, j \in 1..m : i < j => frontier[i].level < frontier[j].level,
         NEW i \in 1..m
  PROVE  PeakHash(frontier, frontier[i].level) = frontier[i].hash
<1> DEFINE l == frontier[i].level
<1>1. \A j \in 1..m : frontier[j].level = l => j = i
  <2> SUFFICES ASSUME NEW j \in 1..m, frontier[j].level = l, j # i
               PROVE  FALSE
    OBVIOUS
  <2>1. j < i \/ i < j
    OBVIOUS
  <2> QED
    BY <2>1
<1>2. (CHOOSE j \in DOMAIN frontier : frontier[j].level = l) = i
  BY <1>1
<1> QED
  BY <1>2, Zenon DEF PeakHash

\* What the carry of an append has become at each level.
Carries(c, frontier, leaf, m) ==
  /\ c[0] = leaf
  /\ \A l \in 1..m : c[l] = NodeHash(PeakHash(frontier, l - 1), c[l - 1])
  /\ FrontierAppend(frontier, leaf)
       = <<[level |-> FreeLevel(frontier), hash |-> c[FreeLevel(frontier)]]>>
           \o PeaksAbove(frontier, FreeLevel(frontier))

\* FrontierAppend puts the carry that reached the free level in front.
LEMMA CarryExists ==
  ASSUME NEW frontier, NEW m \in Nat, m = Len(frontier), NEW leaf
  PROVE  \E c : Carries(c, frontier, leaf, m)
<1> DEFINE Step(c) == [l \in 0..Len(frontier) |->
             IF l = 0 THEN leaf ELSE Merge(PeakHash(frontier, l - 1), c[l - 1])]
<1>1. \E c : c = Step(c)
  <2>1. PICK x : x = [l \in 1..m |-> PeakHash(frontier, l - 1)]
    OBVIOUS
  <2>2. PICK c : c = [i \in 0..m |-> c[i]] /\ Climbs(c, m, leaf, x, {})
    BY ClimbExists
  <2>3. /\ c[0] = leaf
        /\ \A i \in 1..m : c[i] = NodeHash(x[i], c[i - 1])
    BY <2>2 DEF Climbs
  <2>4. ASSUME NEW l \in 0..m
        PROVE  c[l] = Step(c)[l]
    <3>1. CASE l = 0
      BY <2>3, <3>1
    <3>2. CASE l # 0
      <4>1. l \in 1..m
        BY <3>2
      <4>2. c[l] = NodeHash(PeakHash(frontier, l - 1), c[l - 1])
        BY <2>1, <2>3, <4>1
      <4>3. Step(c)[l] = Merge(PeakHash(frontier, l - 1), c[l - 1])
        BY <3>2
      <4> QED
        BY <4>2, <4>3, Zenon DEF Merge
    <3> QED
      BY <3>1, <3>2
  <2>5. Step(c) = [l \in 0..m |-> Step(c)[l]]
    OBVIOUS
  <2>6. c = Step(c)
    <3> HIDE DEF Step
    <3> QED
      BY <2>2, <2>4, <2>5
  <2> QED
    BY <2>6
<1>2. PICK c : /\ c = Step(c)
               /\ FrontierAppend(frontier, leaf)
                    = <<[level |-> FreeLevel(frontier), hash |-> c[FreeLevel(frontier)]]>>
                        \o PeaksAbove(frontier, FreeLevel(frontier))
  <2> DEFINE carry == CHOOSE c : c = Step(c)
  <2>1. carry = Step(carry)
    <3> HIDE DEF Step
    <3> QED
      BY <1>1, Zenon
  <2>2. FrontierAppend(frontier, leaf)
          = <<[level |-> FreeLevel(frontier), hash |-> carry[FreeLevel(frontier)]]>>
              \o PeaksAbove(frontier, FreeLevel(frontier))
    BY Zenon DEF FrontierAppend
  <2> HIDE DEF carry
  <2> QED
    BY <2>1, <2>2, Zenon
<1>3. \A l \in 0..m : c[l] = Step(c)[l]
  <2> HIDE DEF Step
  <2> QED
    BY <1>2
<1>4. c[0] = leaf
  BY <1>3
<1>5. ASSUME NEW l \in 1..m
      PROVE  c[l] = NodeHash(PeakHash(frontier, l - 1), c[l - 1])
  <2>1. c[l] = Merge(PeakHash(frontier, l - 1), c[l - 1])
    BY <1>3
  <2> QED
    BY <2>1, Zenon DEF Merge
<1> QED
  BY <1>2, <1>4, <1>5, Zenon DEF Carries

\* At each level up to the free one, the carry is the hash of the last leaves.
LEMMA CarryIs ==
  ASSUME NEW frontier, NEW m \in Nat, m = Len(frontier), DOMAIN frontier = 1..m,
         NEW starts, NEW n \in Nat, NEW leaves, NEW N \in Nat, N = Len(leaves), n + 1 <= N,
         Covers(frontier, starts, n, leaves), NEW f \in 0..m,
         LowLevels(frontier, f), NEW c, Carries(c, frontier, leaves[n + 1], m)
  PROVE  \A l \in 0..f : c[l] = MthRange(leaves, starts[l], n + 1)
<1>0. \A i \in 1..f : frontier[i].level = i - 1
  BY DEF LowLevels
<1>1. /\ \A i \in 0..m : starts[i] \in Nat
      /\ \A i \in 1..m : frontier[i].level \in Nat
      /\ \A i, j \in 1..m : i < j => frontier[i].level < frontier[j].level
      /\ starts[0] = n
      /\ \A i \in 1..m : frontier[i].hash = MthRange(leaves, starts[i], starts[i - 1])
  BY DEF Covers
<1>2. c[0] = leaves[n + 1] /\ \A l \in 1..m : c[l] = NodeHash(PeakHash(frontier, l - 1), c[l - 1])
  BY DEF Carries
<1>3. \A l \in 0..f : starts[l] + Pow2(l) = n + 1
  BY LowStarts
<1> DEFINE Good == {l \in Nat : l <= f => c[l] = MthRange(leaves, starts[l], n + 1)}
<1>4. 0 \in Good
  <2>1. MthRange(leaves, n, n + 1) = leaves[n + 1]
    BY MthLeaf
  <2> QED
    BY <1>1, <1>2, <2>1
<1>5. ASSUME NEW l \in Nat, l \in Good
      PROVE  l + 1 \in Good
  <2> SUFFICES ASSUME l + 1 <= f
               PROVE  c[l + 1] = MthRange(leaves, starts[l + 1], n + 1)
    OBVIOUS
  <2>1. l + 1 \in 1..m /\ l + 1 \in 1..f /\ l \in 0..f /\ l + 1 \in 0..f /\ (l + 1) - 1 = l
    OBVIOUS
  <2>2. c[l] = MthRange(leaves, starts[l], n + 1)
    BY <1>5
  <2>3. PICK p \in Nat \ {0} : p = Pow2(l) /\ Pow2(l + 1) = 2 * p
    BY Pow2Next, Pow2Above
  <2>4. PICK a \in Nat, b \in Nat : a = starts[l + 1] /\ b = starts[l]
    <3>1. l \in 0..m /\ l + 1 \in 0..m
      OBVIOUS
    <3> QED
      BY <1>1, <3>1
  <2>5. a + p = b /\ b + p = n + 1
    <3>1. starts[l] + Pow2(l) = n + 1 /\ starts[l + 1] + Pow2(l + 1) = n + 1
      BY <1>3, <2>1
    <3>2. b + p = n + 1 /\ a + 2 * p = n + 1
      BY <2>3, <2>4, <3>1, Zenon
    <3> QED
      BY <3>2
  <2>6. PeakHash(frontier, l) = MthRange(leaves, a, b)
    <3>1. PeakHash(frontier, frontier[l + 1].level) = frontier[l + 1].hash
      BY <1>1, <2>1, PeakHashIs
    <3>2. frontier[l + 1].level = l
      BY <1>0, <2>1
    <3>3. frontier[l + 1].hash = MthRange(leaves, starts[l + 1], starts[l])
      BY <1>1, <2>1
    <3> QED
      BY <2>4, <3>1, <3>2, <3>3
  <2>7. MthRange(leaves, a, a + p + p)
          = NodeHash(MthRange(leaves, a, a + p), MthRange(leaves, a + p, a + p + p))
    <3>1. a + p + p <= N
      BY <2>5
    <3>2. p \in Nat /\ p = Pow2(l) /\ p <= Pow2(l)
      BY <2>3
    <3> QED
      BY SMTT(60), <3>1, <3>2, MthNode
  <2>8. a + p + p = n + 1
    BY <2>5
  <2>9. MthRange(leaves, a, n + 1) = NodeHash(MthRange(leaves, a, b), MthRange(leaves, b, n + 1))
    BY <2>5, <2>7, <2>8
  <2>10. c[l + 1] = NodeHash(PeakHash(frontier, l), c[l])
    BY <1>2, <2>1
  <2> QED
    BY <2>2, <2>4, <2>6, <2>9, <2>10, Zenon
<1>6. \A l \in Nat : l \in Good
  <2> HIDE DEF Good
  <2> QED
    BY <1>4, <1>5, InductionOnSet
<1> QED
  BY <1>6

\* An append: from the first n leaves to the first n + 1.
LEMMA AppendCovers ==
  ASSUME NEW frontier, NEW n \in Nat, NEW leaves, NEW N \in Nat, N = Len(leaves), n + 1 <= N,
         Covering(frontier, n, leaves)
  PROVE  Covering(FrontierAppend(frontier, leaves[n + 1]), n + 1, leaves)
<1>1. PICK S, starts : frontier \in Seq(S) /\ Covers(frontier, starts, n, leaves)
  BY DEF Covering
<1>2. PICK m \in Nat : m = Len(frontier) /\ DOMAIN frontier = 1..m
  BY <1>1, LenProperties
<1>3. /\ \A i \in 0..m : starts[i] \in Nat
      /\ \A i \in 1..m : frontier[i].level \in Nat
      /\ \A i, j \in 1..m : i < j => frontier[i].level < frontier[j].level
      /\ starts[0] = n /\ starts[m] = 0
      /\ \A i \in 1..m : starts[i] + Pow2(frontier[i].level) = starts[i - 1]
      /\ \A i \in 1..m : frontier[i].hash = MthRange(leaves, starts[i], starts[i - 1])
  BY <1>1, <1>2 DEF Covers
<1>4. PICK f \in 0..m : /\ f = FreeLevel(frontier)
                        /\ \A i \in 1..f : frontier[i].level = i - 1
                        /\ \A i \in (f + 1)..m : frontier[i].level > f
  <2>1. /\ FreeLevel(frontier) \in 0..m
        /\ \A i \in 1..FreeLevel(frontier) : frontier[i].level = i - 1
        /\ \A i \in (FreeLevel(frontier) + 1)..m : frontier[i].level > FreeLevel(frontier)
    BY ZenonT(60), <1>2, <1>3, FreeLevelIs
  <2> QED
    BY <2>1
<1>5. PICK c : Carries(c, frontier, leaves[n + 1], m)
  BY <1>2, CarryExists
<1>6. c[f] = MthRange(leaves, starts[f], n + 1) /\ starts[f] + Pow2(f) = n + 1
  <2>0. LowLevels(frontier, f)
    BY <1>4 DEF LowLevels
  <2>1. \A l \in 0..f : c[l] = MthRange(leaves, starts[l], n + 1)
    BY <1>1, <1>2, <1>5, <2>0, CarryIs
  <2>2. \A l \in 0..f : starts[l] + Pow2(l) = n + 1
    BY <1>1, <1>2, <2>0, LowStarts
  <2> QED
    BY <2>1, <2>2
<1>7. PICK hi : /\ hi = SubSeq(frontier, f + 1, Len(frontier)) /\ hi \in Seq(S) /\ Len(hi) = m - f
                /\ \A i \in 1..(m - f) : hi[i] = frontier[f + i]
  <2>1. f \in 0..Len(frontier)
    BY <1>2
  <2>2. /\ SubSeq(frontier, f + 1, Len(frontier)) \in Seq(S)
        /\ Len(SubSeq(frontier, f + 1, Len(frontier))) = Len(frontier) - f
        /\ \A i \in 1..(Len(frontier) - f) :
             SubSeq(frontier, f + 1, Len(frontier))[i] = frontier[f + i]
    BY <1>1, <2>1, CutEntries
  <2> QED
    BY <1>2, <2>2, Zenon
<1>8. PeaksAbove(frontier, f) = hi
  <2>1. f \in 0..Len(frontier) /\ \A i \in 1..f : ~(frontier[i].level > f)
    BY <1>2, <1>4
  <2>2. \A i \in (f + 1)..Len(frontier) : frontier[i].level > f
    BY <1>2, <1>4
  <2> QED
    BY <1>1, <1>7, <2>1, <2>2, PeaksAboveIs
<1>9. PICK peak : peak = [level |-> f, hash |-> c[f]]
  OBVIOUS
<1>10. PICK g : g = FrontierAppend(frontier, leaves[n + 1]) /\ g = <<peak>> \o hi
  BY <1>4, <1>5, <1>8, <1>9, Zenon DEF Carries
<1>11. PICK T : T = S \cup {peak}
  OBVIOUS
<1>12. /\ g \in Seq(T) /\ Len(g) = m - f + 1 /\ g[1] = peak
       /\ \A i \in 1..(m - f) : g[i + 1] = frontier[f + i]
  <2>1. <<peak>> \in Seq(T) /\ Len(<<peak>>) = 1 /\ <<peak>>[1] = peak
    BY <1>11
  <2>2. hi \in Seq(T)
    BY <1>7, <1>11
  <2>3. /\ <<peak>> \o hi \in Seq(T) /\ Len(<<peak>> \o hi) = Len(<<peak>>) + Len(hi)
        /\ \A i \in 1..(Len(<<peak>>) + Len(hi)) :
             (<<peak>> \o hi)[i] = IF i <= Len(<<peak>>) THEN <<peak>>[i]
                                   ELSE hi[i - Len(<<peak>>)]
    BY <2>1, <2>2, ConcatProperties
  <2>31. /\ g \in Seq(T) /\ Len(g) = Len(<<peak>>) + Len(hi)
         /\ \A i \in 1..(Len(<<peak>>) + Len(hi)) :
              g[i] = IF i <= Len(<<peak>>) THEN <<peak>>[i] ELSE hi[i - Len(<<peak>>)]
    BY <1>10, <2>3, Zenon
  <2>32. PICK one : one = <<peak>> /\ Len(one) = 1 /\ one[1] = peak
    BY <2>1
  <2>33. /\ g \in Seq(T) /\ Len(g) = 1 + (m - f)
         /\ \A i \in 1..(1 + (m - f)) : g[i] = IF i <= 1 THEN one[i] ELSE hi[i - 1]
    BY <1>7, <2>31, <2>32, Zenon
  <2>4. /\ g \in Seq(T) /\ Len(g) = 1 + (m - f)
        /\ \A i \in 1..(1 + (m - f)) : g[i] = IF i <= 1 THEN peak ELSE hi[i - 1]
    BY <2>32, <2>33
  <2>5. \A i \in 1..(m - f) : i + 1 \in 1..(1 + (m - f)) /\ ~(i + 1 <= 1) /\ (i + 1) - 1 = i
    OBVIOUS
  <2> QED
    BY <1>7, <2>4, <2>5
<1>13. PICK k \in Nat : k = m - f
  OBVIOUS
<1>14. PICK t : t = [i \in 0..(k + 1) |-> IF i = 0 THEN n + 1 ELSE starts[f + i - 1]]
  OBVIOUS
<1>15. t[0] = n + 1 /\ \A i \in 0..k : t[i + 1] = starts[f + i]
  <2>1. \A i \in 0..k : i + 1 \in 0..(k + 1) /\ i + 1 # 0 /\ f + (i + 1) - 1 = f + i
    OBVIOUS
  <2> QED
    BY <1>14, <2>1
<1>16. ASSUME NEW i \in 1..(k + 1), i # 1
       PROVE  \E j \in 1..k : /\ i = j + 1 /\ f + j \in 1..m /\ f + j \in (f + 1)..m
                              /\ g[i] = frontier[f + j]
                              /\ t[i] = starts[f + j] /\ t[i - 1] = starts[f + j - 1]
  <2>1. PICK j \in 1..k : i = j + 1
    <3>1. i - 1 \in 1..k /\ i = (i - 1) + 1
      BY <1>16
    <3> QED
      BY <3>1
  <2>2. f + j \in 1..m /\ f + j \in (f + 1)..m /\ j \in 0..k /\ j - 1 \in 0..k
        /\ i - 1 = (j - 1) + 1 /\ f + (j - 1) = f + j - 1
    BY <1>13, <2>1
  <2>3. g[i] = frontier[f + j] /\ t[i] = starts[f + j]
    BY <1>12, <1>13, <1>15, <2>1, <2>2
  <2>4. t[i - 1] = starts[f + j - 1]
    BY <1>15, <2>2
  <2> QED
    BY <2>1, <2>2, <2>3, <2>4
<1>17. peak.level = f /\ peak.hash = c[f]
  BY <1>9
<1>18. t[1] = starts[f] /\ g[1] = peak
  BY <1>12, <1>15
<1>19. Covers(g, t, n + 1, leaves)
  <2>1. \A i \in 0..(k + 1) : t[i] \in Nat
    <3> SUFFICES ASSUME NEW i \in 0..(k + 1)
                 PROVE  t[i] \in Nat
      OBVIOUS
    <3>1. CASE i = 0
      BY <1>15, <3>1
    <3>2. CASE i # 0
      <4>1. i - 1 \in 0..k /\ i = (i - 1) + 1 /\ f + (i - 1) \in 0..m
        BY <1>13, <3>2
      <4>2. t[i] = starts[f + (i - 1)]
        BY <1>15, <4>1
      <4> QED
        BY <1>3, <4>1, <4>2
    <3> QED
      BY <3>1, <3>2
  <2>2. \A i \in 1..(k + 1) : g[i].level \in Nat
    <3> SUFFICES ASSUME NEW i \in 1..(k + 1)
                 PROVE  g[i].level \in Nat
      OBVIOUS
    <3>1. CASE i = 1
      BY <1>17, <1>18, <3>1
    <3>2. CASE i # 1
      BY <1>3, <1>16, <3>2
    <3> QED
      BY <3>1, <3>2
  <2>3. ASSUME NEW i \in 1..(k + 1), NEW j \in 1..(k + 1), i < j
        PROVE  g[i].level < g[j].level
    <3>1. PICK y \in 1..k : /\ j = y + 1 /\ f + y \in 1..m /\ f + y \in (f + 1)..m
                            /\ g[j] = frontier[f + y]
      BY <1>16, <2>3
    <3>2. CASE i = 1
      BY <1>4, <1>17, <1>18, <3>1, <3>2
    <3>3. CASE i # 1
      <4>1. PICK x \in 1..k : i = x + 1 /\ f + x \in 1..m /\ g[i] = frontier[f + x]
        BY <1>16, <3>3
      <4>2. f + x < f + y
        <5>1. x + 1 < y + 1
          BY <2>3, <3>1, <4>1, Zenon
        <5> QED
          BY <5>1
      <4> QED
        BY <1>3, <3>1, <4>1, <4>2
    <3> QED
      BY <3>2, <3>3
  <2>4. t[0] = n + 1 /\ t[k + 1] = 0
    <3>1. k \in 0..k /\ f + k = m
      BY <1>13
    <3> QED
      BY <1>3, <1>15, <3>1
  <2>5. ASSUME NEW i \in 1..(k + 1)
        PROVE  /\ t[i] + Pow2(g[i].level) = t[i - 1]
               /\ g[i].hash = MthRange(leaves, t[i], t[i - 1])
    <3>1. CASE i = 1
      <4>1. t[i] = starts[f] /\ g[i].level = f /\ g[i].hash = c[f] /\ t[i - 1] = n + 1
        BY <1>15, <1>17, <1>18, <3>1
      <4> QED
        BY <1>6, <4>1
    <3>2. CASE i # 1
      <4>1. PICK j \in 1..k : /\ f + j \in 1..m /\ g[i] = frontier[f + j]
                              /\ t[i] = starts[f + j] /\ t[i - 1] = starts[f + j - 1]
        BY <1>16, <3>2
      <4>2. /\ starts[f + j] + Pow2(frontier[f + j].level) = starts[f + j - 1]
            /\ frontier[f + j].hash = MthRange(leaves, starts[f + j], starts[f + j - 1])
        BY <1>3, <4>1
      <4> QED
        BY <4>1, <4>2, Zenon
    <3> QED
      BY <3>1, <3>2
  <2>6. Len(g) = k + 1
    BY <1>12, <1>13
  <2> QED
    BY <2>1, <2>2, <2>3, <2>4, <2>5, <2>6 DEF Covers
<1> QED
  BY <1>10, <1>12, <1>19 DEF Covering

\* The empty frontier covers no leaf.
LEMMA NothingCovered ==
  ASSUME NEW leaves
  PROVE  Covering(<< >>, 0, leaves)
<1>1. << >> \in Seq({}) /\ Len(<< >>) = 0
  BY EmptySeq
<1>2. PICK t : t = [i \in 0..0 |-> 0]
  OBVIOUS
<1>3. t[0] = 0
  BY <1>2
<1>4. Covers(<< >>, t, 0, leaves)
  BY <1>1, <1>3 DEF Covers
<1> QED
  BY <1>1, <1>4 DEF Covering

\* What a frontier covers depends on the leaves it covers alone.
LEMMA CoversSame ==
  ASSUME NEW frontier, NEW n \in Nat, NEW v, NEW w, Len(v) \in Nat, Len(w) \in Nat,
         n <= Len(v), n <= Len(w), \A i \in 1..n : v[i] = w[i], Covering(frontier, n, v)
  PROVE  Covering(frontier, n, w)
<1>1. PICK S, starts : frontier \in Seq(S) /\ Covers(frontier, starts, n, v)
  BY DEF Covering
<1>2. PICK m \in Nat : m = Len(frontier)
  BY <1>1, LenProperties
<1>3. /\ \A i \in 0..m : starts[i] \in Nat
      /\ \A i \in 1..m : frontier[i].level \in Nat
      /\ \A i \in 1..m : starts[i] + Pow2(frontier[i].level) = starts[i - 1]
      /\ \A i \in 1..m : frontier[i].hash = MthRange(v, starts[i], starts[i - 1])
  BY <1>1, <1>2 DEF Covers
<1>4. ASSUME NEW i \in 1..m
      PROVE  frontier[i].hash = MthRange(w, starts[i], starts[i - 1])
  <2>1. PICK p \in Nat \ {0} : p = Pow2(frontier[i].level)
    BY <1>3, Pow2Above
  <2>2. PICK a \in Nat, b \in Nat : a = starts[i] /\ b = starts[i - 1]
    <3>1. i \in 0..m /\ i - 1 \in 0..m
      OBVIOUS
    <3> QED
      BY <1>3, <3>1
  <2>3. a < b
    <3>1. a + p = b
      BY <1>3, <2>1, <2>2
    <3> QED
      BY <3>1
  <2>4. b <= n
    <3>1. starts[i] + Pow2(frontier[i].level) <= n
      BY <1>1, <1>2, StartsFall
    <3> QED
      BY <1>3, <2>2, <3>1
  <2>5. b <= Len(v) /\ b <= Len(w) /\ \A j \in (a + 1)..b : v[j] = w[j]
    BY <2>4
  <2>7. MthRange(v, a, b) = MthRange(w, a, b)
    BY <2>3, <2>5, MthSame
  <2> QED
    BY <1>3, <2>2, <2>7
<1>5. Covers(frontier, starts, n, w)
  BY <1>1, <1>2, <1>4 DEF Covers
<1> QED
  BY <1>1, <1>5 DEF Covering

----
(***************************************************************************)
(* The occupied levels are the set bits of the number of leaves.             *)
(***************************************************************************)
\* Division, from its remainder.
LEMMA Quotient ==
  ASSUME NEW p \in Nat \ {0}, NEW q \in Nat, NEW r \in 0..(p - 1), NEW n \in Nat, n = p * q + r
  PROVE  n \div p = q
<1>1. PICK d \in Nat, e \in 0..(p - 1) : d = n \div p /\ n = p * d + e
  OBVIOUS
<1>2. ~(d >= q + 1)
  <2>1. ASSUME d >= q + 1
        PROVE  FALSE
    <3>1. PICK x \in Nat : d = q + 1 + x
      <4>1. d - (q + 1) \in Nat /\ d = q + 1 + (d - (q + 1))
        BY <2>1
      <4> QED
        BY <4>1
    <3>2. p * d = p * q + p + p * x /\ p * x \in Nat /\ p * q \in Nat
      BY <3>1
    <3> QED
      BY <1>1, <3>2
  <2> QED
    BY <2>1
<1>3. ~(q >= d + 1)
  <2>1. ASSUME q >= d + 1
        PROVE  FALSE
    <3>1. PICK x \in Nat : q = d + 1 + x
      <4>1. q - (d + 1) \in Nat /\ q = d + 1 + (q - (d + 1))
        BY <2>1
      <4> QED
        BY <4>1
    <3>2. p * q = p * d + p + p * x /\ p * x \in Nat /\ p * d \in Nat
      BY <3>1
    <3> QED
      BY <1>1, <3>2
  <2> QED
    BY <2>1
<1> QED
  BY <1>1, <1>2, <1>3

\* a is a multiple of p.
Multiple(a, p) == \E q \in Nat : a = q * p
\* The peaks after the i-th are above level b.
AllAbove(frontier, i, m, b) == \A j \in (i + 1)..m : b < frontier[j].level

\* What begins above every level up to b is a multiple of twice 2^b.
LEMMA StartsAreMultiples ==
  ASSUME NEW frontier, NEW m \in Nat, m = Len(frontier), NEW starts, NEW n \in Nat, NEW leaves,
         Covers(frontier, starts, n, leaves), NEW b \in Nat
  PROVE  \A i \in 0..m : AllAbove(frontier, i, m, b) => Multiple(starts[i], Pow2(b + 1))
<1>1. /\ \A i \in 0..m : starts[i] \in Nat
      /\ \A i \in 1..m : frontier[i].level \in Nat
      /\ starts[m] = 0
      /\ \A i \in 1..m : starts[i] + Pow2(frontier[i].level) = starts[i - 1]
  BY DEF Covers
<1>2. PICK p \in Nat \ {0} : p = Pow2(b + 1)
  BY Pow2Above
<1> DEFINE Fits(i) == (\A j \in (i + 1)..m : b < frontier[j].level) =>
                         \E q \in Nat : starts[i] = q * p
           Good == {d \in Nat : \A i \in 0..m : i = m - d => Fits(i)}
<1>3. 0 \in Good
  <2>1. \A i \in 0..m : i = m - 0 => starts[i] = 0 * p
    BY <1>1
  <2> QED
    BY <2>1
<1>4. ASSUME NEW d \in Nat, d \in Good
      PROVE  d + 1 \in Good
  <2> SUFFICES ASSUME NEW i \in 0..m, i = m - (d + 1), \A j \in (i + 1)..m : b < frontier[j].level
               PROVE  \E q \in Nat : starts[i] = q * p
    OBVIOUS
  <2>1. i + 1 \in 1..m /\ i + 1 \in 0..m /\ i + 1 = m - d /\ i + 1 \in (i + 1)..m /\ (i + 1) - 1 = i
    OBVIOUS
  <2>2. \A j \in ((i + 1) + 1)..m : j \in (i + 1)..m
    OBVIOUS
  <2>3. Fits(i + 1)
    BY <1>4, <2>1
  <2>4. \A j \in ((i + 1) + 1)..m : b < frontier[j].level
    BY <2>2
  <2>5. PICK q \in Nat : starts[i + 1] = q * p
    <3>1. \E q \in Nat : starts[i + 1] = q * p
      BY <2>3, <2>4
    <3> QED
      BY <3>1
  <2>6. PICK c \in Nat : c = frontier[i + 1].level /\ b + 1 <= c
    BY SMTT(60), <1>1, <2>1
  <2>7. PICK x \in Nat \ {0} : Pow2(c) = x * p
    <3>1. b + 1 \in Nat
      OBVIOUS
    <3>2. \E x \in Nat \ {0} : Pow2(c) = x * Pow2(b + 1)
      BY <2>6, <3>1, Pow2Multiple
    <3> QED
      BY <1>2, <3>2
  <2>8. starts[i] = starts[i + 1] + Pow2(c)
    BY <1>1, <2>1, <2>6
  <2>9. starts[i] = q * p + x * p
    BY <2>5, <2>7, <2>8
  <2>10. q * p + x * p = (q + x) * p /\ q + x \in Nat
    OBVIOUS
  <2> QED
    BY <2>9, <2>10
<1>5. \A d \in Nat : d \in Good
  <2> HIDE DEF Good
  <2> QED
    BY <1>3, <1>4, InductionOnSet
<1>6. ASSUME NEW i \in 0..m
      PROVE  Fits(i)
  <2>1. m - i \in Nat /\ i = m - (m - i)
    OBVIOUS
  <2>2. m - i \in Good
    BY <1>5, <2>1
  <2> QED
    BY <2>1, <2>2
<1> QED
  BY <1>2, <1>6 DEF AllAbove, Multiple

\* A level has a peak exactly when its bit in the number of leaves is set.
LEMMA SetBits ==
  ASSUME NEW frontier, NEW n \in Nat, NEW leaves, Covering(frontier, n, leaves)
  PROVE  /\ \A i \in 1..(Len(frontier) - 1) : frontier[i].level < frontier[i + 1].level
         /\ FrontierLevels(frontier)
              = {b \in 0..(1 + n \div 2) : (n \div Pow2(b)) % 2 = 1}
<1>1. PICK S, starts : frontier \in Seq(S) /\ Covers(frontier, starts, n, leaves)
  BY DEF Covering
<1>2. PICK m \in Nat : m = Len(frontier) /\ DOMAIN frontier = 1..m
  BY <1>1, LenProperties
<1>3. /\ \A i \in 0..m : starts[i] \in Nat
      /\ \A i \in 1..m : frontier[i].level \in Nat
      /\ \A i, j \in 1..m : i < j => frontier[i].level < frontier[j].level
      /\ starts[0] = n
      /\ \A i \in 1..m : starts[i] + Pow2(frontier[i].level) = starts[i - 1]
  BY <1>1, <1>2 DEF Covers
<1>4. \A i \in 1..(m - 1) : frontier[i].level < frontier[i + 1].level
  <2>1. \A i \in 1..(m - 1) : i \in 1..m /\ i + 1 \in 1..m /\ i < i + 1
    OBVIOUS
  <2> QED
    BY <1>3, <2>1
<1>5. \A x : x \in FrontierLevels(frontier) <=> \E i \in 1..m : frontier[i].level = x
  BY <1>2 DEF FrontierLevels
<1>6. ASSUME NEW i \in 1..m
      PROVE  /\ frontier[i].level \in 0..(1 + n \div 2)
             /\ (n \div Pow2(frontier[i].level)) % 2 = 1
  <2>1. PICK b \in Nat : b = frontier[i].level
    BY <1>3
  <2>2. PICK p \in Nat \ {0} : p = Pow2(b) /\ Pow2(b + 1) = 2 * p
    BY Pow2Above, Pow2Next
  <2>3. PICK a \in Nat : a = starts[i] /\ a + p <= n /\ n - a < 2 * p
    <3>1. i \in 0..m
      OBVIOUS
    <3>2. /\ starts[i] + Pow2(frontier[i].level) <= n
          /\ n - starts[i] < 2 * Pow2(frontier[i].level)
      BY <1>1, <1>2, StartsFall
    <3> QED
      BY <1>3, <2>1, <2>2, <3>1, <3>2
  <2>4. PICK q \in Nat : a = q * (2 * p)
    <3>1. \A j \in (i + 1)..m : j \in 1..m /\ i < j
      OBVIOUS
    <3>2. \A j \in (i + 1)..m : b < frontier[j].level
      BY <1>3, <2>1, <3>1
    <3>3. i \in 0..m
      OBVIOUS
    <3>4. Multiple(starts[i], Pow2(b + 1))
      <4>1. AllAbove(frontier, i, m, b)
        BY <3>2 DEF AllAbove
      <4> QED
        BY <1>1, <1>2, <3>3, <4>1, StartsAreMultiples
    <3> QED
      BY <2>2, <2>3, <3>4 DEF Multiple
  <2>5. PICK r \in 0..(p - 1) : n = a + p + r
    <3>1. n - a - p \in 0..(p - 1) /\ n = a + p + (n - a - p)
      BY <2>3
    <3> QED
      BY <3>1
  <2>6. n = p * (2 * q + 1) + r
    <3>1. q * (2 * p) = p * (2 * q) /\ p * (2 * q + 1) = p * (2 * q) + p
      OBVIOUS
    <3> QED
      BY <2>4, <2>5, <3>1
  <2>7. n \div p = 2 * q + 1
    <3>1. 2 * q + 1 \in Nat
      OBVIOUS
    <3> QED
      BY <2>6, <3>1, Quotient
  <2>8. (2 * q + 1) % 2 = 1
    OBVIOUS
  <2>9. b <= n \div 2
    <3>1. 2 * b <= p
      BY <2>2, Pow2Twice
    <3>2. 2 * b <= n
      BY <2>3, <3>1
    <3> QED
      BY <3>2
  <2>10. b \in 0..(1 + n \div 2)
    BY <2>9
  <2> QED
    BY <2>1, <2>2, <2>7, <2>8, <2>10
<1>7. ASSUME NEW b \in Nat, \A i \in 1..m : frontier[i].level # b
      PROVE  (n \div Pow2(b)) % 2 = 0
  <2>1. PICK p \in Nat \ {0} : p = Pow2(b) /\ Pow2(b + 1) = 2 * p
    BY Pow2Above, Pow2Next
  <2> DEFINE Higher == {k \in 1..(m + 1) : k \in 1..m => b < frontier[k].level}
  <2>2. PICK k \in Higher : \A j \in Higher : k <= j
    <3>1. m + 1 \in Higher /\ Higher \in SUBSET Nat
      OBVIOUS
    <3> HIDE DEF Higher
    <3> QED
      BY <3>1, LeastNatural
  <2>3. PICK i \in 0..m : k = i + 1
    <3>1. k - 1 \in 0..m /\ k = (k - 1) + 1
      OBVIOUS
    <3> QED
      BY <3>1
  <2>4. \A j \in (i + 1)..m : b < frontier[j].level
    <3> SUFFICES ASSUME NEW j \in (i + 1)..m
                 PROVE  b < frontier[j].level
      OBVIOUS
    <3>1. k \in 1..m /\ j \in 1..m /\ k <= j
      BY <2>3
    <3>2. b < frontier[k].level
      BY <3>1
    <3>3. CASE k = j
      BY <3>2, <3>3
    <3>4. CASE k # j
      <4>1. frontier[k].level < frontier[j].level
        BY <1>3, <3>1, <3>4
      <4> QED
        BY <1>3, <3>1, <3>2, <4>1
    <3> QED
      BY <3>3, <3>4
  <2>5. PICK q \in Nat : starts[i] = q * (2 * p)
    <3>1. Multiple(starts[i], Pow2(b + 1))
      <4>1. AllAbove(frontier, i, m, b)
        BY <2>4 DEF AllAbove
      <4> QED
        BY <1>1, <1>2, <4>1, StartsAreMultiples
    <3> QED
      BY <2>1, <3>1 DEF Multiple
  <2>6. starts[i] <= n /\ n - starts[i] < p /\ starts[i] \in Nat
    <3>1. CASE i = 0
      BY <1>3, <3>1
    <3>2. CASE i # 0
      <4>1. i \in 1..m /\ i \notin Higher
        BY <2>2, <2>3, <3>2
      <4>2. frontier[i].level \in Nat /\ frontier[i].level < b
        BY <1>3, <1>7, <4>1
      <4>3. PICK c \in Nat : c = frontier[i].level /\ 2 * Pow2(c) <= p
        BY <2>1, <4>2, Pow2Rises
      <4>4. starts[i] + Pow2(c) <= n /\ n - starts[i] < 2 * Pow2(c) /\ starts[i] \in Nat
        <5>1. /\ starts[i] + Pow2(frontier[i].level) <= n
              /\ n - starts[i] < 2 * Pow2(frontier[i].level)
          BY <1>1, <1>2, <4>1, StartsFall
        <5> QED
          BY <1>3, <4>3, <5>1
      <4>5. Pow2(c) \in Nat
        BY Pow2Above
      <4> QED
        BY <4>3, <4>4, <4>5
    <3> QED
      BY <3>1, <3>2
  <2>7. PICK r \in 0..(p - 1) : n = starts[i] + r
    <3>1. n - starts[i] \in 0..(p - 1) /\ n = starts[i] + (n - starts[i])
      BY <2>6
    <3> QED
      BY <3>1
  <2>8. n = p * (2 * q) + r
    <3>1. q * (2 * p) = p * (2 * q)
      OBVIOUS
    <3> QED
      BY <2>5, <2>7, <3>1
  <2>9. n \div p = 2 * q
    <3>1. 2 * q \in Nat
      OBVIOUS
    <3> QED
      BY <2>8, <3>1, Quotient
  <2>10. (2 * q) % 2 = 0
    OBVIOUS
  <2> QED
    BY <2>1, <2>9, <2>10
<1>8. FrontierLevels(frontier) = {b \in 0..(1 + n \div 2) : (n \div Pow2(b)) % 2 = 1}
  <2> DEFINE Bits == {b \in 0..(1 + n \div 2) : (n \div Pow2(b)) % 2 = 1}
  <2>1. ASSUME NEW x \in FrontierLevels(frontier)
        PROVE  x \in Bits
    BY <1>5, <1>6
  <2>2. ASSUME NEW x \in Bits
        PROVE  x \in FrontierLevels(frontier)
    <3>1. x \in Nat /\ (n \div Pow2(x)) % 2 = 1
      OBVIOUS
    <3> HIDE DEF Bits
    <3> QED
      BY <1>5, <1>7, <3>1
  <2> HIDE DEF Bits
  <2>3. FrontierLevels(frontier) = Bits
    BY <2>1, <2>2
  <2> QED
    BY <2>3 DEF Bits
<1> QED
  BY <1>2, <1>4, <1>8

----
(***************************************************************************)
(* Inclusion proofs.                                                        *)
(***************************************************************************)
\* The recursion behind PathRange.
AuditPaths(f, leaves, index) ==
  \A r \in Ranges(leaves) :
    f[r] = IF r[2] - r[1] = 1 THEN << >>
           ELSE Append(IF InLeftSubtree(index, r[1], SplitOf(r)) THEN f[LeftPart(r)]
                       ELSE f[RightPart(r)],
                       LastStep(leaves, index, r[1], r[2], SplitOf(r)))

\* The recursion exists, and PathRange is what it returns.
LEMMA PathIteration ==
  ASSUME NEW leaves, NEW N \in Nat, N = Len(leaves), NEW index
  PROVE  \E f : /\ AuditPaths(f, leaves, index)
                /\ \A s, e : PathRange(leaves, index, s, e) = f[<<s, e>>]
<1> DEFINE R == Ranges(leaves)
           LastOf(r) == LastStep(leaves, index, r[1], r[2], SplitOf(r))
           Left(r) == InLeftSubtree(index, r[1], SplitOf(r))
           Half(r) == IF Left(r) THEN LeftPart(r) ELSE RightPart(r)
           Rec(g, r) == IF r[2] - r[1] = 1 THEN << >> ELSE Append(g[Half(r)], LastOf(r))
           Small(n) == {r \in R : r[2] - r[1] <= n}
           Good == {n \in Nat : \E g : \A r \in Small(n) : g[r] = Rec(g, r)}
<1>1. \A r \in R : r[2] - r[1] \in Nat \ {0} /\ r[2] - r[1] <= N
  BY DEF Ranges
<1>11. ASSUME NEW r \in R, r[2] - r[1] # 1
       PROVE  Half(r) \in R /\ Half(r)[2] - Half(r)[1] < r[2] - r[1]
  <2>1. /\ LeftPart(r) \in R /\ RightPart(r) \in R
        /\ LeftPart(r)[2] - LeftPart(r)[1] < r[2] - r[1]
        /\ RightPart(r)[2] - RightPart(r)[1] < r[2] - r[1]
    BY <1>11, PartsSmaller
  <2>2. CASE Left(r)
    BY <2>1, <2>2
  <2>3. CASE ~Left(r)
    BY <2>1, <2>3
  <2> QED
    BY <2>2, <2>3
<1>2. 0 \in Good
  <2>1. Small(0) = {}
    BY <1>1
  <2> QED
    BY <2>1
<1>3. ASSUME NEW n \in Nat, n \in Good
      PROVE  n + 1 \in Good
  <2>1. PICK g : \A r \in Small(n) : g[r] = Rec(g, r)
    BY <1>3
  <2> DEFINE h == [r \in R |-> Rec(g, r)]
  <2>2. ASSUME NEW r \in Small(n + 1)
        PROVE  h[r] = Rec(h, r)
    <3>1. r \in R /\ h[r] = Rec(g, r)
      OBVIOUS
    <3>2. CASE r[2] - r[1] = 1
      BY <3>1, <3>2
    <3>3. CASE r[2] - r[1] # 1
      <4>1. PICK x \in Small(n) : x = Half(r)
        <5>1. Half(r) \in R /\ Half(r)[2] - Half(r)[1] < r[2] - r[1]
          BY <1>11, <3>1, <3>3
        <5>2. PICK x \in R : x = Half(r) /\ x[2] - x[1] < r[2] - r[1]
          <6> HIDE DEF Half
          <6> QED
            BY <5>1
        <5>3. r[2] - r[1] <= n + 1 /\ r[2] - r[1] \in Nat /\ x[2] - x[1] \in Nat
          BY <1>1
        <5>4. x \in Small(n)
          BY <5>2, <5>3
        <5> HIDE DEF Half, Small
        <5> QED
          BY <5>2, <5>4
      <4>3. h[x] = g[x]
        <5>1. x \in R /\ g[x] = Rec(g, x)
          BY <2>1
        <5> QED
          BY <5>1
      <4>4. Rec(g, r) = Append(g[x], LastOf(r)) /\ Rec(h, r) = Append(h[x], LastOf(r))
        <5> HIDE DEF h, Half, LastOf
        <5> QED
          BY <3>3, <4>1
      <4> HIDE DEF h, Rec, Half, LastOf
      <4> QED
        BY <3>1, <4>3, <4>4, Zenon
    <3> QED
      BY <3>2, <3>3
  <2>3. \E f : \A r \in Small(n + 1) : f[r] = Rec(f, r)
    <3> HIDE DEF h, Rec, Small
    <3> QED
      BY <2>2
  <2> QED
    <3> HIDE DEF h, Rec, Small
    <3> QED
      BY <2>3
<1>4. N \in Good
  <2> HIDE DEF Good
  <2> QED
    BY <1>2, <1>3, InductionOnSet
<1> DEFINE Step(f) ==
      [r \in Ranges(leaves) |->
        IF r[2] - r[1] = 1
        THEN << >>
        ELSE LET k == LargestPow2Lt(r[2] - r[1])
             IN  Append(IF InLeftSubtree(index, r[1], k) THEN f[<<r[1], r[1] + k>>]
                        ELSE f[<<r[1] + k, r[2]>>],
                        LastStep(leaves, index, r[1], r[2], k))]
<1>5. \A f : \A r \in R : Step(f)[r] = Rec(f, r)
  BY DEF LeftPart, RightPart, SplitOf
<1>6. \E f : f = Step(f)
  <2>1. PICK g : \A r \in R : g[r] = Rec(g, r)
    <3>1. Small(N) = R
      BY <1>1
    <3>2. \E g : \A r \in Small(N) : g[r] = Rec(g, r)
      BY <1>4
    <3> QED
      BY <3>1, <3>2
  <2> DEFINE f == [r \in R |-> g[r]]
  <2>2. ASSUME NEW r \in R
        PROVE  f[r] = Rec(f, r)
    <3>1. f[r] = Rec(g, r)
      BY <2>1
    <3>2. CASE r[2] - r[1] = 1
      BY <3>1, <3>2
    <3>3. CASE r[2] - r[1] # 1
      <4>1. PICK x \in R : x = Half(r)
        <5>1. Half(r) \in R
          BY <1>11, <3>3
        <5> HIDE DEF Half
        <5> QED
          BY <5>1
      <4>2. f[x] = g[x]
        OBVIOUS
      <4>3. Rec(g, r) = Append(g[x], LastOf(r)) /\ Rec(f, r) = Append(f[x], LastOf(r))
        <5> HIDE DEF f, Half, LastOf
        <5> QED
          BY <3>3, <4>1
      <4> HIDE DEF f, Rec, Half, LastOf
      <4> QED
        BY <3>1, <4>2, <4>3, Zenon
    <3> QED
      BY <3>2, <3>3
  <2>3. \A r \in R : f[r] = Step(f)[r]
    <3> HIDE DEF f, Step, Rec
    <3> QED
      BY <1>5, <2>2
  <2>4. f = [r \in R |-> f[r]] /\ Step(f) = [r \in R |-> Step(f)[r]]
    OBVIOUS
  <2>5. f = Step(f)
    <3> HIDE DEF f, Step
    <3> QED
      BY <2>3, <2>4
  <2> QED
    BY <2>5
<1>7. PICK f : f = Step(f) /\ \A s, e : PathRange(leaves, index, s, e) = f[<<s, e>>]
  <2> DEFINE path == CHOOSE f : f = Step(f)
  <2>1. path = Step(path)
    <3> HIDE DEF Step
    <3> QED
      BY <1>6, Zenon
  <2>2. \A s, e : PathRange(leaves, index, s, e) = path[<<s, e>>]
    BY Zenon DEF PathRange
  <2> HIDE DEF path
  <2> QED
    BY <2>1, <2>2, Zenon
<1>8. \A r \in R : f[r] = Rec(f, r)
  <2>1. f = Step(f)
    BY <1>7, Zenon
  <2> HIDE DEF Step, Rec
  <2> QED
    BY <1>5, <2>1
<1> QED
  BY <1>7, <1>8 DEF AuditPaths

\* The path of the only leaf of a range is empty.
LEMMA PathLeaf ==
  ASSUME NEW leaves, NEW N \in Nat, N = Len(leaves), NEW index, NEW s \in Nat, s < N
  PROVE  PathRange(leaves, index, s, s + 1) = << >>
<1>1. PICK f : /\ AuditPaths(f, leaves, index)
               /\ \A a, e : PathRange(leaves, index, a, e) = f[<<a, e>>]
  BY PathIteration
<1>2. PICK r : r = <<s, s + 1>>
  OBVIOUS
<1>3. r \in Ranges(leaves) /\ r[2] - r[1] = 1
  BY <1>2 DEF Ranges
<1>4. f[r] = << >>
  BY <1>1, <1>3 DEF AuditPaths
<1> QED
  BY <1>1, <1>2, <1>4

\* A leaf of a longer range: the path within its part, and the other part.
LEMMA PathSplit ==
  ASSUME NEW leaves, NEW N \in Nat, N = Len(leaves), NEW index,
         NEW s \in Nat, NEW e \in Nat, e <= N,
         NEW n \in Nat, n >= 2, n = e - s, NEW k, k = LargestPow2Lt(n)
  PROVE  PathRange(leaves, index, s, e)
           = Append(IF InLeftSubtree(index, s, k) THEN PathRange(leaves, index, s, s + k)
                    ELSE PathRange(leaves, index, s + k, e),
                    LastStep(leaves, index, s, e, k))
<1>1. PICK f : /\ AuditPaths(f, leaves, index)
               /\ \A a, z : PathRange(leaves, index, a, z) = f[<<a, z>>]
  BY PathIteration
<1>2. PICK r : r = <<s, e>>
  OBVIOUS
<1>3. r \in Ranges(leaves) /\ r[1] = s /\ r[2] = e /\ r[2] - r[1] # 1
  BY <1>2 DEF Ranges
<1>4. SplitOf(r) = k
  BY <1>3 DEF SplitOf
<1>5. LeftPart(r) = <<s, s + k>> /\ RightPart(r) = <<s + k, e>>
  BY <1>3, <1>4 DEF LeftPart, RightPart
<1>6. f[r] = Append(IF InLeftSubtree(index, s, k) THEN f[LeftPart(r)] ELSE f[RightPart(r)],
                    LastStep(leaves, index, s, e, k))
  BY <1>1, <1>3, <1>4 DEF AuditPaths
<1> QED
  BY <1>1, <1>2, <1>5, <1>6

\* What a proof computes after each of its steps.
Replays(f, entry, proof, n) ==
  /\ f[0] = LeafHash(entry)
  /\ \A i \in 1..n : f[i] = IF proof[i].sibling_is_right THEN NodeHash(f[i - 1], proof[i].sibling)
                            ELSE NodeHash(proof[i].sibling, f[i - 1])

\* ComputeRootFromProof returns what the last step computes.
LEMMA ReplayExists ==
  ASSUME NEW entry, NEW proof, NEW n \in Nat, n = Len(proof)
  PROVE  \E f : Replays(f, entry, proof, n) /\ ComputeRootFromProof(entry, proof) = f[n]
<1> DEFINE Step(f) == [i \in 0..Len(proof) |->
             IF i = 0 THEN LeafHash(entry)
             ELSE IF proof[i].sibling_is_right THEN NodeHash(f[i - 1], proof[i].sibling)
             ELSE NodeHash(proof[i].sibling, f[i - 1])]
<1>1. \E f : f = Step(f)
  <2>1. PICK x, right : /\ x = [i \in 1..n |-> proof[i].sibling]
                        /\ right = {i \in 1..n : proof[i].sibling_is_right}
    OBVIOUS
  <2>2. PICK f : f = [i \in 0..n |-> f[i]] /\ Climbs(f, n, LeafHash(entry), x, right)
    BY ClimbExists
  <2>3. ASSUME NEW i \in 0..n
        PROVE  f[i] = Step(f)[i]
    <3>1. CASE i = 0
      BY <2>2, <3>1 DEF Climbs
    <3>2. CASE i # 0
      <4>1. i \in 1..n
        BY <3>2
      <4>2. f[i] = IF i \in right THEN NodeHash(f[i - 1], x[i]) ELSE NodeHash(x[i], f[i - 1])
        BY <2>2, <4>1 DEF Climbs
      <4>3. x[i] = proof[i].sibling /\ (i \in right <=> proof[i].sibling_is_right)
        BY <2>1, <4>1
      <4> QED
        BY <3>2, <4>2, <4>3
    <3> QED
      BY <3>1, <3>2
  <2>4. Step(f) = [i \in 0..n |-> Step(f)[i]]
    OBVIOUS
  <2>5. f = Step(f)
    <3> HIDE DEF Step
    <3> QED
      BY <2>2, <2>3, <2>4
  <2> QED
    BY <2>5
<1>2. PICK f : f = Step(f) /\ ComputeRootFromProof(entry, proof) = f[n]
  <2> DEFINE current == CHOOSE f : f = Step(f)
  <2>1. current = Step(current)
    <3> HIDE DEF Step
    <3> QED
      BY <1>1, Zenon
  <2>2. ComputeRootFromProof(entry, proof) = current[n]
    BY Zenon DEF ComputeRootFromProof
  <2> HIDE DEF current
  <2> QED
    BY <2>1, <2>2, Zenon
<1>3. \A i \in 0..n : f[i] = Step(f)[i]
  <2> HIDE DEF Step
  <2> QED
    BY <1>2
<1>4. Replays(f, entry, proof, n)
  BY <1>3 DEF Replays
<1> QED
  BY <1>2, <1>4

\* A proof without steps, and one with a last step.
LEMMA ComputeEmpty ==
  ASSUME NEW entry
  PROVE  ComputeRootFromProof(entry, << >>) = LeafHash(entry)
<1>1. Len(<< >>) = 0
  OBVIOUS
<1>2. PICK f : Replays(f, entry, << >>, 0) /\ ComputeRootFromProof(entry, << >>) = f[0]
  BY <1>1, ReplayExists
<1> QED
  BY <1>2 DEF Replays

\* One more step: one more node.
LEMMA ComputeAppend ==
  ASSUME NEW entry, NEW S, NEW proof \in Seq(S), NEW step \in S
  PROVE  ComputeRootFromProof(entry, Append(proof, step))
           = IF step.sibling_is_right
             THEN NodeHash(ComputeRootFromProof(entry, proof), step.sibling)
             ELSE NodeHash(step.sibling, ComputeRootFromProof(entry, proof))
<1>1. PICK n \in Nat : n = Len(proof)
  BY LenProperties
<1>2. PICK t : t = Append(proof, step)
  OBVIOUS
<1>3. Len(t) = n + 1 /\ t[n + 1] = step /\ \A i \in 1..n : t[i] = proof[i]
  BY <1>1, <1>2, AppendProperties
<1>4. PICK f : Replays(f, entry, proof, n) /\ ComputeRootFromProof(entry, proof) = f[n]
  BY <1>1, ReplayExists
<1>5. PICK g : Replays(g, entry, t, n + 1) /\ ComputeRootFromProof(entry, t) = g[n + 1]
  BY <1>3, ReplayExists
<1> DEFINE Good == {i \in Nat : i <= n => f[i] = g[i]}
<1>6. 0 \in Good
  BY <1>4, <1>5 DEF Replays
<1>7. ASSUME NEW i \in Nat, i \in Good
      PROVE  i + 1 \in Good
  <2> SUFFICES ASSUME i + 1 <= n
               PROVE  f[i + 1] = g[i + 1]
    OBVIOUS
  <2>1. i + 1 \in 1..n /\ i + 1 \in 1..(n + 1) /\ (i + 1) - 1 = i
    OBVIOUS
  <2>2. f[i] = g[i] /\ t[i + 1] = proof[i + 1]
    BY <1>3, <1>7, <2>1
  <2>3. f[i + 1] = IF proof[i + 1].sibling_is_right THEN NodeHash(f[i], proof[i + 1].sibling)
                   ELSE NodeHash(proof[i + 1].sibling, f[i])
    BY <1>4, <2>1 DEF Replays
  <2>4. g[i + 1] = IF t[i + 1].sibling_is_right THEN NodeHash(g[i], t[i + 1].sibling)
                   ELSE NodeHash(t[i + 1].sibling, g[i])
    BY <1>5, <2>1 DEF Replays
  <2> QED
    BY <2>2, <2>3, <2>4
<1>8. \A i \in Nat : i \in Good
  <2> HIDE DEF Good
  <2> QED
    BY <1>6, <1>7, InductionOnSet
<1>9. f[n] = g[n]
  BY <1>8
<1>10. g[n + 1] = IF step.sibling_is_right THEN NodeHash(g[n], step.sibling)
                  ELSE NodeHash(step.sibling, g[n])
  <2>1. n + 1 \in 1..(n + 1) /\ (n + 1) - 1 = n
    OBVIOUS
  <2>2. g[n + 1] = IF t[n + 1].sibling_is_right THEN NodeHash(g[n], t[n + 1].sibling)
                   ELSE NodeHash(t[n + 1].sibling, g[n])
    BY <1>5, <2>1 DEF Replays
  <2> QED
    BY <1>3, <2>2, Zenon
<1> QED
  BY <1>2, <1>4, <1>5, <1>9, <1>10, Zenon

\* A path computes, from any entry, the tree hash of the leaves with that
\* entry in the place of the one the path is for.
PathSteps(leaves, index) ==
  {LastStep(leaves, index, s, e, k) : s \in Nat, e \in Nat, k \in Nat}

Leads(v, w, entry, index) ==
  {n \in Nat : \A s, e \in Nat :
     n = e - s /\ e <= Len(v) /\ s <= index /\ index < e =>
       /\ PathRange(v, index, s, e) \in Seq(PathSteps(v, index))
       /\ ComputeRootFromProof(entry, PathRange(v, index, s, e)) = MthRange(w, s, e)}

\* By induction on the size of the range: the last step is the only new one.
LEMMA PathsLead ==
  ASSUME NEW v, NEW w, NEW N \in Nat, Len(v) = N, Len(w) = N, NEW entry,
         NEW index \in Nat, index < N, w[index + 1] = LeafHash(entry),
         \A i \in 1..N : i # index + 1 => v[i] = w[i]
  PROVE  \A n \in Nat \ {0} : n \in Leads(v, w, entry, index)
<1> DEFINE S == PathSteps(v, index)
<1>1. ASSUME NEW n \in Nat \ {0}, \A m \in 1..(n - 1) : m \in Leads(v, w, entry, index)
      PROVE  n \in Leads(v, w, entry, index)
  <2> SUFFICES ASSUME NEW s \in Nat, NEW e \in Nat, n = e - s, e <= N, s <= index, index < e
               PROVE  /\ PathRange(v, index, s, e) \in Seq(S)
                      /\ ComputeRootFromProof(entry, PathRange(v, index, s, e)) = MthRange(w, s, e)
    BY DEF Leads
  <2>1. CASE n = 1
    <3>1. s < N /\ s = index /\ e = s + 1
      BY <2>1
    <3>2. PathRange(v, index, s, s + 1) = << >>
      BY <3>1, PathLeaf
    <3>3. MthRange(w, s, s + 1) = w[s + 1]
      BY <3>1, MthLeaf
    <3>4. << >> \in Seq(S)
      OBVIOUS
    <3>5. ComputeRootFromProof(entry, << >>) = LeafHash(entry)
      BY ComputeEmpty
    <3> HIDE DEF S
    <3> QED
      BY <3>1, <3>2, <3>3, <3>4, <3>5
  <2>2. CASE n # 1
    <3>1. n \in Nat /\ n >= 2
      BY <2>2
    <3>2. PICK k \in 1..(n - 1) : k = LargestPow2Lt(n)
      BY <3>1, SplitRange
    <3>3. PICK t \in Nat : t = s + k /\ s < t /\ t < e /\ k = t - s /\ n - k = e - t
      BY <3>2
    <3>4. PICK step \in S : step = LastStep(v, index, s, e, k)
      BY DEF PathSteps
    <3>5. PathRange(v, index, s, e)
            = Append(IF InLeftSubtree(index, s, k) THEN PathRange(v, index, s, t)
                     ELSE PathRange(v, index, t, e), step)
      <4>1. PathRange(v, index, s, e)
              = Append(IF InLeftSubtree(index, s, k) THEN PathRange(v, index, s, s + k)
                       ELSE PathRange(v, index, s + k, e), LastStep(v, index, s, e, k))
        BY SMTT(60), <3>1, <3>2, PathSplit
      <4> QED
        BY <3>3, <3>4, <4>1, Zenon
    <3>6. MthRange(w, s, e) = NodeHash(MthRange(w, s, t), MthRange(w, t, e))
      <4>1. MthRange(w, s, e) = NodeHash(MthRange(w, s, s + k), MthRange(w, s + k, e))
        <5>1. \A b \in Nat : b = Len(w) /\ e <= b /\ n >= 2 /\ n = e - s
                => \A l : l = LargestPow2Lt(n)
                     => MthRange(w, s, e) = NodeHash(MthRange(w, s, s + l), MthRange(w, s + l, e))
          BY MthSplit
        <5> QED
          BY <3>1, <3>2, <5>1
      <4> QED
        BY <3>3, <4>1, Zenon
    <3>7. k \in Leads(v, w, entry, index) /\ n - k \in Leads(v, w, entry, index)
      BY <1>1
    <3>8. CASE index < t
      <4>1. InLeftSubtree(index, s, k)
        BY <3>3, <3>8 DEF InLeftSubtree
      <4>2. /\ PathRange(v, index, s, t) \in Seq(S)
            /\ ComputeRootFromProof(entry, PathRange(v, index, s, t)) = MthRange(w, s, t)
        <5>1. k = t - s /\ t <= Len(v) /\ s <= index /\ index < t
          BY <3>3, <3>8
        <5> QED
          BY <3>7, <5>1 DEF Leads
      <4>3. step.sibling_is_right /\ step.sibling = MthRange(w, t, e)
        <5>1. step = [sibling |-> MthRange(v, t, e), sibling_is_right |-> TRUE]
          BY <3>3, <3>4, <4>1, Zenon DEF LastStep
        <5>2. MthRange(v, t, e) = MthRange(w, t, e)
          <6>1. \A i \in (t + 1)..e : v[i] = w[i]
            BY <3>8
          <6> QED
            BY <3>3, <6>1, MthSame
        <5> QED
          BY <5>1, <5>2
      <4>4. PathRange(v, index, s, e) = Append(PathRange(v, index, s, t), step)
        BY <3>5, <4>1, Zenon
      <4>5. PICK p \in Seq(S) : p = PathRange(v, index, s, t)
        BY <4>2, Zenon
      <4>6. ComputeRootFromProof(entry, Append(p, step))
              = NodeHash(ComputeRootFromProof(entry, p), step.sibling)
        <5> HIDE DEF S
        <5> QED
          BY <4>3, ComputeAppend
      <4>7. Append(p, step) \in Seq(S)
        <5> HIDE DEF S
        <5> QED
          BY AppendProperties
      <4> HIDE DEF S
      <4> QED
        BY <3>6, <4>2, <4>3, <4>4, <4>5, <4>6, <4>7, Zenon
    <3>9. CASE ~(index < t)
      <4>1. ~InLeftSubtree(index, s, k)
        BY <3>3, <3>9 DEF InLeftSubtree
      <4>2. /\ PathRange(v, index, t, e) \in Seq(S)
            /\ ComputeRootFromProof(entry, PathRange(v, index, t, e)) = MthRange(w, t, e)
        <5>1. n - k = e - t /\ e <= Len(v) /\ t <= index /\ index < e
          BY <3>3, <3>9
        <5> QED
          BY <3>7, <5>1 DEF Leads
      <4>3. ~step.sibling_is_right /\ step.sibling = MthRange(w, s, t)
        <5>1. step = [sibling |-> MthRange(v, s, t), sibling_is_right |-> FALSE]
          BY <3>3, <3>4, <4>1, Zenon DEF LastStep
        <5>2. MthRange(v, s, t) = MthRange(w, s, t)
          <6>1. ASSUME NEW i \in (s + 1)..t
                PROVE  v[i] = w[i]
            <7>1. i \in Nat /\ i >= 1 /\ i <= t /\ t <= N /\ t <= index
              BY <3>3, <3>9
            <7>2. i \in 1..N /\ i # index + 1
              BY <7>1
            <7> QED
              BY <7>2
          <6>2. t <= N
            BY <3>3
          <6> QED
            BY <3>3, <6>1, <6>2, MthSame
        <5> QED
          BY <5>1, <5>2
      <4>4. PathRange(v, index, s, e) = Append(PathRange(v, index, t, e), step)
        BY <3>5, <4>1, Zenon
      <4>5. PICK p \in Seq(S) : p = PathRange(v, index, t, e)
        BY <4>2, Zenon
      <4>6. ComputeRootFromProof(entry, Append(p, step))
              = NodeHash(step.sibling, ComputeRootFromProof(entry, p))
        <5> HIDE DEF S
        <5> QED
          BY <4>3, ComputeAppend
      <4>7. Append(p, step) \in Seq(S)
        <5> HIDE DEF S
        <5> QED
          BY AppendProperties
      <4> HIDE DEF S
      <4> QED
        BY <3>6, <4>2, <4>3, <4>4, <4>5, <4>6, <4>7, Zenon
    <3> QED
      BY <3>8, <3>9
  <2> QED
    BY <2>1, <2>2
<1> QED
  BY <1>1, InductionOnSizes

----
(***************************************************************************)
(* Frontiers rebuilt from a history.                                         *)
(***************************************************************************)
\* The recursion behind BuildFrontier.
Appends(f, history, n) ==
  /\ f[0] = << >>
  /\ \A i \in 1..n : f[i] = FrontierAppend(f[i - 1], LeafHash(history[i]))

\* Such appends exist, however many there are,
LEMMA AppendsExist ==
  ASSUME NEW history, NEW n \in Nat
  PROVE  \E f : f = [i \in 0..n |-> f[i]] /\ Appends(f, history, n)
<1> DEFINE Up(i, h) == FrontierAppend(h, LeafHash(history[i]))
           It(f, k) == f[0] = << >> /\ \A i \in 1..k : f[i] = Up(i, f[i - 1])
           Good == {k \in Nat : \E f : It(f, k)}
<1>1. 0 \in Good
  <2> DEFINE f == [i \in 0..0 |-> << >>]
  <2>1. It(f, 0)
    OBVIOUS
  <2> QED
    BY <2>1
<1>2. ASSUME NEW k \in Nat, k \in Good
      PROVE  k + 1 \in Good
  <2>1. PICK g : It(g, k)
    BY <1>2
  <2> DEFINE f == [i \in 0..(k + 1) |-> IF i = k + 1 THEN Up(k + 1, g[k]) ELSE g[i]]
  <2>2. f[0] = << >>
    BY <2>1
  <2>3. ASSUME NEW i \in 1..(k + 1)
        PROVE  f[i] = Up(i, f[i - 1])
    <3>1. f[i - 1] = g[i - 1]
      OBVIOUS
    <3>2. CASE i = k + 1
      <4>1. f[i] = Up(i, g[i - 1])
        BY <3>2
      <4> HIDE DEF f, Up
      <4> QED
        BY <3>1, <4>1
    <3>3. CASE i # k + 1
      <4>1. f[i] = g[i] /\ i \in 1..k
        BY <3>3
      <4>2. g[i] = Up(i, g[i - 1])
        BY <2>1, <4>1
      <4> HIDE DEF f, Up
      <4> QED
        BY <3>1, <4>1, <4>2
    <3> QED
      BY <3>2, <3>3
  <2>4. It(f, k + 1)
    <3> HIDE DEF f, Up
    <3> QED
      BY <2>2, <2>3
  <2> QED
    <3> HIDE DEF f, It
    <3> QED
      BY <2>4
<1>3. n \in Good
  <2> HIDE DEF Good
  <2> QED
    BY <1>1, <1>2, InductionOnSet
<1>4. PICK g : It(g, n)
  BY <1>3
<1> DEFINE f == [i \in 0..n |-> g[i]]
<1>5. f[0] = << >> /\ \A i \in 1..n : f[i] = Up(i, f[i - 1])
  <2>1. \A i \in 1..n : f[i] = g[i] /\ f[i - 1] = g[i - 1]
    OBVIOUS
  <2>2. f[0] = g[0]
    OBVIOUS
  <2> HIDE DEF f, Up
  <2> QED
    BY <1>4, <2>1, <2>2
<1>6. f = [i \in 0..n |-> f[i]]
  OBVIOUS
<1>7. Appends(f, history, n)
  <2> HIDE DEF f
  <2> QED
    BY <1>5 DEF Appends
<1> HIDE DEF f
<1> QED
  BY <1>6, <1>7

\* and BuildFrontier returns what they end in.
LEMMA BuildIteration ==
  ASSUME NEW history, NEW N \in Nat, N = Len(history), NEW count \in Nat, count <= N
  PROVE  \E f : Appends(f, history, count) /\ BuildFrontier(history, count) = f[count]
<1> DEFINE bound == IF count < Len(history) THEN count ELSE Len(history)
           Step(f) == [i \in 0..bound |->
             IF i = 0 THEN << >> ELSE FrontierAppend(f[i - 1], LeafHash(history[i]))]
<1>1. bound = count
  OBVIOUS
<1>2. \E f : f = Step(f)
  <2>1. PICK f : f = [i \in 0..count |-> f[i]] /\ Appends(f, history, count)
    BY AppendsExist
  <2>2. \A i \in 0..count : f[i] = Step(f)[i]
    <3> SUFFICES ASSUME NEW i \in 0..count
                 PROVE  f[i] = Step(f)[i]
      OBVIOUS
    <3>1. CASE i = 0
      BY <1>1, <2>1, <3>1 DEF Appends
    <3>2. CASE i # 0
      <4>1. i \in 1..count
        BY <3>2
      <4>2. f[i] = FrontierAppend(f[i - 1], LeafHash(history[i]))
        BY <2>1, <4>1 DEF Appends
      <4>3. Step(f)[i] = FrontierAppend(f[i - 1], LeafHash(history[i]))
        BY <1>1, <3>2
      <4> QED
        BY <4>2, <4>3, Zenon
    <3> QED
      BY <3>1, <3>2
  <2>3. Step(f) = [i \in 0..count |-> Step(f)[i]]
    BY <1>1
  <2>4. f = Step(f)
    <3> HIDE DEF Step
    <3> QED
      BY <2>1, <2>2, <2>3
  <2> QED
    BY <2>4
<1>3. PICK f : f = Step(f) /\ BuildFrontier(history, count) = f[count]
  <2> DEFINE built == CHOOSE f : f = Step(f)
  <2>1. built = Step(built)
    <3> HIDE DEF Step
    <3> QED
      BY <1>2, Zenon
  <2>2. BuildFrontier(history, count) = built[bound]
    BY Zenon DEF BuildFrontier
  <2> HIDE DEF built, bound, Step
  <2> QED
    BY <1>1, <2>1, <2>2, Zenon
<1>4. \A i \in 0..count : f[i] = Step(f)[i]
  <2> HIDE DEF Step
  <2> QED
    BY <1>3
<1>5. f[0] = << >>
  <2>1. 0 \in 0..count /\ 0 \in 0..bound
    BY <1>1
  <2>2. f[0] = Step(f)[0]
    BY <1>4, <2>1
  <2>3. Step(f)[0] = << >>
    BY <2>1
  <2> HIDE DEF Step
  <2> QED
    BY <2>2, <2>3, Zenon
<1>6. ASSUME NEW i \in 1..count
      PROVE  f[i] = FrontierAppend(f[i - 1], LeafHash(history[i]))
  <2>1. i \in 0..count /\ i # 0
    OBVIOUS
  <2>2. f[i] = Step(f)[i]
    BY <1>4, <2>1
  <2>3. Step(f)[i] = FrontierAppend(f[i - 1], LeafHash(history[i]))
    BY <1>1, <2>1
  <2> HIDE DEF Step
  <2> QED
    BY <2>2, <2>3, Zenon
<1> QED
  BY <1>3, <1>5, <1>6, Zenon DEF Appends

\* The leaves of a history, one by one.
LEMMA LeafHashesAre ==
  ASSUME NEW S, NEW s \in Seq(S)
  PROVE  /\ Len(LeafHashes(s)) = Len(s) /\ AreLeaves(LeafHashes(s))
         /\ \A i \in 1..Len(s) : LeafHashes(s)[i] = LeafHash(s[i])
<1>1. PICK n \in Nat : n = Len(s) /\ DOMAIN s = 1..n
  BY LenProperties
<1>2. PICK v : v = [i \in 1..n |-> LeafHash(s[i])]
  OBVIOUS
<1>3. LeafHashes(s) = v
  BY <1>1, <1>2, Zenon DEF LeafHashes
<1>4. \A i \in 1..n : v[i] = LeafHash(s[i])
  BY <1>2
<1>5. PICK T : \A i \in 1..n : v[i] \in T
  <2>1. \A i \in 1..n : v[i] \in {v[j] : j \in 1..n}
    OBVIOUS
  <2> QED
    BY <2>1
<1>6. Len(v) = n
  <2>1. v \in [1..n -> T]
    BY <1>2, <1>5
  <2> QED
    BY <2>1, FunctionIsList
<1>7. AreLeaves(v)
  BY <1>4, <1>6 DEF AreLeaves
<1> QED
  BY <1>1, <1>3, <1>4, <1>6, <1>7

\* build_frontier covers the entries it replays.
LEMMA BuildCovers ==
  ASSUME NEW S, NEW s \in Seq(S), NEW count \in Nat, count <= Len(s)
  PROVE  Covering(BuildFrontier(s, count), count, LeafHashes(s))
<1>1. PICK N \in Nat : N = Len(s)
  BY LenProperties
<1>2. PICK v : v = LeafHashes(s)
  OBVIOUS
<1>3. Len(v) = N /\ \A i \in 1..N : v[i] = LeafHash(s[i])
  BY <1>1, <1>2, LeafHashesAre
<1>4. PICK f : Appends(f, s, count) /\ BuildFrontier(s, count) = f[count]
  BY <1>1, BuildIteration
<1> DEFINE Good == {i \in Nat : i <= count => Covering(f[i], i, v)}
<1>5. 0 \in Good
  BY <1>4, NothingCovered DEF Appends
<1>6. ASSUME NEW i \in Nat, i \in Good
      PROVE  i + 1 \in Good
  <2> SUFFICES ASSUME i + 1 <= count
               PROVE  Covering(f[i + 1], i + 1, v)
    OBVIOUS
  <2>1. i + 1 \in 1..count /\ i + 1 \in 1..N /\ (i + 1) - 1 = i /\ i + 1 <= N
    BY <1>1
  <2>2. f[i + 1] = FrontierAppend(f[i], LeafHash(s[i + 1]))
    BY <1>4, <2>1 DEF Appends
  <2>3. v[i + 1] = LeafHash(s[i + 1])
    BY <1>3, <2>1
  <2>4. Covering(f[i], i, v)
    BY <1>6, <2>1
  <2>5. Covering(FrontierAppend(f[i], v[i + 1]), i + 1, v)
    BY <1>3, <2>1, <2>4, AppendCovers
  <2> QED
    BY <2>2, <2>3, <2>5, Zenon
<1>7. \A i \in Nat : i \in Good
  <2> HIDE DEF Good
  <2> QED
    BY <1>5, <1>6, InductionOnSet
<1>8. Covering(f[count], count, v)
  BY <1>7
<1> QED
  BY <1>2, <1>4, <1>8, Zenon

\* The root of a frontier is the tree hash of the leaves it covers.
LEMMA CoveringRoot ==
  ASSUME NEW frontier, NEW n \in Nat \ {0}, NEW v, NEW N \in Nat, N = Len(v), n <= N,
         Covering(frontier, n, v)
  PROVE  FrontierRoot(frontier) = MthRange(v, 0, n)
<1>1. PICK S, starts : frontier \in Seq(S) /\ Covers(frontier, starts, n, v)
  BY DEF Covering
<1>2. PICK m \in Nat : m = Len(frontier)
  BY <1>1, LenProperties
<1> QED
  BY <1>1, <1>2, CoveredRoot

\* One more entry, appended to the history and to its frontier.
LEMMA EntryCovered ==
  ASSUME NEW S, NEW s \in Seq(S), NEW e \in S, NEW frontier,
         Covering(frontier, Len(s), LeafHashes(s))
  PROVE  Covering(FrontierAppend(frontier, LeafHash(e)), Len(Append(s, e)),
                  LeafHashes(Append(s, e)))
<1>1. PICK n \in Nat : n = Len(s)
  BY LenProperties
<1>2. PICK t \in Seq(S) : t = Append(s, e)
  BY AppendProperties, Zenon
<1>3. Len(t) = n + 1 /\ t[n + 1] = e /\ \A i \in 1..n : t[i] = s[i]
  BY <1>1, <1>2, AppendProperties
<1>4. PICK v, w : v = LeafHashes(s) /\ w = LeafHashes(t)
  OBVIOUS
<1>5. Len(v) = n /\ \A i \in 1..n : v[i] = LeafHash(s[i])
  BY <1>1, <1>4, LeafHashesAre
<1>6. Len(w) = n + 1 /\ \A i \in 1..(n + 1) : w[i] = LeafHash(t[i])
  BY <1>3, <1>4, LeafHashesAre
<1>7. \A i \in 1..n : v[i] = w[i]
  BY <1>3, <1>5, <1>6
<1>8. w[n + 1] = LeafHash(e)
  BY <1>3, <1>6
<1>9. Covering(frontier, n, v)
  BY <1>1, <1>4, Zenon
<1>10. Covering(frontier, n, w)
  <2>1. Len(v) \in Nat /\ Len(w) \in Nat /\ n <= Len(v) /\ n <= Len(w)
    BY <1>5, <1>6
  <2> QED
    BY <1>7, <1>9, <2>1, CoversSame
<1>11. Covering(FrontierAppend(frontier, w[n + 1]), n + 1, w)
  <2>1. n + 1 \in Nat /\ n + 1 = Len(w)
    BY <1>6
  <2> QED
    BY <1>10, <2>1, AppendCovers
<1> QED
  BY <1>2, <1>3, <1>4, <1>8, <1>11, Zenon
====
