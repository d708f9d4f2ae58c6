---- MODULE MerkleLogProofs ----
(***************************************************************************)
(* Proofs about the commitment to a player's history: the root kept by the  *)
(* appends is the tree hash of the history for every length, and a proof is *)
(* accepted for its own entry, against the history it was issued for.       *)
(***************************************************************************)
EXTENDS MerkleLog, DataTheorems

\* The history of length n.
Numbered(n) == [i \in 1..n |-> i]

\* The path get_history_proof returns for an entry of the history of length n.
IssuedPath(index, n) == PathRange(LeafHashes(Numbered(n)), index - 1, 0, n)

\* The inductive invariant: the frontier is the compact one of the history,
\* the root its root, and the client's proof is one of an earlier history.
Committed ==
  /\ history = Numbered(Len(history)) /\ Len(history) \in Nat
  /\ Covering(frontier, Len(history), LeafHashes(history))
  /\ root = FrontierRoot(frontier)
  /\ issuedAt \in 0..Len(history)
  /\ issuedAt > 0 => /\ proof.index \in 1..issuedAt
                     /\ proof.steps = IssuedPath(proof.index, issuedAt)

\* What the leaves of a history are.
LEMMA NumberedLeaves ==
  ASSUME NEW n \in Nat
  PROVE  /\ Numbered(n) \in Seq(Nat) /\ Len(Numbered(n)) = n
         /\ \A i \in 1..n : Numbered(n)[i] = i
         /\ Len(LeafHashes(Numbered(n))) = n /\ AreLeaves(LeafHashes(Numbered(n)))
         /\ \A i \in 1..n : LeafHashes(Numbered(n))[i] = LeafHash(i)
<1>1. PICK s : s = Numbered(n)
  OBVIOUS
<1>2. s \in [1..n -> Nat] /\ \A i \in 1..n : s[i] = i
  BY <1>1 DEF Numbered
<1>3. s \in Seq(Nat) /\ Len(s) = n
  BY <1>2, FunctionIsList
<1>4. /\ Len(LeafHashes(s)) = n /\ AreLeaves(LeafHashes(s))
      /\ \A i \in 1..n : LeafHashes(s)[i] = LeafHash(s[i])
  BY <1>3, LeafHashesAre
<1>5. \A i \in 1..n : LeafHashes(s)[i] = LeafHash(i)
  BY <1>2, <1>4
<1> QED
  BY <1>1, <1>2, <1>3, <1>4, <1>5, Zenon

LEMMA NumberedAppend ==
  ASSUME NEW n \in Nat
  PROVE  Append(Numbered(n), n + 1) = Numbered(n + 1)
<1>1. PICK s \in Seq(Nat) : s = Numbered(n) /\ Len(s) = n /\ \A i \in 1..n : s[i] = i
  BY NumberedLeaves
<1>2. PICK t \in Seq(Nat) : t = Numbered(n + 1) /\ Len(t) = n + 1 /\ \A i \in 1..(n + 1) : t[i] = i
  <2>1. n + 1 \in Nat
    OBVIOUS
  <2> QED
    BY <2>1, NumberedLeaves
<1>3. PICK u \in Seq(Nat) : u = Append(s, n + 1)
  <2>1. PICK e \in Nat : e = n + 1
    OBVIOUS
  <2> QED
    BY <2>1, AppendProperties
<1>4. Len(u) = n + 1 /\ u[n + 1] = n + 1 /\ \A i \in 1..n : u[i] = s[i]
  BY <1>1, <1>3, AppendProperties
<1>5. \A i \in 1..(n + 1) : u[i] = t[i]
  <2>1. \A i \in 1..(n + 1) : i \in 1..n \/ i = n + 1
    OBVIOUS
  <2> QED
    BY <1>1, <1>2, <1>4, <2>1
<1>6. u = t
  BY <1>2, <1>4, <1>5, SeqEqual
<1> QED
  BY <1>1, <1>2, <1>3, <1>6, Zenon

LEMMA InitCommitted == Init => Committed
<1> SUFFICES ASSUME Init
             PROVE  Committed
  OBVIOUS
<1>1. history = << >> /\ frontier = << >> /\ root = ZeroRoot /\ issuedAt = 0
  BY DEF Init
<1>2. Numbered(0) = << >> /\ Len(<< >>) = 0
  <2>1. Numbered(0) \in Seq(Nat) /\ Len(Numbered(0)) = 0
    BY NumberedLeaves
  <2> QED
    BY <2>1, EmptySeq
<1>3. Covering(<< >>, 0, LeafHashes(<< >>))
  BY NothingCovered
<1>4. FrontierRoot(<< >>) = ZeroRoot
  BY Zenon DEF FrontierRoot
<1> QED
  BY <1>1, <1>2, <1>3, <1>4 DEF Committed

LEMMA AppendCommitted ==
  ASSUME Committed, AppendEntry
  PROVE  Committed'
<1>1. /\ history' = Append(history, Len(history) + 1)
      /\ frontier' = FrontierAppend(frontier, LeafHash(Len(history) + 1))
      /\ root' = FrontierRoot(frontier') /\ proof' = proof /\ issuedAt' = issuedAt
  BY DEF AppendEntry
<1>2. PICK n \in Nat : n = Len(history) /\ history = Numbered(n)
  BY DEF Committed
<1>3. /\ Covering(frontier, n, LeafHashes(history)) /\ issuedAt \in 0..n
      /\ issuedAt > 0 => /\ proof.index \in 1..issuedAt
                         /\ proof.steps = IssuedPath(proof.index, issuedAt)
  BY <1>2 DEF Committed
<1>4. history' = Numbered(n + 1) /\ Len(history') = n + 1
  <2>1. n + 1 \in Nat
    OBVIOUS
  <2> QED
    BY <1>1, <1>2, <2>1, NumberedAppend, NumberedLeaves
<1>5. Covering(frontier', Len(history'), LeafHashes(history'))
  <2>1. PICK s \in Seq(Nat), e \in Nat : s = history /\ e = n + 1 /\ Len(s) = n
    BY <1>2, NumberedLeaves
  <2>11. PICK f : f = frontier
    OBVIOUS
  <2>2. Covering(f, Len(s), LeafHashes(s))
    BY <1>3, <2>1, <2>11, Zenon
  <2>3. Covering(FrontierAppend(f, LeafHash(e)), Len(Append(s, e)), LeafHashes(Append(s, e)))
    BY <2>2, EntryCovered
  <2> QED
    BY <1>1, <1>2, <2>1, <2>11, <2>3, Zenon
<1>6. issuedAt' \in 0..Len(history')
  BY <1>1, <1>3, <1>4
<1> QED
  BY <1>1, <1>3, <1>4, <1>5, <1>6 DEF Committed

LEMMA ProofCommitted ==
  ASSUME Committed, NEW index, GetHistoryProof(index)
  PROVE  Committed'
<1>1. /\ index \in 1..Len(history)
      /\ proof' = [index |-> index,
                   steps |-> PathRange(LeafHashes(history), index - 1, 0, Len(history))]
      /\ issuedAt' = Len(history) /\ history' = history /\ frontier' = frontier /\ root' = root
  BY DEF GetHistoryProof
<1>2. PICK n \in Nat : n = Len(history) /\ history = Numbered(n)
  BY DEF Committed
<1>3. proof'.index = index /\ proof'.steps = IssuedPath(index, n)
  <2>1. PathRange(LeafHashes(history), index - 1, 0, Len(history)) = IssuedPath(index, n)
    BY <1>2, Zenon DEF IssuedPath
  <2> QED
    BY <1>1, <2>1
<1>4. proof'.index \in 1..issuedAt' /\ proof'.steps = IssuedPath(proof'.index, issuedAt')
  BY <1>1, <1>2, <1>3, Zenon
<1>5. issuedAt' \in 0..Len(history')
  BY <1>1, <1>2
<1> QED
  BY <1>1, <1>4, <1>5 DEF Committed

LEMMA CommittedHolds == Spec => []Committed
<1>1. ASSUME Committed, [Next]_vars
      PROVE  Committed'
  <2>1. CASE AppendEntry
    BY <1>1, <2>1, AppendCommitted
  <2>2. ASSUME NEW index \in 1..MaxLeaves, GetHistoryProof(index)
        PROVE  Committed'
    BY <1>1, <2>2, ProofCommitted
  <2>3. CASE UNCHANGED vars
    BY <1>1, <2>3 DEF vars, Committed
  <2> QED
    BY <1>1, <2>1, <2>2, <2>3 DEF Next
<1> QED
  BY <1>1, InitCommitted, PTL DEF Spec

\* For every number of entries, the peaks frontier_append maintains sit at
\* the set bits of that number, and the root frontier_root derives from them
\* is the tree hash mth_range computes over the whole history.
THEOREM RootIsTreeHash == Spec => []FrontierRootIsMth
<1>1. ASSUME Committed
      PROVE  FrontierRootIsMth
  <2>1. PICK n \in Nat : n = Len(history) /\ history = Numbered(n)
    BY <1>1 DEF Committed
  <2>2. PICK f, v : f = frontier /\ v = LeafHashes(history) /\ Covering(f, n, v)
    BY <1>1, <2>1 DEF Committed
  <2>3. FrontierLevelsAreSetBits
    <3>1. /\ \A i \in 1..(Len(f) - 1) : f[i].level < f[i + 1].level
          /\ FrontierLevels(f) = {b \in 0..(1 + n \div 2) : (n \div Pow2(b)) % 2 = 1}
      BY <2>2, SetBits
    <3> QED
      BY <2>1, <2>2, <3>1, Zenon DEF FrontierLevelsAreSetBits
  <2>4. ASSUME history # << >>
        PROVE  root = MthRange(v, 0, n)
    <3>1. n # 0
      <4>1. Numbered(n) \in Seq(Nat) /\ Len(Numbered(n)) = n
        BY NumberedLeaves
      <4> QED
        BY <2>1, <2>4, <4>1, EmptySeq
    <3>2. Len(v) = n
      BY <2>1, <2>2, NumberedLeaves
    <3>3. FrontierRoot(f) = MthRange(v, 0, n)
      BY <2>2, <3>1, <3>2, CoveringRoot
    <3> QED
      BY <1>1, <2>2, <3>3 DEF Committed
  <2> QED
    BY <2>1, <2>2, <2>3, <2>4, Zenon DEF FrontierRootIsMth
<1> QED
  BY <1>1, CommittedHolds, PTL

\* Of any length of the history and at any time: verify_history_proof accepts
\* a proof for the entry it was issued for, while no entry has been appended
\* since, and refuses it for every other entry and against every later root.
THEOREM ProofsAreBinding == Spec => []ProofAcceptedIffCurrent
<1>1. ASSUME Committed
      PROVE  ProofAcceptedIffCurrent
  <2> SUFFICES ASSUME issuedAt > 0, NEW entry \in 1..Len(history)
               PROVE  VerifyHistoryProof(entry, proof.steps)
                        <=> entry = proof.index /\ issuedAt = Len(history)
    BY DEF ProofAcceptedIffCurrent
  <2>1. PICK n \in Nat : n = Len(history) /\ history = Numbered(n)
    BY <1>1 DEF Committed
  <2>2. PICK k \in 1..n : k = issuedAt
    BY <1>1, <2>1 DEF Committed
  <2>3. PICK j \in 1..k : j = proof.index /\ proof.steps = IssuedPath(j, k)
    BY <1>1, <2>2 DEF Committed
  <2>4. n \in Nat \ {0} /\ k \in Nat \ {0} /\ k <= n
    OBVIOUS
  <2>5. PICK v : v = LeafHashes(Numbered(n))
    OBVIOUS
  <2>6. Len(v) = n /\ AreLeaves(v) /\ \A i \in 1..n : v[i] = LeafHash(i)
    BY <2>5, NumberedLeaves
  <2>7. root = MthRange(v, 0, n)
    <3>1. Covering(frontier, n, v) /\ root = FrontierRoot(frontier)
      BY <1>1, <2>1, <2>5 DEF Committed
    <3>2. PICK f : f = frontier
      OBVIOUS
    <3>3. FrontierRoot(f) = MthRange(v, 0, n)
      BY <2>4, <2>6, <3>1, <3>2, CoveringRoot
    <3> QED
      BY <3>1, <3>2, <3>3
  <2>8. PICK u : u = LeafHashes(Numbered(k))
    OBVIOUS
  <2>9. Len(u) = k /\ AreLeaves(u) /\ \A i \in 1..k : u[i] = LeafHash(i)
    BY <2>4, <2>8, NumberedLeaves
  <2>10. PICK w : w = [i \in 1..k |-> IF i = j THEN LeafHash(entry) ELSE u[i]]
    OBVIOUS
  <2>11. /\ Len(w) = k /\ AreLeaves(w) /\ w[j] = LeafHash(entry)
         /\ \A i \in 1..k : i # j => u[i] = w[i]
    <3>1. \A i \in 1..k : w[i] \in {w[x] : x \in 1..k}
      OBVIOUS
    <3>2. PICK T : T = {w[x] : x \in 1..k}
      OBVIOUS
    <3>3. w \in [1..k -> T]
      BY <2>10, <3>1, <3>2
    <3>4. Len(w) = k
      BY <2>4, <3>3, FunctionIsList
    <3>5. w[j] = LeafHash(entry) /\ \A i \in 1..k : i # j => u[i] = w[i]
      BY <2>10
    <3>6. \A i \in 1..k : \E x : w[i] = LeafHash(x)
      BY <2>9, <3>5
    <3> QED
      BY <3>4, <3>5, <3>6 DEF AreLeaves
  <2>12. ComputeRootFromProof(entry, proof.steps) = MthRange(w, 0, k)
    <3>1. PICK index \in Nat : index = j - 1 /\ index + 1 = j /\ index < k
      <4>1. j - 1 \in Nat /\ (j - 1) + 1 = j /\ j - 1 < k
        OBVIOUS
      <4> QED
        BY <4>1
    <3>2. k \in Leads(u, w, entry, index)
      <4>1. w[index + 1] = LeafHash(entry) /\ \A i \in 1..k : i # index + 1 => u[i] = w[i]
        BY <2>11, <3>1
      <4> QED
        BY <2>4, <2>9, <2>11, <3>1, <4>1, PathsLead
    <3>3. ComputeRootFromProof(entry, PathRange(u, index, 0, k)) = MthRange(w, 0, k)
      <4>1. k = k - 0 /\ k <= Len(u) /\ 0 <= index /\ index < k
        BY <2>9, <3>1
      <4> QED
        BY <3>2, <4>1 DEF Leads
    <3>4. proof.steps = PathRange(u, index, 0, k)
      BY <2>3, <2>8, <3>1, Zenon DEF IssuedPath
    <3> QED
      BY <3>3, <3>4
  <2>13. VerifyHistoryProof(entry, proof.steps) <=> MthRange(w, 0, k) = MthRange(v, 0, n)
    BY <2>7, <2>12, Zenon DEF VerifyHistoryProof
  <2>14. ASSUME MthRange(w, 0, k) = MthRange(v, 0, n)
         PROVE  entry = j /\ k = n
    <3>1. k \in Commits(w, v)
      BY <2>4, <2>6, <2>9, <2>11, TreeHashCommits
    <3>2. k = n - 0 /\ Equals(w, v, 0, 0, k)
      <4>1. k = k - 0 /\ 0 < n /\ k <= Len(w) /\ n <= Len(v)
        BY <2>4, <2>6, <2>11
      <4> QED
        BY <2>14, <3>1, <4>1 DEF Commits
    <3>3. w[j] = v[j]
      BY <3>2 DEF Equals
    <3>4. LeafHash(entry) = LeafHash(j)
      BY <2>6, <2>11, <3>2, <3>3
    <3>5. entry = j
      BY <3>4 DEF LeafHash
    <3> QED
      BY <3>2, <3>5
  <2>15. ASSUME entry = j, k = n
         PROVE  MthRange(w, 0, k) = MthRange(v, 0, n)
    <3>1. \A i \in (0 + 1)..k : w[i] = v[i]
      BY <2>6, <2>9, <2>11, <2>15
    <3>2. 0 < k /\ k <= Len(w) /\ k <= Len(v)
      BY <2>4, <2>6, <2>11
    <3>3. MthRange(w, 0, k) = MthRange(v, 0, k)
      BY <2>6, <2>11, <3>1, <3>2, MthSame
    <3> QED
      BY <2>15, <3>3
  <2> QED
    BY <2>1, <2>2, <2>3, <2>13, <2>14, <2>15
<1> QED
  BY <1>1, CommittedHolds, PTL
====
