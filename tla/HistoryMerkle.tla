---- MODULE HistoryMerkle ----
(***************************************************************************)
(* The Merkle commitment over a player's progress history, as the progress *)
(* contract computes it: the RFC 6962 tree hash over the whole list of     *)
(* leaves, the incremental frontier of perfect-subtree roots that appends   *)
(* maintain, and inclusion proofs.                                          *)
(*                                                                          *)
(* SHA-256 is modelled as a free constructor: a hash is the tuple of what  *)
(* was hashed, tagged with the domain-separation byte.  Two hashes are      *)
(* equal exactly when the hashed values are, which is what the contract     *)
(* assumes of SHA-256.                                                      *)
(***************************************************************************)
EXTENDS Lists

\* H(0x00 || entry): the leaf for one history entry.
LeafHash(entry) == <<0, entry>>

\* H(0x01 || left || right): an internal node.
NodeHash(left, right) == <<1, left, right>>

\* The default of get_progress_root for a player with no commitment.
ZeroRoot == <<0>>

LeafHashes(history) == [i \in DOMAIN history |-> LeafHash(history[i])]

\* 2^b, by doubling.
Pow2(b) ==
  LET pow[i \in 0..b] == IF i = 0 THEN 1 ELSE 2 * pow[i - 1]
  IN  pow[b]

\* Largest power of two strictly below n (n >= 2), the RFC 6962 split point.
LargestPow2Lt(n) == CHOOSE k \in {Pow2(b) : b \in 0..(n \div 2)} : k < n /\ 2 * k >= n

----
(***************************************************************************)
(* The reference construction.  Ranges are half open and zero based, as in  *)
(* the source: leaves[start..end) are leaves start+1 .. end of the sequence.*)
(***************************************************************************)
Ranges(leaves) == {r \in (0..Len(leaves)) \X (0..Len(leaves)) : r[1] < r[2]}

MthRange(leaves, start, end) ==
  LET mth[r \in Ranges(leaves)] ==
        IF r[2] - r[1] = 1
        THEN leaves[r[1] + 1]
        ELSE LET k == LargestPow2Lt(r[2] - r[1])
             IN  NodeHash(mth[<<r[1], r[1] + k>>], mth[<<r[1] + k, r[2]>>])
  IN  mth[<<start, end>>]

\* Mutant: the first leaf of the right subtree is taken for one of the left.
InLeftSubtreeOffByOne(index, start, k) == index - start <= k

\* Which side of the split a leaf of a range that begins at start is on.
InLeftSubtree(index, start, k) == index - start < k

\* The last step of the audit path of a leaf of a range that is split at k.
LastStep(leaves, index, start, end, k) ==
  IF InLeftSubtree(index, start, k)
  THEN [sibling |-> MthRange(leaves, start + k, end), sibling_is_right |-> TRUE]
  ELSE [sibling |-> MthRange(leaves, start, start + k), sibling_is_right |-> FALSE]

\* The audit path of the leaf at zero-based position index, leaf to root.
PathRange(leaves, index, start, end) ==
  LET path[r \in Ranges(leaves)] ==
        IF r[2] - r[1] = 1
        THEN << >>
        ELSE LET k == LargestPow2Lt(r[2] - r[1])
             IN  Append(IF InLeftSubtree(index, r[1], k) THEN path[<<r[1], r[1] + k>>]
                        ELSE path[<<r[1] + k, r[2]>>],
                        LastStep(leaves, index, r[1], r[2], k))
  IN  path[<<start, end>>]

\* Replays a proof against an entry's leaf.
ComputeRootFromProof(entry, proof) ==
  LET current[i \in 0..Len(proof)] ==
        IF i = 0 THEN LeafHash(entry)
        ELSE IF proof[i].sibling_is_right THEN NodeHash(current[i - 1], proof[i].sibling)
        ELSE NodeHash(proof[i].sibling, current[i - 1])
  IN  current[Len(proof)]

----
(***************************************************************************)
(* The incremental frontier: a sequence of [level, hash] peaks, ascending.  *)
(***************************************************************************)
FrontierLevels(frontier) == {frontier[i].level : i \in DOMAIN frontier}

\* The hash of the peak at a level some peak of the frontier has.
PeakHash(frontier, level) ==
  frontier[CHOOSE i \in DOMAIN frontier : frontier[i].level = level].hash

\* The first level from 0 up that no peak occupies: where a carry ends.
FreeLevel(frontier) ==
  CHOOSE l \in 0..Len(frontier) :
    /\ l \notin FrontierLevels(frontier)
    /\ \A m \in 0..(l - 1) : m \in FrontierLevels(frontier)

\* Mutant: the newer subtree is hashed as the left operand.
MergeSwapped(older, newer) == NodeHash(newer, older)

\* Two perfect subtrees of one height under a common parent, older one left.
Merge(older, newer) == NodeHash(older, newer)

\* The peaks a carry that ends at level leaves alone.
PeaksAbove(frontier, level) ==
  Filter(frontier, {peak \in ToSet(frontier) : peak.level > level})

\* A new leaf is carried past every occupied level from 0 up, merging with
\* the older peak on its left, and is inserted at the front at the first
\* level that is free; the peaks it merged with are gone.
FrontierAppend(frontier, leaf) ==
  LET level == FreeLevel(frontier)
      carry[l \in 0..Len(frontier)] ==
        IF l = 0 THEN leaf
        ELSE Merge(PeakHash(frontier, l - 1), carry[l - 1])
  IN  <<[level |-> level, hash |-> carry[level]]>> \o PeaksAbove(frontier, level)

FrontierRoot(frontier) ==
  LET acc[i \in 0..(Len(frontier) - 1)] ==
        IF i = 0 THEN frontier[1].hash ELSE NodeHash(frontier[i + 1].hash, acc[i - 1])
  IN  IF frontier = << >> THEN ZeroRoot ELSE acc[Len(frontier) - 1]

\* Replays the appends of the first count entries; count is clamped.
BuildFrontier(history, count) ==
  LET bound == IF count < Len(history) THEN count ELSE Len(history)
      built[i \in 0..bound] ==
        IF i = 0 THEN << >> ELSE FrontierAppend(built[i - 1], LeafHash(history[i]))
  IN  built[bound]
====
