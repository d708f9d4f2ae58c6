---- MODULE MerkleLog ----
(***************************************************************************)
(* One player's history under appends, with a client that asks for an       *)
(* inclusion proof and presents it at any later time.  This isolates the    *)
(* commitment scheme from the contract's storage so that long histories     *)
(* can be checked: the frontier against the reference tree hash, and the    *)
(* proofs against the stored root.                                          *)
(***************************************************************************)
EXTENDS HistoryMerkle

CONSTANT MaxLeaves  \* bound on the length of the history

ASSUME MaxLeavesAssumption == MaxLeaves \in Nat \ {0}

VARIABLES
  history,   \* the entries appended so far; entry i is the number i
  frontier,  \* HistoryFrontier
  root,      \* HistoryRoot
  proof,     \* the proof the client holds, with the entry it is for
  issuedAt   \* length of the history when the proof was issued, 0 if none

vars == <<history, frontier, root, proof, issuedAt>>

NoProof == [index |-> 0, steps |-> <<>>]

Init ==
  /\ history = <<>>
  /\ frontier = <<>>
  /\ root = ZeroRoot
  /\ proof = NoProof
  /\ issuedAt = 0

\* The commitment part of record_progress_entry.
AppendEntry ==
  /\ Len(history) < MaxLeaves
  /\ history' = Append(history, Len(history) + 1)
  /\ frontier' = FrontierAppend(frontier, LeafHash(Len(history) + 1))
  /\ root' = FrontierRoot(frontier')
  /\ UNCHANGED <<proof, issuedAt>>

\* get_history_proof(index): computed from the current history.
GetHistoryProof(index) ==
  /\ index \in 1..Len(history)
  /\ proof' = [index |-> index,
               steps |-> PathRange(LeafHashes(history), index - 1, 0, Len(history))]
  /\ issuedAt' = Len(history)
  /\ UNCHANGED <<history, frontier, root>>

Next == AppendEntry \/ \E index \in 1..MaxLeaves : GetHistoryProof(index)

Spec == Init /\ [][Next]_vars

\* The check verify_history_proof makes against the root now stored.
VerifyHistoryProof(entry, steps) == ComputeRootFromProof(entry, steps) = root

----
\* What frontier_root depends on: peaks ascend, at most one per level, and the
\* occupied levels are the set bits of the number of leaves.
FrontierLevelsAreSetBits ==
  /\ \A i \in 1..(Len(frontier) - 1) : frontier[i].level < frontier[i + 1].level
  /\ FrontierLevels(frontier) =
       {b \in 0..(1 + Len(history) \div 2) : (Len(history) \div Pow2(b)) % 2 = 1}

\* The root derived from the frontier (frontier_root after any number of
\* frontier_append) is the RFC 6962 tree hash of the whole history
\* (mth_range), for every length, and the frontier is the compact one.
FrontierRootIsMth ==
  /\ FrontierLevelsAreSetBits
  /\ history # <<>> => root = MthRange(LeafHashes(history), 0, Len(history))

\* A proof from get_history_proof is accepted by verify_history_proof for its
\* own entry, and only while no entry has been appended since: a proof against
\* a stale root and a proof presented for another entry are both refused.
ProofAcceptedIffCurrent ==
  issuedAt > 0 =>
    \A entry \in 1..Len(history) :
      VerifyHistoryProof(entry, proof.steps)
        <=> entry = proof.index /\ issuedAt = Len(history)
====
