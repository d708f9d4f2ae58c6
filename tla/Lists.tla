---- MODULE Lists ----
(***************************************************************************)
(* What the contracts do with the vectors they keep: rebuild one without    *)
(* some of its entries, or read each of its entries once.  As recursive     *)
(* functions, because the proofs reason by induction on them.               *)
(***************************************************************************)
EXTENDS Integers, SequencesExt

\* One more entry x, if it is in A.
Keep(list, x, A) == IF x \in A THEN Append(list, x) ELSE list

\* The entries of s that are in A, in their order.
Filter(s, A) ==
  LET kept[i \in 0..Len(s)] == IF i = 0 THEN << >> ELSE Keep(kept[i - 1], s[i], A)
  IN  kept[Len(s)]

\* One more entry x, unless it is there.
AddNew(list, x) == IF Contains(list, x) THEN list ELSE Append(list, x)

\* Each entry of s, where it occurs first.
Once(s) ==
  LET seen[i \in 0..Len(s)] == IF i = 0 THEN << >> ELSE AddNew(seen[i - 1], s[i])
  IN  seen[Len(s)]

\* The entries of s up to its c-th, and those beyond it.
Upto(s, c) == {s[i] : i \in {j \in DOMAIN s : j <= c}}
Beyond(s, c) == {s[i] : i \in {j \in DOMAIN s : j > c}}

\* How often x is listed.
Occurrences(s, x) == Cardinality({i \in DOMAIN s : s[i] = x})
====
