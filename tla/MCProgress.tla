---- MODULE MCProgress ----
(***************************************************************************)
(* Values of the constants of Progress for model checking.                  *)
(***************************************************************************)
EXTENDS Progress

CONSTANTS a1, a2, v1, s1

OneAdmin == {a1}
TwoAdmins == {a1, a2}
OneValidator == {v1}
OneScout == {s1}
NoScout == {}

NoLevel == {}
OnlyTop == {EliteTier}
TopAndBottom == {Unverified, EliteTier}
OnlyUnverified == {Unverified}

\* No history, one entry, more entries than a page holds with a reset.
LegacyMix == {<<>>, <<1>>, <<1, 2, 0>>}
\* A history longer than one purge call covers.
LegacyLong == {<<1, 2, 0, 1>>, <<1, 2, 3>>}
LegacyNone == {}

\* Entries of an earlier deployment: an advance from each level and a reset.
SeedChain ==
  {[player_id |-> p, old_level |-> l, new_level |-> l + 1, updated_by |-> v1,
    updated_at |-> 0, milestone_ref |-> 1] : p \in Players, l \in {0, 1}}
SeedNone == {}
====
