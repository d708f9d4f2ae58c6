---- MODULE MCVerification ----
(***************************************************************************)
(* Values of the constants of Verification for model checking, and what its *)
(* behaviours are about: the runs take each of these subjects apart, since  *)
(* all of them at once is more than TLC can reach.                          *)
(***************************************************************************)
EXTENDS Verification

CONSTANTS v1, v2, v3, p1, p2, e1, e2, e3, d1, d2, k1, k2, north, south

TwoValidators == {v1, v2}
ThreeValidators == {v1, v2, v3}
SamePlace == [w \in Wallets |-> north]
TwoPlaces == [w \in Wallets |-> IF w = v1 THEN north ELSE south]

Nobody == {}

\* Signatures of v1 with either key, near and far ahead, and two with the last nonce.
Signed(e, nonce, key) ==
  [wallet |-> v1, player |-> p1, evidence |-> e, description |-> d1,
   nonce |-> nonce, expires_at |-> StartTime + 2, key |-> key]
SomeSigned ==
  {Signed(e1, 0, k1), Signed(e2, 0, k1), Signed(e3, 3, k2), Signed(e1, 1, k2),
   Signed(e3, 2, k1), Signed(e2, U64_MAX, k1), Signed(e3, U64_MAX, k1)}

Jury == [impact_threshold |-> 1, quorum |-> 2, voting_window_secs |-> 1]
OneGate == {[required_distinct_affiliations |-> 2, starting_milestone_index |-> 2]}
OneJuror == {[impact_threshold |-> 1, quorum |-> 1, voting_window_secs |-> 1]}

\* A record of an earlier deployment, and two disputes of it, one still open.
SeedRecord ==
  {[validator |-> v1, evidence |-> e1, description |-> d1, approved_at |-> 0]}
SeedDispute(round, resolved) ==
  [ref |-> <<p1, 1>>, round |-> round,
   d |-> [disputed_at |-> 0, resolved |-> resolved, upheld |-> FALSE, resolved_at |-> 0,
          jury_required |-> ~resolved, quorum |-> 1, voting_deadline |-> StartTime + 1,
          votes_for |-> 0, votes_against |-> 0, approver_affiliation |-> north]]
SeedDisputePair == {SeedDispute(0, TRUE), SeedDispute(1, FALSE)}

----
(***************************************************************************)
(* The parts of the state a subject leaves as they are at first.            *)
(***************************************************************************)
NoRevocation == \A w \in Wallets : revocationRecord[w] = NONE
NoRoutine ==
  \A w \in Wallets : revocationRecord[w] # NONE => revocationRecord[w].severity = ForCause
NoSweep == \A w \in Wallets : flagCount[w] = 0 /\ cascadeCursor[w] = NONE
NoClaim == \A key \in ClaimKeys : claim[key] = NONE
NoDispute == \A ref \in MilestoneRef : ~HasDispute(ref)
NoKey == \A w \in Wallets : attestationKey[w] = NONE
NoSwitch == paused = {} /\ playerActive = Players /\ migrationWindow = "closed"
NoErasure == \A p \in Players : NotErased(p)
AllWired ==
  /\ wiring = [peer \in Peers |-> [epoch |-> 1, set |-> TRUE]]
  /\ \A n \in DOMAIN recorded : recorded[n].wired

Touched(e) == evidenceUsed[e] # NONE \/ \E p \in Players : claim[<<p, e>>] # NONE
InOrder == (Touched(e2) => Touched(e1)) /\ ({e2, e3} \subseteq Evidence /\ Touched(e3) => Touched(e2))
OneClaim == Cardinality({key \in ClaimKeys : claim[key] # NONE}) <= 1
Idle(w) == IsActiveValidator(w) /\ pendingVotes[w] = {} /\ validatorMilestones[w] = << >>

NoGate == diversityConfig = NONE
Base == juryConfig = DefaultJury /\ NoErasure /\ NoGate

\* Claims about two evidences, or about one in two texts, or about one with a wallet
\* transferred or the voting window changed.  Two evidences with a revocation go
\* as far as the first milestone, which is enough for a revoked validator's votes on
\* the other to be retracted.
OneText == \A v \in voteCast : v.text = d1
OneEvidence == ~Touched(e2)
Claiming ==
  /\ InOrder
  /\ OneText \/ OneEvidence
  /\ transferred # {} => OneText /\ OneEvidence
  /\ votingWindow # DEFAULT_VOTING_WINDOW_SECS => OneText /\ OneEvidence /\ NoRevocation
  /\ ~OneEvidence => milestoneCounter[p1] <= 1 \/ NoRevocation

\* Dismissals, escalations and restorations of two validators, sweeps, re-reviews.
\* A vote pending while a validator is revoked, or a routine revocation, goes with
\* one milestone; with three, v1 alone attests the
\* first and the last and v2 is not revoked.
Cascading ==
  /\ InOrder /\ OneClaim /\ Idle(v3)
  /\ milestoneCounter[p1] > 1 => NoRoutine /\ (NoRevocation \/ NoClaim)
  /\ milestoneCounter[p1] > 2 =>
       /\ \A i \in {1, 3} : milestoneAttestors[p1][i] = <<v1>>
       /\ revocationRecord[v2] = NONE

\* Disputes about one milestone of v1: two rounds, with a juror dismissed and
\* restored in the first two ticks, or with another jury. Where two
\* attestations are wanted, the milestone has them.
Judging ==
  /\ NoErasure /\ NoGate /\ NoKey /\ NoSwitch /\ NoSweep /\ NoRoutine /\ InOrder /\ OneClaim
  /\ milestoneCounter[p1] <= 1
  /\ NoDispute => now = StartTime /\ NoRevocation /\ juryConfig = DefaultJury
  /\ milestoneCounter[p1] = 1 => NoClaim /\ v1 \in ToSetOf(milestoneAttestors[p1][1])
  /\ juryConfig # DefaultJury => NoRevocation /\ now <= StartTime + 1
  /\ NoRevocation \/ now <= StartTime + 2
  /\ milestoneThreshold > 1 => milestoneAttestors[p1][1] # <<v1>>

\* Signatures of v1, at two times.
Signing ==
  /\ Base /\ NoRevocation /\ NoSweep /\ NoSwitch /\ NoDispute /\ NoClaim
  /\ milestoneThreshold = 1
  /\ now <= StartTime + 1
  /\ \A w \in Wallets : Len(accepted[w]) = Len(validatorMilestones[w])

Administering ==
  NoRevocation /\ NoSweep /\ NoGate /\ NoKey /\ NoClaim /\ milestoneThreshold = 1 /\ InOrder
    /\ juryConfig = DefaultJury /\ \A w \in Wallets \ {v1} : validatorMilestones[w] = << >>

\* Pauses and hidden players.
Switching ==
  /\ Administering /\ NoErasure /\ NoDispute
  /\ now = StartTime /\ migrationWindow = "closed"

\* An erasure with disputes, interrupted by approvals.
Erasing ==
  /\ Administering /\ NoSwitch /\ now = StartTime /\ milestoneCounter[p1] <= 2

\* Replay, then disputes of what was replayed, or an erasure and more replays.
Replaying ==
  /\ Administering /\ (NoErasure \/ NoDispute) /\ paused = {} /\ playerActive = Players
  /\ milestoneCounter[p1] <= 1 /\ now <= StartTime + 1
  /\ migrationWindow = "closed" => NoDispute /\ now = StartTime

\* Milestones by validators of two organisations, the diversity gate set between them.
Gating ==
  /\ NoErasure /\ NoKey /\ NoSwitch /\ NoRevocation /\ NoSweep /\ NoDispute /\ NoClaim
  /\ milestoneThreshold = 1 /\ juryConfig = DefaultJury /\ InOrder
  /\ validatorMilestones[v3] = << >> /\ now = StartTime

\* Peers wired late and again, with milestones of v1 before and after.
Wiring ==
  /\ Administering /\ NoErasure /\ NoSwitch /\ NoDispute /\ now = StartTime
  /\ milestoneCounter[p1] <= 2

OneSubject ==
  \/ AllWired /\ (Judging \/ Signing \/ Switching \/ Erasing \/ Replaying \/ Gating)
  \/ Wiring
====
