---- MODULE Disputes ----
(***************************************************************************)
(* Disputes about milestones: a player files one, the admin or, for grave   *)
(* ones, a jury of validators decides it.  A milestone may be disputed in   *)
(* several rounds.  Reasons are abstracted from; jury_eligibility_cutoff is *)
(* disputed_at, with which it is always equal.                              *)
(***************************************************************************)
EXTENDS Attestation

CONSTANTS
  Disputants,           \* players whose wallets file disputes
  ImpactScores,         \* the impact scores they give
  SeedDisputes,         \* records the admin replays, with their ref and round
  JuryConfigs,          \* jury parameters the admin sets
  DefaultJury,          \* threshold 100, quorum 3, 7 days in the source
  DISPUTE_REOPEN_COOLDOWN_SECS,   \* 7 days in the source
  MAX_DISPUTE_ROUNDS,             \* 3 in the source
  MAX_OPEN_DISPUTES_PER_PLAYER    \* 5 in the source

DisputeRounds == 0..(MAX_DISPUTE_ROUNDS - 1)
JuryConfig == [impact_threshold : Nat, quorum : Nat \ {0}, voting_window_secs : Nat]
MilestoneDispute ==
  [disputed_at : Nat, resolved : BOOLEAN, upheld : BOOLEAN, resolved_at : Nat,
   jury_required : BOOLEAN, quorum : Nat, voting_deadline : Nat,
   votes_for : Nat, votes_against : Nat, approver_affiliation : Affiliations]
DisputeEntry == [ref : MilestoneRef, round : DisputeRounds]
DisputeVote == [ref : MilestoneRef, round : DisputeRounds, wallet : Wallets,
                for_upheld : BOOLEAN]

ASSUME DisputeAssumption ==
  /\ Disputants \subseteq Players /\ ImpactScores \subseteq Nat
  /\ DefaultJury \in JuryConfig /\ JuryConfigs \subseteq JuryConfig
  /\ SeedDisputes \subseteq [ref : MilestoneRef, round : DisputeRounds, d : MilestoneDispute]
  /\ DISPUTE_REOPEN_COOLDOWN_SECS \in Nat
  /\ MAX_DISPUTE_ROUNDS \in Nat \ {0} /\ MAX_OPEN_DISPUTES_PER_PLAYER \in Nat
  /\ NONE \notin MilestoneDispute \cup Seq(Indexes)

VARIABLES
  juryConfig,               \* JuryConfig, its default when absent
  dispute,                  \* MilestoneDispute(player, index, round)
  disputeRound,             \* DisputeRound(player, index): the latest round
  playerDisputes,           \* PlayerDisputes(player)
  activeDisputesCount,      \* ActiveDisputesCount
  playerOpenDisputeCount,   \* PlayerOpenDisputeCount(player)
  openDisputeIndex,         \* OpenDisputeIndex
  disputeVote,              \* DisputeVote(player, index, round, wallet)
  disputeVoteCount          \* DisputeVoteCount(player, index, round)

rounds == <<dispute, disputeRound>>
openness == <<playerDisputes, activeDisputesCount, playerOpenDisputeCount,
              openDisputeIndex>>
ballots == <<disputeVote, disputeVoteCount>>
disputeVars == <<juryConfig, rounds, openness, ballots>>

----
MilestoneAt(ref) == milestone[ref[1]][ref[2]]
AttestorsOf(ref) == milestoneAttestors[ref[1]][ref[2]]

\* milestone_flag_wallets: the validator, then its co-attestors.
FlagWallets(ref) ==
  <<MilestoneAt(ref).validator>> \o
    Filter(AttestorsOf(ref), Wallets \ {MilestoneAt(ref).validator})

\* get_dispute and has_dispute: the latest round.
HasDispute(ref) == disputeRound[ref] # NONE
GetDispute(ref) == dispute[ref][disputeRound[ref]]
Disputed(ref) == HasDispute(ref) /\ GetDispute(ref) # NONE

NextRound(ref) == IF HasDispute(ref) THEN disputeRound[ref] + 1 ELSE 0

\* A milestone never disputed, or whose last dispute was closed long enough ago.
MayReopen(ref) ==
  HasDispute(ref) =>
    /\ GetDispute(ref) # NONE
    /\ GetDispute(ref).resolved
    /\ NextRound(ref) < MAX_DISPUTE_ROUNDS
    /\ now >= GetDispute(ref).resolved_at + DISPUTE_REOPEN_COOLDOWN_SECS

\* PlayerDisputes with an index listed once.
PlayerDisputesWith(p, i) ==
  IF playerDisputes[p] = NONE THEN <<i>>
  ELSE IF i \in ToSetOf(playerDisputes[p]) THEN playerDisputes[p]
  ELSE Append(playerDisputes[p], i)

Filed(ref, impact) ==
  LET jury == impact >= juryConfig.impact_threshold IN
  [disputed_at |-> now, resolved |-> FALSE, upheld |-> FALSE, resolved_at |-> 0,
   jury_required |-> jury, quorum |-> juryConfig.quorum,
   voting_deadline |-> IF jury THEN now + juryConfig.voting_window_secs ELSE 0,
   votes_for |-> 0, votes_against |-> 0,
   approver_affiliation |-> validator[MilestoneAt(ref).validator].affiliation]

\* The player's wallet is checked with registration.
DisputeMilestone(p, i, impact) ==
  LET ref == <<p, i>> IN
  /\ NotPaused
  /\ MilestoneAt(ref) # NONE
  /\ Wired("registration")
  /\ MayReopen(ref)
  /\ playerOpenDisputeCount[p] < MAX_OPEN_DISPUTES_PER_PLAYER
  /\ Registered(MilestoneAt(ref).validator)
  /\ dispute' = [dispute EXCEPT ![ref][NextRound(ref)] = Filed(ref, impact)]
  /\ disputeRound' = [disputeRound EXCEPT ![ref] = NextRound(ref)]
  /\ playerDisputes' = [playerDisputes EXCEPT ![p] = PlayerDisputesWith(p, i)]
  /\ activeDisputesCount' = activeDisputesCount + 1
  /\ playerOpenDisputeCount' = [playerOpenDisputeCount EXCEPT ![p] = @ + 1]
  /\ openDisputeIndex' =
       Append(openDisputeIndex, [ref |-> ref, round |-> NextRound(ref)])
  /\ UNCHANGED <<validatorVars, attestationVars, juryConfig, ballots>>

----
(***************************************************************************)
(* Closing.                                                                 *)
(***************************************************************************)
\* Mutant: the player's counter stays up.
GlobalCountDown(p) ==
  /\ activeDisputesCount' = activeDisputesCount - 1
  /\ UNCHANGED playerOpenDisputeCount

\* activeDisputesCount > 0: safe_sub_u32 refuses otherwise.
CountClosed(p) ==
  /\ activeDisputesCount > 0
  /\ activeDisputesCount' = activeDisputesCount - 1
  /\ playerOpenDisputeCount' =
       [playerOpenDisputeCount EXCEPT ![p] = IF @ > 0 THEN @ - 1 ELSE 0]

CloseDispute(ref, upheld) ==
  LET round == disputeRound[ref] IN
  /\ dispute' = [dispute EXCEPT ![ref][round] =
       [@ EXCEPT !.resolved = TRUE, !.upheld = upheld, !.resolved_at = now]]
  /\ CountClosed(ref[1])
  /\ openDisputeIndex' =
       Filter(openDisputeIndex, DisputeEntry \ {[ref |-> ref, round |-> round]})
  /\ UNCHANGED <<validatorVars, attestationVars, juryConfig, disputeRound, playerDisputes,
                 ballots>>

ResolveDispute(ref, upheld) ==
  /\ NotPaused
  /\ Disputed(ref)
  /\ ~GetDispute(ref).resolved
  /\ ~GetDispute(ref).jury_required
  /\ CloseDispute(ref, upheld)

TotalVotes(d) == d.votes_for + d.votes_against

\* A clear majority of a full jury, or the end of the voting window.
MayTally(d) ==
  \/ now >= d.voting_deadline
  \/ TotalVotes(d) >= d.quorum /\ d.votes_for # d.votes_against

\* Below the quorum, and in a tie, the dispute is rejected.
Verdict(d) == TotalVotes(d) >= d.quorum /\ d.votes_for > d.votes_against

\* Anyone may have the votes counted.
TallyDispute(ref) ==
  /\ NotPaused
  /\ Disputed(ref)
  /\ GetDispute(ref).jury_required
  /\ ~GetDispute(ref).resolved
  /\ MayTally(GetDispute(ref))
  /\ CloseDispute(ref, Verdict(GetDispute(ref)))

----
(***************************************************************************)
(* The jury.                                                                *)
(***************************************************************************)
SetJuryConfig(config) ==
  /\ NotPaused
  /\ config.quorum <= activeValidatorCount
  /\ juryConfig' = config
  /\ UNCHANGED <<validatorVars, attestationVars, rounds, openness, ballots>>

\* Registered before the dispute, no attestor of the milestone, and of another
\* affiliation than its validator.
Eligible(w, ref, d) ==
  /\ IsActiveValidator(w)
  /\ validator[w].registered_at < d.disputed_at
  /\ MilestoneAt(ref) # NONE
  /\ w \notin ToSetOf(FlagWallets(ref))
  /\ validator[w].affiliation # d.approver_affiliation

HasVoted(w, ref, round) ==
  \E v \in disputeVote : v.ref = ref /\ v.round = round /\ v.wallet = w

CountVote(d, for_upheld) ==
  IF for_upheld THEN [d EXCEPT !.votes_for = @ + 1] ELSE [d EXCEPT !.votes_against = @ + 1]

CastDisputeVote(w, ref, for_upheld) ==
  LET round == disputeRound[ref]
      d     == GetDispute(ref)
  IN  /\ NotPaused
      /\ Disputed(ref)
      /\ d.jury_required /\ ~d.resolved
      /\ now < d.voting_deadline
      /\ Eligible(w, ref, d)
      /\ ~HasVoted(w, ref, round)
      /\ disputeVote' = disputeVote \cup
           {[ref |-> ref, round |-> round, wallet |-> w, for_upheld |-> for_upheld]}
      /\ dispute' = [dispute EXCEPT ![ref][round] = CountVote(d, for_upheld)]
      /\ disputeVoteCount' = [disputeVoteCount EXCEPT ![ref][round] = @ + 1]
      /\ UNCHANGED <<validatorVars, attestationVars, juryConfig, disputeRound, openness>>

\* The votes of ws in the disputes listed as open.
OpenVotesOf(ws) ==
  {v \in disputeVote :
     v.wallet \in ws /\ [ref |-> v.ref, round |-> v.round] \in ToSetOf(openDisputeIndex)}

\* A dispute without the votes removed from it.
TallyWithout(d, removed) ==
  LET less(n, so) == LET k == Cardinality({v \in removed : v.for_upheld = so})
                     IN  IF k > n THEN 0 ELSE n - k
  IN  [d EXCEPT !.votes_for = less(@, TRUE), !.votes_against = less(@, FALSE)]

\* remove_dispute_votes_for_validator, for every wallet of ws.
RemoveDisputeVotes(ws) ==
  LET removed(ref, round) == {v \in OpenVotesOf(ws) : v.ref = ref /\ v.round = round}
      counted(ref, round) == dispute[ref][round] # NONE /\ ~dispute[ref][round].resolved
      less(n, k) == IF k > n THEN 0 ELSE n - k
  IN  /\ disputeVote' = disputeVote \ OpenVotesOf(ws)
      /\ dispute' = [ref \in MilestoneRef |-> [round \in DisputeRounds |->
           IF counted(ref, round)
           THEN TallyWithout(dispute[ref][round], removed(ref, round))
           ELSE dispute[ref][round]]]
      /\ disputeVoteCount' = [ref \in MilestoneRef |-> [round \in DisputeRounds |->
           IF counted(ref, round)
           THEN less(disputeVoteCount[ref][round], Cardinality(removed(ref, round)))
           ELSE disputeVoteCount[ref][round]]]

\* admin_seed_dispute: the record, and an open one's index entry and counters.
AdminSeedDispute(ref, round, d) ==
  LET p     == ref[1]
      entry == [ref |-> ref, round |-> round]
      opens == ~d.resolved /\ entry \notin ToSetOf(openDisputeIndex)
      one   == IF opens THEN 1 ELSE 0
  IN  /\ RequireMigrationActive
      /\ dispute[ref][round] = NONE
      /\ \A r \in DisputeRounds :                \* bound: nothing was filed here yet
           dispute[ref][r] # NONE => [ref |-> ref, round |-> r, d |-> dispute[ref][r]] \in SeedDisputes
      /\ dispute' = [dispute EXCEPT ![ref][round] = d]
      /\ disputeRound' =
           IF HasDispute(ref) /\ round < disputeRound[ref] THEN disputeRound
           ELSE [disputeRound EXCEPT ![ref] = round]
      /\ playerDisputes' = [playerDisputes EXCEPT ![p] = PlayerDisputesWith(p, ref[2])]
      /\ openDisputeIndex' =
           IF opens THEN Append(openDisputeIndex, entry) ELSE openDisputeIndex
      /\ activeDisputesCount' = activeDisputesCount + one
      /\ playerOpenDisputeCount' = [playerOpenDisputeCount EXCEPT ![p] = @ + one]
      /\ UNCHANGED <<validatorVars, attestationVars, juryConfig, ballots>>

DisputeInit ==
  /\ juryConfig = DefaultJury
  /\ dispute = [ref \in MilestoneRef |-> [round \in DisputeRounds |-> NONE]]
  /\ disputeRound = [ref \in MilestoneRef |-> NONE]
  /\ playerDisputes = [p \in Players |-> NONE]
  /\ activeDisputesCount = 0
  /\ playerOpenDisputeCount = [p \in Players |-> 0]
  /\ openDisputeIndex = << >>
  /\ disputeVote = {}
  /\ disputeVoteCount = [ref \in MilestoneRef |-> [round \in DisputeRounds |-> 0]]
====
