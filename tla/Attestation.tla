---- MODULE Attestation ----
(***************************************************************************)
(* How validators get a milestone recorded: alone (approve_milestone), with *)
(* a signature a relayer submits (submit_attested_milestone), or together   *)
(* (attest_milestone), where a claim gathers votes in rounds until the      *)
(* threshold its round began with is met.                                   *)
(*                                                                          *)
(* Vote keys, each validator's list of pending votes and the claim's voters *)
(* are three copies of one fact, kept apart here as in storage.  Categories *)
(* are left out.  The progress contract appears as the level it keeps for a *)
(* player, registration as the players it reports as active.  A signature   *)
(* is the key that made it.                                                 *)
(***************************************************************************)
EXTENDS ValidatorSet

CONSTANTS
  Players,              \* player ids
  Hideable,             \* players registration hides and shows again
  Evidence,             \* evidence CIDs
  Descriptions,         \* texts a milestone is described by
  Keys,                 \* attestation public keys
  Signers,              \* wallets that register keys
  Attestations,         \* the payloads validators sign
  SeedMilestones,       \* records the admin replays
  Thresholds,           \* k-of-n thresholds the admin sets
  VotingWindows,        \* voting windows the admin sets
  DEFAULT_VOTING_WINDOW_SECS,
  MAX_PENDING_VOTES_PER_VALIDATOR,          \* 25 in the source
  MAX_MILESTONES_PER_PLAYER_PER_VALIDATOR,  \* per window
  PLAYER_VALIDATOR_WINDOW_SECS,             \* 90 days; the ledger is older than that
  ATTESTATION_NONCE_BITMAP_BITS,            \* 256 in the source
  MAX_ATTESTATION_FUTURE_TOLERANCE_SECS,    \* an hour in the source
  U64_MAX,              \* the largest nonce
  MAX_GLOBAL_MILESTONE_INDEX,               \* slots of the ring buffer
  DiversityConfigs,     \* diversity gates the admin sets
  Unwired,              \* the peers a deployment may leave to be configured later
  MaxEpoch,             \* bound on the wirings of a peer
  MAX_PAGE,             \* entries of a page at most, 50 in the source
  MaxMilestones         \* bound on the milestones of a player

Indexes == 1..MaxMilestones
MilestoneRef == Players \X Indexes
ClaimKeys == Players \X Evidence
Rounds == 0..MaxTime

PendingMilestoneClaim ==
  [description : Descriptions, vote_count : Nat, round : Nat, created_at : Nat,
   threshold : Nat \ {0}, voters : Seq(Wallets)]
PendingVoteRef == [key : ClaimKeys, round : Rounds]
\* The text a vote was cast for is history: the stored value is its time.
PendingMilestoneVote ==
  [key : ClaimKeys, round : Rounds, wallet : Wallets, text : Descriptions]
Milestone == [validator : Wallets, evidence : Evidence, description : Descriptions,
              approved_at : Nat]
MilestoneAttestation ==
  [wallet : Wallets, player : Players, evidence : Evidence, description : Descriptions,
   nonce : 0..U64_MAX, expires_at : Nat, key : Keys]

DiversityConfig ==
  [required_distinct_affiliations : Nat \ {0}, starting_milestone_index : Nat \ {0}]

\* The contracts this one calls, and what it keeps of a link: the number of
\* times it was wired, 0 for never, and the flag of the set_ entry point.
Peers == {"progress", "registration"}
WiringLink == [epoch : 0..MaxEpoch, set : BOOLEAN]

\* The level of EliteTier, the highest of progress.
MAX_LEVEL == 3

ASSUME AttestationAssumption ==
  /\ DiversityConfigs \subseteq DiversityConfig
  /\ \A c \in DiversityConfigs : c.required_distinct_affiliations <= MAX_VALIDATORS
  /\ MAX_PAGE \in Nat \ {0}
  /\ Hideable \subseteq Players /\ Signers \subseteq Wallets
  /\ U64_MAX \in Nat /\ Attestations \subseteq MilestoneAttestation
  /\ SeedMilestones \subseteq Milestone
  /\ Thresholds \subseteq 1..MAX_VALIDATORS
  /\ VotingWindows \subseteq Nat /\ DEFAULT_VOTING_WINDOW_SECS \in Nat
  /\ MAX_PENDING_VOTES_PER_VALIDATOR \in Nat
  /\ MAX_MILESTONES_PER_PLAYER_PER_VALIDATOR \in Nat \ {0}
  /\ PLAYER_VALIDATOR_WINDOW_SECS \in 1..StartTime
  /\ ATTESTATION_NONCE_BITMAP_BITS \in Nat \ {0}
  /\ MAX_ATTESTATION_FUTURE_TOLERANCE_SECS \in Nat
  /\ MAX_GLOBAL_MILESTONE_INDEX \in Nat \ {0}
  /\ MaxMilestones \in Nat /\ MaxEpoch \in Nat \ {0}
  /\ NONE \notin PendingMilestoneClaim \cup MilestoneRef \cup Milestone \cup Keys
  /\ NONE \notin DiversityConfig

VARIABLES
  migrationWindow,      \* MigrationActive and MigrationWindowSealed
  playerActive,         \* registration: the players it reports as Active
  milestoneThreshold,   \* MilestoneApprovalThreshold
  votingWindow,         \* AttestationVotingWindowSecs
  diversityConfig,      \* DiversityConfig
  wiring,               \* ProgressContract, RegistrationContract, their epochs and flags
  claim,                \* PendingMilestoneClaim(player, evidence)
  voteCast,             \* PendingMilestoneVote(player, evidence, round, wallet)
  pendingVotes,         \* ValidatorPendingVotes(wallet): the refs listed
  attestationKey,       \* AttestationKey(wallet)
  attestationKeyOwner,  \* AttestationKeyOwner(key)
  nonceBase,            \* AttestationNonceBase(wallet)
  nonceBitmap,          \* AttestationNonceBitmap(wallet): the bits set
  milestone,            \* Milestone(player, index)
  milestoneCounter,     \* MilestoneCounter(player)
  milestoneAttestors,   \* MilestoneAttestors(player, index)
  evidenceUsed,         \* EvidenceUsed(evidence)
  validatorMilestones,  \* ValidatorMilestones(wallet)
  validatorMilestoneCount,  \* ValidatorMilestoneCount(wallet)
  validatorPlayers,     \* ValidatorPlayers(wallet)
  totalMilestoneCount,  \* TotalMilestoneCountU64
  playerAffiliations,   \* PlayerAffiliations(player), as a set
  playerLevel,          \* progress: the rank of the player's level
  playerCount,          \* ValidatorPlayerMilestoneCount(wallet, player)
  windowStart,          \* ValidatorPlayerWindowStart(wallet, player)
  globalSlot,           \* GlobalMilestoneSlot(slot)
  writeHead,            \* GlobalMilestoneWriteHead
  \* What the properties need to know of the past; no guard reads these.
  recorded,             \* every milestone recorded, in order
  accepted              \* the nonces of a wallet that were accepted, in order

settings == <<migrationWindow, playerActive, milestoneThreshold, votingWindow,
              diversityConfig, wiring>>
claims == <<claim, voteCast, pendingVotes>>
signing == <<attestationKey, attestationKeyOwner, nonceBase, nonceBitmap, accepted>>
tallies == <<validatorMilestoneCount, validatorPlayers, totalMilestoneCount>>
standing == <<playerAffiliations, playerLevel>>
milestones == <<milestone, milestoneCounter, milestoneAttestors, evidenceUsed,
                validatorMilestones, playerCount, windowStart, globalSlot, writeHead,
                tallies, standing, recorded>>
attestationVars == <<settings, claims, signing, milestones>>

----
(***************************************************************************)
(* commit_approved_milestone, the one way a milestone is recorded besides   *)
(* replay.                                                                  *)
(***************************************************************************)
NextIndex(p) == milestoneCounter[p] + 1

\* Mutant: the head starts over when the buffer is full.
PushFromZero(ref) ==
  /\ globalSlot' = [globalSlot EXCEPT ![writeHead] = ref]
  /\ writeHead' = (writeHead + 1) % MAX_GLOBAL_MILESTONE_INDEX

\* push_global_milestone; the head stays below twice the capacity.
PushGlobalMilestone(ref) ==
  LET cap  == MAX_GLOBAL_MILESTONE_INDEX
      slot == writeHead % cap
  IN  /\ globalSlot' = [globalSlot EXCEPT ![slot] = ref]
      /\ writeHead' = IF writeHead >= cap - 1 THEN cap + ((slot + 1) % cap)
                                              ELSE writeHead + 1

WindowOpen(w, p) == now < windowStart[w][p] + PLAYER_VALIDATOR_WINDOW_SECS

\* What w has recorded for p in the window that is open now.
CountInWindow(w, p) == IF WindowOpen(w, p) THEN playerCount[w][p] ELSE 0

\* Mutant: the window starts when the stored count is 0, which it never is again.
ChargeStuckWindow(w, p) ==
  /\ CountInWindow(w, p) < MAX_MILESTONES_PER_PLAYER_PER_VALIDATOR
  /\ playerCount' = [playerCount EXCEPT ![w][p] = CountInWindow(w, p) + 1]
  /\ windowStart' = IF playerCount[w][p] = 0
                    THEN [windowStart EXCEPT ![w][p] = now] ELSE windowStart

\* The committing validator is charged, its co-attestors are not.
ChargeWindow(w, p) ==
  /\ CountInWindow(w, p) < MAX_MILESTONES_PER_PLAYER_PER_VALIDATOR
  /\ playerCount' = [playerCount EXCEPT ![w][p] = CountInWindow(w, p) + 1]
  /\ windowStart' = IF CountInWindow(w, p) = 0
                    THEN [windowStart EXCEPT ![w][p] = now] ELSE windowStart

\* Mutant: only the committing validator's list gets the milestone.
ListPrimary(w, attestors, ref) ==
  validatorMilestones' = [validatorMilestones EXCEPT ![w] = Append(@, ref)]

\* Every attestor's approval list gets the milestone.
ListForAll(w, attestors, ref) ==
  validatorMilestones' = [v \in Wallets |->
    IF v \in ToSetOf(attestors) THEN Append(validatorMilestones[v], ref)
                                ELSE validatorMilestones[v]]

EvidenceFree(e) == evidenceUsed[e] = NONE

ReadTotalMilestoneCount == totalMilestoneCount
BumpTotalMilestoneCount == totalMilestoneCount' = ReadTotalMilestoneCount + 1

\* The platform's total, and the count and players of the validator who commits.
BumpTotals(w, p) ==
  /\ BumpTotalMilestoneCount
  /\ validatorMilestoneCount' = [validatorMilestoneCount EXCEPT ![w] = @ + 1]
  /\ validatorPlayers' = [validatorPlayers EXCEPT ![w] =
       IF p \in ToSetOf(@) THEN @ ELSE Append(@, p)]

\* The organisations that speak for p once w has.
AffiliationsWith(w, p) == playerAffiliations[p] \cup {validator[w].affiliation}

\* The diversity gate, for the milestone with this index.
AdvanceAllowed(config, index, affiliations) ==
  config # NONE /\ index >= config.starting_milestone_index =>
    Cardinality(affiliations) >= config.required_distinct_affiliations

GetDiversityConfig == diversityConfig
Wired(peer) == wiring[peer].epoch > 0

\* Fails closed while registration is not wired.
RequireActivePlayer(p) == Wired("registration") /\ p \in playerActive

\* try_advance_level; a player at the top stays there, any other refusal of
\* progress reverts the call, and without progress the level stays for good.
AdvanceLevel(w, p) ==
  /\ playerAffiliations' = [playerAffiliations EXCEPT ![p] = AffiliationsWith(w, p)]
  /\ playerLevel' =
       IF /\ AdvanceAllowed(GetDiversityConfig, NextIndex(p), AffiliationsWith(w, p))
          /\ Wired("progress")
       THEN [playerLevel EXCEPT ![p] = Least(@ + 1, MAX_LEVEL)] ELSE playerLevel

CommitApprovedMilestone(w, p, e, description, attestors) ==
  LET ref == <<p, NextIndex(p)>> IN
  /\ RequireActivePlayer(p)
  /\ EvidenceFree(e)
  /\ NextIndex(p) \in Indexes
  /\ ChargeWindow(w, p)
  /\ milestone' = [milestone EXCEPT ![p][NextIndex(p)] =
       [validator |-> w, evidence |-> e, description |-> description, approved_at |-> now]]
  /\ milestoneCounter' = [milestoneCounter EXCEPT ![p] = NextIndex(p)]
  /\ milestoneAttestors' = [milestoneAttestors EXCEPT ![p][NextIndex(p)] = attestors]
  /\ evidenceUsed' = [evidenceUsed EXCEPT ![e] = ref]
  /\ ListForAll(w, attestors, ref)
  /\ BumpTotals(w, p)
  /\ AdvanceLevel(w, p)
  /\ PushGlobalMilestone(ref)
  /\ recorded' = Append(recorded,
       [ref |-> ref, validator |-> w, attestors |-> attestors,
        affiliation |-> validator[w].affiliation,
        config |-> GetDiversityConfig, wired |-> Wired("progress")])

ApproveMilestone(w, p, e, description) ==
  /\ ApproveNotPaused
  /\ milestoneThreshold <= 1
  /\ IsActiveValidator(w)
  /\ CommitApprovedMilestone(w, p, e, description, <<w>>)
  /\ UNCHANGED <<validatorVars, settings, claims, signing>>

----
(***************************************************************************)
(* Claims and their rounds.                                                 *)
(***************************************************************************)
Expired(c) == c.vote_count > 0 /\ now - c.created_at > votingWindow

FreshClaim(description) ==
  [description |-> description, vote_count |-> 0, round |-> 0, created_at |-> now,
   threshold |-> milestoneThreshold, voters |-> << >>]

\* The votes cast for key in a round.
RoundVotes(key, round) == {v \in voteCast : v.key = key /\ v.round = round}

\* delete_claim_round_votes: the votes, and the validators' lists, without the
\* round's voters.
VotesWithout(votes, key, c) ==
  {v \in votes : ~(v.key = key /\ v.round = c.round /\ v.wallet \in ToSetOf(c.voters))}

RefsWithout(refs, key, c) ==
  [v \in Wallets |-> IF v \in ToSetOf(c.voters)
                     THEN refs[v] \ {[key |-> key, round |-> c.round]} ELSE refs[v]]

\* Mutant: an expired round keeps its voters.
ClaimKeepingVoters(key, description) ==
  LET c == claim[key] IN
  IF c = NONE THEN FreshClaim(description)
  ELSE IF Expired(c)
       THEN [FreshClaim(description) EXCEPT !.round = c.round + 1, !.voters = c.voters]
       ELSE c

\* The claim a vote meets: a fresh one, the stored one, or the next round of an
\* expired one.
ClaimFor(key, description) ==
  LET c == claim[key] IN
  IF c = NONE THEN FreshClaim(description)
  ELSE IF Expired(c) THEN [FreshClaim(description) EXCEPT !.round = c.round + 1] ELSE c

VotesBefore(key) ==
  LET c == claim[key] IN
  IF c # NONE /\ Expired(c) THEN VotesWithout(voteCast, key, c) ELSE voteCast

RefsBefore(key) ==
  LET c == claim[key] IN
  IF c # NONE /\ Expired(c) THEN RefsWithout(pendingVotes, key, c) ELSE pendingVotes

\* The refs of w that still name a claim's current round, c being key's claim.
LiveRefs(w, key, c) ==
  {r \in RefsBefore(key)[w] :
     IF r.key = key THEN r.round = c.round
     ELSE claim[r.key] # NONE /\ claim[r.key].round = r.round}

\* The claim with w's vote; the first voter of a round sets its text.
WithVote(c, w, description) ==
  [c EXCEPT !.vote_count = @ + 1, !.voters = Append(@, w),
            !.description = IF c.vote_count = 0 THEN description ELSE @]

\* What every attestation asks before it counts.
MayAttest(w, key, c, description) ==
  /\ ApproveNotPaused
  /\ IsActiveValidator(w)
  /\ EvidenceFree(key[2])
  /\ c.round \in Rounds                        \* bound
  /\ c.vote_count > 0 => description = c.description
  /\ ~\E v \in voteCast : v.key = key /\ v.round = c.round /\ v.wallet = w
  /\ Cardinality(LiveRefs(w, key, c)) < MAX_PENDING_VOTES_PER_VALIDATOR

\* Mutant: the last vote missing is not waited for.
NearsThreshold(c) == c.vote_count + 1 >= c.threshold

ReachesThreshold(c) == c.vote_count >= c.threshold

\* A vote that leaves the claim pending.
AttestPending(w, p, e, description) ==
  LET key == <<p, e>>
      c   == ClaimFor(key, description)
      new == WithVote(c, w, description)
      ref == [key |-> key, round |-> c.round]
  IN  /\ MayAttest(w, key, c, description)
      /\ ~ReachesThreshold(new)
      /\ claim' = [claim EXCEPT ![key] = new]
      /\ voteCast' = VotesBefore(key) \cup
           {[key |-> key, round |-> c.round, wallet |-> w, text |-> description]}
      /\ pendingVotes' =
           [RefsBefore(key) EXCEPT ![w] = LiveRefs(w, key, c) \cup {ref}]
      /\ UNCHANGED <<validatorVars, settings, signing, milestones>>

\* The vote that crosses the threshold: the round's votes go and the claim commits.
AttestCommit(w, p, e, description) ==
  LET key == <<p, e>>
      c   == ClaimFor(key, description)
      new == WithVote(c, w, description)
  IN  /\ MayAttest(w, key, c, description)
      /\ ReachesThreshold(new)
      /\ CommitApprovedMilestone(w, p, e, new.description, new.voters)
      /\ claim' = [claim EXCEPT ![key] = NONE]
      /\ voteCast' = VotesWithout(VotesBefore(key), key, new)
      /\ pendingVotes' =
           RefsWithout([RefsBefore(key) EXCEPT ![w] = LiveRefs(w, key, c)], key, new)
      /\ UNCHANGED <<validatorVars, settings, signing>>

\* Anyone may remove a claim whose window has passed.
PruneExpiredClaim(p, e) ==
  LET key == <<p, e>>
      c   == claim[key]
  IN  /\ NotPaused
      /\ c # NONE /\ Expired(c)
      /\ voteCast' = VotesWithout(voteCast, key, c)
      /\ pendingVotes' = RefsWithout(pendingVotes, key, c)
      /\ claim' = [claim EXCEPT ![key] = NONE]
      /\ UNCHANGED <<validatorVars, settings, signing, milestones>>

\* has_attested: only a vote that can still count is reported.
HasAttested(p, e, w) ==
  LET c == claim[<<p, e>>] IN
  /\ c # NONE /\ ~Expired(c)
  /\ \E v \in RoundVotes(<<p, e>>, c.round) : v.wallet = w

----
(***************************************************************************)
(* Attestations signed off chain.                                           *)
(***************************************************************************)
\* The reverse index after w registers k: the key it replaces is freed.
Rebound(w, k) ==
  [j \in Keys |-> IF j = k THEN w
                  ELSE IF j = attestationKey[w] THEN NONE ELSE attestationKeyOwner[j]]

RegisterAttestationKey(w, k) ==
  /\ w \in Signers                              \* bound
  /\ NotPaused
  /\ IsActiveValidator(w)
  /\ attestationKeyOwner[k] \in {NONE, w}
  /\ attestationKeyOwner' = Rebound(w, k)
  /\ attestationKey' = [attestationKey EXCEPT ![w] = k]
  /\ UNCHANGED <<validatorVars, settings, claims, milestones, nonceBase, nonceBitmap,
                 accepted>>

\* A saturating sum of u64s.
SaturatingAdd(a, b) == IF a + b > U64_MAX THEN U64_MAX ELSE a + b

\* Mutant: the nonce just behind the window still counts as in it.
BarelyAhead(w, nonce) == nonce > SaturatingAdd(nonceBase[w], ATTESTATION_NONCE_BITMAP_BITS)

FarAhead(w, nonce) == nonce >= SaturatingAdd(nonceBase[w], ATTESTATION_NONCE_BITMAP_BITS)

\* The base and the bits of the window that nonce falls in.
WindowBase(w, nonce) == IF FarAhead(w, nonce) THEN nonce ELSE nonceBase[w]
WindowBits(w, nonce) == IF FarAhead(w, nonce) THEN {} ELSE nonceBitmap[w]

\* Mutant: a window that has moved on still takes what lies behind it.
NonceUnusedBit(w, nonce) == nonce - WindowBase(w, nonce) \notin WindowBits(w, nonce)

NonceFresh(w, nonce) ==
  /\ nonce >= nonceBase[w]
  /\ nonce - WindowBase(w, nonce) \notin WindowBits(w, nonce)

ConsumeNonce(w, nonce) ==
  /\ NonceFresh(w, nonce)
  /\ nonceBase' = [nonceBase EXCEPT ![w] = WindowBase(w, nonce)]
  /\ nonceBitmap' = [nonceBitmap EXCEPT ![w] =
       WindowBits(w, nonce) \cup {nonce - WindowBase(w, nonce)}]
  /\ accepted' = [accepted EXCEPT ![w] = Append(@, nonce)]

\* get_attestation_nonce: the highest nonce of the window that is used up.
GetAttestationNonce(w) ==
  nonceBase[w] + (IF nonceBitmap[w] = {} THEN 0 ELSE Max(nonceBitmap[w]))

\* The signature verifies under the key registered for the wallet it names.
SignedBy(a) ==
  /\ attestationKey[a.wallet] = a.key
  /\ attestationKeyOwner[a.key] = a.wallet

SubmitAttestedMilestone(a) ==
  /\ ApproveNotPaused
  /\ milestoneThreshold <= 1
  /\ SignedBy(a)
  /\ IsActiveValidator(a.wallet)
  /\ now < a.expires_at
  /\ a.expires_at <= now + MAX_ATTESTATION_FUTURE_TOLERANCE_SECS
  /\ ConsumeNonce(a.wallet, a.nonce)
  /\ CommitApprovedMilestone(a.wallet, a.player, a.evidence, a.description, <<a.wallet>>)
  /\ UNCHANGED <<validatorVars, settings, claims, attestationKey, attestationKeyOwner>>

----
(***************************************************************************)
(* What revocation does to the pending claims.                              *)
(***************************************************************************)
\* The claims, votes and refs, as one value that a batch transforms step by step.
ClaimBook == [claim |-> claim, votes |-> voteCast, refs |-> pendingVotes]

\* The claims on which w's vote still counts.
VotedOn(book, w) ==
  {key \in ClaimKeys :
     /\ book.claim[key] # NONE
     /\ [key |-> key, round |-> book.claim[key].round] \in book.refs[w]
     /\ book.claim[key].vote_count > 0}

\* A claim without w's vote.
Retracted(c, w) ==
  [c EXCEPT !.vote_count = @ - 1, !.voters = Filter(c.voters, Wallets \ {w})]

\* invalidate_pending_votes_for_validator: w's votes are taken back, and a round
\* that active validators can no longer complete is given up with all its votes.
InvalidatePendingVotes(book, w, active) ==
  LET hit     == VotedOn(book, w)
      aborted == {key \in hit : book.claim[key].threshold > active}
      gone(v) == \/ v.wallet = w /\ v.key \in hit /\ v.round = book.claim[v.key].round
                 \/ /\ v.key \in aborted
                    /\ v.round = book.claim[v.key].round
                    /\ v.wallet \in ToSetOf(book.claim[v.key].voters)
      listed(v, r) == /\ r.key \in aborted
                      /\ r.round = book.claim[r.key].round
                      /\ v \in ToSetOf(book.claim[r.key].voters)
  IN  [claim |-> [key \in ClaimKeys |->
                    IF key \in aborted THEN NONE
                    ELSE IF key \in hit THEN Retracted(book.claim[key], w)
                    ELSE book.claim[key]],
       votes |-> {v \in book.votes : ~gone(v)},
       refs  |-> [v \in Wallets |->
                    IF v = w THEN {} ELSE {r \in book.refs[v] : ~listed(v, r)}]]

\* The same for each active wallet of a batch in turn, the active count falling.
InvalidateInTurn(ws) ==
  LET actives == Filter(ws, {w \in Wallets : IsActiveValidator(w)})
      book[i \in 0..Len(actives)] ==
        IF i = 0 THEN ClaimBook
        ELSE InvalidatePendingVotes(book[i - 1], actives[i], activeValidatorCount - i)
  IN  book[Len(actives)]

RetractVotes(ws) ==
  LET book == InvalidateInTurn(ws)
  IN  claim' = book.claim /\ voteCast' = book.votes /\ pendingVotes' = book.refs

----
(***************************************************************************)
(* Settings and the other contracts.                                        *)
(***************************************************************************)
SetMilestoneThreshold(threshold) ==
  /\ threshold <= activeValidatorCount
  /\ milestoneThreshold' = threshold
  /\ UNCHANGED <<validatorVars, migrationWindow, playerActive, votingWindow,
                 diversityConfig, wiring, claims, signing, milestones>>

SetVotingWindowSecs(window) ==
  /\ votingWindow' = window
  /\ UNCHANGED <<validatorVars, migrationWindow, playerActive, milestoneThreshold,
                 diversityConfig, wiring, claims, signing, milestones>>

SetDiversityConfig(config) ==
  /\ diversityConfig' = config
  /\ UNCHANGED <<validatorVars, migrationWindow, playerActive, milestoneThreshold,
                 votingWindow, wiring, claims, signing, milestones>>

\* write_wiring_link; an address that fails verify_peer changes nothing.
WriteWiringLink(peer, set) ==
  /\ wiring[peer].epoch < MaxEpoch               \* bound
  /\ wiring' = [wiring EXCEPT ![peer] = [epoch |-> @.epoch + 1, set |-> set]]
  /\ UNCHANGED <<validatorVars, migrationWindow, playerActive, milestoneThreshold,
                 votingWindow, diversityConfig, claims, signing, milestones>>

\* The first wiring, which an update may precede, and the later ones.
SetProgressContract == ~wiring["progress"].set /\ WriteWiringLink("progress", TRUE)
SetRegistrationContract ==
  ~wiring["registration"].set /\ WriteWiringLink("registration", TRUE)
UpdateProgressContract == WriteWiringLink("progress", wiring["progress"].set)
UpdateRegistrationContract == WriteWiringLink("registration", wiring["registration"].set)

\* The count goes along with a transferred record; the lists stay behind.
TransferMilestoneCount(old, new) ==
  /\ validatorMilestoneCount' = [validatorMilestoneCount EXCEPT
       ![new] = IF validatorMilestoneCount[old] > 0 THEN validatorMilestoneCount[old] ELSE @,
       ![old] = 0]
  /\ UNCHANGED <<settings, claims, signing, milestone, milestoneCounter,
                 milestoneAttestors, evidenceUsed, validatorMilestones, playerCount,
                 windowStart, globalSlot, writeHead, validatorPlayers,
                 totalMilestoneCount, standing, recorded>>

\* registration hides, shows or erases players.
PlayerStatusChange(p) ==
  /\ playerActive' = IF p \in playerActive THEN playerActive \ {p}
                     ELSE playerActive \cup {p}
  /\ UNCHANGED <<validatorVars, migrationWindow, milestoneThreshold, votingWindow,
                 diversityConfig, wiring, claims, signing, milestones>>

\* The migration window opens until it is closed, once and for all.
OpenMigrationWindow ==
  /\ SeedMilestones # {}                        \* bound
  /\ migrationWindow = "closed"
  /\ migrationWindow' = "open"
  /\ UNCHANGED <<validatorVars, playerActive, milestoneThreshold, votingWindow,
                 diversityConfig, wiring, claims, signing, milestones>>

RequireMigrationActive == migrationWindow = "open"

CloseMigrationWindow ==
  /\ RequireMigrationActive
  /\ migrationWindow' = "sealed"
  /\ UNCHANGED <<validatorVars, playerActive, milestoneThreshold, votingWindow,
                 diversityConfig, wiring, claims, signing, milestones>>

\* admin_seed_milestone, the admin replaying a record: no attestors, no window.
AdminSeedMilestone(p, m) ==
  LET ref == <<p, NextIndex(p)>>
      w   == m.validator
  IN  /\ RequireMigrationActive
      /\ NextIndex(p) \in Indexes
      /\ milestone[p][NextIndex(p)] = NONE
      /\ evidenceUsed[m.evidence] \in {NONE, ref}
      /\ milestone' = [milestone EXCEPT ![p][NextIndex(p)] = m]
      /\ milestoneCounter' = [milestoneCounter EXCEPT ![p] = NextIndex(p)]
      /\ evidenceUsed' = [evidenceUsed EXCEPT ![m.evidence] = ref]
      /\ validatorMilestones' =
           IF ref \in ToSetOf(validatorMilestones[w]) THEN validatorMilestones
           ELSE [validatorMilestones EXCEPT ![w] = Append(@, ref)]
      /\ playerCount' = [playerCount EXCEPT ![w][p] = @ + 1]
      /\ BumpTotals(w, p)
      /\ PushGlobalMilestone(ref)
      /\ recorded' = Append(recorded,
           [ref |-> ref, validator |-> w, attestors |-> << >>, affiliation |-> NONE,
            config |-> NONE, wired |-> Wired("progress")])
      /\ UNCHANGED <<validatorVars, settings, claims, signing, milestoneAttestors,
                     windowStart, standing>>

AttestationInit ==
  /\ ValidatorInit
  /\ migrationWindow = "closed"
  /\ playerActive = Players
  /\ milestoneThreshold = 1
  /\ votingWindow = DEFAULT_VOTING_WINDOW_SECS
  /\ claim = [key \in ClaimKeys |-> NONE]
  /\ voteCast = {}
  /\ pendingVotes = [w \in Wallets |-> {}]
  /\ attestationKey = [w \in Wallets |-> NONE]
  /\ attestationKeyOwner = [k \in Keys |-> NONE]
  /\ nonceBase = [w \in Wallets |-> 0]
  /\ nonceBitmap = [w \in Wallets |-> {}]
  /\ accepted = [w \in Wallets |-> << >>]
  /\ milestone = [p \in Players |-> [i \in Indexes |-> NONE]]
  /\ milestoneCounter = [p \in Players |-> 0]
  /\ milestoneAttestors = [p \in Players |-> [i \in Indexes |-> << >>]]
  /\ evidenceUsed = [e \in Evidence |-> NONE]
  /\ validatorMilestones = [w \in Wallets |-> << >>]
  /\ playerCount = [w \in Wallets |-> [p \in Players |-> 0]]
  /\ windowStart = [w \in Wallets |-> [p \in Players |-> 0]]
  /\ globalSlot = [slot \in 0..(MAX_GLOBAL_MILESTONE_INDEX - 1) |-> NONE]
  /\ writeHead = 0
  /\ diversityConfig = NONE
  /\ \E missing \in {{}, Unwired} :
       wiring = [peer \in Peers |-> IF peer \in missing THEN [epoch |-> 0, set |-> FALSE]
                                   ELSE [epoch |-> 1, set |-> TRUE]]
  /\ validatorMilestoneCount = [w \in Wallets |-> 0]
  /\ validatorPlayers = [w \in Wallets |-> << >>]
  /\ totalMilestoneCount = 0
  /\ playerAffiliations = [p \in Players |-> {}]
  /\ playerLevel = [p \in Players |-> 0]
  /\ recorded = << >>
====
