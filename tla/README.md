# Verification of the ScoutChain contracts

TLA+ models of the ScoutChain smart contracts (`src/contracts`, Soroban/Rust),
the TLC runs that check them on small instances, and theorems about them that
TLAPS proves for every value of the constants.

## 1. The system

Four contracts and a crate of shared types. Every invocation is atomic: one
that returns an error leaves no trace, a failed `try_` sub-call rolls back only
itself, and a contract already on the call stack cannot be re-entered. What is
concurrent is the order of invocations by independent parties (players, scouts,
validators, the admin), the several calls a long operation is cut into, and the
clients that hold a proof or a cursor between two reads.

| component | state it keeps | operations | talks to |
|---|---|---|---|
| `progress` | a player's level; history entries, their counter, bounded pages, a legacy vector; Merkle root and frontier; replay window; schema version and migration cursor; admin, pause, peers | advance (two paths), reset, seed, purge, migrate, proofs and paged reads | calls `registration.set_player_level`, reads `verification.get_milestone_count`; called by `verification` and `scout_access` |
| `registration` | player and scout profiles, wallet and region/level indexes, counters and live counts, cooldowns, a copy of each level | register, update, deactivate, deregister, seed, relayed migration | called back by `progress`; read by the other two |
| `verification` | validators, credentials, milestones, attestation rounds, disputes, jury votes, revocation sweeps | approve, attest, dispute, vote, tally, revoke, purge | calls `progress.advance_level`; reads `registration` |
| `scout_access` | subscriptions, contact records and quotas, fees and their timelock, trial offers with escrowed tokens, evidence grants | subscribe, renew, contact, offer, confirm, expire, refund, withdraw, purge | calls `progress.advance_level_for_scout`; reads `registration`; moves tokens |
| `shared-types` | none | levels, admin check, checked arithmetic, wiring links with epochs | used by all |
| bindings, TypeScript service, SQL schema, scripts, test harnesses | - | - | not modelled, see section 7 |

### What makes each part correct, and what is hard about it

*progress.* A level is only as good as the history that explains it. The same
facts are kept many times (entry, page, legacy vector, counter, level,
registration's copy, root, frontier) and written by one call; each copy must
agree after every interleaving of two advance paths, resets, replays,
migrations and multi-call erasures, for contracts that were upgraded in place
and have only some of the copies. The commitment is maintained incrementally
but proved against a whole-list construction. Readers page with a cursor they
hold themselves.

*registration.* A wallet and its profile name each other, the buckets list
exactly the profiles, the live counts are their sizes, although five calls
maintain these copies apart; replay chooses ids that registration later reaches;
clients page through a filter while players come, go and change level.

*verification.* A milestone counts only when enough distinct live validators
attest it, over many calls between which a validator can be revoked, restored or
moved to another wallet. A vote is kept three times. Dismissing a validator
sweeps what it approved in slices that interleave with approvals, reviews and a
reinstatement, and takes its votes out of open juries. Signed attestations are
relayed in any order. Six tallies follow each milestone.

*scout_access.* The contract holds at least what it owes: every open escrow is
paid out once, to one party. Confirmation, expiry sweep, admin refund and data
erasure race for one escrow; quotas follow a subscription period that renewals
move; a subscription is listed by tier and by day and moves between lists; grants
on evidence are revoked from two sides; fees change under a timelock.

The hazards are listed line by line in `PROJECT.json`.

## 2. Modules

| module | models | how |
|---|---|---|
| `HistoryMerkle` | `leaf_hash` ... `compute_root_from_proof` of `progress` | pure operators; SHA-256 is a free constructor, so two hashes are equal exactly when what was hashed is |
| `MerkleLog` | one history with its frontier and root, and a client that holds a proof | `AppendEntry`, `GetHistoryProof`; isolates the commitment so that histories of 33 entries fit |
| `Progress` | the progress contract, with as much of its peers as it depends on | one variable per storage-key family, one action per entry point |
| `HistoryReader` | a client paging with `get_history_page_with_cursor` | extends `Progress` with the cursor the client holds |
| `PlayerRegistry` | players in `registration`, and a client paging with `filter_players` | one action per entry point; `walk` is the client |
| `ScoutRegistry` | scouts in `registration` | actions for `Subscriptions`, which reads them |
| `ValidatorSet` | validators of `verification`: registration, revocation, restoring, transfer, switches | actions on the registry's keys alone |
| `Attestation` | approvals alone, by quorum and by relayed signature; diversity gate, allowances, tallies, wiring, replay | extends `ValidatorSet` |
| `Disputes` | disputes and their juries | extends `Attestation` |
| `VerificationReaders` | the queries of `verification` | operators on its state |
| `Verification` | the whole contract: adds revocation with its cascade, re-review and erasure | composes the four above; `Init`, `Next`, the properties |
| `EscrowLedger` | what the trial escrow promises a scout | abstract: deposits that are made, paid back, accepted, or lost to an erasure |
| `TrialEscrow` | trial offers of `scout_access`, their escrow, erasure and replay, and all that shares the contract's token balance | one action per entry point; refines `EscrowLedger` |
| `InvocationClock` | the time an invocation sees | shared by the next two |
| `FeeSchedule` | the fee configuration, its timelock, history and replay | a specification of its own (`FeeSpec`) |
| `Subscriptions` | subscriptions, listings, contacts, quotas and evidence access of `scout_access` | composes `FeeSchedule` and `ScoutRegistry`; refines `FeeSpec` |
| `Lists` | the loops over stored vectors that several contracts share | a list without what is not kept, a list with an entry at most once: folds |
| `DataTheorems` | no state: facts about lists, pages, sums and the hash tree | lemmas by induction, cited by the modules below |
| `MerkleLogProofs`, `ProgressProofs`, `PlayerRegistryProofs`, `VerificationProofs`, `ReviewProofs`, `TrialEscrowProofs`, `SubscriptionProofs` | theorems | inductive invariants, step lemmas, the refinements |
| `MCProgress`, `MCHistoryReader`, `MCPlayerRegistry`, `MCVerification`, `MCTrialEscrow`, `MCSubscriptions` | constants for TLC | model values, small sets, the subjects of a run |

In all of them a variable stands for a `DataKey` family and `NONE` for an absent
key; a successful call is one step with everything it writes, the cross-contract
call it ends with included; a failing call is a stutter. Variables said to record
what the properties need of the past are read by no guard.

### State and actions of `Progress`

`playerLevel`, `historyCounter`, `historyEntry`, `historyPage`, `historyVec`,
`historyRoot`, `historyFrontier`, `migrationActive`, `migrationWindowSealed`,
`schemaVersion`, `migrationCursor`, `admin`, `pendingAdmin`, `paused` and
`wired` (the peers that have been set). `milestoneCounter`, `regLevel` and
`regCounter` are the parts of `verification` and `registration` progress reads
or writes. `now` is the ledger clock.

`ResetPlayerLevel`,
`AdvanceLevel`, `AdvanceLevelForScout`, `AdminSeedHistory`, `Migrate`,
`PurgePlayerData`, `OpenMigrationWindow`, `CloseMigrationWindow`,
`SetPeerContract`, pause and admin transfer are the contract's own;
`CommitMilestoneOnly`, `PurgeMilestones`, `RegisterPlayer`, `AdminSeedPlayer`
and `DeregisterPlayer` are the steps of the peers that change what progress
depends on. The helpers keep the source's names (`record_progress_entry` is
`RecordProgressEntry` over the `AppendToHistory` it shares with
`admin_seed_history`; `load_or_build_frontier`, `read_history_pages`,
`history_since`).

There are two kinds of initial state: the one `init_state` writes, and a
contract upgraded in place from the layout before paging, with entries,
counters, levels and roots but no pages and no frontier, and the unbounded
vector for any subset of the players.

The variables `legacy`, `seeded`, `imported`, `erased`, `purgeCursor` and
`strayed` record what the properties need to know of the past and no guard
reads them.

### State and actions of `TrialEscrow`

`trialCounter`, `trialOffer` (of which only the scout matters), `trialEscrow`,
`trialOfferConfirmed`, `confirmationNonce`, `trialOfferLastSent`,
`scoutTrialOffers`, `outstanding` (the list `OutstandingTrialEscrows`),
`accumulatedFees`, `paused` and `migration` are the contract's keys; `balance`
is what the token contract holds for it. `LogTrialOffer`, `ConfirmTrialOffer`
(late: the scout is refunded and nothing is recorded; in time: the player
advances and the escrow is dropped), `ExpireTrialOffers`,
`AdminRefundTrialEscrow`, `PurgePlayerData`, `AdminSeedTrialOffer`,
`OpenMigrationWindow`, `CloseMigrationWindow`, `CollectFee` (the step
`subscribe`, renewals and contacts share), `WithdrawFees`, `RefundSubscription`
and the pause calls are its entry points. A transfer the balance does not cover
reverts the call it belongs to, a sweep with all it had refunded before.

Left abstract: who may log an offer (tier, verification, earlier contact), since
any scout may here; the answer of `progress`, which either lets the
confirmation through or reverts it; the escrow and expiry of the fee
configuration, which are inputs of each offer. `admin_rescue_orphan_trial_escrow`
and the sweep's branch for an escrow without an offer are not actions:
`NoOrphanEscrow`, checked and proved, says that no call of the contract gets
there; what does is the archival of storage entries, which is not modelled.

`made`, `terms`, `depositOf`, `accepted`, `erased`, `repaid` and `unbacked` record
what was paid in and what became of it. Under `made`, `terms`, `accepted`,
`erased`, `repaid` and `open`, the payments that still have a live escrow,
`TrialEscrow` implements `EscrowLedger` (`KeepsEscrowPromise`): a log is a
deposit, which overwrites the escrow of an erased player if one is left at its
key; a late confirmation, a sweep and an admin refund pay back; a confirmation
in time accepts; a purge call erases; everything else stutters.

### State and actions of `PlayerRegistry` and `ScoutRegistry`

`player`, `playerByWallet`, `playerLevel`, `playerDeactivated`, `playerIndex`,
`byLevel`, `byLevelRegion`, `livePlayerCount`, `playerCounter`,
`playerRegLastSent` and `migrationNonce` are the keys of a player. The actions
are `RegisterPlayer`, `AdminSeedPlayer`, `RedeemMigrationPlayer`,
`SetPlayerLevel` (the call from `progress`, whose level is `progressLevel`),
`DeactivatePlayer`, `ReactivatePlayer`, `DeregisterPlayer`, the switches, the
cooldown, and a client's `FirstPage` and `NextPage`. An initial state is a new
contract or one upgraded from the layout before `PlayerLevel`. Hashes, contact
data and `update_profile`, which only writes those, are left out; vitals are a
region and a position.

`ScoutRegistry` has the same for scouts, with their verification, which is
kept twice: in the profile and as a status.

Once a registration has taken an id that was replayed (`overwritten`,
`replacedScouts`), two wallets claim one profile; the properties are about the
states before that, and section 6 names the defect.

### State and actions of `ValidatorSet`, `Attestation`, `Disputes`, `Verification`

The registry is `validator`, `validatorVector`, two counters, the revocation
records and two switches. `RevokeRecords`, `RestoreValidator` and
`TransferRecord` maintain it. `Attestation` adds `claim`, `voteCast` and
`pendingVotes` (three copies of a vote, kept apart as in storage), the nonce
window of a wallet with its key, `milestone` with its counter and attestors, and
what follows a milestone: the used evidence, each validator's list, the allowance
window, the ring of recent milestones, counts, the players a validator helped,
the affiliations behind a player, and the level `progress` is asked to raise.
`ApproveMilestone`, `AttestPending`, `AttestCommit`, `SubmitAttestedMilestone`
and `AdminSeedMilestone` record; they share `commit_approved_milestone`.
`wiring` is the link to each peer with its epoch: a deployment may leave a peer
unwired (`Unwired`), wire it once with `SetProgressContract` or
`SetRegistrationContract`, and re-wire it with the `Update...` calls.

`Disputes` adds the disputes in rounds, their indexes and counters, the jury's
votes and the tally; `CastDisputeVote` and `TallyDispute` can close one, so can
`ResolveDispute`. `Verification` adds what cuts across: `RevokeValidator` and
`BatchRevokeValidators` retract the validator's votes on claims, take its votes
out of open disputes, and start or defer the cascade, which
`ContinueRevocationCascade` goes on with; `RereviewMilestone` clears a flag;
`PurgePlayerData` erases in slices.

A signature is the key that made it; evidence and descriptions are members of
small sets, categories are left out. `recorded`, `accepted`, `swept`, `cleared`
and `pageHistory` record the past. The unbounded `RevocationHistory` is not kept.

### State and actions of `FeeSchedule` and `Subscriptions`

`FeeSchedule` has `feeConfig`, `pendingFeeConfig`, `feeConfigHistory` and the
migration window; `UpdateFeeConfig` (the direct change), `ProposeFeeConfig`,
`ActivateFeeConfig`, `CancelFeeConfigProposal` and the replays. Two variables
record the past: `lastChange`, and `changedBy`, the entry point that last changed
the schedule, which in the code only the events tell (`fee_config_delay_bypassed`
after a direct update). An activation and a direct update of the same
configuration leave the same keys, and `RiseOnNotice` has to hold the one and
excuse the other.

`Subscriptions` keeps `subscription` with its two listings (`tierSubscribers`,
`expiryBucket`), `autoRenew`, the Pro counter, contacts in three copies, and
evidence grants with their pages, counter and takedown marks. `Subscribe`,
`RenewIfDue`, `PayToContact`, `BatchContactPlayers`, `RenewEvidenceAccess`,
`RevokeEvidenceAccess`, `ReinstateEvidenceAccess`, `AdminRevokeEvidenceAccess`,
`PurgePlayerData` and the replays are its entry points. That the fee reaches the
contract is `CollectFee` of `TrialEscrow` and not repeated. A player's own calls
are those of the wallet `registration` knows the player by. Every step is a step
of `FeeSpec` or leaves its variables alone, which is proved.

## 3. Runs

| run | question | result |
|---|---|---|
| `merkle_log` | Does the incremental frontier commit to the same tree as the reference construction at every length, and does a proof verify exactly for its own entry and only until the next append? | holds for lengths up to 33 |
| `progress_live` | Do level, entries, pages, root and registration's copy stay in step, and is history append-only? | holds |
| `progress_erase` | Does an erasure cut into calls that straddle pages, with level changes between them, leave nothing it should remove? | entries and pages: holds |
| `progress_read` | Is `get_history_since_v2` complete unless it says truncated? Does a paging client get each entry once under concurrent appends? | holds |
| `registration` | Do profiles, wallet index, live counter, buckets and filter answers agree under registration, replay, tickets, level changes, hiding and erasure? Does a walk through `filter_players` lose no one, and does the cooldown survive an erasure? | holds until a registration takes a replayed id |
| `attestation` | Does a claim count exactly its round's votes, and is every milestone backed by distinct validators active when it is recorded? | holds |
| `dismissal` | Is the registry exact, does a cascade visit everything its validator attested however it is cut, does a flag stand until reviewed? | holds; of a wallet whose flags have taken a second page, until one is reviewed |
| `disputes` | Are open disputes indexed exactly and decided by their jury? Is a nonce accepted once, the allowance kept, and does each tally follow the record, with gates, late wiring, erasure and replay? | holds |
| `trial_escrow` | Does the balance cover fees and live escrows, and is every payment accounted for as `EscrowLedger` promises? | holds |
| `trial_settle` | Is every escrow settled in the end? | holds under fairness |
| `subscriptions` | Do listings follow subscriptions, does the quota count each contact of its period, does an audit list each grant once, do scouts stay consistent, and do fees rise only on notice? | holds |
| `claim_takedown` | Is an admin's takedown of a grant final? | violated, see section 6 |

### Bounds and why they are enough

Every bound is a named constant or a conjunct marked `bound`.

*progress.* The behaviour of one player does not depend on another's (no key is
shared between players but the counter of registration and the migration
cursor), so these runs take one player, while the theorems cover any number. A
page holds 2 entries instead of 8 and a purge covers 3 instead of 50: a purge
call then ends in the middle of a page, a history spans up to three pages and
needs up to two purge calls, and the counter reaches its largest value
(`U32_MAX` 4 or 5 stands for 2^32-1), which is where each off-by-one would
show. `MaxMilestones` bounds the climbs per erasure of milestones and
`MaxPurges` the purge calls. `MaxTime` 1 gives `progress_read` entries older
than, equal to and newer than a queried time; `MAX_PAGE` 2 and `MAX_PAGES_SCAN`
1 make the limit, the page cap and the first older entry each end the scan. 33
leaves carry through five levels and cross every power of two up to 32.

*registration.* Two wallets and two ids, of which one is replayed and one is
also named by a ticket, two regions and two levels: a bucket can hold two players, both can move
between buckets, and an erased wallet can come back. `MAX_PLAYERS` 2 is reached.
A client takes one player per page.

*verification.* All of the contract's behaviours at once are more than TLC can
reach, so each run constrains its states to a subject, a definition of
`MCVerification` with its reason: `Claiming`, `Cascading`, and in `disputes` one
of `Judging`, `Signing`, `Switching`, `Erasing`, `Replaying`, `Gating`, `Wiring`.
A subject leaves alone what another takes up and lets the rest interleave. Three
validators of two organisations, a threshold of 2, and up to three milestones of
one player are the least with which a quorum can lose a member and be completed
by another, a cascade of slices of one can be interrupted, a jury of two can be
short of its quorum, tied or decided, and flags fill a page of two and open the
next. `MaxPages` 2 leaves room for four flags of a wallet (`PagesSuffice`): the
three milestones', and one put down twice, after a review or by a second
dismissal's later slice. With a third milestone, v1 alone attests the first and the
last and v2 is not revoked. `ATTESTATION_NONCE_BITMAP_BITS` 2 and nonces 0 to 3 slide the window by
less than and more than its width, and two signatures have the last nonce, 4; two
disputes are open at once; the ring has two slots and wraps; the allowance
is 1 to 3 per window of one tick. `MaxEpoch` 2 wires a peer, then re-wires it.

*trial escrow.* A player has two offer indices and a purge call covers one, so
that an erasure takes two calls and can stop after the first; two scouts and
three payments let an offer reuse the key of an escrow that is still held, with
its entry twice in the list. `MaxBalance` bounds the fees paid in and the refunds
paid out; `MaxDeposits` and `MaxOffers` the payments ever made and the counter.
A cooldown of 1 or 2 and at most 4 time steps put confirmations and sweeps
before, at and after a deadline. `Funding` and `Erasing` are the two subjects.

*subscriptions.* Two scouts and three players; a period is three or four ticks, a
day two, the fee delay two, the quota one or two, a page of grants holds one. A
quota can be filled, lapse and be filled again, a renewal can stay in its day or
leave it, a batch can repeat a player or exceed its size. The subjects are
`Scouting`, `Pricing`, `Listing`, `Contacting` and `Granting`; the refinement of
`FeeSchedule` is proved, so that pricing apart from the rest loses nothing.

Deadlock is not checked where a bound on time or ids makes a behaviour end.

### Fairness

Only `trial_settle` assumes any: the ledger clock advances (`WF Tick`), and the
admin's keeper repeats the sweep with a limit of one (`WF
ExpireTrialOffers(1)`). The contract reference asks for the repetition ("Call
repeatedly (e.g. from a cron/keeper)"), and nothing in the contract does it by
itself. Offers are kept within the time modelled, so that each deadline comes.
The run has no subscription refunds and no replayed escrow: with them a sweep
can fail for want of tokens, which `EscrowsCovered` bounds. Everything else is a
safety property; the other contracts promise nothing that comes by itself (a
cascade, a tally or a renewal happens only if somebody calls for it).

## 4. What is proved

Every theorem holds for all values of the constants that satisfy the named
assumptions (sizes are positive, `NONE` is not a value, inputs are of their
types), so for any number of players, scouts, validators and entries.

### Induction

Much of what the contracts promise is about what a loop over a stored list
computes. `DataTheorems` has the lemmas for it. The induction theorems of the
library take a predicate, which the provers cannot instantiate; here the
predicate is a set: of numbers (`LeastNatural`: a counterexample would have a
least one; `InductionOnSet`: a set with 0 and all successors), of sequences
(`InductionOnSequences`) or of finite sets (`InductionOnSubsets`). A fold is characterised by the
sequence of its intermediate results (`FilterIteration`, `JoinIteration`,
`SumIteration`); from that follow the lemmas other modules cite: what `Filter`
keeps, how often an entry is listed, a list without an entry, lists joined,
pages that partition a list, sums over a set. The last third is the hash tree:
`MthRange` of a list and of its prefix, the frontier whose peaks cover the first
n leaves from the right (`Covering`), its append with carries, and audit paths.

### progress

`MerkleLogProofs` and `ProgressProofs`, from `NoneAssumption`,
`SizesAssumption` and the assumptions on inputs in `Progress`:

| theorem | states | argument |
|---|---|---|
| `RootIsTreeHash` | `MerkleLog!Spec => []FrontierRootIsMth` | `Committed`: the frontier covers the history; folding it from the right gives the tree hash, and its levels are the set bits of the length |
| `ProofsAreBinding` | `[]ProofAcceptedIffCurrent` | two lists of leaves with one tree hash are the same, since leaves and inner nodes are hashed under different tags and hashes are free constructors; a path determines the tree it leads through |
| `TypeCorrect` | `Spec => []TypeOK` | inductive as it stands; `AppendEffect` says what the shared append writes, `ChangeLevelEffect` what a level change does |
| `SealIsFinal` | `Spec => SealedForever` (no run repeats it) | `WindowInv`: a sealed window is not active |
| `AppendOnly` | `Spec => HistoryAppendOnly` | from `TypeOK`, by cases on the steps that write history (`HistorySteps`) |
| `HistoryExplains` | `Spec => []HistoryExplainsLevel` | inductive with `TypeOK`; one lemma for a level change on the player itself, one for steps that leave a player alone |
| `MirrorCorrect` | `Spec => []RegistrationMirrorsLevel` | needs `UnregisteredUntouched`: a player registration has not numbered yet has no level in progress, since `set_player_level` fails for one and the whole call with it |
| `PurgeComplete` | `Spec => []PurgeLeavesNoHistory` | needs `EraseInv`: between two calls of an erasure that follows its cursors, every remaining entry and every remaining page lies between the cursor and the counter |
| `RootCommits` | `Spec => []RootCommitsToHistory` | `HistoryInv`: entries, pages, legacy vector, frontier and root stand for one list; `AppendToHistory` keeps that whether the frontier is there or has to be rebuilt, and whichever copies a contract upgraded in place still has |
| `PagesReadBack` | `Spec => []PagesReadBackEntries` | from `HistoryInv`: what a page reader returns is a part of that list (`StoredIsPart`), and consecutive parts join (`CutsJoin`) |
| `CursorReadsExactlyOnce` | `ReaderSpec => []EveryEntryExactlyOnce` | `ReaderInv`: what a client has read is the prefix of the list up to its cursor, and appends do not change a prefix |
| `SinceComplete` | `Spec /\ ReplaysLieBack => []HistorySinceComplete` | `ChronologyInv`: a history is in order of time and none of it lies ahead of the clock, so the scan from the newest entry loses nothing when it stops at the first that is too old |

`ReplaysLieBack` says that no entry is replayed with a time ahead of the
ledger's. `admin_seed_history` asks only that an entry is not older than the one
before it, so with a replay dated in the future a live entry would follow it out
of order and the scan would stop too early; the run replays entries of time 0.

### trial escrow

`TrialEscrowProofs`, from `EscrowConstants`:

| theorem | states | argument |
|---|---|---|
| `DepositsAccountedFor` | the ledger, over the contract's escrows, pays a deposit back at most once, in full, to its scout, and loses it only to an acceptance or an erasure | `Accounted`: what is open or accepted has not been repaid |
| `EscrowPromiseKept` | `Spec => KeepsEscrowPromise` | one lemma per kind of step (`LogIsMakeDeposit`, `RefundIsPayBack`, `ConfirmInTimeIsAccept`, `PurgeIsErase`, `LedgerStutter`) under `LedgerIInv` |
| `NoEscrowOrphaned` | `Spec => []NoOrphanEscrow` | part of `LedgerIInv` |
| `EscrowsAccountedFor` | the two together | the promise kept, and what it amounts to |
| `EscrowTypesHold` | `Spec => []TypeOK` | with `HoldingsIInv`, since the balance is a number only because it covers what is paid out |
| `EscrowsStayCovered` | `Spec => []EscrowsCovered` | a sum over the open escrows that every step changes by one amount; a sweep refunds several, by induction over its list |
| `EscrowsStayFindable` | `Spec => []SweepFindsEveryEscrow` | the sweep's list has the key of every escrow that was paid in, whatever was removed before it; each offer is on the page its position falls on, for every page size |

`LedgerIInv` is what makes the refinement inductive: an escrow record still has
the scout, player and amount that were paid in (`EscrowKeepsTerms`), no payment
stands behind two live escrows (`OneEscrowPerDeposit`), and an escrow beyond the
player's counter, whose key the next offer takes, is there only because an
erasure dropped the counter (`UncountedWasErased`).

### subscriptions and scouts

`SubscriptionProofs`, from `FeeConstants`, `ScoutConstants` and
`SubscriptionConstants`:

| theorem | states | argument |
|---|---|---|
| `FeeScheduleTypeCorrect` | `FeeSpec => []FeeTypeOK` | inductive as it stands |
| `FeesRiseOnNotice` | `FeeSpec => RiseOnNotice` | a rise is by an activation unless `changedBy` names the direct update or the replay; an activation needs its proposal to be as old as the delay, and a pending proposal is exactly as old as the last change of the schedule, since every call but a replay moves both |
| `ScheduleRunsByItself` | `Spec => FeeSpec` | the refinement: each action of `Subscriptions` and `ScoutRegistry` leaves the schedule's variables alone |
| `SubscribersHaveNotice` | `Spec => RiseOnNotice` | the two before it |
| `ScoutsAgree` | `Spec => [](ScoutTypeOK /\ WalletIndexExact /\ VerificationAgrees)` | inductive together |
| `ScoutsStayConsistent` | `Spec => []ScoutsAreConsistent` | adds the counting parts: the live count moves by one with each profile |
| `AccessTypesHold` | subscriptions, contacts, grants and listings are of their types (no run repeats it) | inductive |
| `ListingsStayExact` | `Spec => []ListingsFollowSubscriptions` | `ListingInv` counts how often a scout is in each list: once in that of its tier and day, never in another; a move between lists takes one occurrence out and puts one in |
| `QuotaStaysExact` | `Spec /\ ReplaysArePast => []QuotaCountsContacts` | `QuotaInv`: a contact is of this period exactly when it is not older than the subscription |
| `AuditStaysComplete` | `Spec => []AuditListsEveryGrantOnce` | `ContactInv`: the pages joined are the list of grants, so a walk by cursor is a walk of that list |

`ReplaysArePast` says that no subscription is replayed that has yet to begin:
`admin_seed_subscription` does not look at the dates, and under a period that
begins in the future the counter counts contacts which are not of the period.

### registration

`PlayerRegistryProofs`, from `RegistryAssumption` and `LegacyAssumption` (legacy
profiles have an id and a wallet each of their own):

| theorem | states | argument |
|---|---|---|
| `OwnersAgree` | `Spec => []WalletsOwnTheirProfiles` | `OwnerInv`: the two keys are inverse to each other as long as no registration took a live id; `WriteEffect` says what the shared write of a profile does, and registration, replay and tickets each show that they may use it |
| `CooldownHolds` | `Spec => CooldownOutlivesErasure` | `StampInv`: the stamp kept is that of the last registration, and none lies ahead of the clock; only a registration moves the counter |
| `RegistryTypesHold` | `Spec => []TypeOK` | with `TicketInv` for the relayed tickets |
| `LiveCountHolds` | `Spec => []LiveCountIsExact` | `CountInv`: the index lists each profile once and the counter is its length |
| `BucketsHold` | `Spec => []BucketsMatchProfiles` | `BucketInv` counts occurrences: one in the bucket of a profile's level and one in that of its level and region, none elsewhere |
| `FiltersAreExact` | `Spec => []FilterListsEachOnce` | the scan filters a list without repetitions, the region path joins buckets that have no id in common |
| `ScansLoseNoOne` | `Spec => []ScanLosesNoOne` | `WalkInv`: who matched all along is among the answers or still ahead of the offset (`FilterFurther`) |

`ScanLosesNoOne` follows a walk until a match that a page has counted goes away:
then everybody behind it moves up by one and the next offset passes one of them
over. The attempt to prove more showed it; the property says so now.

### verification

`VerificationProofs` and, for juries, flags, open disputes and the tallies
of milestones, `ReviewProofs`, from
`ValidatorAssumption`, `AttestationAssumption`, `DisputeAssumption` and
`VerificationAssumption`:

| theorem | states | argument |
|---|---|---|
| `NoncesAreAcceptedOnce` | `Spec => []NonceAcceptedOnce` | `NonceInv`: an accepted nonce is behind the base or has its bit, each bit is of an accepted nonce, and one bit is the highest. A nonce in the window finds its bit unset (`NearRemembered`); one beyond it is higher than all before, unless the sum saturates at the last u64 (`FarRemembered`) |
| `KeysNameOneWallet` | key and wallet are inverse to each other (no run repeats it) | inductive; the only step that matters is `RebindingKeepsOneToOne` |
| `RateHolds` | `Spec => []RateIsWindowed` | `RateInv`: what lies in the latest window is at most the stored count, every milestone lies before its end, and an index beyond the player's counter has no attestors, which keeps a replayed record from counting. `CommitCharged` is the case of a window that begins anew and of one with room |
| `RegistryStaysExact` | `Spec => []RegistryIsExact` | `RegistryInv`: the list has each active validator once, both counters are its length, and it never outgrows `MAX_VALIDATORS`; a batch is an induction over its list |
| `ClaimsMatchTheirVotes` | `Spec => []ClaimMatchesItsVotes` | `ClaimInv` with the registry's invariant: voters of a round are active or transferred, and each vote is kept under its voter. A revocation takes the votes back one by one (`InTurnIteration`) |
| `QuorumsBackMilestones` | `Spec => QuorumBacksMilestone` | what commits a milestone has counted the quorum just before, from the list of a claim (`ClaimInv`) or of a submission, and neither list has a name twice |
| `TypesHold` | `Spec => []TypeOK` | part by part, with `RegistryInv` and `ClaimInv`: milestones (`MilestonesAlways`), disputes with a finite set of votes, so that tallies taken back are numbers (`DisputesAlways`), and flags, where the pages a sweep fills are an iteration of `PutFlag` (`SweptIteration`, `FlagsAlways`) |
| `CascadesReachEveryApproval` | `Spec => []CascadeReachesEveryApproval` | `CascadeInv`: the list of a dismissed validator holds each milestone it attested, and the places before the stored cursor were visited. A slice keeps this for its end (`SweepReaches`), and a sweep without a cursor has reached the whole list (`SweepFinishes`) |
| `FlagsStand` | `Spec => []FlagStandsUntilReviewed` | `FlagInv`, wallet by wallet: the pages fill in order as long as no flag was ever reviewed (`Filled`), all flags lie on the first page as long as they never took more than one (`OnFirst`), and what a cascade visited and no re-review cleared is on a page (`Flagged`). A sweep keeps the three flag by flag (`SweptPages`); a re-review takes its own flag only, and writes it down as cleared |
| `JuriesDecide` | `Spec => []JuryDecides` | `JuryInv`, round by round: the votes kept are counted, each juror's once, of jurors who did not attest the milestone (`Ballot`); a round is listed as open exactly while it is counted as open, and then none of its jurors was dismissed (`Session`); and its tally is that of the votes (`Verdicts`). With it, milestones of a player stay until its erasure (`Numbered`), and a dismissed wallet has an inactive record (`Suspended`). A step either leaves a round alone or is one of a vote, a verdict, a dismissal that takes votes back, an erasure or a replay. Left out are the records replayed with votes or with a verdict of a jury (`Inherited`), since the votes behind them are not replayed, and, of a dismissal, the wallets given up in a transfer |
| `OpenDisputesExact` | `Spec => []OpenDisputesAreExact` | `OpenInv`, until an erasure begins: the index of open disputes has none twice and both counters count it (`OpenCounted`), each player's listing has every disputed milestone once (`DisputesListed`), and the latest round of a milestone has a dispute and, if the records replayed are in order, none but it is open (`LatestRounds`). Filing and replaying a dispute, closing one by a verdict and by a tally each move the index, the counters and the listing together; `JuryInv` ties the index to the records. The pages are those of a list (`PagesOfList`), and the open ones of a player are matched one to one with its counter (`OpenOnesListed`) |
| `TalliesAlwaysFollow` | `Spec => []TalliesFollowTheRecord` | `TallyInv`: the slot of each of the latest milestones holds it and the head is the number of milestones or, once the ring is full, a turn ahead of its slot (`RingInv`, with arithmetic of remainders from `Quotient`); each validator's list has the milestones of the history entries it goes by, in order, and misses none it attested, which is what decides whether a replay is listed (`ListFollows`); its count and players are those of its commits (`CountsFollow`); a player's organisations are those behind its approvals and its level is the number of entries the gate let on, each judged by the gate as it was then, up to the top (`StandingFits`, `GateIsRecorded`); and what was recorded is there until the erasure (`Present`). A step records one milestone (`Recording`) or none (`NothingNew`), by `RecordsOrNothing` |

They rest on frame lemmas, one per group of the thirty-one steps.

### Model-checked only

Every invariant and action property of the runs has its theorem.
`EveryEscrowSettles` is liveness under fairness, which is out of the prover's reach, and
so stays with TLC.

## 5. What the properties leave out on purpose

These facts limit the claims of the passing runs and are stated in the
properties themselves. A player whose erasure has begun is judged by
`PurgeLeavesNoHistory` and not by the others, because a half-erased history is
meant to be inconsistent. A player imported into registration at a level above
Unverified is out of step with progress from the start. A replay onto a history
that predates paging breaks the page layout (both in section 6), so
page-related properties exclude that combination. A registration that takes a
replayed id ends what the registry promises. Verification's tallies of a player
whose erasure has begun, and what validators recorded for it, are not judged,
since erasure keeps the attestors of the indexes it frees; nor, after a transfer
of a validator to another wallet, the activity report, which a transfer moves
only in part. The last nonce, `U64_MAX`, is excepted. Where the disputes of
a milestone are replayed out of order, an open one need not be the latest, and
`get_player_disputes_by_status` looks at the latest only: its pages are judged for
records replayed in order (`SeedsInOrder`), indexes and counters for all. A replay fills listings
differently from what it replays, and a claim can be out of reach for as long as
a validator who has not voted on it is revoked.

## 6. Where code and documents disagree

`claim_takedown` checks one sentence and is violated: after the comment "#1607:
remember the takedown so a player cannot reinstate it", a takedown of a grant
that the player has revoked already answers `Ok` and records nothing, and the
player reinstates it. The quotation is in `PROJECT.json`.

The rest the models show as well, or were met while reading the code for them; no
run is kept for these.

*progress*

- An erasure that has reported `more = false` leaves `HistoryFrontier`; the next
  entries are committed on top of the erased history's peaks and proofs no longer
  verify against the root (`progress/src/lib.rs:884`). A level change between two
  purge calls leaves level and root (`docs/PLAYER_ERASURE.md:28`).
- `migrate` records the target version after its first slice, even an empty one
  (`progress/src/lib.rs:1411`).
- `admin_seed_history` starts a missing page empty instead of filling it from the
  stored entries (`progress/src/lib.rs:1215`).
- Purge, replay and migration write while the contract is paused
  (`progress/src/types.rs:149`).

*registration*

- A registration does not look whether its next id is taken by a replayed
  profile, for players and scouts, and overwrites it
  (`docs/PLAYER_ERASURE.md:42` says that ids are not reused).
- `admin_seed_player` does not bring the level to progress
  (`docs/MIGRATION_GAPS.md:27`) and does not check `MAX_PLAYERS`; the hash a
  player's ticket signs does not cover the level, nor a scout's the id or the
  verification; `new_contract_hint` is never compared.
- Erasing a player from before `PlayerLevel` clears only the Unverified bucket.
- With a region, `filter_players` reads bucket after bucket, so that a player who
  changes level between two pages can be skipped.
- `restore_player_record` decodes the record as another type than is stored.

*verification*

- Milestones are numbered from 1 and erased from 0: the last one and the first
  round of each dispute survive, and indexes and counters stay.
- A dismissed validator's flags are found through a count that each re-review
  lowers, so that flags on a later page disappear from view. Those of a later
  dismissal can land on such a page and be invisible from the start, which is why
  `FlagStandsUntilReviewed` speaks of wallets whose flags were never both paged
  and reviewed.
- A claim in progress keeps the threshold its round began with, and an approval
  alone uses the present one: lowering the threshold lets one validator record
  what a claim is still gathering votes for.
- Nonce 2^64-1 can be accepted again and again.
- A level withheld by the diversity gate, or approved before `progress` is wired,
  is never made good. `MinRegionQuorum` is stored and never read.
- Revocation is meant to abort claims that become unreachable
  (`verification/src/lib.rs:1996`); revoking a validator who has not voted leaves
  them open.
- `continue_revocation_cascade` does not ask whether the wallet is revoked.
- `transfer_validator` moves the record, the count and the vector, not the lists
  of milestones and players.
- Replayed milestones have no attestors, allowance, affiliation or level, and a
  replayed dispute can overwrite a live one.
- A validator's count and player list take the committing validator alone, its
  milestone list the co-attestors too.

*scout_access*

- A confirmation nonce is global, so that one recorded for another offer answers
  `Ok` while the escrow of the offer named is live
  (`docs/CONTRACT_REFERENCE.md:4519`).
- An erasure restarts the trial index and keeps the confirmation markers; the next
  offer at a marked key cannot be confirmed any more, the call answers `Ok` and
  does nothing (`scout_access/tests/chaos_cross_contract.rs:33`).
- A confirmation in time drops the escrow record and adds nothing to the fees
  (`docs/GLOSSARY.md:171`); only `refund_subscription` can move these tokens.
- `purge_player_data` removes an expired escrow that was not swept without a
  transfer (`docs/PLAYER_ERASURE.md:83`), and its first call drops the counter
  that bounds the later ones (`docs/PLAYER_ERASURE.md:35`). It keeps contact
  records, grants and their pages, which it says it removes
  (`scout_access/src/lib.rs:3178`), and a grant after it is appended to the first
  page again.
- A replayed escrow is not listed for the sweep (`scout_access/src/types.rs:268`);
  a replayed contact has no grant and can get none.
- A second confirmation of an offer answers `Ok`, not
  `TrialOfferAlreadyConfirmed`, once the marker is set.
- `renew_evidence_access` does not ask for the verification that a contact needs.
- A renewal in the second a period began continues its quota.
- The test that lets a fee change skip the notice looks at four fees and not at
  the escrow, the period or the quota; a replay leaves a proposal pending.

## 7. Not modelled, and why

Time-to-live of storage and the `restore_*` calls, events, `upgrade`, version
strings, health views and statistics (`MigrationProcessed`, `ContactCount`): no
property tells them apart. The transfer of the admin role outside `progress`,
where the same code is modelled. Field edits that no property reads
(`update_profile`, specializations, metadata and their validation). The unbounded
`RevocationHistory`. The 512-entry bound on proofs. A player with a legacy
vector but no counter. Entries replayed with timestamps ahead of the ledger's.
Re-wiring a peer to a contract with another state: the links and their epochs are
modelled, a second `progress` is not. The documented erasure across the four
contracts as one procedure: each contract's part is modelled alone. Bindings are
generated; the TypeScript service holds no protocol state; the SQL schema belongs
to an indexer that is not here; scripts and test harnesses were read as
documentation.

## 8. What could follow

The state machines of the four contracts are on file. Left are an abstract
specification of the quorum that `Attestation` implements, and the erasure
procedure over the composition of the four contracts.
