---- MODULE Verification ----
(***************************************************************************)
(* The verification contract: registry, claims, milestones and disputes     *)
(* together with what cuts across them, which is revocation, the cascade    *)
(* that flags a dismissed validator's milestones for re-review in bounded   *)
(* slices, the re-review itself, and a player's erasure.                    *)
(***************************************************************************)
EXTENDS VerificationReaders

CONSTANTS
  Suspects,             \* wallets the admin revokes
  Sweepable,            \* wallets whose cascade the admin continues
  CASCADE_LIMIT,        \* milestones a sweep visits at most (50)
  MILESTONE_FLAG_PAGE_SIZE,   \* flags a page holds (50)
  PURGE_PAGE_SIZE,      \* milestone indexes an erasure call visits (50)
  Erasable,             \* players the admin erases
  MaxPages              \* bound on the flag pages of a validator

PageIndexes == 0..(MaxPages - 1)

ASSUME VerificationAssumption ==
  /\ Suspects \subseteq Wallets /\ Sweepable \subseteq Wallets
  /\ Erasable \subseteq Players
  /\ CASCADE_LIMIT \in Nat \ {0} /\ MILESTONE_FLAG_PAGE_SIZE \in Nat \ {0}
  /\ PURGE_PAGE_SIZE \in Nat \ {0} /\ MaxPages \in Nat \ {0}

VARIABLES
  cascadeCursor,        \* RevocationCascadeCursor(wallet)
  flagPage,             \* MilestonePendingReReviewPage(wallet, page), << >> if absent
  flagCount,            \* MilestonePendingReReviewCount(wallet)
  erasureCursor,        \* where the admin's erasure of a player has got to
  \* What the properties need to know of the past; no guard reads these.
  swept,                \* what the cascade of a wallet's last dismissal has visited
  cleared,              \* what of that a re-review has cleared since
  pageHistory           \* whether flags were ever paged, a flag ever reviewed

flags == <<cascadeCursor, flagPage, flagCount, swept, cleared, pageHistory>>
vars == <<validatorVars, attestationVars, disputeVars, flags, erasureCursor>>

----
(***************************************************************************)
(* run_cascade_sweep.                                                       *)
(***************************************************************************)
\* Pages in use, div_ceil of the count.
PageCount(w) == (flagCount[w] + MILESTONE_FLAG_PAGE_SIZE - 1) \div MILESTONE_FLAG_PAGE_SIZE

VisibleFlags(w) ==
  UNION {ToSetOf(flagPage[w][page]) : page \in {i \in PageIndexes : i < PageCount(w)}}

\* The milestones a sweep from start visits, and where it stops.
Slice(w, start) ==
  LET list == validatorMilestones[w]
  IN  SubSeq(list, start + 1, Least(start + CASCADE_LIMIT, Len(list)))

StopsAt(w, start) ==
  LET stop == start + Len(Slice(w, start))
  IN  IF stop >= Len(validatorMilestones[w]) THEN NONE ELSE stop

\* A sweep from the beginning skips what is flagged already.
ToFlag(w, start) ==
  Filter(Slice(w, start),
         IF start = 0 THEN MilestoneRef \ VisibleFlags(w) ELSE MilestoneRef)

\* Mutant: a full page is begun again, no next one opened.
PutOnFirst(book, ref) ==
  [book EXCEPT !.pages[0] = IF Len(@) < MILESTONE_FLAG_PAGE_SIZE THEN Append(@, ref) ELSE <<ref>>,
               !.count = @ + 1]

\* The pages and the count with one more flag; a full page is followed by a new one.
PutFlag(book, ref) ==
  IF Len(book.pages[book.at]) < MILESTONE_FLAG_PAGE_SIZE
  THEN [book EXCEPT !.pages[book.at] = Append(@, ref), !.count = @ + 1]
  ELSE [book EXCEPT !.pages[book.at + 1] = <<ref>>, !.count = @ + 1, !.at = @ + 1]

Swept(w, start) ==
  LET refs == ToFlag(w, start)
      book[i \in 0..Len(refs)] ==
        IF i = 0
        THEN [pages |-> flagPage[w], count |-> flagCount[w],
              at |-> flagCount[w] \div MILESTONE_FLAG_PAGE_SIZE]
        ELSE PutFlag(book[i - 1], refs[i])
  IN  book[Len(refs)]

\* Bound: what a sweep flags fits on the rest of the MaxPages pages.
PagesSuffice(w, start) ==
  LET at == flagCount[w] \div MILESTONE_FLAG_PAGE_SIZE
  IN  ToFlag(w, start) # << >> =>
        /\ at \in PageIndexes
        /\ Len(flagPage[w][at]) + Len(ToFlag(w, start))
             <= MILESTONE_FLAG_PAGE_SIZE * (MaxPages - at)

\* Sweeps of the wallets of ws, each from where start says; the others of marked
\* are left to continue_revocation_cascade.
RunSweeps(ws, start, marked) ==
  /\ \A w \in ws : PagesSuffice(w, start[w])
  /\ flagPage' = [w \in Wallets |-> IF w \in ws THEN Swept(w, start[w]).pages ELSE flagPage[w]]
  /\ flagCount' = [w \in Wallets |-> IF w \in ws THEN Swept(w, start[w]).count ELSE flagCount[w]]
  /\ cascadeCursor' = [w \in Wallets |->
       IF w \in ws THEN StopsAt(w, start[w])
       ELSE IF w \in marked THEN 0 ELSE cascadeCursor[w]]

\* The history of the sweeps, which a dismissal starts anew, and of the pages.
RecordSweeps(ws, start, dismissed) ==
  /\ swept' = [w \in Wallets |->
       (IF w \in dismissed THEN {} ELSE swept[w])
         \cup (IF w \in ws THEN ToSetOf(Slice(w, start[w])) ELSE {})]
  /\ cleared' = [w \in Wallets |->
       IF w \in dismissed THEN {}
       ELSE IF w \in ws THEN cleared[w] \ ToSetOf(Slice(w, start[w])) ELSE cleared[w]]
  /\ pageHistory' = [w \in Wallets |->
       IF flagCount'[w] > MILESTONE_FLAG_PAGE_SIZE THEN pageHistory[w] \cup {"paged"}
       ELSE pageHistory[w]]

\* Where a sweep of w takes up: the cursor, or the beginning.
TakeUp(w) == IF cascadeCursor[w] = NONE THEN 0 ELSE cascadeCursor[w]

----
(***************************************************************************)
(* Revocation: revoke_one for each wallet of a sequence.                    *)
(***************************************************************************)
\* Mutant: a dismissed juror's votes are left in the open disputes.
VotesStand(ws, severity) == UNCHANGED <<dispute, ballots>>

DismissedVotesGo(ws, severity) ==
  IF severity = ForCause THEN RemoveDisputeVotes(ws) ELSE UNCHANGED <<dispute, ballots>>

\* A dismissal sweeps from the beginning, or, deferred, marks that it has to; an
\* escalation sweeps at once from where the cascade stands.
Cascade(ws, severity, deferred) ==
  LET fresh == {w \in ws : validator[w].active}
      now_swept == IF severity # ForCause THEN {}
                   ELSE IF deferred THEN ws \ fresh ELSE ws
      marked == IF severity = ForCause /\ deferred THEN fresh ELSE {}
      start == [w \in ws |-> IF w \in fresh THEN 0 ELSE TakeUp(w)]
  IN  /\ RunSweeps(now_swept, start, marked)
      /\ RecordSweeps(now_swept, start, IF severity = ForCause
                                       THEN {w \in ws : start[w] = 0} ELSE {})

Revoke(ws, severity, deferred) ==
  /\ RevokeRecords(ToSetOf(ws), severity)
  /\ RetractVotes(ws)
  /\ DismissedVotesGo(ToSetOf(ws), severity)
  /\ Cascade(ToSetOf(ws), severity, deferred)
  /\ UNCHANGED <<settings, signing, milestones, juryConfig, disputeRound, openness,
                 erasureCursor>>

RevokeValidator(w, severity) == Revoke(<<w>>, severity, FALSE)

BatchRevokeValidators(ws, severity) == Revoke(ws, severity, TRUE)

\* The admin may continue the cascade of any registered validator.
ContinueRevocationCascade(w) ==
  /\ Registered(w)
  /\ w \in Sweepable                          \* bound
  /\ RunSweeps({w}, [v \in {w} |-> TakeUp(v)], {})
  /\ RecordSweeps({w}, [v \in {w} |-> TakeUp(v)], {})
  /\ UNCHANGED <<validatorVars, attestationVars, disputeVars, erasureCursor>>

----
(***************************************************************************)
(* Re-review.                                                               *)
(***************************************************************************)
\* The pages of w in use that hold a flag for ref.
PagesHolding(w, ref) ==
  {page \in PageIndexes : page < PageCount(w) /\ ref \in ToSetOf(flagPage[w][page])}

IsMilestoneFlagged(ref) ==
  /\ MilestoneAt(ref) # NONE
  /\ \E w \in ToSetOf(FlagWallets(ref)) : PagesHolding(w, ref) # {}

\* The first of the milestone's validators with a flag for it, and the page.
FirstHolder(ref) ==
  LET holds(i) == PagesHolding(FlagWallets(ref)[i], ref) # {}
      all == {i \in DOMAIN FlagWallets(ref) : holds(i)}
  IN  FlagWallets(ref)[Min(all)]

FirstPage(w, ref) == Min(PagesHolding(w, ref))

CountLess(w) == [flagCount EXCEPT ![w] = IF @ > 0 THEN @ - 1 ELSE 0]

\* An active validator confirms a milestone: one flag of it goes.
RereviewMilestone(reviewer, ref) ==
  /\ MilestoneAt(ref) # NONE
  /\ IsActiveValidator(reviewer)
  /\ IsMilestoneFlagged(ref)
  /\ LET w    == FirstHolder(ref)
         page == FirstPage(w, ref)
     IN  /\ flagPage' = [flagPage EXCEPT ![w][page] = Filter(@, MilestoneRef \ {ref})]
         /\ flagCount' = CountLess(w)
         /\ cleared' = [cleared EXCEPT ![w] = @ \cup ({ref} \cap swept[w])]
         /\ pageHistory' = [pageHistory EXCEPT ![w] = @ \cup {"reviewed"}]
  /\ UNCHANGED <<validatorVars, attestationVars, disputeVars, erasureCursor,
                 cascadeCursor, swept>>

----
(***************************************************************************)
(* purge_player_data: a page of milestone indexes, counted from 0.          *)
(***************************************************************************)
Erased(p, first, last) == {ref \in {p} \X Indexes : ref[2] \in first..last}

\* The rounds erased are 1..last; a first dispute has round 0.
ErasedRounds(ref) == IF HasDispute(ref) THEN 1..disputeRound[ref] ELSE {}

\* One call; the admin passes the returned cursor back until there is no more.
PurgePlayerData(p) ==
  LET cursor == erasureCursor[p]
      total  == milestoneCounter[p]
      end    == Least(cursor + PURGE_PAGE_SIZE, total)
      gone   == Erased(p, cursor, end - 1)
  IN  /\ p \in Erasable                       \* bound
      /\ cursor # NONE                        \* bound: a player is erased once
      /\ playerDisputes' = [playerDisputes EXCEPT ![p] = IF cursor = 0 THEN NONE ELSE @]
      /\ playerAffiliations' =
           [playerAffiliations EXCEPT ![p] = IF cursor = 0 THEN {} ELSE @]
      /\ milestone' = [milestone EXCEPT ![p] =
           [i \in Indexes |-> IF <<p, i>> \in gone THEN NONE ELSE milestone[p][i]]]
      /\ dispute' = [ref \in MilestoneRef |-> [round \in DisputeRounds |->
           IF ref \in gone /\ round \in ErasedRounds(ref) THEN NONE
           ELSE dispute[ref][round]]]
      /\ disputeRound' = [ref \in MilestoneRef |->
           IF ref \in gone THEN NONE ELSE disputeRound[ref]]
      /\ milestoneCounter' = [milestoneCounter EXCEPT ![p] = IF end < total THEN @ ELSE 0]
      /\ erasureCursor' = [erasureCursor EXCEPT ![p] = IF end < total THEN end ELSE NONE]
      /\ UNCHANGED <<validatorVars, settings, claims, signing, milestoneAttestors,
                     evidenceUsed, validatorMilestones, playerCount, windowStart,
                     globalSlot, writeHead, tallies, playerLevel, recorded, juryConfig,
                     activeDisputesCount, playerOpenDisputeCount, openDisputeIndex, ballots, flags>>

----
Init ==
  /\ AttestationInit
  /\ DisputeInit
  /\ cascadeCursor = [w \in Wallets |-> NONE]
  /\ flagPage = [w \in Wallets |-> [page \in PageIndexes |-> << >>]]
  /\ flagCount = [w \in Wallets |-> 0]
  /\ erasureCursor = [p \in Players |-> 0]
  /\ swept = [w \in Wallets |-> {}]
  /\ cleared = [w \in Wallets |-> {}]
  /\ pageHistory = [w \in Wallets |-> {}]

\* Sequences of up to MAX_BATCH different wallets.
Batches(wallets) ==
  {ws \in UNION {[1..n -> wallets] : n \in 1..MAX_BATCH} :
     \A i, j \in DOMAIN ws : i # j => ws[i] # ws[j]}

Rest == UNCHANGED <<disputeVars, flags, erasureCursor>>

RegisterStep == \E ws \in Batches(Wallets) : BatchRegisterValidators(ws) /\ UNCHANGED attestationVars /\ Rest
RestoreStep == \E w \in Wallets : RestoreValidator(w) /\ UNCHANGED attestationVars /\ Rest
TransferStep ==
  \E v, w \in Wallets : TransferRecord(v, w) /\ TransferMilestoneCount(v, w) /\ Rest
PauseStep ==
  /\ PauseContract \/ PauseApproveMilestone
  /\ UNCHANGED attestationVars /\ Rest
UnpauseStep ==
  /\ UnpauseContract \/ UnpauseApproveMilestone
  /\ UNCHANGED attestationVars /\ Rest
ClockStep == ClockTick /\ UNCHANGED attestationVars /\ Rest

ApproveStep ==
  \E w \in Wallets, p \in Players, e \in Evidence, d \in Descriptions :
    ApproveMilestone(w, p, e, d) /\ Rest
AttestPendingStep ==
  \E w \in Wallets, p \in Players, e \in Evidence, d \in Descriptions :
    AttestPending(w, p, e, d) /\ Rest
AttestCommitStep ==
  \E w \in Wallets, p \in Players, e \in Evidence, d \in Descriptions :
    AttestCommit(w, p, e, d) /\ Rest
PruneStep == \E p \in Players, e \in Evidence : PruneExpiredClaim(p, e) /\ Rest
RegisterKeyStep == \E w \in Wallets, k \in Keys : RegisterAttestationKey(w, k) /\ Rest
SubmitStep == \E a \in Attestations : SubmitAttestedMilestone(a) /\ Rest
ThresholdStep == \E threshold \in Thresholds : SetMilestoneThreshold(threshold) /\ Rest
WindowStep == \E window \in VotingWindows : SetVotingWindowSecs(window) /\ Rest
DiversityStep == \E config \in DiversityConfigs : SetDiversityConfig(config) /\ Rest
WiringStep ==
  /\ \/ SetProgressContract \/ UpdateProgressContract
     \/ SetRegistrationContract \/ UpdateRegistrationContract
  /\ Rest
StatusStep == \E p \in Hideable : PlayerStatusChange(p) /\ Rest
OpenWindowStep == OpenMigrationWindow /\ Rest
CloseWindowStep == CloseMigrationWindow /\ Rest
SeedMilestoneStep ==
  \E p \in Players, m \in SeedMilestones : AdminSeedMilestone(p, m) /\ Rest

Undisputed == UNCHANGED <<flags, erasureCursor>>

DisputeStep ==
  \E p \in Disputants, i \in Indexes, impact \in ImpactScores :
    DisputeMilestone(p, i, impact) /\ Undisputed
ResolveStep ==
  \E ref \in MilestoneRef, upheld \in BOOLEAN : ResolveDispute(ref, upheld) /\ Undisputed
TallyStep == \E ref \in MilestoneRef : TallyDispute(ref) /\ Undisputed
VoteStep ==
  \E w \in Wallets, ref \in MilestoneRef, for_upheld \in BOOLEAN :
    CastDisputeVote(w, ref, for_upheld) /\ Undisputed
JuryStep == \E config \in JuryConfigs : SetJuryConfig(config) /\ Undisputed
SeedDisputeStep == \E s \in SeedDisputes : AdminSeedDispute(s.ref, s.round, s.d) /\ Undisputed

RevokeStep ==
  \E w \in Suspects, severity \in Severities : RevokeValidator(w, severity)
BatchRevokeStep ==
  \E ws \in Batches(Suspects), severity \in Severities : BatchRevokeValidators(ws, severity)
ContinueStep == \E w \in Wallets : ContinueRevocationCascade(w)
RereviewStep == \E w \in Wallets, ref \in MilestoneRef : RereviewMilestone(w, ref)
PurgeStep == \E p \in Players : PurgePlayerData(p)

Next ==
  \/ RegisterStep \/ RestoreStep \/ TransferStep \/ PauseStep \/ UnpauseStep \/ ClockStep
  \/ ApproveStep \/ AttestPendingStep \/ AttestCommitStep \/ PruneStep
  \/ RegisterKeyStep \/ SubmitStep \/ ThresholdStep \/ WindowStep \/ DiversityStep \/ StatusStep
  \/ WiringStep
  \/ OpenWindowStep \/ CloseWindowStep \/ SeedMilestoneStep
  \/ DisputeStep \/ ResolveStep \/ TallyStep \/ VoteStep \/ JuryStep \/ SeedDisputeStep
  \/ RevokeStep \/ BatchRevokeStep \/ ContinueStep \/ RereviewStep \/ PurgeStep

Spec == Init /\ [][Next]_vars

----
(***************************************************************************)
(* Properties.                                                              *)
(***************************************************************************)
TypeOKRegistry ==
  /\ paused \subseteq Switches
  /\ validator \in [Wallets -> Validator \cup {NONE}]
  /\ validatorVector \in Seq(Wallets)
  /\ activeValidatorCount \in 0..MAX_VALIDATORS
  /\ totalValidatorCount \in 0..MAX_VALIDATORS
  /\ validatorRegLastSent \in [Wallets -> Times \cup {NONE}]
  /\ revocationRecord \in [Wallets -> RevocationRecord \cup {NONE}]
  /\ revokedForCause \subseteq Wallets /\ transferred \subseteq Wallets
  /\ now \in StartTime..MaxTime

TypeOKClaims ==
  /\ migrationWindow \in {"closed", "open", "sealed"}
  /\ playerActive \subseteq Players
  /\ milestoneThreshold \in 1..MAX_VALIDATORS
  /\ votingWindow \in VotingWindows \cup {DEFAULT_VOTING_WINDOW_SECS}
  /\ diversityConfig \in DiversityConfigs \cup {NONE}
  /\ wiring \in [Peers -> WiringLink]
  /\ claim \in [ClaimKeys -> PendingMilestoneClaim \cup {NONE}]
  /\ voteCast \subseteq PendingMilestoneVote
  /\ pendingVotes \in [Wallets -> SUBSET PendingVoteRef]
  /\ attestationKey \in [Wallets -> Keys \cup {NONE}]
  /\ attestationKeyOwner \in [Keys -> Wallets \cup {NONE}]
  /\ nonceBase \in [Wallets -> 0..U64_MAX]
  /\ nonceBitmap \in [Wallets -> SUBSET (0..(ATTESTATION_NONCE_BITMAP_BITS - 1))]
  /\ accepted \in [Wallets -> Seq(0..U64_MAX)]

TypeOKMilestones ==
  /\ milestone \in [Players -> [Indexes -> Milestone \cup {NONE}]]
  /\ milestoneCounter \in [Players -> 0..MaxMilestones]
  /\ milestoneAttestors \in [Players -> [Indexes -> Seq(Wallets)]]
  /\ evidenceUsed \in [Evidence -> MilestoneRef \cup {NONE}]
  /\ validatorMilestones \in [Wallets -> Seq(MilestoneRef)]
  /\ playerCount \in [Wallets -> [Players -> Nat]]
  /\ windowStart \in [Wallets -> [Players -> Nat]]
  /\ globalSlot \in [0..(MAX_GLOBAL_MILESTONE_INDEX - 1) -> MilestoneRef \cup {NONE}]
  /\ writeHead \in 0..(2 * MAX_GLOBAL_MILESTONE_INDEX - 1)
  /\ validatorMilestoneCount \in [Wallets -> Nat] /\ totalMilestoneCount \in Nat
  /\ validatorPlayers \in [Wallets -> Seq(Players)]
  /\ playerAffiliations \in [Players -> SUBSET Affiliations]
  /\ playerLevel \in [Players -> 0..MAX_LEVEL]
  /\ recorded \in Seq([ref : MilestoneRef, validator : Wallets, attestors : Seq(Wallets),
                       affiliation : Affiliations \cup {NONE},
                       config : DiversityConfig \cup {NONE}, wired : BOOLEAN])

TypeOKDisputes ==
  /\ juryConfig \in JuryConfigs \cup {DefaultJury}
  /\ dispute \in [MilestoneRef -> [DisputeRounds -> MilestoneDispute \cup {NONE}]]
  /\ disputeRound \in [MilestoneRef -> DisputeRounds \cup {NONE}]
  /\ playerDisputes \in [Players -> Seq(Indexes) \cup {NONE}]
  /\ activeDisputesCount \in Nat
  /\ playerOpenDisputeCount \in [Players -> Nat]
  /\ openDisputeIndex \in Seq(DisputeEntry)
  /\ disputeVote \subseteq DisputeVote
  /\ disputeVoteCount \in [MilestoneRef -> [DisputeRounds -> Nat]]

TypeOKFlags ==
  /\ cascadeCursor \in [Wallets -> Nat \cup {NONE}]
  /\ flagPage \in [Wallets -> [PageIndexes -> Seq(MilestoneRef)]]
  /\ flagCount \in [Wallets -> Nat]
  /\ erasureCursor \in [Players -> Nat \cup {NONE}]
  /\ swept \in [Wallets -> SUBSET MilestoneRef]
  /\ cleared \in [Wallets -> SUBSET MilestoneRef]
  /\ pageHistory \in [Wallets -> SUBSET {"paged", "reviewed"}]

\* Every key holds a value of its type; the counters and the ring buffer's head
\* stay in their ranges.
TypeOK ==
  TypeOKRegistry /\ TypeOKClaims /\ TypeOKMilestones /\ TypeOKDisputes /\ TypeOKFlags

NotErased(p) == erasureCursor[p] = 0
NoRepeats(s) == \A i, j \in DOMAIN s : i # j => s[i] # s[j]

\* get_validators lists every active validator once and nobody else, and both
\* counters say how many there are, through registration in batches, revocation,
\* escalation, restoring and transfer.
RegistryIsExact ==
  /\ NoRepeats(validatorVector)
  /\ LET all == SetToSeq(Wallets) IN
     \A i \in DOMAIN all :
       GetValidatorStatuses(all)[i] = "Active" <=> all[i] \in ToSetOf(validatorVector)
  /\ activeValidatorCount = Len(validatorVector)
  /\ totalValidatorCount = Len(validatorVector)

\* A pending claim counts exactly the votes cast in its round, all for the text
\* it will commit, and is short of its threshold; no vote and no pending-vote
\* ref belongs to a round that is over.  An open claim is out of reach only because
\* validators who had not voted on it were revoked.
ClaimMatchesItsVotes ==
  /\ \A key \in ClaimKeys : claim[key] # NONE =>
       LET c == claim[key] IN
       /\ NoRepeats(c.voters)
       /\ c.vote_count = Len(c.voters) /\ c.vote_count < c.threshold
       /\ {v.wallet : v \in RoundVotes(key, c.round)} = ToSetOf(c.voters)
       /\ \A v \in RoundVotes(key, c.round) : v.text = c.description
       /\ \A w \in Wallets :
            HasAttested(key[1], key[2], w) <=> ~Expired(c) /\ w \in ToSetOf(c.voters)
       /\ ~IsPendingClaimReachable(key[1], key[2]) =>
            \E w \in (Wallets \ ToSetOf(c.voters)) \cup transferred :
              Registered(w) /\ ~IsActiveValidator(w)
       /\ c.threshold = milestoneThreshold =>
            IsPendingClaimReachable(key[1], key[2]) = GetMilestoneThresholdStatus.reachable
       /\ \A w \in ToSetOf(c.voters) :
            [key |-> key, round |-> c.round] \in pendingVotes[w]
  /\ \A v \in voteCast :
       claim[v.key] # NONE /\ claim[v.key].round = v.round
  /\ \A w \in Wallets : \A r \in pendingVotes[w] :
       /\ claim[r.key] # NONE /\ claim[r.key].round = r.round
       /\ w \in ToSetOf(claim[r.key].voters)

Record(p, i) == milestone[p][i]

\* A milestone that is recorded while no replay is under way carries the attestations it
\* needs, by different validators that are active at that moment (or gave up the
\* wallet they attested with in a transfer): as many as the threshold of now, or
\* of the round its claim was in.
QuorumBacksMilestone ==
  [][\A p \in Players : milestoneCounter'[p] = NextIndex(p) =>
       LET attestors == milestoneAttestors'[p][NextIndex(p)]
           e == milestone'[p][NextIndex(p)].evidence
           c == claim[<<p, e>>]
           k == Cardinality(ToSetOf(attestors))
       IN  migrationWindow # "open" =>
             /\ NoRepeats(attestors)
             /\ \E n \in {NextIndex(p)} :
                  GetMilestoneWithStatus(p, n).validator_status' = "Active"
             /\ \A w \in ToSetOf(attestors) : IsActiveValidator(w) \/ w \in transferred
             /\ \/ k >= milestoneThreshold
                \/ c # NONE /\ ~Expired(c) /\ k >= c.threshold]_vars

\* A wallet's nonce is accepted at most once, in whatever order signatures are
\* relayed and however far the window moves, the last u64 excepted; and
\* get_attestation_nonce answers with the highest nonce used.
NonceAcceptedOnce ==
  \A w \in Wallets :
    /\ \A i, j \in DOMAIN accepted[w] :
         i # j /\ accepted[w][i] = accepted[w][j] => accepted[w][i] = U64_MAX
    /\ accepted[w] # << >> => GetAttestationNonce(w) = Max(ToSetOf(accepted[w]))

\* The latest entries, as many as the buffer has slots, oldest first, in pages.
GlobalIndexIsRecent ==
  LET n == Len(recorded)
      k == Least(n, MAX_GLOBAL_MILESTONE_INDEX)
  IN  \A limit \in {0, MAX_PAGE + 1} :
        ReadsOut(LAMBDA offset : GetGlobalMilestoneIndex(offset, limit).entries,
                 LAMBDA i : recorded[(n - k) + i].ref, limit, k)

\* Whether w is among the validators of a history entry.
Attests(r, w) == r.validator = w \/ w \in ToSetOf(r.attestors)

\* The numbers of the history entries w has to be listed for, in their order: those w
\* attested, and those replayed for w unless the milestone was w's before an erasure.
Attested(w) ==
  {n \in DOMAIN recorded :
     /\ Attests(recorded[n], w)
     /\ \/ recorded[n].attestors # << >>
        \/ ~\E m \in 1..(n - 1) :
              Attests(recorded[m], w) /\ recorded[m].ref = recorded[n].ref}
AttestedBy(w) == Filter([n \in DOMAIN recorded |-> n], Attested(w))

\* The numbers of the history entries w committed.
CommittedBy(w) == {n \in DOMAIN recorded : recorded[n].validator = w}

\* The organisations behind what validators recorded for p, up to the n-th entry.
AffiliationsUpTo(p, n) ==
  {recorded[i].affiliation :
     i \in {j \in 1..n : recorded[j].ref[1] = p /\ recorded[j].attestors # << >>}}

\* Whether the gate of its time let the n-th history entry move its player on, and
\* there was a progress contract to ask.
Advanced(n) ==
  LET r == recorded[n] IN
  /\ r.attestors # << >> /\ r.wired
  /\ \/ r.config = NONE
     \/ r.ref[2] < r.config.starting_milestone_index
     \/ Cardinality(AffiliationsUpTo(r.ref[1], n))
          >= r.config.required_distinct_affiliations

\* Every list and count kept beside the milestones follows from what was recorded:
\* the ring buffer behind get_global_milestone_index, also after it has wrapped, a
\* validator's pages and report, the total, and the player's level, which moves on
\* with the milestones that enough organisations stood behind while progress was
\* wired; only replays record anything while registration is not; and until an erasure
\* get_milestones_since returns each milestone of its player.
TalliesFollowTheRecord ==
  /\ GlobalIndexIsRecent
  /\ GetTotalMilestoneCount = Len(recorded)
  /\ GetWiringState["progress"] = 0 => \A p \in Players : playerLevel[p] = 0
  /\ GetWiringState["registration"] = 0 => \A n \in DOMAIN recorded : recorded[n].attestors = << >>
  /\ \A w \in Wallets :
       LET mine   == AttestedBy(w)
           report == GetValidatorActivityReport(w)
           helped == {recorded[n].ref[1] : n \in CommittedBy(w)}
       IN
       /\ ReadsOut(LAMBDA offset : GetValidatorMilestonesPage(w, offset, 1),
                   LAMBDA i : recorded[mine[i]].ref, 1, Len(mine))
       /\ GetValidatorMilestonesPageV2(w, 0, 1).total = Len(mine)
       /\ (\A p \in Players : NotErased(p)) =>
            ReadsOut(LAMBDA offset : GetMilestonesByValidatorPage(w, offset, 1),
                     LAMBDA i : MilestoneAt(recorded[mine[i]].ref), 1, Len(mine))
       /\ transferred = {} => report.milestone_count = Cardinality(CommittedBy(w))
       /\ ToSetOf(report.distinct_players) = helped
       /\ report.distinct_player_count = Cardinality(helped)
       /\ ReadsOut(LAMBDA offset : GetValidatorPlayersPage(w, offset, 1).entries,
                   LAMBDA i : report.distinct_players[i], 1, Cardinality(helped))
  /\ \A p \in Players : NotErased(p) =>
       /\ playerLevel[p] =
            Least(MAX_LEVEL,
                  Cardinality({n \in DOMAIN recorded : recorded[n].ref[1] = p /\ Advanced(n)}))
       /\ playerAffiliations[p] = AffiliationsUpTo(p, Len(recorded))
       /\ GetMilestonesSince(p, 0) = [i \in 1..GetMilestoneCount(p) |-> Record(p, i)]

\* Until a player is erased, no validator records more than its allowance for the
\* player in a window, and every milestone falls into the latest window or an
\* earlier one.
RateIsWindowed ==
  \A w \in Wallets, p \in Players : NotErased(p) =>
    LET mine == {i \in Indexes :
                   Record(p, i) # NONE /\ Record(p, i).validator = w
                     /\ AttestorsOf(<<p, i>>) # << >>}
    IN  /\ \A i \in mine :
             Record(p, i).approved_at < windowStart[w][p] + PLAYER_VALIDATOR_WINDOW_SECS
        /\ Cardinality({i \in mine : Record(p, i).approved_at >= windowStart[w][p]})
             <= MAX_MILESTONES_PER_PLAYER_PER_VALIDATOR

Dismissed(w) ==
  /\ Registered(w) /\ ~validator[w].active
  /\ revocationRecord[w] # NONE /\ revocationRecord[w].severity = ForCause

\* Once the cascade of a dismissed validator has no cursor left, it has visited
\* every milestone the validator attested, alone or with others, however the
\* dismissal was made and the sweep was cut up.  A wallet that gave its record
\* away keeps the mark of an old dismissal, and is left out.
CascadeReachesEveryApproval ==
  \A w \in Wallets \ transferred : Dismissed(w) /\ cascadeCursor[w] = NONE =>
    \A ref \in MilestoneRef :
      MilestoneAt(ref) # NONE /\ w \in ToSetOf(AttestorsOf(ref)) => ref \in swept[w]

\* What the cascade of a wallet's last dismissal has visited is_milestone_flagged
\* reports until a re-review clears it, restored or not, however many pages the
\* flags take and however often the wallet is dismissed; once a re-review has
\* taken a flag of the wallet away, as long as its flags have never taken more
\* than one page.
FlagStandsUntilReviewed ==
  \A w \in Wallets : pageHistory[w] # {"paged", "reviewed"} =>
    \A ref \in swept[w] \ cleared[w] :
      MilestoneAt(ref) # NONE /\ w \in ToSetOf(FlagWallets(ref)) => IsMilestoneFlagged(ref)

OpenDisputes ==
  {o \in DisputeEntry :
     dispute[o.ref][o.round] # NONE /\ ~dispute[o.ref][o.round].resolved}

\* The records replayed leave open only the latest round of a milestone.
SeedsInOrder ==
  \A s, t \in SeedDisputes : s.ref = t.ref /\ ~s.d.resolved => t.round <= s.round

\* Of p's listing, the milestones with an open dispute in whatever round.
OpenIndexes(p) ==
  Filter(DisputedIndexes(p), {i \in Indexes : \E o \in OpenDisputes : o.ref = <<p, i>>})

\* The index of open disputes, the global count and each player's count agree
\* with the records, and a player's listing has each disputed milestone once.  If
\* what was replayed was in order, a milestone has at most one open dispute, the
\* latest.  The pages of list_disputes_page, of get_player_disputes and of its
\* filter on open ones hold each dispute once.
OpenDisputesAreExact ==
  (\A p \in Players : NotErased(p)) =>
    /\ NoRepeats(openDisputeIndex)
    /\ ToSetOf(openDisputeIndex) = OpenDisputes
    /\ activeDisputesCount = Cardinality(OpenDisputes)
    /\ \A p \in Players :
         /\ playerOpenDisputeCount[p] = Cardinality({o \in OpenDisputes : o.ref[1] = p})
         /\ NoRepeats(DisputedIndexes(p))
         /\ ToSetOf(DisputedIndexes(p)) = {i \in Indexes : HasDispute(<<p, i>>)}
    /\ \A limit \in 0..(MAX_PAGE + 1) :
         /\ ReadsOut(LAMBDA offset : ListDisputesPage(offset, limit),
                     LAMBDA k : openDisputeIndex[k], limit, activeDisputesCount)
         /\ \A p \in Players :
              ReadsOut(LAMBDA offset : GetPlayerDisputes(p, offset, limit),
                       LAMBDA k : GetDispute(<<p, DisputedIndexes(p)[k]>>),
                       limit, GetPlayerDisputeCount(p))
    /\ SeedsInOrder =>
         /\ \A o \in OpenDisputes : o.round = disputeRound[o.ref]
         /\ \A p \in Players, limit \in 0..(MAX_PAGE + 1) :
              ReadsOut(LAMBDA offset : GetPlayerDisputesByStatus(p, FALSE, offset, limit),
                       LAMBDA k : GetDispute(<<p, OpenIndexes(p)[k]>>),
                       limit, playerOpenDisputeCount[p])

VotesSo(ref, round, so) ==
  {v \in disputeVote : v.ref = ref /\ v.round = round /\ v.for_upheld = so}

\* A record replayed with votes or with a jury's verdict: the votes are not replayed.
Inherited(ref, round) ==
  \E s \in SeedDisputes :
    /\ s.ref = ref /\ s.round = round
    /\ \/ TotalVotes(s.d) > 0
       \/ s.d.jury_required /\ s.d.resolved /\ s.d.upheld

\* The votes kept for a dispute are what its tally and its vote index count, each
\* juror's once, of jurors who did not attest the milestone, and, while it is
\* open, of none who was dismissed since and is known by the same wallet; and a
\* jury dispute is closed in the player's favour only by a majority of a jury that
\* was complete.
JuryDecides ==
  \A ref \in MilestoneRef, round \in DisputeRounds :
    LET d    == dispute[ref][round]
        for  == VotesSo(ref, round, TRUE)
        anti == VotesSo(ref, round, FALSE)
        jurors == {v.wallet : v \in for \cup anti}
    IN  d # NONE /\ NotErased(ref[1]) /\ ~Inherited(ref, round) =>
          /\ d.votes_for = Cardinality(for) /\ d.votes_against = Cardinality(anti)
          /\ disputeVoteCount[ref][round] = Cardinality(jurors)
          /\ d.votes_for + d.votes_against = Cardinality(jurors)
          /\ MilestoneAt(ref) # NONE => jurors \cap ToSetOf(FlagWallets(ref)) = {}
          /\ ~d.resolved =>
               \A w \in jurors \ transferred : GetValidatorStatus(w) # "RevokedForCause"
          /\ d.jury_required /\ d.resolved /\ d.upheld =>
               d.votes_for > d.votes_against /\ Cardinality(jurors) >= d.quorum
====
