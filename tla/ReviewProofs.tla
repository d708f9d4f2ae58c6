---- MODULE ReviewProofs ----
(***************************************************************************)
(* Proofs about what follows the approval of a milestone: a jury's tally is *)
(* that of the votes kept, a flag stays in view until it is reviewed, the   *)
(* lists and counts of open disputes are those of the records, and the      *)
(* lists, counts and levels kept beside the milestones are those of their   *)
(* history.  They rest on the invariants of VerificationProofs.             *)
(***************************************************************************)
EXTENDS VerificationProofs

----
(***************************************************************************)
(* What a jury's votes rest on: the milestones of a player stay until its   *)
(* erasure, and a dismissed wallet stays out of the registry.               *)
(***************************************************************************)
\* No milestone lies beyond the player's counter.
Numbered ==
  \A ref \in MilestoneRef :
    NotErased(ref[1]) /\ MilestoneAt(ref) # NONE => ref[2] <= milestoneCounter[ref[1]]

\* The milestone at ref is what it was.
StaysAt(ref) ==
  /\ NotErased(ref[1])
  /\ MilestoneAt(ref) # NONE =>
       MilestoneAt(ref)' = MilestoneAt(ref) /\ AttestorsOf(ref)' = AttestorsOf(ref)

\* An erasure call is seen at its player's cursor, and leaves the others alone.
LEMMA ErasureBegins ==
  ASSUME RateType, NEW p \in Players, PurgePlayerData(p)
  PROVE  /\ ~NotErased(p)'
         /\ milestoneAttestors' = milestoneAttestors
         /\ \A q \in Players : q # p =>
              /\ NotErased(q)' => NotErased(q)
              /\ milestone'[q] = milestone[q] /\ milestoneCounter'[q] = milestoneCounter[q]
<1> DEFINE cursor == erasureCursor[p]
           end    == Least(cursor + PURGE_PAGE_SIZE, milestoneCounter[p])
           more   == end < milestoneCounter[p]
           rest   == [i \in Indexes |-> IF <<p, i>> \in Erased(p, cursor, end - 1) THEN NONE
                                       ELSE milestone[p][i]]
<1>1. /\ cursor # NONE
      /\ milestoneCounter' = [milestoneCounter EXCEPT ![p] =
           IF more THEN milestoneCounter[p] ELSE 0]
      /\ erasureCursor' = [erasureCursor EXCEPT ![p] = IF more THEN end ELSE NONE]
      /\ milestoneAttestors' = milestoneAttestors
  BY DEF PurgePlayerData
<1>2. milestone' = [milestone EXCEPT ![p] = rest]
  BY DEF PurgePlayerData
<1>3. milestoneCounter[p] \in Nat /\ cursor \in Nat
  BY <1>1 DEF RateType
<1>4. end \in Nat /\ (more => end > 0)
  BY <1>3, RateBounds DEF Least
<1> HIDE DEF cursor, end, more, rest
<1>5. ~NotErased(p)'
  BY <1>1, <1>4, RateBounds DEF NotErased, RateType
<1> QED
  BY <1>1, <1>2, <1>5 DEF NotErased, RateType

\* Until a player's erasure begins its milestones stay and are numbered on.
LEMMA MilestonesStand ==
  ASSUME RegistryInv, ClaimInv, RateInv, Numbered, [Next]_vars,
         NEW ref \in MilestoneRef, NotErased(ref[1])'
  PROVE  /\ StaysAt(ref)
         /\ MilestoneAt(ref)' # NONE => ref[2] <= milestoneCounter'[ref[1]]
<1> USE DEF StaysAt
<1>1. ref[1] \in Players /\ ref[2] \in Indexes /\ ref[2] \in Nat /\ ref = <<ref[1], ref[2]>>
  BY RateBounds DEF MilestoneRef, Indexes
<1>2. RateType
  BY DEF RateInv
<1>3. NotErased(ref[1]) /\ MilestoneAt(ref) # NONE => ref[2] <= milestoneCounter[ref[1]]
  BY DEF Numbered
<1>4. ASSUME UNCHANGED <<milestone, milestoneCounter, milestoneAttestors, erasureCursor>>
      PROVE  /\ StaysAt(ref)
             /\ MilestoneAt(ref)' # NONE => ref[2] <= milestoneCounter'[ref[1]]
  BY <1>3, <1>4 DEF NotErased, MilestoneAt, AttestorsOf
<1>5. ASSUME NEW p \in Players, NEW n \in Nat, n > milestoneCounter[p],
             milestoneCounter'[p] = n,
             \A q \in Players : q # p => milestoneCounter'[q] = milestoneCounter[q],
             \A q \in Players, i \in Indexes : <<q, i>> # <<p, n>> =>
               /\ milestone'[q][i] = milestone[q][i]
               /\ milestoneAttestors'[q][i] = milestoneAttestors[q][i],
             erasureCursor' = erasureCursor
      PROVE  /\ StaysAt(ref)
             /\ MilestoneAt(ref)' # NONE => ref[2] <= milestoneCounter'[ref[1]]
  <2>1. NotErased(ref[1])
    BY <1>5 DEF NotErased
  <2>2. milestoneCounter[ref[1]] \in Nat
    BY <1>1, <1>2 DEF RateType
  <2>3. CASE ref[1] = p /\ ref[2] = n
    BY <1>3, <1>5, <2>1, <2>2, <2>3
  <2>4. CASE ~(ref[1] = p /\ ref[2] = n)
    <3>1. MilestoneAt(ref)' = MilestoneAt(ref) /\ AttestorsOf(ref)' = AttestorsOf(ref)
      BY <1>1, <1>5, <2>4 DEF MilestoneAt, AttestorsOf
    <3>2. milestoneCounter'[ref[1]] >= milestoneCounter[ref[1]]
      BY <1>1, <1>2, <1>5, <2>2
    <3> QED
      BY <1>1, <1>3, <1>5, <2>1, <2>2, <3>1, <3>2
  <2> QED
    BY <2>3, <2>4
<1>6. CASE ApproveStep \/ AttestCommitStep \/ SubmitStep
  <2>1. PICK w \in Wallets, p \in Players, e \in Evidence, d \in Descriptions,
             attestors \in Seq(Wallets) : Committing(w, p, e, d, attestors)
    BY <1>6, CommitSteps
  <2>2. PICK n : n = NextIndex(p)
    OBVIOUS
  <2>3. /\ CommitApprovedMilestone(w, p, e, d, attestors)
        /\ now' = now /\ erasureCursor' = erasureCursor
    BY <2>1 DEF Committing, Unregistering, Rest, validatorVars
  <2>4. /\ milestoneCounter'[p] = n
        /\ \A q \in Players : q # p => milestoneCounter'[q] = milestoneCounter[q]
        /\ \A q \in Players, i \in Indexes : <<q, i>> # <<p, n>> =>
             /\ milestone'[q][i] = milestone[q][i]
             /\ milestoneAttestors'[q][i] = milestoneAttestors[q][i]
    BY <1>2, <2>2, <2>3, CommitEffect
  <2>5. n \in Nat /\ n > milestoneCounter[p]
    BY <1>2, <2>2 DEF NextIndex, RateType
  <2> QED
    BY <1>5, <2>3, <2>4, <2>5
<1>7. CASE SeedMilestoneStep
  <2>1. PICK p \in Players, m \in SeedMilestones : AdminSeedMilestone(p, m) /\ Rest
    BY <1>7 DEF SeedMilestoneStep
  <2>2. PICK n : n = NextIndex(p)
    OBVIOUS
  <2>3. /\ n \in Indexes /\ milestone' = [milestone EXCEPT ![p][n] = m]
        /\ milestoneCounter' = [milestoneCounter EXCEPT ![p] = n]
        /\ milestoneAttestors' = milestoneAttestors /\ erasureCursor' = erasureCursor
    BY <2>1, <2>2, Zenon DEF AdminSeedMilestone, Rest
  <2>4. n \in Nat /\ n > milestoneCounter[p]
    BY <1>2, <2>2 DEF NextIndex, RateType
  <2>5. /\ milestoneCounter'[p] = n
        /\ \A q \in Players : q # p => milestoneCounter'[q] = milestoneCounter[q]
        /\ \A q \in Players, i \in Indexes : <<q, i>> # <<p, n>> =>
             /\ milestone'[q][i] = milestone[q][i]
             /\ milestoneAttestors'[q][i] = milestoneAttestors[q][i]
    BY <1>2, <2>3 DEF RateType
  <2> QED
    BY <1>5, <2>3, <2>4, <2>5
<1>8. CASE PurgeStep
  <2>1. PICK p \in Players : PurgePlayerData(p)
    BY <1>8 DEF PurgeStep
  <2>2. ref[1] # p
    BY <1>2, <2>1, ErasureBegins
  <2>3. /\ NotErased(ref[1]) /\ milestoneAttestors' = milestoneAttestors
        /\ milestone'[ref[1]] = milestone[ref[1]]
        /\ milestoneCounter'[ref[1]] = milestoneCounter[ref[1]]
    BY <1>1, <1>2, <2>1, <2>2, ErasureBegins
  <2> QED
    BY <1>3, <2>3 DEF MilestoneAt, AttestorsOf
<1>9. CASE ClockStep
  BY <1>4, <1>9 DEF ClockStep, ClockTick, Rest, attestationVars, milestones
<1>10. ASSUME Unrated
       PROVE  /\ StaysAt(ref)
              /\ MilestoneAt(ref)' # NONE => ref[2] <= milestoneCounter'[ref[1]]
  BY <1>4, <1>10 DEF Unrated
<1>11. CASE UNCHANGED vars
  BY <1>4, <1>11 DEF vars, attestationVars, milestones
<1> QED
  BY <1>6, <1>7, <1>8, <1>9, <1>10, <1>11, RegistryLeavesRate, SettingsLeaveRate,
     DisputesLeaveRate DEF Next

\* Milestones are numbered throughout.
LEMMA NumberedAlways == Spec => []Numbered
<1>1. Init => Numbered
  <2> SUFFICES ASSUME Init PROVE Numbered
    OBVIOUS
  <2>1. milestone = [p \in Players |-> [i \in Indexes |-> NONE]]
    BY DEF Init, AttestationInit
  <2> QED
    BY <2>1 DEF Numbered, MilestoneAt, MilestoneRef
<1>2. RegistryInv /\ ClaimInv /\ RateInv /\ Numbered /\ [Next]_vars => Numbered'
  <2> SUFFICES ASSUME RegistryInv, ClaimInv, RateInv, Numbered, [Next]_vars,
                      NEW ref \in MilestoneRef, NotErased(ref[1])', MilestoneAt(ref)' # NONE
               PROVE  ref[2] <= milestoneCounter'[ref[1]]
    BY DEF Numbered
  <2> QED
    BY MilestonesStand
<1> QED
  BY <1>1, <1>2, MilestonesAlways, RateAlways, PTL DEF Spec

----
\* A wallet dismissed for cause has an inactive record, unless it gave it away.
Suspended ==
  \A w \in Wallets \ transferred : w \in revokedForCause => Registered(w) /\ ~validator[w].active

\* Who may still be counted as a juror.
MayJudge(w) == w \in transferred \/ w \notin revokedForCause

\* Only a dismissal takes the right to judge away, and it does so for its wallets.
LEMMA SuspensionSteps ==
  ASSUME RegistryInv, Suspended, [Next]_vars
  PROVE  /\ Suspended'
         /\ \/ \A w : MayJudge(w) => MayJudge(w)'
            \/ RevokeStep \/ BatchRevokeStep
<1>1. /\ validator \in [Wallets -> Validator \cup {NONE}]
      /\ \A w \in Wallets : Registered(w) => validator[w] \in Validator
  BY RegisteredRecord DEF RegistryInv, TypeOKRegistry
<1>2. CASE RegisterStep
  <2>1. PICK ws \in Batches(Wallets) : BatchRegisterValidators(ws)
    BY <1>2 DEF RegisterStep
  <2>2. /\ validator' = [v \in Wallets |->
             IF v \in ToSetOf(ws)
             THEN [affiliation |-> AffiliationOf[v], registered_at |-> now, active |-> TRUE]
             ELSE validator[v]]
        /\ \A v \in ToSetOf(ws) : ~Registered(v)
        /\ transferred' = transferred /\ revokedForCause' = revokedForCause
    BY <2>1 DEF BatchRegisterValidators, WriteValidators, ValidateValidatorInput, revocations
  <2>3. ASSUME NEW w \in Wallets \ transferred, w \in revokedForCause
        PROVE  Registered(w)' /\ ~validator'[w].active
    <3>1. Registered(w) /\ ~validator[w].active
      BY <2>3 DEF Suspended
    <3>2. validator'[w] = validator[w]
      BY <2>2, <3>1
    <3> QED
      BY <3>1, <3>2 DEF Registered
  <2> QED
    BY <2>2, <2>3 DEF Suspended, MayJudge
<1>3. CASE RestoreStep
  <2>1. PICK r \in Wallets : RestoreValidator(r)
    BY <1>3 DEF RestoreStep
  <2>2. /\ validator' = [validator EXCEPT ![r].active = TRUE]
        /\ transferred' = transferred /\ revokedForCause' = revokedForCause \ {r}
    BY <2>1 DEF RestoreValidator
  <2>3. ASSUME NEW w \in Wallets \ transferred, w \in revokedForCause \ {r}
        PROVE  Registered(w)' /\ ~validator'[w].active
    <3>1. Registered(w) /\ ~validator[w].active
      BY <2>3 DEF Suspended
    <3>2. validator'[w] = validator[w]
      BY <1>1, <2>2, <2>3
    <3> QED
      BY <3>1, <3>2 DEF Registered
  <2> QED
    BY <2>2, <2>3 DEF Suspended, MayJudge
<1>4. CASE TransferStep
  <2>1. PICK old \in Wallets, new \in Wallets : TransferRecord(old, new)
    BY <1>4 DEF TransferStep
  <2>2. /\ Registered(old) /\ ~Registered(new) /\ old # new
        /\ validator' = [validator EXCEPT ![new] = validator[old], ![old] = NONE]
        /\ transferred' = transferred \cup {old} /\ revokedForCause' = revokedForCause
    BY <2>1 DEF TransferRecord, revocations
  <2>3. ASSUME NEW w \in Wallets \ transferred, w # old, w \in revokedForCause
        PROVE  Registered(w)' /\ ~validator'[w].active
    <3>1. Registered(w) /\ ~validator[w].active
      BY <2>3 DEF Suspended
    <3>2. w # new
      BY <2>2, <3>1
    <3>3. validator'[w] = validator[w]
      BY <1>1, <2>2, <2>3, <3>2
    <3> QED
      BY <3>1, <3>3 DEF Registered
  <2> QED
    BY <2>2, <2>3 DEF Suspended, MayJudge
<1>5. ASSUME UNCHANGED <<validator, transferred, revokedForCause>>
      PROVE  Suspended' /\ \A w : MayJudge(w) => MayJudge(w)'
  BY <1>5 DEF Suspended, MayJudge, Registered
<1>6. CASE PauseStep \/ UnpauseStep \/ ClockStep
  <2>1. UNCHANGED <<validator, transferred, revokedForCause>>
    BY <1>6 DEF PauseStep, UnpauseStep, ClockStep, PauseContract, PauseApproveMilestone,
         UnpauseContract, UnpauseApproveMilestone, Pause, Unpause, ClockTick, registry,
         revocations
  <2> QED
    BY <1>5, <2>1
<1>7. CASE Unregistering
  BY <1>5, <1>7 DEF Unregistering, validatorVars, registry, revocations
<1>8. CASE RevokeStep \/ BatchRevokeStep
  <2>1. PICK ws \in Seq(Wallets), severity \in RevocationSeverity, deferred \in BOOLEAN :
          Revoke(ws, severity, deferred)
    BY <1>8, RevocationSteps
  <2>2. PICK set : set = ToSetOf(ws)
    OBVIOUS
  <2>3. /\ \A w \in set : Revocable(w, severity)
        /\ validator' = [w \in Wallets |->
             IF w \in set THEN [validator[w] EXCEPT !.active = FALSE] ELSE validator[w]]
        /\ revokedForCause' = revokedForCause \cup (IF severity = ForCause THEN set ELSE {})
        /\ transferred' = transferred
    BY <2>1, <2>2 DEF Revoke, RevokeRecords
  <2>4. ASSUME NEW w \in Wallets, w \in set
        PROVE  Registered(w)' /\ ~validator'[w].active
    <3>1. validator[w] \in Validator
      BY <1>1, <2>3, <2>4 DEF Revocable
    <3>2. validator'[w] \in Validator /\ ~validator'[w].active
      BY <2>3, <2>4, <3>1 DEF Validator
    <3> QED
      BY <3>2, RegistryBounds DEF Registered
  <2>5. ASSUME NEW w \in Wallets \ transferred, w \notin set, w \in revokedForCause
        PROVE  Registered(w)' /\ ~validator'[w].active
    <3>1. Registered(w) /\ ~validator[w].active
      BY <2>5 DEF Suspended
    <3>2. validator'[w] = validator[w]
      BY <2>3, <2>5
    <3> QED
      BY <3>1, <3>2 DEF Registered
  <2>6. Suspended'
    BY <2>3, <2>4, <2>5 DEF Suspended
  <2> QED
    BY <1>8, <2>6
<1> QED
  BY <1>2, <1>3, <1>4, <1>6, <1>7, <1>8, RegistrySteps

\* A dismissed wallet is out throughout.
LEMMA SuspendedAlways == Spec => []Suspended
<1>1. Init => Suspended
  <2>1. Init => revokedForCause = {}
    BY DEF Init, AttestationInit, ValidatorInit
  <2> QED
    BY <2>1 DEF Suspended
<1>2. RegistryInv /\ Suspended /\ [Next]_vars => Suspended'
  BY SuspensionSteps
<1> QED
  BY <1>1, <1>2, RegistryAlways, PTL DEF Spec

----
(***************************************************************************)
(* What holds of one round of disputes.                                     *)
(***************************************************************************)
VotesOn(ref, round) == {v \in disputeVote : v.ref = ref /\ v.round = round}

Entry(ref, round) == [ref |-> ref, round |-> round]

\* The milestone's disputes have got to this round.
Begun(ref, round) == HasDispute(ref) /\ round <= disputeRound[ref]

\* Jurors who vote once each, and not about what they attested.
Ballot(ref, round) ==
  /\ disputeVoteCount[ref][round] = Cardinality(VotesOn(ref, round))
  /\ \A u, v \in VotesOn(ref, round) : u.wallet = v.wallet => u = v
  /\ \A v \in VotesOn(ref, round) :
       MilestoneAt(ref) # NONE /\ v.wallet \notin ToSetOf(FlagWallets(ref))

\* What is listed as open is, and none of its jurors was dismissed.
Session(ref, round) ==
  /\ Contains(openDisputeIndex, Entry(ref, round)) <=> Counted(ref, round)
  /\ Counted(ref, round) => \A v \in VotesOn(ref, round) : MayJudge(v.wallet)

Tallied(ref, round) ==
  /\ dispute[ref][round].votes_for = Cardinality(VotesSo(ref, round, TRUE))
  /\ dispute[ref][round].votes_against = Cardinality(VotesSo(ref, round, FALSE))

ByMajority(d) ==
  d.jury_required /\ d.resolved /\ d.upheld =>
    d.votes_for > d.votes_against /\ TotalVotes(d) >= d.quorum

Verdicts(ref, round) ==
  /\ dispute[ref][round] = NONE => VotesOn(ref, round) = {}
  /\ dispute[ref][round] # NONE => Begun(ref, round)
  /\ dispute[ref][round] # NONE /\ ~Inherited(ref, round) =>
       Tallied(ref, round) /\ ByMajority(dispute[ref][round])

RoundInv(ref, round) == Ballot(ref, round) /\ Session(ref, round) /\ Verdicts(ref, round)

JuryInv ==
  \A ref \in MilestoneRef, round \in DisputeRounds :
    NotErased(ref[1]) => RoundInv(ref, round)

\* The votes of a round are those for and those against.
LEMMA SameVotes ==
  ASSUME NEW ref, NEW round, VotesOn(ref, round)' = VotesOn(ref, round)
  PROVE  \A so : VotesSo(ref, round, so)' = VotesSo(ref, round, so)
<1> SUFFICES ASSUME NEW so PROVE VotesSo(ref, round, so)' = VotesSo(ref, round, so)
  OBVIOUS
<1>1. VotesSo(ref, round, so) = {v \in VotesOn(ref, round) : v.for_upheld = so}
  BY DEF VotesSo, VotesOn
<1>2. VotesSo(ref, round, so)' = {v \in VotesOn(ref, round)' : v.for_upheld = so}
  BY DEF VotesSo, VotesOn
<1> QED
  BY <1>1, <1>2

\* Of a milestone that stays, so do the wallets that flags of it are kept under.
LEMMA SameFlagWallets ==
  ASSUME NEW ref, StaysAt(ref), MilestoneAt(ref) # NONE
  PROVE  FlagWallets(ref)' = FlagWallets(ref)
BY Zenon DEF StaysAt, FlagWallets

\* A round that nothing touches keeps what holds of it.
LEMMA RoundKept ==
  ASSUME NEW ref \in MilestoneRef, NEW round \in DisputeRounds, RoundInv(ref, round),
         StaysAt(ref),
         dispute'[ref][round] = dispute[ref][round],
         disputeVoteCount'[ref][round] = disputeVoteCount[ref][round],
         VotesOn(ref, round)' = VotesOn(ref, round),
         Contains(openDisputeIndex', Entry(ref, round))
           <=> Contains(openDisputeIndex, Entry(ref, round)),
         Begun(ref, round) => Begun(ref, round)',
         Counted(ref, round) =>
           \A v \in VotesOn(ref, round) : MayJudge(v.wallet) => MayJudge(v.wallet)'
  PROVE  RoundInv(ref, round)'
<1>1. Ballot(ref, round)'
  <2>1. ASSUME NEW v \in VotesOn(ref, round)
        PROVE  MilestoneAt(ref)' # NONE /\ v.wallet \notin ToSetOf(FlagWallets(ref)')
    <3>1. MilestoneAt(ref) # NONE /\ v.wallet \notin ToSetOf(FlagWallets(ref))
      BY DEF RoundInv, Ballot
    <3> QED
      BY <3>1, SameFlagWallets DEF StaysAt
  <2> QED
    BY <2>1 DEF RoundInv, Ballot, ToSetOf
<1>2. Counted(ref, round)' <=> Counted(ref, round)
  BY DEF Counted
<1>3. Session(ref, round)'
  <2>1. Entry(ref, round)' = Entry(ref, round)
    BY DEF Entry
  <2> QED
    BY <1>2, <2>1 DEF RoundInv, Session, Contains
<1>4. Tallied(ref, round) => Tallied(ref, round)'
  BY SameVotes DEF Tallied
<1>5. Verdicts(ref, round)'
  <2>1. Inherited(ref, round)' <=> Inherited(ref, round)
    BY DEF Inherited, TotalVotes
  <2>2. ByMajority(dispute[ref][round]) => ByMajority(dispute[ref][round])'
    BY DEF ByMajority, TotalVotes
  <2> QED
    BY <1>4, <2>1, <2>2 DEF RoundInv, Verdicts
<1> QED
  BY <1>1, <1>3, <1>5 DEF RoundInv

\* Steps that are not about disputes.
LEMMA UnfiledRound ==
  ASSUME NEW ref \in MilestoneRef, NEW round \in DisputeRounds, RoundInv(ref, round),
         StaysAt(ref), UNCHANGED <<rounds, openness, ballots>>,
         \A w : MayJudge(w) => MayJudge(w)'
  PROVE  RoundInv(ref, round)'
<1>1. UNCHANGED <<dispute, disputeRound, openDisputeIndex, disputeVote, disputeVoteCount>>
  BY DEF rounds, openness, ballots
<1>2. VotesOn(ref, round)' = VotesOn(ref, round)
  BY <1>1 DEF VotesOn
<1>3. Begun(ref, round) => Begun(ref, round)'
  BY <1>1 DEF Begun, HasDispute
<1> QED
  BY <1>1, <1>2, <1>3, RoundKept

\* An erasure of another player.
LEMMA ErasedRound ==
  ASSUME DisputeType, RateType, PurgeStep, NEW ref \in MilestoneRef, NEW round \in DisputeRounds,
         RoundInv(ref, round), StaysAt(ref), NotErased(ref[1])'
  PROVE  RoundInv(ref, round)'
<1>1. PICK p \in Players : PurgePlayerData(p)
  BY DEF PurgeStep
<1>2. PICK gone \in SUBSET MilestoneRef :
           /\ \A r \in gone : r[1] = p
           /\ dispute' = [r \in MilestoneRef |-> [n \in DisputeRounds |->
                IF r \in gone /\ n \in ErasedRounds(r) THEN NONE
                ELSE dispute[r][n]]]
           /\ disputeRound' = [r \in MilestoneRef |->
                IF r \in gone THEN NONE ELSE disputeRound[r]]
  BY <1>1, PurgeEffect
<1>3. ref \notin gone
  BY <1>1, <1>2, ErasureBegins
<1>4. dispute'[ref][round] = dispute[ref][round] /\ disputeRound'[ref] = disputeRound[ref]
  BY <1>2, <1>3
<1>5. UNCHANGED <<validatorVars, openDisputeIndex, ballots>>
  BY <1>1, Zenon DEF PurgePlayerData
<1>6. UNCHANGED <<disputeVote, disputeVoteCount, transferred, revokedForCause>>
  BY <1>5 DEF ballots, validatorVars, revocations
<1>7. VotesOn(ref, round)' = VotesOn(ref, round)
  BY <1>6 DEF VotesOn
<1>8. /\ Begun(ref, round) => Begun(ref, round)'
      /\ \A w : MayJudge(w) => MayJudge(w)'
  BY <1>4, <1>6 DEF Begun, HasDispute, MayJudge
<1> QED
  BY <1>4, <1>5, <1>6, <1>7, <1>8, RoundKept

----
\* dispute_milestone opens a round nobody has voted on.
LEMMA FiledRound ==
  ASSUME TypeOKRegistry, TypeOKMilestones, DisputeType, JuryInv, DisputeStep,
         NEW ref \in MilestoneRef, NEW round \in DisputeRounds,
         RoundInv(ref, round), StaysAt(ref), \A w : MayJudge(w) => MayJudge(w)'
  PROVE  RoundInv(ref, round)'
<1>1. PICK p \in Players, i \in Indexes, impact \in Nat : DisputeMilestone(p, i, impact)
  BY DisputeAssumption DEF DisputeStep
<1>2. PICK r \in MilestoneRef : r = <<p, i>>
  BY DEF MilestoneRef
<1>3. PICK n : n = NextRound(r)
  OBVIOUS
<1>4. PICK d : d = Filed(r, impact)
  OBVIOUS
<1>5. /\ MilestoneAt(r) # NONE /\ MayReopen(r)
      /\ Registered(MilestoneAt(r).validator)
      /\ dispute' = [dispute EXCEPT ![r][n] = d]
      /\ disputeRound' = [disputeRound EXCEPT ![r] = n]
      /\ openDisputeIndex' = Append(openDisputeIndex, Entry(r, n))
      /\ UNCHANGED <<disputeVote, disputeVoteCount>>
  BY <1>1, <1>2, <1>3, <1>4, Zenon DEF DisputeMilestone, ballots, Entry
<1>6. n \in DisputeRounds /\ n \in Nat /\ d \in MilestoneDispute
  BY <1>3, <1>4, <1>5, NextRoundType, FiledType, DisputeBounds DEF DisputeType
<1>7. d.votes_for = 0 /\ d.votes_against = 0 /\ ~d.resolved /\ ~d.upheld /\ d # NONE
  BY <1>4, <1>5, <1>6, FiledType, DisputeBounds DEF DisputeType
<1>8. /\ dispute \in [MilestoneRef -> [DisputeRounds -> MilestoneDispute \cup {NONE}]]
      /\ disputeRound \in [MilestoneRef -> DisputeRounds \cup {NONE}]
      /\ openDisputeIndex \in Seq(DisputeEntry)
  BY DEF DisputeType, TypeOKDisputes
<1>9. HasDispute(r) => disputeRound[r] \in Nat /\ n = disputeRound[r] + 1
  BY <1>3, <1>8, DisputeBounds DEF HasDispute, NextRound
<1>10. Entry(r, n) \in DisputeEntry
  BY <1>6 DEF Entry, DisputeEntry
<1>11. \A x : Contains(openDisputeIndex', x) <=> Contains(openDisputeIndex, x) \/ x = Entry(r, n)
  BY <1>5, <1>8, <1>10, AppendEntries
<1>12. VotesOn(ref, round)' = VotesOn(ref, round)
  BY <1>5 DEF VotesOn
<1>13. round \in Nat
  BY DisputeBounds
<1>14. CASE ref = r /\ round = n
  <2>1. dispute[ref][round] = NONE
    BY <1>6, <1>9, <1>14 DEF RoundInv, Verdicts, Begun
  <2>2. VotesOn(ref, round) = {}
    BY <2>1 DEF RoundInv, Verdicts
  <2>3. \A so : VotesSo(ref, round, so)' = {}
    BY <1>12, <2>2 DEF VotesSo, VotesOn
  <2>4. dispute'[ref][round] = d
    BY <1>5, <1>6, <1>8, <1>14
  <2>5. Ballot(ref, round)'
    BY <1>5, <1>12, <2>2 DEF RoundInv, Ballot
  <2>6. Session(ref, round)'
    <3>1. Entry(ref, round)' = Entry(r, n)
      BY <1>14 DEF Entry
    <3> QED
      BY <1>7, <1>11, <1>12, <2>2, <2>4, <3>1 DEF Session, Counted, Contains
  <2>7. Begun(ref, round)'
    BY <1>5, <1>6, <1>8, <1>14, DisputeBounds DEF Begun, HasDispute
  <2>8. Tallied(ref, round)'
    BY <1>7, <2>3, <2>4, FS_EmptySet DEF Tallied
  <2>9. ByMajority(dispute[ref][round])'
    BY <1>7, <2>4 DEF ByMajority
  <2>10. Verdicts(ref, round)'
    BY <1>7, <2>4, <2>7, <2>8, <2>9 DEF Verdicts
  <2> QED
    BY <2>5, <2>6, <2>10 DEF RoundInv
<1>15. CASE ~(ref = r /\ round = n)
  <2>1. dispute'[ref][round] = dispute[ref][round]
    BY <1>5, <1>6, <1>8, <1>15
  <2>2. Entry(ref, round) # Entry(r, n)
    BY <1>15 DEF Entry
  <2>3. Begun(ref, round) => Begun(ref, round)'
    <3>1. CASE ref = r
      BY <1>5, <1>6, <1>8, <1>9, <1>13, <3>1, DisputeBounds DEF Begun, HasDispute
    <3>2. CASE ref # r
      BY <1>5, <1>8, <3>2 DEF Begun, HasDispute
    <3> QED
      BY <3>1, <3>2
  <2>4. Contains(openDisputeIndex', Entry(ref, round))
          <=> Contains(openDisputeIndex, Entry(ref, round))
    BY <1>11, <2>2
  <2> QED
    BY <1>5, <1>12, <2>1, <2>3, <2>4, RoundKept
<1> QED
  BY <1>14, <1>15

\* resolve_dispute and tally_dispute close a round by its tally.
LEMMA ClosedRound ==
  ASSUME TypeOKRegistry, DisputeType, ResolveStep \/ TallyStep,
         NEW ref \in MilestoneRef, NEW round \in DisputeRounds,
         RoundInv(ref, round), StaysAt(ref), \A w : MayJudge(w) => MayJudge(w)'
  PROVE  RoundInv(ref, round)'
<1>1. PICK r \in MilestoneRef, upheld \in BOOLEAN :
        /\ Disputed(r) /\ ~GetDispute(r).resolved
        /\ GetDispute(r).jury_required =>
             MayTally(GetDispute(r)) /\ upheld = Verdict(GetDispute(r))
        /\ CloseDispute(r, upheld)
  BY ClosingSteps DEF DisputeType
<1>2. PICK n : /\ n = disputeRound[r]
           /\ dispute' = [dispute EXCEPT ![r][n] = ClosedDispute(@, upheld)]
           /\ openDisputeIndex' =
                Filter(openDisputeIndex, DisputeEntry \ {[ref |-> r, round |-> n]})
           /\ UNCHANGED <<disputeRound, disputeVote, disputeVoteCount>>
  BY <1>1, ClosingEffect DEF DisputeType
<1>3. PICK d \in MilestoneDispute : d = GetDispute(r) /\ d = dispute[r][n]
  BY <1>1, <1>2, LatestDispute DEF DisputeType
<1>4. n \in DisputeRounds /\ ~d.resolved
  BY <1>1, <1>2, <1>3, LatestDispute DEF DisputeType
<1>5. /\ dispute \in [MilestoneRef -> [DisputeRounds -> MilestoneDispute \cup {NONE}]]
      /\ openDisputeIndex \in Seq(DisputeEntry)
  BY DEF DisputeType, TypeOKDisputes
<1>6. PICK c : c = ClosedDispute(d, upheld)
  OBVIOUS
<1>7. /\ c \in MilestoneDispute /\ c # NONE
      /\ c.votes_for = d.votes_for /\ c.votes_against = d.votes_against
      /\ c.jury_required = d.jury_required /\ c.quorum = d.quorum
      /\ c.resolved /\ c.upheld = upheld
  BY <1>6, ClosedDisputeType, RegistryBounds, DisputeBounds DEF TypeOKRegistry
<1>8. dispute' = [dispute EXCEPT ![r][n] = c]
  BY <1>2, <1>3, <1>4, <1>5, <1>6
<1>9. \A x : Contains(openDisputeIndex', x) <=>
               x \in DisputeEntry /\ x # Entry(r, n) /\ Contains(openDisputeIndex, x)
  BY <1>2, <1>5, FilterEntries DEF Entry
<1>10. VotesOn(ref, round)' = VotesOn(ref, round)
  BY <1>2 DEF VotesOn
<1>11. Begun(ref, round) => Begun(ref, round)'
  BY <1>2 DEF Begun, HasDispute
<1>12. CASE ref = r /\ round = n
  <2>1. dispute'[ref][round] = c /\ dispute[ref][round] = d
    BY <1>3, <1>4, <1>5, <1>8, <1>12
  <2>2. Ballot(ref, round)'
    <3>1. ASSUME NEW v \in VotesOn(ref, round)
          PROVE  MilestoneAt(ref)' # NONE /\ v.wallet \notin ToSetOf(FlagWallets(ref)')
      <4>1. MilestoneAt(ref) # NONE /\ v.wallet \notin ToSetOf(FlagWallets(ref))
        BY DEF RoundInv, Ballot
      <4> QED
        BY <4>1, SameFlagWallets DEF StaysAt
    <3> QED
      BY <1>2, <1>10, <3>1 DEF RoundInv, Ballot, ToSetOf
  <2>3. Session(ref, round)'
    <3>1. Entry(ref, round)' = Entry(r, n)
      BY <1>12 DEF Entry
    <3> QED
      BY <1>7, <1>9, <2>1, <3>1 DEF Session, Counted, Contains
  <2>4. d # NONE
    BY <1>3, DisputeBounds
  <2>5. ASSUME ~Inherited(ref, round) PROVE Tallied(ref, round)'
    <3>1. Tallied(ref, round)
      BY <2>1, <2>4, <2>5 DEF RoundInv, Verdicts
    <3>2. \A so : VotesSo(ref, round, so)' = VotesSo(ref, round, so)
      BY <1>10, SameVotes
    <3> QED
      BY <1>7, <2>1, <3>1, <3>2 DEF Tallied
  <2>6. ByMajority(c)
    BY <1>1, <1>3, <1>7 DEF ByMajority, Verdict, TotalVotes
  <2>7. Verdicts(ref, round)'
    <3>1. Begun(ref, round)'
      BY <1>11, <2>1, <2>4 DEF RoundInv, Verdicts
    <3>2. Inherited(ref, round)' <=> Inherited(ref, round)
      BY DEF Inherited, TotalVotes
    <3>3. ByMajority(dispute[ref][round])'
      BY <2>1, <2>6 DEF ByMajority, TotalVotes
    <3> QED
      BY <1>7, <2>1, <2>5, <3>1, <3>2, <3>3 DEF Verdicts
  <2> QED
    BY <2>2, <2>3, <2>7 DEF RoundInv
<1>13. CASE ~(ref = r /\ round = n)
  <2>1. dispute'[ref][round] = dispute[ref][round]
    BY <1>4, <1>5, <1>8, <1>13
  <2>2. Entry(ref, round) # Entry(r, n) /\ Entry(ref, round) \in DisputeEntry
    BY <1>13 DEF Entry, DisputeEntry
  <2>3. Contains(openDisputeIndex', Entry(ref, round))
          <=> Contains(openDisputeIndex, Entry(ref, round))
    BY <1>9, <2>2
  <2> QED
    BY <1>2, <1>10, <1>11, <2>1, <2>3, RoundKept
<1> QED
  BY <1>12, <1>13

----
\* cast_dispute_vote counts the vote of a juror who had none.
LEMMA VotedRound ==
  ASSUME TypeOKRegistry, DisputeType, Suspended, VoteStep,
         NEW ref \in MilestoneRef, NEW round \in DisputeRounds,
         RoundInv(ref, round), StaysAt(ref), \A x : MayJudge(x) => MayJudge(x)'
  PROVE  RoundInv(ref, round)'
<1>1. PICK w \in Wallets, r \in MilestoneRef, so \in BOOLEAN, n \in DisputeRounds,
           d \in MilestoneDispute :
           /\ n = disputeRound[r] /\ d = dispute[r][n] /\ ~d.resolved
           /\ Eligible(w, r, d) /\ ~HasVoted(w, r, n)
           /\ disputeVote' = disputeVote \cup {VoteOf(r, n, w, so)}
           /\ dispute' = [dispute EXCEPT ![r][n] = CountVote(d, so)]
           /\ disputeVoteCount' = [disputeVoteCount EXCEPT ![r][n] = @ + 1]
           /\ UNCHANGED <<validatorVars, attestationVars, juryConfig, disputeRound, openness>>
  BY VotingEffect DEF DisputeType
<1>2. PICK vote : vote = VoteOf(r, n, w, so)
  OBVIOUS
<1>3. vote.ref = r /\ vote.round = n /\ vote.wallet = w /\ vote.for_upheld = so
  BY <1>2 DEF VoteOf
<1>4. PICK c \in MilestoneDispute : c = CountVote(d, so)
  BY CountVoteType
<1>5. /\ c.votes_for = d.votes_for + (IF so THEN 1 ELSE 0)
      /\ c.votes_against = d.votes_against + (IF so THEN 0 ELSE 1)
      /\ ~c.resolved /\ c # NONE /\ d # NONE
  BY <1>1, <1>4, CountVoteType, DisputeBounds
<1>6. /\ dispute \in [MilestoneRef -> [DisputeRounds -> MilestoneDispute \cup {NONE}]]
      /\ disputeVoteCount \in [MilestoneRef -> [DisputeRounds -> Nat]]
      /\ IsFiniteSet(disputeVote)
  BY DEF DisputeType, TypeOKDisputes
<1>7. openDisputeIndex' = openDisputeIndex /\ disputeRound' = disputeRound
  BY <1>1 DEF openness
<1>8. Begun(ref, round) => Begun(ref, round)'
  BY <1>7 DEF Begun, HasDispute
<1>9. Contains(openDisputeIndex', Entry(ref, round))
        <=> Contains(openDisputeIndex, Entry(ref, round))
  BY <1>7
<1>10. ASSUME NEW v PROVE v \in VotesOn(ref, round)' <=>
                            v \in VotesOn(ref, round) \/ (v = vote /\ ref = r /\ round = n)
  BY <1>1, <1>2, <1>3 DEF VotesOn
<1>11. CASE ref = r /\ round = n
  <2>1. VotesOn(ref, round)' = VotesOn(ref, round) \cup {vote}
    BY <1>10, <1>11
  <2>2. \A v \in VotesOn(ref, round) : v.wallet # w
    BY <1>1, <1>11 DEF HasVoted, VotesOn
  <2>3. vote \notin VotesOn(ref, round)
    BY <1>3, <2>2
  <2>4. VotesOn(ref, round) \subseteq disputeVote /\ \A b : VotesSo(ref, round, b) \subseteq disputeVote
    BY DEF VotesOn, VotesSo
  <2>5. Cardinality(VotesOn(ref, round)') = Cardinality(VotesOn(ref, round)) + 1
    BY <1>6, <2>1, <2>3, <2>4, FS_Subset, FS_AddElement
  <2>6. MilestoneAt(ref) # NONE /\ w \notin ToSetOf(FlagWallets(ref)) /\ IsActiveValidator(w)
    BY <1>1, <1>11 DEF Eligible
  <2>7. MilestoneAt(ref)' # NONE /\ FlagWallets(ref)' = FlagWallets(ref)
    BY <2>6, SameFlagWallets DEF StaysAt
  <2>8. Ballot(ref, round)'
    <3>1. disputeVoteCount'[ref][round] = Cardinality(VotesOn(ref, round)')
      BY <1>1, <1>6, <1>11, <2>5 DEF RoundInv, Ballot
    <3>2. \A u, v \in VotesOn(ref, round)' : u.wallet = v.wallet => u = v
      BY <1>3, <2>1, <2>2 DEF RoundInv, Ballot
    <3>3. \A v \in VotesOn(ref, round)' : v.wallet \notin ToSetOf(FlagWallets(ref))
      BY <1>3, <2>1, <2>6 DEF RoundInv, Ballot
    <3> QED
      BY <2>7, <3>1, <3>2, <3>3 DEF Ballot, ToSetOf
  <2>9. dispute'[ref][round] = c /\ dispute[ref][round] = d
    BY <1>1, <1>4, <1>6, <1>11
  <2>10. Counted(ref, round) /\ Counted(ref, round)'
    BY <1>1, <1>5, <2>9 DEF Counted
  <2>11. Session(ref, round)'
    <3>1. MayJudge(w)
      BY <2>6 DEF Suspended, MayJudge, IsActiveValidator
    <3>2. \A v \in VotesOn(ref, round)' : MayJudge(v.wallet)'
      BY <1>3, <2>1, <2>10, <3>1 DEF RoundInv, Session
    <3>3. Entry(ref, round)' = Entry(ref, round)
      BY DEF Entry
    <3> QED
      BY <1>9, <2>10, <3>2, <3>3 DEF RoundInv, Session, Contains
  <2>12. ASSUME ~Inherited(ref, round) PROVE Tallied(ref, round)'
    <3>1. /\ d.votes_for = Cardinality(VotesSo(ref, round, TRUE))
          /\ d.votes_against = Cardinality(VotesSo(ref, round, FALSE))
      BY <1>5, <2>9, <2>12 DEF RoundInv, Verdicts, Tallied
    <3>2. ASSUME NEW b \in BOOLEAN, NEW v
          PROVE  v \in VotesSo(ref, round, b)' <=>
                   v \in VotesSo(ref, round, b) \/ (v = vote /\ b = so)
      BY <1>1, <1>2, <1>3, <1>11 DEF VotesSo
    <3>3. VotesSo(ref, round, so)' = VotesSo(ref, round, so) \cup {vote}
      BY <3>2
    <3>4. vote \notin VotesSo(ref, round, so)
      BY <2>3 DEF VotesSo, VotesOn
    <3>5. Cardinality(VotesSo(ref, round, so)') = Cardinality(VotesSo(ref, round, so)) + 1
      BY <1>6, <2>4, <3>3, <3>4, FS_Subset, FS_AddElement
    <3>6. CASE so = TRUE
      <4>1. VotesSo(ref, round, FALSE)' = VotesSo(ref, round, FALSE)
        BY <3>2, <3>6
      <4>2. d.votes_against \in Nat
        BY DisputeFields
      <4>3. (IF so THEN 1 ELSE 0) = 1 /\ (IF so THEN 0 ELSE 1) = 0
        BY <3>6, Zenon
      <4>4. c.votes_for = d.votes_for + 1 /\ c.votes_against = d.votes_against
        BY <1>5, <4>2, <4>3
      <4>5. Cardinality(VotesSo(ref, round, TRUE)') = Cardinality(VotesSo(ref, round, TRUE)) + 1
        BY <3>5, <3>6
      <4> QED
        BY <2>9, <3>1, <4>1, <4>4, <4>5 DEF Tallied
    <3>7. CASE so = FALSE
      <4>1. VotesSo(ref, round, TRUE)' = VotesSo(ref, round, TRUE)
        BY <3>2, <3>7
      <4>2. d.votes_for \in Nat
        BY DisputeFields
      <4>3. (IF so THEN 1 ELSE 0) = 0 /\ (IF so THEN 0 ELSE 1) = 1
        BY <3>7, Zenon
      <4>4. c.votes_for = d.votes_for /\ c.votes_against = d.votes_against + 1
        BY <1>5, <4>2, <4>3
      <4>5. Cardinality(VotesSo(ref, round, FALSE)') = Cardinality(VotesSo(ref, round, FALSE)) + 1
        BY <3>5, <3>7
      <4> QED
        BY <2>9, <3>1, <4>1, <4>4, <4>5 DEF Tallied
    <3> QED
      BY <3>6, <3>7
  <2>13. Verdicts(ref, round)'
    <3>1. Begun(ref, round)'
      BY <1>5, <1>8, <2>9 DEF RoundInv, Verdicts
    <3>2. Inherited(ref, round)' <=> Inherited(ref, round)
      BY DEF Inherited, TotalVotes
    <3>3. ByMajority(dispute[ref][round])'
      BY <1>5, <2>9 DEF ByMajority
    <3> QED
      BY <1>5, <2>9, <2>12, <3>1, <3>2, <3>3 DEF Verdicts
  <2> QED
    BY <2>8, <2>11, <2>13 DEF RoundInv
<1>12. CASE ~(ref = r /\ round = n)
  <2>1. VotesOn(ref, round)' = VotesOn(ref, round)
    BY <1>10, <1>12
  <2>2. /\ dispute'[ref][round] = dispute[ref][round]
        /\ disputeVoteCount'[ref][round] = disputeVoteCount[ref][round]
    BY <1>1, <1>6, <1>12
  <2> QED
    BY <1>8, <1>9, <2>1, <2>2, RoundKept
<1> QED
  BY <1>11, <1>12

----
\* admin_seed_dispute writes a round nobody has voted on.
LEMMA ReplayedRound ==
  ASSUME DisputeType, SeedDisputeStep, NEW ref \in MilestoneRef, NEW round \in DisputeRounds,
         RoundInv(ref, round), StaysAt(ref), \A x : MayJudge(x) => MayJudge(x)'
  PROVE  RoundInv(ref, round)'
<1>1. PICK r \in MilestoneRef, n \in DisputeRounds, d \in MilestoneDispute, opens \in BOOLEAN :
        ReplayedDispute(r, n, d, opens)
  BY SeedDisputeEffect
<1>2. /\ [ref |-> r, round |-> n, d |-> d] \in SeedDisputes
      /\ opens = (~d.resolved /\ Entry(r, n) \notin ToSetOf(openDisputeIndex))
      /\ dispute[r][n] = NONE
      /\ dispute' = [dispute EXCEPT ![r][n] = d]
      /\ disputeRound' =
           IF HasDispute(r) /\ n < disputeRound[r] THEN disputeRound
           ELSE [disputeRound EXCEPT ![r] = n]
      /\ openDisputeIndex' =
           IF opens THEN Append(openDisputeIndex, Entry(r, n)) ELSE openDisputeIndex
      /\ UNCHANGED <<disputeVote, disputeVoteCount>>
  BY <1>1, Zenon DEF ReplayedDispute, Entry
<1>3. /\ dispute \in [MilestoneRef -> [DisputeRounds -> MilestoneDispute \cup {NONE}]]
      /\ disputeRound \in [MilestoneRef -> DisputeRounds \cup {NONE}]
      /\ openDisputeIndex \in Seq(DisputeEntry)
  BY DEF DisputeType, TypeOKDisputes
<1>4. VotesOn(ref, round)' = VotesOn(ref, round)
  BY <1>2 DEF VotesOn
<1>5. Entry(r, n) \in DisputeEntry
  BY DEF Entry, DisputeEntry
<1>6. \A x : Contains(openDisputeIndex', x) <=>
               Contains(openDisputeIndex, x) \/ (opens /\ x = Entry(r, n))
  BY <1>2, <1>3, <1>5, AppendEntries
<1>7. Begun(ref, round) => Begun(ref, round)'
  <2>1. round \in Nat /\ n \in Nat /\ n # NONE
    BY DisputeBounds
  <2>2. HasDispute(ref) => disputeRound[ref] \in Nat
    BY <1>3, DisputeBounds DEF HasDispute
  <2> QED
    BY <1>2, <1>3, <2>1, <2>2 DEF Begun, HasDispute
<1>8. CASE ref = r /\ round = n
  <2>1. VotesOn(ref, round) = {}
    BY <1>2, <1>8 DEF RoundInv, Verdicts
  <2>2. \A so : VotesSo(ref, round, so)' = {}
    BY <1>4, <2>1 DEF VotesSo, VotesOn
  <2>3. dispute'[ref][round] = d /\ d # NONE
    BY <1>2, <1>3, <1>8, DisputeBounds
  <2>4. Ballot(ref, round)'
    BY <1>2, <1>4, <2>1 DEF RoundInv, Ballot
  <2>5. Session(ref, round)'
    <3>1. Entry(ref, round)' = Entry(r, n) /\ Entry(ref, round) = Entry(r, n)
      BY <1>8 DEF Entry
    <3>2. ~Contains(openDisputeIndex, Entry(r, n))
      BY <1>2, <1>8, <3>1 DEF RoundInv, Session, Counted
    <3>3. opens <=> ~d.resolved
      BY <1>2, <1>3, <3>2, SetOfList
    <3> QED
      BY <1>4, <1>6, <2>1, <2>3, <3>1, <3>2, <3>3 DEF Session, Counted, Contains
  <2>6. Begun(ref, round)'
    <3>1. n \in Nat /\ n # NONE
      BY DisputeBounds
    <3>2. HasDispute(r) => disputeRound[r] \in Nat
      BY <1>3, DisputeBounds DEF HasDispute
    <3> QED
      BY <1>2, <1>3, <1>8, <3>1, <3>2 DEF Begun, HasDispute
  <2>7. ASSUME ~Inherited(ref, round) PROVE Tallied(ref, round)' /\ ByMajority(d)
    <3>1. PICK s \in SeedDisputes : s = [ref |-> r, round |-> n, d |-> d]
      BY <1>2
    <3>2. s.ref = ref /\ s.round = round /\ s.d = d
      BY <1>8, <3>1
    <3>3. ~(TotalVotes(d) > 0) /\ ~(d.jury_required /\ d.resolved /\ d.upheld)
      BY <2>7, <3>2 DEF Inherited
    <3>4. d.votes_for = 0 /\ d.votes_against = 0
      <4>1. d.votes_for \in Nat /\ d.votes_against \in Nat
        BY DisputeFields
      <4> QED
        BY <3>3, <4>1 DEF TotalVotes
    <3> QED
      BY <2>2, <2>3, <3>3, <3>4, FS_EmptySet DEF Tallied, ByMajority
  <2>8. Verdicts(ref, round)'
    <3>1. Inherited(ref, round)' <=> Inherited(ref, round)
      BY DEF Inherited, TotalVotes
    <3>2. ByMajority(d) => ByMajority(dispute[ref][round])'
      BY <2>3 DEF ByMajority, TotalVotes
    <3> QED
      BY <2>3, <2>6, <2>7, <3>1, <3>2 DEF Verdicts
  <2> QED
    BY <2>4, <2>5, <2>8 DEF RoundInv
<1>9. CASE ~(ref = r /\ round = n)
  <2>1. dispute'[ref][round] = dispute[ref][round]
    BY <1>2, <1>3, <1>9
  <2>2. Entry(ref, round) # Entry(r, n)
    BY <1>9 DEF Entry
  <2>3. Contains(openDisputeIndex', Entry(ref, round))
          <=> Contains(openDisputeIndex, Entry(ref, round))
    BY <1>6, <2>2
  <2> QED
    BY <1>2, <1>4, <1>7, <2>1, <2>3, RoundKept
<1> QED
  BY <1>8, <1>9

----
\* Votes taken out of a finite set are counted down.
LEMMA CountedDown ==
  ASSUME NEW S, IsFiniteSet(S), NEW R \in SUBSET S
  PROVE  Cardinality(S \ R) = Less(Cardinality(S), Cardinality(R))
<1>1. /\ Cardinality(S) \in Nat /\ Cardinality(R) \in Nat
      /\ Cardinality(R) <= Cardinality(S)
  BY FS_Subset, FS_CardinalityType
<1>2. S \cap R = R
  OBVIOUS
<1>3. Cardinality(S \ R) = Cardinality(S) - Cardinality(R)
  BY <1>2, FS_Difference
<1> QED
  BY <1>1, <1>3 DEF Less

\* remove_dispute_votes_for_validator takes the dismissed out of an open round, and
\* leaves a closed one.
LEMMA DismissedRound ==
  ASSUME DisputeType, NEW set \in SUBSET Wallets, RemoveDisputeVotes(set),
         UNCHANGED <<transferred, disputeRound, openDisputeIndex>>,
         revokedForCause' = revokedForCause \cup set,
         NEW ref \in MilestoneRef, NEW round \in DisputeRounds,
         RoundInv(ref, round), StaysAt(ref)
  PROVE  RoundInv(ref, round)'
<1> DEFINE gone == RemovedFrom(set, ref, round)
           so(b) == {v \in gone : v.for_upheld = b}
<1>1. /\ disputeVote' = disputeVote \ OpenVotesOf(set)
      /\ dispute'[ref][round] = IF Counted(ref, round) THEN TallyWithout(dispute[ref][round], gone)
                                ELSE dispute[ref][round]
      /\ disputeVoteCount'[ref][round] =
           IF Counted(ref, round) THEN Less(disputeVoteCount[ref][round], Cardinality(gone))
           ELSE disputeVoteCount[ref][round]
  BY RemovalEffect
<1>2. /\ dispute[ref][round] \in MilestoneDispute \cup {NONE}
      /\ openDisputeIndex \in Seq(DisputeEntry)
      /\ IsFiniteSet(disputeVote)
  BY DEF DisputeType, TypeOKDisputes
<1>3. Entry(ref, round) \in ToSetOf(openDisputeIndex) <=> Counted(ref, round)
  BY <1>2, SetOfList DEF RoundInv, Session
<1>4. \A v : v \in gone <=> v \in VotesOn(ref, round) /\ v.wallet \in set /\ Counted(ref, round)
  BY <1>3 DEF RemovedFrom, OpenVotesOf, VotesOn, Entry
<1>5. VotesOn(ref, round)' = VotesOn(ref, round) \ gone
  <2>1. ASSUME NEW v PROVE v \in VotesOn(ref, round)' <=> v \in VotesOn(ref, round) /\ v \notin gone
    BY <1>1 DEF VotesOn, RemovedFrom
  <2> HIDE DEF gone
  <2> QED
    BY <2>1
<1>6. Begun(ref, round) => Begun(ref, round)'
  BY DEF Begun, HasDispute
<1>7. CASE ~Counted(ref, round)
  <2>1. gone = {}
    BY <1>4, <1>7
  <2>2. VotesOn(ref, round)' = VotesOn(ref, round)
    BY <1>5, <2>1
  <2> QED
    BY <1>1, <1>6, <1>7, <2>2, RoundKept
<1>8. CASE Counted(ref, round)
  <2>1. PICK d \in MilestoneDispute : d = dispute[ref][round]
    BY <1>2, <1>8 DEF Counted
  <2>2. PICK t : t = TallyWithout(d, gone)
    OBVIOUS
  <2>3. dispute'[ref][round] = t
    BY <1>1, <1>8, <2>1, <2>2
  <2>4. gone \subseteq VotesOn(ref, round) /\ VotesOn(ref, round) \subseteq disputeVote
    BY <1>4 DEF VotesOn
  <2>5. IsFiniteSet(VotesOn(ref, round)) /\ IsFiniteSet(gone)
    BY <1>2, <2>4, FS_Subset
  <2>6. /\ t \in MilestoneDispute /\ t # NONE
        /\ t.votes_for = Less(d.votes_for, Cardinality(so(TRUE)))
        /\ t.votes_against = Less(d.votes_against, Cardinality(so(FALSE)))
        /\ ~t.resolved
    <3>1. ~d.resolved
      BY <1>8, <2>1 DEF Counted
    <3>2. PICK removed : removed = gone
      OBVIOUS
    <3>3. IsFiniteSet(removed) /\ t = TallyWithout(d, removed)
      BY <2>2, <2>5, <3>2
    <3>4. /\ t \in MilestoneDispute
          /\ t.votes_for = Less(d.votes_for, Cardinality({v \in removed : v.for_upheld = TRUE}))
          /\ t.votes_against = Less(d.votes_against, Cardinality({v \in removed : v.for_upheld = FALSE}))
          /\ t.resolved = d.resolved
      <4>1. t \in MilestoneDispute /\ t.resolved = d.resolved
        BY <3>3, TallyWithoutIs
      <4>2. t.votes_for = Less(d.votes_for, Cardinality({v \in removed : v.for_upheld = TRUE}))
        BY <3>3, TallyWithoutIs
      <4>3. t.votes_against
              = Less(d.votes_against, Cardinality({v \in removed : v.for_upheld = FALSE}))
        BY <3>3, TallyWithoutIs
      <4> QED
        BY <4>1, <4>2, <4>3
    <3>5. t # NONE
      BY <3>4, DisputeBounds
    <3> HIDE DEF gone
    <3>6. t.votes_for = Less(d.votes_for, Cardinality(so(TRUE)))
      BY <3>2, <3>4
    <3>7. t.votes_against = Less(d.votes_against, Cardinality(so(FALSE)))
      BY <3>2, <3>4
    <3> QED
      BY <3>1, <3>4, <3>5, <3>6, <3>7
  <2>7. Ballot(ref, round)'
    <3>1. disputeVoteCount'[ref][round] = Cardinality(VotesOn(ref, round)')
      <4> HIDE DEF gone
      <4> QED
        BY <1>1, <1>5, <1>8, <2>4, <2>5, CountedDown DEF RoundInv, Ballot
    <3>2. \A u, v \in VotesOn(ref, round)' : u.wallet = v.wallet => u = v
      BY <1>5 DEF RoundInv, Ballot
    <3>3. ASSUME NEW v \in VotesOn(ref, round)'
          PROVE  MilestoneAt(ref)' # NONE /\ v.wallet \notin ToSetOf(FlagWallets(ref)')
      <4>1. MilestoneAt(ref) # NONE /\ v.wallet \notin ToSetOf(FlagWallets(ref))
        BY <1>5 DEF RoundInv, Ballot
      <4> QED
        BY <4>1, SameFlagWallets DEF StaysAt
    <3> QED
      BY <3>1, <3>2, <3>3 DEF Ballot, ToSetOf
  <2>8. Counted(ref, round)'
    BY <2>3, <2>6 DEF Counted
  <2>9. Session(ref, round)'
    <3>1. \A v \in VotesOn(ref, round)' : v \in VotesOn(ref, round) /\ v.wallet \notin set
      BY <1>4, <1>5, <1>8
    <3>2. \A v \in VotesOn(ref, round)' : MayJudge(v.wallet)'
      BY <1>8, <3>1 DEF RoundInv, Session, MayJudge
    <3>3. Entry(ref, round)' = Entry(ref, round)
      BY DEF Entry
    <3> QED
      BY <1>8, <2>8, <3>2, <3>3 DEF RoundInv, Session, Contains
  <2>10. ASSUME ~Inherited(ref, round) PROVE Tallied(ref, round)'
    <3>1. /\ d.votes_for = Cardinality(VotesSo(ref, round, TRUE))
          /\ d.votes_against = Cardinality(VotesSo(ref, round, FALSE))
      BY <1>8, <2>1, <2>10 DEF RoundInv, Verdicts, Tallied, Counted
    <3>2. ASSUME NEW b \in BOOLEAN
          PROVE  Cardinality(VotesSo(ref, round, b)') =
                   Less(Cardinality(VotesSo(ref, round, b)), Cardinality(so(b)))
      <4>1. ASSUME NEW v
            PROVE  /\ v \in VotesSo(ref, round, b)' <=>
                        v \in VotesOn(ref, round)' /\ v.for_upheld = b
                   /\ v \in VotesSo(ref, round, b) <=>
                        v \in VotesOn(ref, round) /\ v.for_upheld = b
        BY DEF VotesSo, VotesOn
      <4> HIDE DEF gone
      <4>2. VotesSo(ref, round, b)' = VotesSo(ref, round, b) \ so(b)
        BY <1>5, <4>1
      <4>3. so(b) \subseteq VotesSo(ref, round, b)
        BY <2>4, <4>1
      <4>4. IsFiniteSet(VotesSo(ref, round, b))
        <5>1. VotesSo(ref, round, b) \subseteq VotesOn(ref, round)
          BY <4>1
        <5> QED
          BY <2>5, <5>1, FS_Subset
      <4> HIDE DEF so
      <4> QED
        BY <4>2, <4>3, <4>4, CountedDown
    <3> HIDE DEF so
    <3> QED
      BY <2>3, <2>6, <3>1, <3>2 DEF Tallied
  <2>11. Verdicts(ref, round)'
    <3>1. Begun(ref, round)'
      BY <1>6, <1>8 DEF RoundInv, Verdicts, Counted
    <3>2. Inherited(ref, round)' <=> Inherited(ref, round)
      BY DEF Inherited, TotalVotes
    <3>3. ByMajority(dispute[ref][round])'
      BY <2>3, <2>6 DEF ByMajority
    <3> QED
      BY <2>3, <2>6, <2>10, <3>1, <3>2, <3>3 DEF Verdicts
  <2> QED
    BY <2>7, <2>9, <2>11 DEF RoundInv
<1> QED
  BY <1>7, <1>8

\* A revocation of any kind.
LEMMA RevokedRound ==
  ASSUME DisputeType, RevokeStep \/ BatchRevokeStep,
         NEW ref \in MilestoneRef, NEW round \in DisputeRounds,
         RoundInv(ref, round), StaysAt(ref)
  PROVE  RoundInv(ref, round)'
<1>1. PICK ws \in Seq(Wallets), severity \in RevocationSeverity, deferred \in BOOLEAN :
        Revoke(ws, severity, deferred)
  BY RevocationSteps
<1>2. PICK set : set = ToSetOf(ws)
  OBVIOUS
<1>3. /\ revokedForCause' = revokedForCause \cup (IF severity = ForCause THEN set ELSE {})
      /\ transferred' = transferred
  BY <1>1, <1>2 DEF Revoke, RevokeRecords
<1>4. DismissedVotesGo(set, severity) /\ UNCHANGED <<disputeRound, openness>>
  BY <1>1, <1>2 DEF Revoke
<1>5. set \subseteq Wallets
  BY <1>2, SetOfList
<1>6. CASE severity = ForCause
  BY <1>3, <1>4, <1>5, <1>6, DismissedRound DEF DismissedVotesGo, openness
<1>7. CASE severity # ForCause
  <2>1. UNCHANGED <<rounds, openness, ballots>>
    BY <1>4, <1>7 DEF DismissedVotesGo, rounds
  <2>2. \A w : MayJudge(w) => MayJudge(w)'
    BY <1>3, <1>7 DEF MayJudge
  <2> QED
    BY <2>1, <2>2, UnfiledRound
<1> QED
  BY <1>6, <1>7

----
\* The invariant of juries holds throughout.
LEMMA JuryStays ==
  RegistryInv /\ ClaimInv /\ TypeOKMilestones /\ DisputeType /\ RateInv /\ Numbered
    /\ Suspended /\ JuryInv /\ [Next]_vars => JuryInv'
<1> SUFFICES ASSUME RegistryInv, ClaimInv, TypeOKMilestones, DisputeType, RateInv, Numbered,
                    Suspended, JuryInv, [Next]_vars,
                    NEW ref \in MilestoneRef, NEW round \in DisputeRounds, NotErased(ref[1])'
             PROVE  RoundInv(ref, round)'
  BY DEF JuryInv
<1>1. StaysAt(ref)
  BY MilestonesStand
<1>2. RoundInv(ref, round)
  BY <1>1 DEF JuryInv, StaysAt
<1>3. TypeOKRegistry /\ RateType
  BY DEF RegistryInv, RateInv
<1>4. CASE RevokeStep \/ BatchRevokeStep
  BY <1>1, <1>2, <1>4, RevokedRound
<1>5. CASE PurgeStep
  BY <1>1, <1>2, <1>3, <1>5, ErasedRound
<1>6. CASE ~(RevokeStep \/ BatchRevokeStep) /\ ~PurgeStep
  <2>1. \A w : MayJudge(w) => MayJudge(w)'
    BY <1>6, SuspensionSteps
  <2>2. CASE DisputeStep
    BY <1>1, <1>2, <1>3, <2>1, <2>2, FiledRound
  <2>3. CASE ResolveStep \/ TallyStep
    BY <1>1, <1>2, <1>3, <2>1, <2>3, ClosedRound
  <2>4. CASE VoteStep
    BY <1>1, <1>2, <1>3, <2>1, <2>4, VotedRound
  <2>5. CASE SeedDisputeStep
    BY <1>1, <1>2, <2>1, <2>5, ReplayedRound
  <2>6. CASE JuryStep \/ Unfiled
    <3>1. UNCHANGED <<rounds, openness, ballots>>
      BY <2>6 DEF JuryStep, SetJuryConfig, Unfiled, disputeVars
    <3> QED
      BY <1>1, <1>2, <2>1, <3>1, UnfiledRound
  <2> QED
    BY <1>6, <2>2, <2>3, <2>4, <2>5, <2>6, DisputeSteps
<1> QED
  BY <1>4, <1>5, <1>6

\* There are no disputes at first.
LEMMA JuryInitially == Init => JuryInv
<1> SUFFICES ASSUME Init, NEW ref \in MilestoneRef, NEW round \in DisputeRounds
             PROVE  RoundInv(ref, round)
  BY DEF JuryInv
<1>1. /\ dispute = [r \in MilestoneRef |-> [n \in DisputeRounds |-> NONE]]
      /\ openDisputeIndex = << >> /\ disputeVote = {}
      /\ disputeVoteCount = [r \in MilestoneRef |-> [n \in DisputeRounds |-> 0]]
  BY DEF Init, DisputeInit
<1>2. VotesOn(ref, round) = {}
  BY <1>1 DEF VotesOn
<1>3. dispute[ref][round] = NONE /\ disputeVoteCount[ref][round] = 0
  BY <1>1
<1>4. \A x : ~Contains(openDisputeIndex, x)
  BY <1>1 DEF Contains
<1> QED
  BY <1>2, <1>3, <1>4, FS_EmptySet DEF RoundInv, Ballot, Session, Verdicts, Counted

\* The invariant of juries holds throughout.
LEMMA JuryAlways == Spec => []JuryInv
<1>1. Spec => [](RegistryInv /\ ClaimInv /\ TypeOKMilestones /\ DisputeType /\ RateInv
                  /\ Numbered /\ Suspended)
  BY MilestonesAlways, DisputesAlways, RateAlways, NumberedAlways, SuspendedAlways, PTL
<1> QED
  BY <1>1, JuryInitially, JuryStays, PTL DEF Spec

\* Jurors who vote once each are as many as their votes.
LEMMA JurorsCounted ==
  ASSUME DisputeType, NEW ref, NEW round,
         \A u, v \in VotesOn(ref, round) : u.wallet = v.wallet => u = v
  PROVE  /\ VotesSo(ref, round, TRUE) \cup VotesSo(ref, round, FALSE) = VotesOn(ref, round)
         /\ Cardinality({v.wallet : v \in VotesOn(ref, round)}) = Cardinality(VotesOn(ref, round))
         /\ Cardinality(VotesSo(ref, round, TRUE)) + Cardinality(VotesSo(ref, round, FALSE))
              = Cardinality(VotesOn(ref, round))
<1> DEFINE S == VotesOn(ref, round)
           T == {v.wallet : v \in S}
           f == [v \in S |-> v.wallet]
           for == VotesSo(ref, round, TRUE)
           anti == VotesSo(ref, round, FALSE)
<1>1. IsFiniteSet(disputeVote) /\ disputeVote \subseteq DisputeVote
  BY DEF DisputeType, TypeOKDisputes
<1>2. S \subseteq disputeVote /\ for \subseteq disputeVote /\ anti \subseteq disputeVote
  BY DEF VotesOn, VotesSo
<1>3. IsFiniteSet(S) /\ IsFiniteSet(for) /\ IsFiniteSet(anti)
  BY <1>1, <1>2, FS_Subset
<1>4. for \cup anti = S /\ for \cap anti = {}
  <2>1. \A v \in S : v.for_upheld \in BOOLEAN
    BY <1>1, <1>2 DEF DisputeVote
  <2> QED
    BY <2>1 DEF VotesOn, VotesSo
<1>5. Cardinality(for) + Cardinality(anti) = Cardinality(S)
  <2>1. Cardinality(for) \in Nat /\ Cardinality(anti) \in Nat
    BY <1>3, FS_CardinalityType
  <2>2. Cardinality(for \cup anti) = Cardinality(for) + Cardinality(anti) - Cardinality({})
    <3>1. PICK A, B : A = for /\ B = anti /\ IsFiniteSet(A) /\ IsFiniteSet(B) /\ A \cap B = {}
      BY <1>3, <1>4
    <3>2. Cardinality(A \cup B) = Cardinality(A) + Cardinality(B) - Cardinality(A \cap B)
      BY <3>1, FS_Union
    <3> QED
      BY <3>1, <3>2, Zenon
  <2>3. Cardinality({}) = 0
    BY FS_EmptySet
  <2>4. Cardinality(S) = Cardinality(for) + Cardinality(anti) - 0
    BY <1>4, <2>2, <2>3, Zenon
  <2> HIDE DEF for, anti, S
  <2> QED
    BY <2>1, <2>4
<1>6. f \in Bijection(S, T)
  <2> HIDE DEF S
  <2>1. \A a, b \in S : f[a] = f[b] => a = b
    BY DEF S
  <2> QED
    BY <2>1 DEF Bijection, Injection, Surjection, IsInjective
<1> HIDE DEF S, T
<1>7. Cardinality(T) = Cardinality(S)
  BY <1>3, <1>6, FS_Bijection DEF ExistsBijection
<1> QED
  BY <1>4, <1>5, <1>7 DEF S, T

\* dispute_milestone, cast_dispute_vote, tally_dispute and the dismissals between
\* them: the jury that decides is one of jurors each counted once, none of whom
\* attested the milestone, and none dismissed while the dispute is open, for any
\* number of validators, rounds and votes and any order of steps.
THEOREM JuriesDecide == Spec => []JuryDecides
<1>1. JuryInv /\ DisputeType => JuryDecides
  <2> SUFFICES ASSUME JuryInv, DisputeType,
                      NEW ref \in MilestoneRef, NEW round \in DisputeRounds,
                      dispute[ref][round] # NONE, NotErased(ref[1]), ~Inherited(ref, round)
               PROVE  LET d    == dispute[ref][round]
                          for  == VotesSo(ref, round, TRUE)
                          anti == VotesSo(ref, round, FALSE)
                          jurors == {v.wallet : v \in for \cup anti}
                      IN  /\ d.votes_for = Cardinality(for) /\ d.votes_against = Cardinality(anti)
                          /\ disputeVoteCount[ref][round] = Cardinality(jurors)
                          /\ d.votes_for + d.votes_against = Cardinality(jurors)
                          /\ MilestoneAt(ref) # NONE =>
                               jurors \cap ToSetOf(FlagWallets(ref)) = {}
                          /\ ~d.resolved => \A w \in jurors \ transferred :
                                              GetValidatorStatus(w) # "RevokedForCause"
                          /\ d.jury_required /\ d.resolved /\ d.upheld =>
                               d.votes_for > d.votes_against /\ Cardinality(jurors) >= d.quorum
    BY Zenon DEF JuryDecides
  <2> DEFINE d == dispute[ref][round]
             jurors == {v.wallet : v \in VotesSo(ref, round, TRUE)
                                          \cup VotesSo(ref, round, FALSE)}
  <2>1. Ballot(ref, round) /\ Session(ref, round) /\ Verdicts(ref, round)
    BY DEF JuryInv, RoundInv
  <2>2. /\ jurors = {v.wallet : v \in VotesOn(ref, round)}
        /\ Cardinality(jurors) = Cardinality(VotesOn(ref, round))
        /\ Cardinality(VotesSo(ref, round, TRUE)) + Cardinality(VotesSo(ref, round, FALSE))
             = Cardinality(VotesOn(ref, round))
    BY <2>1, JurorsCounted DEF Ballot
  <2>3. Tallied(ref, round) /\ ByMajority(d)
    BY <2>1 DEF Verdicts
  <2>4. jurors \cap ToSetOf(FlagWallets(ref)) = {}
    BY <2>1, <2>2 DEF Ballot
  <2>5. ~d.resolved => \A w \in jurors \ transferred : w \notin revokedForCause
    BY <2>1, <2>2 DEF Session, Counted, MayJudge
  <2>6. ~d.resolved => \A w \in jurors \ transferred : GetValidatorStatus(w) # "RevokedForCause"
    BY <2>5 DEF GetValidatorStatus
  <2>7. disputeVoteCount[ref][round] = Cardinality(VotesOn(ref, round))
    BY <2>1 DEF Ballot
  <2> QED
    BY <2>2, <2>3, <2>4, <2>6, <2>7 DEF Tallied, ByMajority, TotalVotes
<1> QED
  BY <1>1, JuryAlways, DisputesAlways, PTL

----
(***************************************************************************)
(* The pages of flags.                                                      *)
(***************************************************************************)
\* Every page before the one at is full, and none beyond it is used.
Filled(pages, count, at) ==
  /\ at \in PageIndexes /\ Len(pages[at]) <= MILESTONE_FLAG_PAGE_SIZE
  /\ count = MILESTONE_FLAG_PAGE_SIZE * at + Len(pages[at])
  /\ \A page \in PageIndexes : page > at => pages[page] = << >>

\* All flags are on the first page, which a re-review may have left too high a count.
OnFirst(pages, count) ==
  /\ Len(pages[0]) <= count /\ count <= MILESTONE_FLAG_PAGE_SIZE
  /\ \A page \in PageIndexes : page # 0 => pages[page] = << >>

Flagged(pages, ref) == \E page \in PageIndexes : Contains(pages[page], ref)

\* How the flags of a wallet lie, and that none the cascade put is lost.
FlagInv ==
  \A w \in Wallets :
    /\ "reviewed" \notin pageHistory[w] =>
         \E at \in PageIndexes : Filled(flagPage[w], flagCount[w], at)
    /\ "paged" \notin pageHistory[w] => OnFirst(flagPage[w], flagCount[w])
    /\ pageHistory[w] # {"paged", "reviewed"} =>
         \A ref \in swept[w] \ cleared[w] : Flagged(flagPage[w], ref)

\* What one more flag does to a book.
LEMMA PutFlagIs ==
  ASSUME NEW book \in FlagBook, NEW ref \in MilestoneRef
  PROVE  /\ PutFlag(book, ref).count = book.count + 1
         /\ Len(book.pages[book.at]) < MILESTONE_FLAG_PAGE_SIZE =>
              /\ PutFlag(book, ref).at = book.at
              /\ PutFlag(book, ref).pages =
                   [book.pages EXCEPT ![book.at] = Append(book.pages[book.at], ref)]
         /\ ~(Len(book.pages[book.at]) < MILESTONE_FLAG_PAGE_SIZE) =>
              /\ PutFlag(book, ref).at = book.at + 1
              /\ PutFlag(book, ref).pages = [book.pages EXCEPT ![book.at + 1] = <<ref>>]
<1>1. PICK pages, count, at : /\ pages = book.pages /\ count = book.count /\ at = book.at
                              /\ book = [pages |-> pages, count |-> count, at |-> at]
  BY DEF FlagBook
<1>2. CASE Len(pages[at]) < MILESTONE_FLAG_PAGE_SIZE
  <2>1. PutFlag(book, ref) =
          [book EXCEPT !.pages[at] = Append(@, ref), !.count = @ + 1]
    BY <1>1, <1>2, Zenon DEF PutFlag
  <2>2. PutFlag(book, ref) = [pages |-> [pages EXCEPT ![at] = Append(pages[at], ref)],
                              count |-> count + 1, at |-> at]
    BY <1>1, <2>1
  <2>3. /\ PutFlag(book, ref).pages = [pages EXCEPT ![at] = Append(pages[at], ref)]
        /\ PutFlag(book, ref).count = count + 1 /\ PutFlag(book, ref).at = at
    BY <2>2
  <2> QED
    BY <1>1, <1>2, <2>3, Zenon
<1>3. CASE ~(Len(pages[at]) < MILESTONE_FLAG_PAGE_SIZE)
  <2>1. PutFlag(book, ref) =
          [book EXCEPT !.pages[at + 1] = <<ref>>, !.count = @ + 1, !.at = @ + 1]
    BY <1>1, <1>3, Zenon DEF PutFlag
  <2>2. PutFlag(book, ref) = [pages |-> [pages EXCEPT ![at + 1] = <<ref>>],
                              count |-> count + 1, at |-> at + 1]
    BY <1>1, <2>1
  <2>3. /\ PutFlag(book, ref).pages = [pages EXCEPT ![at + 1] = <<ref>>]
        /\ PutFlag(book, ref).count = count + 1 /\ PutFlag(book, ref).at = at + 1
    BY <2>2
  <2> QED
    BY <1>1, <1>3, <2>3, Zenon
<1> QED
  BY <1>1, <1>2, <1>3

\* A page with one more entry, or a page begun where there was nothing: all that was on
\* the pages is still there, and the new entry is.
LEMMA PagesGrow ==
  ASSUME NEW pages \in [PageIndexes -> Seq(MilestoneRef)], NEW at \in PageIndexes,
         NEW ref \in MilestoneRef, NEW list,
         list = Append(pages[at], ref) \/ (pages[at] = << >> /\ list = <<ref>>)
  PROVE  /\ Flagged([pages EXCEPT ![at] = list], ref)
         /\ \A r : Flagged(pages, r) => Flagged([pages EXCEPT ![at] = list], r)
<1>1. PICK new : new = [pages EXCEPT ![at] = list]
  OBVIOUS
<1>2. new[at] = list /\ \A page \in PageIndexes : page # at => new[page] = pages[page]
  BY <1>1
<1>3. Contains(list, ref) /\ \A r : Contains(pages[at], r) => Contains(list, r)
  <2>1. CASE list = Append(pages[at], ref)
    <3>1. pages[at] \in Seq(MilestoneRef)
      OBVIOUS
    <3> QED
      BY <2>1, <3>1, AppendEntries
  <2>2. CASE pages[at] = << >> /\ list = <<ref>>
    <3>1. Len(list) = 1 /\ list[1] = ref /\ Len(pages[at]) = 0
      BY <2>2
    <3>2. Contains(list, ref) /\ \A r : ~Contains(pages[at], r)
      BY <3>1 DEF Contains
    <3> QED
      BY <3>2
  <2> QED
    BY <2>1, <2>2
<1>4. Flagged(new, ref)
  BY <1>2, <1>3 DEF Flagged
<1>5. ASSUME NEW r, Flagged(pages, r) PROVE Flagged(new, r)
  <2>1. PICK page \in PageIndexes : Contains(pages[page], r)
    BY <1>5 DEF Flagged
  <2>2. Contains(new[page], r)
    BY <1>2, <1>3, <2>1
  <2> QED
    BY <2>2 DEF Flagged
<1> QED
  BY <1>1, <1>4, <1>5

\* Of two multiples of a size the smaller has the smaller factor.
LEMMA FewerPages ==
  ASSUME NEW p \in Nat, NEW a \in Nat, NEW b \in Nat, p * a < p * b
  PROVE  a < b
<1> SUFFICES ASSUME a >= b PROVE FALSE
  OBVIOUS
<1>1. PICK d \in Nat : a = b + d
  <2>1. a - b \in Nat /\ a = b + (a - b)
    OBVIOUS
  <2> QED
    BY <2>1
<1>2. p * a = (p * b) + (p * d) /\ p * d \in Nat /\ p * b \in Nat
  BY <1>1
<1> QED
  BY <1>2

\* One more flag where the pages are filled in order and not all full.
LEMMA PutFilled ==
  ASSUME NEW book \in FlagBook, NEW ref \in MilestoneRef,
         Filled(book.pages, book.count, book.at),
         book.count < MILESTONE_FLAG_PAGE_SIZE * MaxPages
  PROVE  /\ Filled(PutFlag(book, ref).pages, PutFlag(book, ref).count, PutFlag(book, ref).at)
         /\ Flagged(PutFlag(book, ref).pages, ref)
         /\ \A r : Flagged(book.pages, r) => Flagged(PutFlag(book, ref).pages, r)
<1>1. PICK pages, count, at : pages = book.pages /\ count = book.count /\ at = book.at
  OBVIOUS
<1>2. /\ pages \in [PageIndexes -> Seq(MilestoneRef)] /\ count \in Nat /\ at \in PageIndexes
      /\ at \in Nat /\ count < MILESTONE_FLAG_PAGE_SIZE * MaxPages
      /\ Filled(pages, count, at)
  BY <1>1 DEF FlagBook, Filled, PageIndexes
<1>3. PICK new, sum, last : /\ new = PutFlag(book, ref).pages /\ sum = PutFlag(book, ref).count
                            /\ last = PutFlag(book, ref).at
  OBVIOUS
<1>4. PICK n \in Nat : n = Len(pages[at])
  BY <1>2
<1>5. PICK m \in Nat : m = MILESTONE_FLAG_PAGE_SIZE * at
  BY <1>2, FlagBounds
<1>6. MILESTONE_FLAG_PAGE_SIZE * (at + 1) = m + MILESTONE_FLAG_PAGE_SIZE
  BY <1>2, <1>5, FlagBounds
<1>7. /\ n <= MILESTONE_FLAG_PAGE_SIZE /\ count = m + n
      /\ \A page \in PageIndexes : page > at => pages[page] = << >>
  BY <1>2, <1>4, <1>5 DEF Filled
<1>8. sum = count + 1
  BY <1>1, <1>3, PutFlagIs
<1>9. CASE n < MILESTONE_FLAG_PAGE_SIZE
  <2>1. last = at /\ new = [pages EXCEPT ![at] = Append(pages[at], ref)]
    BY <1>1, <1>3, <1>4, <1>9, PutFlagIs
  <2>2. Flagged(new, ref) /\ \A r : Flagged(pages, r) => Flagged(new, r)
    BY <1>2, <2>1, PagesGrow
  <2>3. Len(new[at]) = n + 1
    BY <1>2, <1>4, <2>1
  <2>4. \A page \in PageIndexes : page > at => new[page] = << >>
    <3> TAKE page \in PageIndexes
    <3> HAVE page > at
    <3>1. page # at
      BY <1>2 DEF PageIndexes
    <3> QED
      BY <1>2, <1>7, <2>1, <3>1
  <2>5. Filled(new, sum, at)
    BY <1>2, <1>4, <1>5, <1>7, <1>8, <1>9, <2>3, <2>4, FlagBounds DEF Filled
  <2>6. Filled(new, sum, last)
    BY <2>1, <2>5
  <2> QED
    BY <1>1, <1>3, <2>2, <2>6, Zenon
<1>10. CASE ~(n < MILESTONE_FLAG_PAGE_SIZE)
  <2>1. last = at + 1 /\ new = [pages EXCEPT ![at + 1] = <<ref>>]
    BY <1>1, <1>3, <1>4, <1>10, PutFlagIs
  <2>0. at + 1 \in PageIndexes
    <3>1. MILESTONE_FLAG_PAGE_SIZE * (at + 1) < MILESTONE_FLAG_PAGE_SIZE * MaxPages
      BY <1>2, <1>4, <1>5, <1>6, <1>7, <1>10, FlagBounds
    <3>2. PICK next \in Nat : next = at + 1
      BY <1>2
    <3>3. next < MaxPages
      BY <3>1, <3>2, FewerPages, FlagBounds
    <3> QED
      BY <3>2, <3>3, FlagBounds DEF PageIndexes
  <2>2. pages[at + 1] = << >>
    BY <1>2, <1>7, <2>0
  <2>3. Flagged(new, ref) /\ \A r : Flagged(pages, r) => Flagged(new, r)
    BY <1>2, <2>0, <2>1, <2>2, PagesGrow
  <2>4. Len(new[at + 1]) = 1
    BY <1>2, <2>0, <2>1
  <2>5. \A page \in PageIndexes : page > at + 1 => new[page] = << >>
    <3> TAKE page \in PageIndexes
    <3> HAVE page > at + 1
    <3>1. page # at + 1 /\ page > at
      BY <1>2 DEF PageIndexes
    <3> QED
      BY <1>2, <1>7, <2>1, <3>1
  <2>6. sum = MILESTONE_FLAG_PAGE_SIZE * (at + 1) + 1
    BY <1>4, <1>5, <1>6, <1>7, <1>8, <1>10, FlagBounds
  <2>7. Filled(new, sum, at + 1)
    BY <1>2, <2>0, <2>4, <2>5, <2>6, FlagBounds DEF Filled
  <2>8. Filled(new, sum, last)
    BY <2>1, <2>7
  <2> QED
    BY <1>1, <1>3, <2>3, <2>8, Zenon
<1> QED
  BY <1>4, <1>9, <1>10, FlagBounds

\* One more flag where there is room on the first page.
LEMMA PutFirst ==
  ASSUME NEW book \in FlagBook, NEW ref \in MilestoneRef,
         book.at = 0, OnFirst(book.pages, book.count), book.count < MILESTONE_FLAG_PAGE_SIZE
  PROVE  /\ OnFirst(PutFlag(book, ref).pages, PutFlag(book, ref).count)
         /\ PutFlag(book, ref).at = 0
         /\ Flagged(PutFlag(book, ref).pages, ref)
         /\ \A r : Flagged(book.pages, r) => Flagged(PutFlag(book, ref).pages, r)
<1>1. PICK pages, count : pages = book.pages /\ count = book.count
  OBVIOUS
<1>2. /\ pages \in [PageIndexes -> Seq(MilestoneRef)] /\ count \in Nat /\ 0 \in PageIndexes
      /\ OnFirst(pages, count)
  BY <1>1, FlagBounds DEF FlagBook, PageIndexes
<1>3. PICK new, sum : new = PutFlag(book, ref).pages /\ sum = PutFlag(book, ref).count
  OBVIOUS
<1>4. PICK n \in Nat : n = Len(pages[0])
  BY <1>2
<1>5. n <= count /\ count < MILESTONE_FLAG_PAGE_SIZE
  BY <1>1, <1>2, <1>4 DEF OnFirst
<1>6. /\ sum = count + 1 /\ PutFlag(book, ref).at = 0
      /\ new = [pages EXCEPT ![0] = Append(pages[0], ref)]
  <2>1. n < MILESTONE_FLAG_PAGE_SIZE
    BY <1>2, <1>4, <1>5, FlagBounds
  <2> QED
    BY <1>1, <1>3, <1>4, <2>1, PutFlagIs
<1>7. Flagged(new, ref) /\ \A r : Flagged(pages, r) => Flagged(new, r)
  BY <1>2, <1>6, PagesGrow
<1>8. Len(new[0]) = n + 1 /\ \A page \in PageIndexes : page # 0 => new[page] = pages[page]
  BY <1>2, <1>4, <1>6
<1>9. OnFirst(new, sum)
  BY <1>2, <1>4, <1>5, <1>6, <1>8, FlagBounds DEF OnFirst
<1> QED
  BY <1>1, <1>3, <1>6, <1>7, <1>9

----
\* Of a number below the divisor nothing is left.
LEMMA SmallQuotient ==
  ASSUME NEW p \in Nat \ {0}, NEW n \in 0..(p - 1)
  PROVE  n \div p = 0
<1>1. PICK zero \in Nat : zero = 0
  OBVIOUS
<1>2. p * zero = 0
  BY <1>1
<1>3. n \in Nat /\ n = p * zero + n
  BY <1>2
<1>4. n \div p = zero
  BY <1>3, Quotient, Zenon
<1> QED
  BY <1>1, <1>4

\* Where the flags are filled in order, the page their number leads to is the next one.
LEMMA NextPage ==
  ASSUME NEW pages \in [PageIndexes -> Seq(MilestoneRef)], NEW count \in Nat,
         NEW at \in PageIndexes, Filled(pages, count, at),
         count \div MILESTONE_FLAG_PAGE_SIZE \in PageIndexes
  PROVE  Filled(pages, count, count \div MILESTONE_FLAG_PAGE_SIZE)
<1>1. PICK n \in Nat : n = Len(pages[at])
  OBVIOUS
<1>2. /\ at \in Nat /\ n <= MILESTONE_FLAG_PAGE_SIZE
      /\ count = MILESTONE_FLAG_PAGE_SIZE * at + n
      /\ \A page \in PageIndexes : page > at => pages[page] = << >>
  BY <1>1 DEF Filled, PageIndexes
<1>3. CASE n < MILESTONE_FLAG_PAGE_SIZE
  <2>1. n \in 0..(MILESTONE_FLAG_PAGE_SIZE - 1) /\ MILESTONE_FLAG_PAGE_SIZE \in Nat \ {0}
    BY <1>3, FlagBounds
  <2>2. count \div MILESTONE_FLAG_PAGE_SIZE = at
    BY <1>2, <2>1, Quotient
  <2> QED
    BY <2>2
<1>4. CASE n = MILESTONE_FLAG_PAGE_SIZE
  <2>1. count = MILESTONE_FLAG_PAGE_SIZE * (at + 1) + 0
    BY <1>2, <1>4, FlagBounds
  <2>2. 0 \in 0..(MILESTONE_FLAG_PAGE_SIZE - 1) /\ MILESTONE_FLAG_PAGE_SIZE \in Nat \ {0}
    BY FlagBounds
  <2>3. count \div MILESTONE_FLAG_PAGE_SIZE = at + 1
    <3>1. PICK next \in Nat : next = at + 1
      BY <1>2
    <3>2. count = MILESTONE_FLAG_PAGE_SIZE * next + 0
      BY <2>1, <3>1
    <3> QED
      BY <2>2, <3>1, <3>2, Quotient
  <2>4. Len(pages[at + 1]) = 0
    BY <1>2, <2>3
  <2>5. \A page \in PageIndexes : page > at + 1 => pages[page] = << >>
    BY <1>2 DEF PageIndexes
  <2>6. Filled(pages, count, at + 1)
    BY <2>1, <2>3, <2>4, <2>5, FlagBounds DEF Filled
  <2> QED
    BY <2>3, <2>6
<1> QED
  BY <1>2, <1>3, <1>4, FlagBounds

\* A sweep leaves the pages in order, with all the flags there were and those it puts.
LEMMA SweptPages ==
  ASSUME TypeOKMilestones, FlagType, NEW w \in Wallets, NEW start \in Nat,
         PagesSuffice(w, start), NEW inOrder \in BOOLEAN, NEW first \in BOOLEAN,
         inOrder \/ first,
         inOrder => \E at \in PageIndexes : Filled(flagPage[w], flagCount[w], at),
         first => /\ OnFirst(flagPage[w], flagCount[w])
                  /\ Swept(w, start).count <= MILESTONE_FLAG_PAGE_SIZE
  PROVE  /\ inOrder => \E at \in PageIndexes :
                         Filled(Swept(w, start).pages, Swept(w, start).count, at)
         /\ first => OnFirst(Swept(w, start).pages, Swept(w, start).count)
         /\ \A ref : Flagged(flagPage[w], ref) \/ Contains(ToFlag(w, start), ref)
                       => Flagged(Swept(w, start).pages, ref)
<1>1. PICK refs \in Seq(MilestoneRef) : refs = ToFlag(w, start)
  BY SweptIteration
<1>2. PICK k \in Nat : k = Len(refs)
  OBVIOUS
<1>3. PICK f \in [0..k -> FlagBook] :
        /\ f[0] = [pages |-> flagPage[w], count |-> flagCount[w],
                   at |-> flagCount[w] \div MILESTONE_FLAG_PAGE_SIZE]
        /\ \A i \in 1..k : f[i] = PutFlag(f[i - 1], refs[i])
        /\ Swept(w, start) = f[k]
  BY <1>1, <1>2, SweptIteration, Zenon
<1>4. PICK pages, count : pages = flagPage[w] /\ count = flagCount[w]
  OBVIOUS
<1>5. pages \in [PageIndexes -> Seq(MilestoneRef)] /\ count \in Nat
  BY <1>4 DEF FlagType
<1>6. PICK at0 \in Nat : at0 = count \div MILESTONE_FLAG_PAGE_SIZE
  <2>1. PICK size \in Nat \ {0}, n \in Nat : size = MILESTONE_FLAG_PAGE_SIZE /\ n = count
    BY <1>5, FlagBounds
  <2>2. count \div MILESTONE_FLAG_PAGE_SIZE \in Nat
    BY <2>1, Division
  <2> QED
    BY <2>2
<1>7. ASSUME k > 0
      PROVE  /\ at0 \in PageIndexes
             /\ inOrder => /\ Filled(pages, count, at0)
                           /\ count + k <= MILESTONE_FLAG_PAGE_SIZE * MaxPages
  <2>1. refs # << >>
    BY <1>2, <1>7
  <2>2. /\ at0 \in PageIndexes
        /\ Len(pages[at0]) + k <= MILESTONE_FLAG_PAGE_SIZE * (MaxPages - at0)
    BY <1>1, <1>2, <1>4, <1>6, <2>1, Zenon DEF PagesSuffice
  <2>3. ASSUME inOrder
        PROVE  /\ Filled(pages, count, at0)
               /\ count + k <= MILESTONE_FLAG_PAGE_SIZE * MaxPages
    <3>1. PICK at \in PageIndexes : Filled(pages, count, at)
      BY <1>4, <2>3
    <3>2. Filled(pages, count, at0)
      BY <1>5, <1>6, <2>2, <3>1, NextPage
    <3>3. PICK n \in Nat : n = Len(pages[at0])
      BY <1>5, <2>2
    <3>4. count = (MILESTONE_FLAG_PAGE_SIZE * at0) + n
      BY <3>2, <3>3 DEF Filled
    <3>5. MILESTONE_FLAG_PAGE_SIZE * (MaxPages - at0)
            = (MILESTONE_FLAG_PAGE_SIZE * MaxPages) - (MILESTONE_FLAG_PAGE_SIZE * at0)
      BY FlagBounds
    <3>6. PICK room \in Nat, used \in Nat :
            room = MILESTONE_FLAG_PAGE_SIZE * MaxPages /\ used = MILESTONE_FLAG_PAGE_SIZE * at0
      BY FlagBounds
    <3>7. n + k <= room - used /\ count = used + n
      <4>1. MILESTONE_FLAG_PAGE_SIZE * (MaxPages - at0) = room - used
        BY <3>5, <3>6, Zenon
      <4>2. n + k <= MILESTONE_FLAG_PAGE_SIZE * (MaxPages - at0)
        BY <2>2, <3>3, Zenon
      <4>3. count = used + n
        BY <3>4, <3>6, Zenon
      <4> QED
        BY <4>1, <4>2, <4>3, Zenon
    <3>8. count + k <= room
      BY <1>5, <3>7
    <3> QED
      BY <3>2, <3>6, <3>8
  <2> QED
    BY <2>2, <2>3
<1>8. /\ f[0].pages = pages /\ f[0].count = count /\ f[0].at = at0
      /\ \A i \in 0..k : f[i] \in FlagBook
  BY <1>3, <1>4, <1>6
<1> DEFINE Orderly(i) == inOrder /\ k > 0 => Filled(f[i].pages, f[i].count, f[i].at)
           Low(i) == first =>
             /\ f[i].count <= MILESTONE_FLAG_PAGE_SIZE => OnFirst(f[i].pages, f[i].count)
             /\ f[i].count < MILESTONE_FLAG_PAGE_SIZE => f[i].at = 0
           Amount(i) == f[i].count = count + i
           Held(i) == (first => f[i].count <= MILESTONE_FLAG_PAGE_SIZE) =>
             \A ref : Flagged(pages, ref) \/ (\E j \in 1..i : refs[j] = ref)
                        => Flagged(f[i].pages, ref)
           Good == {i \in Nat : i <= k => Orderly(i) /\ Low(i) /\ Amount(i) /\ Held(i)}
<1>9. Orderly(0) /\ Low(0) /\ Amount(0) /\ Held(0)
  <2>1. Orderly(0)
    BY <1>7, <1>8
  <2>2. Low(0)
    <3>1. first => OnFirst(pages, count)
      BY <1>4
    <3>2. count < MILESTONE_FLAG_PAGE_SIZE => at0 = 0
      <4> SUFFICES ASSUME count < MILESTONE_FLAG_PAGE_SIZE PROVE at0 = 0
        OBVIOUS
      <4>1. /\ MILESTONE_FLAG_PAGE_SIZE \in Nat \ {0}
            /\ count \in 0..(MILESTONE_FLAG_PAGE_SIZE - 1)
        BY <1>5, FlagBounds
      <4> QED
        BY <1>5, <1>6, <4>1, SmallQuotient
    <3> QED
      BY <1>8, <3>1, <3>2
  <2>3. Amount(0)
    BY <1>5, <1>8
  <2>4. Held(0)
    BY <1>8
  <2> QED
    BY <2>1, <2>2, <2>3, <2>4
<1>10. ASSUME NEW i \in Nat, i \in Good PROVE i + 1 \in Good
  <2> SUFFICES ASSUME i + 1 <= k
               PROVE  Orderly(i + 1) /\ Low(i + 1) /\ Amount(i + 1) /\ Held(i + 1)
    OBVIOUS
  <2>1. Orderly(i) /\ Low(i) /\ Amount(i) /\ Held(i)
    BY <1>10
  <2>2. PICK book \in FlagBook : book = f[i]
    BY <1>8
  <2>3. PICK ref \in MilestoneRef : ref = refs[i + 1]
    BY <1>2
  <2>4. PICK next : next = f[i + 1]
    OBVIOUS
  <2>5. next = PutFlag(book, ref)
    <3>1. i + 1 \in 1..k /\ (i + 1) - 1 = i
      OBVIOUS
    <3> QED
      BY <1>3, <2>2, <2>3, <2>4, <3>1
  <2>6. /\ book.count = count + i /\ next.count = count + (i + 1)
        /\ next.count = book.count + 1 /\ book.count \in Nat /\ book.at \in Nat
    <3>1. next.count = book.count + 1 /\ book.count \in Nat /\ book.at \in Nat
      BY <2>5, PutFlagIs DEF FlagBook
    <3>2. book.count = count + i
      BY <2>1, <2>2
    <3> QED
      BY <1>5, <3>1, <3>2
  <2>7. inOrder => /\ Filled(next.pages, next.count, next.at)
                   /\ Flagged(next.pages, ref)
                   /\ \A r : Flagged(book.pages, r) => Flagged(next.pages, r)
    <3> SUFFICES ASSUME inOrder
                 PROVE  /\ Filled(next.pages, next.count, next.at)
                        /\ Flagged(next.pages, ref)
                        /\ \A r : Flagged(book.pages, r) => Flagged(next.pages, r)
      OBVIOUS
    <3>1. Filled(book.pages, book.count, book.at)
      BY <2>1, <2>2
    <3>2. book.count < MILESTONE_FLAG_PAGE_SIZE * MaxPages
      <4>1. PICK room \in Nat : room = MILESTONE_FLAG_PAGE_SIZE * MaxPages
        BY FlagBounds
      <4>2. count + k <= room
        BY <1>7, <4>1
      <4> QED
        BY <1>5, <2>6, <4>1, <4>2
    <3>3. Filled(next.pages, next.count, next.at)
      BY <2>5, <3>1, <3>2, PutFilled
    <3>4. Flagged(next.pages, ref)
      BY <2>5, <3>1, <3>2, PutFilled
    <3>5. \A r : Flagged(book.pages, r) => Flagged(next.pages, r)
      BY <2>5, <3>1, <3>2, PutFilled
    <3> QED
      BY <3>3, <3>4, <3>5
  <2>8. first /\ next.count <= MILESTONE_FLAG_PAGE_SIZE =>
          /\ OnFirst(next.pages, next.count) /\ next.at = 0
          /\ Flagged(next.pages, ref)
          /\ \A r : Flagged(book.pages, r) => Flagged(next.pages, r)
    <3> SUFFICES ASSUME first, next.count <= MILESTONE_FLAG_PAGE_SIZE
                 PROVE  /\ OnFirst(next.pages, next.count) /\ next.at = 0
                        /\ Flagged(next.pages, ref)
                        /\ \A r : Flagged(book.pages, r) => Flagged(next.pages, r)
      OBVIOUS
    <3>1. book.count < MILESTONE_FLAG_PAGE_SIZE
      BY <2>6, FlagBounds
    <3>2. OnFirst(book.pages, book.count) /\ book.at = 0
      BY <2>1, <2>2, <2>6, <3>1, FlagBounds
    <3> QED
      BY <2>5, <3>1, <3>2, PutFirst
  <2>9. Orderly(i + 1)
    BY <2>4, <2>7
  <2>10. Low(i + 1)
    BY <2>4, <2>8, <2>6, FlagBounds
  <2>11. Amount(i + 1)
    BY <2>4, <2>6
  <2>12. Held(i + 1)
    <3> SUFFICES ASSUME first => next.count <= MILESTONE_FLAG_PAGE_SIZE,
                        NEW r, Flagged(pages, r) \/ \E j \in 1..(i + 1) : refs[j] = r
                 PROVE  Flagged(next.pages, r)
      BY <2>4
    <3>1. Flagged(next.pages, ref) /\ (Flagged(book.pages, r) => Flagged(next.pages, r))
      BY <2>7, <2>8
    <3>2. first => book.count <= MILESTONE_FLAG_PAGE_SIZE
      BY <2>6, FlagBounds
    <3>3. Flagged(pages, r) \/ (\E j \in 1..i : refs[j] = r) => Flagged(book.pages, r)
      BY <2>1, <2>2, <3>2
    <3>4. ASSUME NEW j \in 1..(i + 1), refs[j] = r, j \notin 1..i PROVE r = ref
      <4>1. j = i + 1
        BY <3>4
      <4> QED
        BY <2>3, <3>4, <4>1
    <3> QED
      BY <3>1, <3>3, <3>4
  <2> QED
    BY <2>9, <2>10, <2>11, <2>12
<1>11. k \in Good
  <2> HIDE DEF Orderly, Low, Amount, Held
  <2>1. 0 \in Good
    BY <1>9
  <2> HIDE DEF Good
  <2> QED
    BY <1>10, <2>1, InductionOnSet
<1>12. PICK book \in FlagBook : book = f[k]
  BY <1>8
<1>13. Orderly(k) /\ Low(k) /\ Held(k)
  BY <1>11
<1>14. book.count <= MILESTONE_FLAG_PAGE_SIZE \/ ~first
  BY <1>3, <1>12
<1>15. inOrder => \E at \in PageIndexes : Filled(book.pages, book.count, at)
  <2>1. CASE k > 0
    BY <1>12, <1>13, <2>1 DEF Filled
  <2>2. CASE k = 0
    BY <1>4, <1>8, <1>12, <2>2
  <2> QED
    BY <2>1, <2>2
<1>16. first => OnFirst(book.pages, book.count)
  BY <1>12, <1>13, <1>14
<1>17. \A ref : Flagged(pages, ref) \/ (\E j \in 1..k : refs[j] = ref) => Flagged(book.pages, ref)
  BY <1>12, <1>13, <1>14
<1>18. \A ref : Contains(refs, ref) => \E j \in 1..k : refs[j] = ref
  BY <1>2 DEF Contains
<1> QED
  BY <1>1, <1>3, <1>4, <1>12, <1>15, <1>16, <1>17, <1>18, Zenon

----
\* What is on a page in use is on a page.
LEMMA VisibleIsFlagged ==
  ASSUME FlagType, NEW w \in Wallets, NEW ref, ref \in VisibleFlags(w)
  PROVE  Flagged(flagPage[w], ref)
<1>1. PICK page \in PageIndexes : ref \in ToSetOf(flagPage[w][page])
  BY DEF VisibleFlags
<1>2. flagPage[w][page] \in Seq(MilestoneRef)
  BY DEF FlagType
<1> QED
  BY <1>1, <1>2, SetOfList DEF Flagged

\* What a sweep visits it flags, or was flagged.
LEMMA SweptIsFlagged ==
  ASSUME TypeOKMilestones, FlagType, NEW w \in Wallets, NEW start \in Nat,
         NEW ref \in ToSetOf(Slice(w, start))
  PROVE  ref \in MilestoneRef /\ (Flagged(flagPage[w], ref) \/ Contains(ToFlag(w, start), ref))
<1>1. PICK slice \in Seq(MilestoneRef) : slice = Slice(w, start)
  BY SliceIs
<1>2. Contains(slice, ref) /\ ref \in MilestoneRef
  BY <1>1, SetOfList
<1>3. CASE start = 0 /\ ref \in VisibleFlags(w)
  BY <1>2, <1>3, VisibleIsFlagged
<1>4. CASE ~(start = 0 /\ ref \in VisibleFlags(w))
  <2>1. PICK kept : kept = IF start = 0 THEN MilestoneRef \ VisibleFlags(w) ELSE MilestoneRef
    OBVIOUS
  <2>2. ref \in kept
    BY <1>2, <1>4, <2>1
  <2>3. ToFlag(w, start) = Filter(slice, kept)
    BY <1>1, <2>1, Zenon DEF ToFlag
  <2> QED
    BY <1>1, <1>2, <2>2, <2>3, FilterEntries
<1> QED
  BY <1>3, <1>4

\* Sweeps keep the pages in order and lose no flag.
LEMMA SweepsKeepFlags ==
  ASSUME TypeOKMilestones, FlagType, FlagInv,
         NEW some, some \subseteq Wallets, NEW start \in [some -> Nat],
         NEW ws, ws \subseteq some, NEW marked, NEW dismissed,
         RunSweeps(ws, start, marked), RecordSweeps(ws, start, dismissed)
  PROVE  FlagInv'
<1> SUFFICES ASSUME NEW w \in Wallets
             PROVE  /\ "reviewed" \notin pageHistory'[w] =>
                         \E at \in PageIndexes : Filled(flagPage'[w], flagCount'[w], at)
                    /\ "paged" \notin pageHistory'[w] => OnFirst(flagPage'[w], flagCount'[w])
                    /\ pageHistory'[w] # {"paged", "reviewed"} =>
                         \A ref \in swept'[w] \ cleared'[w] : Flagged(flagPage'[w], ref)
  BY DEF FlagInv, Filled, OnFirst, Flagged
<1>1. /\ flagPage'[w] = (IF w \in ws THEN Swept(w, start[w]).pages ELSE flagPage[w])
      /\ flagCount'[w] = (IF w \in ws THEN Swept(w, start[w]).count ELSE flagCount[w])
      /\ swept'[w] = (IF w \in dismissed THEN {} ELSE swept[w])
                       \cup (IF w \in ws THEN ToSetOf(Slice(w, start[w])) ELSE {})
      /\ cleared'[w] = (IF w \in dismissed THEN {}
                        ELSE IF w \in ws THEN cleared[w] \ ToSetOf(Slice(w, start[w]))
                        ELSE cleared[w])
      /\ pageHistory'[w] = (IF flagCount'[w] > MILESTONE_FLAG_PAGE_SIZE
                            THEN pageHistory[w] \cup {"paged"} ELSE pageHistory[w])
  <2>1. /\ flagPage' = [v \in Wallets |-> IF v \in ws THEN Swept(v, start[v]).pages
                                          ELSE flagPage[v]]
        /\ flagCount' = [v \in Wallets |-> IF v \in ws THEN Swept(v, start[v]).count
                                           ELSE flagCount[v]]
    BY Zenon DEF RunSweeps
  <2>2. /\ swept' = [v \in Wallets |-> (IF v \in dismissed THEN {} ELSE swept[v])
                       \cup (IF v \in ws THEN ToSetOf(Slice(v, start[v])) ELSE {})]
        /\ cleared' = [v \in Wallets |->
             IF v \in dismissed THEN {}
             ELSE IF v \in ws THEN cleared[v] \ ToSetOf(Slice(v, start[v])) ELSE cleared[v]]
        /\ pageHistory' = [v \in Wallets |->
             IF flagCount'[v] > MILESTONE_FLAG_PAGE_SIZE THEN pageHistory[v] \cup {"paged"}
             ELSE pageHistory[v]]
    BY Zenon DEF RecordSweeps
  <2> QED
    BY <2>1, <2>2, Zenon
<1>2. /\ "reviewed" \notin pageHistory[w] =>
           \E at \in PageIndexes : Filled(flagPage[w], flagCount[w], at)
      /\ "paged" \notin pageHistory[w] => OnFirst(flagPage[w], flagCount[w])
      /\ pageHistory[w] # {"paged", "reviewed"} =>
           \A ref \in swept[w] \ cleared[w] : Flagged(flagPage[w], ref)
  BY DEF FlagInv
<1>3. pageHistory[w] \in SUBSET {"paged", "reviewed"}
  BY DEF FlagType
<1>4. /\ "reviewed" \in pageHistory'[w] <=> "reviewed" \in pageHistory[w]
      /\ "paged" \notin pageHistory'[w] =>
           "paged" \notin pageHistory[w] /\ ~(flagCount'[w] > MILESTONE_FLAG_PAGE_SIZE)
      /\ pageHistory'[w] # {"paged", "reviewed"} =>
           /\ pageHistory[w] # {"paged", "reviewed"}
           /\ "reviewed" \notin pageHistory'[w] \/ "paged" \notin pageHistory'[w]
  BY <1>1, <1>3
<1>5. CASE w \notin ws
  BY <1>1, <1>2, <1>4, <1>5
<1>6. CASE w \in ws
  <2>1. PICK s \in Nat : s = start[w]
    BY <1>6
  <2>2. PICK book \in FlagBook : book = Swept(w, s)
    BY <2>1, SweptType
  <2>3. flagPage'[w] = book.pages /\ flagCount'[w] = book.count /\ book.count \in Nat
    BY <1>1, <1>6, <2>1, <2>2 DEF FlagBook
  <2>4. PagesSuffice(w, s)
    BY <1>6, <2>1 DEF RunSweeps
  <2>5. PICK inOrder \in BOOLEAN : inOrder <=> "reviewed" \notin pageHistory'[w]
    <3>1. ("reviewed" \notin pageHistory'[w]) \in BOOLEAN
      OBVIOUS
    <3> QED
      BY <3>1, Zenon
  <2>6. PICK first \in BOOLEAN : first <=> "paged" \notin pageHistory'[w]
    <3>1. ("paged" \notin pageHistory'[w]) \in BOOLEAN
      OBVIOUS
    <3> QED
      BY <3>1, Zenon
  <2>7. /\ inOrder => \E at \in PageIndexes : Filled(flagPage[w], flagCount[w], at)
        /\ first => /\ OnFirst(flagPage[w], flagCount[w])
                    /\ book.count <= MILESTONE_FLAG_PAGE_SIZE
    BY <1>2, <1>4, <2>3, <2>5, <2>6, FlagBounds
  <2>8. ASSUME inOrder \/ first
        PROVE  /\ inOrder => \E at \in PageIndexes : Filled(book.pages, book.count, at)
               /\ first => OnFirst(book.pages, book.count)
               /\ \A ref : Flagged(flagPage[w], ref) \/ Contains(ToFlag(w, s), ref)
                             => Flagged(book.pages, ref)
    BY <2>2, <2>4, <2>7, <2>8, SweptPages
  <2>9. ASSUME inOrder \/ first, NEW ref \in swept'[w] \ cleared'[w]
        PROVE  Flagged(book.pages, ref)
    <3>1. CASE ref \in ToSetOf(Slice(w, s))
      BY <2>8, <2>9, <3>1, SweptIsFlagged
    <3>2. CASE ref \notin ToSetOf(Slice(w, s))
      <4>1. ref \in swept[w] \ cleared[w]
        BY <1>1, <1>6, <2>1, <2>9, <3>2
      <4>2. pageHistory[w] # {"paged", "reviewed"}
        BY <1>4, <2>5, <2>6, <2>9
      <4> QED
        BY <1>2, <2>8, <2>9, <4>1, <4>2
    <3> QED
      BY <3>1, <3>2
  <2> QED
    BY <1>4, <2>3, <2>5, <2>6, <2>8, <2>9
<1> QED
  BY <1>5, <1>6

----
\* Who is asked about a milestone's flags are wallets.
LEMMA FlagWalletsAre ==
  ASSUME TypeOKMilestones, NEW ref \in MilestoneRef, MilestoneAt(ref) # NONE
  PROVE  FlagWallets(ref) \in Seq(Wallets)
<1>1. ref[1] \in Players /\ ref[2] \in Indexes
  BY DEF MilestoneRef
<1>2. MilestoneAt(ref).validator \in Wallets /\ AttestorsOf(ref) \in Seq(Wallets)
  BY <1>1 DEF TypeOKMilestones, MilestoneAt, AttestorsOf, Milestone
<1>3. Filter(AttestorsOf(ref), Wallets \ {MilestoneAt(ref).validator}) \in Seq(Wallets)
  BY <1>2, FilterType
<1>4. <<MilestoneAt(ref).validator>> \in Seq(Wallets)
  BY <1>2
<1> QED
  BY <1>3, <1>4, ConcatProperties DEF FlagWallets

\* A re-review goes to a wallet that has a flag, and to a page in use that holds it.
LEMMA HolderHolds ==
  ASSUME TypeOKMilestones, FlagType, NEW ref \in MilestoneRef, IsMilestoneFlagged(ref)
  PROVE  /\ FirstHolder(ref) \in Wallets
         /\ FirstPage(FirstHolder(ref), ref) \in PagesHolding(FirstHolder(ref), ref)
<1>1. PICK list \in Seq(Wallets) : list = FlagWallets(ref)
  BY FlagWalletsAre DEF IsMilestoneFlagged
<1>2. DOMAIN list = 1..Len(list) /\ Len(list) \in Nat
  OBVIOUS
<1> DEFINE all == {i \in DOMAIN list : PagesHolding(list[i], ref) # {}}
<1>3. all # {}
  <2>1. PICK w \in ToSetOf(list) : PagesHolding(w, ref) # {}
    BY <1>1 DEF IsMilestoneFlagged
  <2>2. PICK i \in 1..Len(list) : list[i] = w
    BY <1>2, <2>1, SetOfList DEF Contains
  <2> QED
    BY <1>2, <2>1, <2>2
<1>4. FirstHolder(ref) = list[Min(all)]
  BY <1>1, Zenon DEF FirstHolder
<1>5. Min(all) \in all
  <2>1. all \in SUBSET Nat
    BY <1>2
  <2>2. PICK m \in all : \A k \in all : m <= k
    BY <1>3, <2>1, LeastNatural
  <2> HIDE DEF all
  <2> QED
    BY <2>1, <2>2 DEF Min
<1>6. FirstHolder(ref) \in Wallets /\ PagesHolding(FirstHolder(ref), ref) # {}
  <2>1. PICK i \in all : i = Min(all)
    BY <1>5
  <2>2. FirstHolder(ref) = list[i] /\ i \in 1..Len(list)
    BY <1>2, <1>4, <2>1
  <2>3. list[i] \in Wallets
    BY <2>2
  <2> QED
    BY <2>1, <2>2, <2>3
<1>7. PICK w \in Wallets : w = FirstHolder(ref)
  BY <1>6
<1>8. PagesHolding(w, ref) \in SUBSET Nat
  BY DEF PagesHolding, PageIndexes
<1>9. PICK page \in PagesHolding(w, ref) : \A k \in PagesHolding(w, ref) : page <= k
  BY <1>6, <1>7, <1>8, LeastNatural
<1>10. FirstPage(w, ref) \in PagesHolding(w, ref)
  BY <1>8, <1>9 DEF FirstPage, Min
<1> QED
  BY <1>7, <1>10

----
\* A list without one of its entries is shorter.
LEMMA FilterShorter ==
  ASSUME NEW S, NEW s \in Seq(S), NEW x \in S, Contains(s, x)
  PROVE  Len(Filter(s, S \ {x})) < Len(s)
<1>1. PICK n \in Nat : n = Len(s)
  OBVIOUS
<1>2. PICK j \in 1..n : s[j] = x
  BY <1>1 DEF Contains
<1> DEFINE I == {i \in 1..n : s[i] \in S \ {x}}
<1>3. Len(Filter(s, S \ {x})) = Cardinality(I)
  BY <1>1, FilterLength
<1>4. IsFiniteSet(1..n) /\ Cardinality(1..n) = n
  <2>1. 1 \in Int /\ n \in Int
    OBVIOUS
  <2>2. /\ IsFiniteSet(1..n)
        /\ Cardinality(1..n) = IF 1 > n THEN 0 ELSE n - 1 + 1
    BY <2>1, FS_Interval, Zenon
  <2> QED
    BY <2>2
<1>5. I \in SUBSET (1..n) /\ I # 1..n
  BY <1>2
<1> HIDE DEF I
<1>6. Cardinality(I) <= Cardinality(1..n) /\ (Cardinality(I) = Cardinality(1..n) => I = 1..n)
      /\ IsFiniteSet(I)
  BY <1>4, <1>5, FS_Subset
<1>7. Cardinality(I) \in Nat
  BY <1>6, FS_CardinalityType
<1> QED
  BY <1>1, <1>3, <1>4, <1>5, <1>6, <1>7

\* A re-review loses no flag but the one it is about, as long as all are on the first page.
LEMMA RereviewKeepsFlags ==
  ASSUME TypeOKMilestones, FlagType, FlagInv, RereviewStep
  PROVE  FlagInv'
<1>1. PICK v \in Wallets, ref \in MilestoneRef : RereviewMilestone(v, ref)
  BY DEF RereviewStep
<1>2. PICK w : w = FirstHolder(ref)
  OBVIOUS
<1>3. PICK page : page = FirstPage(w, ref)
  OBVIOUS
<1>4. /\ flagPage' = [flagPage EXCEPT ![w][page] = Filter(@, MilestoneRef \ {ref})]
      /\ flagCount' = CountLess(w)
      /\ cleared' = [cleared EXCEPT ![w] = @ \cup ({ref} \cap swept[w])]
      /\ pageHistory' = [pageHistory EXCEPT ![w] = @ \cup {"reviewed"}]
      /\ swept' = swept
  BY <1>1, <1>2, <1>3, Zenon DEF RereviewMilestone
<1>5. w \in Wallets /\ page \in PagesHolding(w, ref)
  <2>1. IsMilestoneFlagged(ref)
    BY <1>1, Zenon DEF RereviewMilestone
  <2> QED
    BY <1>2, <1>3, <2>1, HolderHolds
<1>6. page \in PageIndexes /\ Contains(flagPage[w][page], ref)
  <2>1. page \in PageIndexes /\ ref \in ToSetOf(flagPage[w][page])
    BY <1>5 DEF PagesHolding
  <2>2. flagPage[w][page] \in Seq(MilestoneRef)
    BY <1>5, <2>1 DEF FlagType
  <2> QED
    BY <2>1, <2>2, SetOfList
<1>7. SUFFICES ASSUME NEW x \in Wallets
               PROVE  /\ "reviewed" \notin pageHistory'[x] =>
                           \E at \in PageIndexes : Filled(flagPage'[x], flagCount'[x], at)
                      /\ "paged" \notin pageHistory'[x] => OnFirst(flagPage'[x], flagCount'[x])
                      /\ pageHistory'[x] # {"paged", "reviewed"} =>
                           \A r \in swept'[x] \ cleared'[x] : Flagged(flagPage'[x], r)
  BY DEF FlagInv, Filled, OnFirst, Flagged
<1>8. CASE x # w
  <2>1. /\ flagPage'[x] = flagPage[x] /\ cleared'[x] = cleared[x] /\ swept'[x] = swept[x]
        /\ pageHistory'[x] = pageHistory[x]
    BY <1>4, <1>8 DEF FlagType
  <2>2. flagCount'[x] = flagCount[x]
    BY <1>4, <1>8 DEF CountLess, FlagType
  <2> QED
    BY <2>1, <2>2 DEF FlagInv
<1>9. CASE x = w
  <2>1. pageHistory'[w] = pageHistory[w] \cup {"reviewed"}
    BY <1>4, <1>5 DEF FlagType
  <2>2. pageHistory[w] \in SUBSET {"paged", "reviewed"}
    BY <1>5 DEF FlagType
  <2>3. CASE "paged" \in pageHistory[w]
    <3>1. pageHistory'[w] = {"paged", "reviewed"}
      BY <2>1, <2>2, <2>3
    <3> QED
      BY <1>9, <3>1
  <2>4. CASE "paged" \notin pageHistory[w]
    <3>1. PICK pages, count : pages = flagPage[w] /\ count = flagCount[w]
      OBVIOUS
    <3>2. pages \in [PageIndexes -> Seq(MilestoneRef)] /\ count \in Nat
      BY <1>5, <3>1 DEF FlagType
    <3>3. OnFirst(pages, count)
      BY <1>5, <2>4, <3>1 DEF FlagInv
    <3>4. page = 0
      <4>1. pages[page] # << >>
        <5>1. Len(<< >>) = 0
          OBVIOUS
        <5> QED
          BY <1>6, <3>1, <5>1 DEF Contains
      <4> QED
        BY <1>6, <3>3, <4>1 DEF OnFirst
    <3>5. PICK old \in Seq(MilestoneRef) : old = pages[0]
      BY <1>6, <3>2, <3>4
    <3>6. PICK rest \in Seq(MilestoneRef) : rest = Filter(old, MilestoneRef \ {ref})
      BY FilterType
    <3>7. Contains(old, ref) /\ Len(rest) < Len(old)
      BY <1>6, <3>1, <3>4, <3>5, <3>6, FilterShorter
    <3>8. flagPage'[w] = [pages EXCEPT ![0] = rest]
      BY <1>4, <1>5, <3>1, <3>4, <3>5, <3>6 DEF FlagType
    <3>9. flagCount'[w] = IF count > 0 THEN count - 1 ELSE 0
      BY <1>4, <1>5, <3>1 DEF CountLess, FlagType
    <3>10. PICK new, less : new = flagPage'[w] /\ less = flagCount'[w]
      OBVIOUS
    <3>11. new[0] = rest /\ \A i \in PageIndexes : i # 0 => new[i] = pages[i]
      BY <1>6, <3>2, <3>4, <3>8, <3>10
    <3>12. OnFirst(new, less)
      <4>1. Len(rest) \in Nat /\ Len(old) \in Nat /\ Len(old) <= count
            /\ count <= MILESTONE_FLAG_PAGE_SIZE
        BY <3>3, <3>5 DEF OnFirst
      <4>2. Len(rest) <= less /\ less <= MILESTONE_FLAG_PAGE_SIZE
        BY <3>2, <3>7, <3>9, <3>10, <4>1, FlagBounds
      <4> QED
        BY <3>3, <3>11, <4>2 DEF OnFirst
    <3>13. ASSUME NEW r \in swept'[w] \ cleared'[w] PROVE Flagged(new, r)
      <4>1. cleared'[w] = cleared[w] \cup ({ref} \cap swept[w]) /\ swept'[w] = swept[w]
        BY <1>4, <1>5 DEF FlagType
      <4>2. r \in swept[w] \ cleared[w] /\ r # ref
        BY <3>13, <4>1
      <4>3. pageHistory[w] # {"paged", "reviewed"}
        BY <2>4
      <4>4. PICK i \in PageIndexes : Contains(pages[i], r)
        BY <1>5, <3>1, <4>2, <4>3 DEF FlagInv, Flagged
      <4>5. r \in MilestoneRef
        BY <1>5, <4>2 DEF FlagType
      <4>6. i = 0 => Contains(rest, r)
        BY <3>5, <3>6, <4>2, <4>4, <4>5, FilterEntries
      <4> QED
        BY <3>11, <4>4, <4>6 DEF Flagged
    <3>14. "reviewed" \in pageHistory'[w]
      BY <2>1
    <3> QED
      BY <1>9, <3>10, <3>12, <3>13, <3>14
  <2> QED
    BY <2>3, <2>4
<1> QED
  BY <1>8, <1>9

\* How flags lie is kept by every step.
LEMMA FlagsStay == Spec => []FlagInv
<1>1. Init => FlagInv
  <2> SUFFICES ASSUME Init, NEW w \in Wallets
               PROVE  /\ \E at \in PageIndexes : Filled(flagPage[w], flagCount[w], at)
                      /\ OnFirst(flagPage[w], flagCount[w])
                      /\ swept[w] = {}
    BY DEF FlagInv
  <2>1. /\ flagPage[w] = [page \in PageIndexes |-> << >>] /\ flagCount[w] = 0
        /\ swept[w] = {}
    BY DEF Init
  <2>2. 0 \in PageIndexes /\ Len(<< >>) = 0 /\ MILESTONE_FLAG_PAGE_SIZE * 0 = 0
    BY FlagBounds DEF PageIndexes
  <2>3. Filled(flagPage[w], flagCount[w], 0)
    BY <2>1, <2>2, FlagBounds DEF Filled
  <2>4. OnFirst(flagPage[w], flagCount[w])
    BY <2>1, <2>2, FlagBounds DEF OnFirst
  <2> QED
    BY <2>1, <2>2, <2>3, <2>4
<1>2. TypeOKMilestones /\ FlagType /\ FlagInv /\ [Next]_vars => FlagInv'
  <2> SUFFICES ASSUME TypeOKMilestones, FlagType, FlagInv, [Next]_vars PROVE FlagInv'
    OBVIOUS
  <2>1. ASSUME Unswept PROVE FlagInv'
    BY <2>1 DEF Unswept, flags, FlagInv, Filled, OnFirst, Flagged
  <2>2. ASSUME RevokeStep \/ BatchRevokeStep PROVE FlagInv'
    <3>1. PICK list \in Seq(Wallets), severity \in RevocationSeverity, deferred \in BOOLEAN :
            Revoke(list, severity, deferred)
      BY <2>2, RevocationSteps
    <3>2. PICK ws : ws = ToSetOf(list)
      OBVIOUS
    <3>3. ws \subseteq Wallets
      BY <3>2 DEF ToSetOf
    <3>4. Cascade(ws, severity, deferred)
      BY <3>1, <3>2, Zenon DEF Revoke
    <3>5. PICK start \in [ws -> Nat], sub \in SUBSET ws : \E marked, dismissed :
            RunSweeps(sub, start, marked) /\ RecordSweeps(sub, start, dismissed)
      BY <3>3, <3>4, CascadeSweeps
    <3>6. PICK marked, dismissed :
            RunSweeps(sub, start, marked) /\ RecordSweeps(sub, start, dismissed)
      BY <3>5
    <3> QED
      BY <3>3, <3>6, SweepsKeepFlags
  <2>3. ASSUME ContinueStep PROVE FlagInv'
    <3>1. PICK w \in Wallets : ContinueRevocationCascade(w)
      BY <2>3 DEF ContinueStep
    <3>2. PICK start : start = [v \in {w} |-> TakeUp(v)]
      OBVIOUS
    <3>3. start \in [{w} -> Nat]
      BY <3>2, TakeUpType
    <3>4. RunSweeps({w}, start, {}) /\ RecordSweeps({w}, start, {})
      BY <3>1, <3>2, Zenon DEF ContinueRevocationCascade
    <3>5. {w} \subseteq Wallets
      OBVIOUS
    <3> QED
      BY <3>3, <3>4, <3>5, SweepsKeepFlags
  <2> QED
    BY <2>1, <2>2, <2>3, FlagSteps, RereviewKeepsFlags
<1> QED
  BY <1>1, <1>2, MilestonesAlways, FlagsAlways, PTL DEF Spec

\* run_cascade_sweep, rereview_milestone and is_milestone_flagged: what a cascade
\* flagged is reported until it is reviewed, through any number of dismissals,
\* slices and restorations, for any size of pages.
THEOREM FlagsStand == Spec => []FlagStandsUntilReviewed
<1>1. FlagInv /\ FlagType /\ TypeOKMilestones => FlagStandsUntilReviewed
  <2> SUFFICES ASSUME FlagInv, FlagType, TypeOKMilestones, NEW w \in Wallets,
                      pageHistory[w] # {"paged", "reviewed"},
                      NEW ref \in swept[w] \ cleared[w],
                      MilestoneAt(ref) # NONE, w \in ToSetOf(FlagWallets(ref))
               PROVE  IsMilestoneFlagged(ref)
    BY DEF FlagStandsUntilReviewed
  <2>1. PICK pages, count : pages = flagPage[w] /\ count = flagCount[w]
    OBVIOUS
  <2>2. pages \in [PageIndexes -> Seq(MilestoneRef)] /\ count \in Nat
    BY <2>1 DEF FlagType
  <2>3. PICK page \in PageIndexes : Contains(pages[page], ref)
    BY <2>1 DEF FlagInv, Flagged
  <2>4. page \in Nat /\ Len(pages[page]) \in Nat /\ Len(pages[page]) > 0
        /\ ref \in ToSetOf(pages[page])
    <3>1. pages[page] \in Seq(MilestoneRef)
      BY <2>2
    <3>2. PICK i \in 1..Len(pages[page]) : pages[page][i] = ref
      BY <2>3 DEF Contains
    <3> QED
      BY <2>3, <3>1, <3>2, SetOfList DEF PageIndexes
  <2>5. MILESTONE_FLAG_PAGE_SIZE * page < count
    <3>1. CASE "reviewed" \notin pageHistory[w]
      <4>1. PICK at \in PageIndexes : Filled(pages, count, at)
        BY <2>1, <3>1 DEF FlagInv
      <4>2. at \in Nat /\ count = MILESTONE_FLAG_PAGE_SIZE * at + Len(pages[at])
            /\ \A i \in PageIndexes : i > at => pages[i] = << >>
        BY <4>1 DEF Filled, PageIndexes
      <4>3. ~(page > at)
        <5>1. Len(<< >>) = 0
          OBVIOUS
        <5> QED
          BY <2>4, <4>2, <5>1
      <4>4. CASE page = at
        <5>1. PICK m \in Nat : m = MILESTONE_FLAG_PAGE_SIZE * at
          BY <4>2, FlagBounds
        <5>2. count = m + Len(pages[page])
          BY <4>2, <4>4, <5>1
        <5> QED
          BY <2>4, <4>4, <5>1, <5>2
      <4>5. CASE page < at
        <5>1. PICK d \in Nat : at = page + 1 + d
          <6>1. at - (page + 1) \in Nat /\ at = page + 1 + (at - (page + 1))
            BY <2>4, <4>2, <4>5
          <6> QED
            BY <6>1
        <5>2. PICK m \in Nat, n \in Nat : /\ m = MILESTONE_FLAG_PAGE_SIZE * page
                                          /\ n = MILESTONE_FLAG_PAGE_SIZE * d
          BY <2>4, <5>1, FlagBounds
        <5>3. MILESTONE_FLAG_PAGE_SIZE * at = m + MILESTONE_FLAG_PAGE_SIZE + n
          BY <2>4, <5>1, <5>2, FlagBounds
        <5>4. PICK len \in Nat : len = Len(pages[at])
          BY <2>2, <4>1
        <5>5. count = m + MILESTONE_FLAG_PAGE_SIZE + n + len
          BY <4>2, <5>3, <5>4
        <5>6. m < count
          BY <5>2, <5>4, <5>5, FlagBounds
        <5> QED
          BY <5>2, <5>6
      <4> QED
        BY <2>4, <4>2, <4>3, <4>4, <4>5
    <3>2. CASE "paged" \notin pageHistory[w]
      <4>1. OnFirst(pages, count)
        BY <2>1, <3>2 DEF FlagInv
      <4>2. page = 0
        <5>1. Len(<< >>) = 0
          OBVIOUS
        <5> QED
          BY <2>4, <4>1, <5>1 DEF OnFirst
      <4>3. Len(pages[0]) <= count /\ MILESTONE_FLAG_PAGE_SIZE * page = 0
        BY <4>1, <4>2, FlagBounds DEF OnFirst
      <4> QED
        BY <2>2, <2>4, <4>2, <4>3
    <3>3. pageHistory[w] \in SUBSET {"paged", "reviewed"}
      BY DEF FlagType
    <3> QED
      BY <3>1, <3>2, <3>3
  <2>6. page < PageCount(w)
    <3>1. PICK size \in Nat \ {0} : size = MILESTONE_FLAG_PAGE_SIZE
      BY FlagBounds
    <3>2. PICK sum \in Nat : sum = count + size - 1
      BY <2>2, <3>1
    <3>3. PICK q \in Nat, r \in 0..(size - 1) : q = sum \div size /\ sum = size * q + r
      BY Division
    <3>4. ~(page >= q)
      <4> SUFFICES ASSUME page >= q PROVE FALSE
        OBVIOUS
      <4>1. PICK d \in Nat : page = q + d
        <5>1. page - q \in Nat /\ page = q + (page - q)
          BY <2>4
        <5> QED
          BY <5>1
      <4>2. PICK m \in Nat, n \in Nat : m = size * q /\ n = size * d
        BY <3>1
      <4>3. size * page = m + n
        BY <4>1, <4>2
      <4>4. m + n < count
        BY <2>5, <3>1, <4>3
      <4>5. sum = m + r
        BY <3>3, <4>2
      <4>6. r \in Nat /\ r <= size - 1 /\ size \in Nat
        BY <3>1, <3>3
      <4>7. sum = count + size - 1 /\ m + n < count /\ sum = m + r
        BY <3>2, <4>4, <4>5
      <4> QED
        BY <2>2, <4>6, <4>7
    <3>5. PageCount(w) = q
      <4>1. PageCount(w) = (flagCount[w] + MILESTONE_FLAG_PAGE_SIZE - 1)
                             \div MILESTONE_FLAG_PAGE_SIZE
        BY Zenon DEF PageCount
      <4> QED
        BY <2>1, <3>1, <3>2, <3>3, <4>1, Zenon
    <3> QED
      BY <2>4, <3>4, <3>5
  <2>7. page \in PagesHolding(w, ref)
    BY <2>1, <2>3, <2>4, <2>6 DEF PagesHolding
  <2> QED
    BY <2>7 DEF IsMilestoneFlagged
<1> QED
  BY <1>1, FlagsStay, FlagsAlways, MilestonesAlways, PTL

----
(***************************************************************************)
(* What is kept beside the records of disputes, until an erasure begins.    *)
(***************************************************************************)
OpenEntries == {o \in DisputeEntry : Contains(openDisputeIndex, o)}
OpenOf(p) == {o \in OpenEntries : o.ref[1] = p}

\* The counters count the index of open disputes, which has each once.
OpenCounted ==
  /\ Distinct(openDisputeIndex)
  /\ activeDisputesCount = Cardinality(OpenEntries)
  /\ \A p \in Players : playerOpenDisputeCount[p] = Cardinality(OpenOf(p))

\* A player's listing has each disputed milestone once.
DisputesListed ==
  \A p \in Players :
    /\ playerDisputes[p] # NONE => Distinct(playerDisputes[p])
    /\ \A i \in Indexes :
         HasDispute(<<p, i>>) <=> playerDisputes[p] # NONE /\ Contains(playerDisputes[p], i)

\* The latest round has a dispute, and no other is open.
LatestRounds ==
  \A ref \in MilestoneRef :
    /\ HasDispute(ref) => dispute[ref][disputeRound[ref]] # NONE
    /\ SeedsInOrder => \A round \in DisputeRounds : Counted(ref, round) => round = disputeRound[ref]

OpenParts == OpenCounted /\ DisputesListed /\ LatestRounds

OpenInv == (\A p \in Players : NotErased(p)) => OpenParts

\* No list is the mark of a key that is absent.
LEMMA ListsAreThere == NONE \notin Seq(Indexes)
BY DisputeAssumption

\* An index without repetitions is a finite set of entries.
LEMMA OpenEntriesFinite ==
  ASSUME DisputeType, OpenCounted
  PROVE  /\ IsFiniteSet(OpenEntries) /\ Len(openDisputeIndex) = Cardinality(OpenEntries)
         /\ \A p : IsFiniteSet(OpenOf(p))
<1>1. openDisputeIndex \in Seq(DisputeEntry) /\ Distinct(openDisputeIndex)
  BY DEF DisputeType, TypeOKDisputes, OpenCounted
<1>2. IsFiniteSet(OpenEntries) /\ Len(openDisputeIndex) = Cardinality(OpenEntries)
  BY <1>1, DistinctLength, Zenon DEF OpenEntries
<1>3. \A p : OpenOf(p) \subseteq OpenEntries
  BY DEF OpenOf
<1> QED
  BY <1>2, <1>3, FS_Subset

\* A dispute is filed or replayed: its entry is new.
LEMMA OpenedEntry ==
  ASSUME DisputeType, OpenCounted, NEW ref \in MilestoneRef, NEW round \in DisputeRounds,
         ~Contains(openDisputeIndex, Entry(ref, round)),
         openDisputeIndex' = Append(openDisputeIndex, Entry(ref, round)),
         activeDisputesCount' = activeDisputesCount + 1,
         playerOpenDisputeCount' = [playerOpenDisputeCount EXCEPT ![ref[1]] = @ + 1]
  PROVE  OpenCounted'
<1>1. PICK e \in DisputeEntry : e = Entry(ref, round) /\ e.ref = ref
  BY DEF Entry, DisputeEntry
<1>2. openDisputeIndex \in Seq(DisputeEntry) /\ playerOpenDisputeCount \in [Players -> Nat]
  BY DEF DisputeType, TypeOKDisputes
<1>3. Distinct(openDisputeIndex)'
  <2>1. Distinct(Append(openDisputeIndex, e))
    BY <1>1, <1>2, AppendDistinct DEF OpenCounted
  <2> QED
    BY <1>1, <2>1 DEF Distinct
<1>4. \A x : Contains(openDisputeIndex', x) <=> Contains(openDisputeIndex, x) \/ x = e
  BY <1>1, <1>2, AppendEntries
<1>5. OpenEntries' = OpenEntries \cup {e} /\ e \notin OpenEntries
  BY <1>1, <1>4 DEF OpenEntries, Contains
<1>6. activeDisputesCount' = Cardinality(OpenEntries)'
  <2>1. Cardinality(OpenEntries \cup {e}) = Cardinality(OpenEntries) + 1
    BY <1>5, OpenEntriesFinite, FS_AddElement
  <2> QED
    BY <1>5, <2>1 DEF OpenCounted
<1>7. ASSUME NEW p \in Players
      PROVE  playerOpenDisputeCount'[p] = Cardinality(OpenOf(p))'
  <2>1. playerOpenDisputeCount[p] = Cardinality(OpenOf(p)) /\ IsFiniteSet(OpenOf(p))
    BY OpenEntriesFinite DEF OpenCounted
  <2>2. CASE p = ref[1]
    <3>1. OpenOf(p)' = OpenOf(p) \cup {e} /\ e \notin OpenOf(p)
      BY <1>1, <1>5, <2>2 DEF OpenOf
    <3>2. Cardinality(OpenOf(p) \cup {e}) = Cardinality(OpenOf(p)) + 1
      BY <2>1, <3>1, FS_AddElement
    <3>3. playerOpenDisputeCount'[p] = playerOpenDisputeCount[p] + 1
      BY <1>2, <2>2
    <3> QED
      BY <2>1, <3>1, <3>2, <3>3
  <2>3. CASE p # ref[1]
    <3>1. OpenOf(p)' = OpenOf(p)
      BY <1>1, <1>5, <2>3 DEF OpenOf
    <3> QED
      BY <1>2, <2>1, <2>3, <3>1
  <2> QED
    BY <2>2, <2>3
<1> QED
  BY <1>3, <1>6, <1>7 DEF OpenCounted

\* A dispute is closed: its entry goes.
LEMMA ClosedEntry ==
  ASSUME DisputeType, OpenCounted, NEW ref \in MilestoneRef, NEW round \in DisputeRounds,
         Contains(openDisputeIndex, Entry(ref, round)),
         openDisputeIndex' = Filter(openDisputeIndex, DisputeEntry \ {Entry(ref, round)}),
         CountClosed(ref[1])
  PROVE  OpenCounted'
<1>1. PICK e \in DisputeEntry : e = Entry(ref, round) /\ e.ref = ref
  BY DEF Entry, DisputeEntry
<1>2. openDisputeIndex \in Seq(DisputeEntry) /\ playerOpenDisputeCount \in [Players -> Nat]
  BY DEF DisputeType, TypeOKDisputes
<1>3. Distinct(openDisputeIndex)'
  <2>1. Distinct(Filter(openDisputeIndex, DisputeEntry \ {e}))
    BY <1>2, FilterDistinct DEF OpenCounted
  <2> QED
    BY <1>1, <2>1 DEF Distinct
<1>4. \A x : Contains(openDisputeIndex', x) <=>
               x \in DisputeEntry \ {e} /\ Contains(openDisputeIndex, x)
  BY <1>1, <1>2, FilterEntries
<1>5. OpenEntries' = OpenEntries \ {e} /\ e \in OpenEntries
  BY <1>1, <1>4 DEF OpenEntries, Contains
<1>6. activeDisputesCount' = Cardinality(OpenEntries)'
  <2>1. Cardinality(OpenEntries \ {e}) = Cardinality(OpenEntries) - 1
    BY <1>5, OpenEntriesFinite, FS_RemoveElement
  <2> QED
    BY <1>5, <2>1 DEF OpenCounted, CountClosed
<1>7. ASSUME NEW p \in Players
      PROVE  playerOpenDisputeCount'[p] = Cardinality(OpenOf(p))'
  <2>1. playerOpenDisputeCount[p] = Cardinality(OpenOf(p)) /\ IsFiniteSet(OpenOf(p))
    BY OpenEntriesFinite DEF OpenCounted
  <2>2. CASE p = ref[1]
    <3>1. OpenOf(p)' = OpenOf(p) \ {e} /\ e \in OpenOf(p)
      BY <1>1, <1>5, <2>2 DEF OpenOf
    <3>2. Cardinality(OpenOf(p) \ {e}) = Cardinality(OpenOf(p)) - 1
      BY <2>1, <3>1, FS_RemoveElement
    <3>3. playerOpenDisputeCount[p] \in Nat /\ playerOpenDisputeCount[p] # 0
      BY <1>2, <2>1, <3>1, FS_EmptySet
    <3>4. playerOpenDisputeCount'[p] = playerOpenDisputeCount[p] - 1
      BY <1>2, <2>2, <3>3 DEF CountClosed
    <3> QED
      BY <2>1, <3>1, <3>2, <3>4
  <2>3. CASE p # ref[1]
    <3>1. OpenOf(p)' = OpenOf(p)
      BY <1>1, <1>5, <2>3 DEF OpenOf
    <3> QED
      BY <1>2, <2>1, <2>3, <3>1 DEF CountClosed
  <2> QED
    BY <2>2, <2>3
<1> QED
  BY <1>3, <1>6, <1>7 DEF OpenCounted

\* A milestone disputed again is listed once.
LEMMA ListedOnce ==
  ASSUME DisputeType, DisputesListed, NEW ref \in MilestoneRef,
         playerDisputes' =
           [playerDisputes EXCEPT ![ref[1]] = PlayerDisputesWith(ref[1], ref[2])],
         \A r \in MilestoneRef : HasDispute(r)' <=> HasDispute(r) \/ r = ref
  PROVE  DisputesListed'
<1> SUFFICES ASSUME NEW p \in Players
             PROVE  /\ playerDisputes'[p] # NONE => Distinct(playerDisputes'[p])
                    /\ \A i \in Indexes :
                         HasDispute(<<p, i>>)' <=>
                           playerDisputes'[p] # NONE /\ Contains(playerDisputes'[p], i)
  BY DEF DisputesListed, Distinct, Contains
<1>1. playerDisputes \in [Players -> Seq(Indexes) \cup {NONE}]
  BY DEF DisputeType, TypeOKDisputes
<1>2. ref[1] \in Players /\ ref[2] \in Indexes /\ ref = <<ref[1], ref[2]>>
  BY DEF MilestoneRef
<1>3. \A i \in Indexes : <<p, i>> \in MilestoneRef
  BY DEF MilestoneRef
<1>4. CASE p # ref[1]
  <2>1. playerDisputes'[p] = playerDisputes[p]
    BY <1>1, <1>2, <1>4
  <2>2. \A i \in Indexes : HasDispute(<<p, i>>)' <=> HasDispute(<<p, i>>)
    BY <1>2, <1>3, <1>4
  <2> QED
    BY <2>1, <2>2 DEF DisputesListed
<1>5. CASE p = ref[1]
  <2>1. PICK list : list = PlayerDisputesWith(p, ref[2])
    OBVIOUS
  <2>2. playerDisputes'[p] = list
    BY <1>1, <1>5, <2>1
  <2>3. /\ list # NONE /\ Distinct(list)
        /\ \A i \in Indexes : Contains(list, i) <=> HasDispute(<<p, i>>) \/ i = ref[2]
    <3>1. CASE playerDisputes[p] = NONE
      <4>1. list = <<ref[2]>>
        BY <2>1, <3>1, Zenon DEF PlayerDisputesWith
      <4>2. \A x : Contains(list, x) <=> x = ref[2]
        BY <4>1 DEF Contains
      <4>3. list \in Seq(Indexes) /\ Distinct(list)
        BY <1>2, <4>1 DEF Distinct
      <4> QED
        BY <3>1, <4>2, <4>3, ListsAreThere DEF DisputesListed
    <3>2. CASE playerDisputes[p] # NONE
      <4>1. PICK old \in Seq(Indexes) : old = playerDisputes[p]
        BY <1>1, <3>2
      <4>2. /\ Distinct(old)
            /\ \A i \in Indexes : HasDispute(<<p, i>>) <=> Contains(old, i)
        BY <3>2, <4>1 DEF DisputesListed
      <4>3. CASE Contains(old, ref[2])
        <5>1. list = old
          BY <2>1, <3>2, <4>1, <4>3, SetOfList, Zenon DEF PlayerDisputesWith
        <5> QED
          BY <3>2, <4>1, <4>2, <4>3, <5>1
      <4>4. CASE ~Contains(old, ref[2])
        <5>1. list = Append(old, ref[2])
          BY <2>1, <3>2, <4>1, <4>4, SetOfList, Zenon DEF PlayerDisputesWith
        <5>2. Distinct(list) /\ list \in Seq(Indexes)
          BY <1>2, <4>2, <4>4, <5>1, AppendDistinct
        <5>3. \A x : Contains(list, x) <=> Contains(old, x) \/ x = ref[2]
          BY <1>2, <5>1, AppendEntries
        <5> QED
          BY <4>2, <5>2, <5>3, ListsAreThere
      <4> QED
        BY <4>3, <4>4
    <3> QED
      BY <3>1, <3>2
  <2>4. \A i \in Indexes : HasDispute(<<p, i>>)' <=> HasDispute(<<p, i>>) \/ i = ref[2]
    BY <1>2, <1>3, <1>5
  <2> QED
    BY <2>2, <2>3, <2>4
<1> QED
  BY <1>4, <1>5

----
\* What no step touches of the rounds and the listings stays exact: a vote, a
\* dismissal and all that is not about disputes.
LEMMA OpenKept ==
  ASSUME OpenParts, UNCHANGED <<disputeRound, openness>>,
         \A ref \in MilestoneRef, round \in DisputeRounds :
           /\ dispute'[ref][round] # NONE <=> dispute[ref][round] # NONE
           /\ Counted(ref, round)' => Counted(ref, round),
         \A ref \in MilestoneRef : HasDispute(ref) => disputeRound[ref] \in DisputeRounds
  PROVE  OpenParts'
<1>1. UNCHANGED <<playerDisputes, activeDisputesCount, playerOpenDisputeCount, openDisputeIndex>>
  BY DEF openness
<1>2. OpenEntries' = OpenEntries
  BY <1>1 DEF OpenEntries, Contains
<1>3. \A p : OpenOf(p)' = OpenOf(p)
  BY <1>2 DEF OpenOf
<1>4. OpenCounted'
  BY <1>1, <1>2, <1>3 DEF OpenParts, OpenCounted, Distinct
<1>5. \A ref : HasDispute(ref)' <=> HasDispute(ref)
  BY DEF HasDispute
<1>6. DisputesListed'
  BY <1>1, <1>5 DEF OpenParts, DisputesListed, Distinct, Contains
<1>7. LatestRounds'
  <2>1. SeedsInOrder' <=> SeedsInOrder
    BY DEF SeedsInOrder
  <2>2. ASSUME NEW ref \in MilestoneRef, HasDispute(ref)'
        PROVE  dispute'[ref][disputeRound'[ref]] # NONE
    BY <1>5, <2>2 DEF OpenParts, LatestRounds
  <2>3. ASSUME NEW ref \in MilestoneRef, SeedsInOrder, NEW round \in DisputeRounds,
               Counted(ref, round)'
        PROVE  round = disputeRound'[ref]
    BY <2>3 DEF OpenParts, LatestRounds
  <2> QED
    BY <2>1, <2>2, <2>3 DEF LatestRounds
<1> QED
  BY <1>4, <1>6, <1>7 DEF OpenParts

\* cast_dispute_vote counts a vote.
LEMMA VotedOpen ==
  ASSUME DisputeType, OpenParts, VoteStep
  PROVE  OpenParts'
<1>1. PICK w \in Wallets, r \in MilestoneRef, so \in BOOLEAN, n \in DisputeRounds,
           d \in MilestoneDispute :
           /\ n = disputeRound[r] /\ d = dispute[r][n] /\ ~d.resolved
           /\ dispute' = [dispute EXCEPT ![r][n] = CountVote(d, so)]
           /\ UNCHANGED <<disputeRound, openness>>
  BY VotingEffect DEF DisputeType
<1>2. PICK c \in MilestoneDispute : c = CountVote(d, so)
  BY CountVoteType
<1>3. ~c.resolved /\ c # NONE /\ d # NONE
  BY <1>1, <1>2, CountVoteType, DisputeBounds
<1>4. /\ dispute \in [MilestoneRef -> [DisputeRounds -> MilestoneDispute \cup {NONE}]]
      /\ disputeRound \in [MilestoneRef -> DisputeRounds \cup {NONE}]
  BY DEF DisputeType, TypeOKDisputes
<1>5. ASSUME NEW ref \in MilestoneRef, NEW round \in DisputeRounds
      PROVE  /\ dispute'[ref][round] # NONE <=> dispute[ref][round] # NONE
             /\ Counted(ref, round)' => Counted(ref, round)
  <2>1. CASE ref = r /\ round = n
    <3>1. dispute'[ref][round] = c /\ dispute[ref][round] = d
      BY <1>1, <1>2, <1>4, <2>1
    <3> QED
      BY <1>1, <1>3, <3>1 DEF Counted
  <2>2. CASE ~(ref = r /\ round = n)
    <3>1. dispute'[ref][round] = dispute[ref][round]
      BY <1>1, <1>4, <2>2
    <3> QED
      BY <3>1 DEF Counted
  <2> QED
    BY <2>1, <2>2
<1> QED
  BY <1>1, <1>4, <1>5, OpenKept DEF HasDispute

\* A revocation of any kind: a dismissal takes votes back.
LEMMA RevokedOpen ==
  ASSUME DisputeType, OpenParts, RevokeStep \/ BatchRevokeStep
  PROVE  OpenParts'
<1>1. PICK ws \in Seq(Wallets), severity \in RevocationSeverity, deferred \in BOOLEAN :
        Revoke(ws, severity, deferred)
  BY RevocationSteps
<1>2. PICK set : set = ToSetOf(ws)
  OBVIOUS
<1>3. DismissedVotesGo(set, severity) /\ UNCHANGED <<disputeRound, openness>>
  BY <1>1, <1>2 DEF Revoke
<1>4. /\ dispute \in [MilestoneRef -> [DisputeRounds -> MilestoneDispute \cup {NONE}]]
      /\ disputeRound \in [MilestoneRef -> DisputeRounds \cup {NONE}]
      /\ IsFiniteSet(disputeVote)
  BY DEF DisputeType, TypeOKDisputes
<1>5. ASSUME NEW ref \in MilestoneRef, NEW round \in DisputeRounds
      PROVE  /\ dispute'[ref][round] # NONE <=> dispute[ref][round] # NONE
             /\ Counted(ref, round)' => Counted(ref, round)
  <2>1. CASE severity # ForCause
    <3>1. dispute' = dispute
      BY <1>3, <2>1 DEF DismissedVotesGo
    <3> QED
      BY <3>1 DEF Counted
  <2>2. CASE severity = ForCause
    <3>1. PICK gone : gone = RemovedFrom(set, ref, round)
      OBVIOUS
    <3>2. dispute'[ref][round] = IF Counted(ref, round)
                                 THEN TallyWithout(dispute[ref][round], gone)
                                 ELSE dispute[ref][round]
      BY <1>3, <2>2, <3>1, RemovalEffect DEF DismissedVotesGo
    <3>3. CASE Counted(ref, round)
      <4>1. PICK d \in MilestoneDispute : d = dispute[ref][round]
        BY <1>4, <3>3 DEF Counted
      <4>2. PICK t : t = TallyWithout(d, gone)
        OBVIOUS
      <4>3. IsFiniteSet(gone)
        <5>1. gone \subseteq disputeVote
          BY <3>1 DEF RemovedFrom, OpenVotesOf
        <5> QED
          BY <1>4, <5>1, FS_Subset
      <4>4. t # NONE
        BY <4>2, <4>3, TallyWithoutIs, DisputeBounds
      <4> QED
        BY <3>2, <3>3, <4>1, <4>2, <4>4 DEF Counted
    <3>4. CASE ~Counted(ref, round)
      BY <3>2, <3>4 DEF Counted
    <3> QED
      BY <3>3, <3>4
  <2> QED
    BY <2>1, <2>2
<1> QED
  BY <1>3, <1>4, <1>5, OpenKept DEF HasDispute

----
\* dispute_milestone opens the round after the latest, which is closed.
LEMMA FiledOpen ==
  ASSUME TypeOKRegistry, TypeOKMilestones, DisputeType, OpenParts, DisputeStep,
         \A ref \in MilestoneRef, round \in DisputeRounds : RoundInv(ref, round)
  PROVE  OpenParts'
<1>1. PICK p \in Players, i \in Indexes, impact \in Nat : DisputeMilestone(p, i, impact)
  BY DisputeAssumption DEF DisputeStep
<1>2. PICK r \in MilestoneRef : r = <<p, i>>
  BY DEF MilestoneRef
<1>3. PICK n : n = NextRound(r)
  OBVIOUS
<1>4. PICK d : d = Filed(r, impact)
  OBVIOUS
<1>5. /\ MilestoneAt(r) # NONE /\ MayReopen(r)
      /\ Registered(MilestoneAt(r).validator)
      /\ dispute' = [dispute EXCEPT ![r][n] = d]
      /\ disputeRound' = [disputeRound EXCEPT ![r] = n]
      /\ playerDisputes' = [playerDisputes EXCEPT ![r[1]] = PlayerDisputesWith(r[1], r[2])]
      /\ activeDisputesCount' = activeDisputesCount + 1
      /\ playerOpenDisputeCount' = [playerOpenDisputeCount EXCEPT ![r[1]] = @ + 1]
      /\ openDisputeIndex' = Append(openDisputeIndex, Entry(r, n))
  BY <1>1, <1>2, <1>3, <1>4 DEF DisputeMilestone, Entry
<1>6. n \in DisputeRounds /\ n \in Nat /\ n # NONE /\ d \in MilestoneDispute /\ d # NONE
  BY <1>3, <1>4, <1>5, NextRoundType, FiledType, DisputeBounds DEF DisputeType
<1>7. /\ dispute \in [MilestoneRef -> [DisputeRounds -> MilestoneDispute \cup {NONE}]]
      /\ disputeRound \in [MilestoneRef -> DisputeRounds \cup {NONE}]
  BY DEF DisputeType, TypeOKDisputes
<1>8. HasDispute(r) => disputeRound[r] \in Nat /\ n = disputeRound[r] + 1
  BY <1>3, <1>7, DisputeBounds DEF HasDispute, NextRound
<1>9. dispute[r][n] = NONE
  BY <1>6, <1>8 DEF RoundInv, Verdicts, Begun
<1>10. ~Contains(openDisputeIndex, Entry(r, n))
  BY <1>6, <1>9 DEF RoundInv, Session, Counted
<1>11. OpenCounted'
  BY <1>5, <1>6, <1>10, OpenedEntry DEF OpenParts
<1>12. \A ref \in MilestoneRef : HasDispute(ref)' <=> HasDispute(ref) \/ ref = r
  BY <1>5, <1>6, <1>7 DEF HasDispute
<1>13. DisputesListed'
  BY <1>5, <1>12, ListedOnce DEF OpenParts
<1>14. ASSUME NEW ref \in MilestoneRef
       PROVE  /\ HasDispute(ref)' => dispute'[ref][disputeRound'[ref]] # NONE
              /\ SeedsInOrder => \A round \in DisputeRounds :
                   Counted(ref, round)' => round = disputeRound'[ref]
  <2>1. CASE ref # r
    <3>1. dispute'[ref] = dispute[ref] /\ disputeRound'[ref] = disputeRound[ref]
      BY <1>5, <1>7, <2>1
    <3> QED
      BY <1>12, <2>1, <3>1 DEF OpenParts, LatestRounds, Counted
  <2>2. CASE ref = r
    <3>1. disputeRound'[ref] = n /\ dispute'[ref][n] = d
      BY <1>5, <1>6, <1>7, <2>2
    <3>2. ASSUME SeedsInOrder, NEW round \in DisputeRounds, Counted(ref, round)', round # n
          PROVE  FALSE
      <4>1. dispute'[ref][round] = dispute[ref][round]
        BY <1>5, <1>7, <2>2, <3>2
      <4>2. Counted(ref, round)
        BY <3>2, <4>1 DEF Counted
      <4>3. HasDispute(ref)
        BY <4>2 DEF Counted, RoundInv, Verdicts, Begun
      <4>4. round = disputeRound[ref]
        BY <3>2, <4>2 DEF OpenParts, LatestRounds
      <4>5. GetDispute(ref).resolved
        BY <1>5, <2>2, <4>3 DEF MayReopen
      <4> QED
        BY <4>2, <4>4, <4>5 DEF GetDispute, Counted
    <3> QED
      BY <1>6, <3>1, <3>2
  <2> QED
    BY <2>1, <2>2
<1>15. LatestRounds'
  BY <1>14 DEF LatestRounds, SeedsInOrder
<1> QED
  BY <1>11, <1>13, <1>15 DEF OpenParts

\* resolve_dispute and tally_dispute close the latest round.
LEMMA ClosedOpen ==
  ASSUME TypeOKRegistry, DisputeType, OpenParts, ResolveStep \/ TallyStep,
         \A ref \in MilestoneRef, round \in DisputeRounds : RoundInv(ref, round)
  PROVE  OpenParts'
<1>1. PICK r \in MilestoneRef, upheld \in BOOLEAN :
        /\ Disputed(r) /\ ~GetDispute(r).resolved
        /\ CloseDispute(r, upheld)
  BY ClosingSteps DEF DisputeType
<1>2. PICK n : /\ n = disputeRound[r]
           /\ dispute' = [dispute EXCEPT ![r][n] = ClosedDispute(@, upheld)]
           /\ CountClosed(r[1])
           /\ openDisputeIndex' = Filter(openDisputeIndex, DisputeEntry \ {Entry(r, n)})
           /\ UNCHANGED <<disputeRound, playerDisputes>>
  BY <1>1, ClosingEffect DEF DisputeType, Entry
<1>3. PICK d \in MilestoneDispute : d = GetDispute(r) /\ d = dispute[r][n]
  BY <1>1, <1>2, LatestDispute DEF DisputeType
<1>4. n \in DisputeRounds /\ ~d.resolved /\ d # NONE
  BY <1>1, <1>2, <1>3, LatestDispute, DisputeBounds DEF DisputeType
<1>5. /\ dispute \in [MilestoneRef -> [DisputeRounds -> MilestoneDispute \cup {NONE}]]
      /\ disputeRound \in [MilestoneRef -> DisputeRounds \cup {NONE}]
  BY DEF DisputeType, TypeOKDisputes
<1>6. PICK c : c = ClosedDispute(d, upheld)
  OBVIOUS
<1>7. c \in MilestoneDispute /\ c # NONE /\ c.resolved
  BY <1>6, ClosedDisputeType, RegistryBounds, DisputeBounds DEF TypeOKRegistry
<1>8. dispute' = [dispute EXCEPT ![r][n] = c]
  BY <1>2, <1>3, <1>4, <1>5, <1>6
<1>9. Contains(openDisputeIndex, Entry(r, n))
  BY <1>3, <1>4 DEF RoundInv, Session, Counted
<1>10. OpenCounted'
  BY <1>2, <1>4, <1>9, ClosedEntry DEF OpenParts
<1>11. \A ref : HasDispute(ref)' <=> HasDispute(ref)
  BY <1>2 DEF HasDispute
<1>12. DisputesListed'
  BY <1>2, <1>11 DEF OpenParts, DisputesListed, Distinct, Contains
<1>13. ASSUME NEW ref \in MilestoneRef, NEW round \in DisputeRounds
       PROVE  /\ dispute'[ref][round] # NONE <=> dispute[ref][round] # NONE
              /\ Counted(ref, round)' => Counted(ref, round)
  <2>1. CASE ref = r /\ round = n
    <3>1. dispute'[ref][round] = c /\ dispute[ref][round] = d
      BY <1>3, <1>4, <1>5, <1>8, <2>1
    <3> QED
      BY <1>4, <1>7, <3>1 DEF Counted
  <2>2. CASE ~(ref = r /\ round = n)
    <3>1. dispute'[ref][round] = dispute[ref][round]
      BY <1>4, <1>5, <1>8, <2>2
    <3> QED
      BY <3>1 DEF Counted
  <2> QED
    BY <2>1, <2>2
<1>14. LatestRounds'
  <2>1. ASSUME NEW ref \in MilestoneRef, HasDispute(ref)
        PROVE  dispute'[ref][disputeRound[ref]] # NONE
    <3>1. disputeRound[ref] \in DisputeRounds
      BY <1>5, <2>1 DEF HasDispute
    <3> QED
      BY <1>13, <2>1, <3>1 DEF OpenParts, LatestRounds
  <2>2. ASSUME NEW ref \in MilestoneRef, SeedsInOrder, NEW round \in DisputeRounds,
               Counted(ref, round)'
        PROVE  round = disputeRound[ref]
    BY <1>13, <2>2 DEF OpenParts, LatestRounds
  <2> QED
    BY <1>2, <1>11, <2>1, <2>2 DEF LatestRounds, SeedsInOrder
<1> QED
  BY <1>10, <1>12, <1>14 DEF OpenParts

\* admin_seed_dispute writes a round that is not there, beside others replayed.
LEMMA ReplayedOpen ==
  ASSUME DisputeType, OpenParts, SeedDisputeStep,
         \A ref \in MilestoneRef, round \in DisputeRounds : RoundInv(ref, round)
  PROVE  OpenParts'
<1>1. PICK r \in MilestoneRef, n \in DisputeRounds, d \in MilestoneDispute, opens \in BOOLEAN :
        ReplayedDispute(r, n, d, opens)
  BY SeedDisputeEffect
<1>2. /\ [ref |-> r, round |-> n, d |-> d] \in SeedDisputes
      /\ opens = (~d.resolved /\ Entry(r, n) \notin ToSetOf(openDisputeIndex))
      /\ dispute[r][n] = NONE
      /\ \A m \in DisputeRounds : dispute[r][m] # NONE =>
           [ref |-> r, round |-> m, d |-> dispute[r][m]] \in SeedDisputes
      /\ dispute' = [dispute EXCEPT ![r][n] = d]
      /\ disputeRound' =
           IF HasDispute(r) /\ n < disputeRound[r] THEN disputeRound
           ELSE [disputeRound EXCEPT ![r] = n]
      /\ playerDisputes' = [playerDisputes EXCEPT ![r[1]] = PlayerDisputesWith(r[1], r[2])]
      /\ openDisputeIndex' =
           IF opens THEN Append(openDisputeIndex, Entry(r, n)) ELSE openDisputeIndex
      /\ activeDisputesCount' = activeDisputesCount + (IF opens THEN 1 ELSE 0)
      /\ playerOpenDisputeCount' =
           [playerOpenDisputeCount EXCEPT ![r[1]] = @ + (IF opens THEN 1 ELSE 0)]
  BY <1>1, Zenon DEF ReplayedDispute, Entry
<1>3. /\ dispute \in [MilestoneRef -> [DisputeRounds -> MilestoneDispute \cup {NONE}]]
      /\ disputeRound \in [MilestoneRef -> DisputeRounds \cup {NONE}]
      /\ openDisputeIndex \in Seq(DisputeEntry)
      /\ activeDisputesCount \in Nat /\ playerOpenDisputeCount \in [Players -> Nat]
  BY DEF DisputeType, TypeOKDisputes
<1>4. n \in Nat /\ n # NONE /\ d # NONE
  BY DisputeBounds
<1>5. ~Contains(openDisputeIndex, Entry(r, n))
  BY <1>2 DEF RoundInv, Session, Counted
<1>6. OpenCounted'
  <2>1. CASE opens
    <3>1. /\ openDisputeIndex' = Append(openDisputeIndex, Entry(r, n))
          /\ activeDisputesCount' = activeDisputesCount + 1
          /\ playerOpenDisputeCount' = [playerOpenDisputeCount EXCEPT ![r[1]] = @ + 1]
      BY <1>2, <2>1
    <3> QED
      BY <1>5, <3>1, OpenedEntry DEF OpenParts
  <2>2. CASE ~opens
    <3>1. UNCHANGED <<openDisputeIndex, activeDisputesCount>>
      BY <1>2, <1>3, <2>2
    <3>2. \A p \in Players : playerOpenDisputeCount'[p] = playerOpenDisputeCount[p]
      BY <1>2, <1>3, <2>2
    <3>3. OpenEntries' = OpenEntries
      BY <3>1 DEF OpenEntries, Contains
    <3>4. \A p : OpenOf(p)' = OpenOf(p)
      BY <3>3 DEF OpenOf
    <3> QED
      BY <3>1, <3>2, <3>3, <3>4 DEF OpenParts, OpenCounted, Distinct
  <2> QED
    BY <2>1, <2>2
<1>7. \A ref \in MilestoneRef : HasDispute(ref)' <=> HasDispute(ref) \/ ref = r
  BY <1>2, <1>3, <1>4 DEF HasDispute
<1>8. DisputesListed'
  BY <1>2, <1>7, ListedOnce DEF OpenParts
<1>9. HasDispute(r) => disputeRound[r] \in DisputeRounds /\ disputeRound[r] \in Nat
  BY <1>3, DisputeBounds DEF HasDispute
<1>10. ASSUME NEW ref \in MilestoneRef
       PROVE  /\ HasDispute(ref)' => dispute'[ref][disputeRound'[ref]] # NONE
              /\ SeedsInOrder => \A round \in DisputeRounds :
                   Counted(ref, round)' => round = disputeRound'[ref]
  <2>1. CASE ref # r
    <3>1. dispute'[ref] = dispute[ref] /\ disputeRound'[ref] = disputeRound[ref]
      BY <1>2, <1>3, <2>1
    <3> QED
      BY <1>7, <2>1, <3>1 DEF OpenParts, LatestRounds, Counted
  <2>2. CASE ref = r /\ HasDispute(r) /\ n < disputeRound[r]
    <3>1. PICK m \in DisputeRounds : m = disputeRound[r] /\ m \in Nat /\ m # n
      BY <1>4, <1>9, <2>2
    <3>2. dispute[r][m] # NONE
      BY <2>2, <3>1 DEF OpenParts, LatestRounds
    <3>3. disputeRound'[ref] = m /\ dispute'[ref][m] # NONE
      BY <1>2, <1>3, <2>2, <3>1, <3>2
    <3>4. ASSUME SeedsInOrder, NEW round \in DisputeRounds, Counted(ref, round)'
          PROVE  round = m
      <4>1. CASE round = n
        <5>1. ~d.resolved
          BY <1>2, <1>3, <2>2, <3>4, <4>1 DEF Counted
        <5>2. m <= n
          BY <1>2, <3>2, <3>4, <5>1 DEF SeedsInOrder
        <5> QED
          BY <1>4, <2>2, <3>1, <5>2
      <4>2. CASE round # n
        <5>1. Counted(ref, round)
          BY <1>2, <1>3, <2>2, <3>4, <4>2 DEF Counted
        <5> QED
          BY <2>2, <3>1, <3>4, <5>1 DEF OpenParts, LatestRounds
      <4> QED
        BY <4>1, <4>2
    <3> QED
      BY <3>3, <3>4
  <2>3. CASE ref = r /\ ~(HasDispute(r) /\ n < disputeRound[r])
    <3>1. disputeRound'[ref] = n /\ dispute'[ref][n] = d
      BY <1>2, <1>3, <2>3
    <3>2. ASSUME SeedsInOrder, NEW round \in DisputeRounds, Counted(ref, round)', round # n
          PROVE  FALSE
      <4>1. Counted(ref, round)
        BY <1>2, <1>3, <2>3, <3>2 DEF Counted
      <4>2. HasDispute(ref)
        BY <4>1 DEF Counted, RoundInv, Verdicts, Begun
      <4>3. round = disputeRound[ref]
        BY <3>2, <4>1 DEF OpenParts, LatestRounds
      <4>4. n <= round
        <5>1. PICK e : e = dispute[r][round]
          OBVIOUS
        <5>2. [ref |-> r, round |-> round, d |-> e] \in SeedDisputes /\ ~e.resolved
          BY <1>2, <2>3, <3>2, <4>1, <5>1 DEF Counted
        <5> QED
          BY <1>2, <3>2, <5>2 DEF SeedsInOrder
      <4> QED
        BY <1>4, <1>9, <2>3, <3>2, <4>2, <4>3, <4>4
    <3> QED
      BY <1>4, <3>1, <3>2
  <2> QED
    BY <2>1, <2>2, <2>3
<1>11. LatestRounds'
  BY <1>10 DEF LatestRounds, SeedsInOrder
<1> QED
  BY <1>6, <1>8, <1>11 DEF OpenParts

----
\* Where no erasure has begun, none had.
LEMMA NoErasureBefore ==
  ASSUME RegistryInv, ClaimInv, RateType, [Next]_vars, \A p \in Players : NotErased(p)'
  PROVE  (\A p \in Players : NotErased(p)) /\ ~PurgeStep
<1>1. ASSUME PurgeStep PROVE FALSE
  <2>1. PICK p \in Players : PurgePlayerData(p)
    BY <1>1 DEF PurgeStep
  <2>2. ~NotErased(p)'
    BY <2>1, ErasureBegins
  <2> QED
    BY <2>2
<1>2. CASE ApproveStep \/ AttestCommitStep \/ SubmitStep
  <2>1. PICK w \in Wallets, p \in Players, e \in Evidence, d \in Descriptions,
             attestors \in Seq(Wallets) : Committing(w, p, e, d, attestors)
    BY <1>2, CommitSteps
  <2>2. erasureCursor' = erasureCursor
    BY <2>1 DEF Committing, Unregistering, Rest
  <2> QED
    BY <1>1, <2>2 DEF NotErased
<1>3. CASE SeedMilestoneStep \/ ClockStep
  <2>1. erasureCursor' = erasureCursor
    BY <1>3 DEF SeedMilestoneStep, ClockStep, Rest
  <2> QED
    BY <1>1, <2>1 DEF NotErased
<1>4. ASSUME Unrated
      PROVE  (\A p \in Players : NotErased(p)) /\ ~PurgeStep
  BY <1>1, <1>4 DEF Unrated, NotErased
<1>5. CASE UNCHANGED vars
  BY <1>1, <1>5 DEF vars, NotErased
<1> QED
  BY <1>1, <1>2, <1>3, <1>4, <1>5, RegistryLeavesRate, SettingsLeaveRate, DisputesLeaveRate
     DEF Next

\* The invariant of open disputes holds throughout.
LEMMA OpenStays ==
  RegistryInv /\ ClaimInv /\ TypeOKMilestones /\ DisputeType /\ RateInv /\ Numbered
    /\ JuryInv /\ OpenInv /\ [Next]_vars => OpenInv'
<1> SUFFICES ASSUME RegistryInv, ClaimInv, TypeOKMilestones, DisputeType, RateInv, Numbered,
                    JuryInv, OpenInv, [Next]_vars, \A p \in Players : NotErased(p)'
             PROVE  OpenParts'
  BY DEF OpenInv
<1>1. OpenParts /\ ~PurgeStep
  BY NoErasureBefore DEF OpenInv, RateInv
<1>2. \A ref \in MilestoneRef, round \in DisputeRounds : RoundInv(ref, round)
  <2>1. ASSUME NEW ref \in MilestoneRef PROVE NotErased(ref[1])
    <3>1. ref[1] \in Players
      BY DEF MilestoneRef
    <3> QED
      BY <3>1, NoErasureBefore DEF RateInv
  <2> QED
    BY <2>1 DEF JuryInv
<1>3. TypeOKRegistry
  BY DEF RegistryInv
<1>4. CASE DisputeStep
  BY <1>1, <1>2, <1>3, <1>4, FiledOpen
<1>5. CASE ResolveStep \/ TallyStep
  BY <1>1, <1>2, <1>3, <1>5, ClosedOpen
<1>6. CASE VoteStep
  BY <1>1, <1>6, VotedOpen
<1>7. CASE SeedDisputeStep
  BY <1>1, <1>2, <1>7, ReplayedOpen
<1>8. CASE RevokeStep \/ BatchRevokeStep
  BY <1>1, <1>8, RevokedOpen
<1>9. CASE JuryStep \/ Unfiled
  <2>1. UNCHANGED <<rounds, openness>>
    BY <1>9 DEF JuryStep, SetJuryConfig, Unfiled, disputeVars
  <2>2. dispute' = dispute /\ disputeRound' = disputeRound
    BY <2>1 DEF rounds
  <2>3. \A ref \in MilestoneRef, round \in DisputeRounds :
          /\ dispute'[ref][round] # NONE <=> dispute[ref][round] # NONE
          /\ Counted(ref, round)' => Counted(ref, round)
    BY <2>2 DEF Counted
  <2>4. \A ref \in MilestoneRef : HasDispute(ref) => disputeRound[ref] \in DisputeRounds
    BY DEF HasDispute, DisputeType, TypeOKDisputes
  <2> QED
    BY <1>1, <2>1, <2>2, <2>3, <2>4, OpenKept
<1> QED
  BY <1>1, <1>4, <1>5, <1>6, <1>7, <1>8, <1>9, DisputeSteps

\* There are no disputes at first.
LEMMA OpenInitially == Init => OpenInv
<1> SUFFICES ASSUME Init PROVE OpenParts
  BY DEF OpenInv
<1>1. /\ dispute = [r \in MilestoneRef |-> [n \in DisputeRounds |-> NONE]]
      /\ disputeRound = [r \in MilestoneRef |-> NONE]
      /\ playerDisputes = [p \in Players |-> NONE]
      /\ activeDisputesCount = 0 /\ playerOpenDisputeCount = [p \in Players |-> 0]
      /\ openDisputeIndex = << >>
  BY DEF Init, DisputeInit
<1>2. OpenEntries = {} /\ \A p : OpenOf(p) = {}
  BY <1>1 DEF OpenEntries, OpenOf, Contains
<1>3. OpenCounted
  <2>1. Distinct(openDisputeIndex)
    BY <1>1 DEF Distinct
  <2> QED
    BY <1>1, <1>2, <2>1, FS_EmptySet DEF OpenCounted
<1>4. \A ref \in MilestoneRef : ~HasDispute(ref) /\ \A round \in DisputeRounds : ~Counted(ref, round)
  BY <1>1 DEF HasDispute, Counted
<1>5. \A p \in Players, i \in Indexes : <<p, i>> \in MilestoneRef
  BY DEF MilestoneRef
<1> QED
  BY <1>1, <1>3, <1>4, <1>5 DEF OpenParts, DisputesListed, LatestRounds

\* The invariant of open disputes holds throughout.
LEMMA OpenAlways == Spec => []OpenInv
<1>1. Spec => [](RegistryInv /\ ClaimInv /\ TypeOKMilestones /\ DisputeType /\ RateInv
                  /\ Numbered /\ JuryInv)
  BY MilestonesAlways, DisputesAlways, RateAlways, NumberedAlways, JuryAlways, PTL
<1> QED
  BY <1>1, OpenInitially, OpenStays, PTL DEF Spec

----
\* The pages of a list, from any offset.
LEMMA PagesOfList ==
  ASSUME NEW S, NEW s \in Seq(S), NEW limit \in Nat, NEW offset \in 0..Len(s),
         NEW page, page = Page(s, offset, limit)
  PROVE  /\ page \in Seq(S) /\ Len(page) = Least(PageCap(limit), Len(s) - offset)
         /\ DOMAIN page = 1..Len(page)
         /\ \A k \in DOMAIN page : page[k] = s[offset + k] /\ offset + k \in 1..Len(s)
<1>1. PICK cap \in Nat : cap = PageCap(limit)
  <2>1. MAX_PAGE \in Nat
    BY AttestationAssumption
  <2> QED
    BY <2>1 DEF PageCap, Least
<1>2. PICK n \in Nat : n = Len(s)
  OBVIOUS
<1>3. PICK end \in Nat : end = Least(offset + cap, n) /\ offset <= end /\ end <= n
  BY <1>1, <1>2 DEF Least
<1>4. page = SubSeq(s, offset + 1, end)
  BY <1>1, <1>2, <1>3, Zenon DEF Page
<1>5. end - offset = Least(cap, n - offset)
  BY <1>1, <1>2, <1>3 DEF Least
<1>6. /\ page \in Seq(S) /\ Len(page) = end - offset
      /\ \A i \in 1..(end - offset) : page[i] = s[offset + i]
  BY <1>2, <1>3, <1>4, PageEntries
<1>7. DOMAIN page = 1..(end - offset)
  BY <1>6
<1>8. \A k \in 1..(end - offset) : offset + k \in 1..n
  BY <1>2, <1>3
<1> QED
  BY <1>1, <1>2, <1>5, <1>6, <1>7, <1>8

\* A dispute that is open is one in the index of open disputes.
LEMMA OpenDisputesIndexed ==
  ASSUME DisputeType,
         \A ref \in MilestoneRef, round \in DisputeRounds : RoundInv(ref, round)
  PROVE  /\ OpenDisputes = OpenEntries /\ ToSetOf(openDisputeIndex) = OpenDisputes
         /\ \A o \in DisputeEntry : o \in OpenDisputes <=> Counted(o.ref, o.round)
<1>1. openDisputeIndex \in Seq(DisputeEntry)
  BY DEF DisputeType, TypeOKDisputes
<1>2. ASSUME NEW o \in DisputeEntry
      PROVE  Counted(o.ref, o.round) <=> Contains(openDisputeIndex, o)
  <2>1. o.ref \in MilestoneRef /\ o.round \in DisputeRounds /\ o = Entry(o.ref, o.round)
    BY DEF DisputeEntry, Entry
  <2> QED
    BY <2>1 DEF RoundInv, Session
<1>3. \A x : x \in ToSetOf(openDisputeIndex) <=> x \in DisputeEntry /\ Contains(openDisputeIndex, x)
  BY <1>1, SetOfList
<1>4. \A x : x \in OpenDisputes <=> x \in DisputeEntry /\ Counted(x.ref, x.round)
  BY DEF OpenDisputes, Counted
<1>5. \A x : x \in OpenEntries <=> x \in DisputeEntry /\ Contains(openDisputeIndex, x)
  BY DEF OpenEntries
<1> QED
  BY <1>2, <1>3, <1>4, <1>5

\* A player's listing, whether it is stored or put together.
LEMMA ListedIndexes ==
  ASSUME TypeOKMilestones, DisputeType, DisputesListed, NEW p \in Players
  PROVE  /\ DisputedIndexes(p) \in Seq(Indexes) /\ Distinct(DisputedIndexes(p))
         /\ \A x : Contains(DisputedIndexes(p), x) <=> x \in Indexes /\ HasDispute(<<p, x>>)
<1>1. playerDisputes[p] \in Seq(Indexes) \cup {NONE}
  BY DEF DisputeType, TypeOKDisputes
<1>2. CASE playerDisputes[p] # NONE
  <2>1. DisputedIndexes(p) = playerDisputes[p]
    BY <1>2, Zenon DEF DisputedIndexes
  <2>2. \A x : Contains(playerDisputes[p], x) => x \in Indexes
    BY <1>1, <1>2 DEF Contains
  <2> QED
    BY <1>1, <1>2, <2>1, <2>2 DEF DisputesListed
<1>3. CASE playerDisputes[p] = NONE
  <2>1. PICK all : all = [i \in 1..milestoneCounter[p] |-> i]
    OBVIOUS
  <2>2. PICK A : A = {i \in Indexes : HasDispute(<<p, i>>)}
    OBVIOUS
  <2>3. DisputedIndexes(p) = Filter(all, A)
    BY <1>3, <2>1, <2>2, Zenon DEF DisputedIndexes, GetMilestoneCount
  <2>4. \A i \in Indexes : ~HasDispute(<<p, i>>)
    BY <1>3 DEF DisputesListed
  <2>5. milestoneCounter[p] \in Nat /\ \A i \in 1..milestoneCounter[p] : i \in Indexes
    BY MilestoneBounds DEF TypeOKMilestones, Indexes
  <2>6. all \in Seq(Indexes)
    BY <2>1, <2>5, FunctionIsList
  <2>7. \A x : ~Contains(Filter(all, A), x)
    <3>1. \A x : Contains(Filter(all, A), x) <=> x \in A /\ Contains(all, x)
      BY <2>6, FilterEntries
    <3>2. \A x : x \notin A
      BY <2>2, <2>4
    <3> QED
      BY <3>1, <3>2
  <2>8. Filter(all, A) \in Seq(Indexes)
    BY <2>6, FilterType
  <2>9. Distinct(Filter(all, A))
    BY <2>7, <2>8 DEF Distinct, Contains
  <2> QED
    BY <2>3, <2>4, <2>7, <2>8, <2>9
<1> QED
  BY <1>2, <1>3

\* The milestones whose latest dispute passes the filter of
\* list_player_disputes_helper.
Fitting(p, resolvedIn) ==
  {i \in Indexes : Disputed(<<p, i>>) /\ GetDispute(<<p, i>>).resolved \in resolvedIn}

\* The listing it pages through.
Listing(p, resolvedIn) == Filter(DisputedIndexes(p), Fitting(p, resolvedIn))

\* How much a page has of a list.
LEMMA PageLength ==
  ASSUME NEW S, NEW s \in Seq(S), NEW limit \in Nat, NEW offset \in 0..Len(s)
  PROVE  /\ Page(s, offset, limit) \in Seq(S)
         /\ Len(Page(s, offset, limit)) = Least(PageCap(limit), Len(s) - offset)
<1>1. PICK page : page = Page(s, offset, limit)
  OBVIOUS
<1>2. page \in Seq(S)
  BY <1>1, PagesOfList
<1>3. Len(page) = Least(PageCap(limit), Len(s) - offset)
  BY <1>1, PagesOfList
<1> QED
  BY <1>1, <1>2, <1>3

\* How many disputes are on a page.
LEMMA DisputesOnPage ==
  ASSUME TypeOKMilestones, DisputeType, DisputesListed, NEW p \in Players, NEW resolvedIn,
         NEW limit \in Nat, NEW offset \in 0..Len(Listing(p, resolvedIn))
  PROVE  Len(ListPlayerDisputes(p, resolvedIn, offset, limit))
           = Least(PageCap(limit), Len(Listing(p, resolvedIn)) - offset)
<1>1. PICK list \in Seq(Indexes) : list = Listing(p, resolvedIn)
  BY ListedIndexes, FilterType DEF Listing
<1>2. PICK page : page = Page(list, offset, limit)
  OBVIOUS
<1>3. offset \in 0..Len(list) /\ offset \in Nat
  BY <1>1
<1>4. page \in Seq(Indexes)
  BY <1>1, <1>2, <1>3, PageLength
<1>5. Len(page) = Least(PageCap(limit), Len(list) - offset)
  BY <1>1, <1>2, <1>3, PageLength
<1>6. PICK shown : shown = [k \in DOMAIN page |-> GetDispute(<<p, page[k]>>)]
  OBVIOUS
<1>7. ListPlayerDisputes(p, resolvedIn, offset, limit) = shown
  BY <1>1, <1>2, <1>6, Zenon DEF ListPlayerDisputes, Listing, Fitting
<1>8. Len(shown) = Len(page)
  <2>1. PICK n \in Nat : n = Len(page) /\ DOMAIN page = 1..n
    BY <1>4
  <2> QED
    BY <1>6, <2>1
<1> QED
  BY <1>1, <1>5, <1>7, <1>8

\* One of the disputes on a page.
LEMMA DisputeOnPage ==
  ASSUME TypeOKMilestones, DisputeType, DisputesListed, NEW p \in Players, NEW resolvedIn,
         NEW limit \in Nat, NEW offset \in 0..Len(Listing(p, resolvedIn)),
         NEW k \in DOMAIN ListPlayerDisputes(p, resolvedIn, offset, limit)
  PROVE  ListPlayerDisputes(p, resolvedIn, offset, limit)[k]
           = GetDispute(<<p, Listing(p, resolvedIn)[offset + k]>>)
<1>1. PICK list \in Seq(Indexes) : list = Listing(p, resolvedIn)
  BY ListedIndexes, FilterType DEF Listing
<1>2. PICK page : page = Page(list, offset, limit)
  OBVIOUS
<1>3. offset \in 0..Len(list) /\ offset \in Nat
  BY <1>1
<1>4. PICK shown : shown = [i \in DOMAIN page |-> GetDispute(<<p, page[i]>>)]
  OBVIOUS
<1>5. ListPlayerDisputes(p, resolvedIn, offset, limit) = shown
  BY <1>1, <1>2, <1>4, Zenon DEF ListPlayerDisputes, Listing, Fitting
<1>6. k \in DOMAIN page /\ shown[k] = GetDispute(<<p, page[k]>>)
  BY <1>4, <1>5
<1>7. page[k] = list[offset + k]
  BY <1>1, <1>2, <1>3, <1>6, PagesOfList
<1> QED
  BY <1>1, <1>5, <1>6, <1>7

----
\* Everything listed can be read.
LEMMA ListedAreRead ==
  ASSUME TypeOKMilestones, DisputeType, DisputesListed, LatestRounds, NEW p \in Players,
         NEW fit, fit = {i \in Indexes :
                           Disputed(<<p, i>>) /\ GetDispute(<<p, i>>).resolved \in BOOLEAN}
  PROVE  Filter(DisputedIndexes(p), fit) = DisputedIndexes(p)
<1>1. PICK list \in Seq(Indexes) : list = DisputedIndexes(p)
  BY ListedIndexes
<1>2. ASSUME NEW k \in 1..Len(list)
      PROVE  list[k] \in fit
  <2>1. PICK i \in Indexes : i = list[k]
    BY <1>1
  <2>2. PICK ref \in MilestoneRef : ref = <<p, i>>
    BY DEF MilestoneRef
  <2>3. Contains(list, i)
    BY <1>1, <2>1 DEF Contains
  <2>4. HasDispute(ref)
    BY <1>1, <2>2, <2>3, ListedIndexes
  <2>5. Disputed(ref)
    BY <2>4 DEF Disputed, GetDispute, LatestRounds
  <2>6. GetDispute(ref).resolved \in BOOLEAN
    BY <2>5, LatestDispute, DisputeFields DEF DisputeType
  <2> QED
    BY <2>1, <2>2, <2>5, <2>6
<1> QED
  BY <1>1, <1>2, FilterAll

\* Where no more than the latest round is open, the open ones listed are as many as
\* the player's open disputes, and are found by their latest round.
LEMMA OpenOnesListed ==
  ASSUME TypeOKMilestones, DisputeType, OpenParts, SeedsInOrder,
         \A ref \in MilestoneRef, round \in DisputeRounds : RoundInv(ref, round),
         NEW p \in Players
  PROVE  /\ OpenIndexes(p) = Filter(DisputedIndexes(p),
              {i \in Indexes : Disputed(<<p, i>>) /\ GetDispute(<<p, i>>).resolved \in {FALSE}})
         /\ OpenIndexes(p) \in Seq(Indexes)
         /\ Len(OpenIndexes(p)) = playerOpenDisputeCount[p]
<1>1. ASSUME NEW o \in OpenDisputes
      PROVE  /\ o.ref \in MilestoneRef /\ o.round \in DisputeRounds
             /\ o = [ref |-> o.ref, round |-> o.round]
             /\ Counted(o.ref, o.round) /\ HasDispute(o.ref) /\ o.round = disputeRound[o.ref]
  <2>1. o \in DisputeEntry /\ Counted(o.ref, o.round)
    BY OpenDisputesIndexed DEF OpenDisputes
  <2>2. /\ o.ref \in MilestoneRef /\ o.round \in DisputeRounds
        /\ o = [ref |-> o.ref, round |-> o.round]
    BY <2>1 DEF DisputeEntry
  <2>3. HasDispute(o.ref)
    BY <2>1, <2>2 DEF Counted, RoundInv, Verdicts, Begun
  <2> QED
    BY <2>1, <2>2, <2>3 DEF OpenParts, LatestRounds
<1> DEFINE Fits(i) == \E o \in OpenDisputes : o.ref = <<p, i>>
           Reads(i) == Disputed(<<p, i>>) /\ GetDispute(<<p, i>>).resolved \in {FALSE}
<1>2. ASSUME NEW i \in Indexes
      PROVE  Fits(i) <=> Reads(i)
  <2>1. PICK ref \in MilestoneRef : ref = <<p, i>>
    BY DEF MilestoneRef
  <2>2. ASSUME Fits(i) PROVE Reads(i)
    <3>1. PICK o \in OpenDisputes : o.ref = ref
      BY <2>1, <2>2
    <3>2. HasDispute(ref) /\ Counted(ref, disputeRound[ref])
      BY <1>1, <3>1
    <3>3. PICK round \in DisputeRounds : round = disputeRound[ref]
      BY <3>2 DEF HasDispute, DisputeType, TypeOKDisputes
    <3>4. dispute[ref][round] # NONE /\ ~dispute[ref][round].resolved
      BY <3>2, <3>3 DEF Counted
    <3>5. Disputed(ref) /\ ~GetDispute(ref).resolved
      BY <3>2, <3>3, <3>4 DEF Disputed, GetDispute
    <3>6. GetDispute(ref).resolved \in BOOLEAN
      BY <3>5, LatestDispute, DisputeFields DEF DisputeType
    <3>7. GetDispute(ref).resolved \in {FALSE}
      BY <3>5, <3>6
    <3> QED
      BY <2>1, <3>5, <3>7
  <2>3. ASSUME Reads(i) PROVE Fits(i)
    <3>1. Disputed(ref) /\ ~GetDispute(ref).resolved
      BY <2>1, <2>3
    <3>2. PICK round \in DisputeRounds : round = disputeRound[ref]
      BY <3>1, LatestDispute DEF DisputeType
    <3>3. Counted(ref, round)
      BY <3>1, <3>2 DEF Disputed, GetDispute, Counted
    <3>4. PICK o \in DisputeEntry : o.ref = ref /\ o.round = round
      <4>1. [ref |-> ref, round |-> round] \in DisputeEntry
        BY DEF DisputeEntry
      <4> QED
        BY <4>1
    <3>5. o \in OpenDisputes
      BY <3>3, <3>4, OpenDisputesIndexed
    <3> QED
      BY <2>1, <3>4, <3>5
  <2> QED
    BY <2>2, <2>3
<1>3. PICK A : A = {i \in Indexes : Fits(i)}
  OBVIOUS
<1>4. A = {i \in Indexes : Reads(i)}
  <2> HIDE DEF Fits, Reads
  <2> QED
    BY <1>2, <1>3
<1>5. PICK list \in Seq(Indexes) : list = DisputedIndexes(p) /\ Distinct(list)
  BY ListedIndexes DEF OpenParts
<1>6. OpenIndexes(p) = Filter(list, A)
  BY <1>3, <1>5, Zenon DEF OpenIndexes
<1>7. PICK open \in Seq(Indexes) : open = Filter(list, A) /\ Distinct(open)
  BY <1>5, FilterType, FilterDistinct
<1>8. \A i : Contains(open, i) <=> i \in A
  <2>1. \A i : Contains(open, i) <=> i \in A /\ Contains(list, i)
    BY <1>5, <1>7, FilterEntries
  <2>2. ASSUME NEW i \in A PROVE Contains(list, i)
    <3>1. i \in Indexes /\ Reads(i)
      BY <1>4
    <3>2. HasDispute(<<p, i>>)
      BY <3>1 DEF Disputed
    <3> QED
      BY <1>5, <3>1, <3>2, ListedIndexes DEF OpenParts
  <2> QED
    BY <2>1, <2>2
<1>9. Len(open) = Cardinality(A) /\ IsFiniteSet(A)
  <2>1. {i \in Indexes : Contains(open, i)} = A
    BY <1>3, <1>8
  <2> QED
    BY <1>7, <2>1, DistinctLength
<1>10. Cardinality(A) = Cardinality(OpenOf(p))
  <2>1. OpenOf(p) = {o \in OpenDisputes : o.ref[1] = p} /\ IsFiniteSet(OpenOf(p))
    BY OpenDisputesIndexed, OpenEntriesFinite DEF OpenOf, OpenParts
  <2>2. PICK f : f = [o \in OpenOf(p) |-> o.ref[2]]
    OBVIOUS
  <2>3. ASSUME NEW o \in OpenOf(p)
        PROVE  f[o] \in A /\ o.ref = <<p, f[o]>>
    <3>1. o \in OpenDisputes /\ o.ref[1] = p /\ o.ref \in MilestoneRef
      BY <1>1, <2>1
    <3>2. o.ref[2] \in Indexes /\ o.ref = <<p, o.ref[2]>>
      BY <3>1 DEF MilestoneRef
    <3> QED
      BY <1>3, <2>2, <3>1, <3>2
  <2>4. ASSUME NEW o \in OpenOf(p), NEW q \in OpenOf(p), f[o] = f[q]
        PROVE  o = q
    <3>1. o.ref = q.ref
      BY <2>3, <2>4
    <3>2. o.round = q.round
      BY <1>1, <2>1, <3>1
    <3> QED
      BY <1>1, <2>1, <3>1, <3>2
  <2>5. ASSUME NEW i \in A
        PROVE  \E o \in OpenOf(p) : f[o] = i
    <3>1. PICK o \in OpenDisputes : o.ref = <<p, i>>
      BY <1>3
    <3>2. o \in OpenOf(p)
      BY <2>1, <3>1
    <3> QED
      BY <2>2, <3>1, <3>2
  <2>6. f \in Bijection(OpenOf(p), A)
    <3>1. f \in [OpenOf(p) -> A]
      BY <2>2, <2>3
    <3> QED
      BY <2>4, <2>5, <3>1 DEF Bijection, Injection, Surjection, IsInjective
  <2> QED
    BY <2>1, <2>6, FS_Bijection DEF ExistsBijection
<1>11. playerOpenDisputeCount[p] = Cardinality(OpenOf(p))
  BY DEF OpenParts, OpenCounted
<1> QED
  BY <1>4, <1>5, <1>6, <1>7, <1>9, <1>10, <1>11

----
\* The index, both counters and each player's listing, with the records.
LEMMA OpenSetsExact ==
  ASSUME TypeOKMilestones, DisputeType, OpenParts,
         \A ref \in MilestoneRef, round \in DisputeRounds : RoundInv(ref, round)
  PROVE  /\ NoRepeats(openDisputeIndex)
         /\ ToSetOf(openDisputeIndex) = OpenDisputes
         /\ activeDisputesCount = Cardinality(OpenDisputes)
         /\ \A p \in Players :
              /\ playerOpenDisputeCount[p] = Cardinality({o \in OpenDisputes : o.ref[1] = p})
              /\ NoRepeats(DisputedIndexes(p))
              /\ ToSetOf(DisputedIndexes(p)) = {i \in Indexes : HasDispute(<<p, i>>)}
<1>1. OpenDisputes = OpenEntries /\ ToSetOf(openDisputeIndex) = OpenDisputes
  BY OpenDisputesIndexed
<1>2. NoRepeats(openDisputeIndex)
  <2>1. openDisputeIndex \in Seq(DisputeEntry) /\ Distinct(openDisputeIndex)
    BY DEF DisputeType, TypeOKDisputes, OpenParts, OpenCounted
  <2> QED
    BY <2>1, DistinctIsNoRepeats
<1>3. activeDisputesCount = Cardinality(OpenDisputes)
  BY <1>1 DEF OpenParts, OpenCounted
<1>4. ASSUME NEW p \in Players
      PROVE  /\ playerOpenDisputeCount[p] = Cardinality({o \in OpenDisputes : o.ref[1] = p})
             /\ NoRepeats(DisputedIndexes(p))
             /\ ToSetOf(DisputedIndexes(p)) = {i \in Indexes : HasDispute(<<p, i>>)}
  <2>1. playerOpenDisputeCount[p] = Cardinality({o \in OpenDisputes : o.ref[1] = p})
    BY <1>1 DEF OpenParts, OpenCounted, OpenOf
  <2>2. PICK list \in Seq(Indexes) :
          /\ list = DisputedIndexes(p) /\ Distinct(list)
          /\ \A x : Contains(list, x) <=> x \in Indexes /\ HasDispute(<<p, x>>)
    BY ListedIndexes DEF OpenParts
  <2>3. NoRepeats(list)
    BY <2>2, DistinctIsNoRepeats
  <2>4. \A x : x \in ToSetOf(list) <=> x \in Indexes /\ Contains(list, x)
    BY <2>2, SetOfList
  <2>5. ToSetOf(list) = {i \in Indexes : HasDispute(<<p, i>>)}
    BY <2>2, <2>4
  <2> QED
    BY <2>1, <2>2, <2>3, <2>5
<1> QED
  BY <1>1, <1>2, <1>3, <1>4

\* The pages of list_disputes_page hold the index.
LEMMA OpenIndexReadsOut ==
  ASSUME DisputeType, OpenCounted, NEW limit \in Nat
  PROVE  ReadsOut(LAMBDA offset : ListDisputesPage(offset, limit),
                  LAMBDA k : openDisputeIndex[k], limit, activeDisputesCount)
<1>1. openDisputeIndex \in Seq(DisputeEntry) /\ activeDisputesCount = Len(openDisputeIndex)
  BY OpenEntriesFinite DEF DisputeType, TypeOKDisputes, OpenCounted
<1>2. ASSUME NEW offset \in 0..activeDisputesCount
      PROVE  /\ Len(ListDisputesPage(offset, limit))
                  = Least(PageCap(limit), activeDisputesCount - offset)
             /\ \A k \in DOMAIN ListDisputesPage(offset, limit) :
                  ListDisputesPage(offset, limit)[k] = openDisputeIndex[offset + k]
  <2>1. PICK page : page = ListDisputesPage(offset, limit)
    OBVIOUS
  <2>2. page = Page(openDisputeIndex, offset, limit)
    BY <2>1 DEF ListDisputesPage
  <2>3. offset \in 0..Len(openDisputeIndex)
    BY <1>1
  <2>4. Len(page) = Least(PageCap(limit), Len(openDisputeIndex) - offset)
    BY <1>1, <2>2, <2>3, PagesOfList
  <2>5. \A k \in DOMAIN page : page[k] = openDisputeIndex[offset + k]
    BY <1>1, <2>2, <2>3, PagesOfList
  <2> QED
    BY <1>1, <2>1, <2>4, <2>5
<1> QED
  BY <1>2, Zenon DEF ReadsOut

\* The pages of get_player_disputes hold the listing.
LEMMA PlayerDisputesReadOut ==
  ASSUME TypeOKMilestones, DisputeType, DisputesListed, LatestRounds,
         NEW p \in Players, NEW limit \in Nat
  PROVE  ReadsOut(LAMBDA offset : GetPlayerDisputes(p, offset, limit),
                  LAMBDA k : GetDispute(<<p, DisputedIndexes(p)[k]>>),
                  limit, GetPlayerDisputeCount(p))
<1>1. PICK list : list = DisputedIndexes(p)
  OBVIOUS
<1>2. list = Filter(DisputedIndexes(p), Fitting(p, BOOLEAN))
  BY <1>1, ListedAreRead DEF Fitting
<1>3. ASSUME NEW offset \in 0..GetPlayerDisputeCount(p)
      PROVE  /\ Len(GetPlayerDisputes(p, offset, limit))
                  = Least(PageCap(limit), GetPlayerDisputeCount(p) - offset)
             /\ \A k \in DOMAIN GetPlayerDisputes(p, offset, limit) :
                  GetPlayerDisputes(p, offset, limit)[k]
                    = GetDispute(<<p, DisputedIndexes(p)[offset + k]>>)
  <2>1. GetPlayerDisputes(p, offset, limit) = ListPlayerDisputes(p, BOOLEAN, offset, limit)
    BY DEF GetPlayerDisputes
  <2>2. offset \in 0..Len(list) /\ GetPlayerDisputeCount(p) = Len(list)
    BY <1>1 DEF GetPlayerDisputeCount
  <2>3. PICK those : those = BOOLEAN
    OBVIOUS
  <2>4. list = Listing(p, those)
    BY <1>2, <2>3 DEF Listing
  <2>5. PICK shown : shown = ListPlayerDisputes(p, those, offset, limit)
    OBVIOUS
  <2>6. Len(shown) = Least(PageCap(limit), Len(list) - offset)
    BY <2>2, <2>4, <2>5, DisputesOnPage
  <2>7. \A k \in DOMAIN shown : shown[k] = GetDispute(<<p, list[offset + k]>>)
    <3>1. offset \in 0..Len(Listing(p, those))
      BY <2>2, <2>4
    <3>2. ASSUME NEW k \in DOMAIN ListPlayerDisputes(p, those, offset, limit)
          PROVE  ListPlayerDisputes(p, those, offset, limit)[k]
                   = GetDispute(<<p, Listing(p, those)[offset + k]>>)
      BY <2>2, <3>1, DisputeOnPage
    <3> QED
      BY <2>4, <2>5, <3>2, Zenon
  <2>8. shown = GetPlayerDisputes(p, offset, limit)
    BY <2>1, <2>3, <2>5
  <2> QED
    BY <1>1, <2>2, <2>6, <2>7, <2>8, Zenon
<1> QED
  BY <1>3, Zenon DEF ReadsOut

\* The pages of get_player_disputes_by_status hold the open ones.
LEMMA OpenOnesReadOut ==
  ASSUME TypeOKMilestones, DisputeType, OpenParts, SeedsInOrder,
         \A ref \in MilestoneRef, round \in DisputeRounds : RoundInv(ref, round),
         NEW p \in Players, NEW limit \in Nat
  PROVE  ReadsOut(LAMBDA offset : GetPlayerDisputesByStatus(p, FALSE, offset, limit),
                  LAMBDA k : GetDispute(<<p, OpenIndexes(p)[k]>>),
                  limit, playerOpenDisputeCount[p])
<1>1. PICK list : list = OpenIndexes(p)
  OBVIOUS
<1>2. /\ list = Filter(DisputedIndexes(p), Fitting(p, {FALSE}))
      /\ Len(list) = playerOpenDisputeCount[p]
  BY <1>1, OpenOnesListed DEF Fitting
<1>3. ASSUME NEW offset \in 0..playerOpenDisputeCount[p]
      PROVE  /\ Len(GetPlayerDisputesByStatus(p, FALSE, offset, limit))
                  = Least(PageCap(limit), playerOpenDisputeCount[p] - offset)
             /\ \A k \in DOMAIN GetPlayerDisputesByStatus(p, FALSE, offset, limit) :
                  GetPlayerDisputesByStatus(p, FALSE, offset, limit)[k]
                    = GetDispute(<<p, OpenIndexes(p)[offset + k]>>)
  <2>1. GetPlayerDisputesByStatus(p, FALSE, offset, limit)
          = ListPlayerDisputes(p, {FALSE}, offset, limit)
    BY DEF GetPlayerDisputesByStatus
  <2>2. offset \in 0..Len(list) /\ DisputesListed
    BY <1>2 DEF OpenParts
  <2>3. PICK those : those = {FALSE}
    OBVIOUS
  <2>4. list = Listing(p, those)
    BY <1>2, <2>3 DEF Listing
  <2>5. PICK shown : shown = ListPlayerDisputes(p, those, offset, limit)
    OBVIOUS
  <2>6. Len(shown) = Least(PageCap(limit), Len(list) - offset)
    BY <2>2, <2>4, <2>5, DisputesOnPage
  <2>7. \A k \in DOMAIN shown : shown[k] = GetDispute(<<p, list[offset + k]>>)
    <3>1. offset \in 0..Len(Listing(p, those))
      BY <2>2, <2>4
    <3>2. ASSUME NEW k \in DOMAIN ListPlayerDisputes(p, those, offset, limit)
          PROVE  ListPlayerDisputes(p, those, offset, limit)[k]
                   = GetDispute(<<p, Listing(p, those)[offset + k]>>)
      BY <2>2, <3>1, DisputeOnPage
    <3> QED
      BY <2>4, <2>5, <3>2, Zenon
  <2>8. shown = GetPlayerDisputesByStatus(p, FALSE, offset, limit)
    BY <2>1, <2>3, <2>5
  <2> QED
    BY <1>1, <1>2, <2>6, <2>7, <2>8, Zenon
<1> QED
  BY <1>3, Zenon DEF ReadsOut

\* OpenDisputesAreExact: whatever was filed, voted on, closed, dismissed or replayed,
\* the index of open disputes, the two counters and each player's listing agree with
\* the records, and read in pages give each once.
THEOREM OpenDisputesExact == Spec => []OpenDisputesAreExact
<1>1. ASSUME TypeOKMilestones, DisputeType, JuryInv, OpenInv
      PROVE  OpenDisputesAreExact
  <2> SUFFICES ASSUME \A p \in Players : NotErased(p) PROVE
        /\ NoRepeats(openDisputeIndex)
        /\ ToSetOf(openDisputeIndex) = OpenDisputes
        /\ activeDisputesCount = Cardinality(OpenDisputes)
        /\ \A p \in Players :
             /\ playerOpenDisputeCount[p] = Cardinality({o \in OpenDisputes : o.ref[1] = p})
             /\ NoRepeats(DisputedIndexes(p))
             /\ ToSetOf(DisputedIndexes(p)) = {i \in Indexes : HasDispute(<<p, i>>)}
        /\ \A limit \in 0..(MAX_PAGE + 1) :
             /\ ReadsOut(LAMBDA offset : ListDisputesPage(offset, limit),
                         LAMBDA k : openDisputeIndex[k], limit, activeDisputesCount)
             /\ \A p \in Players :
                  ReadsOut(LAMBDA offset : GetPlayerDisputes(p, offset, limit),
                           LAMBDA k : GetDispute(<<p, DisputedIndexes(p)[k]>>),
                           limit, GetPlayerDisputeCount(p))
        /\ SeedsInOrder =>
             /\ \A o \in OpenDisputes : o.round = disputeRound[o.ref]
             /\ \A p \in Players, limit \in 0..(MAX_PAGE + 1) :
                  ReadsOut(LAMBDA offset : GetPlayerDisputesByStatus(p, FALSE, offset, limit),
                           LAMBDA k : GetDispute(<<p, OpenIndexes(p)[k]>>),
                           limit, playerOpenDisputeCount[p])
    BY Zenon DEF OpenDisputesAreExact
  <2>1. OpenParts /\ OpenCounted /\ DisputesListed /\ LatestRounds
    BY <1>1 DEF OpenInv, OpenParts
  <2>2. \A ref \in MilestoneRef, round \in DisputeRounds : RoundInv(ref, round)
    <3>1. \A ref \in MilestoneRef : ref[1] \in Players
      BY DEF MilestoneRef
    <3> QED
      BY <1>1, <3>1 DEF JuryInv
  <2>3. \A limit \in 0..(MAX_PAGE + 1) : limit \in Nat
    BY AttestationAssumption
  <2>4. /\ NoRepeats(openDisputeIndex)
        /\ ToSetOf(openDisputeIndex) = OpenDisputes
        /\ activeDisputesCount = Cardinality(OpenDisputes)
        /\ \A p \in Players :
             /\ playerOpenDisputeCount[p] = Cardinality({o \in OpenDisputes : o.ref[1] = p})
             /\ NoRepeats(DisputedIndexes(p))
             /\ ToSetOf(DisputedIndexes(p)) = {i \in Indexes : HasDispute(<<p, i>>)}
    BY <1>1, <2>1, <2>2, OpenSetsExact, Zenon
  <2>5. \A limit \in 0..(MAX_PAGE + 1) :
          /\ ReadsOut(LAMBDA offset : ListDisputesPage(offset, limit),
                      LAMBDA k : openDisputeIndex[k], limit, activeDisputesCount)
          /\ \A p \in Players :
               ReadsOut(LAMBDA offset : GetPlayerDisputes(p, offset, limit),
                        LAMBDA k : GetDispute(<<p, DisputedIndexes(p)[k]>>),
                        limit, GetPlayerDisputeCount(p))
    <3> TAKE limit \in 0..(MAX_PAGE + 1)
    <3>1. limit \in Nat
      BY <2>3
    <3>2. ReadsOut(LAMBDA offset : ListDisputesPage(offset, limit),
                   LAMBDA k : openDisputeIndex[k], limit, activeDisputesCount)
      BY <1>1, <2>1, <3>1, OpenIndexReadsOut, Zenon
    <3>3. ASSUME NEW p \in Players
          PROVE  ReadsOut(LAMBDA offset : GetPlayerDisputes(p, offset, limit),
                          LAMBDA k : GetDispute(<<p, DisputedIndexes(p)[k]>>),
                          limit, GetPlayerDisputeCount(p))
      BY <1>1, <2>1, <3>1, PlayerDisputesReadOut, Zenon
    <3> QED
      BY <3>2, <3>3, Zenon
  <2>6. ASSUME SeedsInOrder
        PROVE  /\ \A o \in OpenDisputes : o.round = disputeRound[o.ref]
               /\ \A p \in Players, limit \in 0..(MAX_PAGE + 1) :
                    ReadsOut(LAMBDA offset : GetPlayerDisputesByStatus(p, FALSE, offset, limit),
                             LAMBDA k : GetDispute(<<p, OpenIndexes(p)[k]>>),
                             limit, playerOpenDisputeCount[p])
    <3>1. ASSUME NEW o \in OpenDisputes PROVE o.round = disputeRound[o.ref]
      <4>1. o \in DisputeEntry /\ o.ref \in MilestoneRef /\ o.round \in DisputeRounds
        BY DEF OpenDisputes, DisputeEntry
      <4>2. Counted(o.ref, o.round)
        BY <1>1, <2>2, <4>1, OpenDisputesIndexed
      <4> QED
        BY <2>1, <2>6, <4>1, <4>2 DEF LatestRounds
    <3>2. ASSUME NEW p \in Players, NEW limit \in 0..(MAX_PAGE + 1)
          PROVE  ReadsOut(LAMBDA offset : GetPlayerDisputesByStatus(p, FALSE, offset, limit),
                          LAMBDA k : GetDispute(<<p, OpenIndexes(p)[k]>>),
                          limit, playerOpenDisputeCount[p])
      <4>1. limit \in Nat
        BY <2>3
      <4> QED
        BY <1>1, <2>1, <2>2, <2>6, <4>1, OpenOnesReadOut, Zenon
    <3> QED
      BY <3>1, <3>2, Zenon
  <2> QED
    BY <2>4, <2>5, <2>6, Zenon
<1> QED
  BY <1>1, MilestonesAlways, DisputesAlways, JuryAlways, OpenAlways, PTL

----
(***************************************************************************)
(* The lists and counts kept beside the milestones follow from what was     *)
(* recorded.  First the ring buffer of the latest milestones, whose slots   *)
(* are remainders.                                                          *)
(***************************************************************************)
\* Division with remainder.
LEMMA Divided ==
  ASSUME NEW c \in Nat \ {0}, NEW n \in Nat
  PROVE  \E q \in Nat, r \in 0..(c - 1) : q = n \div c /\ r = n % c /\ n = c * q + r
OBVIOUS

\* A number between two multiples of c is told by its remainder.
LEMMA Remainder ==
  ASSUME NEW c \in Nat \ {0}, NEW q \in Nat, NEW r \in 0..(c - 1), NEW n \in Nat, n = c * q + r
  PROVE  n % c = r
<1>1. n \div c = q
  BY Quotient
<1>2. PICK k \in Nat, s \in 0..(c - 1) : k = n \div c /\ s = n % c /\ n = c * k + s
  BY Divided
<1>3. c * k = c * q /\ c * q \in Nat
  BY <1>1, <1>2
<1> QED
  BY <1>2, <1>3

\* What is added may be added to the remainder.
LEMMA RemainderSum ==
  ASSUME NEW c \in Nat \ {0}, NEW n \in Nat, NEW x \in Nat
  PROVE  ((n % c) + x) % c = (n + x) % c
<1>1. PICK q \in Nat, r \in 0..(c - 1) : r = n % c /\ n = c * q + r
  BY Divided
<1>2. PICK y \in Nat : y = r + x
  BY <1>1
<1>3. PICK k \in Nat, s \in 0..(c - 1) : s = y % c /\ y = c * k + s
  BY Divided
<1>4. PICK m \in Nat : m = n + x
  OBVIOUS
<1>5. PICK z \in Nat : z = q + k
  OBVIOUS
<1>6. PICK u \in Nat, v \in Nat : u = c * q /\ v = c * k
  OBVIOUS
<1>7. m = c * z + s
  <2>1. c * z = u + v
    BY <1>5, <1>6
  <2>2. m = u + v + s
    BY <1>1, <1>2, <1>3, <1>4, <1>6
  <2> QED
    BY <2>1, <2>2
<1>8. m % c = s
  BY <1>7, Remainder
<1> QED
  BY <1>1, <1>2, <1>3, <1>4, <1>8

\* A full turn makes no difference.
LEMMA RemainderTurn ==
  ASSUME NEW c \in Nat \ {0}, NEW n \in Nat
  PROVE  (c + n) % c = n % c
<1>1. PICK k \in Nat, s \in 0..(c - 1) : s = n % c /\ n = c * k + s
  BY Divided
<1>2. c * (k + 1) = c * k + c /\ c * k \in Nat
  OBVIOUS
<1>3. PICK m \in Nat : m = c + n
  OBVIOUS
<1>4. m = c * (k + 1) + s
  BY <1>1, <1>2, <1>3
<1>5. m % c = s
  BY <1>4, Remainder
<1> QED
  BY <1>1, <1>3, <1>5

\* Less than a turn does.
LEMMA RemaindersDiffer ==
  ASSUME NEW c \in Nat \ {0}, NEW i \in Nat, NEW j \in Nat, i < j, j < i + c
  PROVE  i % c # j % c
<1> SUFFICES ASSUME i % c = j % c PROVE FALSE
  OBVIOUS
<1>1. PICK a \in Nat, r \in 0..(c - 1) : r = i % c /\ i = c * a + r
  BY Divided
<1>2. PICK b \in Nat, s \in 0..(c - 1) : s = j % c /\ j = c * b + s
  BY Divided
<1>3. r = s
  BY <1>1, <1>2
<1>4. CASE b <= a
  <2>1. PICK x \in Nat : a = b + x
    <3>1. a - b \in Nat /\ a = b + (a - b)
      BY <1>4
    <3> QED
      BY <3>1
  <2>2. c * a = c * b + c * x /\ c * x \in Nat /\ c * b \in Nat
    BY <2>1
  <2> QED
    BY <1>1, <1>2, <1>3, <2>2
<1>5. CASE b >= a + 1
  <2>1. PICK x \in Nat : b = a + 1 + x
    <3>1. b - (a + 1) \in Nat /\ b = a + 1 + (b - (a + 1))
      BY <1>5
    <3> QED
      BY <3>1
  <2>2. c * b = c * a + c + c * x /\ c * x \in Nat /\ c * a \in Nat
    BY <2>1
  <2> QED
    BY <1>1, <1>2, <1>3, <2>2
<1> QED
  BY <1>4, <1>5

----
\* The slot of the i-th history entry.
SlotOf(i) == (i - 1) % MAX_GLOBAL_MILESTONE_INDEX

\* The head counts up to the capacity, then stays a turn ahead of its slot.
HeadAt(n) ==
  IF n < MAX_GLOBAL_MILESTONE_INDEX THEN n
  ELSE MAX_GLOBAL_MILESTONE_INDEX + (n % MAX_GLOBAL_MILESTONE_INDEX)

\* The latest entries are in their slots.
RingInv ==
  /\ writeHead = HeadAt(Len(recorded))
  /\ \A i \in 1..Len(recorded) :
       i + MAX_GLOBAL_MILESTONE_INDEX > Len(recorded) => globalSlot[SlotOf(i)] = recorded[i].ref

\* The history as a list.
LEMMA HistoryIs ==
  ASSUME TypeOKMilestones
  PROVE  /\ Len(recorded) \in Nat /\ DOMAIN recorded = 1..Len(recorded)
         /\ \A n \in 1..Len(recorded) :
              /\ recorded[n].ref \in MilestoneRef /\ recorded[n].validator \in Wallets
              /\ recorded[n].attestors \in Seq(Wallets)
              /\ recorded[n].ref[1] \in Players /\ recorded[n].ref[2] \in Indexes
<1> DEFINE R == [ref : MilestoneRef, validator : Wallets, attestors : Seq(Wallets),
                 affiliation : Affiliations \cup {NONE},
                 config : DiversityConfig \cup {NONE}, wired : BOOLEAN]
<1>1. recorded \in Seq(R)
  BY DEF TypeOKMilestones
<1>2. \A r \in R : r.ref \in MilestoneRef /\ r.validator \in Wallets /\ r.attestors \in Seq(Wallets)
  OBVIOUS
<1> HIDE DEF R
<1>3. Len(recorded) \in Nat /\ DOMAIN recorded = 1..Len(recorded)
      /\ \A n \in 1..Len(recorded) : recorded[n] \in R
  BY <1>1
<1>4. \A ref \in MilestoneRef : ref[1] \in Players /\ ref[2] \in Indexes
  BY DEF MilestoneRef
<1> QED
  BY <1>2, <1>3, <1>4

\* One more entry of the history.
Extends(r) ==
  /\ Len(recorded') = Len(recorded) + 1
  /\ \A n \in 1..Len(recorded) : recorded'[n] = recorded[n]
  /\ recorded'[Len(recorded) + 1] = r

\* An entry appended is one more.
LEMMA HistoryExtends ==
  ASSUME TypeOKMilestones, NEW r, recorded' = Append(recorded, r)
  PROVE  Extends(r)
<1> DEFINE R == [ref : MilestoneRef, validator : Wallets, attestors : Seq(Wallets),
                 affiliation : Affiliations \cup {NONE},
                 config : DiversityConfig \cup {NONE}, wired : BOOLEAN]
<1>1. recorded \in Seq(R)
  BY DEF TypeOKMilestones
<1> HIDE DEF R
<1>2. PICK S : S = R \cup {r}
  OBVIOUS
<1>3. recorded \in Seq(S) /\ r \in S
  BY <1>1, <1>2
<1> QED
  BY <1>3 DEF Extends

\* A milestone pushed takes the slot of the entry that is now out of view.
LEMMA PushKeepsRing ==
  ASSUME TypeOKMilestones, RingInv, NEW r, Extends(r), r.ref \in MilestoneRef,
         PushGlobalMilestone(r.ref)
  PROVE  RingInv'
<1>1. PICK c \in Nat \ {0} : c = MAX_GLOBAL_MILESTONE_INDEX
  BY MilestoneBounds
<1>2. PICK n \in Nat : n = Len(recorded)
  BY HistoryIs
<1>3. PICK h \in Nat : h = writeHead
  BY DEF TypeOKMilestones
<1>4. h = IF n < c THEN n ELSE c + (n % c)
  BY <1>1, <1>2, <1>3 DEF RingInv, HeadAt
<1>5. PICK m \in 0..(c - 1) : m = n % c
  OBVIOUS
<1>6. PICK slot : slot = h % c
  OBVIOUS
<1>7. slot = m
  <2>1. CASE n < c
    BY <1>4, <1>5, <1>6, <2>1
  <2>2. CASE ~(n < c)
    <3>1. h = c + m
      BY <1>4, <1>5, <2>2
    <3>2. (c + m) % c = m % c
      <4>1. m \in Nat
        OBVIOUS
      <4> QED
        BY <4>1, RemainderTurn
    <3>3. m % c = m
      BY SmallRemainder
    <3> QED
      BY <1>6, <3>1, <3>2, <3>3
  <2> QED
    BY <2>1, <2>2
<1>8. /\ globalSlot' = [globalSlot EXCEPT ![slot] = r.ref]
      /\ writeHead' = IF h >= c - 1 THEN c + ((slot + 1) % c) ELSE h + 1
  BY <1>1, <1>3, <1>6, Zenon DEF PushGlobalMilestone
<1>9. (m + 1) % c = (n + 1) % c
  BY <1>5, RemainderSum
<1>10. writeHead' = IF n + 1 < c THEN n + 1 ELSE c + ((n + 1) % c)
  <2>1. CASE n + 1 < c
    BY <1>4, <1>8, <2>1
  <2>2. CASE ~(n + 1 < c)
    <3>1. h >= c - 1
      BY <1>4, <1>5, <2>2
    <3> QED
      BY <1>7, <1>8, <1>9, <2>2, <3>1
  <2> QED
    BY <2>1, <2>2
<1>11. DOMAIN globalSlot = 0..(c - 1)
  BY <1>1 DEF TypeOKMilestones
<1>12. ASSUME NEW i \in 1..(n + 1), i + c > n + 1
       PROVE  globalSlot'[(i - 1) % c] = recorded'[i].ref
  <2>1. CASE i = n + 1
    <3>1. (i - 1) % c = m
      BY <1>5, <2>1
    <3> QED
      BY <1>2, <1>7, <1>8, <1>11, <2>1, <3>1 DEF Extends
  <2>2. CASE i # n + 1
    <3>1. PICK k \in Nat : k = i - 1 /\ k < n /\ n < k + c
      BY <1>12, <2>2
    <3>2. PICK s \in 0..(c - 1) : s = k % c
      OBVIOUS
    <3>3. s # m
      BY <1>5, <3>1, <3>2, RemaindersDiffer
    <3>4. globalSlot'[s] = globalSlot[s]
      BY <1>7, <1>8, <1>11, <3>3
    <3>5. i \in 1..n /\ i + c > n
      BY <1>12, <2>2
    <3>6. globalSlot[s] = recorded[i].ref
      BY <1>1, <1>2, <3>1, <3>2, <3>5 DEF RingInv, SlotOf
    <3>7. recorded'[i] = recorded[i]
      BY <1>2, <3>5 DEF Extends
    <3> QED
      BY <3>1, <3>2, <3>4, <3>6, <3>7
  <2> QED
    BY <2>1, <2>2
<1>13. Len(recorded') = n + 1
  BY <1>2 DEF Extends
<1> QED
  BY <1>1, <1>10, <1>12, <1>13 DEF RingInv, HeadAt, SlotOf

\* The oldest entry still in view is where a reader begins.
OldestSlot == IF writeHead < MAX_GLOBAL_MILESTONE_INDEX THEN 0
              ELSE writeHead % MAX_GLOBAL_MILESTONE_INDEX
InView == Least(Len(recorded), MAX_GLOBAL_MILESTONE_INDEX)

\* The slots from there on hold the entries in their order.
LEMMA SlotsInOrder ==
  ASSUME TypeOKMilestones, RingInv
  PROVE  /\ InView \in Nat /\ InView <= Len(recorded)
         /\ Least(writeHead, MAX_GLOBAL_MILESTONE_INDEX) = InView
         /\ OldestSlot \in Nat
         /\ \A x \in Nat : x < InView =>
              globalSlot[(OldestSlot + x) % MAX_GLOBAL_MILESTONE_INDEX]
                = recorded[(Len(recorded) - InView) + (x + 1)].ref
<1>1. PICK c \in Nat \ {0} : c = MAX_GLOBAL_MILESTONE_INDEX
  BY MilestoneBounds
<1>2. PICK n \in Nat : n = Len(recorded)
  BY HistoryIs
<1>3. PICK h \in Nat : h = writeHead
  BY DEF TypeOKMilestones
<1>4. h = IF n < c THEN n ELSE c + (n % c)
  BY <1>1, <1>2, <1>3 DEF RingInv, HeadAt
<1>5. PICK m \in 0..(c - 1) : m = n % c /\ m \in Nat
  OBVIOUS
<1>6. PICK k \in Nat : /\ k = InView /\ k <= n /\ k <= c
                       /\ (n < c => k = n) /\ (~(n < c) => k = c)
  <2>1. InView = Least(n, c)
    BY <1>1, <1>2 DEF InView
  <2> QED
    BY <2>1 DEF Least
<1>7. Least(h, c) = k
  BY <1>4, <1>5, <1>6 DEF Least
<1>8. PICK old \in Nat : old = OldestSlot /\ old = IF n < c THEN 0 ELSE m
  <2>1. OldestSlot = IF h < c THEN 0 ELSE h % c
    BY <1>1, <1>3 DEF OldestSlot
  <2>2. CASE n < c
    BY <1>4, <2>1, <2>2
  <2>3. CASE ~(n < c)
    <3>1. h = c + m
      BY <1>4, <1>5, <2>3
    <3>2. (c + m) % c = m % c
      BY <1>5, RemainderTurn
    <3>3. m % c = m
      BY SmallRemainder
    <3> QED
      BY <1>5, <2>1, <2>3, <3>1, <3>2, <3>3
  <2> QED
    BY <2>2, <2>3
<1>9. ASSUME NEW x \in Nat, x < k
      PROVE  globalSlot[(old + x) % c] = recorded[(n - k) + (x + 1)].ref
  <2>1. PICK i \in Nat : i = (n - k) + (x + 1)
    BY <1>6
  <2>2. PICK y \in Nat : y = i - 1 /\ y = (n - k) + x
    BY <1>6, <2>1
  <2>3. i \in 1..n /\ i + c > n
    BY <1>6, <1>9, <2>1
  <2>4. globalSlot[y % c] = recorded[i].ref
    BY <1>1, <1>2, <2>2, <2>3 DEF RingInv, SlotOf
  <2>5. (old + x) % c = y % c
    <3>1. CASE n < c
      <4>1. old + x = y
        BY <1>6, <1>8, <2>2, <3>1
      <4> QED
        BY <4>1
    <3>2. CASE ~(n < c)
      <4>1. k = c /\ old = m
        BY <1>6, <1>8, <3>2
      <4>2. (m + x) % c = (n + x) % c
        BY <1>5, RemainderSum
      <4>3. c + y = n + x
        BY <2>2, <4>1
      <4>4. (c + y) % c = y % c
        BY RemainderTurn
      <4> QED
        BY <4>1, <4>2, <4>3, <4>4
    <3> QED
      BY <3>1, <3>2
  <2> QED
    BY <2>1, <2>4, <2>5
<1>10. k <= n
  BY <1>6
<1> QED
  BY <1>1, <1>2, <1>3, <1>6, <1>7, <1>8, <1>9, <1>10

\* get_global_milestone_index reads the latest entries out, oldest first.
LEMMA RingPageIs ==
  ASSUME TypeOKMilestones, RingInv, NEW limit \in Nat, NEW offset \in 0..InView,
         NEW got, got = GetGlobalMilestoneIndex(offset, limit).entries
  PROVE  /\ Len(got) = Least(PageCap(limit), InView - offset)
         /\ \A j \in DOMAIN got : got[j] = recorded[(Len(recorded) - InView) + (offset + j)].ref
<1>1. PICK c \in Nat \ {0} : c = MAX_GLOBAL_MILESTONE_INDEX
  BY MilestoneBounds
<1>2. PICK n \in Nat : n = Len(recorded)
  BY HistoryIs
<1>3. PICK k \in Nat : k = InView /\ k <= n
  BY <1>2, SlotsInOrder
<1>4. PICK cap \in Nat : cap = PageCap(limit)
  <2>1. MAX_PAGE \in Nat
    BY AttestationAssumption
  <2> QED
    BY <2>1 DEF PageCap, Least
<1>5. PICK last \in Nat : last = Least(offset + cap, k) /\ offset <= last /\ last <= k
  BY <1>3, <1>4 DEF Least
<1>6. PICK size \in Nat : size = (IF last > offset THEN last - offset ELSE 0)
                          /\ size = Least(cap, k - offset) /\ offset + size <= k
  BY <1>3, <1>4, <1>5 DEF Least
<1>7. PICK old \in Nat : old = OldestSlot
  BY SlotsInOrder
<1>8. PICK page : page = [j \in 1..size |-> globalSlot[(old + offset + (j - 1)) % c]]
  OBVIOUS
<1>9. got = Filter(page, MilestoneRef)
  <2>1. Least(writeHead, c) = k
    BY <1>1, <1>3, SlotsInOrder
  <2>2. old = IF writeHead < c THEN 0 ELSE writeHead % c
    BY <1>1, <1>7 DEF OldestSlot
  <2> QED
    BY <1>1, <1>4, <1>5, <1>6, <1>8, <2>1, <2>2, Zenon DEF GetGlobalMilestoneIndex
<1>10. ASSUME NEW j \in 1..size
       PROVE  /\ page[j] = recorded[(n - k) + (offset + j)].ref
              /\ page[j] \in MilestoneRef
  <2>1. PICK x \in Nat : x = offset + (j - 1) /\ x < k
    BY <1>6
  <2>2. old + offset + (j - 1) = old + x /\ x + 1 = offset + j
    BY <2>1
  <2>3. globalSlot[(old + x) % c] = recorded[(n - k) + (x + 1)].ref
    BY <1>1, <1>2, <1>3, <1>7, <2>1, SlotsInOrder
  <2>4. (n - k) + (x + 1) \in 1..n
    BY <1>3, <2>1
  <2> QED
    BY <1>2, <1>8, <2>2, <2>3, <2>4, HistoryIs
<1>11. page \in Seq(MilestoneRef) /\ Len(page) = size
  <2>1. page \in [1..size -> MilestoneRef]
    BY <1>8, <1>10
  <2> QED
    BY <2>1, FunctionIsList
<1>12. Filter(page, MilestoneRef) = page
  <2>1. \A i \in 1..Len(page) : page[i] \in MilestoneRef
    BY <1>10, <1>11
  <2> QED
    BY <1>11, <2>1, FilterAll
<1>13. got = page /\ DOMAIN page = 1..size
  BY <1>8, <1>9, <1>12
<1> QED
  BY <1>2, <1>3, <1>4, <1>6, <1>10, <1>11, <1>13

\* So the ring buffer shows the latest entries, however far it has wrapped.
LEMMA RingReadsOut ==
  ASSUME TypeOKMilestones, RingInv
  PROVE  GlobalIndexIsRecent
<1>1. MAX_PAGE \in Nat
  BY AttestationAssumption
<1>2. ASSUME NEW limit \in {0, MAX_PAGE + 1}
      PROVE  ReadsOut(LAMBDA offset : GetGlobalMilestoneIndex(offset, limit).entries,
                      LAMBDA i : recorded[(Len(recorded) - InView) + i].ref, limit, InView)
  <2>1. limit \in Nat
    BY <1>1
  <2>2. ASSUME NEW offset \in 0..InView
        PROVE  /\ Len(GetGlobalMilestoneIndex(offset, limit).entries)
                    = Least(PageCap(limit), InView - offset)
               /\ \A j \in DOMAIN GetGlobalMilestoneIndex(offset, limit).entries :
                    GetGlobalMilestoneIndex(offset, limit).entries[j]
                      = recorded[(Len(recorded) - InView) + (offset + j)].ref
    <3>1. PICK got : got = GetGlobalMilestoneIndex(offset, limit).entries
      OBVIOUS
    <3>2. Len(got) = Least(PageCap(limit), InView - offset)
      BY <2>1, <3>1, RingPageIs
    <3>3. \A j \in DOMAIN got : got[j] = recorded[(Len(recorded) - InView) + (offset + j)].ref
      BY <2>1, <3>1, RingPageIs
    <3> QED
      BY <3>1, <3>2, <3>3, Zenon
  <2> QED
    BY <2>2, Zenon DEF ReadsOut
<1> QED
  BY <1>2, Zenon DEF GlobalIndexIsRecent, InView

----
(***************************************************************************)
(* The steps that record a milestone, and all the others.                   *)
(***************************************************************************)
\* Whether a new history entry goes on v's list: a replay only if it is not there.
GoesOnList(r, v) ==
  Attests(r, v) /\ (r.attestors # << >> \/ ~Contains(validatorMilestones[v], r.ref))

\* What recording does to a player's standing: a replay leaves it as it is.
StandingFollows(p, w, r) ==
  \/ r.attestors = << >> /\ UNCHANGED standing
  \/ /\ r.attestors # << >> /\ Wired("registration")
     /\ r.affiliation = validator[w].affiliation
     /\ r.config = GetDiversityConfig /\ r.wired = Wired("progress")
     /\ AdvanceLevel(w, p)

\* A milestone of p is recorded by w, with r as its history entry.
Recording(p, w, r) ==
  /\ r.ref = <<p, NextIndex(p)>> /\ r.ref \in MilestoneRef
  /\ r.validator = w /\ r.attestors \in Seq(Wallets)
  /\ Extends(r) /\ PushGlobalMilestone(r.ref) /\ BumpTotals(w, p)
  /\ \A v \in Wallets :
       validatorMilestones'[v] = IF GoesOnList(r, v) THEN Append(validatorMilestones[v], r.ref)
                                 ELSE validatorMilestones[v]
  /\ \E m \in Milestone : milestone' = [milestone EXCEPT ![p][NextIndex(p)] = m]
  /\ milestoneCounter' = [milestoneCounter EXCEPT ![p] = NextIndex(p)]
  /\ UNCHANGED <<transferred, wiring, erasureCursor>>
  /\ StandingFollows(p, w, r)

\* What is left of a player while none of its data is erased.
PlayerStays(p) ==
  NotErased(p)' =>
    /\ NotErased(p)
    /\ milestone'[p] = milestone[p] /\ milestoneCounter'[p] = milestoneCounter[p]
    /\ playerAffiliations'[p] = playerAffiliations[p]

\* Nothing is recorded; a count may go along with a transferred record.
NothingNew ==
  /\ UNCHANGED <<recorded, globalSlot, writeHead, validatorMilestones, validatorPlayers,
                 totalMilestoneCount, playerLevel>>
  /\ transferred' = {} => transferred = {} /\ validatorMilestoneCount' = validatorMilestoneCount
  /\ \A peer \in Peers : wiring'[peer].epoch = 0 => wiring[peer].epoch = 0
  /\ \A p \in Players : PlayerStays(p)

\* A commit lists the milestone for its attestors, of whom the committer is one.
LEMMA CommitRecords ==
  ASSUME RegistryInv, ClaimInv, TypeOKMilestones, ApproveStep \/ AttestCommitStep \/ SubmitStep
  PROVE  \E p \in Players, w \in Wallets : \E r : Recording(p, w, r)
<1>1. PICK w \in Wallets, p \in Players, e \in Evidence, d \in Descriptions,
           attestors \in Seq(Wallets) : Committing(w, p, e, d, attestors)
  BY CommitSteps
<1>2. PICK ref : ref = <<p, NextIndex(p)>>
  OBVIOUS
<1>3. PICK r : r = RecordOf(ref, w, attestors, validator[w].affiliation,
                            GetDiversityConfig, Wired("progress"))
  OBVIOUS
<1>4. /\ r.ref = ref /\ r.validator = w /\ r.attestors = attestors
      /\ r.affiliation = validator[w].affiliation /\ r.config = GetDiversityConfig
      /\ r.wired = Wired("progress")
  BY <1>3 DEF RecordOf
<1>5. PICK m : m = [validator |-> w, evidence |-> e, description |-> d, approved_at |-> now]
  OBVIOUS
<1>6. /\ RequireActivePlayer(p)
      /\ NextIndex(p) \in Indexes
      /\ milestone' = [milestone EXCEPT ![p][NextIndex(p)] = m]
      /\ milestoneCounter' = [milestoneCounter EXCEPT ![p] = NextIndex(p)]
      /\ ListForAll(w, attestors, ref)
      /\ BumpTotals(w, p)
      /\ AdvanceLevel(w, p)
      /\ PushGlobalMilestone(ref)
      /\ recorded' = Append(recorded, r)
  BY <1>1, <1>2, <1>3, <1>5, Zenon DEF Committing, CommitApprovedMilestone, RecordOf
<1>7. m \in Milestone
  <2>1. now \in Nat
    BY RegistryBounds DEF RegistryInv, TypeOKRegistry
  <2> QED
    BY <1>5, <2>1 DEF Milestone
<1>8. ref \in MilestoneRef
  BY <1>2, <1>6 DEF MilestoneRef
<1>9. Extends(r)
  BY <1>6, HistoryExtends
<1>10. UNCHANGED <<transferred, erasureCursor>>
  BY <1>1 DEF Committing, Unregistering, Rest, validatorVars
<1>11. wiring' = wiring
  BY OthersLeaveSettings DEF Unset
<1>12. Contains(attestors, w) /\ \A v : v \in ToSetOf(attestors) <=> Contains(attestors, v)
  BY <1>1, SetOfList DEF Committing
<1>13. attestors # << >>
  BY <1>12 DEF Contains
<1>14. \A v \in Wallets :
         validatorMilestones'[v] = IF GoesOnList(r, v) THEN Append(validatorMilestones[v], r.ref)
                                   ELSE validatorMilestones[v]
  <2> TAKE v \in Wallets
  <2>1. GoesOnList(r, v) <=> v \in ToSetOf(attestors)
    BY <1>4, <1>12, <1>13 DEF GoesOnList, Attests
  <2> QED
    BY <1>4, <1>6, <2>1 DEF ListForAll
<1>15. StandingFollows(p, w, r)
  BY <1>4, <1>6, <1>13 DEF StandingFollows, RequireActivePlayer
<1> QED
  BY <1>2, <1>4, <1>6, <1>7, <1>8, <1>9, <1>10, <1>11, <1>14, <1>15 DEF Recording

\* A replay lists it for its validator, unless it is on the list already.
LEMMA ReplayRecords ==
  ASSUME TypeOKMilestones, SeedMilestoneStep
  PROVE  \E p \in Players, w \in Wallets : \E r : Recording(p, w, r)
<1>1. PICK p \in Players, m \in SeedMilestones : AdminSeedMilestone(p, m) /\ Rest
  BY DEF SeedMilestoneStep
<1>2. m \in Milestone /\ m.validator \in Wallets
  BY AttestationAssumption DEF Milestone
<1>3. PICK w \in Wallets : w = m.validator
  BY <1>2
<1>4. PICK ref : ref = <<p, NextIndex(p)>>
  OBVIOUS
<1>5. PICK r : r = RecordOf(ref, w, << >>, NONE, NONE, Wired("progress"))
  OBVIOUS
<1>6. r.ref = ref /\ r.validator = w /\ r.attestors = << >>
  BY <1>5 DEF RecordOf
<1>7. /\ NextIndex(p) \in Indexes
      /\ milestone' = [milestone EXCEPT ![p][NextIndex(p)] = m]
      /\ milestoneCounter' = [milestoneCounter EXCEPT ![p] = NextIndex(p)]
      /\ validatorMilestones' =
           IF ref \in ToSetOf(validatorMilestones[w]) THEN validatorMilestones
           ELSE [validatorMilestones EXCEPT ![w] = Append(@, ref)]
      /\ BumpTotals(w, p)
      /\ PushGlobalMilestone(ref)
      /\ recorded' = Append(recorded, r)
      /\ UNCHANGED <<validatorVars, settings, standing>>
  BY <1>1, <1>3, <1>4, <1>5, Zenon DEF AdminSeedMilestone, RecordOf
<1>8. ref \in MilestoneRef
  BY <1>4, <1>7 DEF MilestoneRef
<1>9. Extends(r)
  BY <1>7, HistoryExtends
<1>10. UNCHANGED <<transferred, wiring, erasureCursor>>
  BY <1>1, <1>7 DEF Rest, validatorVars, settings
<1>11. ToSetOf(<< >>) = {} /\ << >> \in Seq(Wallets)
  BY DEF ToSetOf
<1>12. \A v \in Wallets :
         validatorMilestones'[v] = IF GoesOnList(r, v) THEN Append(validatorMilestones[v], r.ref)
                                   ELSE validatorMilestones[v]
  <2> TAKE v \in Wallets
  <2>1. GoesOnList(r, v) <=> v = w /\ ~Contains(validatorMilestones[v], ref)
    BY <1>6, <1>11 DEF GoesOnList, Attests
  <2>2. validatorMilestones[w] \in Seq(MilestoneRef) /\ DOMAIN validatorMilestones = Wallets
    BY DEF TypeOKMilestones
  <2>3. ref \in ToSetOf(validatorMilestones[w]) <=> Contains(validatorMilestones[w], ref)
    BY <2>2, SetOfList
  <2> QED
    BY <1>6, <1>7, <2>1, <2>2, <2>3
<1>13. StandingFollows(p, w, r)
  BY <1>6, <1>7 DEF StandingFollows
<1> QED
  BY <1>2, <1>4, <1>6, <1>7, <1>8, <1>9, <1>10, <1>11, <1>12, <1>13 DEF Recording

----
\* A wallet once given up stays so.
LEMMA TransfersStay ==
  ASSUME [Next]_vars
  PROVE  transferred \subseteq transferred'
<1>1. CASE RegisterStep \/ RestoreStep
  BY <1>1 DEF RegisterStep, RestoreStep, BatchRegisterValidators, RestoreValidator
<1>2. CASE TransferStep
  BY <1>2 DEF TransferStep, TransferRecord
<1>3. CASE PauseStep \/ UnpauseStep \/ ClockStep
  BY <1>3 DEF PauseStep, UnpauseStep, ClockStep, PauseContract, PauseApproveMilestone,
              UnpauseContract, UnpauseApproveMilestone, Pause, Unpause, ClockTick
<1>4. CASE RevokeStep \/ BatchRevokeStep
  BY <1>4, RevocationSteps DEF Revoke, RevokeRecords
<1>5. CASE Unregistering
  BY <1>5 DEF Unregistering, validatorVars
<1> QED
  BY <1>1, <1>2, <1>3, <1>4, <1>5, RegistrySteps

\* A peer once wired stays so.
LEMMA WiringStays ==
  ASSUME SettingsType, [Next]_vars, NEW peer \in Peers
  PROVE  wiring'[peer].epoch = 0 => wiring[peer].epoch = 0
<1>1. CASE Unset
  BY <1>1 DEF Unset
<1>2. CASE UNCHANGED vars
  BY <1>2 DEF vars, attestationVars, settings
<1>3. CASE WindowStep \/ DiversityStep \/ StatusStep \/ OpenWindowStep \/ CloseWindowStep
  BY <1>3 DEF WindowStep, SetVotingWindowSecs, DiversityStep, SetDiversityConfig, StatusStep,
              PlayerStatusChange, OpenWindowStep, OpenMigrationWindow, CloseWindowStep,
              CloseMigrationWindow
<1>4. CASE WiringStep
  <2>1. PICK q \in Peers : \E set : WriteWiringLink(q, set)
    BY <1>4 DEF WiringStep, SetProgressContract, UpdateProgressContract, Peers,
                SetRegistrationContract, UpdateRegistrationContract
  <2>2. PICK set : WriteWiringLink(q, set)
    BY <2>1
  <2>3. wiring' = [wiring EXCEPT ![q] = [epoch |-> wiring[q].epoch + 1, set |-> set]]
    BY <2>2 DEF WriteWiringLink
  <2>4. wiring[q].epoch \in Nat
    BY DEF SettingsType, WiringLink
  <2>5. wiring'[q].epoch # 0
    BY <2>3, <2>4 DEF SettingsType
  <2>6. peer # q => wiring'[peer] = wiring[peer]
    BY <2>3 DEF SettingsType
  <2> QED
    BY <2>5, <2>6
<1> QED
  BY <1>1, <1>2, <1>3, <1>4, OthersLeaveSettings, DisputesLeaveSettings DEF Next

\* Only purge_player_data moves an erasure on.
LEMMA ErasuresRest ==
  ASSUME RegistryInv, ClaimInv, [Next]_vars, ~PurgeStep
  PROVE  erasureCursor' = erasureCursor
<1>1. CASE ApproveStep \/ AttestCommitStep \/ SubmitStep
  <2>1. PICK w \in Wallets, p \in Players, e \in Evidence, d \in Descriptions,
             attestors \in Seq(Wallets) : Committing(w, p, e, d, attestors)
    BY <1>1, CommitSteps
  <2> QED
    BY <2>1 DEF Committing, Rest
<1>2. CASE SeedMilestoneStep \/ ClockStep
  BY <1>2 DEF SeedMilestoneStep, ClockStep, Rest
<1>3. CASE Unrated
  BY <1>3 DEF Unrated
<1>4. CASE UNCHANGED vars
  BY <1>4 DEF vars
<1> QED
  BY <1>1, <1>2, <1>3, <1>4, RegistryLeavesRate, SettingsLeaveRate, DisputesLeaveRate
     DEF Next

\* An erasure takes from its player only.
LEMMA ErasureRecordsNothing ==
  ASSUME RateType, TypeOKMilestones, [Next]_vars, SettingsType, PurgeStep
  PROVE  NothingNew
<1>1. PICK p \in Players : PurgePlayerData(p)
  BY DEF PurgeStep
<1>2. /\ ~NotErased(p)'
      /\ \A q \in Players : q # p =>
           /\ NotErased(q)' => NotErased(q)
           /\ milestone'[q] = milestone[q] /\ milestoneCounter'[q] = milestoneCounter[q]
  BY <1>1, ErasureBegins
<1>3. playerAffiliations' = [playerAffiliations EXCEPT ![p] = IF erasureCursor[p] = 0 THEN {} ELSE @]
  BY <1>1, Zenon DEF PurgePlayerData
<1>4. \A q \in Players : q # p => playerAffiliations'[q] = playerAffiliations[q]
  BY <1>3 DEF TypeOKMilestones
<1>5. UNCHANGED <<recorded, globalSlot, writeHead, validatorMilestones, validatorPlayers,
                  totalMilestoneCount, playerLevel, validatorMilestoneCount, transferred>>
  BY <1>1, Zenon DEF PurgePlayerData, tallies, validatorVars
<1>6. \A q \in Players : PlayerStays(q)
  BY <1>2, <1>4 DEF PlayerStays
<1> QED
  BY <1>5, <1>6, WiringStays DEF NothingNew

\* A step records a milestone or nothing.
LEMMA RecordsOrNothing ==
  ASSUME RegistryInv, ClaimInv, SettingsType, TypeOKMilestones, RateType, [Next]_vars
  PROVE  NothingNew \/ \E p \in Players, w \in Wallets : \E r : Recording(p, w, r)
<1>1. CASE ApproveStep \/ AttestCommitStep \/ SubmitStep
  BY <1>1, CommitRecords
<1>2. CASE SeedMilestoneStep
  BY <1>2, ReplayRecords
<1>3. CASE PurgeStep
  BY <1>3, ErasureRecordsNothing
<1>4. ASSUME ~PurgeStep, TransferStep \/ Unmarked PROVE NothingNew
  <2>1. transferred \subseteq transferred' /\ erasureCursor' = erasureCursor
    BY <1>4, TransfersStay, ErasuresRest
  <2>2. CASE Unmarked
    <3>1. /\ UNCHANGED <<recorded, globalSlot, writeHead, validatorMilestones, validatorPlayers,
                         totalMilestoneCount, playerLevel, validatorMilestoneCount>>
          /\ UNCHANGED <<milestone, milestoneCounter, playerAffiliations>>
      BY <2>2 DEF Unmarked, milestones, tallies, standing
    <3>2. \A q \in Players : PlayerStays(q)
      BY <2>1, <3>1 DEF PlayerStays, NotErased
    <3> QED
      BY <2>1, <3>1, <3>2, WiringStays DEF NothingNew
  <2>3. CASE TransferStep
    <3>1. PICK v, w \in Wallets : TransferRecord(v, w) /\ TransferMilestoneCount(v, w)
      BY <2>3 DEF TransferStep
    <3>2. UNCHANGED <<recorded, globalSlot, writeHead, validatorMilestones, validatorPlayers,
                      totalMilestoneCount, playerLevel, milestone, milestoneCounter,
                      playerAffiliations>>
      BY <3>1 DEF TransferMilestoneCount, standing
    <3>3. transferred' # {}
      BY <3>1 DEF TransferRecord
    <3>4. \A q \in Players : PlayerStays(q)
      BY <2>1, <3>2 DEF PlayerStays, NotErased
    <3> QED
      BY <3>2, <3>3, <3>4, WiringStays DEF NothingNew
  <2> QED
    BY <1>4, <2>2, <2>3
<1> QED
  BY <1>1, <1>2, <1>3, <1>4, MilestoneSteps

----
(***************************************************************************)
(* A validator's list of milestones, entry by entry.                        *)
(***************************************************************************)
\* Two filters that agree on the entries of a list leave the same.
LEMMA FilterSame ==
  ASSUME NEW S, NEW s \in Seq(S), NEW A, NEW B, \A i \in 1..Len(s) : s[i] \in A <=> s[i] \in B
  PROVE  Filter(s, A) = Filter(s, B)
<1> DEFINE Good == {u \in Seq(S) : (\A i \in 1..Len(u) : u[i] \in A <=> u[i] \in B)
                                     => Filter(u, A) = Filter(u, B)}
<1>1. << >> \in Good
  <2>1. << >> \in Seq(S)
    OBVIOUS
  <2>2. QED
    BY <2>1, FilterEmpty
<1>2. ASSUME NEW u \in Seq(S), NEW e \in S, u \in Good
      PROVE  Append(u, e) \in Good
  <2>1. PICK t \in Seq(S) : t = Append(u, e)
    BY AppendProperties, Zenon
  <2>2. /\ Len(t) = Len(u) + 1 /\ t[Len(u) + 1] = e
        /\ \A i \in 1..Len(u) : t[i] = u[i]
    BY <2>1, AppendProperties
  <2>3. ASSUME \A i \in 1..Len(t) : t[i] \in A <=> t[i] \in B
        PROVE  Filter(t, A) = Filter(t, B)
    <3>1. (e \in A <=> e \in B) /\ \A i \in 1..Len(u) : u[i] \in A <=> u[i] \in B
      BY <2>2, <2>3
    <3>2. Filter(u, A) = Filter(u, B)
      BY <1>2, <3>1
    <3>3. Filter(t, A) = IF e \in A THEN Append(Filter(u, A), e) ELSE Filter(u, A)
      BY <2>1, FilterAppend, Zenon
    <3>4. Filter(t, B) = IF e \in B THEN Append(Filter(u, B), e) ELSE Filter(u, B)
      BY <2>1, FilterAppend, Zenon
    <3>5. QED
      BY <3>1, <3>2, <3>3, <3>4, Zenon
  <2>4. QED
    BY <2>1, <2>3, Zenon
<1>3. Seq(S) \subseteq Good
  <2> HIDE DEF Good
  <2>1. QED
    BY <1>1, <1>2, InductionOnSequences
<1>4. QED
  BY <1>3

\* The numbers of the history entries.
EntryNumbers == [n \in DOMAIN recorded |-> n]

\* They are a list, each in its own place.
LEMMA NumbersAre ==
  ASSUME TypeOKMilestones
  PROVE  /\ EntryNumbers \in Seq(1..Len(recorded)) /\ Len(EntryNumbers) = Len(recorded)
         /\ \A n \in 1..Len(recorded) : EntryNumbers[n] = n
<1>1. PICK k \in Nat : k = Len(recorded) /\ DOMAIN recorded = 1..k
  BY HistoryIs
<1>2. EntryNumbers \in [1..k -> 1..k] /\ \A n \in 1..k : EntryNumbers[n] = n
  BY <1>1 DEF EntryNumbers
<1> QED
  BY <1>1, <1>2, FunctionIsList

\* The history's domain with one more entry.
LEMMA ExtendedDomain ==
  ASSUME TypeOKMilestones, TypeOKMilestones', NEW r, Extends(r)
  PROVE  DOMAIN recorded' = 1..(Len(recorded) + 1)
<1>1. recorded' \in Seq([ref : MilestoneRef, validator : Wallets, attestors : Seq(Wallets),
                         affiliation : Affiliations \cup {NONE},
                         config : DiversityConfig \cup {NONE}, wired : BOOLEAN])
  BY DEF TypeOKMilestones
<1>2. ASSUME NEW S, recorded' \in Seq(S) PROVE DOMAIN recorded' = 1..Len(recorded')
  BY <1>2
<1>3. DOMAIN recorded' = 1..Len(recorded')
  BY <1>1, <1>2
<1> QED
  BY <1>3 DEF Extends

\* One more number for one more entry.
LEMMA NumbersExtend ==
  ASSUME TypeOKMilestones, TypeOKMilestones', NEW r, Extends(r)
  PROVE  EntryNumbers' = Append(EntryNumbers, Len(recorded) + 1)
<1>1. PICK k \in Nat : k = Len(recorded)
  BY HistoryIs
<1>2. PICK s \in Seq(Nat) : s = EntryNumbers /\ Len(s) = k /\ \A n \in 1..k : s[n] = n
  BY <1>1, NumbersAre
<1>3. PICK t \in Seq(Nat) : t = Append(s, k + 1)
  <2>1. k + 1 \in Nat
    OBVIOUS
  <2> QED
    BY <2>1, AppendProperties, Zenon
<1>4. /\ Len(t) = k + 1 /\ t[k + 1] = k + 1
      /\ \A i \in 1..k : t[i] = s[i]
  BY <1>2, <1>3, AppendProperties
<1>5. \A i \in 1..(k + 1) : t[i] = i
  BY <1>2, <1>4
<1>6. t = [i \in 1..(k + 1) |-> i]
  BY <1>4, <1>5
<1>7. DOMAIN recorded' = 1..(k + 1)
  BY <1>1, ExtendedDomain
<1> QED
  BY <1>1, <1>2, <1>3, <1>6, <1>7 DEF EntryNumbers

\* The numbers a validator's list goes by.
LEMMA AttestedNumbers ==
  ASSUME TypeOKMilestones, NEW w
  PROVE  /\ AttestedBy(w) = Filter(EntryNumbers, Attested(w))
         /\ AttestedBy(w) \in Seq(1..Len(recorded))
         /\ \A i \in 1..Len(AttestedBy(w)) :
              AttestedBy(w)[i] \in Attested(w) /\ AttestedBy(w)[i] \in 1..Len(recorded)
<1>1. PICK A : A = Attested(w)
  OBVIOUS
<1>2. PICK mine : mine = AttestedBy(w)
  OBVIOUS
<1>3. mine = Filter(EntryNumbers, A)
  BY <1>1, <1>2, Zenon DEF AttestedBy, EntryNumbers
<1>4. mine \in Seq(1..Len(recorded))
  BY <1>3, NumbersAre, FilterType
<1>5. \A x : Contains(mine, x) => x \in A
  BY <1>3, NumbersAre, FilterEntries
<1>6. \A i \in 1..Len(mine) : Contains(mine, mine[i]) /\ mine[i] \in 1..Len(recorded)
  BY <1>4 DEF Contains
<1> QED
  BY <1>1, <1>2, <1>3, <1>4, <1>5, <1>6

\* Who has to list the new entry is said by those before it.
LEMMA AttestedExtends ==
  ASSUME TypeOKMilestones, TypeOKMilestones', NEW r, Extends(r), NEW w
  PROVE  /\ \A n \in 1..Len(recorded) : n \in Attested(w)' <=> n \in Attested(w)
         /\ Len(recorded) + 1 \in Attested(w)' <=>
              /\ Attests(r, w)
              /\ \/ r.attestors # << >>
                 \/ ~\E m \in 1..Len(recorded) :
                       Attests(recorded[m], w) /\ recorded[m].ref = r.ref
<1>1. PICK k \in Nat : k = Len(recorded) /\ DOMAIN recorded = 1..k
  BY HistoryIs
<1>2. PICK old : old = recorded
  OBVIOUS
<1>3. PICK new : new = recorded'
  OBVIOUS
<1>4. DOMAIN new = 1..(k + 1)
  BY <1>1, <1>3, ExtendedDomain
<1>5. new[k + 1] = r /\ \A n \in 1..k : new[n] = old[n]
  BY <1>1, <1>2, <1>3 DEF Extends
<1>6. \A n : n \in Attested(w) <=>
        /\ n \in 1..k
        /\ Attests(old[n], w)
        /\ \/ old[n].attestors # << >>
           \/ ~\E m \in 1..(n - 1) : Attests(old[m], w) /\ old[m].ref = old[n].ref
  BY <1>1, <1>2 DEF Attested
<1>7. \A n : n \in Attested(w)' <=>
        /\ n \in 1..(k + 1)
        /\ Attests(new[n], w)
        /\ \/ new[n].attestors # << >>
           \/ ~\E m \in 1..(n - 1) : Attests(new[m], w) /\ new[m].ref = new[n].ref
  BY <1>3, <1>4 DEF Attested, Attests
<1>8. ASSUME NEW n \in 1..k PROVE n \in Attested(w)' <=> n \in Attested(w)
  <2>1. n \in 1..(k + 1) /\ \A m \in 1..(n - 1) : m \in 1..k
    OBVIOUS
  <2>2. new[n] = old[n] /\ \A m \in 1..(n - 1) : new[m] = old[m]
    BY <1>5, <2>1
  <2> QED
    BY <1>6, <1>7, <2>1, <2>2
<1>9. k + 1 \in 1..(k + 1) /\ 1..((k + 1) - 1) = 1..k
  OBVIOUS
<1>10. k + 1 \in Attested(w)' <=>
         /\ Attests(r, w)
         /\ \/ r.attestors # << >>
            \/ ~\E m \in 1..k : Attests(old[m], w) /\ old[m].ref = r.ref
  BY <1>5, <1>7, <1>9
<1> QED
  BY <1>1, <1>2, <1>8, <1>10

\* The numbers w goes by with one more entry.
LEMMA AttestedByExtends ==
  ASSUME TypeOKMilestones, TypeOKMilestones', NEW r, Extends(r), NEW w
  PROVE  AttestedBy(w)' = IF Len(recorded) + 1 \in Attested(w)'
                          THEN Append(AttestedBy(w), Len(recorded) + 1) ELSE AttestedBy(w)
<1>1. PICK k \in Nat : k = Len(recorded)
  BY HistoryIs
<1>2. PICK s \in Seq(Nat) : s = EntryNumbers /\ Len(s) = k /\ \A n \in 1..k : s[n] = n
  BY <1>1, NumbersAre
<1>3. PICK A : A = Attested(w)
  OBVIOUS
<1>4. PICK B : B = Attested(w)'
  OBVIOUS
<1>5. AttestedBy(w)' = Filter(Append(s, k + 1), B)
  <2>1. EntryNumbers' = Append(s, k + 1)
    BY <1>1, <1>2, NumbersExtend
  <2>2. AttestedBy(w)' = Filter(EntryNumbers', B)
    BY <1>4, Zenon DEF AttestedBy, EntryNumbers
  <2> QED
    BY <2>1, <2>2
<1>6. Filter(Append(s, k + 1), B) = IF k + 1 \in B THEN Append(Filter(s, B), k + 1)
                                    ELSE Filter(s, B)
  <2>1. k + 1 \in Nat
    OBVIOUS
  <2> QED
    BY <2>1, FilterAppend
<1>7. \A i \in 1..Len(s) : s[i] \in B <=> s[i] \in A
  BY <1>1, <1>2, <1>3, <1>4, AttestedExtends
<1>8. Filter(s, B) = Filter(s, A)
  BY <1>7, FilterSame
<1>9. AttestedBy(w) = Filter(s, A)
  BY <1>2, <1>3, AttestedNumbers
<1> QED
  BY <1>1, <1>4, <1>5, <1>6, <1>8, <1>9

----
\* The milestones on w's list are those of the entries it goes by, in their order, and
\* it misses none that w attested.
ListFollows(w) ==
  /\ Len(validatorMilestones[w]) = Len(AttestedBy(w))
  /\ \A i \in 1..Len(AttestedBy(w)) :
       validatorMilestones[w][i] = recorded[AttestedBy(w)[i]].ref
  /\ \A n \in 1..Len(recorded) :
       Attests(recorded[n], w) => Contains(validatorMilestones[w], recorded[n].ref)

\* The list gets the new milestone when the entry is one it goes by.
LEMMA ListGrows ==
  ASSUME TypeOKMilestones, TypeOKMilestones', NEW w \in Wallets, ListFollows(w),
         NEW r, Extends(r)
  PROVE  GoesOnList(r, w) <=> Len(recorded) + 1 \in Attested(w)'
<1>1. PICK k \in Nat : k = Len(recorded)
  BY HistoryIs
<1>2. PICK mine \in Seq(1..k) :
        /\ mine = AttestedBy(w)
        /\ \A i \in 1..Len(mine) : mine[i] \in Attested(w) /\ mine[i] \in 1..k
  BY <1>1, AttestedNumbers
<1>3. PICK list \in Seq(MilestoneRef) : list = validatorMilestones[w]
  BY DEF TypeOKMilestones
<1>4. /\ Len(list) = Len(mine)
      /\ \A i \in 1..Len(mine) : list[i] = recorded[mine[i]].ref
      /\ \A n \in 1..k : Attests(recorded[n], w) => Contains(list, recorded[n].ref)
  BY <1>1, <1>2, <1>3 DEF ListFollows
<1>5. \A n \in Attested(w) : Attests(recorded[n], w)
  BY DEF Attested
<1>6. Contains(list, r.ref) <=>
        \E m \in 1..k : Attests(recorded[m], w) /\ recorded[m].ref = r.ref
  <2>1. ASSUME Contains(list, r.ref)
        PROVE  \E m \in 1..k : Attests(recorded[m], w) /\ recorded[m].ref = r.ref
    <3>1. PICK i \in 1..Len(list) : list[i] = r.ref
      BY <2>1 DEF Contains
    <3>2. i \in 1..Len(mine)
      BY <1>4, <3>1
    <3> QED
      BY <1>2, <1>4, <1>5, <3>1, <3>2
  <2> QED
    BY <1>4, <2>1
<1>7. k + 1 \in Attested(w)' <=>
        /\ Attests(r, w)
        /\ \/ r.attestors # << >>
           \/ ~\E m \in 1..k : Attests(recorded[m], w) /\ recorded[m].ref = r.ref
  BY <1>1, AttestedExtends
<1> QED
  BY <1>1, <1>3, <1>6, <1>7 DEF GoesOnList

\* What is recorded keeps w's list in step.
LEMMA ListStays ==
  ASSUME TypeOKMilestones, TypeOKMilestones', NEW w \in Wallets, ListFollows(w),
         NEW p \in Players, NEW by \in Wallets, NEW r, Recording(p, by, r)
  PROVE  ListFollows(w)'
<1>1. PICK k \in Nat : k = Len(recorded)
  BY HistoryIs
<1>2. Extends(r) /\ r.ref \in MilestoneRef
  BY DEF Recording
<1>3. PICK mine \in Seq(1..k) :
        /\ mine = AttestedBy(w)
        /\ \A i \in 1..Len(mine) : mine[i] \in 1..k
  BY <1>1, AttestedNumbers
<1>4. PICK list \in Seq(MilestoneRef) : list = validatorMilestones[w]
  BY DEF TypeOKMilestones
<1>5. PICK new : new = recorded'
  OBVIOUS
<1>6. Len(new) = k + 1 /\ new[k + 1] = r /\ \A n \in 1..k : new[n] = recorded[n]
  BY <1>1, <1>2, <1>5 DEF Extends
<1>7. /\ Len(list) = Len(mine)
      /\ \A i \in 1..Len(mine) : list[i] = recorded[mine[i]].ref
      /\ \A n \in 1..k : Attests(recorded[n], w) => Contains(list, recorded[n].ref)
  BY <1>1, <1>3, <1>4 DEF ListFollows
<1>8. PICK list2 : list2 = validatorMilestones'[w]
  OBVIOUS
<1>9. PICK mine2 : mine2 = AttestedBy(w)'
  OBVIOUS
<1>10. list2 = IF GoesOnList(r, w) THEN Append(list, r.ref) ELSE list
  BY <1>4, <1>8 DEF Recording
<1>11. mine2 = IF GoesOnList(r, w) THEN Append(mine, k + 1) ELSE mine
  BY <1>1, <1>2, <1>3, <1>9, ListGrows, AttestedByExtends
<1>12. /\ Len(list2) = Len(mine2)
       /\ \A i \in 1..Len(mine2) : list2[i] = new[mine2[i]].ref
  <2>1. CASE GoesOnList(r, w)
    <3>1. /\ Len(list2) = Len(list) + 1 /\ list2[Len(list) + 1] = r.ref
          /\ \A i \in 1..Len(list) : list2[i] = list[i]
      BY <1>2, <1>10, <2>1, AppendProperties
    <3>2. PICK s \in Seq(Nat) : s = mine
      BY <1>3
    <3>3. k + 1 \in Nat
      OBVIOUS
    <3>4. /\ Len(mine2) = Len(mine) + 1 /\ mine2[Len(mine) + 1] = k + 1
          /\ \A i \in 1..Len(mine) : mine2[i] = mine[i]
      BY <1>11, <2>1, <3>2, <3>3, AppendProperties
    <3>5. ASSUME NEW i \in 1..Len(mine2) PROVE list2[i] = new[mine2[i]].ref
      <4>1. CASE i = Len(mine) + 1
        BY <1>6, <1>7, <3>1, <3>4, <4>1
      <4>2. CASE i # Len(mine) + 1
        <5>1. i \in 1..Len(mine)
          BY <3>4, <3>5, <4>2
        <5>2. mine2[i] \in 1..k /\ list2[i] = recorded[mine2[i]].ref
          BY <1>3, <1>7, <3>1, <3>4, <5>1
        <5> QED
          BY <1>6, <5>2
      <4> QED
        BY <4>1, <4>2
    <3> QED
      BY <1>7, <3>1, <3>4, <3>5
  <2>2. CASE ~GoesOnList(r, w)
    BY <1>3, <1>6, <1>7, <1>10, <1>11, <2>2
  <2> QED
    BY <2>1, <2>2
<1>13. ASSUME NEW n \in 1..(k + 1), Attests(new[n], w)
       PROVE  Contains(list2, new[n].ref)
  <2>1. \A x : Contains(Append(list, r.ref), x) <=> Contains(list, x) \/ x = r.ref
    BY <1>2, AppendEntries
  <2>2. \A x : Contains(list, x) => Contains(list2, x)
    BY <1>10, <2>1
  <2>3. CASE n = k + 1
    <3>1. Attests(r, w) /\ new[n] = r
      BY <1>6, <1>13, <2>3
    <3>2. CASE GoesOnList(r, w)
      BY <1>10, <2>1, <3>1, <3>2
    <3>3. CASE ~GoesOnList(r, w)
      BY <1>4, <1>10, <3>1, <3>3 DEF GoesOnList
    <3> QED
      BY <3>2, <3>3
  <2>4. CASE n # k + 1
    <3>1. n \in 1..k
      BY <2>4
    <3> QED
      BY <1>6, <1>7, <1>13, <2>2, <3>1
  <2> QED
    BY <2>3, <2>4
<1> QED
  BY <1>5, <1>6, <1>8, <1>9, <1>12, <1>13 DEF ListFollows, Attests

\* Where nothing is recorded nothing is listed.
LEMMA ListRests ==
  ASSUME NEW w \in Wallets, ListFollows(w), NothingNew
  PROVE  ListFollows(w)'
BY DEF ListFollows, NothingNew, AttestedBy, Attested, Attests

----
\* The pages of a validator's milestones are its list.
LEMMA MilestonePagesReadOut ==
  ASSUME TypeOKMilestones, NEW w \in Wallets, ListFollows(w)
  PROVE  /\ ReadsOut(LAMBDA offset : GetValidatorMilestonesPage(w, offset, 1),
                     LAMBDA i : recorded[AttestedBy(w)[i]].ref, 1, Len(AttestedBy(w)))
         /\ GetValidatorMilestonesPageV2(w, 0, 1).total = Len(AttestedBy(w))
<1>1. PICK list \in Seq(MilestoneRef) : list = validatorMilestones[w]
  BY DEF TypeOKMilestones
<1>2. PICK mine : mine = AttestedBy(w)
  OBVIOUS
<1>3. Len(list) = Len(mine) /\ \A i \in 1..Len(mine) : list[i] = recorded[mine[i]].ref
  BY <1>1, <1>2 DEF ListFollows
<1>4. ASSUME NEW offset \in 0..Len(mine)
      PROVE  /\ Len(GetValidatorMilestonesPage(w, offset, 1))
                  = Least(PageCap(1), Len(mine) - offset)
             /\ \A k \in DOMAIN GetValidatorMilestonesPage(w, offset, 1) :
                  GetValidatorMilestonesPage(w, offset, 1)[k] = recorded[mine[offset + k]].ref
  <2>1. PICK page : page = GetValidatorMilestonesPage(w, offset, 1)
    OBVIOUS
  <2>2. page = Page(list, offset, 1)
    BY <1>1, <2>1, Zenon DEF GetValidatorMilestonesPage
  <2>3. offset \in 0..Len(list) /\ 1 \in Nat
    BY <1>3
  <2>4. Len(page) = Least(PageCap(1), Len(list) - offset)
    BY <2>2, <2>3, PagesOfList
  <2>5. \A k \in DOMAIN page : page[k] = list[offset + k] /\ offset + k \in 1..Len(list)
    BY <2>2, <2>3, PagesOfList
  <2>6. \A k \in DOMAIN page : page[k] = recorded[mine[offset + k]].ref
    BY <1>3, <2>5
  <2> QED
    BY <1>3, <2>1, <2>4, <2>6
<1>5. ReadsOut(LAMBDA offset : GetValidatorMilestonesPage(w, offset, 1),
               LAMBDA i : recorded[AttestedBy(w)[i]].ref, 1, Len(AttestedBy(w)))
  <2>1. ASSUME NEW offset \in 0..Len(AttestedBy(w))
        PROVE  /\ Len(GetValidatorMilestonesPage(w, offset, 1))
                    = Least(PageCap(1), Len(AttestedBy(w)) - offset)
               /\ \A k \in DOMAIN GetValidatorMilestonesPage(w, offset, 1) :
                    GetValidatorMilestonesPage(w, offset, 1)[k]
                      = recorded[AttestedBy(w)[offset + k]].ref
    BY <1>2, <1>4
  <2> QED
    BY <2>1, Zenon DEF ReadsOut
<1>6. GetValidatorMilestonesPageV2(w, 0, 1).total = Len(mine)
  BY <1>1, <1>3 DEF GetValidatorMilestonesPageV2
<1> QED
  BY <1>2, <1>5, <1>6, Zenon

\* So are, before any erasure, the pages of the milestones themselves.
LEMMA RecordPagesReadOut ==
  ASSUME TypeOKMilestones, NEW w \in Wallets, ListFollows(w),
         \A n \in 1..Len(recorded) : MilestoneAt(recorded[n].ref) # NONE
  PROVE  ReadsOut(LAMBDA offset : GetMilestonesByValidatorPage(w, offset, 1),
                  LAMBDA i : MilestoneAt(recorded[AttestedBy(w)[i]].ref), 1, Len(AttestedBy(w)))
<1>1. PICK list \in Seq(MilestoneRef) : list = validatorMilestones[w]
  BY DEF TypeOKMilestones
<1>2. PICK mine : mine = AttestedBy(w) /\ \A i \in 1..Len(mine) : mine[i] \in 1..Len(recorded)
  BY AttestedNumbers
<1>3. Len(list) = Len(mine) /\ \A i \in 1..Len(mine) : list[i] = recorded[mine[i]].ref
  BY <1>1, <1>2 DEF ListFollows
<1>4. PICK there : there = {ref \in MilestoneRef : MilestoneAt(ref) # NONE}
  OBVIOUS
<1>5. \A i \in 1..Len(list) : list[i] \in there
  BY <1>1, <1>2, <1>3, <1>4
<1>6. ASSUME NEW offset \in 0..Len(mine)
      PROVE  /\ Len(GetMilestonesByValidatorPage(w, offset, 1))
                  = Least(PageCap(1), Len(mine) - offset)
             /\ \A k \in DOMAIN GetMilestonesByValidatorPage(w, offset, 1) :
                  GetMilestonesByValidatorPage(w, offset, 1)[k]
                    = MilestoneAt(recorded[mine[offset + k]].ref)
  <2>1. PICK page : page = GetValidatorMilestonesPage(w, offset, 1)
    OBVIOUS
  <2>2. page = Page(list, offset, 1)
    BY <1>1, <2>1, Zenon DEF GetValidatorMilestonesPage
  <2>3. offset \in 0..Len(list) /\ 1 \in Nat
    BY <1>3
  <2>4. page \in Seq(MilestoneRef) /\ DOMAIN page = 1..Len(page)
    BY <2>2, <2>3, PagesOfList
  <2>5. Len(page) = Least(PageCap(1), Len(list) - offset)
    BY <2>2, <2>3, PagesOfList
  <2>6. \A k \in DOMAIN page : page[k] = list[offset + k] /\ offset + k \in 1..Len(list)
    BY <2>2, <2>3, PagesOfList
  <2>7. \A k \in 1..Len(page) : page[k] \in there
    BY <1>5, <2>4, <2>6
  <2>8. Filter(page, there) = page
    BY <2>4, <2>7, FilterAll
  <2>9. PICK got : got = GetMilestonesByValidatorPage(w, offset, 1)
    OBVIOUS
  <2>10. got = [k \in DOMAIN page |-> MilestoneAt(page[k])]
    BY <1>4, <2>1, <2>8, <2>9, Zenon DEF GetMilestonesByValidatorPage
  <2>11. Len(got) = Len(page)
    <3>1. Len(page) \in Nat
      BY <2>4
    <3>2. PICK n \in Nat : n = Len(page) /\ DOMAIN page = 1..n
      BY <2>4, <3>1
    <3> QED
      BY <2>10, <3>2
  <2>12. \A k \in DOMAIN got : got[k] = MilestoneAt(recorded[mine[offset + k]].ref)
    BY <1>3, <2>6, <2>10
  <2> QED
    BY <1>3, <2>5, <2>9, <2>11, <2>12
<1>7. ASSUME NEW offset \in 0..Len(AttestedBy(w))
      PROVE  /\ Len(GetMilestonesByValidatorPage(w, offset, 1))
                  = Least(PageCap(1), Len(AttestedBy(w)) - offset)
             /\ \A k \in DOMAIN GetMilestonesByValidatorPage(w, offset, 1) :
                  GetMilestonesByValidatorPage(w, offset, 1)[k]
                    = MilestoneAt(recorded[AttestedBy(w)[offset + k]].ref)
  BY <1>2, <1>6
<1> QED
  BY <1>7, Zenon DEF ReadsOut

----
(***************************************************************************)
(* A validator's count and players.                                         *)
(***************************************************************************)
\* The players w committed a milestone for.
Helped(w) == {recorded[n].ref[1] : n \in CommittedBy(w)}

\* Until a transfer moves the count, it is that of w's commits; the players are those
\* w helped, each once.
CountsFollow(w) ==
  /\ transferred = {} => validatorMilestoneCount[w] = Cardinality(CommittedBy(w))
  /\ Distinct(validatorPlayers[w])
  /\ \A x : Contains(validatorPlayers[w], x) <=> x \in Helped(w)

\* What w committed, with one more entry.
LEMMA CommittedExtends ==
  ASSUME TypeOKMilestones, TypeOKMilestones', NEW r, Extends(r), NEW w
  PROVE  /\ IsFiniteSet(CommittedBy(w)) /\ Cardinality(CommittedBy(w)) \in Nat
         /\ r.validator = w =>
              /\ Cardinality(CommittedBy(w)') = Cardinality(CommittedBy(w)) + 1
              /\ Helped(w)' = Helped(w) \cup {r.ref[1]}
         /\ r.validator # w => CommittedBy(w)' = CommittedBy(w) /\ Helped(w)' = Helped(w)
<1>1. PICK k \in Nat : k = Len(recorded) /\ DOMAIN recorded = 1..k
  BY HistoryIs
<1>2. PICK old : old = recorded
  OBVIOUS
<1>3. PICK new : new = recorded'
  OBVIOUS
<1>4. DOMAIN new = 1..(k + 1) /\ new[k + 1] = r /\ \A n \in 1..k : new[n] = old[n]
  BY <1>1, <1>2, <1>3, ExtendedDomain DEF Extends
<1>5. PICK C : C = CommittedBy(w)
  OBVIOUS
<1>6. PICK D : D = CommittedBy(w)'
  OBVIOUS
<1>7. C = {n \in 1..k : old[n].validator = w} /\ D = {n \in 1..(k + 1) : new[n].validator = w}
  BY <1>1, <1>2, <1>3, <1>4, <1>5, <1>6 DEF CommittedBy
<1>8. IsFiniteSet(C) /\ Cardinality(C) \in Nat
  BY <1>7, PositionsFinite
<1>9. k + 1 \notin C
  BY <1>7
<1>10. r.validator = w => D = C \cup {k + 1}
  BY <1>4, <1>7
<1>11. r.validator # w => D = C
  BY <1>4, <1>7
<1>12. Cardinality(C \cup {k + 1}) = Cardinality(C) + 1
  BY <1>8, <1>9, FS_AddElement
<1>13. \A n \in C : new[n] = old[n]
  BY <1>4, <1>7
<1>14. Helped(w) = {old[n].ref[1] : n \in C} /\ Helped(w)' = {new[n].ref[1] : n \in D}
  BY <1>2, <1>3, <1>5, <1>6 DEF Helped
<1>15. r.validator = w => Helped(w)' = Helped(w) \cup {r.ref[1]}
  BY <1>4, <1>10, <1>13, <1>14
<1>16. r.validator # w => Helped(w)' = Helped(w)
  BY <1>11, <1>13, <1>14
<1> QED
  BY <1>5, <1>6, <1>8, <1>10, <1>11, <1>12, <1>15, <1>16

\* What is recorded is counted.
LEMMA CountsStay ==
  ASSUME TypeOKMilestones, TypeOKMilestones', NEW w \in Wallets, CountsFollow(w),
         NEW p \in Players, NEW by \in Wallets, NEW r, Recording(p, by, r)
  PROVE  CountsFollow(w)'
<1>1. /\ r.ref[1] = p /\ r.validator = by /\ Extends(r)
      /\ validatorMilestoneCount' = [validatorMilestoneCount EXCEPT ![by] = @ + 1]
      /\ validatorPlayers' = [validatorPlayers EXCEPT ![by] =
           IF p \in ToSetOf(@) THEN @ ELSE Append(@, p)]
      /\ transferred' = transferred
  BY DEF Recording, BumpTotals
<1>2. PICK list \in Seq(Players) : list = validatorPlayers[w]
  BY DEF TypeOKMilestones
<1>3. Distinct(list) /\ \A x : Contains(list, x) <=> x \in Helped(w)
  BY <1>2 DEF CountsFollow
<1>4. CASE w # by
  <2>1. CommittedBy(w)' = CommittedBy(w) /\ Helped(w)' = Helped(w)
    BY <1>1, <1>4, CommittedExtends
  <2>2. validatorMilestoneCount'[w] = validatorMilestoneCount[w]
        /\ validatorPlayers'[w] = validatorPlayers[w]
    BY <1>1, <1>4 DEF TypeOKMilestones
  <2> QED
    BY <1>1, <2>1, <2>2 DEF CountsFollow
<1>5. CASE w = by
  <2>1. /\ Cardinality(CommittedBy(w)') = Cardinality(CommittedBy(w)) + 1
        /\ Helped(w)' = Helped(w) \cup {p}
    BY <1>1, <1>5, CommittedExtends
  <2>2. /\ validatorMilestoneCount'[w] = validatorMilestoneCount[w] + 1
        /\ validatorPlayers'[w] = IF p \in ToSetOf(list) THEN list ELSE Append(list, p)
    BY <1>1, <1>2, <1>5 DEF TypeOKMilestones
  <2>3. p \in ToSetOf(list) <=> Contains(list, p)
    BY <1>2, SetOfList
  <2>4. transferred' = {} => validatorMilestoneCount'[w] = Cardinality(CommittedBy(w)')
    BY <1>1, <2>1, <2>2 DEF CountsFollow
  <2>5. CASE Contains(list, p)
    BY <1>3, <2>1, <2>2, <2>3, <2>4, <2>5 DEF CountsFollow
  <2>6. CASE ~Contains(list, p)
    <3>1. PICK list2 : list2 = Append(list, p)
      OBVIOUS
    <3>2. Distinct(list2) /\ \A x : Contains(list2, x) <=> Contains(list, x) \/ x = p
      BY <1>2, <1>3, <2>6, <3>1, AppendDistinct, AppendEntries
    <3> QED
      BY <1>3, <2>1, <2>2, <2>3, <2>4, <2>6, <3>1, <3>2 DEF CountsFollow
  <2> QED
    BY <2>5, <2>6
<1> QED
  BY <1>4, <1>5

\* Where nothing is recorded nothing is counted.
LEMMA CountsRest ==
  ASSUME NEW w \in Wallets, CountsFollow(w), NothingNew
  PROVE  CountsFollow(w)'
<1>1. CommittedBy(w)' = CommittedBy(w) /\ Helped(w)' = Helped(w)
  BY DEF NothingNew, CommittedBy, Helped
<1> QED
  BY <1>1 DEF CountsFollow, NothingNew

\* What a validator's report says.
LEMMA ReportIsTrue ==
  ASSUME TypeOKMilestones, NEW w \in Wallets, CountsFollow(w),
         NEW report, report = GetValidatorActivityReport(w)
  PROVE  /\ transferred = {} => report.milestone_count = Cardinality(CommittedBy(w))
         /\ ToSetOf(report.distinct_players) = Helped(w)
         /\ report.distinct_player_count = Cardinality(Helped(w))
         /\ ReadsOut(LAMBDA offset : GetValidatorPlayersPage(w, offset, 1).entries,
                     LAMBDA i : report.distinct_players[i], 1, Cardinality(Helped(w)))
<1>1. PICK list \in Seq(Players) : list = validatorPlayers[w]
  BY DEF TypeOKMilestones
<1>2. Distinct(list) /\ \A x : Contains(list, x) <=> x \in Helped(w)
  BY <1>1 DEF CountsFollow
<1>3. /\ report.milestone_count = validatorMilestoneCount[w]
      /\ report.distinct_player_count = Len(list) /\ report.distinct_players = list
  BY <1>1 DEF GetValidatorActivityReport, GetValidatorPlayers
<1>4. ToSetOf(list) = Helped(w)
  BY <1>1, <1>2, SetOfList
<1>5. Len(list) = Cardinality(Helped(w))
  <2>1. Len(list) = Cardinality({x \in Players : Contains(list, x)})
    BY <1>2, DistinctLength
  <2>2. \A x : Contains(list, x) => x \in Players
    BY <1>1 DEF Contains
  <2>3. {x \in Players : Contains(list, x)} = Helped(w)
    BY <1>2, <2>2
  <2> QED
    BY <2>1, <2>3
<1>6. ASSUME NEW offset \in 0..Cardinality(Helped(w))
      PROVE  /\ Len(GetValidatorPlayersPage(w, offset, 1).entries)
                  = Least(PageCap(1), Cardinality(Helped(w)) - offset)
             /\ \A k \in DOMAIN GetValidatorPlayersPage(w, offset, 1).entries :
                  GetValidatorPlayersPage(w, offset, 1).entries[k]
                    = report.distinct_players[offset + k]
  <2>1. PICK page : page = GetValidatorPlayersPage(w, offset, 1).entries
    OBVIOUS
  <2>2. page = Page(list, offset, 1)
    BY <1>1, <2>1 DEF GetValidatorPlayersPage
  <2>3. offset \in 0..Len(list) /\ 1 \in Nat
    BY <1>5
  <2>4. Len(page) = Least(PageCap(1), Len(list) - offset)
    BY <2>2, <2>3, PagesOfList
  <2>5. \A k \in DOMAIN page : page[k] = list[offset + k]
    BY <2>2, <2>3, PagesOfList
  <2> QED
    BY <1>3, <1>5, <2>1, <2>4, <2>5
<1>7. ReadsOut(LAMBDA offset : GetValidatorPlayersPage(w, offset, 1).entries,
               LAMBDA i : report.distinct_players[i], 1, Cardinality(Helped(w)))
  BY <1>6, Zenon DEF ReadsOut
<1>8. transferred = {} => report.milestone_count = Cardinality(CommittedBy(w))
  BY <1>3 DEF CountsFollow
<1> QED
  BY <1>3, <1>4, <1>5, <1>7, <1>8, Zenon

----
(***************************************************************************)
(* A player's organisations and level.                                      *)
(***************************************************************************)
\* The history entries that moved p on.
Advancing(p) == {n \in DOMAIN recorded : recorded[n].ref[1] = p /\ Advanced(n)}

\* Until p's erasure, what speaks for p and how far p got follow from the history.
StandingFits(p) ==
  NotErased(p) =>
    /\ playerLevel[p] = Least(MAX_LEVEL, Cardinality(Advancing(p)))
    /\ playerAffiliations[p] = AffiliationsUpTo(p, Len(recorded))

\* Whether an entry's gate lets its player on, where these organisations stand behind it.
LetOn(r, affiliations) ==
  /\ r.attestors # << >> /\ r.wired
  /\ \/ r.config = NONE
     \/ r.ref[2] < r.config.starting_milestone_index
     \/ Cardinality(affiliations) >= r.config.required_distinct_affiliations

\* The organisations with one more entry.
LEMMA AffiliationsExtend ==
  ASSUME TypeOKMilestones, TypeOKMilestones', NEW r, Extends(r),
         NEW k \in Nat, k = Len(recorded), NEW p
  PROVE  /\ \A n \in 1..k : AffiliationsUpTo(p, n)' = AffiliationsUpTo(p, n)
         /\ AffiliationsUpTo(p, k + 1)' =
              IF r.ref[1] = p /\ r.attestors # << >>
              THEN AffiliationsUpTo(p, k) \cup {r.affiliation} ELSE AffiliationsUpTo(p, k)
<1>1. PICK old : old = recorded
  OBVIOUS
<1>2. PICK new : new = recorded'
  OBVIOUS
<1>3. new[k + 1] = r /\ \A n \in 1..k : new[n] = old[n]
  BY <1>1, <1>2 DEF Extends
<1> DEFINE from(h, n) == {j \in 1..n : h[j].ref[1] = p /\ h[j].attestors # << >>}
<1>4. ASSUME NEW n
      PROVE  /\ AffiliationsUpTo(p, n) = {old[i].affiliation : i \in from(old, n)}
             /\ AffiliationsUpTo(p, n)' = {new[i].affiliation : i \in from(new, n)}
  BY <1>1, <1>2 DEF AffiliationsUpTo
<1>5. ASSUME NEW n \in 1..k PROVE AffiliationsUpTo(p, n)' = AffiliationsUpTo(p, n)
  <2>1. \A i \in 1..n : new[i] = old[i]
    <3>1. \A i \in 1..n : i \in 1..k
      OBVIOUS
    <3> QED
      BY <1>3, <3>1
  <2>2. from(new, n) = from(old, n) /\ \A i \in from(old, n) : new[i] = old[i]
    BY <2>1
  <2>3. PICK F : F = from(old, n)
    OBVIOUS
  <2>4. \A i \in F : new[i] = old[i]
    BY <2>2, <2>3
  <2>5. {new[i].affiliation : i \in F} = {old[i].affiliation : i \in F}
    BY <2>4
  <2>6. AffiliationsUpTo(p, n) = {old[i].affiliation : i \in F}
    BY <1>4, <2>3
  <2>7. AffiliationsUpTo(p, n)' = {new[i].affiliation : i \in F}
    BY <1>4, <2>2, <2>3
  <2> QED
    BY <2>5, <2>6, <2>7
<1>6. AffiliationsUpTo(p, k + 1)' =
        IF r.ref[1] = p /\ r.attestors # << >>
        THEN AffiliationsUpTo(p, k) \cup {r.affiliation} ELSE AffiliationsUpTo(p, k)
  <2>1. from(new, k + 1) = IF r.ref[1] = p /\ r.attestors # << >>
                           THEN from(old, k) \cup {k + 1} ELSE from(old, k)
    <3>1. ASSUME NEW j
          PROVE  j \in from(new, k + 1) <=>
                   \/ j \in from(old, k)
                   \/ j = k + 1 /\ r.ref[1] = p /\ r.attestors # << >>
      <4>1. CASE j = k + 1
        BY <1>3, <4>1
      <4>2. CASE j # k + 1
        <5>1. j \in 1..(k + 1) <=> j \in 1..k
          BY <4>2
        <5> QED
          BY <1>3, <4>2, <5>1
      <4> QED
        BY <4>1, <4>2
    <3> HIDE DEF from
    <3> QED
      BY <3>1
  <2>2. \A i \in from(old, k) : new[i] = old[i]
    BY <1>3
  <2>3. PICK F : F = from(old, k)
    OBVIOUS
  <2>4. \A i \in F : new[i] = old[i]
    BY <2>2, <2>3
  <2>5. {new[i].affiliation : i \in F} = {old[i].affiliation : i \in F}
    BY <2>4
  <2>6. AffiliationsUpTo(p, k) = {old[i].affiliation : i \in F}
    BY <1>4, <2>3
  <2>7. PICK G : G = from(new, k + 1)
    OBVIOUS
  <2>8. AffiliationsUpTo(p, k + 1)' = {new[i].affiliation : i \in G}
    BY <1>4, <2>7
  <2>9. CASE r.ref[1] = p /\ r.attestors # << >>
    <3>1. G = F \cup {k + 1}
      BY <2>1, <2>3, <2>7, <2>9
    <3>2. {new[i].affiliation : i \in G} = {new[i].affiliation : i \in F} \cup {r.affiliation}
      BY <1>3, <3>1
    <3> QED
      BY <2>5, <2>6, <2>8, <2>9, <3>2
  <2>10. CASE ~(r.ref[1] = p /\ r.attestors # << >>)
    <3>1. G = F
      BY <2>1, <2>3, <2>7, <2>10
    <3> QED
      BY <2>5, <2>6, <2>8, <2>10, <3>1
  <2> QED
    BY <2>9, <2>10
<1> QED
  BY <1>5, <1>6

\* The entries that move a player on, with one more.
LEMMA AdvancingExtends ==
  ASSUME TypeOKMilestones, TypeOKMilestones', NEW r, Extends(r), NEW p
  PROVE  /\ IsFiniteSet(Advancing(p)) /\ Cardinality(Advancing(p)) \in Nat
         /\ Cardinality(Advancing(p)') = Cardinality(Advancing(p))
              + (IF r.ref[1] = p /\ LetOn(r, AffiliationsUpTo(p, Len(recorded))')
                 THEN 1 ELSE 0)
<1>1. PICK k \in Nat : k = Len(recorded) /\ DOMAIN recorded = 1..k
  BY HistoryIs
<1>2. Len(recorded)' = k + 1
  BY <1>1 DEF Extends
<1>3. PICK old : old = recorded
  OBVIOUS
<1>4. PICK new : new = recorded'
  OBVIOUS
<1>5. DOMAIN new = 1..(k + 1) /\ new[k + 1] = r /\ \A n \in 1..k : new[n] = old[n]
  BY <1>1, <1>3, <1>4, ExtendedDomain DEF Extends
<1>6. ASSUME NEW n \in 1..k PROVE Advanced(n)' <=> Advanced(n)
  <2>1. PICK e : e = old[n] /\ e = new[n]
    BY <1>5
  <2>2. AffiliationsUpTo(e.ref[1], n)' = AffiliationsUpTo(e.ref[1], n)
    BY <1>1, AffiliationsExtend
  <2>3. Advanced(n) <=> LetOn(e, AffiliationsUpTo(e.ref[1], n))
    BY <1>3, <2>1 DEF Advanced, LetOn
  <2>4. Advanced(n)' <=> LetOn(e, AffiliationsUpTo(e.ref[1], n)')
    BY <1>4, <2>1 DEF Advanced, LetOn
  <2> QED
    BY <2>2, <2>3, <2>4
<1>7. Advanced(k + 1)' <=> LetOn(r, AffiliationsUpTo(r.ref[1], k + 1)')
  BY <1>4, <1>5 DEF Advanced, LetOn
<1>8. PICK A : A = Advancing(p)
  OBVIOUS
<1>9. PICK B : B = Advancing(p)'
  OBVIOUS
<1>10. A = {n \in 1..k : old[n].ref[1] = p /\ Advanced(n)}
  BY <1>1, <1>3, <1>8 DEF Advancing
<1>11. B = {n \in 1..(k + 1) : new[n].ref[1] = p /\ Advanced(n)'}
  BY <1>4, <1>5, <1>9 DEF Advancing
<1>12. IsFiniteSet(A) /\ Cardinality(A) \in Nat /\ k + 1 \notin A
  <2>1. A \in SUBSET (1..k)
    BY <1>10
  <2>2. k + 1 \notin 1..k
    OBVIOUS
  <2>3. k + 1 \notin A
    BY <2>1, <2>2
  <2> QED
    BY <2>1, <2>3, PositionsFinite
<1>13. PICK let \in BOOLEAN : let <=> r.ref[1] = p /\ LetOn(r, AffiliationsUpTo(p, k + 1)')
  <2>1. (r.ref[1] = p /\ LetOn(r, AffiliationsUpTo(p, k + 1)')) \in BOOLEAN
    OBVIOUS
  <2> QED
    BY <2>1, Zenon
<1>14. \A n : n \in B <=> n \in A \/ (n = k + 1 /\ let)
  <2> TAKE n
  <2>1. CASE n = k + 1
    BY <1>5, <1>7, <1>11, <1>12, <1>13, <2>1
  <2>2. CASE n # k + 1
    <3>1. n \in 1..(k + 1) <=> n \in 1..k
      BY <2>2
    <3> QED
      BY <1>5, <1>6, <1>10, <1>11, <2>2, <3>1
  <2> QED
    BY <2>1, <2>2
<1>15. let => B = A \cup {k + 1}
  BY <1>14
<1>16. ~let => B = A
  BY <1>14
<1>17. Cardinality(A \cup {k + 1}) = Cardinality(A) + 1
  BY <1>12, FS_AddElement
<1>18. AffiliationsUpTo(p, Len(recorded))' = AffiliationsUpTo(p, k + 1)'
  BY <1>2 DEF AffiliationsUpTo
<1>19. Cardinality(B) = Cardinality(A) + (IF let THEN 1 ELSE 0)
  BY <1>12, <1>15, <1>16, <1>17
<1> QED
  BY <1>8, <1>9, <1>12, <1>13, <1>18, <1>19

----
\* A level counted one further is the capped count of one more.
LEMMA LevelUp ==
  ASSUME NEW c \in Nat, NEW top \in Nat
  PROVE  Least(Least(top, c) + 1, top) = Least(top, c + 1)
BY DEF Least

\* What advance_level decides is what the entry says.
LEMMA GateIsRecorded ==
  ASSUME SettingsType, TypeOKMilestones, NEW p \in Players, NEW w \in Wallets, NEW r,
         Recording(p, w, r), r.attestors # << >>, NEW S
  PROVE  AdvanceAllowed(GetDiversityConfig, NextIndex(p), S) /\ Wired("progress")
           <=> LetOn(r, S)
<1>1. /\ r.attestors # << >> /\ r.config = GetDiversityConfig /\ r.wired = Wired("progress")
      /\ r.ref[2] = NextIndex(p)
  BY DEF Recording, StandingFollows
<1>2. PICK config : config = GetDiversityConfig
  OBVIOUS
<1>3. config \in DiversityConfig \cup {NONE}
  BY <1>2, MilestoneBounds DEF SettingsType, GetDiversityConfig
<1>4. PICK n \in Nat : n = NextIndex(p)
  BY MilestoneBounds DEF TypeOKMilestones, NextIndex
<1>5. CASE config = NONE
  BY <1>1, <1>2, <1>5 DEF AdvanceAllowed, LetOn
<1>6. CASE config # NONE
  <2>1. PICK start \in Nat : start = config.starting_milestone_index
    BY <1>3, <1>6 DEF DiversityConfig
  <2>2. n >= start <=> ~(n < start)
    OBVIOUS
  <2>3. PICK due \in BOOLEAN :
          due <=> Cardinality(S) >= config.required_distinct_affiliations
    <3>1. (Cardinality(S) >= config.required_distinct_affiliations) \in BOOLEAN
      OBVIOUS
    <3> QED
      BY <3>1, Zenon
  <2>4. AdvanceAllowed(GetDiversityConfig, NextIndex(p), S) <=> (n >= start => due)
    BY <1>2, <1>4, <1>6, <2>1, <2>3, Zenon DEF AdvanceAllowed
  <2>5. LetOn(r, S) <=> Wired("progress") /\ (n < start \/ due)
    BY <1>1, <1>2, <1>4, <1>6, <2>1, <2>3, Zenon DEF LetOn
  <2> QED
    BY <2>2, <2>4, <2>5
<1> QED
  BY <1>5, <1>6

\* What is recorded keeps q's standing in step.
LEMMA StandingStays ==
  ASSUME SettingsType, TypeOKMilestones, TypeOKMilestones', NEW q \in Players, StandingFits(q),
         NEW p \in Players, NEW w \in Wallets, NEW r, Recording(p, w, r)
  PROVE  StandingFits(q)'
<1>1. PICK k \in Nat : k = Len(recorded)
  BY HistoryIs
<1>2. Extends(r) /\ r.ref[1] = p /\ StandingFollows(p, w, r) /\ erasureCursor' = erasureCursor
  BY DEF Recording
<1>3. PICK now1 : now1 = AffiliationsUpTo(q, k)
  OBVIOUS
<1>4. PICK then1 : then1 = AffiliationsUpTo(q, k + 1)'
  OBVIOUS
<1>5. then1 = IF p = q /\ r.attestors # << >> THEN now1 \cup {r.affiliation} ELSE now1
  BY <1>1, <1>2, <1>3, <1>4, AffiliationsExtend
<1>6. Len(recorded)' = k + 1
  BY <1>1, <1>2 DEF Extends
<1>7. AffiliationsUpTo(q, Len(recorded))' = then1
  BY <1>4, <1>6 DEF AffiliationsUpTo
<1>8. PICK c \in Nat : c = Cardinality(Advancing(q))
  BY <1>2, AdvancingExtends
<1>9. Cardinality(Advancing(q)') = c + (IF p = q /\ LetOn(r, then1) THEN 1 ELSE 0)
  BY <1>2, <1>7, <1>8, AdvancingExtends
<1> SUFFICES ASSUME NotErased(q)'
             PROVE  /\ playerLevel'[q] = Least(MAX_LEVEL, Cardinality(Advancing(q)'))
                    /\ playerAffiliations'[q] = then1
  BY <1>7 DEF StandingFits
<1>10. NotErased(q)
  BY <1>2 DEF NotErased
<1>11. playerLevel[q] = Least(MAX_LEVEL, c) /\ playerAffiliations[q] = now1
  BY <1>1, <1>3, <1>8, <1>10 DEF StandingFits
<1>12. CASE r.attestors = << >>
  <2>1. UNCHANGED standing /\ ~LetOn(r, then1)
    BY <1>2, <1>12 DEF StandingFollows, LetOn
  <2>2. Cardinality(Advancing(q)') = c
    BY <1>9, <2>1
  <2> QED
    BY <1>5, <1>11, <1>12, <2>1, <2>2 DEF standing
<1>13. CASE r.attestors # << >>
  <2>1. AdvanceLevel(w, p) /\ r.affiliation = validator[w].affiliation
    BY <1>2, <1>13 DEF StandingFollows
  <2>2. playerAffiliations \in [Players -> SUBSET Affiliations] /\ playerLevel \in [Players -> 0..MAX_LEVEL]
    BY DEF TypeOKMilestones
  <2>3. playerAffiliations' = [playerAffiliations EXCEPT ![p] = AffiliationsWith(w, p)]
    BY <2>1 DEF AdvanceLevel
  <2>4. CASE q # p
    <3>1. playerAffiliations'[q] = playerAffiliations[q]
      BY <2>2, <2>3, <2>4
    <3>2. playerLevel'[q] = playerLevel[q]
      BY <2>1, <2>2, <2>4 DEF AdvanceLevel
    <3>3. Cardinality(Advancing(q)') = c
      BY <1>9, <2>4
    <3> QED
      BY <1>5, <1>11, <2>4, <3>1, <3>2, <3>3
  <2>5. CASE q = p
    <3>1. AffiliationsWith(w, p) = then1
      BY <1>5, <1>11, <1>13, <2>1, <2>5 DEF AffiliationsWith
    <3>2. playerAffiliations'[q] = then1
      BY <2>2, <2>3, <2>5, <3>1
    <3>3. AdvanceAllowed(GetDiversityConfig, NextIndex(p), then1) /\ Wired("progress")
            <=> LetOn(r, then1)
      BY <1>13, GateIsRecorded
    <3>4. playerLevel' = IF LetOn(r, then1)
                         THEN [playerLevel EXCEPT ![p] = Least(@ + 1, MAX_LEVEL)]
                         ELSE playerLevel
      BY <2>1, <3>1, <3>3 DEF AdvanceLevel
    <3>5. CASE LetOn(r, then1)
      <4>1. playerLevel'[q] = Least(playerLevel[q] + 1, MAX_LEVEL)
        BY <2>2, <2>5, <3>4, <3>5
      <4>2. Cardinality(Advancing(q)') = c + 1
        BY <1>9, <2>5, <3>5
      <4>3. playerLevel'[q] = Least(MAX_LEVEL, c + 1)
        BY <1>11, <4>1, LevelUp, MilestoneBounds
      <4> QED
        BY <3>2, <4>2, <4>3
    <3>6. CASE ~LetOn(r, then1)
      <4>1. Cardinality(Advancing(q)') = c
        BY <1>9, <3>6
      <4> QED
        BY <1>11, <3>2, <3>4, <3>6, <4>1
    <3> QED
      BY <3>5, <3>6
  <2> QED
    BY <2>4, <2>5
<1> QED
  BY <1>12, <1>13

\* Where nothing is recorded it stays too, until the erasure.
LEMMA StandingRests ==
  ASSUME NEW q \in Players, StandingFits(q), NothingNew
  PROVE  StandingFits(q)'
<1>1. recorded' = recorded /\ playerLevel' = playerLevel
  BY DEF NothingNew
<1>2. NotErased(q)' => NotErased(q) /\ playerAffiliations'[q] = playerAffiliations[q]
  BY DEF NothingNew, PlayerStays
<1>3. \A n : AffiliationsUpTo(q, n)' = AffiliationsUpTo(q, n)
  BY <1>1 DEF AffiliationsUpTo
<1>4. \A n : Advanced(n)' <=> Advanced(n)
  BY <1>1 DEF Advanced, AffiliationsUpTo
<1>5. Advancing(q)' = Advancing(q)
  BY <1>1, <1>4 DEF Advancing
<1>6. AffiliationsUpTo(q, Len(recorded))' = AffiliationsUpTo(q, Len(recorded))
  BY <1>1 DEF AffiliationsUpTo
<1> QED
  BY <1>1, <1>2, <1>5, <1>6 DEF StandingFits

----
\* Without a link nobody moves on, and there are only replays.
LinksTell ==
  /\ wiring["progress"].epoch = 0 => \A p \in Players : playerLevel[p] = 0
  /\ wiring["registration"].epoch = 0 =>
       \A n \in 1..Len(recorded) : recorded[n].attestors = << >>

\* What is recorded keeps to the links.
LEMMA LinksStay ==
  ASSUME TypeOKMilestones, LinksTell,
         NEW p \in Players, NEW w \in Wallets, NEW r, Recording(p, w, r)
  PROVE  LinksTell'
<1>1. PICK k \in Nat : k = Len(recorded)
  BY HistoryIs
<1>2. Extends(r) /\ StandingFollows(p, w, r) /\ wiring' = wiring
  BY DEF Recording
<1>3. Len(recorded)' = k + 1 /\ recorded'[k + 1] = r /\ \A n \in 1..k : recorded'[n] = recorded[n]
  BY <1>1, <1>2 DEF Extends
<1>4. wiring["progress"].epoch = 0 => playerLevel' = playerLevel
  <2>1. wiring["progress"].epoch = 0 => ~Wired("progress")
    BY DEF Wired
  <2> QED
    BY <1>2, <2>1 DEF StandingFollows, standing, AdvanceLevel
<1>5. wiring["registration"].epoch = 0 => r.attestors = << >>
  BY <1>2 DEF StandingFollows, Wired
<1>6. wiring'["registration"].epoch = 0 =>
        \A n \in 1..(k + 1) : recorded'[n].attestors = << >>
  <2> SUFFICES ASSUME wiring["registration"].epoch = 0, NEW n \in 1..(k + 1)
               PROVE  recorded'[n].attestors = << >>
    BY <1>2
  <2>1. CASE n = k + 1
    BY <1>3, <1>5, <2>1
  <2>2. CASE n # k + 1
    <3>1. n \in 1..k
      BY <2>2
    <3> QED
      BY <1>1, <1>3, <3>1 DEF LinksTell
  <2> QED
    BY <2>1, <2>2
<1> QED
  BY <1>2, <1>3, <1>4, <1>6 DEF LinksTell

\* Where nothing is recorded they say the same.
LEMMA LinksRest ==
  ASSUME LinksTell, NothingNew
  PROVE  LinksTell'
BY DEF LinksTell, NothingNew, Peers

----
\* Until p's erasure every milestone that was recorded is there.
Present(p) ==
  NotErased(p) =>
    /\ \A i \in 1..milestoneCounter[p] : milestone[p][i] # NONE
    /\ \A n \in 1..Len(recorded) :
         recorded[n].ref[1] = p => MilestoneAt(recorded[n].ref) # NONE

\* What is recorded is there.
LEMMA PresentStays ==
  ASSUME TypeOKMilestones, TypeOKMilestones', NEW q \in Players, Present(q),
         NEW p \in Players, NEW w \in Wallets, NEW r, Recording(p, w, r)
  PROVE  Present(q)'
<1>1. PICK k \in Nat : k = Len(recorded)
  BY HistoryIs
<1>2. /\ Extends(r) /\ r.ref = <<p, NextIndex(p)>> /\ r.ref \in MilestoneRef
      /\ erasureCursor' = erasureCursor
      /\ milestoneCounter' = [milestoneCounter EXCEPT ![p] = NextIndex(p)]
  BY DEF Recording
<1>3. PICK m \in Milestone : milestone' = [milestone EXCEPT ![p][NextIndex(p)] = m]
  BY DEF Recording
<1>4. Len(recorded)' = k + 1 /\ recorded'[k + 1] = r /\ \A n \in 1..k : recorded'[n] = recorded[n]
  BY <1>1, <1>2 DEF Extends
<1>5. /\ milestone \in [Players -> [Indexes -> Milestone \cup {NONE}]]
      /\ milestoneCounter \in [Players -> 0..MaxMilestones] /\ MaxMilestones \in Nat
  BY MilestoneBounds DEF TypeOKMilestones
<1>6. m # NONE
  BY MilestoneBounds
<1>7. NextIndex(p) \in Indexes
  BY <1>2 DEF MilestoneRef
<1>8. \A x \in Players, i \in Indexes : milestone[x][i] # NONE => milestone'[x][i] # NONE
  BY <1>3, <1>5, <1>6
<1>9. milestone'[p][NextIndex(p)] # NONE
  BY <1>3, <1>5, <1>6, <1>7
<1>10. \A n \in 1..k : recorded[n].ref[1] \in Players /\ recorded[n].ref[2] \in Indexes
  BY <1>1, HistoryIs
<1> SUFFICES ASSUME NotErased(q)'
             PROVE  /\ \A i \in 1..milestoneCounter'[q] : milestone'[q][i] # NONE
                    /\ \A n \in 1..(k + 1) : recorded'[n].ref[1] = q =>
                         milestone'[recorded'[n].ref[1]][recorded'[n].ref[2]] # NONE
  BY <1>4 DEF Present, MilestoneAt
<1>11. NotErased(q)
  BY <1>2 DEF NotErased
<1>12. /\ \A i \in 1..milestoneCounter[q] : milestone[q][i] # NONE
       /\ \A n \in 1..k : recorded[n].ref[1] = q =>
            milestone[recorded[n].ref[1]][recorded[n].ref[2]] # NONE
  BY <1>1, <1>11 DEF Present, MilestoneAt
<1>13. ASSUME NEW i \in 1..milestoneCounter'[q] PROVE milestone'[q][i] # NONE
  <2>1. \A j \in 1..milestoneCounter[q] : j \in Indexes
    BY <1>5 DEF Indexes
  <2>2. CASE i \in 1..milestoneCounter[q]
    BY <1>8, <1>12, <2>1, <2>2
  <2>3. CASE i \notin 1..milestoneCounter[q]
    <3>1. q = p
      BY <1>2, <1>5, <2>3
    <3>2. i = NextIndex(p)
      <4>1. milestoneCounter'[p] = milestoneCounter[p] + 1 /\ milestoneCounter[p] \in Nat
        BY <1>2, <1>5 DEF NextIndex
      <4> QED
        BY <2>3, <3>1, <4>1 DEF NextIndex
    <3> QED
      BY <1>9, <3>1, <3>2
  <2> QED
    BY <2>2, <2>3
<1>14. ASSUME NEW n \in 1..(k + 1), recorded'[n].ref[1] = q
       PROVE  milestone'[recorded'[n].ref[1]][recorded'[n].ref[2]] # NONE
  <2>1. CASE n = k + 1
    BY <1>2, <1>4, <1>9, <2>1
  <2>2. CASE n # k + 1
    <3>1. n \in 1..k
      BY <2>2
    <3>2. recorded'[n] = recorded[n]
      BY <1>4, <3>1
    <3> QED
      BY <1>8, <1>10, <1>12, <1>14, <3>1, <3>2
  <2> QED
    BY <2>1, <2>2
<1> QED
  BY <1>13, <1>14

\* And stays there.
LEMMA PresentRests ==
  ASSUME NEW q \in Players, Present(q), NothingNew
  PROVE  Present(q)'
<1>1. recorded' = recorded
  BY DEF NothingNew
<1>2. NotErased(q)' => /\ NotErased(q)
                       /\ milestone'[q] = milestone[q] /\ milestoneCounter'[q] = milestoneCounter[q]
  BY DEF NothingNew, PlayerStays
<1> QED
  BY <1>1, <1>2 DEF Present, MilestoneAt

\* So get_milestones_since leaves out none of them.
LEMMA SinceIsComplete ==
  ASSUME TypeOKMilestones, NEW p \in Players, NotErased(p), Present(p)
  PROVE  GetMilestonesSince(p, 0) = [i \in 1..GetMilestoneCount(p) |-> Record(p, i)]
<1>1. PICK c \in 0..MaxMilestones : c = milestoneCounter[p] /\ c = GetMilestoneCount(p)
  BY DEF TypeOKMilestones, GetMilestoneCount
<1>2. c \in Nat /\ \A i \in 1..c : i \in Indexes
  BY MilestoneBounds DEF Indexes
<1>3. PICK numbers : numbers = [i \in 1..c |-> i]
  OBVIOUS
<1>4. numbers \in Seq(1..c) /\ Len(numbers) = c /\ \A i \in 1..c : numbers[i] = i
  BY <1>2, <1>3, FunctionIsList
<1>5. PICK late : late = {i \in Indexes :
                            GetMilestone(p, i) # NONE /\ GetMilestone(p, i).approved_at >= 0}
  OBVIOUS
<1>6. ASSUME NEW i \in 1..c PROVE i \in late
  <2>1. i \in Indexes /\ milestone[p][i] # NONE
    BY <1>1, <1>2 DEF Present
  <2>2. milestone[p][i] \in Milestone
    BY <2>1 DEF TypeOKMilestones
  <2>3. milestone[p][i].approved_at >= 0
    BY <2>2 DEF Milestone
  <2> QED
    BY <1>5, <2>1, <2>3 DEF GetMilestone
<1>7. Filter(numbers, late) = numbers
  BY <1>4, <1>6, FilterAll
<1>8. GetMilestonesSince(p, 0) = [k \in DOMAIN numbers |-> GetMilestone(p, numbers[k])]
  BY <1>1, <1>3, <1>5, <1>7, Zenon DEF GetMilestonesSince
<1>9. DOMAIN numbers = 1..c
  BY <1>3
<1> QED
  BY <1>1, <1>4, <1>8, <1>9 DEF GetMilestone, Record

----
\* All that is kept beside the milestones.
TallyInv ==
  /\ RingInv
  /\ totalMilestoneCount = Len(recorded)
  /\ LinksTell
  /\ \A w \in Wallets : ListFollows(w) /\ CountsFollow(w)
  /\ \A p \in Players : StandingFits(p) /\ Present(p)

\* With an empty history there is nothing beside it.
LEMMA TalliesInitially ==
  ASSUME Init
  PROVE  TallyInv
<1>1. TypeOKMilestones
  BY MilestonesInitially
<1>2. /\ recorded = << >> /\ writeHead = 0 /\ totalMilestoneCount = 0
      /\ validatorMilestones = [w \in Wallets |-> << >>]
      /\ validatorMilestoneCount = [w \in Wallets |-> 0]
      /\ validatorPlayers = [w \in Wallets |-> << >>]
      /\ playerAffiliations = [p \in Players |-> {}] /\ playerLevel = [p \in Players |-> 0]
      /\ milestoneCounter = [p \in Players |-> 0]
  BY DEF Init, AttestationInit
<1>3. Len(recorded) = 0 /\ DOMAIN recorded = {} /\ 1..0 = {}
  BY <1>2
<1>4. RingInv
  BY <1>2, <1>3, MilestoneBounds DEF RingInv, HeadAt
<1>5. LinksTell
  BY <1>2, <1>3 DEF LinksTell
<1>6. ASSUME NEW w \in Wallets PROVE ListFollows(w)
  <2>1. AttestedBy(w) \in Seq(1..0)
    BY <1>1, <1>3, AttestedNumbers
  <2>2. Len(AttestedBy(w)) = 0
    BY <2>1
  <2> QED
    BY <1>2, <1>3, <2>2 DEF ListFollows
<1>7. ASSUME NEW w \in Wallets PROVE CountsFollow(w)
  <2>1. CommittedBy(w) = {} /\ Helped(w) = {}
    BY <1>3 DEF CommittedBy, Helped
  <2>2. Cardinality({}) = 0
    BY FS_EmptySet
  <2> QED
    BY <1>2, <2>1, <2>2 DEF CountsFollow, Distinct, Contains
<1>8. ASSUME NEW p \in Players PROVE StandingFits(p)
  <2>1. Advancing(p) = {} /\ AffiliationsUpTo(p, 0) = {}
    BY <1>3 DEF Advancing, AffiliationsUpTo
  <2>2. Cardinality({}) = 0
    BY FS_EmptySet
  <2>3. Least(MAX_LEVEL, 0) = 0
    BY MilestoneBounds DEF Least
  <2> QED
    BY <1>2, <1>3, <2>1, <2>2, <2>3 DEF StandingFits
<1>9. ASSUME NEW p \in Players PROVE Present(p)
  BY <1>2, <1>3 DEF Present
<1> QED
  BY <1>2, <1>3, <1>4, <1>5, <1>6, <1>7, <1>8, <1>9 DEF TallyInv

\* Every step keeps all of it in step.
LEMMA TalliesStep ==
  ASSUME RegistryInv, ClaimInv, SettingsType, TypeOKMilestones, RateType, TallyInv, [Next]_vars
  PROVE  TallyInv'
<1>1. TypeOKMilestones'
  BY MilestonesStep
<1>2. CASE NothingNew
  <2>1. RingInv' /\ totalMilestoneCount' = Len(recorded)'
    BY <1>2 DEF TallyInv, RingInv, NothingNew
  <2>2. LinksTell'
    BY <1>2, LinksRest DEF TallyInv
  <2>3. \A w \in Wallets : ListFollows(w)' /\ CountsFollow(w)'
    BY <1>2, ListRests, CountsRest DEF TallyInv
  <2>4. \A p \in Players : StandingFits(p)' /\ Present(p)'
    BY <1>2, StandingRests, PresentRests DEF TallyInv
  <2> QED
    BY <2>1, <2>2, <2>3, <2>4 DEF TallyInv
<1>3. ASSUME NEW p \in Players, NEW w \in Wallets, NEW r, Recording(p, w, r)
      PROVE  TallyInv'
  <2>1. Extends(r) /\ r.ref \in MilestoneRef /\ PushGlobalMilestone(r.ref) /\ BumpTotals(w, p)
    BY <1>3 DEF Recording
  <2>2. RingInv'
    BY <2>1, PushKeepsRing DEF TallyInv
  <2>3. totalMilestoneCount' = Len(recorded)'
    BY <2>1 DEF TallyInv, Extends, BumpTotals, BumpTotalMilestoneCount, ReadTotalMilestoneCount
  <2>4. LinksTell'
    BY <1>3, LinksStay DEF TallyInv
  <2>5. \A v \in Wallets : ListFollows(v)'
    BY <1>1, <1>3, ListStays DEF TallyInv
  <2>6. \A v \in Wallets : CountsFollow(v)'
    BY <1>1, <1>3, CountsStay DEF TallyInv
  <2>7. \A q \in Players : StandingFits(q)'
    BY <1>1, <1>3, StandingStays DEF TallyInv
  <2>8. \A q \in Players : Present(q)'
    BY <1>1, <1>3, PresentStays DEF TallyInv
  <2> QED
    BY <2>2, <2>3, <2>4, <2>5, <2>6, <2>7, <2>8 DEF TallyInv
<1> QED
  BY <1>2, <1>3, RecordsOrNothing

\* The invariant of what is kept beside the milestones holds throughout.
LEMMA TalliesAlways == Spec => []TallyInv
<1>1. Init => TallyInv
  BY TalliesInitially
<1>2. RegistryInv /\ ClaimInv /\ SettingsType /\ TypeOKMilestones /\ RateInv /\ TallyInv
        /\ [Next]_vars => TallyInv'
  BY TalliesStep DEF RateInv
<1> QED
  BY <1>1, <1>2, MilestonesAlways, RateAlways, PTL DEF Spec

\* Every list and count kept beside the milestones says what the history of recorded
\* milestones says: the ring buffer after any number of turns, the total, each
\* validator's pages, count and players, each player's organisations and level, and
\* what get_milestones_since returns; and a peer without a link has not been used.
THEOREM TalliesAlwaysFollow == Spec => []TalliesFollowTheRecord
<1>1. ASSUME TypeOKMilestones, TallyInv
      PROVE  TalliesFollowTheRecord
  <2>1. GlobalIndexIsRecent
    BY <1>1, RingReadsOut DEF TallyInv
  <2>2. DOMAIN recorded = 1..Len(recorded)
    BY <1>1, HistoryIs
  <2>3. GetTotalMilestoneCount = Len(recorded)
    BY <1>1 DEF TallyInv, GetTotalMilestoneCount, ReadTotalMilestoneCount
  <2>4. /\ GetWiringState["progress"] = 0 => \A p \in Players : playerLevel[p] = 0
        /\ GetWiringState["registration"] = 0 =>
             \A n \in DOMAIN recorded : recorded[n].attestors = << >>
    BY <1>1, <2>2 DEF TallyInv, LinksTell, GetWiringState, Peers
  <2>5. ASSUME NEW w \in Wallets
        PROVE  LET mine   == AttestedBy(w)
                   report == GetValidatorActivityReport(w)
                   helped == {recorded[n].ref[1] : n \in CommittedBy(w)}
               IN
               /\ ReadsOut(LAMBDA offset : GetValidatorMilestonesPage(w, offset, 1),
                           LAMBDA i : recorded[mine[i]].ref, 1, Len(mine))
               /\ GetValidatorMilestonesPageV2(w, 0, 1).total = Len(mine)
               /\ (\A p \in Players : NotErased(p)) =>
                    ReadsOut(LAMBDA offset : GetMilestonesByValidatorPage(w, offset, 1),
                             LAMBDA i : MilestoneAt(recorded[mine[i]].ref), 1, Len(mine))
               /\ transferred = {} => report.milestone_count = Cardinality(CommittedBy(w))
               /\ ToSetOf(report.distinct_players) = helped
               /\ report.distinct_player_count = Cardinality(helped)
               /\ ReadsOut(LAMBDA offset : GetValidatorPlayersPage(w, offset, 1).entries,
                           LAMBDA i : report.distinct_players[i], 1, Cardinality(helped))
    <3>1. ListFollows(w) /\ CountsFollow(w)
      BY <1>1 DEF TallyInv
    <3>2. /\ ReadsOut(LAMBDA offset : GetValidatorMilestonesPage(w, offset, 1),
                      LAMBDA i : recorded[AttestedBy(w)[i]].ref, 1, Len(AttestedBy(w)))
          /\ GetValidatorMilestonesPageV2(w, 0, 1).total = Len(AttestedBy(w))
      BY <1>1, <3>1, MilestonePagesReadOut, Zenon
    <3>3. (\A p \in Players : NotErased(p)) =>
            ReadsOut(LAMBDA offset : GetMilestonesByValidatorPage(w, offset, 1),
                     LAMBDA i : MilestoneAt(recorded[AttestedBy(w)[i]].ref),
                     1, Len(AttestedBy(w)))
      <4> SUFFICES ASSUME \A p \in Players : NotErased(p)
                   PROVE  ReadsOut(LAMBDA offset : GetMilestonesByValidatorPage(w, offset, 1),
                                   LAMBDA i : MilestoneAt(recorded[AttestedBy(w)[i]].ref),
                                   1, Len(AttestedBy(w)))
        OBVIOUS
      <4>1. \A n \in 1..Len(recorded) : recorded[n].ref[1] \in Players
        BY <1>1, HistoryIs
      <4>2. \A n \in 1..Len(recorded) : MilestoneAt(recorded[n].ref) # NONE
        BY <1>1, <4>1 DEF TallyInv, Present
      <4> QED
        BY <1>1, <3>1, <4>2, RecordPagesReadOut, Zenon
    <3>4. LET report == GetValidatorActivityReport(w) IN
          /\ transferred = {} => report.milestone_count = Cardinality(CommittedBy(w))
          /\ ToSetOf(report.distinct_players) = Helped(w)
          /\ report.distinct_player_count = Cardinality(Helped(w))
          /\ ReadsOut(LAMBDA offset : GetValidatorPlayersPage(w, offset, 1).entries,
                      LAMBDA i : report.distinct_players[i], 1, Cardinality(Helped(w)))
      BY <1>1, <3>1, ReportIsTrue, Zenon
    <3> QED
      BY <3>2, <3>3, <3>4, Zenon DEF Helped
  <2>6. ASSUME NEW p \in Players, NotErased(p)
        PROVE  /\ playerLevel[p] =
                    Least(MAX_LEVEL, Cardinality({n \in DOMAIN recorded :
                                                    recorded[n].ref[1] = p /\ Advanced(n)}))
               /\ playerAffiliations[p] = AffiliationsUpTo(p, Len(recorded))
               /\ GetMilestonesSince(p, 0) = [i \in 1..GetMilestoneCount(p) |-> Record(p, i)]
    <3>1. StandingFits(p) /\ Present(p)
      BY <1>1 DEF TallyInv
    <3>2. GetMilestonesSince(p, 0) = [i \in 1..GetMilestoneCount(p) |-> Record(p, i)]
      BY <1>1, <2>6, <3>1, SinceIsComplete
    <3> QED
      BY <2>6, <3>1, <3>2, Zenon DEF StandingFits, Advancing
  <2> QED
    BY <2>1, <2>3, <2>4, <2>5, <2>6, Zenon DEF TalliesFollowTheRecord
<1> QED
  BY <1>1, MilestonesAlways, TalliesAlways, PTL
====
