---- MODULE VerificationReaders ----
(***************************************************************************)
(* What clients of the verification contract can ask of its milestones,     *)
(* validators, claims and disputes.  A listing is read in pages by offset;  *)
(* the bump of a storage entry's lifetime on reading is abstracted from.    *)
(***************************************************************************)
EXTENDS Disputes

\* A page's length: a limit of 0 counts as 1, MAX_PAGE is the most.
PageCap(limit) == IF limit = 0 THEN 1 ELSE Least(limit, MAX_PAGE)

\* The entries a page loop collects from offset on.
Page(list, offset, limit) ==
  SubSeq(list, offset + 1, Least(offset + PageCap(limit), Len(list)))

\* From every offset a page holds the next entries of a listing of n, as many as
\* the limit allows.
ReadsOut(page(_), entry(_), limit, n) ==
  \A offset \in 0..n :
    LET got == page(offset) IN
    /\ Len(got) = Least(PageCap(limit), n - offset)
    /\ \A k \in DOMAIN got : got[k] = entry(offset + k)

----
(***************************************************************************)
(* Milestones.                                                              *)
(***************************************************************************)
GetMilestone(p, i) == milestone[p][i]
GetMilestoneCount(p) == milestoneCounter[p]
GetTotalMilestoneCount == ReadTotalMilestoneCount

GetMilestoneWithStatus(p, i) ==
  [milestone |-> GetMilestone(p, i),
   validator_status |-> GetValidatorStatus(GetMilestone(p, i).validator)]

\* The milestones of p approved since a time, in the order of their indexes.
GetMilestonesSince(p, since) ==
  LET late  == {i \in Indexes :
                  GetMilestone(p, i) # NONE /\ GetMilestone(p, i).approved_at >= since}
      shown == Filter([i \in 1..GetMilestoneCount(p) |-> i], late)
  IN  [k \in DOMAIN shown |-> GetMilestone(p, shown[k])]

\* The page of the ring buffer from offset on, oldest entry first.
GetGlobalMilestoneIndex(offset, limit) ==
  LET cap    == MAX_GLOBAL_MILESTONE_INDEX
      live   == Least(writeHead, cap)
      oldest == IF writeHead < cap THEN 0 ELSE writeHead % cap
      last   == Least(offset + PageCap(limit), live)
      page   == [k \in 1..(IF last > offset THEN last - offset ELSE 0) |->
                   globalSlot[(oldest + offset + (k - 1)) % cap]]
  IN  [entries |-> Filter(page, MilestoneRef), total |-> live]

----
(***************************************************************************)
(* Validators.                                                              *)
(***************************************************************************)
GetValidatorMilestones(w) == validatorMilestones[w]

GetValidatorMilestonesPage(w, offset, limit) == Page(validatorMilestones[w], offset, limit)

GetValidatorMilestonesPageV2(w, offset, limit) ==
  [entries |-> Page(validatorMilestones[w], offset, limit),
   total   |-> Len(validatorMilestones[w])]

GetValidatorPlayers(w) == validatorPlayers[w]

GetValidatorPlayersPage(w, offset, limit) ==
  [entries |-> Page(validatorPlayers[w], offset, limit), total |-> Len(validatorPlayers[w])]

\* The records a page of refs names, those that are gone left out.
GetMilestonesByValidatorPage(w, offset, limit) ==
  LET there == {ref \in MilestoneRef : MilestoneAt(ref) # NONE}
      refs  == Filter(GetValidatorMilestonesPage(w, offset, limit), there)
  IN  [k \in DOMAIN refs |-> MilestoneAt(refs[k])]

GetValidatorActivityReport(w) ==
  [status                |-> GetValidatorStatus(w),
   milestone_count       |-> validatorMilestoneCount[w],
   distinct_player_count |-> Len(validatorPlayers[w]),
   distinct_players      |-> GetValidatorPlayers(w)]

----
(***************************************************************************)
(* Claims.                                                                  *)
(***************************************************************************)
GetPendingClaim(p, e) == claim[<<p, e>>]

\* Whether the validators active now could complete an open claim.
IsPendingClaimReachable(p, e) ==
  GetPendingClaim(p, e) # NONE /\ GetPendingClaim(p, e).threshold <= activeValidatorCount

\* Whether they could complete one that is opened now.
GetMilestoneThresholdStatus ==
  [threshold |-> milestoneThreshold, active_validator_count |-> activeValidatorCount,
   reachable |-> activeValidatorCount >= milestoneThreshold]

\* The links to the peers with their epochs.
GetWiringState == [peer \in Peers |-> wiring[peer].epoch]

----
(***************************************************************************)
(* Disputes.                                                                *)
(***************************************************************************)
ListDisputesPage(offset, limit) == Page(openDisputeIndex, offset, limit)

\* The disputed milestones of p; those with a round, where no list is stored.
DisputedIndexes(p) ==
  IF playerDisputes[p] # NONE THEN playerDisputes[p]
  ELSE Filter([i \in 1..GetMilestoneCount(p) |-> i], {i \in Indexes : HasDispute(<<p, i>>)})

GetPlayerDisputeCount(p) == Len(DisputedIndexes(p))

\* list_player_disputes_helper: the page of the latest disputes, resolved or not as
\* the filter says.
ListPlayerDisputes(p, resolvedIn, offset, limit) ==
  LET fit  == {i \in Indexes :
                 Disputed(<<p, i>>) /\ GetDispute(<<p, i>>).resolved \in resolvedIn}
      page == Page(Filter(DisputedIndexes(p), fit), offset, limit)
  IN  [k \in DOMAIN page |-> GetDispute(<<p, page[k]>>)]

GetPlayerDisputes(p, offset, limit) == ListPlayerDisputes(p, BOOLEAN, offset, limit)

GetPlayerDisputesByStatus(p, resolved, offset, limit) ==
  ListPlayerDisputes(p, {resolved}, offset, limit)
====
