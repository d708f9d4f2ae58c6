---- MODULE Subscriptions ----
(***************************************************************************)
(* Subscriptions, contacts and evidence access of scout_access, on top of   *)
(* its fee schedule and of the registration contract's scouts: what a scout *)
(* has subscribed to and the listings kept of it, the players the scout has *)
(* contacted, the Pro quota, and the grants that contacts issue.            *)
(*                                                                          *)
(* An action is a successful invocation.  That a fee reaches the contract   *)
(* is TrialEscrow's CollectFee and not repeated here.  The wall-clock       *)
(* mirror of the quota, which nothing reads, and the tier and revocation    *)
(* date a grant records for audits are abstracted from.  A player's own     *)
(* calls are those of the wallet registration knows the player by.          *)
(***************************************************************************)
EXTENDS FeeSchedule, ScoutRegistry

CONSTANTS
  Players,
  SeedSubscriptions,   \* [scout, sub] records replayed
  ContactTimes,        \* dates of the contacts replayed
  Batches,             \* the lists of players batches name
  ListingTimes,        \* cutoffs keepers ask expiring subscriptions for
  ListingLimits,       \* page sizes that keepers and players ask for
  SECS_PER_DAY,
  MIN_UPGRADE_INTERVAL_SECS,
  RENEWAL_FRACTION,    \* the renewal window is this part of a period (10)
  EVIDENCE_ACCESS_GRANT_TTL_SECS,
  BATCH_CONTACT_MAX_SIZE,
  ACCESS_GRANT_PAGE_SIZE,
  MAX_PAGE_LIMIT,      \* entries a listing returns at most (50)
  MaxDay               \* bound on the days subscriptions expire on

Basic == "Basic"
Pro == "Pro"
Elite == "Elite"
SubscriptionTier == {Basic, Pro, Elite}
TierRank == [t \in SubscriptionTier |-> CASE t = Basic -> 1 [] t = Pro -> 2 [] t = Elite -> 3]
Days == 0..MaxDay

Subscription == [tier : SubscriptionTier, expires_at : Nat, subscribed_at : Nat]
ProContactPeriod == [period_start : Nat, count : Nat]
EvidenceAccessGrant == [granted_at : Nat, expires_at : Nat, revoked : BOOLEAN]

ASSUME SubscriptionConstants ==
  /\ SeedSubscriptions \subseteq [scout : Scouts, sub : Subscription]
  /\ Batches \subseteq Seq(Players)
  /\ ContactTimes \cup ListingTimes \cup ListingLimits \subseteq Nat
  /\ {SECS_PER_DAY, RENEWAL_FRACTION, ACCESS_GRANT_PAGE_SIZE, MAX_PAGE_LIMIT}
       \subseteq Nat \ {0}
  /\ {MIN_UPGRADE_INTERVAL_SECS, EVIDENCE_ACCESS_GRANT_TTL_SECS, BATCH_CONTACT_MAX_SIZE,
      MaxDay} \subseteq Nat
  /\ IsFiniteSet(Scouts) /\ IsFiniteSet(Players)
  /\ NONE \notin Subscription \cup ProContactPeriod \cup EvidenceAccessGrant

VARIABLES
  paused,                \* Paused
  pausedPayToContact,    \* PausedPayToContact
  registrationWired,     \* whether RegistrationContract is set
  progressWired,         \* whether ProgressContract is set
  atEliteTier,           \* progress: the players it reports at EliteTier
  subscription,          \* Subscription(s)
  tierSubscribers,       \* TierSubscribers(tier)
  expiryBucket,          \* ExpiryBucket(day)
  autoRenew,             \* AutoRenew(s)
  proContactCount,       \* ProContactCount(s)
  contactRecord,         \* ContactRecord(p, s): its date
  scoutContacts,         \* ScoutContacts(s)
  playerContacts,        \* PlayerContacts(p)
  accessGrant,           \* EvidenceAccessGrant(p, s)
  accessGrantPage,       \* EvidenceAccessGrantPage(p, i), << >> when absent
  accessGrantCount,      \* EvidenceAccessGrantCount(p), 0 when absent
  adminRevoked,          \* EvidenceAccessAdminRevoked(p, s)
  \* What the properties need to know of the past; no guard reads these.
  contactedInPeriod,     \* whom s contacted since Subscription(s).subscribed_at moved
  purged,                \* players with a purge call
  takenDown              \* the pairs <<p, s>> of successful admin revocations

switches == <<paused, pausedPayToContact, registrationWired, progressWired, atEliteTier>>
subscriptionVars == <<subscription, tierSubscribers, expiryBucket, contactedInPeriod>>
contactVars == <<contactRecord, scoutContacts, playerContacts>>
grantVars == <<accessGrant, accessGrantPage, accessGrantCount>>
accessVars == <<switches, subscriptionVars, autoRenew, proContactCount, contactVars, grantVars,
                adminRevoked, purged, takenDown>>
vars == <<feeVars, scoutVars, accessVars>>

----
(***************************************************************************)
(* Guards the entry points share.                                           *)
(***************************************************************************)
RequireNotPaused == ~paused
RequirePayToContactNotPaused == ~pausedPayToContact
RequireMigrationActive == migrationWindow = "open"

\* require_scout_not_deactivated: skipped while registration is not wired.
RequireScoutNotDeactivated(s) ==
  registrationWired =>
    /\ GetScoutByWallet(s) # NONE
    /\ ~IsScoutDeactivated(scoutByWallet[s])

RequireVerifiedForTier(s, tier) ==
  tier # Basic => registrationWired /\ IsScoutVerified(s)

\* check_tier_level_access.
TierMayContact(tier, p) ==
  /\ tier # Basic
  /\ tier = Pro => progressWired /\ p \notin atEliteTier

\* Not paused, and an active subscription of a scout who may act.
ActiveSubscriber(s) ==
  /\ RequireNotPaused
  /\ RequireScoutNotDeactivated(s)
  /\ subscription[s] # NONE /\ subscription[s].expires_at >= now

----
(***************************************************************************)
(* Subscriptions and the listings kept of them.                             *)
(***************************************************************************)
Day(time) == time \div SECS_PER_DAY
Unlisted(list, s) == Filter(list, Scouts \ {s})
RemoveFromExpiryBucket(s, day) == [expiryBucket EXCEPT ![day] = Unlisted(@, s)]
RemoveFromTierIndex(s, tier) == [tierSubscribers EXCEPT ![tier] = Unlisted(@, s)]

\* Mutant: a renewal leaves the scout in the bucket of the old expiry.
BucketsKept(s, new) ==
  [expiryBucket EXCEPT ![Day(new.expires_at)] = AddNew(@, s)]

\* The scout leaves the bucket of the old expiry unless it is the same day.
BucketsMoved(s, new) ==
  LET old == subscription[s]
      cleared == IF old = NONE \/ Day(old.expires_at) = Day(new.expires_at) THEN expiryBucket
                 ELSE RemoveFromExpiryBucket(s, Day(old.expires_at))
  IN [cleared EXCEPT ![Day(new.expires_at)] = AddNew(@, s)]

TiersMoved(s, new) ==
  LET old == subscription[s]
      cleared == IF old = NONE \/ old.tier = new.tier THEN tierSubscribers
                 ELSE RemoveFromTierIndex(s, old.tier)
  IN [cleared EXCEPT ![new.tier] = AddNew(@, s)]

\* write_subscription, which every path that stores a subscription takes.
WriteSubscription(s, new) ==
  /\ Day(new.expires_at) \in Days
  /\ expiryBucket' = BucketsMoved(s, new)
  /\ tierSubscribers' = TiersMoved(s, new)
  /\ subscription' = [subscription EXCEPT ![s] = new]
  /\ contactedInPeriod' =
       IF subscription[s] # NONE /\ subscription[s].subscribed_at = new.subscribed_at
       THEN contactedInPeriod ELSE [contactedInPeriod EXCEPT ![s] = {}]

\* A period from now, whoever pays for it.
NewPeriod(tier) == [tier |-> tier, expires_at |-> now + feeConfig.sub_duration_secs,
                    subscribed_at |-> now]

\* While a subscription runs, no downgrade, and an upgrade only after a while.
ChangeAllowed(old, tier) ==
  old # NONE => (now <= old.expires_at =>
    /\ TierRank[tier] >= TierRank[old.tier]
    /\ TierRank[tier] > TierRank[old.tier] =>
         now >= old.subscribed_at + MIN_UPGRADE_INTERVAL_SECS)

Subscribe(s, tier) ==
  /\ RequireNotPaused
  /\ RequireScoutNotDeactivated(s)
  /\ ChangeAllowed(subscription[s], tier)
  /\ tier # Basic => /\ registrationWired
                     /\ GetScoutByWallet(s) # NONE
                     /\ GetScoutByWallet(s).verification = "verified"
  /\ WriteSubscription(s, NewPeriod(tier))
  /\ UNCHANGED <<feeVars, scoutVars, switches, autoRenew, proContactCount, contactVars,
                 grantVars, adminRevoked, purged, takenDown>>

SetAutoRenew(s, enabled) ==
  /\ RequireNotPaused
  /\ autoRenew' = [autoRenew EXCEPT ![s] = enabled]
  /\ UNCHANGED <<feeVars, scoutVars, switches, subscriptionVars, proContactCount, contactVars,
                 grantVars, adminRevoked, purged, takenDown>>

RenewalWindow ==
  LET part == feeConfig.sub_duration_secs \div RENEWAL_FRACTION
  IN IF part = 0 THEN 1 ELSE part

\* renew_if_due; before the window opens it succeeds and changes nothing.
RenewIfDue(s) ==
  /\ RequireNotPaused
  /\ RequireScoutNotDeactivated(s)
  /\ autoRenew[s] = TRUE
  /\ subscription[s] # NONE
  /\ RequireVerifiedForTier(s, subscription[s].tier)
  /\ now >= subscription[s].expires_at - RenewalWindow
  /\ WriteSubscription(s, NewPeriod(subscription[s].tier))
  /\ UNCHANGED <<feeVars, scoutVars, switches, autoRenew, proContactCount, contactVars,
                 grantVars, adminRevoked, purged, takenDown>>

AdminSeedSubscription(seed) ==
  /\ RequireMigrationActive
  /\ subscription[seed.scout] = NONE
  /\ WriteSubscription(seed.scout, seed.sub)
  /\ UNCHANGED <<feeVars, scoutVars, switches, autoRenew, proContactCount, contactVars,
                 grantVars, adminRevoked, purged, takenDown>>

AdminSeedAutoRenew(s, enabled) ==
  /\ RequireMigrationActive
  /\ autoRenew[s] = NONE
  /\ autoRenew' = [autoRenew EXCEPT ![s] = enabled]
  /\ UNCHANGED <<feeVars, scoutVars, switches, subscriptionVars, proContactCount, contactVars,
                 grantVars, adminRevoked, purged, takenDown>>

GetSubscription(s) == subscription[s]
GetSubscribersByTier(tier) == tierSubscribers[tier]

Clamp(limit) ==
  IF limit = 0 THEN 1 ELSE IF limit > MAX_PAGE_LIMIT THEN MAX_PAGE_LIMIT ELSE limit

\* Day by day, each entry judged by its subscription as it is now.
GetExpiringSubscriptions(before, limit) ==
  LET due == {s \in Scouts : subscription[s] # NONE /\ subscription[s].expires_at <= before}
      bucket(day) == IF day \in Days THEN expiryBucket[day] ELSE << >>
      found == Filter(FlattenSeq([i \in 1..(Day(before) + 1) |-> bucket(i - 1)]), due)
  IN SubSeq(found, 1, IF Len(found) < Clamp(limit) THEN Len(found) ELSE Clamp(limit))

----
(***************************************************************************)
(* Contacts, the Pro quota and the grants a contact issues.                 *)
(***************************************************************************)
\* Mutant: the counter of an earlier period is carried into the next one.
CarriedCount(s) == IF proContactCount[s] = NONE THEN 0 ELSE proContactCount[s].count

\* The contacts counted in the running period; a counter that belongs to an
\* earlier subscription counts for nothing.
CurrentCount(s) ==
  IF proContactCount[s] # NONE /\ proContactCount[s].period_start = subscription[s].subscribed_at
  THEN proContactCount[s].count ELSE 0

\* check_pro_contact_quota_with_count and bump_pro_quota.
QuotaAllows(s, n) ==
  subscription[s].tier = Pro => CurrentCount(s) + n <= feeConfig.pro_contact_limit

BumpProQuota(s, n) ==
  proContactCount' =
    IF subscription[s].tier # Pro THEN proContactCount
    ELSE [proContactCount EXCEPT ![s] =
            [period_start |-> subscription[s].subscribed_at, count |-> CurrentCount(s) + n]]

NewGrant == [granted_at |-> now, expires_at |-> now + EVIDENCE_ACCESS_GRANT_TTL_SECS,
             revoked |-> FALSE]

\* Mutant: the page is chosen by the count after the append.
NextPage(p) == (accessGrantCount[p] + 1) \div ACCESS_GRANT_PAGE_SIZE

PageOfNextGrant(p) == accessGrantCount[p] \div ACCESS_GRANT_PAGE_SIZE

\* record_contact and grant_evidence_access for each player of a list, in order.
RecordContacts(s, order) ==
  LET new == ToSet(order) IN
  /\ contactRecord' = [p \in Players |->
       IF p \in new THEN [contactRecord[p] EXCEPT ![s] = now] ELSE contactRecord[p]]
  /\ scoutContacts' = [scoutContacts EXCEPT ![s] =
       @ \o Filter(order, {p \in Players : ~Contains(scoutContacts[s], p)})]
  /\ playerContacts' = [p \in Players |->
       IF p \in new THEN AddNew(playerContacts[p], s) ELSE playerContacts[p]]
  /\ accessGrantPage' = [p \in Players |->
       IF p \in new THEN [accessGrantPage[p] EXCEPT ![PageOfNextGrant(p)] = Append(@, s)]
       ELSE accessGrantPage[p]]
  /\ accessGrantCount' = [p \in Players |->
       IF p \in new THEN accessGrantCount[p] + 1 ELSE accessGrantCount[p]]
  /\ accessGrant' = [p \in Players |->
       IF p \in new THEN [accessGrant[p] EXCEPT ![s] = NewGrant] ELSE accessGrant[p]]

\* The players of a list the scout may contact and has not yet, each once.
Fresh(s, ids) ==
  Filter(Once(ids), {p \in Players : /\ TierMayContact(subscription[s].tier, p)
                                     /\ contactRecord[p][s] = NONE})

Contact(s, order) ==
  /\ ActiveSubscriber(s) /\ RequirePayToContactNotPaused
  /\ RequireVerifiedForTier(s, subscription[s].tier)
  /\ QuotaAllows(s, Len(order))
  /\ RecordContacts(s, order)
  /\ BumpProQuota(s, Len(order))
  /\ contactedInPeriod' = [contactedInPeriod EXCEPT ![s] = @ \cup ToSet(order)]
  /\ UNCHANGED <<feeVars, scoutVars, switches, subscription, tierSubscribers, expiryBucket,
                 autoRenew, adminRevoked, purged, takenDown>>

PayToContact(s, p) ==
  /\ subscription[s] # NONE
  /\ contactRecord[p][s] = NONE
  /\ TierMayContact(subscription[s].tier, p)
  /\ Contact(s, <<p>>)

\* A batch that finds nobody new succeeds and changes nothing.
BatchContactPlayers(s, ids) ==
  /\ Len(ids) <= BATCH_CONTACT_MAX_SIZE
  /\ subscription[s] # NONE /\ subscription[s].tier # Basic
  /\ Fresh(s, ids) # << >>
  /\ Contact(s, Fresh(s, ids))

\* A replayed contact issues no grant.
AdminSeedContact(s, p, time) ==
  /\ RequireMigrationActive
  /\ contactRecord[p][s] = NONE
  /\ contactRecord' = [contactRecord EXCEPT ![p][s] = time]
  /\ scoutContacts' = [scoutContacts EXCEPT ![s] = AddNew(@, p)]
  /\ playerContacts' = [playerContacts EXCEPT ![p] = AddNew(@, s)]
  /\ UNCHANGED <<feeVars, scoutVars, switches, subscriptionVars, autoRenew, proContactCount,
                 grantVars, adminRevoked, purged, takenDown>>

----
(***************************************************************************)
(* Evidence access.                                                         *)
(***************************************************************************)
GetContactRecord(s, p) == contactRecord[p][s]
HasContacted(s, p) == contactRecord[p][s] # NONE
GetScoutContacts(s) == scoutContacts[s]
GetPlayerContacts(p) == playerContacts[p]
GetEvidenceAccessGrant(p, s) == accessGrant[p][s]

GetScoutContactsPage(s, offset, limit) ==
  LET all == scoutContacts[s]
      end == offset + Clamp(limit)
  IN  [entries |-> SubSeq(all, offset + 1, IF end < Len(all) THEN end ELSE Len(all)),
       total |-> Len(all)]

HasEvidenceAccess(p, s) ==
  accessGrant[p][s] # NONE /\ ~accessGrant[p][s].revoked /\ accessGrant[p][s].expires_at > now

GrantPage(p, i) == IF i \in DOMAIN accessGrantPage[p] THEN accessGrantPage[p][i] ELSE << >>

\* What the page of a position lists from there on, up to the end asked for.
GrantsFrom(p, position, end) ==
  LET page == GrantPage(p, position \div ACCESS_GRANT_PAGE_SIZE)
      i == position % ACCESS_GRANT_PAGE_SIZE
      last == i + (end - position)
  IN SubSeq(page, i + 1, IF last < Len(page) THEN last ELSE Len(page))

\* From an offset, page by page until the end or a page that has no more; a
\* page gives at least one entry, so there are no more pages than entries.
GetPlayerAccessGrants(p, offset, limit) ==
  LET n == Clamp(limit)
      walk[i \in 0..n] ==
        LET read == walk[i - 1]
        IN IF i = 0 THEN << >> ELSE read \o GrantsFrom(p, offset + Len(read), offset + n)
  IN Filter(walk[n], {s \in Scouts : accessGrant[p][s] # NONE})

SetGrant(p, s, grant) ==
  /\ accessGrant' = [accessGrant EXCEPT ![p][s] = grant]
  /\ UNCHANGED <<feeVars, scoutVars, switches, subscriptionVars, autoRenew, proContactCount,
                 contactVars, accessGrantPage, accessGrantCount, purged>>

\* A revocation by the admin of a grant that is revoked already succeeds and
\* records nothing.
AdminRevokeEvidenceAccess(p, s) ==
  /\ accessGrant[p][s] # NONE
  /\ takenDown' = takenDown \cup {<<p, s>>}
  /\ adminRevoked' = IF accessGrant[p][s].revoked THEN adminRevoked
                     ELSE adminRevoked \cup {<<p, s>>}
  /\ SetGrant(p, s, [accessGrant[p][s] EXCEPT !.revoked = TRUE])

RevokeEvidenceAccess(p, s) ==
  /\ RequireNotPaused /\ registrationWired
  /\ accessGrant[p][s] # NONE /\ ~accessGrant[p][s].revoked
  /\ SetGrant(p, s, [accessGrant[p][s] EXCEPT !.revoked = TRUE])
  /\ UNCHANGED <<adminRevoked, takenDown>>

\* Neither the verification nor the quota is asked for here.
RenewEvidenceAccess(s, p) ==
  /\ ActiveSubscriber(s) /\ RequirePayToContactNotPaused
  /\ HasContacted(s, p)
  /\ accessGrant[p][s] # NONE /\ ~accessGrant[p][s].revoked
  /\ accessGrant[p][s].expires_at <= now
  /\ TierMayContact(subscription[s].tier, p)
  /\ SetGrant(p, s,
       [accessGrant[p][s] EXCEPT !.expires_at = now + EVIDENCE_ACCESS_GRANT_TTL_SECS])
  /\ UNCHANGED <<adminRevoked, takenDown>>

ReinstateEvidenceAccess(p, s) ==
  /\ RequireNotPaused /\ registrationWired
  /\ accessGrant[p][s] # NONE /\ accessGrant[p][s].revoked
  /\ <<p, s>> \notin adminRevoked
  /\ SetGrant(p, s, [accessGrant[p][s] EXCEPT !.revoked = FALSE,
                       !.expires_at = now + EVIDENCE_ACCESS_GRANT_TTL_SECS])
  /\ UNCHANGED <<adminRevoked, takenDown>>

\* purge_player_data's part here: records, grants and pages stay.
PurgePlayerData(p) ==
  /\ RequireNotPaused
  /\ playerContacts' = [playerContacts EXCEPT ![p] = << >>]
  /\ accessGrantCount' = [accessGrantCount EXCEPT ![p] = 0]
  /\ purged' = purged \cup {p}
  /\ UNCHANGED <<feeVars, scoutVars, switches, subscriptionVars, autoRenew, proContactCount,
                 contactRecord, scoutContacts, accessGrant, accessGrantPage, adminRevoked,
                 takenDown>>

----
(***************************************************************************)
(* Switches, the peers and time.                                            *)
(***************************************************************************)
Switched == UNCHANGED <<feeVars, scoutVars, subscriptionVars, autoRenew, proContactCount,
                        contactVars, grantVars, adminRevoked, purged, takenDown>>

PauseContract ==
  /\ ~paused /\ paused' = TRUE
  /\ Switched /\ UNCHANGED <<pausedPayToContact, registrationWired, progressWired, atEliteTier>>

UnpauseContract ==
  /\ paused /\ paused' = FALSE
  /\ Switched /\ UNCHANGED <<pausedPayToContact, registrationWired, progressWired, atEliteTier>>

PausePayToContact ==
  /\ ~pausedPayToContact /\ pausedPayToContact' = TRUE
  /\ Switched /\ UNCHANGED <<paused, registrationWired, progressWired, atEliteTier>>

UnpausePayToContact ==
  /\ pausedPayToContact /\ pausedPayToContact' = FALSE
  /\ Switched /\ UNCHANGED <<paused, registrationWired, progressWired, atEliteTier>>

SetRegistrationContract ==
  /\ registrationWired' = TRUE
  /\ Switched /\ UNCHANGED <<paused, pausedPayToContact, progressWired, atEliteTier>>

SetProgressContract ==
  /\ progressWired' = TRUE
  /\ Switched /\ UNCHANGED <<paused, pausedPayToContact, registrationWired, atEliteTier>>

\* Progress raises a player to EliteTier.
ReachEliteTier(p) ==
  /\ atEliteTier' = atEliteTier \cup {p}
  /\ Switched /\ UNCHANGED <<paused, pausedPayToContact, registrationWired, progressWired>>

Init ==
  /\ FeeInit /\ ScoutInit
  /\ paused = FALSE /\ pausedPayToContact = FALSE
  /\ registrationWired = FALSE /\ progressWired = FALSE /\ atEliteTier = {}
  /\ subscription = [s \in Scouts |-> NONE]
  /\ tierSubscribers = [t \in SubscriptionTier |-> << >>]
  /\ expiryBucket = [d \in Days |-> << >>]
  /\ contactedInPeriod = [s \in Scouts |-> {}]
  /\ autoRenew = [s \in Scouts |-> NONE]
  /\ proContactCount = [s \in Scouts |-> NONE]
  /\ contactRecord = [p \in Players |-> [s \in Scouts |-> NONE]]
  /\ scoutContacts = [s \in Scouts |-> << >>]
  /\ playerContacts = [p \in Players |-> << >>]
  /\ accessGrant = [p \in Players |-> [s \in Scouts |-> NONE]]
  /\ accessGrantPage = [p \in Players |-> [i \in 0..Cardinality(Scouts) |-> << >>]]
  /\ accessGrantCount = [p \in Players |-> 0]
  /\ adminRevoked = {} /\ purged = {} /\ takenDown = {}

AccessNext ==
  \/ \E s \in Scouts, tier \in SubscriptionTier : Subscribe(s, tier)
  \/ \E s \in Scouts, enabled \in BOOLEAN :
       SetAutoRenew(s, enabled) \/ AdminSeedAutoRenew(s, enabled)
  \/ \E s \in Scouts : RenewIfDue(s)
  \/ \E seed \in SeedSubscriptions : AdminSeedSubscription(seed)
  \/ \E s \in Scouts, ids \in Batches : BatchContactPlayers(s, ids)
  \/ \E s \in Scouts, p \in Players :
       \/ PayToContact(s, p) \/ RenewEvidenceAccess(s, p)
       \/ AdminRevokeEvidenceAccess(p, s)
       \/ RevokeEvidenceAccess(p, s) \/ ReinstateEvidenceAccess(p, s)
       \/ \E time \in ContactTimes : AdminSeedContact(s, p, time)
  \/ \E p \in Players : PurgePlayerData(p) \/ ReachEliteTier(p)
  \/ PauseContract \/ UnpauseContract \/ PausePayToContact \/ UnpausePayToContact
  \/ SetRegistrationContract \/ SetProgressContract

Next ==
  \/ AccessNext
  \/ FeeNext /\ UNCHANGED <<scoutVars, accessVars>>
  \/ ScoutNext /\ UNCHANGED <<feeVars, accessVars>>
  \/ FeeTick /\ UNCHANGED <<scoutVars, accessVars>>

Spec == Init /\ [][Next]_vars

----
\* A list without repetitions of exactly these scouts.
Lists(list, members) == IsInjective(list) /\ ToSet(list) = members

\* Keepers and services find every subscription where they look for it: each
\* scout is listed once under its tier, and asking for what expires by a date
\* returns each due subscription once, as many as the limit lets through
\* (subscribe, renew_if_due, admin_seed_subscription).
ListingsFollowSubscriptions ==
  /\ \A tier \in SubscriptionTier :
       Lists(GetSubscribersByTier(tier),
             {s \in Scouts : subscription[s] # NONE /\ subscription[s].tier = tier})
  /\ \A before \in ListingTimes, limit \in ListingLimits :
       LET due == {s \in Scouts : subscription[s] # NONE /\ subscription[s].expires_at <= before}
           answer == GetExpiringSubscriptions(before, limit)
       IN /\ IsInjective(answer) /\ ToSet(answer) \subseteq due
          /\ Len(answer) = (IF Cardinality(due) < Clamp(limit) THEN Cardinality(due)
                            ELSE Clamp(limit))

\* A Pro scout's counter is the number of players contacted since the
\* subscription last began, through single and batch contacts, renewals,
\* lapses and changes of tier; it neither forgets a contact nor carries one
\* into the next period.  (A renewal in the second the period began, which
\* leaves subscribed_at as it was, continues that period.)
QuotaCountsContacts ==
  \A s \in Scouts :
    LET sub == GetSubscription(s) IN
    sub # NONE => (sub.tier = Pro => CurrentCount(s) = Cardinality(contactedInPeriod[s]))

\* Until an erasure, a player who pages through the grants on their evidence
\* with any page size sees each one exactly once (record_contact, renewals,
\* revocations and reinstatements of several scouts).  The two sides of a
\* contact list each other, once, whether it was paid for alone, in a batch or
\* replayed, and a contact without a grant is one that was replayed.
AuditListsEveryGrantOnce ==
  /\ \A p \in Players \ purged :
       /\ \A limit \in ListingLimits :
            LET granted == {s \in Scouts : GetEvidenceAccessGrant(p, s) # NONE}
                pages == [i \in 1..Cardinality(Scouts) |->
                            GetPlayerAccessGrants(p, (i - 1) * Clamp(limit), limit)]
            IN Lists(FlattenSeq(pages), granted)
       /\ Lists(GetPlayerContacts(p), {s \in Scouts : HasContacted(s, p)})
       /\ \A s \in Scouts : HasContacted(s, p) /\ migrationWindow = "never" =>
            GetEvidenceAccessGrant(p, s) # NONE
  /\ \A s \in Scouts, limit \in ListingLimits :
       LET contacted == {p \in Players : GetContactRecord(s, p) # NONE}
           pages == [i \in 1..Cardinality(Players) |->
                       GetScoutContactsPage(s, (i - 1) * Clamp(limit), limit).entries]
       IN /\ FlattenSeq(pages) = GetScoutContacts(s)
          /\ Lists(GetScoutContacts(s), contacted)

\* #1607: "remember the takedown so a player cannot reinstate it" -- once the
\* admin's takedown of a grant has succeeded, the scout has no access again.
TakedownIsFinal ==
  \A pair \in takenDown : ~HasEvidenceAccess(pair[1], pair[2])
====
