---- MODULE MCSubscriptions ----
(***************************************************************************)
(* Two scouts and three players; one subject at a time (OneSubject).          *)
(***************************************************************************)
EXTENDS Subscriptions

CONSTANTS s1, s2, p1, p2, p3

\* A year, a week, a day and an hour become a few ticks.
Limits == [sub |-> <<1, 5>>, contact |-> <<1, 5>>, duration |-> <<1, 5>>, quota |-> <<1, 2>>,
           escrow |-> <<0, 5>>, expiry |-> <<1, 5>>]

Config(contact, pro, secs, quota) ==
  [contact_fee_stroops |-> contact, basic_sub_stroops |-> 1, pro_sub_stroops |-> pro,
   elite_sub_stroops |-> 3, sub_duration_secs |-> secs, pro_contact_limit |-> quota,
   trial_offer_escrow_stroops |-> 1, trial_offer_expiry_secs |-> 1]

Default == Config(2, 2, 3, 2)
Longer == Config(2, 2, 4, 1)       \* nothing dearer, another period and quota
Dear == Config(3, 1, 3, 2)         \* one fee falls and one rises
Disordered == Config(2, 4, 3, 2)   \* rejected: Pro above Elite
MCFeeConfigs == {Default, Longer, Dear, Disordered}

MCHistories == {<< >>, <<[config |-> Dear, updated_at |-> 0]>>}
MCTickets == {[wallet |-> s2, nonce |-> 7, expires_at |-> 1]}
MCSeeds == {[scout |-> s2, sub |-> [tier |-> Pro, expires_at |-> 2, subscribed_at |-> 0]]}
MCBatches == {<<p1, p2>>, <<p3, p1, p3>>, <<p1, p2, p3>>, <<p1, p2, p1, p2>>}

----
(***************************************************************************)
(* The subjects.                                                            *)
(***************************************************************************)
DefaultFees ==
  /\ feeConfig = Default /\ pendingFeeConfig = NONE /\ feeConfigHistory = NONE
  /\ changedBy = "initialize"
ScoutsUntouched == scoutCounter = 0 /\ liveScoutCount = 0 /\ scoutNonce = {}
                     /\ ~regPaused /\ regCooldownSecs = DEFAULT_REG_COOLDOWN_SECS
NoSubscription == \A s \in Scouts : subscription[s] = NONE
NoContact == \A p \in Players : playerContacts[p] = << >>
NoRenewal == \A s \in Scouts : autoRenew[s] = NONE
NoPurge == purged = {}
SwitchesOn == ~paused /\ ~pausedPayToContact

\* s1, then s2, register at once and are verified at once, before the links
\* are set and before anything else happens.
Prepared ==
  /\ ~regPaused /\ regCooldownSecs = DEFAULT_REG_COOLDOWN_SECS /\ scoutNonce = {}
  /\ liveScoutCount = scoutCounter /\ scoutDeactivated = {}
  /\ \A s \in Scouts : scoutRegLastSent[s] \in {NONE, 0}
  /\ \A id \in 1..scoutCounter : scout[id] # NONE
  /\ scoutByWallet[s1] \in {NONE, 1} /\ scoutByWallet[s2] \in {NONE, 2}
  /\ \A id \in 1..scoutCounter : scout[id].verification # "revoked"
  /\ \A id \in 2..scoutCounter : scout[id - 1].verified
  /\ registrationWired => scoutCounter > 0 /\ (scoutCounter > 0 => scout[scoutCounter].verified)
  /\ progressWired => registrationWired
  /\ now > 0 \/ ~NoSubscription => progressWired

\* Registrations, replays, tickets, erasures and flags of scouts.
Scouting ==
  /\ DefaultFees /\ NoSubscription /\ NoContact /\ NoRenewal /\ NoPurge /\ SwitchesOn
  /\ ~registrationWired /\ ~progressWired /\ migrationWindow = "never" /\ atEliteTier = {}
  /\ now <= 2
  /\ regPaused => liveScoutCount <= 1 /\ scoutNonce = {}
  /\ regCooldownSecs = 0 => scoutNonce = {} /\ ~regPaused

\* The fee schedule alone.
Pricing ==
  /\ ScoutsUntouched /\ NoSubscription /\ NoContact /\ NoRenewal /\ NoPurge /\ SwitchesOn
  /\ ~registrationWired /\ ~progressWired /\ atEliteTier = {}
  /\ now <= 3
  /\ migrationWindow # "never" => now <= 2

\* What two scouts subscribe to, replay and renew, with one change of the period.
Listing ==
  /\ now <= 4 /\ Prepared /\ NoContact /\ NoPurge /\ SwitchesOn /\ atEliteTier = {}
  /\ feeConfig \in {Default, Longer} /\ pendingFeeConfig = NONE
  /\ feeConfigHistory # NONE =>
       /\ feeConfig = Longer /\ Len(feeConfigHistory) = 1
       /\ lastChange = 1 /\ changedBy = "update_fee_config"
  /\ feeConfig = Longer => feeConfigHistory # NONE
  /\ migrationWindow # "never" =>
       now = 0 \/ (migrationWindow = "sealed" /\ subscription[s2] # NONE)
  /\ subscription[s2] # NONE => subscription[s2].subscribed_at = 0
  /\ autoRenew[s1] # FALSE /\ autoRenew[s2] = NONE

\* One scout's contacts of three players over several periods.
Contacting ==
  /\ Prepared /\ scoutCounter <= 1 /\ NoPurge /\ NoRenewal
  /\ DefaultFees /\ migrationWindow = "never" /\ takenDown = {}
  /\ now <= 4 /\ atEliteTier \subseteq {p1}
  /\ HasContacted(s1, p3) => HasContacted(s1, p2)
  /\ HasContacted(s1, p2) => HasContacted(s1, p1) \/ p1 \in atEliteTier
  /\ ~SwitchesOn => now = 0 /\ NoContact /\ atEliteTier = {} /\ ~registrationWired
  /\ \A p \in Players, s \in Scouts : accessGrant[p][s] # NONE =>
       /\ ~accessGrant[p][s].revoked
       /\ accessGrant[p][s].expires_at = accessGrant[p][s].granted_at
                                         + EVIDENCE_ACCESS_GRANT_TTL_SECS

\* Two scouts' access to one player, and the player's erasure.
Granting ==
  /\ Prepared /\ NoRenewal /\ SwitchesOn /\ atEliteTier = {}
  /\ DefaultFees /\ migrationWindow = "never"
  /\ now <= 3
  /\ \A p \in {p2, p3} : playerContacts[p] = << >> /\ p \notin purged
  /\ \A s \in Scouts : subscription[s] # NONE =>
       subscription[s].subscribed_at = 0 /\ subscription[s].tier = Elite
  /\ accessGrant[p1][s2] # NONE => ~accessGrant[p1][s2].revoked

OneSubject == Scouting \/ Pricing \/ Listing \/ Contacting \/ Granting
====
