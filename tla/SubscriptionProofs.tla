---- MODULE SubscriptionProofs ----
(***************************************************************************)
(* Proofs about scout_access and the scouts it asks the registration        *)
(* contract about.  The fee schedule: type correctness, and that, but for   *)
(* two calls without notice, what scouts pay rises only by an activation    *)
(* after the schedule has stood unchanged for the whole delay.  The whole: subscriptions and contacts    *)
(* leave the schedule to its own actions, so that its guarantees hold of    *)
(* them too; scout profiles, wallets and listings agree; a subscription is  *)
(* listed where its tier and expiry say; the counter behind a quota counts  *)
(* the contacts of the period; an audit by pages lists every grant once.    *)
(***************************************************************************)
EXTENDS Subscriptions, DataTheorems

----
(***************************************************************************)
(* Types.                                                                   *)
(***************************************************************************)

\* The outgoing configuration and the time make a well-typed history entry,
\* and dropping the oldest keeps the history a sequence (apply_fee_config).
LEMMA ApplyKeepsTypes ==
  ASSUME FeeTypeOK, NEW c \in FeeConfig, ApplyFeeConfig(c)
  PROVE  feeConfig' \in FeeConfig /\ feeConfigHistory' \in Seq(FeeConfigHistoryEntry)
<1> DEFINE kept == IF feeConfigHistory = NONE THEN << >> ELSE feeConfigHistory
<1> DEFINE entry == [config |-> feeConfig, updated_at |-> now]
<1> DEFINE grown == Append(kept, entry)
<1>1. now \in Nat /\ feeConfig \in FeeConfig
  BY FeeConstants DEF FeeTypeOK
<1>2. entry \in FeeConfigHistoryEntry
  BY <1>1 DEF FeeConfigHistoryEntry
<1>3. kept \in Seq(FeeConfigHistoryEntry)
  BY DEF FeeTypeOK
<1>4. grown \in Seq(FeeConfigHistoryEntry) /\ Len(grown) >= 1 /\ grown # << >>
  BY <1>2, <1>3
<1>5. Tail(grown) \in Seq(FeeConfigHistoryEntry)
  BY <1>4
<1>6. /\ feeConfigHistory' = IF Len(grown) > FEE_CONFIG_HISTORY_CAP THEN Tail(grown) ELSE grown
      /\ feeConfig' = c
  BY DEF ApplyFeeConfig
<1> QED
  BY <1>4, <1>5, <1>6

\* Every step keeps the types.
LEMMA StepKeepsTypes ==
  ASSUME FeeTypeOK, [FeeNext \/ FeeTick]_feeVars
  PROVE  FeeTypeOK'
<1> USE DEF FeeTypeOK, Calls
<1>1. ASSUME NEW c \in FeeConfigs, UpdateFeeConfig(c)
      PROVE  FeeTypeOK'
  <2>1. c \in FeeConfig
    BY FeeConstants
  <2>2. feeConfig' \in FeeConfig /\ feeConfigHistory' \in Seq(FeeConfigHistoryEntry)
    BY <1>1, <2>1, ApplyKeepsTypes DEF UpdateFeeConfig
  <2> QED
    BY <1>1, <2>2 DEF UpdateFeeConfig, ChangeBy
<1>2. ASSUME NEW c \in FeeConfigs, ProposeFeeConfig(c)
      PROVE  FeeTypeOK'
  <2>1. c \in FeeConfig /\ now \in Nat
    BY FeeConstants
  <2>2. CASE IsDecreaseOrNoChange(c)
    <3>1. ApplyFeeConfig(c) /\ UNCHANGED pendingFeeConfig
      BY <1>2, <2>2 DEF ProposeFeeConfig
    <3>2. feeConfig' \in FeeConfig /\ feeConfigHistory' \in Seq(FeeConfigHistoryEntry)
      BY <2>1, <3>1, ApplyKeepsTypes
    <3> QED
      BY <1>2, <3>1, <3>2 DEF ProposeFeeConfig, ChangeBy
  <2>3. CASE ~IsDecreaseOrNoChange(c)
    <3>1. [config |-> c, proposed_at |-> now] \in FeeConfigProposal
      BY <2>1 DEF FeeConfigProposal
    <3>2. /\ pendingFeeConfig' \in FeeConfigProposal
          /\ UNCHANGED <<feeConfig, feeConfigHistory>>
      BY <1>2, <2>3, <3>1 DEF ProposeFeeConfig
    <3> QED
      BY <1>2, <3>2 DEF ProposeFeeConfig, ChangeBy
  <2> QED
    BY <2>2, <2>3
<1>3. CASE ActivateFeeConfig
  <2>1. pendingFeeConfig.config \in FeeConfig
    BY <1>3 DEF ActivateFeeConfig, FeeConfigProposal
  <2>2. feeConfig' \in FeeConfig /\ feeConfigHistory' \in Seq(FeeConfigHistoryEntry)
    BY <1>3, <2>1, ApplyKeepsTypes DEF ActivateFeeConfig
  <2> QED
    BY <1>3, <2>2 DEF ActivateFeeConfig, ChangeBy
<1>4. CASE CancelFeeConfigProposal
  BY <1>4 DEF CancelFeeConfigProposal, ChangeBy
<1>5. CASE OpenMigrationWindow \/ CloseMigrationWindow
  BY <1>5 DEF OpenMigrationWindow, CloseMigrationWindow
<1>6. ASSUME NEW h \in SeedHistories, AdminSeedFeeConfigHistory(h)
      PROVE  FeeTypeOK'
  <2>1. h \in Seq(FeeConfigHistoryEntry)
    BY FeeConstants
  <2> QED
    BY <1>6, <2>1 DEF AdminSeedFeeConfigHistory
<1>7. ASSUME NEW h \in SeedHistories, NEW c \in FeeConfigs, AdminSeedFeeConfig(c, h)
      PROVE  FeeTypeOK'
  <2>1. h \in Seq(FeeConfigHistoryEntry) /\ c \in FeeConfig
    BY FeeConstants
  <2> QED
    BY <1>7, <2>1 DEF AdminSeedFeeConfig
<1>8. CASE FeeTick
  BY <1>8, FeeConstants DEF FeeTick, Tick
<1>9. CASE UNCHANGED feeVars
  BY <1>9 DEF feeVars
<1> QED
  BY <1>1, <1>2, <1>3, <1>4, <1>5, <1>6, <1>7, <1>8, <1>9 DEF FeeNext

\* The schedule, the proposal and the history are of their types whatever the
\* admin submits, proposes, replays and cancels.
THEOREM FeeScheduleTypeCorrect == FeeSpec => []FeeTypeOK
<1>1. FeeInit => FeeTypeOK
  BY FeeConstants DEF FeeInit, FeeTypeOK, Calls
<1>2. FeeTypeOK /\ [FeeNext \/ FeeTick]_feeVars => FeeTypeOK'
  BY StepKeepsTypes
<1> QED
  BY <1>1, <1>2, PTL DEF FeeSpec

----
(***************************************************************************)
(* Notice.                                                                  *)
(***************************************************************************)

\* While a proposal waits nothing else changes the schedule's clock: the last
\* change is the proposal itself.
NothingSinceProposal ==
  pendingFeeConfig # NONE => lastChange = pendingFeeConfig.proposed_at

NoticeInv == FeeTypeOK /\ NothingSinceProposal

\* Every step keeps the last change at the waiting proposal: those that move
\* it drop the proposal or make it, the others leave both alone.
LEMMA StepKeepsNotice ==
  ASSUME NoticeInv, [FeeNext \/ FeeTick]_feeVars
  PROVE  NothingSinceProposal'
<1> USE DEF NoticeInv, NothingSinceProposal
<1>1. ASSUME NEW c \in FeeConfigs, UpdateFeeConfig(c)
      PROVE  NothingSinceProposal'
  BY <1>1 DEF UpdateFeeConfig
<1>2. ASSUME NEW c \in FeeConfigs, ProposeFeeConfig(c)
      PROVE  NothingSinceProposal'
  <2>1. pendingFeeConfig = NONE /\ lastChange' = now
    BY <1>2 DEF ProposeFeeConfig, ChangeBy
  <2>2. \/ pendingFeeConfig' = pendingFeeConfig
        \/ pendingFeeConfig' = [config |-> c, proposed_at |-> now]
    BY <1>2 DEF ProposeFeeConfig
  <2> QED
    BY <2>1, <2>2
<1>3. CASE ActivateFeeConfig \/ CancelFeeConfigProposal
  BY <1>3 DEF ActivateFeeConfig, CancelFeeConfigProposal
<1>4. CASE OpenMigrationWindow \/ CloseMigrationWindow
  BY <1>4 DEF OpenMigrationWindow, CloseMigrationWindow
<1>5. ASSUME NEW h \in SeedHistories, AdminSeedFeeConfigHistory(h)
      PROVE  NothingSinceProposal'
  BY <1>5 DEF AdminSeedFeeConfigHistory
<1>6. ASSUME NEW h \in SeedHistories, NEW c \in FeeConfigs, AdminSeedFeeConfig(c, h)
      PROVE  NothingSinceProposal'
  BY <1>6 DEF AdminSeedFeeConfig
<1>7. CASE FeeTick \/ UNCHANGED feeVars
  BY <1>7 DEF FeeTick, feeVars
<1> QED
  BY <1>1, <1>2, <1>3, <1>4, <1>5, <1>6, <1>7 DEF FeeNext

\* A configuration is not dearer than itself.
LEMMA NotDearerThanItself ==
  ASSUME NEW c \in FeeConfig
  PROVE  ~Dearer(c, c)
BY DEF Dearer, FeeConfig

\* A step that raises what scouts pay is the direct update, the replay or the activation of a
\* proposal that has waited the whole delay.
LEMMA StepRisesOnNotice ==
  ASSUME NoticeInv, [FeeNext \/ FeeTick]_feeVars, Dearer(feeConfig, feeConfig')
  PROVE  \/ changedBy' \in Unannounced
         \/ /\ changedBy' = "activate_fee_config"
            /\ now >= lastChange + FEE_CONFIG_PROPOSAL_DELAY_SECS
<1>1. feeConfig' # feeConfig
  BY NotDearerThanItself DEF NoticeInv, FeeTypeOK
<1>2. ASSUME NEW c \in FeeConfigs, UpdateFeeConfig(c)
      PROVE  changedBy' \in Unannounced
  BY <1>2 DEF UpdateFeeConfig, ChangeBy, Unannounced
<1>3. ASSUME NEW c \in FeeConfigs, ProposeFeeConfig(c)
      PROVE  FALSE
  <2>1. CASE IsDecreaseOrNoChange(c)
    <3>1. feeConfig' = c
      BY <1>3, <2>1 DEF ProposeFeeConfig, ApplyFeeConfig
    <3> QED
      BY <2>1, <3>1 DEF IsDecreaseOrNoChange
  <2>2. CASE ~IsDecreaseOrNoChange(c)
    BY <1>1, <1>3, <2>2 DEF ProposeFeeConfig
  <2> QED
    BY <2>1, <2>2
<1>4. CASE ActivateFeeConfig
  BY <1>4 DEF ActivateFeeConfig, ChangeBy, NoticeInv, NothingSinceProposal
<1>5. CASE CancelFeeConfigProposal \/ OpenMigrationWindow \/ CloseMigrationWindow
  BY <1>1, <1>5 DEF CancelFeeConfigProposal, OpenMigrationWindow, CloseMigrationWindow
<1>6. ASSUME NEW h \in SeedHistories, AdminSeedFeeConfigHistory(h)
      PROVE  FALSE
  BY <1>1, <1>6 DEF AdminSeedFeeConfigHistory
<1>7. ASSUME NEW h \in SeedHistories, NEW c \in FeeConfigs, AdminSeedFeeConfig(c, h)
      PROVE  changedBy' \in Unannounced
  BY <1>7 DEF AdminSeedFeeConfig, Unannounced
<1>8. CASE FeeTick \/ UNCHANGED feeVars
  BY <1>1, <1>8 DEF FeeTick, feeVars
<1> QED
  BY <1>2, <1>3, <1>4, <1>5, <1>6, <1>7, <1>8 DEF FeeNext

\* Outside the admin's direct update and replay, what scouts pay rises only by
\* an activation, when the schedule has stood unchanged for the whole delay
\* (propose_fee_config, activate_fee_config, cancel_fee_config_proposal).
THEOREM FeesRiseOnNotice == FeeSpec => RiseOnNotice
<1>1. FeeInit => NoticeInv
  BY FeeConstants DEF FeeInit, NoticeInv, NothingSinceProposal, FeeTypeOK, Calls
<1>2. NoticeInv /\ [FeeNext \/ FeeTick]_feeVars => NoticeInv'
  BY StepKeepsTypes, StepKeepsNotice DEF NoticeInv
<1>3. NoticeInv /\ [FeeNext \/ FeeTick]_feeVars =>
        [Dearer(feeConfig, feeConfig') =>
           \/ changedBy' \in Unannounced
           \/ /\ changedBy' = "activate_fee_config"
              /\ now >= lastChange + FEE_CONFIG_PROPOSAL_DELAY_SECS]_feeVars
  BY StepRisesOnNotice
<1> QED
  BY <1>1, <1>2, <1>3, PTL DEF FeeSpec, RiseOnNotice

----
(***************************************************************************)
(* The schedule under subscriptions, contacts and scouts.                   *)
(***************************************************************************)

\* No operation on subscriptions, contacts and grants touches the schedule.
LEMMA AccessLeavesSchedule ==
  ASSUME AccessNext
  PROVE  UNCHANGED <<feeVars, scoutVars>>
<1>1. ASSUME NEW s \in Scouts, NEW tier \in SubscriptionTier, Subscribe(s, tier)
      PROVE  UNCHANGED <<feeVars, scoutVars>>
  BY <1>1 DEF Subscribe
<1>2. ASSUME NEW s \in Scouts, NEW enabled \in BOOLEAN,
             SetAutoRenew(s, enabled) \/ AdminSeedAutoRenew(s, enabled)
      PROVE  UNCHANGED <<feeVars, scoutVars>>
  BY <1>2 DEF SetAutoRenew, AdminSeedAutoRenew
<1>3. ASSUME NEW s \in Scouts, RenewIfDue(s)
      PROVE  UNCHANGED <<feeVars, scoutVars>>
  BY <1>3 DEF RenewIfDue
<1>4. ASSUME NEW seed \in SeedSubscriptions, AdminSeedSubscription(seed)
      PROVE  UNCHANGED <<feeVars, scoutVars>>
  BY <1>4 DEF AdminSeedSubscription
<1>5. ASSUME NEW s \in Scouts, NEW ids \in Batches, BatchContactPlayers(s, ids)
      PROVE  UNCHANGED <<feeVars, scoutVars>>
  BY <1>5 DEF BatchContactPlayers, Contact
<1>6. ASSUME NEW s \in Scouts, NEW p \in Players, PayToContact(s, p)
      PROVE  UNCHANGED <<feeVars, scoutVars>>
  BY <1>6 DEF PayToContact, Contact
<1>7. ASSUME NEW s \in Scouts, NEW p \in Players,
             \/ RenewEvidenceAccess(s, p) \/ AdminRevokeEvidenceAccess(p, s)
             \/ RevokeEvidenceAccess(p, s) \/ ReinstateEvidenceAccess(p, s)
      PROVE  UNCHANGED <<feeVars, scoutVars>>
  BY <1>7 DEF RenewEvidenceAccess, AdminRevokeEvidenceAccess, RevokeEvidenceAccess,
              ReinstateEvidenceAccess, SetGrant
<1>8. ASSUME NEW s \in Scouts, NEW p \in Players, NEW time \in ContactTimes,
             AdminSeedContact(s, p, time)
      PROVE  UNCHANGED <<feeVars, scoutVars>>
  BY <1>8 DEF AdminSeedContact
<1>9. ASSUME NEW p \in Players, PurgePlayerData(p) \/ ReachEliteTier(p)
      PROVE  UNCHANGED <<feeVars, scoutVars>>
  BY <1>9 DEF PurgePlayerData, ReachEliteTier, Switched
<1>10. ASSUME \/ PauseContract \/ UnpauseContract \/ PausePayToContact \/ UnpausePayToContact
              \/ SetRegistrationContract \/ SetProgressContract
       PROVE  UNCHANGED <<feeVars, scoutVars>>
  BY <1>10 DEF PauseContract, UnpauseContract, PausePayToContact, UnpausePayToContact,
               SetRegistrationContract, SetProgressContract, Switched
<1> QED
  BY <1>1, <1>2, <1>3, <1>4, <1>5, <1>6, <1>7, <1>8, <1>9, <1>10 DEF AccessNext

\* Every behaviour of scout_access is one of the fee schedule by itself:
\* steps of the rest are stutters of the schedule.
THEOREM ScheduleRunsByItself == Spec => FeeSpec
<1>1. Init => FeeInit
  BY DEF Init
<1>2. [Next]_vars => [FeeNext \/ FeeTick]_feeVars
  <2>1. ASSUME AccessNext
        PROVE  UNCHANGED feeVars
    BY <2>1, AccessLeavesSchedule
  <2>2. ASSUME UNCHANGED vars
        PROVE  UNCHANGED feeVars
    BY <2>2 DEF vars
  <2> QED
    BY <2>1, <2>2 DEF Next
<1> QED
  BY <1>1, <1>2, PTL DEF Spec, FeeSpec

\* With subscriptions, contacts and scouts at work, what scouts pay still rises
\* on notice only.
THEOREM SubscribersHaveNotice == Spec => RiseOnNotice
BY ScheduleRunsByItself, FeesRiseOnNotice

----
(***************************************************************************)
(* The scouts of the registration contract.                                 *)
(***************************************************************************)

\* Until a registration takes a replayed id, a wallet and a profile name each
\* other, and no absent profile is hidden.
WalletIndexExact ==
  replacedScouts = {} =>
    /\ \A w \in Scouts, id \in ScoutId :
         scoutByWallet[w] = id <=> scout[id] # NONE /\ scout[id].wallet = w
    /\ \A id \in scoutDeactivated : scout[id] # NONE

\* The two copies of the verification agree.
VerificationAgrees ==
  \A id \in ScoutId :
    scout[id] # NONE => scout[id].verified = (scout[id].verification = "verified")

ScoutInv == ScoutTypeOK /\ WalletIndexExact /\ VerificationAgrees

\* A profile written for a wallet without one keeps the index exact, the live
\* count within its bound and the copies of the verification equal
\* (register_scout, admin_seed_scout, redeem_migration_scout).
LEMMA WriteKeepsScouts ==
  ASSUME ScoutInv, NEW w \in Scouts, NEW id \in ScoutId, NEW verified \in BOOLEAN,
         ScoutWalletFree(w), RequireScoutCapacity, WriteScout(w, id, verified)
  PROVE  /\ liveScoutCount' \in 0..MAX_SCOUTS
         /\ scout' \in [ScoutId -> ScoutProfile \cup {NONE}]
         /\ scoutByWallet' \in [Scouts -> ScoutId \cup {NONE}]
         /\ VerificationAgrees'
         /\ replacedScouts = {} /\ scout[id] = NONE /\ replacedScouts' = {} => WalletIndexExact'
<1> DEFINE new == [wallet |-> w, verified |-> verified,
                   verification |-> IF verified THEN "verified" ELSE "never"]
<1>1. /\ scout' = [scout EXCEPT ![id] = new]
      /\ scoutByWallet' = [scoutByWallet EXCEPT ![w] = id]
      /\ liveScoutCount' = liveScoutCount + 1
      /\ UNCHANGED scoutDeactivated
  BY DEF WriteScout, IncrementLiveScoutCount
<1>2. new \in ScoutProfile /\ new # NONE /\ new.wallet = w
  BY ScoutConstants DEF ScoutProfile, ScoutVerificationRecord
<1>3. new.verified = (new.verification = "verified")
  OBVIOUS
<1>4. liveScoutCount' \in 0..MAX_SCOUTS
  BY <1>1, ScoutConstants DEF ScoutInv, ScoutTypeOK, RequireScoutCapacity
<1> HIDE DEF new
<1>5. /\ scout' \in [ScoutId -> ScoutProfile \cup {NONE}]
      /\ scoutByWallet' \in [Scouts -> ScoutId \cup {NONE}]
  BY <1>1, <1>2 DEF ScoutInv, ScoutTypeOK
<1>6. VerificationAgrees'
  <2> SUFFICES ASSUME NEW i \in ScoutId, scout'[i] # NONE
               PROVE  scout'[i].verified = (scout'[i].verification = "verified")
    BY DEF VerificationAgrees
  <2>1. CASE i = id
    BY <1>1, <1>3, <2>1 DEF ScoutInv, ScoutTypeOK
  <2>2. CASE i # id
    BY <1>1, <2>2 DEF ScoutInv, ScoutTypeOK, VerificationAgrees
  <2> QED
    BY <2>1, <2>2
<1>7. ASSUME replacedScouts = {}, scout[id] = NONE, replacedScouts' = {}
      PROVE  WalletIndexExact'
  <2>1. \A v \in Scouts, i \in ScoutId :
          scoutByWallet[v] = i <=> scout[i] # NONE /\ scout[i].wallet = v
    BY <1>7 DEF ScoutInv, WalletIndexExact
  <2>2. \A i \in ScoutId : ~(scout[i] # NONE /\ scout[i].wallet = w)
    <3>1. \A i \in ScoutId : i # NONE
      BY ScoutConstants DEF ScoutId
    <3> QED
      BY <2>1, <3>1 DEF ScoutWalletFree
  <2>3. \A v \in Scouts, i \in ScoutId :
          scoutByWallet'[v] = i <=> scout'[i] # NONE /\ scout'[i].wallet = v
    <3> SUFFICES ASSUME NEW v \in Scouts, NEW i \in ScoutId
                 PROVE  scoutByWallet'[v] = i <=> scout'[i] # NONE /\ scout'[i].wallet = v
      OBVIOUS
    <3>1. scoutByWallet'[v] = IF v = w THEN id ELSE scoutByWallet[v]
      BY <1>1 DEF ScoutInv, ScoutTypeOK
    <3>2. scout'[i] = IF i = id THEN new ELSE scout[i]
      BY <1>1 DEF ScoutInv, ScoutTypeOK
    <3> QED
      BY <1>2, <1>7, <2>1, <2>2, <3>1, <3>2
  <2>4. \A i \in scoutDeactivated' : scout'[i] # NONE
    BY <1>1, <1>2, <1>7 DEF ScoutInv, ScoutTypeOK, WalletIndexExact
  <2> QED
    BY <2>3, <2>4 DEF WalletIndexExact
<1> QED
  BY <1>4, <1>5, <1>6, <1>7

\* Every step of the scouts keeps the invariant.
LEMMA StepKeepsScouts ==
  ASSUME ScoutInv, now \in Nat, ScoutNext
  PROVE  ScoutInv'
<1>1. ASSUME NEW w \in Scouts, RegisterScout(w)
      PROVE  ScoutInv'
  <2> DEFINE id == NextScoutId
  <2>1. /\ id \in ScoutId /\ ScoutWalletFree(w) /\ RequireScoutCapacity
        /\ WriteScout(w, id, FALSE)
        /\ scoutCounter' = id
        /\ scoutRegLastSent' = [scoutRegLastSent EXCEPT ![w] = now]
        /\ replacedScouts' = IF scout[id] = NONE THEN replacedScouts
                             ELSE replacedScouts \cup {id}
        /\ UNCHANGED <<regPaused, regCooldownSecs, scoutNonce>>
    BY <1>1 DEF RegisterScout
  <2>2. /\ liveScoutCount' \in 0..MAX_SCOUTS
        /\ scout' \in [ScoutId -> ScoutProfile \cup {NONE}]
        /\ scoutByWallet' \in [Scouts -> ScoutId \cup {NONE}]
        /\ VerificationAgrees'
        /\ replacedScouts = {} /\ scout[id] = NONE /\ replacedScouts' = {} => WalletIndexExact'
    BY <2>1, WriteKeepsScouts
  <2>3. id \in 0..MaxScoutId
    BY <2>1, ScoutConstants DEF ScoutId
  <2> HIDE DEF id
  <2>4. scoutRegLastSent' \in [Scouts -> Nat \cup {NONE}]
    BY <2>1 DEF ScoutInv, ScoutTypeOK
  <2>5. replacedScouts' = {} => replacedScouts = {} /\ scout[id] = NONE
    BY <2>1
  <2>6. WalletIndexExact'
    BY <2>2, <2>5 DEF WalletIndexExact
  <2>7. scoutDeactivated' = scoutDeactivated
    BY <2>1 DEF WriteScout
  <2>8. ScoutTypeOK'
    BY <2>1, <2>2, <2>3, <2>4, <2>7 DEF ScoutInv, ScoutTypeOK
  <2> QED
    BY <2>2, <2>6, <2>8 DEF ScoutInv
<1>2. ASSUME NEW w \in Scouts, NEW id \in ScoutId, NEW verified \in BOOLEAN,
             SeedScout(w, id, verified), scoutNonce' \subseteq Scouts \X Nat
      PROVE  ScoutInv'
  <2>1. /\ scout[id] = NONE /\ ScoutWalletFree(w) /\ RequireScoutCapacity
        /\ WriteScout(w, id, verified)
        /\ UNCHANGED <<regPaused, regCooldownSecs, scoutCounter, scoutRegLastSent,
                       replacedScouts>>
    BY <1>2 DEF SeedScout
  <2>2. /\ liveScoutCount' \in 0..MAX_SCOUTS
        /\ scout' \in [ScoutId -> ScoutProfile \cup {NONE}]
        /\ scoutByWallet' \in [Scouts -> ScoutId \cup {NONE}]
        /\ VerificationAgrees'
        /\ replacedScouts = {} /\ scout[id] = NONE /\ replacedScouts' = {} => WalletIndexExact'
    BY <2>1, WriteKeepsScouts
  <2>3. WalletIndexExact'
    BY <2>1, <2>2 DEF WalletIndexExact
  <2>4. scoutDeactivated' = scoutDeactivated
    BY <2>1 DEF WriteScout
  <2>5. ScoutTypeOK'
    BY <1>2, <2>1, <2>2, <2>4 DEF ScoutInv, ScoutTypeOK
  <2> QED
    BY <2>2, <2>3, <2>5 DEF ScoutInv
<1>3. ASSUME NEW w \in Scouts, NEW id \in SeedScoutIds, NEW verified \in BOOLEAN,
             AdminSeedScout(w, id, verified)
      PROVE  ScoutInv'
  <2>1. id \in ScoutId /\ SeedScout(w, id, verified)
    BY <1>3, ScoutConstants DEF AdminSeedScout
  <2>2. scoutNonce' \subseteq Scouts \X Nat
    BY <1>3 DEF AdminSeedScout, ScoutInv, ScoutTypeOK
  <2> QED
    BY <1>2, <2>1, <2>2
<1>4. ASSUME NEW ticket \in ScoutTickets, NEW id \in SeedScoutIds, NEW verified \in BOOLEAN,
             RedeemMigrationScout(ticket, id, verified)
      PROVE  ScoutInv'
  <2>1. ticket \in ScoutTicket /\ id \in ScoutId
    BY ScoutConstants
  <2>2. ticket.wallet \in Scouts /\ ticket.nonce \in Nat
    BY <2>1 DEF ScoutTicket
  <2>3. /\ SeedScout(ticket.wallet, id, verified)
        /\ scoutNonce' = scoutNonce \cup {<<ticket.wallet, ticket.nonce>>}
    BY <1>4 DEF RedeemMigrationScout
  <2>4. scoutNonce' \subseteq Scouts \X Nat
    BY <2>2, <2>3 DEF ScoutInv, ScoutTypeOK
  <2> QED
    BY <1>2, <2>1, <2>2, <2>3, <2>4
<1>5. ASSUME NEW id \in ScoutId, DeregisterScout(id)
      PROVE  ScoutInv'
  <2>1. /\ scout[id] # NONE
        /\ scout' = [scout EXCEPT ![id] = NONE]
        /\ scoutByWallet' = [scoutByWallet EXCEPT ![scout[id].wallet] = NONE]
        /\ scoutDeactivated' = scoutDeactivated \ {id}
        /\ liveScoutCount' = IF liveScoutCount = 0 THEN 0 ELSE liveScoutCount - 1
        /\ UNCHANGED <<regPaused, regCooldownSecs, scoutCounter, scoutRegLastSent, scoutNonce,
                       replacedScouts>>
    BY <1>5 DEF DeregisterScout, ClearScoutWallet, ClearScoutFlag
  <2>2. scout[id].wallet \in Scouts
    BY <2>1 DEF ScoutInv, ScoutTypeOK, ScoutProfile
  <2>3. liveScoutCount' \in 0..MAX_SCOUTS
    BY <2>1, ScoutConstants DEF ScoutInv, ScoutTypeOK
  <2>4. ScoutTypeOK'
    BY <2>1, <2>3 DEF ScoutInv, ScoutTypeOK
  <2>5. VerificationAgrees'
    BY <2>1 DEF ScoutInv, ScoutTypeOK, VerificationAgrees
  <2>6. ASSUME replacedScouts = {}
        PROVE  WalletIndexExact'
    <3>1. /\ \A v \in Scouts, i \in ScoutId :
               scoutByWallet[v] = i <=> scout[i] # NONE /\ scout[i].wallet = v
          /\ \A i \in scoutDeactivated : scout[i] # NONE
      BY <2>6 DEF ScoutInv, WalletIndexExact
    <3>2. \A i \in ScoutId : i # NONE
      BY ScoutConstants DEF ScoutId
    <3>3. ASSUME NEW v \in Scouts, NEW i \in ScoutId
          PROVE  scoutByWallet'[v] = i <=> scout'[i] # NONE /\ scout'[i].wallet = v
      <4>1. scoutByWallet'[v] = IF v = scout[id].wallet THEN NONE ELSE scoutByWallet[v]
        BY <2>1, <2>2 DEF ScoutInv, ScoutTypeOK
      <4>2. scout'[i] = IF i = id THEN NONE ELSE scout[i]
        BY <2>1 DEF ScoutInv, ScoutTypeOK
      <4>3. scoutByWallet[scout[id].wallet] = id
        BY <2>1, <2>2, <3>1
      <4>4. CASE v = scout[id].wallet
        BY <3>1, <3>2, <4>1, <4>2, <4>3, <4>4
      <4>5. CASE v # scout[id].wallet
        BY <3>1, <3>2, <4>1, <4>2, <4>5
      <4> QED
        BY <4>4, <4>5
    <3>4. \A i \in scoutDeactivated' : scout'[i] # NONE
      BY <2>1, <3>1 DEF ScoutInv, ScoutTypeOK
    <3> QED
      BY <3>3, <3>4 DEF WalletIndexExact
  <2>7. WalletIndexExact'
    BY <2>1, <2>6 DEF WalletIndexExact
  <2> QED
    BY <2>4, <2>5, <2>7 DEF ScoutInv
<1>6. ASSUME NEW id \in ScoutId, DeactivateScout(id) \/ ReactivateScout(id)
      PROVE  ScoutInv'
  <2>1. /\ scout[id] # NONE
        /\ scoutDeactivated' \in {scoutDeactivated \cup {id}, scoutDeactivated \ {id}}
        /\ UNCHANGED <<regPaused, regCooldownSecs, scoutCounter, liveScoutCount, scout,
                       scoutByWallet, scoutRegLastSent, scoutNonce, replacedScouts>>
    BY <1>6 DEF DeactivateScout, ReactivateScout, SetFlag
  <2> QED
    BY <2>1 DEF ScoutInv, ScoutTypeOK, WalletIndexExact, VerificationAgrees
<1>7. ASSUME NEW id \in ScoutId, VerifyScout(id) \/ UnverifyScout(id)
      PROVE  ScoutInv'
  <2>1. PICK verified \in BOOLEAN, record \in {"verified", "revoked"} :
          /\ scout[id] # NONE /\ verified = (record = "verified")
          /\ SetVerification(id, verified, record)
    BY <1>7 DEF VerifyScout, UnverifyScout
  <2> DEFINE new == [scout[id] EXCEPT !.verified = verified, !.verification = record]
  <2>2. /\ scout' = [scout EXCEPT ![id] = new]
        /\ UNCHANGED <<regPaused, regCooldownSecs, scoutCounter, liveScoutCount, scoutByWallet,
                       scoutDeactivated, scoutRegLastSent, scoutNonce, replacedScouts>>
    BY <2>1 DEF SetVerification, ScoutInv, ScoutTypeOK
  <2>3. scout[id] \in ScoutProfile
    BY <2>1 DEF ScoutInv, ScoutTypeOK
  <2>4. /\ new \in ScoutProfile /\ new.wallet = scout[id].wallet
        /\ new.verified = (new.verification = "verified")
    BY <2>1, <2>3 DEF ScoutProfile, ScoutVerificationRecord
  <2>5. new # NONE
    BY <2>4, ScoutConstants
  <2> HIDE DEF new
  <2>6. \A i \in ScoutId : scout'[i] = IF i = id THEN new ELSE scout[i]
    BY <2>2 DEF ScoutInv, ScoutTypeOK
  <2>7. ScoutTypeOK'
    BY <2>2, <2>4 DEF ScoutInv, ScoutTypeOK
  <2>8. VerificationAgrees'
    BY <2>4, <2>6 DEF ScoutInv, VerificationAgrees
  <2>9. WalletIndexExact'
    BY <2>1, <2>2, <2>4, <2>5, <2>6 DEF ScoutInv, ScoutTypeOK, WalletIndexExact
  <2> QED
    BY <2>7, <2>8, <2>9 DEF ScoutInv
<1>8. ASSUME NEW flag \in BOOLEAN, SetRegPaused(flag)
      PROVE  ScoutInv'
  BY <1>8 DEF SetRegPaused, scoutProfiles, ScoutInv, ScoutTypeOK, WalletIndexExact,
              VerificationAgrees
<1>9. ASSUME NEW secs \in RegCooldowns, SetRegCooldown(secs)
      PROVE  ScoutInv'
  <2>1. secs \in Nat
    BY ScoutConstants
  <2> QED
    BY <1>9, <2>1 DEF SetRegCooldown, scoutProfiles, ScoutInv, ScoutTypeOK, WalletIndexExact,
                      VerificationAgrees
<1> QED
  BY <1>1, <1>3, <1>4, <1>5, <1>6, <1>7, <1>8, <1>9 DEF ScoutNext

\* A step that leaves the scouts alone keeps the invariant.
LEMMA OthersKeepScouts ==
  ASSUME ScoutInv, UNCHANGED scoutVars
  PROVE  ScoutInv'
BY DEF scoutVars, scoutProfiles, ScoutInv, ScoutTypeOK, WalletIndexExact, VerificationAgrees

\* Until a registration takes a replayed id, whatever scouts, admins and
\* migration tickets do: a wallet and a profile name each other, no absent
\* profile is hidden, the live count stays within the capacity, and the two
\* copies of the verification that scout_access reads agree.
THEOREM ScoutsAgree == Spec => [](ScoutTypeOK /\ WalletIndexExact /\ VerificationAgrees)
<1>1. Init => ScoutInv /\ FeeTypeOK
  <2>1. ScoutInit => ScoutInv
    <3>1. \A i \in ScoutId : i # NONE
      BY ScoutConstants DEF ScoutId
    <3> SUFFICES ASSUME ScoutInit
                 PROVE  ScoutInv
      OBVIOUS
    <3>2. ScoutTypeOK
      <4>1. regPaused \in BOOLEAN
        BY DEF ScoutInit
      <4>4. regCooldownSecs \in Nat
        BY ScoutConstants DEF ScoutInit
      <4>5. scoutCounter \in 0..MaxScoutId /\ liveScoutCount \in 0..MAX_SCOUTS
        BY ScoutConstants DEF ScoutInit
      <4>2. /\ scout \in [ScoutId -> ScoutProfile \cup {NONE}]
            /\ scoutByWallet \in [Scouts -> ScoutId \cup {NONE}]
            /\ scoutRegLastSent \in [Scouts -> Nat \cup {NONE}]
        BY DEF ScoutInit
      <4>3. /\ scoutDeactivated \subseteq ScoutId /\ replacedScouts \subseteq ScoutId
            /\ scoutNonce \subseteq Scouts \X Nat
        BY DEF ScoutInit
      <4> QED
        BY <4>1, <4>2, <4>3, <4>4, <4>5 DEF ScoutTypeOK
    <3>3. WalletIndexExact /\ VerificationAgrees
      BY <3>1 DEF ScoutInit, WalletIndexExact, VerificationAgrees
    <3> QED
      BY <3>2, <3>3 DEF ScoutInv
  <2>2. FeeInit => FeeTypeOK
    BY FeeConstants DEF FeeInit, FeeTypeOK, Calls
  <2> QED
    BY <2>1, <2>2 DEF Init
<1>2. ScoutInv /\ FeeTypeOK /\ [Next]_vars => ScoutInv' /\ FeeTypeOK'
  <2> SUFFICES ASSUME ScoutInv, FeeTypeOK, [Next]_vars
               PROVE  ScoutInv' /\ FeeTypeOK'
    OBVIOUS
  <2>1. CASE AccessNext
    <3>1. UNCHANGED <<feeVars, scoutVars>>
      BY <2>1, AccessLeavesSchedule
    <3> QED
      BY <3>1, OthersKeepScouts, StepKeepsTypes
  <2>2. CASE (FeeNext \/ FeeTick) /\ UNCHANGED <<scoutVars, accessVars>>
    BY <2>2, OthersKeepScouts, StepKeepsTypes
  <2>3. CASE ScoutNext /\ UNCHANGED <<feeVars, accessVars>>
    <3>1. now \in Nat
      BY FeeConstants DEF FeeTypeOK
    <3> QED
      BY <2>3, <3>1, StepKeepsScouts, StepKeepsTypes
  <2>4. CASE UNCHANGED vars
    BY <2>4, OthersKeepScouts, StepKeepsTypes DEF vars
  <2> QED
    BY <2>1, <2>2, <2>3, <2>4 DEF Next
<1> QED
  BY <1>1, <1>2, PTL DEF Spec, ScoutInv

\* The live count is the number of profiles, until a registration takes a
\* replayed id and counts it again.
ScoutsLive == {id \in ScoutId : scout[id] # NONE}
LiveScoutsCounted == replacedScouts = {} => liveScoutCount = Cardinality(ScoutsLive)

LEMMA ScoutsLiveFinite == IsFiniteSet(ScoutsLive) /\ Cardinality(ScoutsLive) \in Nat
<1>1. IsFiniteSet(ScoutId)
  BY FS_Interval, ScoutConstants DEF ScoutId
<1>2. IsFiniteSet(ScoutsLive)
  BY <1>1, FS_Subset DEF ScoutsLive
<1> QED
  BY <1>2, FS_CardinalityType

\* Registration, replay, tickets and erasure move the counter with the profiles.
LEMMA StepCountsScouts ==
  ASSUME ScoutInv, LiveScoutsCounted, ScoutNext
  PROVE  LiveScoutsCounted'
<1> SUFFICES ASSUME replacedScouts' = {}
             PROVE  liveScoutCount' = Cardinality(ScoutsLive')
  BY DEF LiveScoutsCounted
<1>1. ASSUME NEW w \in Scouts, NEW id \in ScoutId, NEW verified \in BOOLEAN,
             replacedScouts = {}, scout[id] = NONE, WriteScout(w, id, verified)
      PROVE  liveScoutCount' = Cardinality(ScoutsLive')
  <2> DEFINE new == [wallet |-> w, verified |-> verified,
                     verification |-> IF verified THEN "verified" ELSE "never"]
  <2>1. scout' = [scout EXCEPT ![id] = new] /\ liveScoutCount' = liveScoutCount + 1
    BY <1>1 DEF WriteScout, IncrementLiveScoutCount
  <2>2. new # NONE
    BY ScoutConstants DEF ScoutProfile, ScoutVerificationRecord
  <2> HIDE DEF new
  <2>3. \A i \in ScoutId : scout'[i] = IF i = id THEN new ELSE scout[i]
    BY <2>1 DEF ScoutInv, ScoutTypeOK
  <2>4. ScoutsLive' = ScoutsLive \cup {id}
    BY <2>2, <2>3 DEF ScoutsLive
  <2>5. id \notin ScoutsLive
    BY <1>1 DEF ScoutsLive
  <2>6. Cardinality(ScoutsLive') = Cardinality(ScoutsLive) + 1
    BY <2>4, <2>5, ScoutsLiveFinite, FS_AddElement
  <2> QED
    BY <1>1, <2>1, <2>6 DEF LiveScoutsCounted
<1>2. CASE \E w \in Scouts : RegisterScout(w)
  <2>1. PICK w \in Scouts : RegisterScout(w)
    BY <1>2
  <2>2. /\ NextScoutId \in ScoutId /\ WriteScout(w, NextScoutId, FALSE)
        /\ replacedScouts' = IF scout[NextScoutId] = NONE THEN replacedScouts
                             ELSE replacedScouts \cup {NextScoutId}
    BY <2>1 DEF RegisterScout
  <2>3. scout[NextScoutId] = NONE /\ replacedScouts = {}
    BY <2>2
  <2> QED
    BY <1>1, <2>2, <2>3
<1>3. CASE \E w \in Scouts, id \in ScoutId, verified \in BOOLEAN : SeedScout(w, id, verified)
  <2>1. PICK w \in Scouts, id \in ScoutId, verified \in BOOLEAN : SeedScout(w, id, verified)
    BY <1>3
  <2>2. scout[id] = NONE /\ WriteScout(w, id, verified) /\ replacedScouts' = replacedScouts
    BY <2>1 DEF SeedScout
  <2> QED
    BY <1>1, <2>2
<1>4. CASE \E id \in ScoutId : DeregisterScout(id)
  <2>1. PICK id \in ScoutId : DeregisterScout(id)
    BY <1>4
  <2>2. /\ scout[id] # NONE /\ scout' = [scout EXCEPT ![id] = NONE]
        /\ liveScoutCount' = IF liveScoutCount = 0 THEN 0 ELSE liveScoutCount - 1
        /\ replacedScouts = {}
    BY <2>1 DEF DeregisterScout
  <2>3. ScoutsLive' = ScoutsLive \ {id} /\ id \in ScoutsLive
    BY <2>2 DEF ScoutInv, ScoutTypeOK, ScoutsLive
  <2>4. Cardinality(ScoutsLive') = Cardinality(ScoutsLive) - 1
    BY <2>3, ScoutsLiveFinite, FS_RemoveElement
  <2>5. Cardinality(ScoutsLive) # 0
    BY <2>3, ScoutsLiveFinite, FS_EmptySet
  <2> QED
    BY <2>2, <2>4, <2>5, ScoutsLiveFinite DEF LiveScoutsCounted
<1>5. ASSUME ScoutsLive' = ScoutsLive, UNCHANGED <<liveScoutCount, replacedScouts>>
      PROVE  liveScoutCount' = Cardinality(ScoutsLive')
  BY <1>5 DEF LiveScoutsCounted
<1>6. CASE \E id \in ScoutId : DeactivateScout(id) \/ ReactivateScout(id)
  <2>1. UNCHANGED <<scout, liveScoutCount, replacedScouts>>
    BY <1>6 DEF DeactivateScout, ReactivateScout, SetFlag
  <2> QED
    BY <1>5, <2>1 DEF ScoutsLive
<1>7. CASE \E id \in ScoutId : VerifyScout(id) \/ UnverifyScout(id)
  <2>1. PICK id \in ScoutId : VerifyScout(id) \/ UnverifyScout(id)
    BY <1>7
  <2>2. PICK verified \in BOOLEAN, record \in {"verified", "revoked"} :
          /\ scout[id] # NONE /\ SetVerification(id, verified, record)
    BY <2>1 DEF VerifyScout, UnverifyScout
  <2> DEFINE new == [scout[id] EXCEPT !.verified = verified, !.verification = record]
  <2>3. /\ scout' = [scout EXCEPT ![id] = new]
        /\ UNCHANGED <<liveScoutCount, replacedScouts>>
    BY <2>2 DEF SetVerification, ScoutInv, ScoutTypeOK
  <2>4. scout[id] \in ScoutProfile
    BY <2>2 DEF ScoutInv, ScoutTypeOK
  <2>5. new # NONE
    BY <2>4, ScoutConstants DEF ScoutProfile, ScoutVerificationRecord
  <2> HIDE DEF new
  <2>6. ScoutsLive' = ScoutsLive
    BY <2>2, <2>3, <2>5 DEF ScoutInv, ScoutTypeOK, ScoutsLive
  <2> QED
    BY <1>5, <2>3, <2>6
<1>8. CASE \/ \E flag \in BOOLEAN : SetRegPaused(flag)
           \/ \E secs \in RegCooldowns : SetRegCooldown(secs)
  <2>1. UNCHANGED <<scout, liveScoutCount, replacedScouts>>
    BY <1>8 DEF SetRegPaused, SetRegCooldown, scoutProfiles
  <2> QED
    BY <1>5, <2>1 DEF ScoutsLive
<1>9. CASE \E w \in Scouts, id \in SeedScoutIds, verified \in BOOLEAN :
             AdminSeedScout(w, id, verified)
  BY <1>3, <1>9, ScoutConstants DEF AdminSeedScout
<1>10. CASE \E ticket \in ScoutTickets, id \in SeedScoutIds, verified \in BOOLEAN :
              RedeemMigrationScout(ticket, id, verified)
  <2>1. \A ticket \in ScoutTickets : ticket.wallet \in Scouts
    BY ScoutConstants DEF ScoutTicket
  <2> QED
    BY <1>3, <1>10, <2>1, ScoutConstants DEF RedeemMigrationScout
<1> QED
  BY <1>2, <1>4, <1>6, <1>7, <1>8, <1>9, <1>10 DEF ScoutNext

\* The count of a batch of all ids, each asked for twice, is the live count.
LEMMA BatchCountsScouts ==
  LET answer == GetScouts([i \in 1..(2 * MaxScoutId) |-> (i % MaxScoutId) + 1])
  IN  answer # NONE => Len(answer) = Cardinality(ScoutsLive)
<1> DEFINE twice == [i \in 1..(2 * MaxScoutId) |-> (i % MaxScoutId) + 1]
           hits == Filter(Once(twice), ScoutsLive)
           answer == GetScouts(twice)
<1> SUFFICES ASSUME answer # NONE
             PROVE  Len(answer) = Cardinality(ScoutsLive)
  OBVIOUS
<1>1. PICK s \in Seq(ScoutId) : s = twice /\ \A id \in ScoutId : Contains(s, id)
  BY TwiceAround, ScoutConstants, Zenon DEF ScoutId
<1> HIDE DEF twice
<1>2. twice \in Seq(ScoutId)
  BY <1>1
<1>3. \A id \in ScoutId : Contains(twice, id)
  BY <1>1
<1>4. Once(twice) \in Seq(ScoutId) /\ Distinct(Once(twice))
  BY <1>2, OnceType, OnceNoRepeats
<1>5. hits \in Seq(ScoutId) /\ Distinct(hits)
  BY <1>4, FilterType, FilterDistinct
<1>6. \A x : Contains(hits, x) <=> x \in ScoutsLive /\ Contains(twice, x)
  BY <1>2, <1>4, FilterEntries, OnceEntries
<1>7. {x \in ScoutId : Contains(hits, x)} = ScoutsLive
  BY <1>3, <1>6 DEF ScoutsLive
<1>8. Len(hits) = Cardinality(ScoutsLive) /\ Len(hits) \in Nat
  BY <1>5, <1>7, DistinctLength, LenProperties
<1>9. answer = [i \in DOMAIN hits |-> scout[hits[i]]]
  BY Zenon DEF GetScouts, ScoutsLive
<1>10. DOMAIN hits = 1..Len(hits)
  BY <1>5, LenProperties, Zenon
<1> HIDE DEF hits, answer
<1>11. answer \in [1..Len(hits) -> {scout[i] : i \in DOMAIN scout} \cup {scout[hits[i]] : i \in 1..Len(hits)}]
  BY <1>9, <1>10
<1> QED
  BY <1>8, <1>11, FunctionIsList

\* Whatever scouts, admins and migration tickets do, until a registration takes
\* a replayed id: wallets and profiles name each other, the capacity check and
\* the batch reader count the profiles there are, no absent profile is hidden,
\* and always the two copies of the verification agree.
THEOREM ScoutsStayConsistent == Spec => []ScoutsAreConsistent
<1>1. Init => LiveScoutsCounted
  <2> SUFFICES ASSUME Init
               PROVE  liveScoutCount = Cardinality(ScoutsLive)
    BY DEF LiveScoutsCounted
  <2>1. ScoutsLive = {} /\ liveScoutCount = 0
    BY DEF Init, ScoutInit, ScoutsLive
  <2> QED
    BY <2>1, FS_EmptySet
<1>2. ScoutInv /\ LiveScoutsCounted /\ [Next]_vars => LiveScoutsCounted'
  <2> SUFFICES ASSUME ScoutInv, LiveScoutsCounted, [Next]_vars
               PROVE  LiveScoutsCounted'
    OBVIOUS
  <2>1. ASSUME UNCHANGED scoutVars
        PROVE  LiveScoutsCounted'
    BY <2>1 DEF scoutVars, scoutProfiles, LiveScoutsCounted, ScoutsLive
  <2>2. ASSUME AccessNext
        PROVE  LiveScoutsCounted'
    BY <2>1, <2>2, AccessLeavesSchedule
  <2>3. ASSUME ScoutNext
        PROVE  LiveScoutsCounted'
    BY <2>3, StepCountsScouts
  <2> QED
    BY <2>1, <2>2, <2>3 DEF Next, vars
<1>3. ScoutInv /\ LiveScoutsCounted => ScoutsAreConsistent
  <2> SUFFICES ASSUME ScoutInv, LiveScoutsCounted
               PROVE  ScoutsAreConsistent
    OBVIOUS
  <2>1. {id \in ScoutId : GetScoutStatus(id) # "NotRegistered"} = ScoutsLive
    <3>1. \A id \in ScoutId : GetScoutStatus(id) # "NotRegistered" <=> scout[id] # NONE
      BY DEF GetScoutStatus
    <3> QED
      BY <3>1 DEF ScoutsLive
  <2>2. \A id \in ScoutId :
          GetScout(id) # NONE => GetScout(id).verified = (GetScoutVerification(id) = "verified")
    BY Zenon DEF ScoutInv, VerificationAgrees, GetScout, GetScoutVerification
  <2>3. ASSUME replacedScouts = {}
        PROVE  LET answer == GetScouts([i \in 1..(2 * MaxScoutId) |-> (i % MaxScoutId) + 1])
               IN answer # NONE => Len(answer) = GetScoutCount
    BY <2>3, BatchCountsScouts, Zenon DEF LiveScoutsCounted, GetScoutCount
  <2> QED
    BY <2>1, <2>2, <2>3, Zenon
       DEF ScoutsAreConsistent, ScoutInv, WalletIndexExact, LiveScoutsCounted, GetScoutCount
<1>4. Spec => []ScoutInv
  BY ScoutsAgree, PTL DEF ScoutInv
<1> QED
  BY <1>1, <1>2, <1>3, <1>4, PTL DEF Spec

----
(***************************************************************************)
(* What the operations on subscriptions, contacts and grants leave alone.   *)
(***************************************************************************)

\* A subscription is stored for s: the rest stays.
Stores(s, new) ==
  /\ WriteSubscription(s, new)
  /\ UNCHANGED <<feeVars, proContactCount, contactVars, grantVars, purged>>

\* It is a new period, or a replay of one that there was none for.
StoresPeriod(s, tier) ==
  ChangeAllowed(subscription[s], tier) /\ Stores(s, NewPeriod(tier))

StoresSeed(seed) ==
  subscription[seed.scout] = NONE /\ AdminSeedSubscription(seed) /\ Stores(seed.scout, seed.sub)

\* s contacts players it has not contacted before, each once.
NewContacts(s, order) ==
  /\ order \in Seq(Players) /\ Distinct(order)
  /\ \A p \in Players : Contains(order, p) =>
       TierMayContact(subscription[s].tier, p) /\ contactRecord[p][s] = NONE
  /\ Contact(s, order)

\* A grant that there is changes.
Regrants(p, s, grant) ==
  accessGrant[p][s] # NONE /\ grant # NONE /\ SetGrant(p, s, grant)

\* A renewal stores the tier there was: no downgrade.
LEMMA RenewalIsAllowed ==
  ASSUME NEW old \in Subscription
  PROVE  ChangeAllowed(old, old.tier)
<1>1. old \in Subscription => old.tier \in SubscriptionTier
  BY DEF Subscription
<1>2. TierRank[old.tier] \in Int
  BY <1>1 DEF SubscriptionTier, TierRank, Basic, Pro, Elite
<1> QED
  BY <1>2 DEF ChangeAllowed

\* A contact that is new is a list of one.
LEMMA OneContact ==
  ASSUME NEW p \in Players
  PROVE  /\ <<p>> \in Seq(Players) /\ Distinct(<<p>>)
         /\ \A x : Contains(<<p>>, x) <=> x = p
BY DEF Distinct, Contains

\* The players that a batch contacts are new, each named once.
LEMMA FreshContacts ==
  ASSUME NEW s \in Scouts, NEW ids \in Seq(Players)
  PROVE  /\ Fresh(s, ids) \in Seq(Players) /\ Distinct(Fresh(s, ids))
         /\ \A p \in Players : Contains(Fresh(s, ids), p) =>
              TierMayContact(subscription[s].tier, p) /\ contactRecord[p][s] = NONE
<1> DEFINE A == {p \in Players : /\ TierMayContact(subscription[s].tier, p)
                                 /\ contactRecord[p][s] = NONE}
<1>1. Fresh(s, ids) = Filter(Once(ids), A)
  BY DEF Fresh
<1>2. Once(ids) \in Seq(Players) /\ Distinct(Once(ids))
  BY OnceType, OnceNoRepeats
<1>3. \A p : p \in A => TierMayContact(subscription[s].tier, p) /\ contactRecord[p][s] = NONE
  OBVIOUS
<1> HIDE DEF A
<1>4. /\ Filter(Once(ids), A) \in Seq(Players) /\ Distinct(Filter(Once(ids), A))
      /\ \A p : Contains(Filter(Once(ids), A), p) => p \in A
  BY <1>2, FilterType, FilterDistinct, FilterEntries
<1> QED
  BY <1>1, <1>3, <1>4

\* Revoking, extending and reinstating keep a grant a grant.
LEMMA GrantChanges ==
  ASSUME NEW grant \in EvidenceAccessGrant, now \in Nat
  PROVE  /\ [grant EXCEPT !.revoked = TRUE] # NONE
         /\ [grant EXCEPT !.expires_at = now + EVIDENCE_ACCESS_GRANT_TTL_SECS] # NONE
         /\ [grant EXCEPT !.revoked = FALSE,
                          !.expires_at = now + EVIDENCE_ACCESS_GRANT_TTL_SECS] # NONE
         /\ [grant EXCEPT !.revoked = TRUE] \in EvidenceAccessGrant
         /\ [grant EXCEPT !.expires_at = now + EVIDENCE_ACCESS_GRANT_TTL_SECS]
              \in EvidenceAccessGrant
         /\ [grant EXCEPT !.revoked = FALSE,
                          !.expires_at = now + EVIDENCE_ACCESS_GRANT_TTL_SECS]
              \in EvidenceAccessGrant
<1> DEFINE end == now + EVIDENCE_ACCESS_GRANT_TTL_SECS
<1>1. end \in Nat /\ NONE \notin EvidenceAccessGrant
  BY SubscriptionConstants
<1> HIDE DEF end
<1>2. /\ [grant EXCEPT !.revoked = TRUE] \in EvidenceAccessGrant
      /\ [grant EXCEPT !.expires_at = end] \in EvidenceAccessGrant
      /\ [grant EXCEPT !.revoked = FALSE, !.expires_at = end] \in EvidenceAccessGrant
  BY <1>1 DEF EvidenceAccessGrant
<1> QED
  BY <1>1, <1>2, Zenon DEF end

AccessTypes ==
  /\ subscription \in [Scouts -> Subscription \cup {NONE}]
  /\ contactRecord \in [Players -> [Scouts -> Nat \cup {NONE}]]
  /\ accessGrant \in [Players -> [Scouts -> EvidenceAccessGrant \cup {NONE}]]
  /\ accessGrantCount \in [Players -> Nat]
  /\ accessGrantPage \in [Players -> [0..Cardinality(Scouts) -> Seq(Scouts)]]
  /\ scoutContacts \in [Scouts -> Seq(Players)]
  /\ playerContacts \in [Players -> Seq(Scouts)]
  /\ contactedInPeriod \in [Scouts -> SUBSET Players]

Idle == UNCHANGED <<feeVars, subscriptionVars, proContactCount, contactVars, grantVars, purged>>

\* Every operation stores a subscription, contacts new players, replays a
\* contact, changes a grant, purges a player, or leaves all of these alone.
LEMMA AccessCases ==
  ASSUME AccessNext, AccessTypes, now \in Nat
  PROVE  \/ \E s \in Scouts, tier \in SubscriptionTier : StoresPeriod(s, tier)
         \/ \E seed \in SeedSubscriptions : StoresSeed(seed)
         \/ \E s \in Scouts, order \in Seq(Players) : NewContacts(s, order)
         \/ \E s \in Scouts, p \in Players, time \in ContactTimes : AdminSeedContact(s, p, time)
         \/ \E p \in Players, s \in Scouts, grant \in EvidenceAccessGrant : Regrants(p, s, grant)
         \/ \E p \in Players : PurgePlayerData(p)
         \/ Idle
<1>1. ASSUME NEW s \in Scouts, NEW tier \in SubscriptionTier, Subscribe(s, tier)
      PROVE  StoresPeriod(s, tier)
  BY <1>1 DEF Subscribe, StoresPeriod, Stores
<1>2. ASSUME NEW s \in Scouts, NEW enabled \in BOOLEAN,
             SetAutoRenew(s, enabled) \/ AdminSeedAutoRenew(s, enabled)
      PROVE  Idle
  BY <1>2 DEF SetAutoRenew, AdminSeedAutoRenew, Idle
<1>3. ASSUME NEW s \in Scouts, RenewIfDue(s)
      PROVE  \E tier \in SubscriptionTier : StoresPeriod(s, tier)
  <2>1. subscription[s] \in Subscription
    BY <1>3 DEF AccessTypes, RenewIfDue
  <2>2. PICK tier \in SubscriptionTier : tier = subscription[s].tier
    BY <2>1 DEF Subscription
  <2>3. ChangeAllowed(subscription[s], tier)
    BY <2>1, <2>2, RenewalIsAllowed
  <2>4. Stores(s, NewPeriod(tier))
    BY <1>3, <2>2 DEF RenewIfDue, Stores
  <2> QED
    BY <2>3, <2>4 DEF StoresPeriod
<1>4. ASSUME NEW seed \in SeedSubscriptions, AdminSeedSubscription(seed)
      PROVE  StoresSeed(seed)
  BY <1>4 DEF AdminSeedSubscription, StoresSeed, Stores
<1>5. ASSUME NEW s \in Scouts, NEW ids \in Batches, BatchContactPlayers(s, ids)
      PROVE  \E order \in Seq(Players) : NewContacts(s, order)
  <2>1. ids \in Seq(Players) /\ Contact(s, Fresh(s, ids))
    BY <1>5, SubscriptionConstants DEF BatchContactPlayers
  <2>2. NewContacts(s, Fresh(s, ids)) /\ Fresh(s, ids) \in Seq(Players)
    BY <2>1, FreshContacts DEF NewContacts
  <2> QED
    BY <2>2
<1>6. ASSUME NEW s \in Scouts, NEW p \in Players, PayToContact(s, p)
      PROVE  \E order \in Seq(Players) : NewContacts(s, order)
  <2>1. /\ Contact(s, <<p>>) /\ contactRecord[p][s] = NONE
        /\ TierMayContact(subscription[s].tier, p)
    BY <1>6 DEF PayToContact
  <2>2. PICK order : order = <<p>>
    OBVIOUS
  <2>3. order \in Seq(Players) /\ Distinct(order) /\ \A x : Contains(order, x) <=> x = p
    BY <2>2, OneContact
  <2>4. NewContacts(s, order)
    BY <2>1, <2>2, <2>3 DEF NewContacts
  <2> QED
    BY <2>3, <2>4
<1>7. ASSUME NEW s \in Scouts, NEW p \in Players,
             \/ RenewEvidenceAccess(s, p) \/ AdminRevokeEvidenceAccess(p, s)
             \/ RevokeEvidenceAccess(p, s) \/ ReinstateEvidenceAccess(p, s)
      PROVE  \E grant \in EvidenceAccessGrant : Regrants(p, s, grant)
  <2>1. accessGrant[p][s] # NONE
    BY <1>7 DEF RenewEvidenceAccess, AdminRevokeEvidenceAccess, RevokeEvidenceAccess,
                ReinstateEvidenceAccess
  <2>2. PICK old \in EvidenceAccessGrant : old = accessGrant[p][s]
    BY <2>1 DEF AccessTypes
  <2>3. \/ SetGrant(p, s, [old EXCEPT !.revoked = TRUE])
        \/ SetGrant(p, s, [old EXCEPT !.expires_at = now + EVIDENCE_ACCESS_GRANT_TTL_SECS])
        \/ SetGrant(p, s, [old EXCEPT !.revoked = FALSE,
                                      !.expires_at = now + EVIDENCE_ACCESS_GRANT_TTL_SECS])
    BY <1>7, <2>2, Zenon DEF RenewEvidenceAccess, AdminRevokeEvidenceAccess,
                RevokeEvidenceAccess, ReinstateEvidenceAccess
  <2> QED
    BY <2>1, <2>2, <2>3, GrantChanges, Zenon DEF Regrants
<1>8. ASSUME NEW p \in Players, ReachEliteTier(p)
      PROVE  Idle
  BY <1>8 DEF ReachEliteTier, Switched, Idle
<1>9. ASSUME \/ PauseContract \/ UnpauseContract \/ PausePayToContact \/ UnpausePayToContact
             \/ SetRegistrationContract \/ SetProgressContract
      PROVE  Idle
  BY <1>9 DEF PauseContract, UnpauseContract, PausePayToContact, UnpausePayToContact,
              SetRegistrationContract, SetProgressContract, Switched, Idle
<1> QED
  BY <1>1, <1>2, <1>3, <1>4, <1>5, <1>6, <1>7, <1>8, <1>9 DEF AccessNext

\* Without one of those, neither the scouts, nor the schedule, nor the clock
\* change what they store.
Rest == UNCHANGED <<subscriptionVars, proContactCount, contactVars, grantVars, purged>>

\* What a step that is not one of this contract's own leaves alone.
LEMMA OtherSteps ==
  ASSUME [Next]_vars, ~AccessNext
  PROVE  /\ Rest /\ now' \in {now, now + 1}
         /\ migrationWindow # "never" => migrationWindow' # "never"
<1>1. ASSUME FeeNext
      PROVE  now' = now /\ (migrationWindow # "never" => migrationWindow' # "never")
  BY <1>1 DEF FeeNext, UpdateFeeConfig, ProposeFeeConfig, ActivateFeeConfig,
     CancelFeeConfigProposal, OpenMigrationWindow, CloseMigrationWindow, ChangeBy,
     AdminSeedFeeConfigHistory, AdminSeedFeeConfig
<1>2. ASSUME FeeTick
      PROVE  now' = now + 1 /\ migrationWindow' = migrationWindow
  BY <1>2 DEF FeeTick, Tick
<1>3. ASSUME UNCHANGED feeVars
      PROVE  now' = now /\ migrationWindow' = migrationWindow
  BY <1>3 DEF feeVars
<1>4. CASE FeeNext /\ UNCHANGED <<scoutVars, accessVars>>
  BY <1>1, <1>4 DEF accessVars, Rest
<1>5. CASE ScoutNext /\ UNCHANGED <<feeVars, accessVars>>
  BY <1>3, <1>5 DEF accessVars, Rest
<1>6. CASE FeeTick /\ UNCHANGED <<scoutVars, accessVars>>
  BY <1>2, <1>6 DEF accessVars, Rest
<1>7. CASE UNCHANGED vars
  BY <1>3, <1>7 DEF vars, accessVars, Rest
<1> QED
  BY <1>4, <1>5, <1>6, <1>7 DEF Next

\* The empty list.
LEMMA NoEntries ==
  ASSUME NEW S
  PROVE  << >> \in Seq(S) /\ Distinct(<< >>) /\ \A x : ~Contains(<< >>, x)
BY DEF Distinct, Contains

\* What is stored is a subscription.
LEMMA StoredIsSubscription ==
  ASSUME FeeTypeOK
  PROVE  /\ \A tier \in SubscriptionTier : NewPeriod(tier) \in Subscription
         /\ \A seed \in SeedSubscriptions : seed.scout \in Scouts /\ seed.sub \in Subscription
<1>1. now \in Nat /\ feeConfig.sub_duration_secs \in Nat
  BY FeeConstants DEF FeeTypeOK, FeeConfig
<1>2. now + feeConfig.sub_duration_secs \in Nat
  BY <1>1
<1> QED
  BY <1>1, <1>2, SubscriptionConstants DEF NewPeriod, Subscription

\* Every operation keeps these types.
LEMMA ContactKeepsTypes ==
  ASSUME AccessTypes, now \in Nat, NEW s \in Scouts, NEW order \in Seq(Players),
         NewContacts(s, order)
  PROVE  AccessTypes'
<1> DEFINE new == ToSet(order)
<1>1. new \subseteq Players
  BY DEF ToSet
<1>2. RecordContacts(s, order)
  BY DEF NewContacts, Contact
<1> HIDE DEF new
<1>3. contactRecord' \in [Players -> [Scouts -> Nat \cup {NONE}]]
  <2>1. contactRecord' = [p \in Players |->
          IF p \in new THEN [contactRecord[p] EXCEPT ![s] = now] ELSE contactRecord[p]]
    BY <1>2, Zenon DEF RecordContacts, new
  <2>2. \A p \in Players : [contactRecord[p] EXCEPT ![s] = now] \in [Scouts -> Nat \cup {NONE}]
    BY DEF AccessTypes
  <2> QED
    BY <2>1, <2>2 DEF AccessTypes
<1>4. accessGrant' \in [Players -> [Scouts -> EvidenceAccessGrant \cup {NONE}]]
  <2>1. accessGrant' = [p \in Players |->
          IF p \in new THEN [accessGrant[p] EXCEPT ![s] = NewGrant] ELSE accessGrant[p]]
    BY <1>2, Zenon DEF RecordContacts, new
  <2>2. NewGrant \in EvidenceAccessGrant
    BY SubscriptionConstants DEF NewGrant, EvidenceAccessGrant
  <2>3. \A p \in Players : [accessGrant[p] EXCEPT ![s] = NewGrant]
                             \in [Scouts -> EvidenceAccessGrant \cup {NONE}]
    BY <2>2 DEF AccessTypes
  <2> QED
    BY <2>1, <2>3 DEF AccessTypes
<1>5. accessGrantCount' \in [Players -> Nat]
  <2>1. accessGrantCount' = [p \in Players |->
          IF p \in new THEN accessGrantCount[p] + 1 ELSE accessGrantCount[p]]
    BY <1>2, Zenon DEF RecordContacts, new
  <2> QED
    BY <2>1 DEF AccessTypes
<1>6. accessGrantPage' \in [Players -> [0..Cardinality(Scouts) -> Seq(Scouts)]]
  <2>1. accessGrantPage' = [p \in Players |->
          IF p \in new THEN [accessGrantPage[p] EXCEPT ![PageOfNextGrant(p)] = Append(@, s)]
          ELSE accessGrantPage[p]]
    BY <1>2, Zenon DEF RecordContacts, new
  <2>2. ASSUME NEW f \in [0..Cardinality(Scouts) -> Seq(Scouts)], NEW i
        PROVE  [f EXCEPT ![i] = Append(@, s)] \in [0..Cardinality(Scouts) -> Seq(Scouts)]
    <3>1. \A j \in 0..Cardinality(Scouts) : Append(f[j], s) \in Seq(Scouts)
      OBVIOUS
    <3> QED
      BY <3>1
  <2>3. \A p \in Players : accessGrantPage[p] \in [0..Cardinality(Scouts) -> Seq(Scouts)]
    BY DEF AccessTypes
  <2> QED
    BY <2>1, <2>2, <2>3
<1>7. scoutContacts' \in [Scouts -> Seq(Players)]
  <2> DEFINE A == {p \in Players : ~Contains(scoutContacts[s], p)}
  <2>1. scoutContacts' = [scoutContacts EXCEPT ![s] = @ \o Filter(order, A)]
    BY <1>2 DEF RecordContacts
  <2> HIDE DEF A
  <2>2. Filter(order, A) \in Seq(Players)
    BY FilterType
  <2>3. scoutContacts[s] \o Filter(order, A) \in Seq(Players)
    BY <2>2 DEF AccessTypes
  <2> QED
    BY <2>1, <2>3 DEF AccessTypes
<1>8. playerContacts' \in [Players -> Seq(Scouts)]
  <2>1. playerContacts' = [p \in Players |->
          IF p \in new THEN AddNew(playerContacts[p], s) ELSE playerContacts[p]]
    BY <1>2, Zenon DEF RecordContacts, new
  <2>2. \A p \in Players : AddNew(playerContacts[p], s) \in Seq(Scouts)
    BY AddNewType DEF AccessTypes
  <2> QED
    BY <2>1, <2>2 DEF AccessTypes
<1>9. contactedInPeriod' \in [Scouts -> SUBSET Players]
  <2>1. contactedInPeriod' = [contactedInPeriod EXCEPT ![s] = @ \cup new]
    BY DEF NewContacts, Contact, new
  <2> QED
    BY <1>1, <2>1 DEF AccessTypes
<1>10. subscription' = subscription
  BY DEF NewContacts, Contact
<1> QED
  BY <1>3, <1>4, <1>5, <1>6, <1>7, <1>8, <1>9, <1>10 DEF AccessTypes

\* A replayed contact is well typed (admin_seed_contact).
LEMMA ReplayKeepsTypes ==
  ASSUME AccessTypes, NEW s \in Scouts, NEW p \in Players, NEW time \in ContactTimes,
         AdminSeedContact(s, p, time)
  PROVE  AccessTypes'
<1>1. time \in Nat
  BY SubscriptionConstants
<1>2. /\ contactRecord' = [contactRecord EXCEPT ![p][s] = time]
      /\ scoutContacts' = [scoutContacts EXCEPT ![s] = AddNew(@, p)]
      /\ playerContacts' = [playerContacts EXCEPT ![p] = AddNew(@, s)]
      /\ UNCHANGED <<subscription, contactedInPeriod, accessGrant, accessGrantPage,
                     accessGrantCount>>
  BY DEF AdminSeedContact, subscriptionVars, grantVars
<1>3. AddNew(scoutContacts[s], p) \in Seq(Players) /\ AddNew(playerContacts[p], s) \in Seq(Scouts)
  BY AddNewType DEF AccessTypes
<1>4. contactRecord' \in [Players -> [Scouts -> Nat \cup {NONE}]]
  BY <1>1, <1>2 DEF AccessTypes
<1>5. scoutContacts' \in [Scouts -> Seq(Players)] /\ playerContacts' \in [Players -> Seq(Scouts)]
  BY <1>2, <1>3 DEF AccessTypes
<1> QED
  BY <1>2, <1>4, <1>5 DEF AccessTypes

\* A subscription that is stored is well typed (subscribe, renew_if_due,
\* admin_seed_subscription).
LEMMA WriteKeepsTypes ==
  ASSUME AccessTypes, NEW s \in Scouts, NEW new \in Subscription, Stores(s, new)
  PROVE  AccessTypes'
<1>1. /\ subscription' = [subscription EXCEPT ![s] = new]
      /\ \/ contactedInPeriod' = contactedInPeriod
         \/ contactedInPeriod' = [contactedInPeriod EXCEPT ![s] = {}]
      /\ UNCHANGED <<contactRecord, scoutContacts, playerContacts, accessGrant,
                     accessGrantPage, accessGrantCount>>
  BY DEF Stores, WriteSubscription, contactVars, grantVars
<1>2. subscription' \in [Scouts -> Subscription \cup {NONE}]
  BY <1>1 DEF AccessTypes
<1>3. contactedInPeriod' \in [Scouts -> SUBSET Players]
  BY <1>1 DEF AccessTypes
<1> QED
  BY <1>1, <1>2, <1>3 DEF AccessTypes

\* Subscriptions, contacts and grants, their pages and their lists are of these
\* types in every reachable state.
THEOREM AccessTypesHold == Spec => []AccessTypes
<1>1. Init => AccessTypes
  <2> SUFFICES ASSUME Init
               PROVE  AccessTypes
    OBVIOUS
  <2>1. PICK none : none = << >> /\ none \in Seq(Scouts) /\ none \in Seq(Players)
    BY NoEntries, Zenon
  <2>2. /\ scoutContacts = [s \in Scouts |-> none]
        /\ playerContacts = [p \in Players |-> none]
        /\ accessGrantPage = [p \in Players |-> [i \in 0..Cardinality(Scouts) |-> none]]
    BY <2>1 DEF Init
  <2>3. /\ scoutContacts \in [Scouts -> Seq(Players)]
        /\ playerContacts \in [Players -> Seq(Scouts)]
        /\ accessGrantPage \in [Players -> [0..Cardinality(Scouts) -> Seq(Scouts)]]
    BY <2>1, <2>2
  <2> QED
    BY <2>3 DEF Init, AccessTypes
<1>2. FeeTypeOK /\ AccessTypes /\ [Next]_vars => AccessTypes'
  <2> SUFFICES ASSUME FeeTypeOK, AccessTypes, [Next]_vars
               PROVE  AccessTypes'
    OBVIOUS
  <2>1. now \in Nat
    BY FeeConstants DEF FeeTypeOK
  <2>2. ASSUME NEW s \in Scouts, NEW tier \in SubscriptionTier, StoresPeriod(s, tier)
        PROVE  AccessTypes'
    BY <2>2, StoredIsSubscription, WriteKeepsTypes DEF StoresPeriod
  <2>3. ASSUME NEW seed \in SeedSubscriptions, StoresSeed(seed)
        PROVE  AccessTypes'
    BY <2>3, StoredIsSubscription, WriteKeepsTypes DEF StoresSeed
  <2>4. ASSUME NEW s \in Scouts, NEW p \in Players, NEW grant \in EvidenceAccessGrant,
               Regrants(p, s, grant)
        PROVE  AccessTypes'
    <3>1. /\ accessGrant' = [accessGrant EXCEPT ![p][s] = grant]
          /\ UNCHANGED <<subscription, contactedInPeriod, contactRecord, scoutContacts,
                         playerContacts, accessGrantPage, accessGrantCount>>
      BY <2>4 DEF Regrants, SetGrant, subscriptionVars, contactVars
    <3>2. accessGrant' \in [Players -> [Scouts -> EvidenceAccessGrant \cup {NONE}]]
      BY <3>1 DEF AccessTypes
    <3> QED
      BY <3>1, <3>2 DEF AccessTypes
  <2>5. ASSUME NEW p \in Players, PurgePlayerData(p)
        PROVE  AccessTypes'
    <3>1. /\ playerContacts' = [playerContacts EXCEPT ![p] = << >>]
          /\ accessGrantCount' = [accessGrantCount EXCEPT ![p] = 0]
          /\ UNCHANGED <<subscription, contactedInPeriod, contactRecord, scoutContacts,
                         accessGrant, accessGrantPage>>
      BY <2>5 DEF PurgePlayerData, subscriptionVars
    <3>2. PICK none : none = << >> /\ none \in Seq(Scouts)
      BY NoEntries, Zenon
    <3>3. playerContacts' = [playerContacts EXCEPT ![p] = none]
      BY <3>1, <3>2
    <3>4. playerContacts' \in [Players -> Seq(Scouts)] /\ accessGrantCount' \in [Players -> Nat]
      BY <3>1, <3>2, <3>3 DEF AccessTypes
    <3> QED
      BY <3>1, <3>4 DEF AccessTypes
  <2>6. ASSUME Idle \/ Rest
        PROVE  AccessTypes'
    BY <2>6 DEF Idle, Rest, subscriptionVars, contactVars, grantVars, AccessTypes
  <2> QED
    BY <2>1, <2>2, <2>3, <2>4, <2>5, <2>6, AccessCases, OtherSteps, ContactKeepsTypes,
       ReplayKeepsTypes
<1> QED
  BY <1>1, <1>2, FeeScheduleTypeCorrect, ScheduleRunsByItself, PTL DEF Spec

----
(***************************************************************************)
(* The listings that are kept of subscriptions.                             *)
(***************************************************************************)

\* Each list f[k] holds, once, the members y of S with at[y] = k.
ListsWhere(f, K, S, at) ==
  \A k \in K : /\ f[k] \in Seq(S) /\ Distinct(f[k])
               /\ \A y \in S : Contains(f[k], y) <=> at[y] = k

\* x leaves the list of its old key, unless that is the new one, and joins the
\* list of the new key unless it is there.
Moved(f, K, S, x, old, new) ==
  LET cleared == IF old \notin K \/ old = new THEN f
                 ELSE [f EXCEPT ![old] = Filter(@, S \ {x})]
  IN [cleared EXCEPT ![new] = AddNew(@, x)]

\* Moving one member keeps the lists exact.
LEMMA MovedListsWhere ==
  ASSUME NEW K, NEW S, NEW f \in [K -> Seq(S)], NEW at, ListsWhere(f, K, S, at),
         NEW x \in S, NEW new \in K,
         NEW now2, \A y \in S : now2[y] = IF y = x THEN new ELSE at[y]
  PROVE  /\ Moved(f, K, S, x, at[x], new) \in [K -> Seq(S)]
         /\ ListsWhere(Moved(f, K, S, x, at[x], new), K, S, now2)
<1> DEFINE cleared == IF at[x] \notin K \/ at[x] = new THEN f
                      ELSE [f EXCEPT ![at[x]] = Filter(@, S \ {x})]
<1>1. \A k \in K : /\ f[k] \in Seq(S) /\ Distinct(f[k])
                   /\ \A y \in S : Contains(f[k], y) <=> at[y] = k
  BY DEF ListsWhere
<1>2. \A k \in K : /\ Filter(f[k], S \ {x}) \in Seq(S) /\ Distinct(Filter(f[k], S \ {x}))
                   /\ \A y : Contains(Filter(f[k], S \ {x}), y)
                              <=> y \in S \ {x} /\ Contains(f[k], y)
  BY <1>1, FilterType, FilterDistinct, FilterEntries
<1>3. PICK g : g = cleared
  OBVIOUS
<1>4. g \in [K -> Seq(S)]
  BY <1>2, <1>3
<1>5. \A k \in K : g[k] = IF at[x] = k /\ k # new THEN Filter(f[k], S \ {x}) ELSE f[k]
  BY <1>3
<1> HIDE DEF cleared
<1>6. \A k \in K : /\ g[k] \in Seq(S) /\ Distinct(g[k])
                   /\ \A y \in S : Contains(g[k], y)
                                    <=> at[y] = k /\ (y # x \/ k = new)
  <2> SUFFICES ASSUME NEW k \in K
               PROVE  /\ g[k] \in Seq(S) /\ Distinct(g[k])
                      /\ \A y \in S : Contains(g[k], y) <=> at[y] = k /\ (y # x \/ k = new)
    OBVIOUS
  <2>1. CASE at[x] = k /\ k # new
    <3>1. g[k] = Filter(f[k], S \ {x})
      BY <1>5, <2>1
    <3>2. /\ g[k] \in Seq(S) /\ Distinct(g[k])
          /\ \A y : Contains(g[k], y) <=> y \in S \ {x} /\ Contains(f[k], y)
      BY <1>2, <3>1, Zenon
    <3>3. \A y \in S : Contains(g[k], y) <=> at[y] = k /\ y # x
      BY <1>1, <3>2
    <3> QED
      BY <2>1, <3>2, <3>3
  <2>2. CASE ~(at[x] = k /\ k # new)
    <3>1. g[k] = f[k]
      BY <1>5, <2>2
    <3> QED
      BY <1>1, <2>2, <3>1, Zenon
  <2> QED
    BY <2>1, <2>2
<1>7. PICK h : h = [g EXCEPT ![new] = AddNew(@, x)]
  OBVIOUS
<1>8. h = Moved(f, K, S, x, at[x], new)
  BY <1>3, <1>7 DEF Moved, cleared
<1>9. /\ AddNew(g[new], x) \in Seq(S) /\ Distinct(AddNew(g[new], x))
      /\ \A y : Contains(AddNew(g[new], x), y) <=> Contains(g[new], y) \/ y = x
  BY <1>6, AddNewDistinct
<1>10. h \in [K -> Seq(S)] /\ h[new] = AddNew(g[new], x)
  BY <1>4, <1>7, <1>9
<1>11. \A k \in K \ {new} : h[k] = g[k]
  BY <1>4, <1>7
<1>12. ASSUME NEW k \in K
       PROVE  /\ h[k] \in Seq(S) /\ Distinct(h[k])
              /\ \A y \in S : Contains(h[k], y) <=> now2[y] = k
  <2>1. CASE k = new
    BY ZenonT(60), <1>6, <1>9, <1>10, <2>1
  <2>2. CASE k # new
    BY <1>6, <1>11, <2>2
  <2> QED
    BY <2>1, <2>2
<1> QED
  BY <1>8, <1>10, <1>12 DEF ListsWhere

\* The day and the tier under which a scout is listed.
DayAt == [s \in Scouts |-> IF subscription[s] = NONE THEN -1 ELSE Day(subscription[s].expires_at)]
TierAt == [s \in Scouts |-> IF subscription[s] = NONE THEN "none" ELSE subscription[s].tier]

ListingInv ==
  /\ subscription \in [Scouts -> Subscription \cup {NONE}]
  /\ tierSubscribers \in [SubscriptionTier -> Seq(Scouts)]
  /\ expiryBucket \in [Days -> Seq(Scouts)]
  /\ ListsWhere(tierSubscribers, SubscriptionTier, Scouts, TierAt)
  /\ ListsWhere(expiryBucket, Days, Scouts, DayAt)
  /\ \A s \in Scouts : subscription[s] # NONE => DayAt[s] \in Days

\* write_subscription moves the scout from the lists of its old record to
\* those of the new one.
LEMMA WriteKeepsListings ==
  ASSUME ListingInv, NEW s \in Scouts, NEW new \in Subscription, WriteSubscription(s, new)
  PROVE  ListingInv'
<1>1. new # NONE /\ new.tier \in SubscriptionTier /\ Day(new.expires_at) \in Days
  BY SubscriptionConstants DEF WriteSubscription, Subscription
<1>2. /\ subscription' = [subscription EXCEPT ![s] = new]
      /\ tierSubscribers' = TiersMoved(s, new) /\ expiryBucket' = BucketsMoved(s, new)
  BY DEF WriteSubscription
<1>3. subscription' \in [Scouts -> Subscription \cup {NONE}]
  BY <1>2 DEF ListingInv
<1>4. \A y \in Scouts : subscription'[y] = IF y = s THEN new ELSE subscription[y]
  BY <1>2 DEF ListingInv
<1>5. \A y \in Scouts : TierAt'[y] = IF y = s THEN new.tier ELSE TierAt[y]
  BY <1>1, <1>4 DEF TierAt
<1>6. \A y \in Scouts : DayAt'[y] = IF y = s THEN Day(new.expires_at) ELSE DayAt[y]
  BY <1>1, <1>4 DEF DayAt
<1>7. subscription[s] = NONE \/ subscription[s] \in Subscription
  BY DEF ListingInv
<1>8. TiersMoved(s, new) = Moved(tierSubscribers, SubscriptionTier, Scouts, s, TierAt[s], new.tier)
  <2>1. CASE subscription[s] = NONE
    <3>1. TierAt[s] \notin SubscriptionTier
      BY <2>1 DEF TierAt, SubscriptionTier, Basic, Pro, Elite
    <3> QED
      BY <2>1, <3>1, Zenon DEF TiersMoved, Moved
  <2>2. CASE subscription[s] # NONE
    <3>1. TierAt[s] = subscription[s].tier /\ subscription[s].tier \in SubscriptionTier
      BY <1>7, <2>2 DEF TierAt, Subscription
    <3> QED
      BY <2>2, <3>1, Zenon DEF TiersMoved, Moved, RemoveFromTierIndex, Unlisted
  <2> QED
    BY <2>1, <2>2
<1>9. BucketsMoved(s, new) = Moved(expiryBucket, Days, Scouts, s, DayAt[s], Day(new.expires_at))
  <2>1. CASE subscription[s] = NONE
    <3>1. DayAt[s] \notin Days
      BY <2>1 DEF DayAt, Days
    <3> QED
      BY <2>1, <3>1, Zenon DEF BucketsMoved, Moved
  <2>2. CASE subscription[s] # NONE
    <3>1. DayAt[s] = Day(subscription[s].expires_at) /\ DayAt[s] \in Days
      BY <2>2 DEF DayAt, ListingInv
    <3> QED
      BY <2>2, <3>1, Zenon DEF BucketsMoved, Moved, RemoveFromExpiryBucket, Unlisted
  <2> QED
    BY <2>1, <2>2
<1>10. /\ tierSubscribers' \in [SubscriptionTier -> Seq(Scouts)]
       /\ ListsWhere(tierSubscribers', SubscriptionTier, Scouts, TierAt')
  <2>1. PICK K, S : K = SubscriptionTier /\ S = Scouts
    OBVIOUS
  <2>2. /\ tierSubscribers \in [K -> Seq(S)] /\ ListsWhere(tierSubscribers, K, S, TierAt)
        /\ s \in S /\ new.tier \in K
        /\ \A y \in S : TierAt'[y] = IF y = s THEN new.tier ELSE TierAt[y]
    BY <1>1, <1>5, <2>1, Zenon DEF ListingInv
  <2> HIDE DEF ListingInv
  <2>3. PICK f, at, at2, k : f = tierSubscribers /\ at = TierAt /\ at2 = TierAt' /\ k = new.tier
    OBVIOUS
  <2>4. /\ f \in [K -> Seq(S)] /\ ListsWhere(f, K, S, at) /\ k \in K
        /\ \A y \in S : at2[y] = IF y = s THEN k ELSE at[y]
    BY <2>2, <2>3, Zenon
  <2>5. /\ Moved(f, K, S, s, at[s], k) \in [K -> Seq(S)]
        /\ ListsWhere(Moved(f, K, S, s, at[s], k), K, S, at2)
    BY <2>2, <2>4, MovedListsWhere
  <2> QED
    BY <1>2, <1>8, <2>1, <2>3, <2>5, Zenon
<1>11. /\ expiryBucket' \in [Days -> Seq(Scouts)]
       /\ ListsWhere(expiryBucket', Days, Scouts, DayAt')
  <2>1. PICK K, S : K = Days /\ S = Scouts
    OBVIOUS
  <2>2. /\ expiryBucket \in [K -> Seq(S)] /\ ListsWhere(expiryBucket, K, S, DayAt)
        /\ s \in S /\ Day(new.expires_at) \in K
        /\ \A y \in S : DayAt'[y] = IF y = s THEN Day(new.expires_at) ELSE DayAt[y]
    BY <1>1, <1>6, <2>1, Zenon DEF ListingInv
  <2> HIDE DEF ListingInv
  <2>3. PICK f, at, at2, k :
          f = expiryBucket /\ at = DayAt /\ at2 = DayAt' /\ k = Day(new.expires_at)
    OBVIOUS
  <2>4. /\ f \in [K -> Seq(S)] /\ ListsWhere(f, K, S, at) /\ k \in K
        /\ \A y \in S : at2[y] = IF y = s THEN k ELSE at[y]
    BY <2>2, <2>3, Zenon
  <2>5. /\ Moved(f, K, S, s, at[s], k) \in [K -> Seq(S)]
        /\ ListsWhere(Moved(f, K, S, s, at[s], k), K, S, at2)
    BY <2>2, <2>4, MovedListsWhere
  <2> QED
    BY <1>2, <1>9, <2>1, <2>3, <2>5, Zenon
<1>12. \A y \in Scouts : subscription'[y] # NONE => DayAt'[y] \in Days
  BY <1>1, <1>4, <1>6 DEF ListingInv
<1> QED
  BY <1>3, <1>10, <1>11, <1>12 DEF ListingInv

\* Readers see what the lists hold.
LEMMA ListsMembers ==
  ASSUME NEW S, NEW s \in Seq(S), Distinct(s), NEW M, M \in SUBSET S,
         \A x \in S : Contains(s, x) <=> x \in M
  PROVE  Lists(s, M)
<1>1. DOMAIN s = 1..Len(s) /\ \A i \in 1..Len(s) : s[i] \in S
  BY LenProperties, ElementOfSeq, Zenon
<1>2. IsInjective(s)
  BY <1>1 DEF Distinct, IsInjective
<1>3. ToSet(s) = {s[i] : i \in 1..Len(s)}
  BY <1>1, Zenon DEF ToSet
<1>4. \A x : x \in {s[i] : i \in 1..Len(s)} <=> Contains(s, x)
  BY DEF Contains
<1>5. {s[i] : i \in 1..Len(s)} = M
  BY <1>1, <1>4
<1> QED
  BY <1>2, <1>3, <1>5 DEF Lists

\* A day that comes before another is no later than it.
LEMMA DayMonotone ==
  ASSUME NEW a \in Nat, NEW b \in Nat, a <= b
  PROVE  Day(a) \in Nat /\ Day(b) \in Nat /\ Day(a) <= Day(b)
<1> DEFINE N == SECS_PER_DAY
<1>1. N \in Nat /\ N > 0
  BY SubscriptionConstants
<1>2. PICK q \in Nat, r \in Nat : q = a \div N /\ r = a % N /\ a = N * q + r /\ r < N
  <2> HIDE DEF N
  <2> QED
    BY <1>1
<1>3. PICK p \in Nat, t \in Nat : p = b \div N /\ t = b % N /\ b = N * p + t /\ t < N
  <2> HIDE DEF N
  <2> QED
    BY <1>1
<1>4. q <= p
  <2> HIDE DEF N
  <2> SUFFICES ASSUME p + 1 <= q PROVE FALSE
    OBVIOUS
  <2>1. N * (p + 1) <= N * q
    BY <1>1
  <2>2. N * (p + 1) = N * p + N
    BY <1>1
  <2> QED
    BY <1>1, <1>2, <1>3, <2>1, <2>2
<1> QED
  BY <1>2, <1>3, <1>4 DEF Day

\* The limit of a listing is at least 1.
LEMMA ClampType ==
  ASSUME NEW limit \in ListingLimits
  PROVE  Clamp(limit) \in Nat \ {0}
BY SubscriptionConstants DEF Clamp

\* Asking for what expires by a date returns each due subscription once, as
\* many as the limit lets through.
LEMMA ExpiringListed ==
  ASSUME ListingInv, NEW before \in ListingTimes, NEW limit \in ListingLimits
  PROVE  LET due == {s \in Scouts :
                       subscription[s] # NONE /\ subscription[s].expires_at <= before}
             answer == GetExpiringSubscriptions(before, limit)
         IN /\ IsInjective(answer) /\ ToSet(answer) \subseteq due
            /\ Len(answer) = (IF Cardinality(due) < Clamp(limit) THEN Cardinality(due)
                              ELSE Clamp(limit))
<1> DEFINE due == {s \in Scouts : subscription[s] # NONE /\ subscription[s].expires_at <= before}
           bucket(day) == IF day \in Days THEN expiryBucket[day] ELSE << >>
           read == [i \in 1..(Day(before) + 1) |-> bucket(i - 1)]
           found == Filter(FlattenSeq(read), due)
           answer == GetExpiringSubscriptions(before, limit)
<1>1. before \in Nat /\ Clamp(limit) \in Nat \ {0}
  BY SubscriptionConstants, ClampType
<1>2. PICK n \in Nat : n = Day(before) + 1 /\ n # 0
  BY <1>1, DayMonotone
<1>3. PICK none : none = << >> /\ none \in Seq(Scouts) /\ Distinct(none)
                  /\ \A x : ~Contains(none, x)
  BY NoEntries, Zenon
<1>4. \A day : bucket(day) = IF day \in Days THEN expiryBucket[day] ELSE none
  BY <1>3
<1>5. \A day : /\ bucket(day) \in Seq(Scouts) /\ Distinct(bucket(day))
               /\ \A s \in Scouts : Contains(bucket(day), s) <=> day \in Days /\ DayAt[s] = day
  <2> SUFFICES ASSUME NEW day
               PROVE  /\ bucket(day) \in Seq(Scouts) /\ Distinct(bucket(day))
                      /\ \A s \in Scouts : Contains(bucket(day), s)
                                             <=> day \in Days /\ DayAt[s] = day
    OBVIOUS
  <2>1. CASE day \in Days
    <3>1. bucket(day) = expiryBucket[day]
      BY <2>1
    <3> QED
      BY <2>1, <3>1, Zenon DEF ListingInv, ListsWhere
  <2>2. CASE day \notin Days
    <3>1. bucket(day) = none
      BY <1>4, <2>2
    <3> QED
      BY <1>3, <2>2, <3>1, Zenon
  <2> QED
    BY <2>1, <2>2
<1> HIDE DEF bucket
<1>6. PICK ss : ss = read
  OBVIOUS
<1>7. ss \in [1..n -> Seq(Scouts)] /\ \A i \in 1..n : ss[i] = bucket(i - 1)
  BY <1>2, <1>5, <1>6
<1> HIDE DEF read
<1>8. Disjoint(ss, n, Scouts)
  <2>1. \A k \in 1..n : Distinct(ss[k])
    BY <1>5, <1>7
  <2>2. ASSUME NEW k \in 1..n, NEW j \in 1..n, NEW x \in Scouts,
               Contains(ss[k], x), Contains(ss[j], x)
        PROVE  k = j
    <3>1. Contains(bucket(k - 1), x) /\ Contains(bucket(j - 1), x)
      BY <1>7, <2>2
    <3>2. DayAt[x] = k - 1 /\ DayAt[x] = j - 1
      BY <1>5, <3>1
    <3> QED
      BY <3>2
  <2> QED
    BY <2>1, <2>2 DEF Disjoint
<1>9. /\ FlattenSeq(ss) \in Seq(Scouts) /\ Distinct(FlattenSeq(ss))
      /\ \A x : Contains(FlattenSeq(ss), x) <=> \E k \in 1..n : Contains(ss[k], x)
  BY <1>2, <1>7, <1>8, FlattenDistinct, FlattenEntries
<1>10. ASSUME NEW s \in due
       PROVE  Contains(FlattenSeq(ss), s)
  <2>1. s \in Scouts /\ subscription[s] \in Subscription /\ subscription[s] # NONE
        /\ subscription[s].expires_at <= before
    BY DEF ListingInv
  <2>2. PICK e \in Nat : e = subscription[s].expires_at
    BY <2>1 DEF Subscription
  <2>3. DayAt[s] = Day(e) /\ DayAt[s] \in Days
    BY <2>1, <2>2 DEF DayAt, ListingInv
  <2>4. Day(e) \in Nat /\ Day(e) <= Day(before) /\ Day(before) \in Nat
    BY <1>1, <2>1, <2>2, DayMonotone
  <2>5. PICK k \in 1..n : k = Day(e) + 1
    BY <1>2, <2>4
  <2>6. ss[k] = bucket(Day(e))
    BY <1>7, <2>4, <2>5
  <2>7. Contains(ss[k], s)
    BY <1>5, <2>1, <2>3, <2>6
  <2> QED
    BY <1>9, <2>7
<1>11. PICK F \in Seq(Scouts) : F = found
  BY <1>6, <1>9, FilterType
<1>12. Distinct(F) /\ \A x : Contains(F, x) <=> x \in due
  <2> HIDE DEF due
  <2>1. Distinct(F) /\ \A x : Contains(F, x) <=> x \in due /\ Contains(FlattenSeq(ss), x)
    BY <1>6, <1>9, <1>11, FilterDistinct, FilterEntries
  <2> QED
    BY <1>10, <2>1
<1>13. {x \in Scouts : Contains(F, x)} = due
  BY <1>12
<1>14. Len(F) = Cardinality(due) /\ Len(F) \in Nat
  <2> HIDE DEF due
  <2> QED
    BY <1>12, <1>13, DistinctLength, LenProperties
<1>15. answer = Part(F, 0, Clamp(limit))
  <2>1. answer = SubSeq(found, 1, IF Len(found) < Clamp(limit) THEN Len(found) ELSE Clamp(limit))
    BY Zenon DEF GetExpiringSubscriptions, read, bucket
  <2> HIDE DEF found, answer
  <2>2. PICK c \in Nat, m \in Nat : c = Clamp(limit) /\ m = Len(F)
    BY <1>1, <1>14
  <2>3. Part(F, 0, c) = SubSeq(F, 1, IF c < m THEN c ELSE m)
    BY <2>2 DEF Part, PartEnd
  <2>4. (IF c < m THEN c ELSE m) = (IF m < c THEN m ELSE c)
    BY <2>2
  <2> QED
    BY <1>11, <2>1, <2>2, <2>3, <2>4, Zenon
<1>16. /\ answer \in Seq(Scouts) /\ Distinct(answer)
       /\ Len(answer) = IF Clamp(limit) < Len(F) THEN Clamp(limit) ELSE Len(F)
       /\ \A x : Contains(answer, x) => Contains(F, x)
  <2> HIDE DEF answer
  <2> QED
    BY <1>1, <1>12, <1>15, PartDistinct
<1>17. Lists(answer, {x \in Scouts : Contains(answer, x)})
  <2> HIDE DEF answer
  <2> QED
    BY <1>16, ListsMembers
<1> HIDE DEF due, answer
<1>18. IsInjective(answer) /\ ToSet(answer) \subseteq due
  BY <1>12, <1>16, <1>17 DEF Lists
<1>19. Len(answer) = IF Cardinality(due) < Clamp(limit) THEN Cardinality(due) ELSE Clamp(limit)
  BY <1>1, <1>14, <1>16
<1> QED
  BY <1>18, <1>19, Zenon DEF due, answer

\* Subscriptions are found where keepers and services look for them, through
\* every subscription, renewal, lapse, change of tier and replay.
THEOREM ListingsStayExact == Spec => []ListingsFollowSubscriptions
<1>1. Init => ListingInv
  <2> SUFFICES ASSUME Init
               PROVE  ListingInv
    OBVIOUS
  <2>1. PICK none : none = << >> /\ none \in Seq(Scouts) /\ Distinct(none)
                    /\ \A x : ~Contains(none, x)
    BY NoEntries, Zenon
  <2>2. /\ subscription = [s \in Scouts |-> NONE]
        /\ tierSubscribers = [t \in SubscriptionTier |-> none]
        /\ expiryBucket = [d \in Days |-> none]
    BY <2>1 DEF Init
  <2>3. \A s \in Scouts : TierAt[s] = "none" /\ DayAt[s] = -1
    BY <2>2 DEF TierAt, DayAt
  <2>4. "none" \notin SubscriptionTier /\ -1 \notin Days
    BY DEF SubscriptionTier, Basic, Pro, Elite, Days
  <2>5. ListsWhere(tierSubscribers, SubscriptionTier, Scouts, TierAt)
    BY <2>1, <2>2, <2>3, <2>4 DEF ListsWhere
  <2>6. ListsWhere(expiryBucket, Days, Scouts, DayAt)
    BY <2>1, <2>2, <2>3, <2>4 DEF ListsWhere
  <2> QED
    BY <2>1, <2>2, <2>5, <2>6 DEF ListingInv
<1>2. FeeTypeOK /\ AccessTypes /\ ListingInv /\ [Next]_vars => ListingInv'
  <2> SUFFICES ASSUME FeeTypeOK, AccessTypes, ListingInv, [Next]_vars
               PROVE  ListingInv'
    OBVIOUS
  <2>1. ASSUME UNCHANGED <<subscription, tierSubscribers, expiryBucket>>
        PROVE  ListingInv'
    BY <2>1 DEF ListingInv, TierAt, DayAt
  <2>2. now \in Nat
    BY FeeConstants DEF FeeTypeOK
  <2>3. ASSUME NEW s \in Scouts, NEW tier \in SubscriptionTier, StoresPeriod(s, tier)
        PROVE  ListingInv'
    BY <2>3, StoredIsSubscription, WriteKeepsListings DEF StoresPeriod, Stores
  <2>4. ASSUME NEW seed \in SeedSubscriptions, StoresSeed(seed)
        PROVE  ListingInv'
    BY <2>4, StoredIsSubscription, WriteKeepsListings DEF StoresSeed, Stores
  <2>5. ASSUME NEW s \in Scouts, NEW order, NewContacts(s, order)
        PROVE  ListingInv'
    BY <2>1, <2>5 DEF NewContacts, Contact
  <2>6. ASSUME NEW s \in Scouts, NEW p \in Players, NEW time, AdminSeedContact(s, p, time)
        PROVE  ListingInv'
    BY <2>1, <2>6 DEF AdminSeedContact, subscriptionVars
  <2>7. ASSUME NEW s \in Scouts, NEW p \in Players, NEW grant, Regrants(p, s, grant)
        PROVE  ListingInv'
    BY <2>1, <2>7 DEF Regrants, SetGrant, subscriptionVars
  <2>8. ASSUME NEW p \in Players, PurgePlayerData(p)
        PROVE  ListingInv'
    BY <2>1, <2>8 DEF PurgePlayerData, subscriptionVars
  <2>9. ASSUME Idle \/ Rest
        PROVE  ListingInv'
    BY <2>1, <2>9 DEF Idle, Rest, subscriptionVars
  <2> QED
    BY <2>2, <2>3, <2>4, <2>5, <2>6, <2>7, <2>8, <2>9, AccessCases, OtherSteps
<1>3. ListingInv => ListingsFollowSubscriptions
  <2> SUFFICES ASSUME ListingInv
               PROVE  ListingsFollowSubscriptions
    OBVIOUS
  <2>1. ASSUME NEW tier \in SubscriptionTier
        PROVE  Lists(GetSubscribersByTier(tier),
                     {s \in Scouts : subscription[s] # NONE /\ subscription[s].tier = tier})
    <3> DEFINE M == {s \in Scouts : subscription[s] # NONE /\ subscription[s].tier = tier}
    <3>1. \A s \in Scouts : TierAt[s] = tier <=> s \in M
      BY DEF TierAt, SubscriptionTier, Basic, Pro, Elite
    <3>2. /\ tierSubscribers[tier] \in Seq(Scouts) /\ Distinct(tierSubscribers[tier])
          /\ \A s \in Scouts : Contains(tierSubscribers[tier], s) <=> TierAt[s] = tier
      BY Zenon DEF ListingInv, ListsWhere
    <3>3. M \in SUBSET Scouts
      OBVIOUS
    <3> HIDE DEF M
    <3>4. Lists(tierSubscribers[tier], M)
      BY <3>1, <3>2, <3>3, ListsMembers
    <3> QED
      BY <3>4 DEF GetSubscribersByTier, M
  <2> QED
    BY <2>1, ExpiringListed, Zenon DEF ListingsFollowSubscriptions
<1> QED
  BY <1>1, <1>2, <1>3, FeeScheduleTypeCorrect, ScheduleRunsByItself, AccessTypesHold, PTL DEF Spec

----
(***************************************************************************)
(* The Pro quota.                                                           *)
(***************************************************************************)

\* What the counter of s and the contacts of its period have in common.  A
\* replayed subscription may end before it begins; like a Basic one, it is
\* then one that nobody was contacted under.
QuotaOf(s) ==
  /\ \A p \in contactedInPeriod[s] : contactRecord[p][s] # NONE
  /\ subscription[s] = NONE => proContactCount[s] = NONE /\ contactedInPeriod[s] = {}
  /\ subscription[s] # NONE =>
       /\ subscription[s].subscribed_at <= now
       /\ proContactCount[s] # NONE =>
            proContactCount[s].period_start <= subscription[s].subscribed_at
       /\ subscription[s].tier = Pro => CurrentCount(s) = Cardinality(contactedInPeriod[s])
       /\ \/ subscription[s].tier = Basic
          \/ subscription[s].expires_at < subscription[s].subscribed_at
          => CurrentCount(s) = 0 /\ contactedInPeriod[s] = {}

QuotaInv ==
  /\ proContactCount \in [Scouts -> ProContactPeriod \cup {NONE}]
  /\ \A s \in Scouts : QuotaOf(s)

\* A subscription that is stored begins the count anew, or goes on with it if
\* the subscription it replaces began in the same second.
LEMMA StoreKeepsQuota ==
  ASSUME AccessTypes, QuotaInv, now \in Nat,
         NEW s \in Scouts, NEW new \in Subscription, Stores(s, new),
         new.subscribed_at <= now,
         subscription[s] # NONE => /\ new.subscribed_at = now /\ new.expires_at >= now
                                   /\ ChangeAllowed(subscription[s], new.tier)
  PROVE  QuotaInv'
<1>1. /\ subscription' = [subscription EXCEPT ![s] = new]
      /\ contactedInPeriod' =
           IF subscription[s] # NONE /\ subscription[s].subscribed_at = new.subscribed_at
           THEN contactedInPeriod ELSE [contactedInPeriod EXCEPT ![s] = {}]
      /\ UNCHANGED <<now, proContactCount, contactRecord>>
  BY DEF Stores, WriteSubscription, feeVars, contactVars
<1>2. new # NONE /\ new.subscribed_at \in Nat /\ new.expires_at \in Nat
      /\ new.tier \in SubscriptionTier
  BY SubscriptionConstants DEF Subscription
<1>3. subscription'[s] = new /\ \A t \in Scouts \ {s} : subscription'[t] = subscription[t]
  BY <1>1 DEF AccessTypes
<1>4. \A t \in Scouts \ {s} : contactedInPeriod'[t] = contactedInPeriod[t]
  BY <1>1 DEF AccessTypes
<1>5. ASSUME NEW t \in Scouts \ {s}
      PROVE  QuotaOf(t)'
  BY <1>1, <1>3, <1>4 DEF QuotaInv, QuotaOf, CurrentCount
<1>6. QuotaOf(s) /\ (proContactCount[s] = NONE \/ proContactCount[s] \in ProContactPeriod)
  BY DEF QuotaInv
<1>7. Cardinality({}) = 0
  BY FS_EmptySet
<1>8. ASSUME subscription[s] = NONE
      PROVE  QuotaOf(s)'
  <2>1. proContactCount'[s] = NONE /\ contactedInPeriod'[s] = {}
    BY <1>1, <1>6, <1>8 DEF QuotaOf, AccessTypes
  <2>2. CurrentCount(s)' = 0
    BY <2>1 DEF CurrentCount
  <2> QED
    BY <1>1, <1>2, <1>3, <1>7, <2>1, <2>2 DEF QuotaOf
<1>9. ASSUME subscription[s] # NONE /\ subscription[s].subscribed_at # now
      PROVE  QuotaOf(s)'
  <2>1. contactedInPeriod'[s] = {}
    BY <1>1, <1>9 DEF AccessTypes
  <2>2. subscription[s].subscribed_at \in Nat /\ subscription[s].subscribed_at < now
    BY <1>6, <1>9 DEF QuotaOf, AccessTypes, Subscription
  <2>3. proContactCount[s] # NONE => proContactCount[s].period_start < now
                                     /\ proContactCount[s].period_start \in Nat
    BY <1>6, <1>9, <2>2 DEF QuotaOf, ProContactPeriod
  <2>4. CurrentCount(s)' = 0
    BY <1>1, <1>3, <1>9, <2>3 DEF CurrentCount
  <2> QED
    BY <1>1, <1>2, <1>3, <1>7, <1>9, <2>1, <2>3, <2>4 DEF QuotaOf
<1>10. ASSUME subscription[s] # NONE /\ subscription[s].subscribed_at = now
      PROVE  QuotaOf(s)'
  <2>1. contactedInPeriod' = contactedInPeriod
    BY <1>1, <1>10
  <2>2. CurrentCount(s)' = CurrentCount(s)
    BY <1>1, <1>3, <1>10 DEF CurrentCount
  <2>3. subscription[s].tier \in SubscriptionTier /\ subscription[s].expires_at \in Nat
    BY <1>10 DEF AccessTypes, Subscription
  <2>4. /\ new.tier = Pro => CurrentCount(s) = Cardinality(contactedInPeriod[s])
        /\ new.tier = Basic => CurrentCount(s) = 0 /\ contactedInPeriod[s] = {}
    <3>1. CASE subscription[s].expires_at < now
      BY <1>6, <1>7, <1>10, <3>1 DEF QuotaOf
    <3>2. CASE ~(subscription[s].expires_at < now)
      <4>1. now <= subscription[s].expires_at
        BY <2>3, <3>2
      <4>2. TierRank[new.tier] >= TierRank[subscription[s].tier]
        BY <1>10, <4>1 DEF ChangeAllowed
      <4>3. /\ new.tier = Pro => subscription[s].tier \in {Basic, Pro}
            /\ new.tier = Basic => subscription[s].tier = Basic
        BY <1>2, <2>3, <4>2 DEF TierRank, SubscriptionTier, Basic, Pro, Elite
      <4> QED
        BY <1>6, <1>7, <1>10, <4>3 DEF QuotaOf
    <3> QED
      BY <3>1, <3>2
  <2>5. ~(new.expires_at < new.subscribed_at)
    BY <1>2, <1>10
  <2>6. proContactCount'[s] # NONE => proContactCount'[s].period_start <= new.subscribed_at
    BY <1>1, <1>6, <1>10 DEF QuotaOf
  <2>7. \A p \in contactedInPeriod'[s] : contactRecord'[p][s] # NONE
    BY <1>1, <1>6, <2>1 DEF QuotaOf
  <2> QED
    BY <1>1, <1>2, <1>3, <1>10, <2>1, <2>2, <2>4, <2>5, <2>6, <2>7 DEF QuotaOf
<1>11. proContactCount' \in [Scouts -> ProContactPeriod \cup {NONE}]
  BY <1>1 DEF QuotaInv
<1> QED
  BY <1>5, <1>8, <1>9, <1>10, <1>11, Zenon DEF QuotaInv

\* The players of a list without repetitions are as many as it is long.
LEMMA OrderMembers ==
  ASSUME NEW order \in Seq(Players), Distinct(order)
  PROVE  /\ ToSet(order) \subseteq Players /\ IsFiniteSet(ToSet(order))
         /\ Cardinality(ToSet(order)) = Len(order)
         /\ \A p : p \in ToSet(order) <=> Contains(order, p)
<1>1. DOMAIN order = 1..Len(order) /\ \A i \in 1..Len(order) : order[i] \in Players
  BY LenProperties, ElementOfSeq, Zenon
<1>2. ToSet(order) = {order[i] : i \in 1..Len(order)}
  BY <1>1, Zenon DEF ToSet
<1>3. \A p : p \in {order[i] : i \in 1..Len(order)} <=> Contains(order, p)
  BY DEF Contains
<1>4. {order[i] : i \in 1..Len(order)} = {p \in Players : Contains(order, p)}
  BY <1>1, <1>3
<1>5. ToSet(order) = {p \in Players : Contains(order, p)}
  BY <1>2, <1>4, Zenon
<1> QED
  BY <1>2, <1>3, <1>5, DistinctLength, Zenon

\* Contacts raise the counter by as many players as join the period's.
LEMMA ContactKeepsQuota ==
  ASSUME AccessTypes, QuotaInv, now \in Nat, NEW s \in Scouts, NEW order \in Seq(Players),
         NewContacts(s, order)
  PROVE  QuotaInv'
<1> DEFINE new == ToSet(order)
<1>1. /\ new \subseteq Players /\ IsFiniteSet(new) /\ Cardinality(new) = Len(order)
      /\ \A p \in new : TierMayContact(subscription[s].tier, p) /\ contactRecord[p][s] = NONE
  BY OrderMembers DEF NewContacts
<1>2. Len(order) \in Nat
  BY LenProperties
<1>3. /\ UNCHANGED <<now, subscription>>
      /\ subscription[s] # NONE /\ subscription[s].expires_at >= now
      /\ BumpProQuota(s, Len(order))
      /\ contactedInPeriod' = [contactedInPeriod EXCEPT ![s] = @ \cup new]
  BY DEF NewContacts, Contact, ActiveSubscriber, feeVars
<1>4. contactRecord' = [p \in Players |->
        IF p \in new THEN [contactRecord[p] EXCEPT ![s] = now] ELSE contactRecord[p]]
  BY Zenon DEF NewContacts, Contact, RecordContacts
<1> HIDE DEF new
<1>5. now # NONE
  BY FeeConstants
<1>6. \A p \in Players, t \in Scouts :
        contactRecord'[p][t] = IF p \in new /\ t = s THEN now ELSE contactRecord[p][t]
  BY <1>4 DEF AccessTypes
<1>7. /\ contactedInPeriod'[s] = contactedInPeriod[s] \cup new
      /\ \A t \in Scouts \ {s} : contactedInPeriod'[t] = contactedInPeriod[t]
  BY <1>3 DEF AccessTypes
<1>8. subscription[s] \in Subscription /\ contactedInPeriod[s] \subseteq Players /\ QuotaOf(s)
      /\ (proContactCount[s] = NONE \/ proContactCount[s] \in ProContactPeriod)
  BY <1>3 DEF AccessTypes, QuotaInv
<1>9. PICK sub \in Subscription : sub = subscription[s]
  BY <1>8
<1>10. /\ sub.subscribed_at \in Nat /\ sub.expires_at \in Nat /\ sub.subscribed_at <= now
       /\ ~(sub.expires_at < sub.subscribed_at)
  BY <1>3, <1>8, <1>9 DEF QuotaOf, Subscription
<1>11. CurrentCount(s) \in Nat
  BY <1>8, <1>9 DEF CurrentCount, ProContactPeriod
<1>12. /\ sub.tier # Pro => proContactCount' = proContactCount
       /\ sub.tier = Pro => proContactCount' = [proContactCount EXCEPT ![s] =
            [period_start |-> sub.subscribed_at, count |-> CurrentCount(s) + Len(order)]]
  BY <1>3, <1>9 DEF BumpProQuota
<1>13. proContactCount' \in [Scouts -> ProContactPeriod \cup {NONE}]
  <2> DEFINE bumped == [period_start |-> sub.subscribed_at, count |-> CurrentCount(s) + Len(order)]
  <2>1. bumped \in ProContactPeriod
    BY <1>2, <1>10, <1>11 DEF ProContactPeriod
  <2> HIDE DEF bumped
  <2>2. proContactCount \in [Scouts -> ProContactPeriod \cup {NONE}]
    BY DEF QuotaInv
  <2> QED
    BY <1>12, <2>1, <2>2 DEF bumped
<1>14. \A t \in Scouts \ {s} : proContactCount'[t] = proContactCount[t]
  BY <1>12 DEF QuotaInv
<1>15. ASSUME NEW t \in Scouts \ {s}
       PROVE  QuotaOf(t)'
  <2>1. QuotaOf(t) /\ contactedInPeriod[t] \subseteq Players
    BY DEF QuotaInv, AccessTypes
  <2>2. \A p \in contactedInPeriod[t] : contactRecord'[p][t] = contactRecord[p][t]
    BY <1>6, <2>1
  <2>3. UNCHANGED <<now, subscription, contactedInPeriod[t], proContactCount[t], CurrentCount(t)>>
    BY <1>3, <1>7, <1>14 DEF CurrentCount
  <2> QED
    BY <2>1, <2>2, <2>3 DEF QuotaOf
<1>16. \A p \in contactedInPeriod'[s] : contactRecord'[p][s] # NONE
  BY <1>1, <1>5, <1>6, <1>7, <1>8 DEF QuotaOf
<1>17. ASSUME sub.tier = Pro
       PROVE  QuotaOf(s)'
  <2>1. proContactCount'[s] = [period_start |-> sub.subscribed_at,
                               count |-> CurrentCount(s) + Len(order)]
    BY <1>12, <1>17 DEF QuotaInv
  <2>2. proContactCount'[s] # NONE
    BY <1>2, <1>10, <1>11, <2>1, SubscriptionConstants DEF ProContactPeriod
  <2>3. CurrentCount(s)' = CurrentCount(s) + Len(order)
    BY <1>3, <1>9, <2>1, <2>2 DEF CurrentCount
  <2>4. IsFiniteSet(contactedInPeriod[s]) /\ contactedInPeriod[s] \cap new = {}
    BY <1>1, <1>8, FS_Subset, SubscriptionConstants DEF QuotaOf
  <2>5. /\ Cardinality(contactedInPeriod[s] \cup new) =
             Cardinality(contactedInPeriod[s]) + Cardinality(new)
             - Cardinality(contactedInPeriod[s] \cap new)
        /\ Cardinality({}) = 0
    BY <1>1, <2>4, FS_Union, FS_EmptySet
  <2>6. CurrentCount(s) = Cardinality(contactedInPeriod[s])
    BY <1>8, <1>9, <1>17, <1>3 DEF QuotaOf
  <2>7. CurrentCount(s)' = Cardinality(contactedInPeriod'[s])
    <3>1. Cardinality(contactedInPeriod[s] \cap new) = 0
      BY <2>4, <2>5
    <3>2. Cardinality(contactedInPeriod[s] \cup new) = CurrentCount(s) + Len(order)
      BY <1>1, <1>2, <1>11, <2>5, <2>6, <3>1
    <3> QED
      BY <1>7, <2>3, <3>2, Zenon
  <2>8. Pro # Basic
    BY DEF Pro, Basic
  <2> QED
    BY <1>3, <1>9, <1>10, <1>16, <1>17, <2>1, <2>7, <2>8 DEF QuotaOf
<1>18. ASSUME sub.tier # Pro
       PROVE  QuotaOf(s)'
  <2>1. proContactCount' = proContactCount /\ CurrentCount(s)' = CurrentCount(s)
    BY <1>3, <1>12, <1>18 DEF CurrentCount
  <2>2. sub.tier = Basic => new = {}
    BY <1>1, <1>9 DEF TierMayContact
  <2>3. sub.tier = Basic => CurrentCount(s) = 0 /\ contactedInPeriod'[s] = {}
    BY <1>3, <1>7, <1>8, <1>9, <2>2 DEF QuotaOf
  <2>4. proContactCount'[s] # NONE => proContactCount'[s].period_start <= sub.subscribed_at
    BY <1>3, <1>8, <1>9, <2>1 DEF QuotaOf
  <2> QED
    BY <1>3, <1>9, <1>10, <1>16, <1>18, <2>1, <2>3, <2>4 DEF QuotaOf
<1> QED
  BY <1>13, <1>15, <1>17, <1>18, Zenon DEF QuotaInv

\* No replay is of a subscription that begins after the replay.
ReplaysArePast ==
  [][\A seed \in SeedSubscriptions :
       AdminSeedSubscription(seed) => seed.sub.subscribed_at <= now]_vars

\* As long as no subscription is replayed that has yet to begin, a Pro scout's
\* counter is the number of players contacted since the subscription began
\* (subscribe, renew_if_due, pay_to_contact, batch_contact_players).
THEOREM QuotaStaysExact == Spec /\ ReplaysArePast => []QuotaCountsContacts
<1>1. Init => QuotaInv
  BY DEF Init, QuotaInv, QuotaOf
<1>2. FeeTypeOK /\ AccessTypes /\ QuotaInv /\ [Next]_vars
        /\ [\A seed \in SeedSubscriptions :
              AdminSeedSubscription(seed) => seed.sub.subscribed_at <= now]_vars
      => QuotaInv'
  <2> SUFFICES ASSUME FeeTypeOK, AccessTypes, QuotaInv, [Next]_vars,
                      [\A seed \in SeedSubscriptions :
                         AdminSeedSubscription(seed) => seed.sub.subscribed_at <= now]_vars
               PROVE  QuotaInv'
    OBVIOUS
  <2>1. now \in Nat /\ feeConfig.sub_duration_secs \in Nat
    BY FeeConstants DEF FeeTypeOK, FeeConfig
  <2>2. ASSUME NEW s \in Scouts, NEW tier \in SubscriptionTier, StoresPeriod(s, tier)
        PROVE  QuotaInv'
    <3>1. PICK new \in Subscription : new = NewPeriod(tier)
      BY StoredIsSubscription
    <3>2. /\ new.subscribed_at = now /\ new.tier = tier
          /\ new.expires_at = now + feeConfig.sub_duration_secs
      BY <3>1 DEF NewPeriod
    <3>3. new.subscribed_at <= now /\ new.expires_at >= now
      BY <2>1, <3>2
    <3>4. Stores(s, new) /\ ChangeAllowed(subscription[s], new.tier)
      BY <2>2, <3>1, <3>2 DEF StoresPeriod
    <3> QED
      BY <2>1, <3>2, <3>3, <3>4, StoreKeepsQuota
  <2>3. ASSUME NEW seed \in SeedSubscriptions, StoresSeed(seed)
        PROVE  QuotaInv'
    <3>1. seed.scout \in Scouts /\ seed.sub \in Subscription
      BY StoredIsSubscription
    <3>2. /\ subscription[seed.scout] = NONE /\ Stores(seed.scout, seed.sub)
          /\ AdminSeedSubscription(seed)
      BY <2>3 DEF StoresSeed
    <3>3. vars' # vars
      <4>1. subscription'[seed.scout] = seed.sub /\ seed.sub # NONE
        BY <3>1, <3>2, SubscriptionConstants DEF Stores, WriteSubscription, AccessTypes
      <4> QED
        BY <3>2, <4>1 DEF vars, accessVars, subscriptionVars
    <3>4. seed.sub.subscribed_at <= now
      BY <3>2, <3>3
    <3> QED
      BY <2>1, <3>1, <3>2, <3>4, StoreKeepsQuota
  <2>4. ASSUME NEW s \in Scouts, NEW p \in Players, NEW time \in ContactTimes,
               AdminSeedContact(s, p, time)
        PROVE  QuotaInv'
    <3>1. /\ contactRecord' = [contactRecord EXCEPT ![p][s] = time]
          /\ UNCHANGED <<now, subscription, contactedInPeriod, proContactCount>>
      BY <2>4 DEF AdminSeedContact, subscriptionVars, feeVars
    <3>2. time # NONE
      BY SubscriptionConstants, FeeConstants
    <3>3. \A q \in Players, t \in Scouts : contactRecord[q][t] # NONE => contactRecord'[q][t] # NONE
      BY <3>1, <3>2 DEF AccessTypes
    <3>4. \A t \in Scouts : contactedInPeriod[t] \subseteq Players
      BY DEF AccessTypes
    <3> QED
      BY <3>1, <3>3, <3>4 DEF QuotaInv, QuotaOf, CurrentCount
  <2>5. ASSUME UNCHANGED <<now, subscription, contactedInPeriod, proContactCount, contactRecord>>
        PROVE  QuotaInv'
    BY <2>5 DEF QuotaInv, QuotaOf, CurrentCount
  <2>6. ASSUME NEW s \in Scouts, NEW p \in Players, NEW grant, Regrants(p, s, grant)
        PROVE  QuotaInv'
    BY <2>5, <2>6 DEF Regrants, SetGrant, subscriptionVars, contactVars, feeVars
  <2>7. ASSUME NEW p \in Players, PurgePlayerData(p)
        PROVE  QuotaInv'
    BY <2>5, <2>7 DEF PurgePlayerData, subscriptionVars, feeVars
  <2>8. ASSUME Idle
        PROVE  QuotaInv'
    BY <2>5, <2>8 DEF Idle, subscriptionVars, contactVars, feeVars
  <2>9. ASSUME Rest, now' \in {now, now + 1}
        PROVE  QuotaInv'
    <3>1. UNCHANGED <<subscription, contactedInPeriod, proContactCount, contactRecord>>
      BY <2>9 DEF Rest, subscriptionVars, contactVars
    <3>2. \A s \in Scouts : subscription[s] # NONE => subscription[s].subscribed_at \in Nat
      BY DEF AccessTypes, Subscription
    <3> QED
      BY <2>1, <2>9, <3>1, <3>2 DEF QuotaInv, QuotaOf, CurrentCount
  <2> QED
    BY <2>1, <2>2, <2>3, <2>4, <2>6, <2>7, <2>8, <2>9, AccessCases, OtherSteps, ContactKeepsQuota
<1>3. QuotaInv => QuotaCountsContacts
  BY DEF QuotaInv, QuotaOf, QuotaCountsContacts, GetSubscription
<1> QED
  BY <1>1, <1>2, <1>3, FeeScheduleTypeCorrect, ScheduleRunsByItself, AccessTypesHold, PTL
     DEF Spec, ReplaysArePast

----
(***************************************************************************)
(* The two sides of a contact, and the grants it issues.                    *)
(***************************************************************************)

\* A list of exactly these members, each once.
Exactly(list, S, M) ==
  list \in Seq(S) /\ Distinct(list) /\ \A x \in S : Contains(list, x) <=> x \in M

Contacted(s) == {p \in Players : contactRecord[p][s] # NONE}
Contacting(p) == {s \in Scouts : contactRecord[p][s] # NONE}
Granted(p) == {s \in Scouts : accessGrant[p][s] # NONE}

\* The k-th page of a list, from 0, by N entries.
PageOf(list, k, N) == Part(list, k * N, k * N + N)

\* One page with an entry more.
Grown(pages, k, s) == [pages EXCEPT ![k] = Append(@, s)]

\* The pages of p hold the list, SIZE entries each.
Paged(p, list) ==
  \A i \in 0..Cardinality(Scouts) :
    accessGrantPage[p][i] = PageOf(list, i, ACCESS_GRANT_PAGE_SIZE)

\* One list of the scouts granted access to p stands behind the pages and the
\* count.
GrantList(p, list) ==
  /\ Exactly(list, Scouts, Granted(p))
  /\ Len(list) = accessGrantCount[p]
  /\ Paged(p, list)

ContactInv ==
  /\ \A s \in Scouts : Exactly(scoutContacts[s], Players, Contacted(s))
  /\ \A p \in Players \ purged :
       /\ Exactly(playerContacts[p], Scouts, Contacting(p))
       /\ \E list \in Seq(Scouts) : GrantList(p, list)
  /\ \A p \in Players : Granted(p) \subseteq Contacting(p)
  /\ migrationWindow = "never" => \A p \in Players : Contacting(p) \subseteq Granted(p)

\* A list of scouts without repetitions has no more entries than there are
\* scouts.
LEMMA ScoutsBound ==
  ASSUME NEW list \in Seq(Scouts), Distinct(list)
  PROVE  Len(list) \in Nat /\ Cardinality(Scouts) \in Nat /\ Len(list) <= Cardinality(Scouts)
<1> DEFINE E == {x \in Scouts : Contains(list, x)}
<1>1. Len(list) = Cardinality(E) /\ Len(list) \in Nat
  BY DistinctLength, LenProperties
<1>2. E \in SUBSET Scouts /\ IsFiniteSet(Scouts)
  BY SubscriptionConstants
<1> HIDE DEF E
<1> QED
  BY <1>1, <1>2, FS_Subset, FS_CardinalityType

\* One new member at the end.
LEMMA ExactlyAppend ==
  ASSUME NEW S, NEW list, NEW M, Exactly(list, S, M), NEW x \in S, x \notin M
  PROVE  Exactly(Append(list, x), S, M \cup {x})
<1>1. list \in Seq(S) /\ Distinct(list) /\ \A y \in S : Contains(list, y) <=> y \in M
  BY DEF Exactly
<1>2. Append(list, x) \in Seq(S) /\ Distinct(Append(list, x))
  BY <1>1, AppendDistinct, AppendProperties
<1>3. \A y : Contains(Append(list, x), y) <=> Contains(list, y) \/ y = x
  BY <1>1, AppendEntries
<1> QED
  BY <1>1, <1>2, <1>3 DEF Exactly

\* AddNew lists one more.
LEMMA ExactlyAddNew ==
  ASSUME NEW S, NEW list, NEW M, Exactly(list, S, M), NEW x \in S, x \notin M
  PROVE  Exactly(AddNew(list, x), S, M \cup {x})
<1>1. ~Contains(list, x)
  BY DEF Exactly
<1>2. AddNew(list, x) = Append(list, x)
  BY <1>1 DEF AddNew
<1> QED
  BY <1>2, ExactlyAppend

\* A list of new members at the end.
LEMMA ExactlyConcat ==
  ASSUME NEW S, NEW s, NEW t, NEW M, NEW N, Exactly(s, S, M), Exactly(t, S, N), M \cap N = {}
  PROVE  Exactly(s \o t, S, M \cup N)
<1>1. /\ s \in Seq(S) /\ Distinct(s) /\ \A x \in S : Contains(s, x) <=> x \in M
      /\ t \in Seq(S) /\ Distinct(t) /\ \A x \in S : Contains(t, x) <=> x \in N
  BY DEF Exactly
<1>2. s \o t \in Seq(S)
  BY <1>1
<1>3. \A x : Contains(s \o t, x) <=> Contains(s, x) \/ Contains(t, x)
  BY <1>1, ConcatEntries
<1>4. ASSUME NEW x \in S
      PROVE  Occurrences(s \o t, x) <= 1
  <2>1. Occurrences(s \o t, x) = Occurrences(s, x) + Occurrences(t, x)
    BY <1>1, OccurrencesConcat
  <2>2. /\ Occurrences(s, x) \in Nat /\ Occurrences(t, x) \in Nat
        /\ Occurrences(s, x) <= 1 /\ Occurrences(t, x) <= 1
    BY <1>1, OccurrencesDistinct, OccurrencesIn
  <2>3. ~Contains(s, x) \/ ~Contains(t, x)
    BY <1>1
  <2>4. Occurrences(s, x) = 0 \/ Occurrences(t, x) = 0
    BY <1>1, <2>3, OccurrencesNone
  <2> QED
    BY <2>1, <2>2, <2>4
<1>5. Distinct(s \o t)
  BY <1>2, <1>4, OccurrencesDistinct
<1> QED
  BY <1>1, <1>2, <1>3, <1>5 DEF Exactly

\* The page of an entry is found by division.
LEMMA WhichPage ==
  ASSUME NEW N \in Nat \ {0}, NEW n \in Nat, NEW k \in Nat
  PROVE  k * N <= n /\ n < k * N + N <=> k = n \div N
<1>1. N \in Nat /\ N > 0
  OBVIOUS
<1>2. PICK q \in Nat, r \in Nat : q = n \div N /\ r = n % N /\ n = N * q + r /\ r < N
  BY <1>1
<1>3. CASE k = q
  <2>1. k * N = N * q
    BY <1>3
  <2> QED
    BY <1>1, <1>2, <1>3, <2>1
<1>4. CASE k < q
  <2>1. PICK d \in Nat : q = k + 1 + d
    BY <1>4
  <2>2. N * q = k * N + N + N * d /\ N * d \in Nat
    BY <1>1, <2>1
  <2> QED
    BY <1>1, <1>2, <1>4, <2>2
<1>5. CASE q < k
  <2>1. PICK d \in Nat : k = q + 1 + d
    BY <1>5
  <2>2. k * N = N * q + N + N * d /\ N * d \in Nat
    BY <1>1, <2>1
  <2> QED
    BY <1>1, <1>2, <1>5, <2>2
<1> QED
  BY <1>2, <1>3, <1>4, <1>5

\* A grant more: the page chosen by the count before it is the one that the
\* list goes on with (grant_evidence_access).
LEMMA PagedAppend ==
  ASSUME NEW pages \in [0..Cardinality(Scouts) -> Seq(Scouts)], NEW list \in Seq(Scouts),
         NEW s \in Scouts, Cardinality(Scouts) \in Nat, Len(list) <= Cardinality(Scouts),
         NEW N \in Nat \ {0}, NEW k \in 0..Cardinality(Scouts),
         pages[k] = PageOf(list, k, N)
  PROVE  Grown(pages, Len(list) \div N, s)[k] = PageOf(Append(list, s), k, N)
<1>1. PICK n \in Nat : n = Len(list)
  BY LenProperties
<1>2. PICK q \in Nat : q = n \div N
  BY RemainderRange
<1>3. PICK a \in Nat : a = k * N
  OBVIOUS
<1>4. a <= n /\ n < a + N <=> k = q
  <2>1. k \in Nat
    OBVIOUS
  <2>2. k * N <= n /\ n < k * N + N <=> k = n \div N
    BY <2>1, WhichPage, Zenon
  <2> QED
    BY <1>2, <1>3, <2>2, Zenon
<1>5. PICK b \in Nat : b = a + N
  OBVIOUS
<1>6. /\ Part(Append(list, s), a, b) =
           IF a <= n /\ n < b THEN Append(Part(list, a, b), s) ELSE Part(list, a, b)
  BY <1>1, PartAppend
<1>7. [pages EXCEPT ![Len(list) \div N] = Append(@, s)][k]
        = IF k = q THEN Append(pages[k], s) ELSE pages[k]
  BY <1>1, <1>2
<1> QED
  BY <1>3, <1>4, <1>5, <1>6, <1>7, Zenon DEF Grown, PageOf

\* Contacts join both lists and get the last place on the player's pages.
LEMMA ContactKeepsContacts ==
  ASSUME AccessTypes, ContactInv, now \in Nat, NEW s \in Scouts, NEW order \in Seq(Players),
         NewContacts(s, order)
  PROVE  ContactInv'
<1> DEFINE new == ToSet(order)
<1>1. /\ new \subseteq Players /\ \A p : p \in new <=> Contains(order, p)
      /\ \A p \in new : contactRecord[p][s] = NONE
  BY OrderMembers DEF NewContacts
<1>2. order \in Seq(Players) /\ Distinct(order)
  BY DEF NewContacts
<1>3. RecordContacts(s, order) /\ UNCHANGED <<purged, migrationWindow>>
  BY DEF NewContacts, Contact, feeVars
<1>4. /\ contactRecord' = [p \in Players |->
           IF p \in new THEN [contactRecord[p] EXCEPT ![s] = now] ELSE contactRecord[p]]
      /\ playerContacts' = [p \in Players |->
           IF p \in new THEN AddNew(playerContacts[p], s) ELSE playerContacts[p]]
      /\ accessGrantPage' = [p \in Players |->
           IF p \in new THEN [accessGrantPage[p] EXCEPT ![PageOfNextGrant(p)] = Append(@, s)]
           ELSE accessGrantPage[p]]
      /\ accessGrantCount' = [p \in Players |->
           IF p \in new THEN accessGrantCount[p] + 1 ELSE accessGrantCount[p]]
      /\ accessGrant' = [p \in Players |->
           IF p \in new THEN [accessGrant[p] EXCEPT ![s] = NewGrant] ELSE accessGrant[p]]
  BY <1>3, Zenon DEF RecordContacts
<1>5. scoutContacts' = [scoutContacts EXCEPT ![s] =
        @ \o Filter(order, {p \in Players : ~Contains(scoutContacts[s], p)})]
  BY <1>3, Zenon DEF RecordContacts
<1> HIDE DEF new
<1>6. now # NONE /\ NewGrant # NONE
  <2>1. NewGrant \in EvidenceAccessGrant
    BY SubscriptionConstants DEF NewGrant, EvidenceAccessGrant
  <2> QED
    BY <2>1, FeeConstants, SubscriptionConstants
<1>7. \A p \in Players, t \in Scouts :
        contactRecord'[p][t] # NONE <=> contactRecord[p][t] # NONE \/ (p \in new /\ t = s)
  BY <1>4, <1>6 DEF AccessTypes
<1>8. \A p \in Players, t \in Scouts :
        accessGrant'[p][t] # NONE <=> accessGrant[p][t] # NONE \/ (p \in new /\ t = s)
  <2> SUFFICES ASSUME NEW p \in Players, NEW t \in Scouts
               PROVE  accessGrant'[p][t] # NONE
                        <=> accessGrant[p][t] # NONE \/ (p \in new /\ t = s)
    OBVIOUS
  <2>1. PICK g : g = NewGrant /\ g # NONE
    BY <1>6
  <2>2. accessGrant'[p] = IF p \in new THEN [accessGrant[p] EXCEPT ![s] = g] ELSE accessGrant[p]
    BY <1>4, <2>1, Zenon
  <2> QED
    BY <2>1, <2>2 DEF AccessTypes
<1>9. /\ \A p \in Players : p \in new => /\ Contacting(p)' = Contacting(p) \cup {s}
                                         /\ Granted(p)' = Granted(p) \cup {s}
                                         /\ s \notin Contacting(p)
      /\ \A p \in Players : p \notin new => /\ Contacting(p)' = Contacting(p)
                                            /\ Granted(p)' = Granted(p)
      /\ Contacted(s)' = Contacted(s) \cup new /\ Contacted(s) \cap new = {}
      /\ \A t \in Scouts : t # s => Contacted(t)' = Contacted(t)
  BY <1>1, <1>7, <1>8 DEF Contacting, Granted, Contacted
<1>10. ASSUME NEW t \in Scouts
       PROVE  Exactly(scoutContacts[t], Players, Contacted(t))'
  <2>1. CASE t # s
    <3>1. scoutContacts'[t] = scoutContacts[t]
      BY <1>5, <2>1 DEF AccessTypes
    <3> QED
      BY <1>9, <2>1, <3>1 DEF ContactInv
  <2>2. CASE t = s
    <3> DEFINE A == {p \in Players : ~Contains(scoutContacts[s], p)}
    <3>1. Exactly(scoutContacts[s], Players, Contacted(s))
      BY DEF ContactInv
    <3>2. Len(order) \in Nat /\ \A i \in 1..Len(order) : order[i] \in Players
      BY <1>2, LenProperties, ElementOfSeq
    <3>3. \A i \in 1..Len(order) : order[i] \in new
      BY <1>1 DEF Contains
    <3>4. \A p \in new : p \in A
      BY <1>1, <1>9, <3>1 DEF Exactly
    <3>5. scoutContacts'[s] = scoutContacts[s] \o Filter(order, A)
      BY <1>5 DEF AccessTypes
    <3> HIDE DEF A
    <3>6. Filter(order, A) = order
      BY <1>2, <3>3, <3>4, FilterAll
    <3>7. Exactly(order, Players, new)
      BY <1>1, <1>2 DEF Exactly
    <3>8. Exactly(scoutContacts[s] \o order, Players, Contacted(s) \cup new)
      BY <1>9, <3>1, <3>7, ExactlyConcat
    <3> QED
      BY <1>9, <2>2, <3>5, <3>6, <3>8, Zenon
  <2> QED
    BY <2>1, <2>2
<1>11. ASSUME NEW p \in Players, p \notin purged'
       PROVE  Exactly(playerContacts[p], Scouts, Contacting(p))'
  <2>1. Exactly(playerContacts[p], Scouts, Contacting(p))
    BY <1>3, <1>11 DEF ContactInv
  <2>2. CASE p \in new
    <3>1. playerContacts'[p] = AddNew(playerContacts[p], s)
      BY <1>4, <2>2
    <3>2. Exactly(AddNew(playerContacts[p], s), Scouts, Contacting(p) \cup {s})
      BY <1>9, <2>1, <2>2, ExactlyAddNew
    <3> QED
      BY <1>9, <2>2, <3>1, <3>2, Zenon
  <2>3. CASE p \notin new
    <3>1. playerContacts'[p] = playerContacts[p]
      BY <1>4, <2>3
    <3> QED
      BY <1>9, <2>1, <2>3, <3>1, Zenon
  <2> QED
    BY <2>2, <2>3
<1>12. ASSUME NEW p \in Players, p \notin purged'
       PROVE  \E list \in Seq(Scouts) : GrantList(p, list)'
  <2>1. PICK list \in Seq(Scouts) : GrantList(p, list)
    BY <1>3, <1>12 DEF ContactInv
  <2>2. Exactly(list, Scouts, Granted(p)) /\ Len(list) = accessGrantCount[p] /\ Paged(p, list)
    BY <2>1 DEF GrantList
  <2>3. CASE p \in new
    <3>1. s \notin Granted(p)
      BY <1>9, <2>3 DEF ContactInv
    <3>2. PICK next : next = Append(list, s) /\ next \in Seq(Scouts)
      BY AppendProperties, Zenon
    <3>3. Exactly(next, Scouts, Granted(p)')
      BY <1>9, <2>2, <2>3, <3>1, <3>2, ExactlyAppend
    <3>4. accessGrantCount'[p] = accessGrantCount[p] + 1
      BY <1>4, <2>3
    <3>5. Len(next) = accessGrantCount'[p]
      <4>1. Len(Append(list, s)) = Len(list) + 1
        BY AppendProperties, Zenon
      <4> QED
        BY <2>2, <3>2, <3>4, <4>1, Zenon
    <3>6. ASSUME NEW i \in 0..Cardinality(Scouts)
          PROVE  accessGrantPage'[p][i] = PageOf(next, i, ACCESS_GRANT_PAGE_SIZE)
      <4>1. /\ Cardinality(Scouts) \in Nat /\ Len(list) <= Cardinality(Scouts)
            /\ ACCESS_GRANT_PAGE_SIZE \in Nat \ {0}
        BY <2>2, ScoutsBound, SubscriptionConstants DEF Exactly
      <4>2. PICK N \in Nat \ {0} : N = ACCESS_GRANT_PAGE_SIZE
        BY <4>1
      <4>3. accessGrantPage'[p] = Grown(accessGrantPage[p], Len(list) \div N, s)
        BY <1>4, <2>2, <2>3, <4>2, Zenon DEF PageOfNextGrant, Grown
      <4>4. PICK f, g : f = accessGrantPage[p] /\ g = accessGrantPage'[p]
        OBVIOUS
      <4>5. f \in [0..Cardinality(Scouts) -> Seq(Scouts)]
        BY <4>4 DEF AccessTypes
      <4>6. f[i] = PageOf(list, i, N)
        BY <2>2, <4>2, <4>4, Zenon DEF Paged
      <4>7. g = Grown(f, Len(list) \div N, s)
        BY <4>3, <4>4, Zenon
      <4>8. Grown(f, Len(list) \div N, s)[i] = PageOf(Append(list, s), i, N)
        <5>1. \A h \in [0..Cardinality(Scouts) -> Seq(Scouts)], l \in Seq(Scouts) :
                Cardinality(Scouts) \in Nat /\ Len(l) <= Cardinality(Scouts)
                /\ h[i] = PageOf(l, i, N)
                => Grown(h, Len(l) \div N, s)[i] = PageOf(Append(l, s), i, N)
          BY PagedAppend
        <5> QED
          BY <4>1, <4>5, <4>6, <5>1, Zenon
      <4>9. g[i] = PageOf(Append(list, s), i, N)
        BY <4>7, <4>8, Zenon
      <4> QED
        BY <3>2, <4>2, <4>4, <4>9, Zenon
    <3>7. GrantList(p, next)'
      BY <3>3, <3>5, <3>6, Zenon DEF GrantList, Paged
    <3> QED
      BY <3>2, <3>7
  <2>4. CASE p \notin new
    <3>1. /\ accessGrantCount'[p] = accessGrantCount[p]
          /\ accessGrantPage'[p] = accessGrantPage[p]
          /\ Granted(p)' = Granted(p)
      BY <1>4, <1>9, <2>4
    <3>2. GrantList(p, list)'
      BY <2>2, <3>1, Zenon DEF GrantList, Paged
    <3> QED
      BY <3>2
  <2> QED
    BY <2>3, <2>4
<1>13. \A p \in Players : Granted(p)' \subseteq Contacting(p)'
  BY <1>9 DEF ContactInv
<1>14. migrationWindow' = "never" => \A p \in Players : Contacting(p)' \subseteq Granted(p)'
  BY <1>3, <1>9 DEF ContactInv
<1> QED
  BY <1>10, <1>11, <1>12, <1>13, <1>14, Zenon DEF ContactInv

\* A part of a part.
LEMMA PartOfPart ==
  ASSUME NEW S, NEW s \in Seq(S), NEW a \in Nat, NEW b \in Nat, NEW i \in Nat, NEW j \in Nat
  PROVE  Part(Part(s, a, b), i, j) = Part(s, a + i, IF a + j < b THEN a + j ELSE b)
<1>1. PICK n \in Nat : n = Len(s)
  BY LenProperties
<1>2. PICK e \in Nat : e = (IF a + j < b THEN a + j ELSE b)
  OBVIOUS
<1>3. PICK c \in Nat : c = a + i
  OBVIOUS
<1>4. PICK t \in Seq(S) : t = Part(s, a, b)
  BY PartType
<1>5. CASE b <= a \/ n <= a
  <2>1. t = << >> /\ Len(t) = 0
    BY <1>1, <1>4, <1>5, PartEmpty
  <2>2. 0 <= i
    OBVIOUS
  <2>3. Part(t, i, j) = << >>
    BY <2>1, <2>2, PartEmpty
  <2>4. e <= c \/ n <= c
    BY <1>2, <1>3, <1>5
  <2>5. Part(s, c, e) = << >>
    BY <1>1, <2>4, PartEmpty
  <2> QED
    BY <1>2, <1>3, <1>4, <2>3, <2>5, Zenon
<1>6. CASE a < b /\ a < n
  <2>1. PICK m \in Nat : m = (IF b < n THEN b ELSE n) - a
    BY <1>6
  <2>2. PartEnd(s, b) - a = m /\ a <= PartEnd(s, b)
    BY <1>1, <1>6, <2>1 DEF PartEnd
  <2>3. Len(t) = m /\ \A k \in 1..m : t[k] = s[a + k]
    BY SMTT(60), <1>4, <2>2, PartEntries
  <2>4. CASE m <= i \/ j <= i
    <3>1. Part(t, i, j) = << >>
      BY <2>3, <2>4, PartEmpty
    <3>2. e <= c \/ n <= c
      BY <1>2, <1>3, <1>6, <2>1, <2>4
    <3>3. Part(s, c, e) = << >>
      BY <1>1, <3>2, PartEmpty
    <3> QED
      BY <1>2, <1>3, <1>4, <3>1, <3>3, Zenon
  <2>5. CASE i < m /\ i < j
    <3>1. PICK d \in Nat : d = (IF j < m THEN j ELSE m) - i
      BY <2>5
    <3>2. PartEnd(t, j) - i = d /\ i <= PartEnd(t, j)
      BY <2>3, <2>5, <3>1 DEF PartEnd
    <3>3. /\ Part(t, i, j) \in Seq(S) /\ Len(Part(t, i, j)) = d
          /\ \A k \in 1..d : Part(t, i, j)[k] = t[i + k]
      BY <3>2, PartEntries
    <3>4. PartEnd(s, e) - c = d /\ c <= PartEnd(s, e)
      BY <1>1, <1>2, <1>3, <1>6, <2>1, <2>5, <3>1 DEF PartEnd
    <3>5. /\ Part(s, c, e) \in Seq(S) /\ Len(Part(s, c, e)) = d
          /\ \A k \in 1..d : Part(s, c, e)[k] = s[c + k]
      BY <3>4, PartEntries
    <3>6. ASSUME NEW k \in 1..d
          PROVE  t[i + k] = s[c + k]
      <4>1. i + k \in 1..m /\ a + (i + k) = c + k
        BY <1>3, <2>5, <3>1
      <4> QED
        BY <2>3, <4>1
    <3>7. PICK u \in Seq(S), v \in Seq(S) : u = Part(t, i, j) /\ v = Part(s, c, e)
      BY <3>3, <3>5
    <3>8. Len(u) = Len(v) /\ \A k \in 1..Len(u) : u[k] = v[k]
      BY <3>3, <3>5, <3>6, <3>7
    <3>9. u = v
      BY <3>8, SeqEqual
    <3> QED
      BY <1>2, <1>3, <1>4, <3>7, <3>9, Zenon
  <2> QED
    BY <2>1, <2>4, <2>5
<1> QED
  BY <1>1, <1>5, <1>6

\* Reading from a position on gives at least one entry more, or all there are
\* up to the end.
ReadsTo(p, list, position, end, e) ==
  /\ GrantsFrom(p, position, end) = Part(list, position, e)
  /\ position <= e /\ e <= end
  /\ position < end => position < e

\* Reading pages forward from a position ends somewhere (get_player_access_grants).
LEMMA GrantsRead ==
  ASSUME AccessTypes, NEW p \in Players, NEW list \in Seq(Scouts), GrantList(p, list),
         NEW position \in Nat, NEW end \in Nat, position <= end
  PROVE  \E e \in Nat : ReadsTo(p, list, position, end, e)
<1>1. /\ Distinct(list) /\ Cardinality(Scouts) \in Nat
      /\ Len(list) \in Nat /\ Len(list) <= Cardinality(Scouts)
  BY ScoutsBound DEF GrantList, Exactly
<1>2. PICK N \in Nat \ {0} : N = ACCESS_GRANT_PAGE_SIZE
  BY SubscriptionConstants
<1>3. PICK q \in Nat, r \in Nat : /\ q = position \div N /\ r = position % N
                                  /\ position = N * q + r /\ r < N
  <2>1. N \in Nat /\ N > 0
    OBVIOUS
  <2> QED
    BY <2>1
<1>4. PICK a \in Nat : a = q * N /\ position = a + r
  BY <1>3
<1>5. GrantPage(p, q) = Part(list, a, a + N)
  <2>1. DOMAIN accessGrantPage[p] = 0..Cardinality(Scouts)
    BY DEF AccessTypes
  <2>2. CASE q \in 0..Cardinality(Scouts)
    <3>1. accessGrantPage[p][q] = PageOf(list, q, N)
      BY <1>2, <2>2 DEF GrantList, Paged
    <3> QED
      BY <1>4, <2>1, <2>2, <3>1, Zenon DEF GrantPage, PageOf
  <2>3. CASE q \notin 0..Cardinality(Scouts)
    <3>1. Cardinality(Scouts) < q
      BY <1>1, <2>3
    <3>2. q <= a
      <4>1. PICK d \in Nat : N = d + 1
        OBVIOUS
      <4>2. q * N = q * d + q /\ q * d \in Nat
        BY <4>1
      <4> QED
        BY <1>4, <4>2
    <3>3. Len(list) <= a
      BY <1>1, <3>1, <3>2
    <3>4. PICK b \in Nat : b = a + N
      OBVIOUS
    <3>5. Part(list, a, b) = << >>
      BY <3>3, PartEmpty
    <3> QED
      BY <2>1, <2>3, <3>4, <3>5, Zenon DEF GrantPage
  <2> QED
    BY <2>2, <2>3
<1>6. PICK last \in Nat : last = r + (end - position) /\ a + last = end
  BY <1>4
<1>7. PICK b \in Nat : b = a + N
  OBVIOUS
<1>8. PICK e \in Nat : e = (IF a + last < b THEN a + last ELSE b)
  OBVIOUS
<1>9. GrantsFrom(p, position, end) = Part(GrantPage(p, q), r, last)
  BY <1>2, <1>3, <1>6, Zenon DEF GrantsFrom, Part, PartEnd
<1>10. Part(Part(list, a, b), r, last) = Part(list, a + r, e)
  BY <1>8, PartOfPart
<1>11. GrantsFrom(p, position, end) = Part(list, position, e)
  BY <1>4, <1>5, <1>7, <1>9, <1>10, Zenon
<1>12. position <= e /\ e <= end /\ (position < end => position < e)
  <2>1. position < b
    BY <1>3, <1>4, <1>7
  <2> QED
    BY <1>6, <1>8, <2>1
<1> QED
  BY <1>11, <1>12 DEF ReadsTo

\* The walk over the pages.
ReadOn(p, v, offset, end) == v \o GrantsFrom(p, offset + Len(v), end)

ReadsOn(f, p, offset, n) ==
  f[0] = << >> /\ \A i \in 1..n : f[i] = ReadOn(p, f[i - 1], offset, offset + n)

\* What one page adds to an answer is a list of scouts.
LEMMA ReadOnType ==
  ASSUME AccessTypes, NEW p \in Players, NEW v \in Seq(Scouts), NEW offset \in Nat, NEW end \in Nat
  PROVE  ReadOn(p, v, offset, end) \in Seq(Scouts)
<1>1. PICK position \in Nat : position = offset + Len(v)
  BY LenProperties
<1>2. PICK N \in Nat \ {0} : N = ACCESS_GRANT_PAGE_SIZE
  BY SubscriptionConstants
<1>3. PICK page \in Seq(Scouts) : page = GrantPage(p, position \div N)
  <2>1. << >> \in Seq(Scouts)
    OBVIOUS
  <2>2. \A i \in DOMAIN accessGrantPage[p] : accessGrantPage[p][i] \in Seq(Scouts)
    <3>1. PICK V, K : V = Seq(Scouts) /\ K = 0..Cardinality(Scouts)
      OBVIOUS
    <3>2. accessGrantPage[p] \in [K -> V]
      BY <3>1, Zenon DEF AccessTypes
    <3>3. \A i \in DOMAIN accessGrantPage[p] : accessGrantPage[p][i] \in V
      BY <3>2
    <3> QED
      BY <3>1, <3>3, Zenon
  <2> QED
    BY <2>1, <2>2, Zenon DEF GrantPage
<1>4. PICK i \in Nat : i = position % N
  <2>1. position % N \in 0..(N - 1)
    BY RemainderRange
  <2> QED
    BY <2>1
<1>5. PICK last \in Int : last = i + (end - position)
  OBVIOUS
<1>6. Len(page) \in Nat /\ \A k \in 1..Len(page) : page[k] \in Scouts
  BY LenProperties, ElementOfSeq
<1>7. PICK m \in Int, d \in Int : m = i + 1 /\ d = (IF last < Len(page) THEN last ELSE Len(page))
  BY <1>6
<1>8. \A k \in m..d : page[k] \in Scouts
  BY <1>6, <1>7
<1>9. SubSeq(page, m, d) \in Seq(Scouts)
  BY <1>8, SubSeqProperties
<1>10. GrantsFrom(p, position, end) = SubSeq(page, m, d)
  BY <1>2, <1>3, <1>4, <1>5, <1>7, Zenon DEF GrantsFrom
<1>11. PICK w \in Seq(Scouts) : w = SubSeq(page, m, d)
  BY <1>9
<1>12. v \o w \in Seq(Scouts)
  BY ConcatProperties
<1> QED
  BY <1>1, <1>10, <1>11, <1>12, Zenon DEF ReadOn

Walks(f, p, offset, limit, n) ==
  /\ ReadsOn(f, p, offset, n)
  /\ GetPlayerAccessGrants(p, offset, limit) = Filter(f[n], Granted(p))

\* The loop over the pages of grants is a function of the pages read.
LEMMA WalkExists ==
  ASSUME AccessTypes, NEW p \in Players, NEW offset \in Nat, NEW limit \in ListingLimits,
         NEW n \in Nat, n = Clamp(limit)
  PROVE  \E f \in [0..n -> Seq(Scouts)] : Walks(f, p, offset, limit, n)
<1>1. PICK V : V = Seq(Scouts)
  OBVIOUS
<1>2. PICK empty : empty = << >> /\ empty \in V
  BY <1>1, NoEntries, Zenon
<1>3. PICK end \in Nat : end = offset + n
  OBVIOUS
<1>4. \A v \in V : ReadOn(p, v, offset, end) \in V
  BY <1>1, ReadOnType
<1> DEFINE Step(f) == [i \in 0..n |-> IF i = 0 THEN empty ELSE ReadOn(p, f[i - 1], offset, end)]
<1>5. \E f \in [0..n -> V] : f = Step(f)
  <2> DEFINE G == [i \in 1..n |-> [v \in V |-> ReadOn(p, v, offset, end)]]
  <2>1. G \in [1..n -> [V -> V]]
    BY <1>4
  <2>2. \A i \in 1..n, v \in V : G[i][v] = ReadOn(p, v, offset, end)
    OBVIOUS
  <2> HIDE DEF G
  <2>3. PICK f \in [0..n -> V] : Iterates(f, n, empty, G)
    BY <1>2, <2>1, IterationExists
  <2>4. f[0] = empty /\ \A i \in 1..n : f[i] = ReadOn(p, f[i - 1], offset, end)
    BY <2>2, <2>3 DEF Iterates
  <2>5. f = Step(f)
    BY <2>4
  <2> QED
    BY <2>5
<1>6. PICK f : f = Step(f) /\ GetPlayerAccessGrants(p, offset, limit) = Filter(f[n], Granted(p))
  <2>1. \E f : f = Step(f)
    BY <1>5
  <2> DEFINE walk == CHOOSE f : f = Step(f)
  <2>2. walk = Step(walk)
    <3> HIDE DEF Step
    <3> QED
      BY <2>1, Zenon
  <2>3. GetPlayerAccessGrants(p, offset, limit) = Filter(walk[n], Granted(p))
    BY <1>2, <1>3, Zenon DEF GetPlayerAccessGrants, ReadOn, Granted
  <2> HIDE DEF walk
  <2> QED
    BY <2>2, <2>3, Zenon
<1>7. f[0] = empty /\ \A i \in 1..n : f[i] = ReadOn(p, f[i - 1], offset, end)
  <2>1. f = Step(f)
    BY <1>6, Zenon
  <2>2. f[0] = empty
    BY <2>1
  <2>3. \A i \in 1..n : f[i] = ReadOn(p, f[i - 1], offset, end)
    BY <2>1
  <2> QED
    BY <2>2, <2>3
<1>8. \A i \in 0..n : f[i] \in V
  <2> DEFINE Good == {i \in Nat : i <= n => f[i] \in V}
  <2>1. 0 \in Good
    BY <1>2, <1>7
  <2>2. ASSUME NEW i \in Nat, i \in Good
        PROVE  i + 1 \in Good
    BY <1>4, <1>7, <2>2
  <2>3. \A i \in Nat : i \in Good
    <3> HIDE DEF Good
    <3> QED
      BY <2>1, <2>2, InductionOnSet
  <2> QED
    BY <2>3
<1>9. f = [i \in 0..n |-> f[i]]
  BY <1>6
<1>10. f \in [0..n -> V]
  BY <1>8, <1>9
<1>11. ReadsOn(f, p, offset, n)
  BY <1>2, <1>3, <1>7, Zenon DEF ReadsOn
<1> QED
  BY <1>1, <1>6, <1>10, <1>11, Zenon DEF Walks

\* After i pages the walk has read the list up to e.
WalkedTo(v, list, offset, n, i, e) ==
  /\ v = Part(list, offset, e) /\ Len(v) = e - offset
  /\ offset <= e /\ e <= offset + n
  /\ offset + i <= e \/ Len(list) <= e

\* After its last page the loop has read the part of the list asked for.
LEMMA WalkReads ==
  ASSUME AccessTypes, NEW p \in Players, NEW list \in Seq(Scouts), GrantList(p, list),
         NEW offset \in Nat, NEW n \in Nat, NEW f, ReadsOn(f, p, offset, n)
  PROVE  f[n] = Part(list, offset, offset + n)
<1>1. f[0] = << >> /\ \A i \in 1..n : f[i] = ReadOn(p, f[i - 1], offset, offset + n)
  BY DEF ReadsOn
<1>2. PICK end \in Nat, len \in Nat : end = offset + n /\ len = Len(list)
  <2>1. PICK len \in Nat : len = Len(list)
    BY LenProperties
  <2>2. PICK end \in Nat : end = offset + n
    OBVIOUS
  <2> QED
    BY <2>1, <2>2, Zenon
<1> DEFINE Good == {i \in Nat : i <= n => \E e \in Nat : WalkedTo(f[i], list, offset, n, i, e)}
<1>3. 0 \in Good
  <2>1. Part(list, offset, offset) = << >> /\ Len(<< >>) = 0
    BY PartEmpty
  <2>2. f[0] = Part(list, offset, offset) /\ Len(f[0]) = offset - offset
    BY <1>1, <2>1
  <2>3. WalkedTo(f[0], list, offset, n, 0, offset)
    BY <2>2 DEF WalkedTo
  <2> QED
    BY <2>3
<1>4. ASSUME NEW i \in Nat, i \in Good
      PROVE  i + 1 \in Good
  <2> SUFFICES ASSUME i + 1 <= n
               PROVE  \E e \in Nat : WalkedTo(f[i + 1], list, offset, n, i + 1, e)
    OBVIOUS
  <2>1. PICK e \in Nat : WalkedTo(f[i], list, offset, n, i, e)
    BY <1>4
  <2>2. /\ f[i] = Part(list, offset, e) /\ Len(f[i]) = e - offset
        /\ offset <= e /\ e <= end /\ (offset + i <= e \/ len <= e)
    BY <1>2, <2>1 DEF WalkedTo
  <2>3. f[i + 1] = f[i] \o GrantsFrom(p, e, end)
    <3>1. i + 1 \in 1..n /\ (i + 1) - 1 = i
      OBVIOUS
    <3>2. f[i + 1] = ReadOn(p, f[i], offset, end)
      BY <1>1, <1>2, <3>1
    <3>3. offset + Len(f[i]) = e
      BY <2>2
    <3> QED
      BY <3>2, <3>3, Zenon DEF ReadOn
  <2>4. PICK d \in Nat : ReadsTo(p, list, e, end, d)
    BY <2>2, GrantsRead
  <2>5. /\ GrantsFrom(p, e, end) = Part(list, e, d)
        /\ e <= d /\ d <= end /\ (e < end => e < d)
    BY <2>4 DEF ReadsTo
  <2>6. f[i + 1] = Part(list, offset, d)
    <3>1. offset <= e /\ e <= d
      BY <2>2, <2>5
    <3>2. Part(list, offset, e) \o Part(list, e, d) = Part(list, offset, d)
      BY <3>1, PartsJoin
    <3> QED
      BY <2>2, <2>3, <2>5, <3>2, Zenon
  <2>7. CASE d <= len
    <3>1. PartEnd(list, d) = d
      BY <1>2, <2>7 DEF PartEnd
    <3>2. Len(f[i + 1]) = d - offset
      <4>1. offset <= PartEnd(list, d)
        BY <2>2, <2>5, <3>1
      <4>2. Len(Part(list, offset, d)) = PartEnd(list, d) - offset
        BY <4>1, PartEntries
      <4> QED
        BY <2>6, <3>1, <4>2, Zenon
    <3>3. offset + (i + 1) <= d \/ len <= d
      BY <1>2, <2>2, <2>5
    <3>4. WalkedTo(f[i + 1], list, offset, n, i + 1, d)
      BY <1>2, <2>2, <2>5, <2>6, <3>2, <3>3 DEF WalkedTo
    <3> QED
      BY <3>4
  <2>8. CASE len < d /\ e < len
    <3>1. /\ PartEnd(list, len) = len /\ offset <= PartEnd(list, len)
          /\ PartEnd(list, d) = len
      BY <1>2, <2>2, <2>8 DEF PartEnd
    <3>2. Part(list, offset, len) = Part(list, offset, d)
      BY <3>1 DEF Part
    <3>3. Len(Part(list, offset, len)) = len - offset
      <4>1. offset <= PartEnd(list, len)
        BY <3>1
      <4>2. Len(Part(list, offset, len)) = PartEnd(list, len) - offset
        BY <4>1, PartEntries
      <4> QED
        BY <3>1, <4>2, Zenon
    <3>4. WalkedTo(f[i + 1], list, offset, n, i + 1, len)
      BY <1>2, <2>2, <2>5, <2>6, <2>8, <3>2, <3>3 DEF WalkedTo
    <3> QED
      BY <3>4
  <2>9. CASE len < d /\ len <= e
    <3>1. Part(list, e, d) = << >>
      BY <1>2, <2>9, PartEmpty
    <3>2. f[i] \in Seq(Scouts)
      BY <2>2, PartType
    <3>3. f[i + 1] = f[i]
      BY <2>3, <2>5, <3>1, <3>2, ConcatEmptySeq
    <3>4. WalkedTo(f[i + 1], list, offset, n, i + 1, e)
      BY <1>2, <2>2, <2>9, <3>3 DEF WalkedTo
    <3> QED
      BY <3>4
  <2> QED
    BY <2>7, <2>8, <2>9
<1>5. n \in Good
  <2> HIDE DEF Good
  <2> QED
    BY <1>3, <1>4, InductionOnSet
<1>6. PICK e \in Nat : WalkedTo(f[n], list, offset, n, n, e)
  BY <1>5
<1>7. f[n] = Part(list, offset, e) /\ e <= end /\ (end <= e \/ len <= e)
  BY <1>2, <1>6 DEF WalkedTo
<1>8. PartEnd(list, e) = PartEnd(list, end)
  BY <1>2, <1>7 DEF PartEnd
<1> QED
  BY <1>2, <1>7, <1>8, Zenon DEF Part

\* A player who asks for grants from an offset on gets that part of the list.
LEMMA GrantsAreParts ==
  ASSUME AccessTypes, NEW p \in Players, NEW list \in Seq(Scouts), GrantList(p, list),
         NEW offset \in Nat, NEW limit \in ListingLimits
  PROVE  GetPlayerAccessGrants(p, offset, limit) = Part(list, offset, offset + Clamp(limit))
<1>1. PICK n \in Nat : n = Clamp(limit)
  BY ClampType
<1>2. PICK f : /\ ReadsOn(f, p, offset, n)
               /\ GetPlayerAccessGrants(p, offset, limit) = Filter(f[n], Granted(p))
  <2>1. PICK f : Walks(f, p, offset, limit, n)
    BY <1>1, WalkExists
  <2> QED
    BY <2>1, Zenon DEF Walks
<1>3. f[n] = Part(list, offset, offset + n)
  BY <1>2, WalkReads
<1>4. PICK b \in Nat : b = offset + n
  OBVIOUS
<1>5. PICK t \in Seq(Scouts) : t = Part(list, offset, b)
  BY PartType
<1>6. \A x \in Scouts : Contains(list, x) => x \in Granted(p)
  BY DEF GrantList, Exactly
<1>7. \A i \in 1..Len(t) : t[i] \in Granted(p)
  <2>1. CASE offset <= PartEnd(list, b)
    <3>1. /\ Len(t) = PartEnd(list, b) - offset
          /\ \A i \in 1..(PartEnd(list, b) - offset) : t[i] = list[offset + i]
      BY <1>5, <2>1, PartEntries
    <3>2. PartEnd(list, b) \in Nat /\ PartEnd(list, b) <= Len(list) /\ Len(list) \in Nat
      BY LenProperties DEF PartEnd
    <3>3. \A i \in 1..Len(list) : Contains(list, list[i]) /\ list[i] \in Scouts
      BY DEF Contains
    <3>4. PICK d \in Nat : d = PartEnd(list, b) - offset /\ offset + d <= Len(list)
      BY <2>1, <3>2
    <3>5. Len(t) = d /\ \A i \in 1..d : t[i] = list[offset + i]
      BY <3>1, <3>4
    <3>6. ASSUME NEW i \in 1..d
          PROVE  t[i] \in Granted(p)
      <4>1. offset + i \in 1..Len(list)
        BY <3>2, <3>4
      <4> QED
        BY <1>6, <3>3, <3>5, <4>1
    <3> QED
      BY <3>5, <3>6
  <2>2. CASE ~(offset <= PartEnd(list, b))
    <3>1. b <= offset \/ Len(list) <= offset
      BY <2>2, LenProperties DEF PartEnd
    <3>2. t = << >>
      BY <1>5, <3>1, PartEmpty
    <3> QED
      BY <3>2
  <2> QED
    BY <2>1, <2>2
<1>8. Filter(t, Granted(p)) = t
  BY <1>7, FilterAll
<1> QED
  BY <1>1, <1>2, <1>3, <1>4, <1>5, <1>8, Zenon

\* A replayed contact is listed on both sides (admin_seed_contact).
LEMMA ReplayKeepsContacts ==
  ASSUME AccessTypes, ContactInv, NEW s \in Scouts, NEW p \in Players, NEW time \in ContactTimes,
         AdminSeedContact(s, p, time)
  PROVE  ContactInv'
<1>1. /\ contactRecord[p][s] = NONE /\ migrationWindow = "open"
      /\ contactRecord' = [contactRecord EXCEPT ![p][s] = time]
      /\ scoutContacts' = [scoutContacts EXCEPT ![s] = AddNew(@, p)]
      /\ playerContacts' = [playerContacts EXCEPT ![p] = AddNew(@, s)]
      /\ UNCHANGED <<migrationWindow, accessGrant, accessGrantPage, accessGrantCount, purged>>
  BY DEF AdminSeedContact, RequireMigrationActive, feeVars, grantVars
<1>2. time # NONE
  BY SubscriptionConstants, FeeConstants
<1>3. \A q \in Players, t \in Scouts :
        contactRecord'[q][t] # NONE <=> contactRecord[q][t] # NONE \/ (q = p /\ t = s)
  BY <1>1, <1>2 DEF AccessTypes
<1>4. /\ Contacting(p)' = Contacting(p) \cup {s} /\ s \notin Contacting(p)
      /\ Contacted(s)' = Contacted(s) \cup {p} /\ p \notin Contacted(s)
      /\ \A q \in Players \ {p} : Contacting(q)' = Contacting(q)
      /\ \A t \in Scouts \ {s} : Contacted(t)' = Contacted(t)
  BY <1>1, <1>3 DEF Contacting, Contacted
<1>5. \A q \in Players : Granted(q)' = Granted(q)
  BY <1>1 DEF Granted
<1>6. ASSUME NEW t \in Scouts
      PROVE  Exactly(scoutContacts[t], Players, Contacted(t))'
  <2>1. CASE t = s
    <3>1. Exactly(scoutContacts[s], Players, Contacted(s))
      BY DEF ContactInv
    <3>2. Exactly(AddNew(scoutContacts[s], p), Players, Contacted(s) \cup {p})
      BY <1>4, <3>1, ExactlyAddNew
    <3>3. scoutContacts'[s] = AddNew(scoutContacts[s], p)
      BY <1>1 DEF AccessTypes
    <3> QED
      BY <1>4, <2>1, <3>2, <3>3, Zenon
  <2>2. CASE t # s
    <3>1. scoutContacts'[t] = scoutContacts[t]
      BY <1>1, <2>2 DEF AccessTypes
    <3> QED
      BY <1>4, <2>2, <3>1 DEF ContactInv
  <2> QED
    BY <2>1, <2>2
<1>7. ASSUME NEW q \in Players, q \notin purged'
      PROVE  Exactly(playerContacts[q], Scouts, Contacting(q))'
  <2>1. Exactly(playerContacts[q], Scouts, Contacting(q))
    BY <1>1, <1>7 DEF ContactInv
  <2>2. CASE q = p
    <3>1. Exactly(AddNew(playerContacts[p], s), Scouts, Contacting(p) \cup {s})
      BY <1>4, <2>1, <2>2, ExactlyAddNew
    <3>2. playerContacts'[p] = AddNew(playerContacts[p], s)
      BY <1>1 DEF AccessTypes
    <3> QED
      BY <1>4, <2>2, <3>1, <3>2, Zenon
  <2>3. CASE q # p
    <3>1. playerContacts'[q] = playerContacts[q]
      BY <1>1, <2>3 DEF AccessTypes
    <3> QED
      BY <1>4, <2>1, <2>3, <3>1
  <2> QED
    BY <2>2, <2>3
<1>8. ASSUME NEW q \in Players, q \notin purged'
      PROVE  \E list \in Seq(Scouts) : GrantList(q, list)'
  <2>1. PICK list \in Seq(Scouts) : GrantList(q, list)
    BY <1>1, <1>8 DEF ContactInv
  <2>2. GrantList(q, list)'
    BY <1>1, <1>5, <2>1 DEF GrantList, Paged
  <2> QED
    BY <2>2
<1>9. \A q \in Players : Granted(q)' \subseteq Contacting(q)'
  BY <1>4, <1>5 DEF ContactInv
<1>10. migrationWindow' # "never"
  BY <1>1
<1> QED
  BY <1>6, <1>7, <1>8, <1>9, <1>10, Zenon DEF ContactInv

\* What is behind the contacts and grants stays when none of it changes.
LEMMA ContactsUndisturbed ==
  ASSUME ContactInv, UNCHANGED <<contactRecord, scoutContacts>>,
         \A p \in Players : Granted(p)' = Granted(p),
         purged \subseteq purged', migrationWindow # "never" => migrationWindow' # "never",
         \A p \in Players \ purged' : /\ playerContacts'[p] = playerContacts[p]
                                      /\ accessGrantPage'[p] = accessGrantPage[p]
                                      /\ accessGrantCount'[p] = accessGrantCount[p]
  PROVE  ContactInv'
<1>1. \A s \in Scouts : Exactly(scoutContacts[s], Players, Contacted(s))'
  BY DEF ContactInv, Contacted
<1>2. \A p \in Players : Contacting(p)' = Contacting(p)
  BY DEF Contacting
<1>3. ASSUME NEW p \in Players, p \notin purged'
      PROVE  /\ Exactly(playerContacts[p], Scouts, Contacting(p))'
             /\ \E list \in Seq(Scouts) : GrantList(p, list)'
  <2>1. p \notin purged
    BY <1>3
  <2>2. PICK list \in Seq(Scouts) : GrantList(p, list)
    BY <2>1 DEF ContactInv
  <2>3. GrantList(p, list)'
    BY <1>3, <2>2 DEF GrantList, Paged
  <2>4. Exactly(playerContacts[p], Scouts, Contacting(p))
    BY <2>1 DEF ContactInv
  <2>5. Exactly(playerContacts[p], Scouts, Contacting(p))'
    BY <1>2, <1>3, <2>4
  <2> QED
    BY <2>3, <2>5
<1>4. /\ \A p \in Players : Granted(p)' \subseteq Contacting(p)'
      /\ migrationWindow' = "never" => \A p \in Players : Contacting(p)' \subseteq Granted(p)'
  BY <1>2 DEF ContactInv
<1> QED
  BY <1>1, <1>3, <1>4, Zenon DEF ContactInv

\* Every step keeps the contacts, their pages and the grants listed.
LEMMA StepKeepsContacts ==
  ASSUME FeeTypeOK, AccessTypes, ContactInv, [Next]_vars
  PROVE  ContactInv'
<1>1. now \in Nat
  BY FeeConstants DEF FeeTypeOK
<1>2. ASSUME UNCHANGED <<contactVars, grantVars, purged>>,
             migrationWindow # "never" => migrationWindow' # "never"
      PROVE  ContactInv'
  <2>1. \A p \in Players : Granted(p)' = Granted(p)
    BY <1>2 DEF grantVars, Granted
  <2> QED
    BY <1>2, <2>1, ContactsUndisturbed DEF contactVars, grantVars
<1>3. ASSUME NEW s \in Scouts, NEW new, Stores(s, new)
      PROVE  ContactInv'
  BY <1>2, <1>3 DEF Stores, feeVars
<1>4. ASSUME NEW p \in Players, NEW s \in Scouts, NEW grant, Regrants(p, s, grant)
      PROVE  ContactInv'
  <2>1. /\ accessGrant[p][s] # NONE /\ grant # NONE
        /\ accessGrant' = [accessGrant EXCEPT ![p][s] = grant]
        /\ UNCHANGED <<migrationWindow, contactRecord, scoutContacts, playerContacts,
                       accessGrantPage, accessGrantCount, purged>>
    BY <1>4 DEF Regrants, SetGrant, contactVars, feeVars
  <2>2. \A q \in Players, t \in Scouts : accessGrant'[q][t] # NONE <=> accessGrant[q][t] # NONE
    BY <2>1 DEF AccessTypes
  <2>3. \A q \in Players : Granted(q)' = Granted(q)
    BY <2>2 DEF Granted
  <2> QED
    BY <2>1, <2>3, ContactsUndisturbed
<1>5. ASSUME NEW p \in Players, PurgePlayerData(p)
      PROVE  ContactInv'
  <2>1. /\ playerContacts' = [playerContacts EXCEPT ![p] = << >>]
        /\ accessGrantCount' = [accessGrantCount EXCEPT ![p] = 0]
        /\ purged' = purged \cup {p}
        /\ UNCHANGED <<migrationWindow, contactRecord, scoutContacts, accessGrant,
                       accessGrantPage>>
    BY <1>5 DEF PurgePlayerData, feeVars
  <2>2. \A q \in Players : Granted(q)' = Granted(q)
    BY <2>1 DEF Granted
  <2>3. PICK none : playerContacts' = [playerContacts EXCEPT ![p] = none]
    BY <2>1
  <2>4. \A q \in Players \ purged' : /\ playerContacts'[q] = playerContacts[q]
                                     /\ accessGrantPage'[q] = accessGrantPage[q]
                                     /\ accessGrantCount'[q] = accessGrantCount[q]
    BY <2>1, <2>3 DEF AccessTypes
  <2> QED
    BY <2>1, <2>2, <2>4, ContactsUndisturbed
<1>6. ASSUME Idle
      PROVE  ContactInv'
  BY <1>2, <1>6 DEF Idle, feeVars
<1>7. ASSUME Rest, migrationWindow # "never" => migrationWindow' # "never"
      PROVE  ContactInv'
  BY <1>2, <1>7 DEF Rest
<1> QED
  BY <1>1, <1>3, <1>4, <1>5, <1>6, <1>7, AccessCases, OtherSteps, ContactKeepsContacts,
     ReplayKeepsContacts, SubscriptionConstants DEF StoresPeriod, StoresSeed

\* A player who pages through the grants sees the list, whatever the page size.
LEMMA GrantPagesJoin ==
  ASSUME AccessTypes, NEW p \in Players, NEW list \in Seq(Scouts), GrantList(p, list),
         NEW limit \in ListingLimits
  PROVE  FlattenSeq([i \in 1..Cardinality(Scouts) |->
                       GetPlayerAccessGrants(p, (i - 1) * Clamp(limit), limit)]) = list
<1>1. PICK c \in Nat \ {0} : c = Clamp(limit)
  BY ClampType
<1>2. PICK n \in Nat : n = Cardinality(Scouts) /\ Len(list) <= n
  BY ScoutsBound DEF GrantList, Exactly
<1>3. PICK pages : pages = [i \in 1..n |-> GetPlayerAccessGrants(p, (i - 1) * c, limit)]
  OBVIOUS
<1>4. ASSUME NEW i \in 1..n
      PROVE  /\ pages[i] = Part(list, (i - 1) * c, (i - 1) * c + c)
             /\ pages[i] \in Seq(Scouts)
  <2>1. PICK offset \in Nat : offset = (i - 1) * c
    OBVIOUS
  <2>2. PICK b \in Nat : b = offset + c
    OBVIOUS
  <2>3. GetPlayerAccessGrants(p, offset, limit) = Part(list, offset, offset + Clamp(limit))
    BY GrantsAreParts
  <2>4. Part(list, offset, b) \in Seq(Scouts)
    BY PartType
  <2>5. pages[i] = GetPlayerAccessGrants(p, (i - 1) * c, limit)
    BY <1>3
  <2> QED
    BY <1>1, <2>1, <2>2, <2>3, <2>4, <2>5, Zenon
<1>5. pages \in [1..n -> Seq(Scouts)]
  BY <1>3, <1>4
<1>6. FlattenSeq(pages) = list
  BY <1>2, <1>4, <1>5, PagesJoin
<1> QED
  BY <1>1, <1>2, <1>3, <1>6, Zenon

\* The pages of a scout's contacts joined are the list.
LEMMA ContactPagesJoin ==
  ASSUME AccessTypes, ContactInv, NEW s \in Scouts, NEW limit \in ListingLimits
  PROVE  FlattenSeq([i \in 1..Cardinality(Players) |->
           GetScoutContactsPage(s, (i - 1) * Clamp(limit), limit).entries]) = scoutContacts[s]
<1>1. PICK list \in Seq(Players) : list = scoutContacts[s] /\ Exactly(list, Players, Contacted(s))
  BY DEF AccessTypes, ContactInv
<1>2. PICK c \in Nat \ {0} : c = Clamp(limit)
  BY ClampType
<1>3. PICK n \in Nat : n = Cardinality(Players) /\ Len(list) <= n
  <2> DEFINE E == {x \in Players : Contains(list, x)}
  <2>1. Len(list) = Cardinality(E) /\ Len(list) \in Nat
    BY ZenonT(60), <1>1, DistinctLength, LenProperties DEF Exactly
  <2>2. E \in SUBSET Players /\ IsFiniteSet(Players)
    BY SubscriptionConstants
  <2> HIDE DEF E
  <2> QED
    BY <2>1, <2>2, FS_Subset, FS_CardinalityType
<1>4. PICK pages : pages = [i \in 1..n |-> GetScoutContactsPage(s, (i - 1) * c, limit).entries]
  OBVIOUS
<1>5. ASSUME NEW i \in 1..n
      PROVE  /\ pages[i] = Part(list, (i - 1) * c, (i - 1) * c + c)
             /\ pages[i] \in Seq(Players)
  <2>1. PICK offset \in Nat : offset = (i - 1) * c
    OBVIOUS
  <2>2. PICK b \in Nat : b = offset + c
    OBVIOUS
  <2>3. GetScoutContactsPage(s, offset, limit).entries = Part(list, offset, b)
    BY <1>1, <1>2, <2>2, Zenon DEF GetScoutContactsPage, Part, PartEnd
  <2>4. Part(list, offset, b) \in Seq(Players)
    BY PartType
  <2>5. pages[i] = GetScoutContactsPage(s, (i - 1) * c, limit).entries
    BY <1>4
  <2> QED
    BY <2>1, <2>2, <2>3, <2>4, <2>5, Zenon
<1>6. pages \in [1..n -> Seq(Players)]
  BY <1>4, <1>5
<1>7. FlattenSeq(pages) = list
  BY <1>3, <1>5, <1>6, PagesJoin
<1> QED
  BY <1>1, <1>2, <1>3, <1>4, <1>7, Zenon

\* Until an erasure, a player who pages through the grants sees each once; the
\* two sides of a contact list each other, once; a contact without a grant was
\* replayed (record_contact, grant_evidence_access, admin_seed_contact).
THEOREM AuditStaysComplete == Spec => []AuditListsEveryGrantOnce
<1>1. Init => ContactInv
  <2> SUFFICES ASSUME Init
               PROVE  ContactInv
    OBVIOUS
  <2>1. PICK none : none = << >> /\ none \in Seq(Scouts) /\ Distinct(none)
                    /\ \A x : ~Contains(none, x)
    BY NoEntries, Zenon
  <2>2. none \in Seq(Players)
    BY <2>1, NoEntries, Zenon
  <2>3. /\ scoutContacts = [s \in Scouts |-> none] /\ playerContacts = [p \in Players |-> none]
        /\ accessGrantPage = [p \in Players |-> [i \in 0..Cardinality(Scouts) |-> none]]
        /\ accessGrantCount = [p \in Players |-> 0]
        /\ contactRecord = [p \in Players |-> [s \in Scouts |-> NONE]]
        /\ accessGrant = [p \in Players |-> [s \in Scouts |-> NONE]]
    BY <2>1 DEF Init
  <2>4. /\ \A p \in Players : Contacting(p) = {} /\ Granted(p) = {}
        /\ \A s \in Scouts : Contacted(s) = {}
    BY <2>3 DEF Contacting, Granted, Contacted
  <2>5. Exactly(none, Scouts, {}) /\ Exactly(none, Players, {})
    BY <2>1, <2>2 DEF Exactly
  <2>6. \A s \in Scouts : Exactly(scoutContacts[s], Players, Contacted(s))
    BY <2>3, <2>4, <2>5
  <2>7. ASSUME NEW p \in Players
        PROVE  Exactly(playerContacts[p], Scouts, Contacting(p)) /\ GrantList(p, none)
    <3>1. Len(none) = 0
      BY <2>1
    <3>2. Paged(p, none)
      <4>1. ASSUME NEW i \in 0..Cardinality(Scouts)
            PROVE  accessGrantPage[p][i] = PageOf(none, i, ACCESS_GRANT_PAGE_SIZE)
        <5>1. PICK N \in Nat \ {0} : N = ACCESS_GRANT_PAGE_SIZE
          BY SubscriptionConstants
        <5>2. PICK a \in Nat, b \in Nat : a = i * N /\ b = a + N
          OBVIOUS
        <5>3. 0 <= a
          BY <5>2
        <5>4. Part(none, a, b) = << >>
          BY <2>1, <3>1, <5>3, PartEmpty
        <5>5. accessGrantPage[p][i] = none
          BY <2>3
        <5> QED
          BY <2>1, <5>1, <5>2, <5>4, <5>5, Zenon DEF PageOf
      <4> QED
        BY <4>1 DEF Paged
    <3>3. Exactly(playerContacts[p], Scouts, Contacting(p))
      BY <2>3, <2>4, <2>5
    <3>4. GrantList(p, none)
      BY <2>3, <2>4, <2>5, <3>1, <3>2 DEF GrantList
    <3> QED
      BY <3>3, <3>4
  <2> QED
    BY <2>1, <2>4, <2>6, <2>7 DEF ContactInv
<1>2. FeeTypeOK /\ AccessTypes /\ ContactInv /\ [Next]_vars => ContactInv'
  BY StepKeepsContacts
<1>3. AccessTypes /\ ContactInv => AuditListsEveryGrantOnce
  <2> SUFFICES ASSUME AccessTypes, ContactInv
               PROVE  AuditListsEveryGrantOnce
    OBVIOUS
  <2>1. ASSUME NEW p \in Players \ purged, NEW limit \in ListingLimits
        PROVE  LET granted == {s \in Scouts : GetEvidenceAccessGrant(p, s) # NONE}
                   pages == [i \in 1..Cardinality(Scouts) |->
                               GetPlayerAccessGrants(p, (i - 1) * Clamp(limit), limit)]
               IN Lists(FlattenSeq(pages), granted)
    <3>1. PICK list \in Seq(Scouts) : GrantList(p, list)
      BY DEF ContactInv
    <3>2. Distinct(list) /\ \A s \in Scouts : Contains(list, s) <=> s \in Granted(p)
      BY <3>1 DEF GrantList, Exactly
    <3>3. Granted(p) \in SUBSET Scouts
      BY DEF Granted
    <3>4. Lists(list, Granted(p))
      BY <3>2, <3>3, ListsMembers
    <3>5. Granted(p) = {s \in Scouts : GetEvidenceAccessGrant(p, s) # NONE}
      BY DEF Granted, GetEvidenceAccessGrant
    <3> QED
      BY <3>1, <3>4, <3>5, GrantPagesJoin, Zenon
  <2>2. ASSUME NEW p \in Players \ purged
        PROVE  Lists(GetPlayerContacts(p), {s \in Scouts : HasContacted(s, p)})
    <3>1. Exactly(playerContacts[p], Scouts, Contacting(p)) /\ Contacting(p) \in SUBSET Scouts
      BY DEF ContactInv, Contacting
    <3>2. Lists(playerContacts[p], Contacting(p))
      BY <3>1, ListsMembers DEF Exactly
    <3>3. Contacting(p) = {s \in Scouts : HasContacted(s, p)}
      BY DEF Contacting, HasContacted
    <3> QED
      BY <3>2, <3>3, Zenon DEF GetPlayerContacts
  <2>3. ASSUME NEW p \in Players \ purged, NEW s \in Scouts, HasContacted(s, p),
               migrationWindow = "never"
        PROVE  GetEvidenceAccessGrant(p, s) # NONE
    <3>1. Contacting(p) \subseteq Granted(p)
      BY <2>3 DEF ContactInv
    <3> QED
      BY <2>3, <3>1 DEF HasContacted, GetEvidenceAccessGrant, Contacting, Granted
  <2>4. ASSUME NEW s \in Scouts, NEW limit \in ListingLimits
        PROVE  LET contacted == {p \in Players : GetContactRecord(s, p) # NONE}
                   pages == [i \in 1..Cardinality(Players) |->
                               GetScoutContactsPage(s, (i - 1) * Clamp(limit), limit).entries]
               IN /\ FlattenSeq(pages) = GetScoutContacts(s)
                  /\ Lists(GetScoutContacts(s), contacted)
    <3>1. Exactly(scoutContacts[s], Players, Contacted(s)) /\ Contacted(s) \in SUBSET Players
      BY DEF ContactInv, Contacted
    <3>2. Lists(scoutContacts[s], Contacted(s))
      BY <3>1, ListsMembers DEF Exactly
    <3>3. Contacted(s) = {p \in Players : GetContactRecord(s, p) # NONE}
      BY DEF Contacted, GetContactRecord
    <3> QED
      BY <3>2, <3>3, ContactPagesJoin, Zenon DEF GetScoutContacts
  <2> QED
    BY <2>1, <2>2, <2>3, <2>4, Zenon DEF AuditListsEveryGrantOnce
<1> QED
  BY <1>1, <1>2, <1>3, FeeScheduleTypeCorrect, ScheduleRunsByItself, AccessTypesHold, PTL DEF Spec
====
