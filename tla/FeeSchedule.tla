---- MODULE FeeSchedule ----
(***************************************************************************)
(* The fee configuration of scout_access: the admin replaces it at once,    *)
(* or proposes it, which takes effect at once when no fee rises and after   *)
(* FEE_CONFIG_PROPOSAL_DELAY_SECS otherwise, or replays it from an earlier  *)
(* deployment.                                                              *)
(***************************************************************************)
EXTENDS InvocationClock, SequencesExt

CONSTANTS
  FeeConfigs,      \* configurations the admin submits
  SeedHistories,   \* configuration histories replayed
  FeeLimits,       \* the bounds validate_fee_config compares with
  FEE_CONFIG_PROPOSAL_DELAY_SECS,  \* seven days in the source
  FEE_CONFIG_HISTORY_CAP           \* 5 in the source

FeeConfig ==
  [contact_fee_stroops : Nat, basic_sub_stroops : Nat, pro_sub_stroops : Nat,
   elite_sub_stroops : Nat, sub_duration_secs : Nat, pro_contact_limit : Nat,
   trial_offer_escrow_stroops : Nat, trial_offer_expiry_secs : Nat]

FeeConfigProposal == [config : FeeConfig, proposed_at : Nat]
FeeConfigHistoryEntry == [config : FeeConfig, updated_at : Nat]

ASSUME FeeConstants ==
  /\ MaxTime \in Nat /\ FEE_CONFIG_PROPOSAL_DELAY_SECS \in Nat
  /\ FEE_CONFIG_HISTORY_CAP \in Nat \ {0}
  /\ FeeConfigs \subseteq FeeConfig
  /\ SeedHistories \subseteq Seq(FeeConfigHistoryEntry)
  /\ NONE \notin FeeConfigProposal \cup Nat

VARIABLES
  migrationWindow,    \* MigrationActive and MigrationWindowSealed
  feeConfig,          \* FeeConfig
  pendingFeeConfig,   \* PendingFeeConfig
  feeConfigHistory,   \* FeeConfigHistory, NONE when absent
  \* What the property needs to know of the past; no guard reads it.
  lastChange,         \* when the admin last changed the schedule, replays apart
  changedBy           \* the entry point that last did, replays included

feeVars ==
  <<now, migrationWindow, feeConfig, pendingFeeConfig, feeConfigHistory, lastChange, changedBy>>

----
Within(x, limits) == x >= limits[1] /\ x <= limits[2]

\* validate_fee_config.
ValidFeeConfig(c) ==
  /\ \A fee \in {c.basic_sub_stroops, c.pro_sub_stroops, c.elite_sub_stroops} :
       Within(fee, FeeLimits.sub)
  /\ c.basic_sub_stroops <= c.pro_sub_stroops /\ c.pro_sub_stroops <= c.elite_sub_stroops
  /\ Within(c.contact_fee_stroops, FeeLimits.contact)
  /\ Within(c.sub_duration_secs, FeeLimits.duration)
  /\ Within(c.pro_contact_limit, FeeLimits.quota)
  /\ Within(c.trial_offer_escrow_stroops, FeeLimits.escrow)
  /\ c.trial_offer_escrow_stroops > 0 =>
       Within(c.trial_offer_expiry_secs, FeeLimits.expiry)

\* Some fee that a proposal is compared by is higher in d than in c.
Dearer(c, d) ==
  \/ d.contact_fee_stroops > c.contact_fee_stroops
  \/ d.basic_sub_stroops > c.basic_sub_stroops
  \/ d.pro_sub_stroops > c.pro_sub_stroops
  \/ d.elite_sub_stroops > c.elite_sub_stroops

\* propose_fee_config's test for a change that need not wait.
IsDecreaseOrNoChange(d) == ~Dearer(feeConfig, d)

\* apply_fee_config: the outgoing configuration joins the history, the oldest
\* entry leaves it when it is full.
ApplyFeeConfig(c) ==
  LET kept == IF feeConfigHistory = NONE THEN << >> ELSE feeConfigHistory
      grown == Append(kept, [config |-> feeConfig, updated_at |-> now])
  IN /\ feeConfigHistory' = IF Len(grown) > FEE_CONFIG_HISTORY_CAP THEN Tail(grown) ELSE grown
     /\ feeConfig' = c

\* The calls that change the schedule, and the two that give no notice.
Calls == {"initialize", "update_fee_config", "propose_fee_config", "activate_fee_config",
          "cancel_fee_config_proposal", "admin_seed_fee_config"}
Unannounced == {"update_fee_config", "admin_seed_fee_config"}

ChangeBy(call) ==
  /\ lastChange' = now /\ changedBy' = call
  /\ UNCHANGED <<now, migrationWindow>>

UpdateFeeConfig(c) ==
  /\ ValidFeeConfig(c)
  /\ pendingFeeConfig' = NONE
  /\ ApplyFeeConfig(c)
  /\ ChangeBy("update_fee_config")

ProposeFeeConfig(c) ==
  /\ ValidFeeConfig(c)
  /\ pendingFeeConfig = NONE
  /\ IF IsDecreaseOrNoChange(c)
     THEN ApplyFeeConfig(c) /\ UNCHANGED pendingFeeConfig
     ELSE /\ pendingFeeConfig' = [config |-> c, proposed_at |-> now]
          /\ UNCHANGED <<feeConfig, feeConfigHistory>>
  /\ ChangeBy("propose_fee_config")

\* Mutant: a proposal takes effect without having waited.
ActivateEarly ==
  /\ pendingFeeConfig # NONE
  /\ pendingFeeConfig' = NONE
  /\ ApplyFeeConfig(pendingFeeConfig.config)
  /\ ChangeBy("activate_fee_config")

ActivateFeeConfig ==
  /\ pendingFeeConfig # NONE
  /\ now >= pendingFeeConfig.proposed_at + FEE_CONFIG_PROPOSAL_DELAY_SECS
  /\ pendingFeeConfig' = NONE
  /\ ApplyFeeConfig(pendingFeeConfig.config)
  /\ ChangeBy("activate_fee_config")

CancelFeeConfigProposal ==
  /\ pendingFeeConfig # NONE
  /\ pendingFeeConfig' = NONE
  /\ UNCHANGED <<feeConfig, feeConfigHistory>>
  /\ ChangeBy("cancel_fee_config_proposal")

\* The migration window opens until it is closed for good.
OpenMigrationWindow ==
  /\ migrationWindow # "sealed"
  /\ migrationWindow' = "open"
  /\ UNCHANGED <<now, feeConfig, pendingFeeConfig, feeConfigHistory, lastChange, changedBy>>

CloseMigrationWindow ==
  /\ migrationWindow = "open"
  /\ migrationWindow' = "sealed"
  /\ UNCHANGED <<now, feeConfig, pendingFeeConfig, feeConfigHistory, lastChange, changedBy>>

\* A replay writes the history as it was; a proposal that is pending stays.
HistoryMayBe(h) ==
  /\ migrationWindow = "open"
  /\ Len(h) <= FEE_CONFIG_HISTORY_CAP
  /\ feeConfigHistory \in {NONE, h}

AdminSeedFeeConfig(c, h) ==
  /\ HistoryMayBe(h) /\ ValidFeeConfig(c)
  /\ feeConfig' = c /\ feeConfigHistory' = h
  /\ changedBy' = "admin_seed_fee_config"
  /\ UNCHANGED <<now, migrationWindow, pendingFeeConfig, lastChange>>

AdminSeedFeeConfigHistory(h) ==
  /\ HistoryMayBe(h)
  /\ feeConfigHistory' = h
  /\ UNCHANGED <<now, migrationWindow, feeConfig, pendingFeeConfig, lastChange, changedBy>>

FeeTick ==
  /\ Tick
  /\ UNCHANGED <<migrationWindow, feeConfig, pendingFeeConfig, feeConfigHistory, lastChange,
                 changedBy>>

\* init_state with the deployment's configuration.
FeeInit ==
  /\ now = 0 /\ lastChange = 0 /\ changedBy = "initialize"
  /\ migrationWindow = "never"
  /\ feeConfig \in {c \in FeeConfigs : ValidFeeConfig(c)}
  /\ pendingFeeConfig = NONE /\ feeConfigHistory = NONE

FeeNext ==
  \/ \E c \in FeeConfigs : UpdateFeeConfig(c) \/ ProposeFeeConfig(c)
  \/ ActivateFeeConfig \/ CancelFeeConfigProposal
  \/ OpenMigrationWindow \/ CloseMigrationWindow
  \/ \E h \in SeedHistories :
       AdminSeedFeeConfigHistory(h) \/ \E c \in FeeConfigs : AdminSeedFeeConfig(c, h)

FeeSpec == FeeInit /\ [][FeeNext \/ FeeTick]_feeVars

----
FeeTypeOK ==
  /\ now \in 0..MaxTime /\ lastChange \in 0..MaxTime /\ changedBy \in Calls
  /\ migrationWindow \in {"never", "open", "sealed"}
  /\ feeConfig \in FeeConfig
  /\ pendingFeeConfig \in FeeConfigProposal \cup {NONE}
  /\ feeConfigHistory = NONE \/ feeConfigHistory \in Seq(FeeConfigHistoryEntry)

\* Unless the admin calls the direct update or the replay, what scouts pay
\* rises only by an activation, when the schedule has stood unchanged for the
\* whole delay, replays apart: no proposal takes effect at once or early, a
\* cancelled or superseded one never does, and no other change slips in between
\* the proposal and its activation (propose, update, activate, cancel).
RiseOnNotice ==
  [][Dearer(feeConfig, feeConfig') =>
       \/ changedBy' \in Unannounced
       \/ /\ changedBy' = "activate_fee_config"
          /\ now >= lastChange + FEE_CONFIG_PROPOSAL_DELAY_SECS]_feeVars
====
