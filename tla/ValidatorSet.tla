---- MODULE ValidatorSet ----
(***************************************************************************)
(* The verification contract's validator registry: the records, the vector  *)
(* of active wallets with its two counters, and the switches and windows an *)
(* admin sets.  Revocation also reaches into claims, disputes and milestones *)
(* and is put together in Verification; this module has its registry part.  *)
(*                                                                          *)
(* Credentials and specializations are abstracted from; an affiliation is a *)
(* model value.  An action is a successful invocation.                      *)
(***************************************************************************)
EXTENDS Integers, FiniteSets, Lists

CONSTANTS
  NONE,                 \* an absent storage key
  Wallets,              \* validator wallets
  Affiliations,         \* the organisations they belong to
  Enlisted,             \* wallets registered by the deployment script
  AffiliationOf,        \* the affiliation a wallet registers with
  MAX_VALIDATORS,       \* cap on the vector (100 in the source)
  MAX_BATCH,            \* entries of a batch considered (MAX_BATCH_REVOKE is 10)
  RegCooldownSecs,      \* seconds between registrations of a wallet
  Switches,             \* the pauses the admin uses, of "contract" and "approve"
  Severities,           \* the severities the admin uses
  MaxTransfers,         \* bound on wallet transfers
  StartTime,            \* the ledger time of the deployment
  MaxTime               \* bound on the ledger time

Routine == "Routine"
ForCause == "ForCause"
RevocationSeverity == {Routine, ForCause}

\* The ledger times of an instance.
Times == (StartTime - 1)..MaxTime

Validator == [affiliation : Affiliations, registered_at : Nat, active : BOOLEAN]
RevocationRecord == [severity : RevocationSeverity, revoked_at : Nat]

ASSUME ValidatorAssumption ==
  /\ Affiliations # {} /\ Enlisted \subseteq Wallets /\ IsFiniteSet(Wallets)
  /\ AffiliationOf \in [Wallets -> Affiliations]
  /\ MAX_VALIDATORS \in Nat \ {0} /\ MAX_BATCH \in Nat /\ RegCooldownSecs \in Nat
  /\ Cardinality(Enlisted) <= MAX_VALIDATORS
  /\ Switches \subseteq {"contract", "approve"}
  /\ Severities \subseteq RevocationSeverity
  /\ MaxTransfers \in Nat /\ StartTime \in Nat \ {0}
  /\ MaxTime \in Nat /\ StartTime <= MaxTime
  /\ NONE \notin Nat \cup Wallets \cup Validator \cup RevocationRecord

VARIABLES
  paused,                  \* Paused and PausedApproveMilestone: the switches set
  validator,               \* Validator(wallet)
  validatorVector,         \* ValidatorVector
  activeValidatorCount,    \* ActiveValidatorCount
  totalValidatorCount,     \* TotalValidatorCount
  validatorRegLastSent,    \* ValidatorRegLastSent(wallet)
  revocationRecord,        \* RevocationRecord(wallet)
  revokedForCause,         \* the wallets whose ValidatorRevokedForCause is set
  now,                     \* the ledger clock
  transferred              \* wallets given up by a transfer; no guard reads it

registry == <<validator, validatorVector, activeValidatorCount,
              totalValidatorCount, validatorRegLastSent>>
revocations == <<revocationRecord, revokedForCause>>
validatorVars == <<paused, registry, revocations, now, transferred>>

----
(***************************************************************************)
(* What the rest of the contract asks of the registry.                      *)
(***************************************************************************)
Registered(w) == validator[w] # NONE

\* get_validator_status, as far as a caller's rights depend on it.
IsActiveValidator(w) == Registered(w) /\ validator[w].active

GetValidatorStatus(w) ==
  IF ~Registered(w) THEN "NotRegistered"
  ELSE IF validator[w].active THEN "Active"
  ELSE IF w \in revokedForCause THEN "RevokedForCause" ELSE "Revoked"

NotPaused == "contract" \notin paused
ApproveNotPaused == NotPaused /\ "approve" \notin paused

ToSetOf(s) == {s[i] : i \in DOMAIN s}
Least(a, b) == IF a < b THEN a ELSE b

\* get_validator_statuses: one answer per wallet, in the order of the question.
GetValidatorStatuses(ws) == [i \in DOMAIN ws |-> GetValidatorStatus(ws[i])]

----
(***************************************************************************)
(* Registration.                                                            *)
(***************************************************************************)
\* enforce_reg_cooldown.
CooledDown(w) ==
  validatorRegLastSent[w] # NONE => now >= validatorRegLastSent[w] + RegCooldownSecs

\* validate_validator_input.
ValidateValidatorInput(w) == ~Registered(w) /\ CooledDown(w)

\* The counters, bumped once for the whole batch.
CountBatch(ws) ==
  /\ activeValidatorCount' = activeValidatorCount + Len(ws)
  /\ totalValidatorCount' = totalValidatorCount + Len(ws)

\* write_validator for each wallet of a sequence without repetitions.
WriteValidators(ws) ==
  LET new == ToSetOf(ws) IN
  /\ validator' = [w \in Wallets |->
       IF w \in new
       THEN [affiliation |-> AffiliationOf[w], registered_at |-> now, active |-> TRUE]
       ELSE validator[w]]
  /\ validatorRegLastSent' = [w \in Wallets |->
       IF w \in new THEN now ELSE validatorRegLastSent[w]]
  /\ validatorVector' = validatorVector \o ws
  /\ CountBatch(ws)

\* register_validator is the batch of one; an empty batch changes nothing.
BatchRegisterValidators(ws) ==
  /\ NotPaused
  /\ Len(validatorVector) + Len(ws) <= MAX_VALIDATORS
  /\ \A w \in ToSetOf(ws) : ValidateValidatorInput(w)
  /\ WriteValidators(ws)
  /\ UNCHANGED <<paused, revocations, now, transferred>>

\* The wallet is listed and counted again.
Relist(w) ==
  /\ validatorVector' =
       IF w \in ToSetOf(validatorVector) THEN validatorVector
       ELSE Append(validatorVector, w)
  /\ totalValidatorCount' =
       totalValidatorCount + (IF w \in ToSetOf(validatorVector) THEN 0 ELSE 1)
  /\ activeValidatorCount' = activeValidatorCount + 1

RestoreValidator(w) ==
  /\ Registered(w)
  /\ IF validator[w].active
     THEN UNCHANGED <<validatorVector, activeValidatorCount, totalValidatorCount>>
     ELSE Len(validatorVector) < MAX_VALIDATORS /\ Relist(w)
  /\ validator' = [validator EXCEPT ![w].active = TRUE]
  /\ revokedForCause' = revokedForCause \ {w}
  /\ UNCHANGED <<paused, validatorRegLastSent, revocationRecord, now, transferred>>

\* The record and the vector entry move; everything else stays with the old wallet.
TransferRecord(old, new) ==
  /\ Registered(old) /\ ~Registered(new)
  /\ Cardinality(transferred) < MaxTransfers
  /\ validator' = [validator EXCEPT ![new] = validator[old], ![old] = NONE]
  /\ validatorVector' = [i \in DOMAIN validatorVector |->
       IF validatorVector[i] = old THEN new ELSE validatorVector[i]]
  /\ transferred' = transferred \cup {old}
  /\ UNCHANGED <<paused, activeValidatorCount, totalValidatorCount,
                 validatorRegLastSent, revocations, now>>

----
(***************************************************************************)
(* The registry's part of revoke_one and handle_inactive_re_revoke.         *)
(***************************************************************************)
\* remove_from_validator_vector.
Without(vector, ws) == Filter(vector, Wallets \ ws)

ActiveOf(ws) == {w \in ws : validator[w].active}

\* A first revocation, or the escalation of a routine one.
Revocable(w, severity) ==
  /\ Registered(w)
  /\ ~validator[w].active =>
       /\ severity = ForCause
       /\ revocationRecord[w] # NONE
       /\ revocationRecord[w].severity = Routine

\* The record of w after it; an escalation keeps the first revocation's time.
Revoked(w, severity) ==
  [severity   |-> severity,
   revoked_at |-> IF validator[w].active THEN now ELSE revocationRecord[w].revoked_at]

\* Mutant: an escalation is counted as another revocation.
CountDownAll(ws) ==
  /\ activeValidatorCount' = activeValidatorCount - Cardinality(ws)
  /\ totalValidatorCount' = totalValidatorCount - Cardinality(ws)

CountDown(ws) ==
  /\ activeValidatorCount' = activeValidatorCount - Cardinality(ActiveOf(ws))
  /\ totalValidatorCount' = totalValidatorCount - Cardinality(ActiveOf(ws))

RevokeRecords(ws, severity) ==
  /\ \A w \in ws : Revocable(w, severity)
  /\ validator' = [w \in Wallets |->
       IF w \in ws THEN [validator[w] EXCEPT !.active = FALSE] ELSE validator[w]]
  /\ validatorVector' = Without(validatorVector, ws)
  /\ CountDown(ws)
  /\ revocationRecord' = [w \in Wallets |->
       IF w \in ws THEN Revoked(w, severity) ELSE revocationRecord[w]]
  /\ revokedForCause' = revokedForCause \cup (IF severity = ForCause THEN ws ELSE {})
  /\ UNCHANGED <<paused, validatorRegLastSent, now, transferred>>

----
(***************************************************************************)
(* The admin's switches and the clock.                                      *)
(***************************************************************************)
\* A switch the admin sets or takes back; setting it again changes nothing.
Pause(switch) ==
  /\ switch \in Switches                       \* bound
  /\ switch \notin paused
  /\ paused' = paused \cup {switch}
  /\ UNCHANGED <<registry, revocations, now, transferred>>

Unpause(switch) ==
  /\ switch \in paused
  /\ paused' = paused \ {switch}
  /\ UNCHANGED <<registry, revocations, now, transferred>>

PauseContract == Pause("contract")
UnpauseContract == Unpause("contract")
PauseApproveMilestone == Pause("approve")
UnpauseApproveMilestone == Unpause("approve")

\* The clock moves on; bounded by MaxTime.
ClockTick ==
  /\ now < MaxTime
  /\ now' = now + 1
  /\ UNCHANGED <<paused, registry, revocations, transferred>>

\* init_state, followed by the deployment script's register_validator calls.
ValidatorInit ==
  /\ paused = {}
  /\ now = StartTime
  /\ validator = [w \in Wallets |->
       IF w \in Enlisted
       THEN [affiliation |-> AffiliationOf[w], registered_at |-> StartTime - 1, active |-> TRUE]
       ELSE NONE]
  /\ validatorVector = SetToSeq(Enlisted)
  /\ activeValidatorCount = Cardinality(Enlisted)
  /\ totalValidatorCount = Cardinality(Enlisted)
  /\ validatorRegLastSent = [w \in Wallets |-> IF w \in Enlisted THEN StartTime - 1 ELSE NONE]
  /\ revocationRecord = [w \in Wallets |-> NONE]
  /\ revokedForCause = {}
  /\ transferred = {}
====
