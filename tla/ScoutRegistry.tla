---- MODULE ScoutRegistry ----
(***************************************************************************)
(* The registration contract's scouts: profiles, the wallet index, the      *)
(* verification an admin grants and takes back, deactivation, erasure,      *)
(* replay and migration tickets, and the answers scout_access asks for.     *)
(*                                                                          *)
(* An action is a successful invocation.  Regions are abstracted from, and  *)
(* of a verification record its dates and its author.                       *)
(***************************************************************************)
EXTENDS InvocationClock, FiniteSets, Lists

CONSTANTS
  Scouts,           \* scout wallets
  MaxScoutId,       \* scout ids considered: 1..MaxScoutId
  SeedScoutIds,     \* ids the admin may replay profiles under
  ScoutTickets,     \* scouts' signed migration authorizations
  MAX_SCOUTS,       \* cap on live scouts
  MAX_BATCH_SIZE,   \* ids get_scouts takes (20)
  RegCooldowns,     \* values the admin may give the cooldown
  DEFAULT_REG_COOLDOWN_SECS

ScoutId == 1..MaxScoutId
ScoutTicket == [wallet : Scouts, nonce : Nat, expires_at : Nat]
ScoutVerificationRecord == {"never", "verified", "revoked"}
ScoutProfile ==
  [wallet : Scouts, verified : BOOLEAN, verification : ScoutVerificationRecord]

ASSUME ScoutConstants ==
  /\ MaxScoutId \in Nat /\ MAX_SCOUTS \in Nat /\ MAX_BATCH_SIZE \in Nat
  /\ SeedScoutIds \subseteq ScoutId /\ ScoutTickets \subseteq ScoutTicket
  /\ DEFAULT_REG_COOLDOWN_SECS \in Nat /\ RegCooldowns \subseteq Nat
  /\ NONE \notin ScoutProfile \cup Nat

VARIABLES
  regPaused,            \* registration: Paused
  regCooldownSecs,      \* RegCooldownSecs, its default when absent
  scoutCounter,         \* ScoutCounter
  liveScoutCount,       \* LiveScoutCount
  scout,                \* Scout(id)
  scoutByWallet,        \* ScoutByWallet(wallet)
  scoutDeactivated,     \* the ids whose ScoutDeactivated flag is set
  scoutRegLastSent,     \* ScoutRegLastSent(wallet)
  scoutNonce,           \* the pairs (wallet, nonce) marked by MigrationNonce
  \* What the property needs to know of the past; no guard reads it.
  replacedScouts        \* ids whose live profile a registration replaced

scoutProfiles == <<liveScoutCount, scout, scoutByWallet, scoutDeactivated>>
scoutVars == <<regPaused, regCooldownSecs, scoutCounter, scoutProfiles, scoutRegLastSent,
               scoutNonce, replacedScouts>>

----
GetScout(id) == scout[id]
GetScoutByWallet(w) == IF scoutByWallet[w] = NONE THEN NONE ELSE scout[scoutByWallet[w]]
IsScoutVerified(w) == GetScoutByWallet(w) # NONE /\ GetScoutByWallet(w).verified
IsScoutDeactivated(id) == scout[id] # NONE /\ id \in scoutDeactivated
GetScoutStatus(id) ==
  IF scout[id] = NONE THEN "NotRegistered"
  ELSE IF id \in scoutDeactivated THEN "Deactivated" ELSE "Active"
GetScoutVerification(id) == IF scout[id] = NONE THEN NONE ELSE scout[id].verification
GetScoutCount == liveScoutCount

\* A repeated id is answered once, where it occurs first; a missing one is not.
GetScouts(ids) ==
  LET hits == Filter(Once(ids), {id \in ScoutId : scout[id] # NONE})
  IN  IF Len(ids) > MAX_BATCH_SIZE THEN NONE ELSE [i \in DOMAIN hits |-> scout[hits[i]]]

ScoutCooled(w) ==
  regCooldownSecs # 0 /\ scoutRegLastSent[w] # NONE =>
    now >= scoutRegLastSent[w] + regCooldownSecs

ScoutWalletFree(w) == scoutByWallet[w] = NONE
RequireScoutCapacity == liveScoutCount < MAX_SCOUTS
NextScoutId == scoutCounter + 1
IncrementLiveScoutCount == liveScoutCount' = liveScoutCount + 1

WriteScout(w, id, verified) ==
  /\ scout' = [scout EXCEPT ![id] =
       [wallet |-> w, verified |-> verified,
        verification |-> IF verified THEN "verified" ELSE "never"]]
  /\ scoutByWallet' = [scoutByWallet EXCEPT ![w] = id]
  /\ IncrementLiveScoutCount
  /\ UNCHANGED scoutDeactivated

\* next_scout_id does not look whether a replay has taken the id.
RegisterScout(w) ==
  LET id == NextScoutId IN
  /\ id \in ScoutId
  /\ ~regPaused
  /\ ScoutCooled(w) /\ ScoutWalletFree(w) /\ RequireScoutCapacity
  /\ scoutCounter' = id
  /\ WriteScout(w, id, FALSE)
  /\ scoutRegLastSent' = [scoutRegLastSent EXCEPT ![w] = now]
  /\ replacedScouts' = IF scout[id] = NONE THEN replacedScouts ELSE replacedScouts \cup {id}
  /\ UNCHANGED <<regPaused, regCooldownSecs, scoutNonce>>

\* The part a replay and a redeemed ticket share; the counter does not move.
SeedScout(w, id, verified) ==
  /\ ~regPaused
  /\ scout[id] = NONE /\ RequireScoutCapacity /\ ScoutWalletFree(w)
  /\ WriteScout(w, id, verified)
  /\ UNCHANGED <<regPaused, regCooldownSecs, scoutCounter, scoutRegLastSent, replacedScouts>>

AdminSeedScout(w, id, verified) == SeedScout(w, id, verified) /\ UNCHANGED scoutNonce

\* The ticket covers neither the id nor the verification.
RedeemMigrationScout(ticket, id, verified) ==
  /\ ticket.expires_at > 0 => ticket.expires_at > now
  /\ <<ticket.wallet, ticket.nonce>> \notin scoutNonce
  /\ scoutNonce' = scoutNonce \cup {<<ticket.wallet, ticket.nonce>>}
  /\ SeedScout(ticket.wallet, id, verified)

\* Mutant: the flag of a deactivated scout outlives the profile.
KeepFlag(id) == UNCHANGED scoutDeactivated

ClearScoutFlag(id) == scoutDeactivated' = scoutDeactivated \ {id}

ClearScoutWallet(id) == scoutByWallet' = [scoutByWallet EXCEPT ![scout[id].wallet] = NONE]

DeregisterScout(id) ==
  /\ scout[id] # NONE
  /\ scout' = [scout EXCEPT ![id] = NONE]
  /\ ClearScoutWallet(id) /\ ClearScoutFlag(id)
  /\ liveScoutCount' = IF liveScoutCount = 0 THEN 0 ELSE liveScoutCount - 1
  /\ UNCHANGED <<regPaused, regCooldownSecs, scoutCounter, scoutRegLastSent, scoutNonce,
                 replacedScouts>>

\* Each of the two is a silent success when the flag is as asked.
SetFlag(id, flags) ==
  /\ scout[id] # NONE
  /\ scoutDeactivated' = flags
  /\ UNCHANGED <<regPaused, regCooldownSecs, scoutCounter, liveScoutCount, scout,
                 scoutByWallet, scoutRegLastSent, scoutNonce, replacedScouts>>

DeactivateScout(id) == id \notin scoutDeactivated /\ SetFlag(id, scoutDeactivated \cup {id})
ReactivateScout(id) == id \in scoutDeactivated /\ SetFlag(id, scoutDeactivated \ {id})

SetVerification(id, verified, record) ==
  /\ scout' = [scout EXCEPT ![id].verified = verified, ![id].verification = record]
  /\ UNCHANGED <<regPaused, regCooldownSecs, scoutCounter, liveScoutCount, scoutByWallet,
                 scoutDeactivated, scoutRegLastSent, scoutNonce, replacedScouts>>

VerifyScout(id) ==
  scout[id] # NONE /\ ~scout[id].verified /\ SetVerification(id, TRUE, "verified")

UnverifyScout(id) ==
  scout[id] # NONE /\ scout[id].verified /\ SetVerification(id, FALSE, "revoked")

SetRegPaused(flag) ==
  /\ regPaused # flag
  /\ regPaused' = flag
  /\ UNCHANGED <<regCooldownSecs, scoutCounter, scoutProfiles, scoutRegLastSent, scoutNonce,
                 replacedScouts>>

SetRegCooldown(secs) ==
  /\ regCooldownSecs' = secs
  /\ UNCHANGED <<regPaused, scoutCounter, scoutProfiles, scoutRegLastSent, scoutNonce,
                 replacedScouts>>

ScoutInit ==
  /\ regPaused = FALSE /\ regCooldownSecs = DEFAULT_REG_COOLDOWN_SECS
  /\ scoutCounter = 0 /\ liveScoutCount = 0
  /\ scout = [id \in ScoutId |-> NONE]
  /\ scoutByWallet = [w \in Scouts |-> NONE]
  /\ scoutDeactivated = {} /\ scoutNonce = {} /\ replacedScouts = {}
  /\ scoutRegLastSent = [w \in Scouts |-> NONE]

ScoutNext ==
  \/ \E w \in Scouts : RegisterScout(w)
  \/ \E w \in Scouts, id \in SeedScoutIds, verified \in BOOLEAN :
       AdminSeedScout(w, id, verified)
  \/ \E ticket \in ScoutTickets, id \in SeedScoutIds, verified \in BOOLEAN :
       RedeemMigrationScout(ticket, id, verified)
  \/ \E id \in ScoutId : \/ DeregisterScout(id) \/ DeactivateScout(id) \/ ReactivateScout(id)
                         \/ VerifyScout(id) \/ UnverifyScout(id)
  \/ \E flag \in BOOLEAN : SetRegPaused(flag)
  \/ \E secs \in RegCooldowns : SetRegCooldown(secs)

----
ScoutTypeOK ==
  /\ regPaused \in BOOLEAN /\ regCooldownSecs \in Nat
  /\ scoutCounter \in 0..MaxScoutId /\ liveScoutCount \in 0..MAX_SCOUTS
  /\ scout \in [ScoutId -> ScoutProfile \cup {NONE}]
  /\ scoutByWallet \in [Scouts -> ScoutId \cup {NONE}]
  /\ scoutDeactivated \subseteq ScoutId /\ replacedScouts \subseteq ScoutId
  /\ scoutRegLastSent \in [Scouts -> Nat \cup {NONE}]
  /\ scoutNonce \subseteq Scouts \X Nat

\* Until a registration takes a replayed id, a wallet and a profile name each
\* other, the capacity check counts the profiles there are, an absent profile
\* is not hidden from its successor, and the two copies of the verification
\* that scout_access reads agree (register, replay, redeem, verify, erase).
ScoutsAreConsistent ==
  /\ \A id \in ScoutId :
       GetScout(id) # NONE => GetScout(id).verified = (GetScoutVerification(id) = "verified")
  /\ replacedScouts = {} =>
       /\ \A w \in Scouts, id \in ScoutId :
            scoutByWallet[w] = id <=> scout[id] # NONE /\ scout[id].wallet = w
       /\ GetScoutCount = Cardinality({id \in ScoutId : GetScoutStatus(id) # "NotRegistered"})
       /\ LET answer == GetScouts([i \in 1..(2 * MaxScoutId) |-> (i % MaxScoutId) + 1])
          IN answer # NONE => Len(answer) = GetScoutCount
       /\ \A id \in scoutDeactivated : scout[id] # NONE
====
