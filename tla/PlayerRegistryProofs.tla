---- MODULE PlayerRegistryProofs ----
(***************************************************************************)
(* Proofs about the registration contract's players, for any number of      *)
(* wallets, ids and tickets: profile and wallet name each other, the        *)
(* cooldown holds through erasure, the counter and the discovery indexes    *)
(* follow the profiles, filter_players lists each match once, and a walk    *)
(* of its pages loses no one.                                               *)
(***************************************************************************)
EXTENDS PlayerRegistry, DataTheorems

----
(***************************************************************************)
(* Profiles and wallets.                                                    *)
(***************************************************************************)
ProfileType ==
  /\ playerCounter \in 0..MaxPlayerId
  /\ player \in [Ids -> StoredPlayerProfile \cup {NONE}]
  /\ playerByWallet \in [Wallets -> Ids \cup {NONE}]
  /\ playerDeactivated \subseteq Ids

\* The two keys are inverse to each other, and only a profile is deactivated.
KeysInverse ==
  /\ \A w \in Wallets, id \in Ids :
       playerByWallet[w] = id <=> player[id] # NONE /\ player[id].wallet = w
  /\ \A id \in playerDeactivated : player[id] # NONE

OwnerInv == ProfileType /\ (overwritten = {} => KeysInverse)

\* NONE is no wallet, no id and no profile.
LEMMA NoneIsAbsent ==
  /\ NONE \notin Wallets /\ NONE \notin Ids
  /\ NONE \notin StoredPlayerProfile
  /\ Ids \subseteq Nat
<1>1. MaxPlayerId \in Nat /\ NONE \notin Nat \cup Wallets \cup StoredPlayerProfile
  BY RegistryAssumption
<1>2. Ids \subseteq Nat
  BY <1>1 DEF Ids
<1> QED
  BY <1>1, <1>2

\* What the readers answer follows from the two keys.
LEMMA OwnersAreRead == OwnerInv => WalletsOwnTheirProfiles
<1> SUFFICES ASSUME OwnerInv, overwritten = {}
             PROVE  /\ \A w \in Wallets :
                         GetPlayerByWallet(w) # NONE => GetPlayerByWallet(w).wallet = w
                    /\ \A w \in Wallets, id \in Ids :
                         GetPlayerIdByWallet(w) = id <=> Exists(id) /\ LoadPlayer(id).wallet = w
                    /\ \A id \in playerDeactivated : GetPlayerStatus(id) = "Deactivated"
  BY DEF WalletsOwnTheirProfiles
<1>1. KeysInverse /\ ProfileType
  BY DEF OwnerInv
<1>2. ASSUME NEW id \in Ids, Exists(id) PROVE LoadPlayer(id).wallet = player[id].wallet
  BY <1>2 DEF LoadPlayer
<1>3. ASSUME NEW w \in Wallets, NEW id \in Ids
      PROVE  GetPlayerIdByWallet(w) = id <=> Exists(id) /\ LoadPlayer(id).wallet = w
  BY <1>1, <1>2 DEF GetPlayerIdByWallet, Exists, KeysInverse
<1>4. ASSUME NEW w \in Wallets, GetPlayerByWallet(w) # NONE
      PROVE  GetPlayerByWallet(w).wallet = w
  <2>1. /\ playerByWallet[w] \in Ids
        /\ GetPlayerByWallet(w) = LoadPlayer(playerByWallet[w])
    BY <1>1, <1>4 DEF GetPlayerByWallet, ProfileType
  <2>2. Exists(playerByWallet[w]) /\ player[playerByWallet[w]].wallet = w
    BY <1>1, <2>1 DEF Exists, KeysInverse
  <2> QED
    BY <1>2, <2>1, <2>2
<1>5. ASSUME NEW id \in playerDeactivated PROVE GetPlayerStatus(id) = "Deactivated"
  BY <1>1 DEF GetPlayerStatus, Exists, KeysInverse
<1> QED
  BY <1>3, <1>4, <1>5

\* A profile written for a free wallet under an id.
LEMMA WriteEffect ==
  ASSUME ProfileType, NEW id \in Ids, NEW wallet \in Wallets, NEW vitals \in Vitals, NEW level,
         WriteProfile(id, wallet, vitals, level)
  PROVE  /\ player' \in [Ids -> StoredPlayerProfile \cup {NONE}]
         /\ playerByWallet' \in [Wallets -> Ids \cup {NONE}]
         /\ player'[id] # NONE /\ player'[id].wallet = wallet
         /\ \A j \in Ids : j # id => player'[j] = player[j]
         /\ playerByWallet'[wallet] = id
         /\ \A w \in Wallets : w # wallet => playerByWallet'[w] = playerByWallet[w]
<1> DEFINE new == [wallet |-> wallet, vitals |-> vitals]
<1>1. /\ player' = [player EXCEPT ![id] = new]
      /\ playerByWallet' = [playerByWallet EXCEPT ![wallet] = id]
  BY DEF WriteProfile
<1>2. new \in StoredPlayerProfile /\ new.wallet = wallet
  BY DEF StoredPlayerProfile
<1> HIDE DEF new
<1>3. new # NONE
  BY <1>2, NoneIsAbsent
<1> QED
  BY <1>1, <1>2, <1>3 DEF ProfileType

\* As long as the id was free too, the keys stay inverse to each other.
LEMMA WriteKeepsKeysInverse ==
  ASSUME ProfileType, KeysInverse,
         NEW id \in Ids, NEW wallet \in Wallets, NEW vitals \in Vitals, NEW level,
         ~Exists(id), WalletFree(wallet), WriteProfile(id, wallet, vitals, level),
         playerDeactivated' = playerDeactivated
  PROVE  KeysInverse'
<1>1. player[id] = NONE /\ playerByWallet[wallet] = NONE
  BY DEF Exists, WalletFree
<1>2. ASSUME NEW w \in Wallets, NEW j \in Ids
      PROVE  playerByWallet'[w] = j <=> player'[j] # NONE /\ player'[j].wallet = w
  <2>1. CASE w = wallet
    BY <1>1, <2>1, WriteEffect, NoneIsAbsent DEF KeysInverse
  <2>2. CASE w # wallet
    BY <1>1, <2>2, WriteEffect, NoneIsAbsent DEF KeysInverse
  <2> QED
    BY <2>1, <2>2
<1>3. \A j \in playerDeactivated' : player'[j] # NONE
  BY <1>1, WriteEffect DEF KeysInverse, ProfileType
<1> QED
  BY <1>2, <1>3 DEF KeysInverse

\* register_player: a free id keeps the keys inverse, a taken one is recorded as
\* overwritten.
LEMMA RegisterOwners ==
  ASSUME OwnerInv, NEW wallet \in Wallets, NEW vitals \in Vitals,
         RegisterPlayer(wallet, vitals)
  PROVE  OwnerInv'
<1> DEFINE id == NextPlayerId
<1>1. /\ id <= MaxPlayerId /\ WalletFree(wallet) /\ playerCounter' = id
      /\ WriteProfile(id, wallet, vitals, Unverified)
      /\ overwritten' = IF Exists(id) THEN overwritten \cup {id} ELSE overwritten
      /\ playerDeactivated' = playerDeactivated
  BY DEF RegisterPlayer
<1>2. ProfileType /\ (overwritten = {} => KeysInverse)
  BY DEF OwnerInv
<1>3. id \in Ids /\ id \in Nat
  BY <1>1, <1>2, RegistryAssumption DEF NextPlayerId, ProfileType, Ids
<1> HIDE DEF id
<1>4. ProfileType'
  BY <1>1, <1>2, <1>3, WriteEffect DEF ProfileType
<1>5. ASSUME overwritten' = {} PROVE KeysInverse'
  <2>1. ~Exists(id) /\ overwritten = {}
    BY <1>1, <1>5
  <2> QED
    BY <1>1, <1>2, <1>3, <2>1, WriteKeepsKeysInverse
<1> QED
  BY <1>4, <1>5 DEF OwnerInv

\* Replay and tickets never take a live id.
LEMMA SeedOwners ==
  ASSUME OwnerInv, NEW id \in Ids, NEW wallet \in Wallets, NEW vitals \in Vitals, NEW level,
         Seed(id, wallet, vitals, level)
  PROVE  OwnerInv'
<1>1. /\ ~Exists(id) /\ WalletFree(wallet) /\ WriteProfile(id, wallet, vitals, level)
      /\ playerCounter' = playerCounter /\ playerDeactivated' = playerDeactivated
      /\ overwritten' = overwritten
  BY DEF Seed
<1>2. ProfileType /\ (overwritten = {} => KeysInverse)
  BY DEF OwnerInv
<1>3. ProfileType'
  BY <1>1, <1>2, WriteEffect DEF ProfileType
<1> QED
  BY <1>1, <1>2, <1>3, WriteKeepsKeysInverse DEF OwnerInv

\* deregister_player frees the wallet that its profile names.
LEMMA DeregisterOwners ==
  ASSUME OwnerInv, NEW id \in Ids, DeregisterPlayer(id)
  PROVE  OwnerInv'
<1> DEFINE owner == player[id].wallet
<1>1. /\ player[id] # NONE
      /\ player' = [player EXCEPT ![id] = NONE]
      /\ playerByWallet' = [playerByWallet EXCEPT ![owner] = NONE]
      /\ playerDeactivated' = playerDeactivated \ {id}
      /\ playerCounter' = playerCounter /\ overwritten' = overwritten
  BY DEF DeregisterPlayer, Exists, FlagCleared, history
<1>2. ProfileType /\ (overwritten = {} => KeysInverse)
  BY DEF OwnerInv
<1>3. owner \in Wallets
  BY <1>1, <1>2 DEF ProfileType, StoredPlayerProfile
<1> HIDE DEF owner
<1>4. ProfileType'
  BY <1>1, <1>2, <1>3 DEF ProfileType
<1>5. ASSUME overwritten = {} PROVE KeysInverse'
  <2>1. KeysInverse
    BY <1>2, <1>5
  <2>2. ASSUME NEW w \in Wallets, NEW j \in Ids
        PROVE  playerByWallet'[w] = j <=> player'[j] # NONE /\ player'[j].wallet = w
    <3>1. CASE w = owner
      BY <1>1, <1>2, <1>3, <2>1, <3>1, NoneIsAbsent DEF KeysInverse, ProfileType, owner
    <3>2. CASE w # owner
      BY <1>1, <1>2, <1>3, <2>1, <3>2, NoneIsAbsent DEF KeysInverse, ProfileType, owner
    <3> QED
      BY <3>1, <3>2
  <2>3. \A j \in playerDeactivated' : player'[j] # NONE
    BY <1>1, <1>2, <2>1 DEF KeysInverse, ProfileType
  <2> QED
    BY <2>2, <2>3 DEF KeysInverse
<1> QED
  BY <1>1, <1>4, <1>5 DEF OwnerInv

\* A profile is hidden only while it exists.
LEMMA StatusOwners ==
  ASSUME OwnerInv, NEW id \in Ids, DeactivatePlayer(id) \/ ReactivatePlayer(id)
  PROVE  OwnerInv'
<1>1. /\ player[id] # NONE
      /\ playerDeactivated' \subseteq playerDeactivated \cup {id}
      /\ UNCHANGED <<player, playerByWallet, playerCounter, overwritten>>
  BY DEF DeactivatePlayer, ReactivatePlayer, Exists, profiles, history
<1> QED
  BY <1>1 DEF OwnerInv, ProfileType, KeysInverse

Owners == <<player, playerByWallet, playerCounter, playerDeactivated, overwritten>>
Stamps == <<playerCounter, playerByWallet, playerRegLastSent, lastRegistered>>

\* The steps that touch neither profiles nor the stamps of registrations.
LEMMA OtherSteps ==
  ASSUME \/ PauseContract \/ UnpauseContract \/ SetProgressContract \/ NextPage \/ Tick
         \/ \E secs \in Cooldowns : SetRegCooldown(secs)
         \/ \E id \in Ids, level \in Levels : SetPlayerLevel(id, level)
         \/ \E query \in Queries, limit \in PageLimits : FirstPage(query, limit)
         \/ UNCHANGED vars
  PROVE  UNCHANGED <<Owners, Stamps>>
BY DEF PauseContract, UnpauseContract, SetProgressContract, NextPage, Tick, SetRegCooldown,
       SetPlayerLevel, FirstPage, vars, registryVars, profiles, history, Owners, Stamps

\* Both kinds of initial state: the legacy profiles have an id and a wallet each.
LEMMA InitOwners == ASSUME Init PROVE OwnerInv
<1>1. PICK old \in {{}, LegacyPlayers} : InitWith(old)
  BY DEF Init
<1>2. /\ old \subseteq [id : Ids, wallet : Wallets, vitals : Vitals, level : ProgressLevel]
      /\ \A o1, o2 \in old : o1 # o2 => o1.id # o2.id /\ o1.wallet # o2.wallet
  BY LegacyAssumption
<1> DEFINE OfId(id) == CHOOSE o \in old : o.id = id
           OfWallet(w) == CHOOSE o \in old : o.wallet = w
<1>3. \A o \in old : OfId(o.id) = o /\ OfWallet(o.wallet) = o
  BY <1>2
<1>4. player = [id \in Ids |-> IF \E o \in old : o.id = id
                               THEN [wallet |-> OfId(id).wallet, vitals |-> OfId(id).vitals]
                               ELSE NONE]
  BY <1>1 DEF InitWith
<1>5. playerByWallet = [w \in Wallets |-> IF \E o \in old : o.wallet = w
                                          THEN OfWallet(w).id ELSE NONE]
  BY <1>1 DEF InitWith
<1> HIDE DEF OfId, OfWallet
<1>6. \A o \in old : /\ o.id \in Ids /\ o.wallet \in Wallets
                     /\ [wallet |-> o.wallet, vitals |-> o.vitals] \in StoredPlayerProfile
  BY <1>2 DEF StoredPlayerProfile
<1>7. /\ player \in [Ids -> StoredPlayerProfile \cup {NONE}]
      /\ playerByWallet \in [Wallets -> Ids \cup {NONE}]
  BY <1>3, <1>4, <1>5, <1>6
<1>8. playerDeactivated = {}
  BY <1>1 DEF InitWith
<1>9. ASSUME NEW w \in Wallets, NEW id \in Ids
      PROVE  playerByWallet[w] = id <=> player[id] # NONE /\ player[id].wallet = w
  <2>1. playerByWallet[w] = id <=> \E o \in old : o.wallet = w /\ o.id = id
    BY <1>3, <1>5, NoneIsAbsent
  <2>2. player[id] # NONE /\ player[id].wallet = w <=> \E o \in old : o.wallet = w /\ o.id = id
    <3>1. CASE \E o \in old : o.id = id
      <4>1. PICK o \in old : o.id = id
        BY <3>1
      <4>2. player[id] = [wallet |-> o.wallet, vitals |-> o.vitals]
        BY <1>3, <1>4, <4>1
      <4>3. player[id] # NONE /\ player[id].wallet = o.wallet
        BY <1>6, <4>2, NoneIsAbsent
      <4>4. \A other \in old : other.id = id => other = o
        BY <1>2, <4>1
      <4> QED
        BY <4>1, <4>3, <4>4
    <3>2. CASE ~\E o \in old : o.id = id
      BY <1>4, <3>2
    <3> QED
      BY <3>1, <3>2
  <2> QED
    BY <2>1, <2>2
<1>10. KeysInverse
  BY <1>8, <1>9 DEF KeysInverse
<1>11. playerCounter \in 0..MaxPlayerId
  <2>1. playerCounter \in {0} \cup {o.id : o \in old}
    BY <1>1 DEF InitWith
  <2>2. \A o \in old : o.id \in 0..MaxPlayerId
    <3>1. \A id \in Ids : id \in 0..MaxPlayerId
      BY RegistryAssumption DEF Ids
    <3> QED
      BY <1>6, <3>1
  <2>3. 0 \in 0..MaxPlayerId
    BY RegistryAssumption
  <2> QED
    BY <2>1, <2>2, <2>3
<1> QED
  BY <1>7, <1>8, <1>10, <1>11 DEF OwnerInv, ProfileType

LEMMA OwnersInductive == Spec => []OwnerInv
<1>1. Init => OwnerInv
  BY InitOwners
<1>2. OwnerInv /\ [Next]_vars => OwnerInv'
  <2> SUFFICES ASSUME OwnerInv, [Next]_vars PROVE OwnerInv'
    OBVIOUS
  <2>1. CASE \E wallet \in Wallets, vitals \in Vitals : RegisterPlayer(wallet, vitals)
    BY <2>1, RegisterOwners
  <2>2. CASE \E id \in SeedIds, wallet \in Wallets, vitals \in Vitals, level \in Levels :
               AdminSeedPlayer(id, wallet, vitals, level)
    BY <2>2, SeedOwners, RegistryAssumption DEF AdminSeedPlayer
  <2>3. CASE \E auth \in Authorizations, id \in Ids, vitals \in Vitals, level \in Levels :
               RedeemMigrationPlayer(auth, id, vitals, level)
    <3>1. PICK auth \in Authorizations, id \in Ids, vitals \in Vitals, level \in Levels :
            RedeemMigrationPlayer(auth, id, vitals, level)
      BY <2>3
    <3>2. auth.wallet \in Wallets
      <4>1. auth \in MigrationAuthorization
        BY RegistryAssumption
      <4> QED
        BY <4>1 DEF MigrationAuthorization
    <3> QED
      BY <3>1, <3>2, SeedOwners DEF RedeemMigrationPlayer
  <2>4. CASE \E id \in Ids : DeregisterPlayer(id)
    BY <2>4, DeregisterOwners
  <2>5. CASE \E id \in Ids : DeactivatePlayer(id) \/ ReactivatePlayer(id)
    BY <2>5, StatusOwners
  <2>6. CASE UNCHANGED <<Owners, Stamps>>
    BY <2>6 DEF Owners, OwnerInv, ProfileType, KeysInverse
  <2> QED
    BY <2>1, <2>2, <2>3, <2>4, <2>5, <2>6, OtherSteps DEF Next
<1> QED
  BY <1>1, <1>2, PTL DEF Spec

\* register_player, admin_seed_player, redeem_migration_player and
\* deregister_player: whichever interleave, a wallet's id and an id's wallet agree,
\* and no erased id keeps a flag, until a registration takes an id that was replayed.
THEOREM OwnersAgree == Spec => []WalletsOwnTheirProfiles
BY OwnersInductive, OwnersAreRead, PTL

----
(***************************************************************************)
(* The cooldown.                                                            *)
(***************************************************************************)
\* The stamp that the contract keeps is that of the wallet's last registration,
\* and none lies ahead of the clock.
StampInv ==
  /\ now \in Nat /\ cooldownSecs \in Nat
  /\ playerRegLastSent \in [Wallets -> Nat \cup {NONE}]
  /\ lastRegistered = playerRegLastSent
  /\ \A w \in Wallets : playerRegLastSent[w] # NONE => playerRegLastSent[w] <= now

\* Only a registration writes a stamp; erasure leaves them.
LEMMA StampFrame ==
  ASSUME StampInv, [Next]_vars
  PROVE  \/ \E wallet \in Wallets, vitals \in Vitals : RegisterPlayer(wallet, vitals)
         \/ UNCHANGED <<playerCounter, playerRegLastSent, lastRegistered>>
<1>1. ASSUME NEW id \in Ids, NEW wallet, NEW vitals, NEW level, Seed(id, wallet, vitals, level)
      PROVE  UNCHANGED <<playerCounter, playerRegLastSent, lastRegistered>>
  BY <1>1 DEF Seed
<1>2. CASE \E id \in SeedIds, wallet \in Wallets, vitals \in Vitals, level \in Levels :
             AdminSeedPlayer(id, wallet, vitals, level)
  BY <1>1, <1>2, RegistryAssumption DEF AdminSeedPlayer
<1>3. CASE \E auth \in Authorizations, id \in Ids, vitals \in Vitals, level \in Levels :
             RedeemMigrationPlayer(auth, id, vitals, level)
  BY <1>1, <1>3 DEF RedeemMigrationPlayer
<1>4. CASE \E id \in Ids : DeregisterPlayer(id) \/ DeactivatePlayer(id) \/ ReactivatePlayer(id)
  BY <1>4 DEF DeregisterPlayer, DeactivatePlayer, ReactivatePlayer, history
<1> QED
  BY <1>2, <1>3, <1>4, OtherSteps DEF Next, Stamps

\* The clock only advances, and the cooldown is a number of seconds.
LEMMA ClockFrame ==
  ASSUME StampInv, [Next]_vars
  PROVE  now' \in Nat /\ now' >= now /\ cooldownSecs' \in Nat
<1>1. CASE Tick
  BY <1>1 DEF Tick, StampInv, settings
<1>2. CASE \E secs \in Cooldowns : SetRegCooldown(secs)
  BY <1>2, RegistryAssumption DEF SetRegCooldown, StampInv
<1>3. ASSUME now' = now, cooldownSecs' = cooldownSecs
      PROVE  now' \in Nat /\ now' >= now /\ cooldownSecs' \in Nat
  BY <1>3 DEF StampInv
<1>4. CASE \/ PauseContract \/ UnpauseContract \/ SetProgressContract \/ NextPage
           \/ \E id \in Ids : DeactivatePlayer(id) \/ ReactivatePlayer(id)
           \/ \E id \in Ids, level \in Levels : SetPlayerLevel(id, level)
           \/ \E query \in Queries, limit \in PageLimits : FirstPage(query, limit)
           \/ UNCHANGED vars
  BY <1>3, <1>4 DEF PauseContract, UnpauseContract, SetProgressContract, NextPage,
                    DeactivatePlayer, ReactivatePlayer, SetPlayerLevel, FirstPage, vars,
                    registryVars, settings
<1>5. CASE \/ \E wallet \in Wallets, vitals \in Vitals : RegisterPlayer(wallet, vitals)
           \/ \E id \in Ids : DeregisterPlayer(id)
  BY <1>3, <1>5 DEF RegisterPlayer, DeregisterPlayer, settings
<1>6. CASE \/ \E id \in SeedIds, wallet \in Wallets, vitals \in Vitals, level \in Levels :
                AdminSeedPlayer(id, wallet, vitals, level)
           \/ \E auth \in Authorizations, id \in Ids, vitals \in Vitals, level \in Levels :
                RedeemMigrationPlayer(auth, id, vitals, level)
  BY <1>3, <1>6 DEF AdminSeedPlayer, RedeemMigrationPlayer, Seed, settings
<1> QED
  BY <1>1, <1>2, <1>4, <1>5, <1>6 DEF Next

\* A registration stamps its wallet with the present.
LEMMA StampInductive ==
  ASSUME StampInv, [Next]_vars
  PROVE  StampInv'
<1>1. now' \in Nat /\ now' >= now /\ cooldownSecs' \in Nat /\ now \in Nat
  BY ClockFrame DEF StampInv
<1>2. CASE \E wallet \in Wallets, vitals \in Vitals : RegisterPlayer(wallet, vitals)
  <2>1. PICK wallet \in Wallets, vitals \in Vitals : RegisterPlayer(wallet, vitals)
    BY <1>2
  <2>2. /\ playerRegLastSent' = [playerRegLastSent EXCEPT ![wallet] = now]
        /\ lastRegistered' = [lastRegistered EXCEPT ![wallet] = now]
    BY <2>1 DEF RegisterPlayer
  <2> QED
    BY <1>1, <2>2 DEF StampInv
<1>3. CASE UNCHANGED <<playerCounter, playerRegLastSent, lastRegistered>>
  BY <1>1, <1>3 DEF StampInv
<1> QED
  BY <1>2, <1>3, StampFrame

\* What the invariant allows a step that takes an id.
LEMMA CooldownStep ==
  ASSUME StampInv, [Next]_vars, NEW w \in Wallets, lastRegistered[w] # NONE,
         playerCounter' # playerCounter, playerByWallet[w] = NONE, playerByWallet'[w] # NONE
  PROVE  now >= lastRegistered[w] + cooldownSecs
<1>1. PICK wallet \in Wallets, vitals \in Vitals : RegisterPlayer(wallet, vitals)
  BY StampFrame
<1>2. w = wallet
  <2>1. playerByWallet' = [playerByWallet EXCEPT ![wallet] = NextPlayerId]
    BY <1>1 DEF RegisterPlayer, WriteProfile
  <2> QED
    BY <2>1
<1>3. Cooled(w)
  BY <1>1, <1>2 DEF RegisterPlayer
<1>4. /\ lastRegistered[w] = playerRegLastSent[w] /\ lastRegistered[w] \in Nat
      /\ lastRegistered[w] <= now /\ now \in Nat /\ cooldownSecs \in Nat
  BY DEF StampInv
<1> QED
  BY <1>3, <1>4 DEF Cooled

LEMMA StampsInductive == Spec => []StampInv
<1>1. Init => StampInv
  <2> SUFFICES ASSUME Init PROVE StampInv
    OBVIOUS
  <2>1. /\ now = 0 /\ cooldownSecs = DEFAULT_REG_COOLDOWN_SECS
        /\ playerRegLastSent = [w \in Wallets |-> NONE]
        /\ lastRegistered = [w \in Wallets |-> NONE]
    BY DEF Init, InitWith
  <2> QED
    BY <2>1, RegistryAssumption DEF StampInv
<1>2. StampInv /\ [Next]_vars => StampInv'
  BY StampInductive
<1> QED
  BY <1>1, <1>2, PTL DEF Spec

\* enforce_reg_cooldown: a wallet that registers, is erased and registers again has
\* waited, for any cooldown, also one that the admin has changed in between.
THEOREM CooldownHolds == Spec => CooldownOutlivesErasure
<1>1. StampInv /\ [Next]_vars =>
        [\A w \in Wallets :
           lastRegistered[w] # NONE /\ playerCounter' # playerCounter
             /\ playerByWallet[w] = NONE /\ playerByWallet'[w] # NONE =>
           now >= lastRegistered[w] + cooldownSecs]_vars
  BY CooldownStep
<1> QED
  BY <1>1, StampsInductive, PTL DEF Spec, CooldownOutlivesErasure
----
(***************************************************************************)
(* What a step may do to profiles and indexes.                              *)
(***************************************************************************)
IdList == Seq(Ids)
Buckets == [ProgressLevel -> [Regions -> IdList]]

IndexType ==
  /\ playerIndex \in IdList
  /\ byLevel \in [ProgressLevel -> IdList]
  /\ byLevelRegion \in Buckets
  /\ playerLevel \in [Ids -> ProgressLevel \cup {NONE}]
  /\ progressLevel \in [Ids -> ProgressLevel]
  /\ livePlayerCount \in Nat
  /\ overwritten \subseteq Ids

\* The keys that only registration, replay, erasure and a level write-back touch.
Registered == <<player, playerLevel, livePlayerCount, playerIndex, byLevel, byLevelRegion,
                progressLevel, overwritten>>

LEMMA ListSteps ==
  ASSUME NEW s \in IdList, NEW id \in Ids
  PROVE  Append(s, id) \in IdList /\ RemoveFirst(s, id) \in IdList
BY RemoveFirstType, AppendProperties, Zenon DEF IdList

LEMMA RangeEntries ==
  ASSUME NEW S, NEW s \in Seq(S), NEW x
  PROVE  x \in Range(s) <=> Contains(s, x)
<1>1. DOMAIN s = 1..Len(s)
  BY LenProperties, Zenon
<1> QED
  BY <1>1 DEF Range, Contains

LEMMA LevelsAreKnown ==
  /\ NONE \notin ProgressLevel
  /\ ProgressLevel = 0..3 /\ Unverified \in ProgressLevel
  /\ Levels \subseteq ProgressLevel /\ SeedIds \subseteq Ids
<1>1. ProgressLevel = 0..3
  BY DEF ProgressLevel, Unverified, EliteTier
<1> QED
  BY <1>1, RegistryAssumption DEF Unverified

\* A profile's region has buckets.
LEMMA RegionIndexed ==
  ASSUME ProfileType, NEW id \in Ids, Exists(id)
  PROVE  player[id].vitals.region \in Regions
<1>1. player[id] \in StoredPlayerProfile
  BY DEF Exists, ProfileType
<1>2. player[id].vitals \in Vitals
  BY <1>1 DEF StoredPlayerProfile
<1> QED
  BY <1>2 DEF Regions

\* Registration, replay (by the admin or with a ticket), erasure and the level
\* write-back; every other step leaves the registered keys as they are.
LEMMA RegistrySteps ==
  ASSUME [Next]_vars
  PROVE  \/ \E wallet \in Wallets, vitals \in Vitals : RegisterPlayer(wallet, vitals)
         \/ \E id \in Ids, wallet \in Wallets, vitals \in Vitals, level \in ProgressLevel :
              Seed(id, wallet, vitals, level)
         \/ \E id \in Ids : DeregisterPlayer(id)
         \/ \E id \in Ids, level \in ProgressLevel : SetPlayerLevel(id, level)
         \/ UNCHANGED Registered /\ (progressWired => progressWired')
<1>1. CASE \E id \in SeedIds, wallet \in Wallets, vitals \in Vitals, level \in Levels :
             AdminSeedPlayer(id, wallet, vitals, level)
  BY <1>1, LevelsAreKnown DEF AdminSeedPlayer
<1>2. CASE \E auth \in Authorizations, id \in Ids, vitals \in Vitals, level \in Levels :
             RedeemMigrationPlayer(auth, id, vitals, level)
  <2>1. PICK auth \in Authorizations, id \in Ids, vitals \in Vitals, level \in Levels :
          RedeemMigrationPlayer(auth, id, vitals, level)
    BY <1>2
  <2>2. auth \in MigrationAuthorization
    BY RegistryAssumption
  <2>3. auth.wallet \in Wallets
    BY <2>2 DEF MigrationAuthorization
  <2>4. Seed(id, auth.wallet, vitals, level)
    BY <2>1 DEF RedeemMigrationPlayer
  <2> QED
    BY <2>3, <2>4, LevelsAreKnown
<1>3. CASE \E id \in Ids, level \in Levels : SetPlayerLevel(id, level)
  BY <1>3, LevelsAreKnown
<1>4. CASE \/ PauseContract \/ UnpauseContract \/ SetProgressContract \/ NextPage \/ Tick
           \/ \E secs \in Cooldowns : SetRegCooldown(secs)
           \/ \E id \in Ids : DeactivatePlayer(id) \/ ReactivatePlayer(id)
           \/ \E query \in Queries, limit \in PageLimits : FirstPage(query, limit)
           \/ UNCHANGED vars
  <2>1. UNCHANGED Registered
    BY <1>4 DEF PauseContract, UnpauseContract, SetProgressContract, NextPage, Tick,
                SetRegCooldown, DeactivatePlayer, ReactivatePlayer, FirstPage, vars,
                registryVars, profiles, indexes, history, Registered
  <2>2. progressWired => progressWired'
    BY <1>4 DEF PauseContract, UnpauseContract, SetProgressContract, NextPage, Tick,
                SetRegCooldown, DeactivatePlayer, ReactivatePlayer, FirstPage, vars,
                registryVars, settings
  <2> QED
    BY <2>1, <2>2
<1> QED
  BY <1>1, <1>2, <1>3, <1>4 DEF Next

\* A new profile under id, at level, entered in the buckets.
Entered(id, vitals, level) ==
  /\ player'[id] # NONE /\ player'[id].vitals = vitals
  /\ \A j \in Ids : j # id => player'[j] = player[j]
  /\ playerLevel' = [playerLevel EXCEPT ![id] = level]
  /\ byLevel' = [byLevel EXCEPT ![level] = Append(@, id)]
  /\ byLevelRegion' = [byLevelRegion EXCEPT ![level][vitals.region] = Append(@, id)]
  /\ UNCHANGED <<progressLevel, progressWired>>

LEMMA RegisterEnters ==
  ASSUME ProfileType, NEW wallet \in Wallets, NEW vitals \in Vitals,
         RegisterPlayer(wallet, vitals)
  PROVE  \E id \in Ids :
           /\ Entered(id, vitals, Unverified)
           /\ playerIndex' = Append(playerIndex, id)
           /\ livePlayerCount' = livePlayerCount + 1
           /\ overwritten' = IF Exists(id) THEN overwritten \cup {id} ELSE overwritten
<1> DEFINE id == NextPlayerId
<1>1. /\ id <= MaxPlayerId /\ WriteProfile(id, wallet, vitals, Unverified)
      /\ playerIndex' = Append(playerIndex, id)
      /\ CompositeIndexAdd(id, Unverified, vitals.region) /\ LevelIndexAdd(id, Unverified)
      /\ IncrementLivePlayerCount
      /\ overwritten' = IF Exists(id) THEN overwritten \cup {id} ELSE overwritten
      /\ UNCHANGED <<progressLevel, progressWired>>
  BY DEF RegisterPlayer, settings
<1>2. id \in Ids
  BY <1>1, RegistryAssumption DEF NextPlayerId, ProfileType, Ids
<1> HIDE DEF id
<1>3. player'[id] # NONE /\ \A j \in Ids : j # id => player'[j] = player[j]
  BY <1>1, <1>2, WriteEffect
<1>4. player'[id].vitals = vitals /\ playerLevel' = [playerLevel EXCEPT ![id] = Unverified]
  BY <1>1, <1>2 DEF WriteProfile, ProfileType
<1> QED
  BY <1>1, <1>2, <1>3, <1>4
     DEF Entered, CompositeIndexAdd, LevelIndexAdd, IncrementLivePlayerCount

LEMMA SeedEnters ==
  ASSUME ProfileType, NEW id \in Ids, NEW wallet \in Wallets, NEW vitals \in Vitals, NEW level,
         Seed(id, wallet, vitals, level)
  PROVE  /\ ~Exists(id) /\ Entered(id, vitals, level)
         /\ IF id \in Range(playerIndex)
            THEN UNCHANGED <<playerIndex, livePlayerCount>>
            ELSE /\ playerIndex' = Append(playerIndex, id)
                 /\ livePlayerCount' = livePlayerCount + 1
         /\ overwritten' = overwritten
<1>1. /\ ~Exists(id) /\ WriteProfile(id, wallet, vitals, level)
      /\ IF id \in Range(playerIndex)
         THEN UNCHANGED <<playerIndex, livePlayerCount>>
         ELSE playerIndex' = Append(playerIndex, id) /\ IncrementLivePlayerCount
      /\ CompositeIndexAdd(id, level, vitals.region) /\ LevelIndexAdd(id, level)
      /\ UNCHANGED <<progressLevel, progressWired, overwritten>>
  BY DEF Seed, settings
<1>2. player'[id] # NONE /\ \A j \in Ids : j # id => player'[j] = player[j]
  BY <1>1, WriteEffect
<1>3. player'[id].vitals = vitals /\ playerLevel' = [playerLevel EXCEPT ![id] = level]
  BY <1>1 DEF WriteProfile, ProfileType
<1> QED
  BY <1>1, <1>2, <1>3
     DEF Entered, CompositeIndexAdd, LevelIndexAdd, IncrementLivePlayerCount

\* The profile of id gone, and its first entry in each vector.
Left(id, region, level) ==
  /\ player' = [player EXCEPT ![id] = NONE]
  /\ playerLevel' = [playerLevel EXCEPT ![id] = NONE]
  /\ playerIndex' = RemoveFirst(playerIndex, id)
  /\ livePlayerCount' = Decremented(livePlayerCount)
  /\ byLevel' = [byLevel EXCEPT ![level] = RemoveFirst(@, id)]
  /\ byLevelRegion' = [byLevelRegion EXCEPT ![level][region] = RemoveFirst(@, id)]
  /\ UNCHANGED <<progressLevel, progressWired, overwritten>>

StoredLevel(id) == IF playerLevel[id] = NONE THEN Unverified ELSE playerLevel[id]

LEMMA DeregisterLeaves ==
  ASSUME NEW id \in Ids, DeregisterPlayer(id)
  PROVE  Exists(id) /\ Left(id, player[id].vitals.region, StoredLevel(id))
BY DEF DeregisterPlayer, Left, StoredLevel, CompositeIndexRemove, LevelIndexRemove, settings,
       history

\* A bucket of level l after id has moved from the levels of from to level.
Moved(bucket, l, id, from, level) ==
  IF l = level
  THEN Append(IF l \in from THEN RemoveFirst(bucket, id) ELSE bucket, id)
  ELSE IF l \in from THEN RemoveFirst(bucket, id) ELSE bucket

LevelsLeft(id) == IF playerLevel[id] = NONE THEN ProgressLevel ELSE {playerLevel[id]}

LEMMA LevelMoves ==
  ASSUME IndexType, NEW id \in Ids, NEW level \in ProgressLevel, SetPlayerLevel(id, level)
  PROVE  /\ progressWired /\ progressWired' /\ Exists(id)
         /\ progressLevel' = [progressLevel EXCEPT ![id] = level]
         /\ playerLevel' = [playerLevel EXCEPT ![id] = level]
         /\ byLevel' = [l \in ProgressLevel |-> Moved(byLevel[l], l, id, LevelsLeft(id), level)]
         /\ DOMAIN byLevelRegion' = ProgressLevel
         /\ \A l \in ProgressLevel :
              byLevelRegion'[l] =
                [byLevelRegion[l] EXCEPT ![player[id].vitals.region] =
                                           Moved(@, l, id, LevelsLeft(id), level)]
         /\ UNCHANGED <<player, playerIndex, livePlayerCount, overwritten>>
<1>1. /\ progressWired /\ Exists(id)
      /\ progressLevel' = [progressLevel EXCEPT ![id] = level]
      /\ playerLevel' = [playerLevel EXCEPT ![id] = level]
      /\ IndexMove(id, LevelsLeft(id), level, player[id].vitals.region)
      /\ UNCHANGED <<progressWired, player, playerIndex, livePlayerCount, overwritten>>
  BY DEF SetPlayerLevel, LevelsLeft, settings, history
<1>2. /\ byLevel' = [l \in ProgressLevel |-> Moved(byLevel[l], l, id, LevelsLeft(id), level)]
      /\ byLevelRegion' =
           [l \in ProgressLevel |->
              [byLevelRegion[l] EXCEPT ![player[id].vitals.region] =
                                         Moved(@, l, id, LevelsLeft(id), level)]]
  BY <1>1, Zenon DEF IndexMove, Moved
<1> HIDE DEF LevelsLeft
<1> QED
  BY <1>1, <1>2

----
(***************************************************************************)
(* The indexes hold ids, and the counter is a number.                       *)
(***************************************************************************)
LEMMA EnteredType ==
  ASSUME IndexType, NEW id \in Ids, NEW vitals \in Vitals, NEW level \in ProgressLevel,
         Entered(id, vitals, level)
  PROVE  /\ byLevel' \in [ProgressLevel -> IdList]
         /\ byLevelRegion' \in Buckets
         /\ playerLevel' \in [Ids -> ProgressLevel \cup {NONE}]
         /\ progressLevel' \in [Ids -> ProgressLevel]
<1>1. vitals.region \in Regions
  BY DEF Regions
<1>2. \A l \in ProgressLevel : Append(byLevel[l], id) \in IdList
  BY ListSteps DEF IndexType
<1>3. \A l \in ProgressLevel, r \in Regions : Append(byLevelRegion[l][r], id) \in IdList
  BY ListSteps DEF IndexType, Buckets
<1> QED
  BY <1>1, <1>2, <1>3 DEF Entered, IndexType, Buckets

LEMMA TypeStep ==
  ASSUME ProfileType, IndexType, [Next]_vars
  PROVE  IndexType'
<1>1. ASSUME NEW wallet \in Wallets, NEW vitals \in Vitals, RegisterPlayer(wallet, vitals)
      PROVE  IndexType'
  <2>1. PICK id \in Ids :
          /\ Entered(id, vitals, Unverified)
          /\ playerIndex' = Append(playerIndex, id)
          /\ livePlayerCount' = livePlayerCount + 1
          /\ overwritten' = IF Exists(id) THEN overwritten \cup {id} ELSE overwritten
    BY <1>1, RegisterEnters
  <2>2. playerIndex' \in IdList
    BY <2>1, ListSteps DEF IndexType
  <2> QED
    BY <2>1, <2>2, EnteredType, LevelsAreKnown DEF IndexType
<1>2. ASSUME NEW id \in Ids, NEW wallet \in Wallets, NEW vitals \in Vitals,
             NEW level \in ProgressLevel, Seed(id, wallet, vitals, level)
      PROVE  IndexType'
  <2>1. /\ Entered(id, vitals, level)
        /\ IF id \in Range(playerIndex)
           THEN UNCHANGED <<playerIndex, livePlayerCount>>
           ELSE /\ playerIndex' = Append(playerIndex, id)
                /\ livePlayerCount' = livePlayerCount + 1
        /\ overwritten' = overwritten
    BY <1>2, SeedEnters
  <2>2. playerIndex' \in IdList
    BY <2>1, ListSteps DEF IndexType
  <2> QED
    BY <2>1, <2>2, EnteredType DEF IndexType
<1>3. ASSUME NEW id \in Ids, DeregisterPlayer(id) PROVE IndexType'
  <2>1. Exists(id) /\ Left(id, player[id].vitals.region, StoredLevel(id))
    BY <1>3, DeregisterLeaves
  <2>2. player[id].vitals.region \in Regions /\ StoredLevel(id) \in ProgressLevel
    BY <2>1, RegionIndexed, LevelsAreKnown DEF StoredLevel, IndexType
  <2>3. PICK r \in Regions, level \in ProgressLevel : Left(id, r, level)
    BY <2>1, <2>2
  <2>4. \A l \in ProgressLevel : RemoveFirst(byLevel[l], id) \in IdList
    BY ListSteps DEF IndexType
  <2>5. \A l \in ProgressLevel, q \in Regions : RemoveFirst(byLevelRegion[l][q], id) \in IdList
    BY ListSteps DEF IndexType, Buckets
  <2>6. playerIndex' \in IdList /\ livePlayerCount' \in Nat
    <3>1. /\ playerIndex' = RemoveFirst(playerIndex, id)
          /\ livePlayerCount' = Decremented(livePlayerCount)
      BY <2>3, Zenon DEF Left
    <3>2. Decremented(livePlayerCount) \in Nat
      BY DEF IndexType, Decremented
    <3> QED
      BY <3>1, <3>2, ListSteps DEF IndexType
  <2>7. byLevel' \in [ProgressLevel -> IdList] /\ byLevelRegion' \in Buckets
    <3>1. PICK s, t : s = RemoveFirst(byLevel[level], id) /\ t = RemoveFirst(byLevelRegion[level][r], id)
      OBVIOUS
    <3>2. /\ byLevel' = [byLevel EXCEPT ![level] = s]
          /\ byLevelRegion' = [byLevelRegion EXCEPT ![level][r] = t]
      BY <2>3, <3>1, Zenon DEF Left
    <3>3. s \in IdList /\ t \in IdList
      BY <2>4, <2>5, <3>1
    <3> QED
      BY <3>2, <3>3 DEF IndexType, Buckets
  <2>8. UNCHANGED <<progressLevel, overwritten>> /\ playerLevel' = [playerLevel EXCEPT ![id] = NONE]
    BY <2>3 DEF Left
  <2> QED
    BY <2>6, <2>7, <2>8 DEF IndexType
<1>4. ASSUME NEW id \in Ids, NEW level \in ProgressLevel, SetPlayerLevel(id, level)
      PROVE  IndexType'
  <2> DEFINE R == player[id].vitals.region
             From == LevelsLeft(id)
  <2>1. R \in Regions
    BY <1>4, LevelMoves, RegionIndexed
  <2>2. \A s \in IdList : \A l : Moved(s, l, id, From, level) \in IdList
    BY ListSteps DEF Moved
  <2>3. /\ progressLevel' = [progressLevel EXCEPT ![id] = level]
        /\ playerLevel' = [playerLevel EXCEPT ![id] = level]
        /\ byLevel' = [l \in ProgressLevel |-> Moved(byLevel[l], l, id, From, level)]
        /\ UNCHANGED <<playerIndex, livePlayerCount, overwritten>>
    BY <1>4, LevelMoves
  <2>4. byLevelRegion' = [l \in ProgressLevel |-> byLevelRegion'[l]]
    BY <1>4 DEF SetPlayerLevel, IndexMove
  <2>5. ASSUME NEW l \in ProgressLevel PROVE byLevelRegion'[l] \in [Regions -> IdList]
    <3>1. byLevelRegion'[l] = [byLevelRegion[l] EXCEPT ![R] = Moved(@, l, id, From, level)]
      BY <1>4, LevelMoves
    <3> QED
      BY <2>1, <2>2, <3>1 DEF IndexType, Buckets
  <2> HIDE DEF R, From
  <2>6. byLevelRegion' \in Buckets
    BY <2>4, <2>5 DEF Buckets
  <2> QED
    BY <2>2, <2>3, <2>6 DEF IndexType
<1>5. CASE UNCHANGED Registered
  BY <1>5 DEF Registered, IndexType
<1> QED
  BY <1>1, <1>2, <1>3, <1>4, <1>5, RegistrySteps

\* The legacy profiles of the initial state, in the order of their ids.
LEMMA LegacyListed ==
  ASSUME NEW old, old \subseteq [id : Ids, wallet : Wallets, vitals : Vitals, level : ProgressLevel]
  PROVE  /\ LegacyIn(old) \in Seq(Ids)
         /\ \A id \in Ids : Occurrences(LegacyIn(old), id) =
                              IF \E o \in old : o.id = id THEN 1 ELSE 0
<1> DEFINE all == [id \in Ids |-> id]
           A == {o.id : o \in old}
<1>1. all \in [1..MaxPlayerId -> Ids] /\ MaxPlayerId \in Nat
  BY RegistryAssumption DEF Ids
<1>2. all \in Seq(Ids) /\ Len(all) = MaxPlayerId
  BY <1>1, FunctionIsList
<1>3. (\A id \in Ids : Contains(all, id)) /\ Distinct(all)
  <2>1. \A i \in 1..MaxPlayerId : all[i] = i
    BY DEF Ids
  <2> HIDE DEF all
  <2> QED
    BY <1>2, <2>1 DEF Contains, Distinct, Ids
<1>5. LegacyIn(old) = Filter(all, A)
  BY DEF LegacyIn
<1> HIDE DEF all
<1>4. ASSUME NEW id \in Ids PROVE Occurrences(all, id) = 1
  <2>1. Occurrences(all, id) <= 1
    BY <1>2, <1>3, OccurrencesDistinct
  <2>2. Occurrences(all, id) # 0 /\ Occurrences(all, id) \in Nat
    BY <1>2, <1>3, OccurrencesNone, OccurrencesIn
  <2> QED
    BY <2>1, <2>2
<1>6. ASSUME NEW id \in Ids PROVE id \in A <=> \E o \in old : o.id = id
  OBVIOUS
<1> HIDE DEF A
<1>7. LegacyIn(old) \in Seq(Ids)
  BY <1>2, <1>5, FilterType
<1>8. ASSUME NEW id \in Ids
      PROVE  Occurrences(LegacyIn(old), id) = IF \E o \in old : o.id = id THEN 1 ELSE 0
  BY <1>2, <1>4, <1>5, <1>6, OccurrencesFilter
<1> QED
  BY <1>7, <1>8

\* As many as there are ids in it.
LEMMA LegacyCounted ==
  ASSUME NEW old,
         old \subseteq [id : Ids, wallet : Wallets, vitals : Vitals, level : ProgressLevel],
         \A o1, o2 \in old : o1 # o2 => o1.id # o2.id
  PROVE  Cardinality(old) \in Nat /\ Len(LegacyIn(old)) = Cardinality(old)
<1> DEFINE f == [o \in old |-> o.id]
           T == {id \in Ids : Contains(LegacyIn(old), id)}
<1>1. /\ LegacyIn(old) \in Seq(Ids)
      /\ \A id \in Ids : Occurrences(LegacyIn(old), id) = IF \E o \in old : o.id = id THEN 1 ELSE 0
  BY LegacyListed
<1>2. Distinct(LegacyIn(old))
  BY <1>1, OccurrencesDistinct
<1>3. IsFiniteSet(T) /\ Len(LegacyIn(old)) = Cardinality(T)
  BY <1>1, <1>2, DistinctLength
<1>4. \A id \in Ids : id \in T <=> \E o \in old : o.id = id
  BY <1>1, OccurrencesNone
<1>5. \A o \in old : o.id \in Ids
  OBVIOUS
<1> HIDE DEF T
<1>6. T \subseteq Ids
  BY DEF T
<1>7. f \in [old -> T] /\ DOMAIN f = old /\ \A o \in old : f[o] = o.id
  BY <1>4, <1>5
<1>8. IsInjective(f) /\ \A id \in T : \E o \in old : f[o] = id
  BY <1>4, <1>6, <1>7 DEF IsInjective
<1> HIDE DEF f
<1>9. f \in Injection(old, T) /\ f \in Surjection(old, T)
  BY <1>7, <1>8 DEF Injection, Surjection
<1>10. IsFiniteSet(old) /\ Cardinality(old) = Cardinality(T)
  BY <1>3, <1>9, FS_Injection
<1> QED
  BY <1>3, <1>10, FS_CardinalityType

LEMMA InitType == ASSUME Init PROVE IndexType
<1>1. PICK old \in {{}, LegacyPlayers} : InitWith(old)
  BY DEF Init
<1>2. /\ old \subseteq [id : Ids, wallet : Wallets, vitals : Vitals, level : ProgressLevel]
      /\ \A o1, o2 \in old : o1 # o2 => o1.id # o2.id
  BY LegacyAssumption
<1>3. ASSUME NEW some, some \subseteq old PROVE LegacyIn(some) \in IdList
  BY <1>2, <1>3, LegacyListed DEF IdList
<1>4. /\ livePlayerCount = Cardinality(old) /\ playerIndex = LegacyIn(old) /\ overwritten = {}
      /\ playerLevel = [id \in Ids |-> NONE]
  BY <1>1 DEF InitWith
<1>5. byLevel \in [ProgressLevel -> IdList]
  <2>1. byLevel = [l \in ProgressLevel |-> LegacyIn({o \in old : o.level = l})]
    BY <1>1 DEF InitWith
  <2>2. \A l : LegacyIn({o \in old : o.level = l}) \in IdList
    BY <1>3
  <2> QED
    BY <2>1, <2>2
<1>6. byLevelRegion \in Buckets
  <2> DEFINE in(l, r) == LegacyIn({o \in old : o.level = l /\ o.vitals.region = r})
  <2>1. byLevelRegion = [l \in ProgressLevel |-> [r \in Regions |-> in(l, r)]]
    BY <1>1 DEF InitWith
  <2>2. \A l, r : in(l, r) \in IdList
    BY <1>3
  <2> HIDE DEF in
  <2> QED
    BY <2>1, <2>2 DEF Buckets
<1>7. progressLevel \in [Ids -> ProgressLevel]
  <2> DEFINE Of(id) == CHOOSE o \in old : o.id = id
  <2>1. progressLevel = [id \in Ids |-> IF \E o \in old : o.id = id THEN Of(id).level ELSE Unverified]
    BY <1>1 DEF InitWith
  <2>2. \A id : (\E o \in old : o.id = id) => Of(id) \in old
    OBVIOUS
  <2>3. \A o \in old : o.level \in ProgressLevel
    BY <1>2
  <2> HIDE DEF Of
  <2> QED
    BY <2>1, <2>2, <2>3, LevelsAreKnown
<1> QED
  BY <1>2, <1>3, <1>4, <1>5, <1>6, <1>7, LegacyCounted DEF IndexType

LEMMA TypesInductive == Spec => [](ProfileType /\ IndexType)
<1>1. OwnerInv => ProfileType
  BY DEF OwnerInv
<1>2. ProfileType /\ IndexType /\ [Next]_vars => IndexType'
  BY TypeStep
<1>3. Init => IndexType
  BY InitType
<1> QED
  BY <1>1, <1>2, <1>3, OwnersInductive, PTL DEF Spec

----
(***************************************************************************)
(* The index and the counter.                                               *)
(***************************************************************************)
\* Each live player is in PlayerIndex once, no other id is, and the counter is
\* its length.
CountInv ==
  overwritten = {} =>
    /\ \A id \in Ids : Occurrences(playerIndex, id) = IF Exists(id) THEN 1 ELSE 0
    /\ livePlayerCount = Len(playerIndex)

\* The profile of the initial state under an id, if it is legacy.
LEMMA InitProfiles ==
  ASSUME NEW old, InitWith(old), old \subseteq LegacyPlayers
  PROVE  /\ \A id \in Ids : Exists(id) <=> \E o \in old : o.id = id
         /\ \A o \in old : /\ player[o.id].vitals = o.vitals
                           /\ progressLevel[o.id] = o.level
<1>1. /\ old \subseteq [id : Ids, wallet : Wallets, vitals : Vitals, level : ProgressLevel]
      /\ \A o1, o2 \in old : o1 # o2 => o1.id # o2.id
  BY LegacyAssumption
<1> DEFINE Of(id) == CHOOSE o \in old : o.id = id
<1>2. \A o \in old : Of(o.id) = o
  BY <1>1
<1>3. /\ player = [id \in Ids |-> IF \E o \in old : o.id = id
                                  THEN [wallet |-> Of(id).wallet, vitals |-> Of(id).vitals]
                                  ELSE NONE]
      /\ progressLevel = [id \in Ids |-> IF \E o \in old : o.id = id
                                         THEN Of(id).level ELSE Unverified]
  BY DEF InitWith
<1> HIDE DEF Of
<1>4. \A o \in old : o.id \in Ids /\ o.wallet \in Wallets /\ o.vitals \in Vitals
  BY <1>1
<1>5. \A o \in old : /\ player[o.id] = [wallet |-> o.wallet, vitals |-> o.vitals]
                     /\ progressLevel[o.id] = o.level
  BY <1>2, <1>3, <1>4
<1>6. \A o \in old : [wallet |-> o.wallet, vitals |-> o.vitals] # NONE
  BY <1>4, NoneIsAbsent DEF StoredPlayerProfile
<1>7. ASSUME NEW id \in Ids PROVE Exists(id) <=> \E o \in old : o.id = id
  <2>1. CASE \E o \in old : o.id = id
    <3>1. PICK o \in old : o.id = id
      BY <2>1
    <3>2. player[id] # NONE
      BY ZenonT(60), <1>5, <1>6, <3>1
    <3> QED
      BY <2>1, <3>2 DEF Exists
  <2>2. CASE ~\E o \in old : o.id = id
    BY <1>3, <2>2 DEF Exists
  <2> QED
    BY <2>1, <2>2
<1>8. ASSUME NEW o \in old PROVE player[o.id].vitals = o.vitals /\ progressLevel[o.id] = o.level
  <2>1. PICK p : p = player[o.id]
    OBVIOUS
  <2>2. p = [wallet |-> o.wallet, vitals |-> o.vitals]
    BY <1>5, <2>1, Zenon
  <2>3. p.vitals = o.vitals
    BY <2>2
  <2> QED
    BY <1>5, <2>1, <2>3, Zenon
<1> QED
  BY <1>7, <1>8

LEMMA InitCount == ASSUME Init PROVE CountInv
<1>1. PICK old \in {{}, LegacyPlayers} : InitWith(old)
  BY DEF Init
<1>2. /\ old \subseteq LegacyPlayers
      /\ old \subseteq [id : Ids, wallet : Wallets, vitals : Vitals, level : ProgressLevel]
      /\ \A o1, o2 \in old : o1 # o2 => o1.id # o2.id
  BY LegacyAssumption
<1>3. livePlayerCount = Cardinality(old) /\ playerIndex = LegacyIn(old)
  BY <1>1 DEF InitWith
<1>4. \A id \in Ids : Exists(id) <=> \E o \in old : o.id = id
  BY <1>1, <1>2, InitProfiles
<1>5. \A id \in Ids : Occurrences(playerIndex, id) = IF \E o \in old : o.id = id THEN 1 ELSE 0
  BY <1>2, <1>3, LegacyListed
<1>6. livePlayerCount = Len(playerIndex)
  BY <1>2, <1>3, LegacyCounted
<1> QED
  BY <1>4, <1>5, <1>6 DEF CountInv

LEMMA CountStep ==
  ASSUME ProfileType, IndexType, CountInv, [Next]_vars
  PROVE  CountInv'
<1> SUFFICES ASSUME overwritten' = {}
             PROVE  /\ \A j \in Ids :
                         Occurrences(playerIndex', j) = IF player'[j] # NONE THEN 1 ELSE 0
                    /\ livePlayerCount' = Len(playerIndex')
  BY DEF CountInv, Exists
<1> DEFINE Counted == /\ \A id \in Ids : Occurrences(playerIndex, id) = IF Exists(id) THEN 1 ELSE 0
                      /\ livePlayerCount = Len(playerIndex)
           Entry(id) == /\ player'[id] # NONE
                        /\ \A j \in Ids : j # id => player'[j] = player[j]
<1>1. playerIndex \in Seq(Ids) /\ livePlayerCount \in Nat /\ Len(playerIndex) \in Nat
  BY DEF IndexType, IdList
<1>2. ASSUME NEW id \in Ids, Entry(id), ~Exists(id), Counted,
             playerIndex' = Append(playerIndex, id), livePlayerCount' = livePlayerCount + 1
      PROVE  /\ \A j \in Ids : Occurrences(playerIndex', j) = IF player'[j] # NONE THEN 1 ELSE 0
             /\ livePlayerCount' = Len(playerIndex')
  <2>1. \A j \in Ids : Occurrences(playerIndex', j) = Occurrences(playerIndex, j)
                                                      + (IF j = id THEN 1 ELSE 0)
    BY <1>1, <1>2, OccurrencesAppend
  <2>2. Len(playerIndex') = Len(playerIndex) + 1
    BY <1>1, <1>2, AppendProperties, Zenon
  <2> QED
    BY <1>2, <2>1, <2>2 DEF Exists
<1>3. CASE \E wallet \in Wallets, vitals \in Vitals : RegisterPlayer(wallet, vitals)
  <2>1. PICK wallet \in Wallets, vitals \in Vitals : RegisterPlayer(wallet, vitals)
    BY <1>3
  <2>2. PICK id \in Ids :
          /\ Entered(id, vitals, Unverified)
          /\ playerIndex' = Append(playerIndex, id)
          /\ livePlayerCount' = livePlayerCount + 1
          /\ overwritten' = IF Exists(id) THEN overwritten \cup {id} ELSE overwritten
    BY <2>1, RegisterEnters
  <2>3. ~Exists(id) /\ overwritten = {}
    BY <2>2
  <2>4. Counted /\ Entry(id)
    BY <2>2, <2>3 DEF CountInv, Entered
  <2> HIDE DEF Counted, Entry
  <2> QED
    BY <1>2, <2>2, <2>3, <2>4
<1>4. CASE \E id \in Ids, wallet \in Wallets, vitals \in Vitals, level \in ProgressLevel :
             Seed(id, wallet, vitals, level)
  <2>1. PICK id \in Ids, wallet \in Wallets, vitals \in Vitals, level \in ProgressLevel :
             Seed(id, wallet, vitals, level)
    BY <1>4
  <2>2. /\ ~Exists(id) /\ Entered(id, vitals, level)
        /\ IF id \in Range(playerIndex)
           THEN UNCHANGED <<playerIndex, livePlayerCount>>
           ELSE /\ playerIndex' = Append(playerIndex, id)
                /\ livePlayerCount' = livePlayerCount + 1
        /\ overwritten' = overwritten
    BY <2>1, SeedEnters
  <2>3. Counted /\ Entry(id)
    BY <2>2 DEF CountInv, Entered
  <2>4. id \notin Range(playerIndex)
    BY <1>1, <2>2, <2>3, OccurrencesNone, RangeEntries
  <2> HIDE DEF Counted, Entry
  <2> QED
    BY <1>2, <2>2, <2>3, <2>4
<1>5. CASE \E id \in Ids : DeregisterPlayer(id)
  <2>1. PICK id \in Ids : DeregisterPlayer(id)
    BY <1>5
  <2>2. /\ Exists(id) /\ player' = [player EXCEPT ![id] = NONE]
        /\ playerIndex' = RemoveFirst(playerIndex, id)
        /\ livePlayerCount' = Decremented(livePlayerCount) /\ overwritten = {}
    BY <2>1, DeregisterLeaves, Zenon DEF Left
  <2>3. Counted
    BY <2>2 DEF CountInv
  <2>4. Contains(playerIndex, id) /\ Occurrences(playerIndex, id) <= 1
    BY <1>1, <2>2, <2>3, OccurrencesNone
  <2>5. Len(playerIndex) > 0 /\ Len(playerIndex') = Len(playerIndex) - 1
    BY <1>1, <2>2, <2>4, RemoveFirstLength
  <2>6. livePlayerCount' = Len(playerIndex')
    BY <1>1, <2>2, <2>3, <2>5 DEF Decremented
  <2>7. ASSUME NEW j \in Ids
        PROVE  Occurrences(playerIndex', j) = IF player'[j] # NONE THEN 1 ELSE 0
    <3>1. CASE j = id
      BY <1>1, <2>2, <2>4, <3>1, OccurrencesRemoveFirst DEF ProfileType
    <3>2. CASE j # id
      BY <1>1, <2>2, <2>3, <3>2, OccurrencesRemoveFirst DEF Exists, ProfileType
    <3> QED
      BY <3>1, <3>2
  <2> QED
    BY <2>6, <2>7
<1>6. CASE \E id \in Ids, level \in ProgressLevel : SetPlayerLevel(id, level)
  <2>1. UNCHANGED <<player, playerIndex, livePlayerCount, overwritten>>
    BY <1>6, LevelMoves
  <2> QED
    BY <2>1 DEF CountInv, Exists
<1>7. CASE UNCHANGED Registered
  BY <1>7 DEF Registered, CountInv, Exists
<1> QED
  BY <1>3, <1>4, <1>5, <1>6, <1>7, RegistrySteps

\* What get_player_count and a batch read of the whole index answer.
LEMMA CountIsRead == ProfileType /\ IndexType /\ CountInv => LiveCountIsExact
<1> SUFFICES ASSUME ProfileType, IndexType, CountInv, overwritten = {}
             PROVE  /\ GetPlayerCount = Cardinality({id \in Ids : Exists(id)})
                    /\ GetPlayerCount = Len(playerIndex)
                    /\ LET summaries == GetPlayers(playerIndex \o playerIndex)
                       IN  summaries # NONE =>
                             [i \in DOMAIN summaries |-> summaries[i].player_id] = playerIndex
  BY DEF LiveCountIsExact
<1>1. /\ playerIndex \in Seq(Ids)
      /\ \A id \in Ids : Occurrences(playerIndex, id) = IF Exists(id) THEN 1 ELSE 0
      /\ livePlayerCount = Len(playerIndex)
  BY DEF IndexType, IdList, CountInv
<1>2. Distinct(playerIndex)
  BY <1>1, OccurrencesDistinct
<1>3. {x \in Ids : Contains(playerIndex, x)} = {id \in Ids : Exists(id)}
  BY <1>1, OccurrencesNone
<1>4. GetPlayerCount = Cardinality({id \in Ids : Exists(id)})
  BY <1>1, <1>2, <1>3, DistinctLength DEF GetPlayerCount
<1> DEFINE twice == playerIndex \o playerIndex
           live == {id \in Ids : Exists(id)}
           hits == Filter(Once(twice), live)
           summaries == GetPlayers(twice)
<1>5. Once(twice) = playerIndex
  BY <1>1, <1>2, OnceAgain, OnceDistinct
<1>6. \A i \in 1..Len(playerIndex) : playerIndex[i] \in Ids /\ Exists(playerIndex[i])
  <2>1. ASSUME NEW i \in 1..Len(playerIndex) PROVE playerIndex[i] \in Ids /\ Exists(playerIndex[i])
    <3>1. playerIndex[i] \in Ids /\ Contains(playerIndex, playerIndex[i])
      <4>1. playerIndex[i] \in Ids
        BY <1>1, ElementOfSeq, Zenon
      <4> QED
        BY <4>1 DEF Contains
    <3> QED
      BY <1>1, <3>1, OccurrencesNone
  <2> QED
    BY <2>1
<1>7. hits = playerIndex
  BY <1>1, <1>5, <1>6, FilterAll
<1>8. ASSUME summaries # NONE
      PROVE  [i \in DOMAIN summaries |-> summaries[i].player_id] = playerIndex
  <2>1. summaries = [i \in DOMAIN hits |-> ToPlayerSummary(LoadPlayer(hits[i]))]
    BY <1>8, Zenon DEF GetPlayers
  <2>2. DOMAIN playerIndex = 1..Len(playerIndex)
    BY <1>1, LenProperties, Zenon
  <2> HIDE DEF hits, summaries
  <2>3. \A id \in Ids : Exists(id) => ToPlayerSummary(LoadPlayer(id)).player_id = id
    BY DEF ToPlayerSummary, LoadPlayer
  <2>4. DOMAIN summaries = 1..Len(playerIndex)
    BY <1>7, <2>1, <2>2
  <2>5. \A i \in 1..Len(playerIndex) : summaries[i].player_id = playerIndex[i]
    BY <1>6, <1>7, <2>1, <2>2, <2>3
  <2>6. [i \in DOMAIN summaries |-> summaries[i].player_id] = [i \in 1..Len(playerIndex) |-> playerIndex[i]]
    BY <2>4, <2>5
  <2>7. playerIndex = [i \in 1..Len(playerIndex) |-> playerIndex[i]]
    BY <1>1, LenProperties, Zenon
  <2> QED
    BY <2>6, <2>7
<1> QED
  BY <1>1, <1>4, <1>8 DEF GetPlayerCount

\* Registration, replay and tickets enter a player in the index, erasure removes
\* it, and each moves the counter by itself: the two never part, whatever the calls,
\* and a batch of all ids is answered once per player.
THEOREM LiveCountHolds == Spec => []LiveCountIsExact
<1>1. Init => CountInv
  BY InitCount
<1>2. ProfileType /\ IndexType /\ CountInv /\ [Next]_vars => CountInv'
  BY CountStep
<1> QED
  BY <1>1, <1>2, TypesInductive, CountIsRead, PTL DEF Spec

----
(***************************************************************************)
(* The level buckets.                                                       *)
(***************************************************************************)
At(id, l) == Exists(id) /\ playerLevel[id] = l

\* Each live player has an entry where filter_players looks for it, and only a
\* legacy one has no stored level.
Findable(id) ==
  Exists(id) =>
    /\ playerLevel[id] = NONE => id \in LegacyIds /\ progressWired
    /\ Contains(byLevelRegion[ResolveLevel(id)][player[id].vitals.region], id)

\* The other players have no entry anywhere else.
Placed(id) ==
  \A l \in ProgressLevel :
    /\ Occurrences(byLevel[l], id) = IF At(id, l) THEN 1 ELSE 0
    /\ \A r \in Regions :
         Occurrences(byLevelRegion[l][r], id) =
           IF At(id, l) /\ player[id].vitals.region = r THEN 1 ELSE 0

BucketInv ==
  overwritten = {} =>
    /\ \A id \in Ids : Findable(id)
    /\ \A id \in Ids \ LegacyIds : Placed(id)

LEMMA ResolvedLevel ==
  ASSUME IndexType, NEW id \in Ids
  PROVE  ResolveLevel(id) \in ProgressLevel
BY LevelsAreKnown DEF ResolveLevel, IndexType

LEMMA InitBuckets == ASSUME Init PROVE BucketInv
<1>1. PICK old \in {{}, LegacyPlayers} : InitWith(old)
  BY DEF Init
<1>2. /\ old \subseteq LegacyPlayers
      /\ old \subseteq [id : Ids, wallet : Wallets, vitals : Vitals, level : ProgressLevel]
      /\ \A o1, o2 \in old : o1 # o2 => o1.id # o2.id
  BY LegacyAssumption
<1> DEFINE of(l) == {o \in old : o.level = l}
           ofRegion(l, r) == {o \in old : o.level = l /\ o.vitals.region = r}
<1>3. /\ byLevel = [l \in ProgressLevel |-> LegacyIn(of(l))]
      /\ byLevelRegion = [l \in ProgressLevel |-> [r \in Regions |-> LegacyIn(ofRegion(l, r))]]
      /\ progressWired = (old # {})
      /\ playerLevel = [id \in Ids |-> NONE]
  BY <1>1 DEF InitWith
<1>4. /\ \A id \in Ids : Exists(id) <=> \E o \in old : o.id = id
      /\ \A o \in old : player[o.id].vitals = o.vitals /\ progressLevel[o.id] = o.level
  BY <1>1, <1>2, InitProfiles
<1>5. ASSUME NEW id \in Ids, NEW l \in ProgressLevel
      PROVE  /\ Occurrences(byLevel[l], id) = IF \E o \in of(l) : o.id = id THEN 1 ELSE 0
             /\ \A r \in Regions :
                  /\ byLevelRegion[l][r] \in Seq(Ids)
                  /\ Occurrences(byLevelRegion[l][r], id) =
                       IF \E o \in ofRegion(l, r) : o.id = id THEN 1 ELSE 0
  <2>1. of(l) \subseteq old /\ \A r : ofRegion(l, r) \subseteq old
    OBVIOUS
  <2> HIDE DEF of, ofRegion
  <2>2. byLevel[l] = LegacyIn(of(l)) /\ \A r \in Regions : byLevelRegion[l][r] = LegacyIn(ofRegion(l, r))
    BY <1>3
  <2>3. \A some \in SUBSET old : /\ LegacyIn(some) \in Seq(Ids)
                                 /\ Occurrences(LegacyIn(some), id) =
                                      IF \E o \in some : o.id = id THEN 1 ELSE 0
    BY <1>2, LegacyListed
  <2> QED
    BY <2>1, <2>2, <2>3
<1>6. ASSUME NEW id \in Ids PROVE Findable(id)
  <2> SUFFICES ASSUME Exists(id)
               PROVE  /\ id \in LegacyIds /\ progressWired
                      /\ Contains(byLevelRegion[ResolveLevel(id)][player[id].vitals.region], id)
    BY DEF Findable
  <2>1. PICK o \in old : o.id = id
    BY <1>4
  <2>2. id \in LegacyIds /\ progressWired
    BY <1>2, <1>3, <2>1 DEF LegacyIds
  <2>3. ResolveLevel(id) = o.level
    BY <1>3, <1>4, <2>1, <2>2 DEF ResolveLevel
  <2>4. PICK l \in ProgressLevel, r \in Regions : l = o.level /\ r = o.vitals.region
    BY <1>2, <2>1 DEF Regions
  <2>5. o \in ofRegion(l, r)
    BY <2>1, <2>4
  <2> HIDE DEF ofRegion
  <2>6. byLevelRegion[l][r] \in Seq(Ids) /\ Occurrences(byLevelRegion[l][r], id) = 1
    BY <1>5, <2>1, <2>5
  <2>7. Contains(byLevelRegion[l][r], id)
    BY <2>6, OccurrencesNone
  <2>8. player[id].vitals = o.vitals
    BY <1>4, <2>1
  <2> QED
    BY <2>2, <2>3, <2>4, <2>7, <2>8
<1>7. ASSUME NEW id \in Ids \ LegacyIds PROVE Placed(id)
  <2>1. ~\E o \in old : o.id = id
    BY <1>2 DEF LegacyIds
  <2>2. ~Exists(id)
    BY <1>4, <2>1
  <2>3. \A l \in ProgressLevel : (~\E o \in of(l) : o.id = id)
                                 /\ \A r \in Regions : ~\E o \in ofRegion(l, r) : o.id = id
    BY <2>1
  <2> HIDE DEF of, ofRegion
  <2> QED
    BY <1>5, <2>2, <2>3 DEF Placed, At
<1> QED
  BY <1>6, <1>7 DEF BucketInv

\* One more entry in a bucket, or one less.
LEMMA BucketSteps ==
  ASSUME NEW s \in IdList, NEW id \in Ids, NEW j \in Ids
  PROVE  /\ Occurrences(s, j) \in Nat
         /\ Occurrences(s, j) = 0 <=> ~Contains(s, j)
         /\ Occurrences(Append(s, id), j) = Occurrences(s, j) + (IF j = id THEN 1 ELSE 0)
         /\ j # id => Occurrences(RemoveFirst(s, id), j) = Occurrences(s, j)
         /\ Occurrences(s, id) <= 1 => Occurrences(RemoveFirst(s, id), id) = 0
         /\ Contains(Append(s, id), j) <=> Contains(s, j) \/ j = id
         /\ j # id => (Contains(RemoveFirst(s, id), j) <=> Contains(s, j))
<1>1. s \in Seq(Ids) /\ RemoveFirst(s, id) \in Seq(Ids)
  BY ListSteps DEF IdList
<1>2. /\ Occurrences(s, j) \in Nat
      /\ Occurrences(s, j) = 0 <=> ~Contains(s, j)
      /\ Occurrences(Append(s, id), j) = Occurrences(s, j) + (IF j = id THEN 1 ELSE 0)
  <2>1. Occurrences(s, j) \in Nat
    BY <1>1, OccurrencesIn
  <2>2. Occurrences(s, j) = 0 <=> ~Contains(s, j)
    BY <1>1, OccurrencesNone
  <2>3. Occurrences(Append(s, id), j) = Occurrences(s, j) + (IF j = id THEN 1 ELSE 0)
    BY <1>1, OccurrencesAppend
  <2> QED
    BY <2>1, <2>2, <2>3
<1>3. /\ j # id => Occurrences(RemoveFirst(s, id), j) = Occurrences(s, j)
      /\ Occurrences(s, id) <= 1 => Occurrences(RemoveFirst(s, id), id) = 0
  BY <1>1, OccurrencesRemoveFirst
<1>4. Contains(Append(s, id), j) <=> Contains(s, j) \/ j = id
  BY <1>1, AppendEntries
<1>5. j # id => (Contains(RemoveFirst(s, id), j) <=> Contains(s, j))
  BY <1>1, <1>2, <1>3, OccurrencesNone
<1> QED
  BY <1>2, <1>3, <1>4, <1>5

\* What is known of the players other than id, when their entries and what
\* resolves their level stay.
LEMMA OthersStay ==
  ASSUME NEW j \in Ids, Findable(j), j \notin LegacyIds => Placed(j), IndexType, IndexType',
         player'[j] = player[j], playerLevel'[j] = playerLevel[j],
         progressLevel'[j] = progressLevel[j], progressWired => progressWired',
         Exists(j) => player[j].vitals.region \in Regions,
         \A l \in ProgressLevel :
           /\ Occurrences(byLevel'[l], j) = Occurrences(byLevel[l], j)
           /\ \A r \in Regions :
                Occurrences(byLevelRegion'[l][r], j) = Occurrences(byLevelRegion[l][r], j)
  PROVE  Findable(j)' /\ (j \notin LegacyIds => Placed(j)')
<1>1. Exists(j)' <=> Exists(j)
  BY DEF Exists
<1>2. Exists(j) => ResolveLevel(j)' = ResolveLevel(j)
  BY DEF ResolveLevel, Findable
<1>3. ASSUME NEW l \in ProgressLevel, NEW r \in Regions
      PROVE  Contains(byLevelRegion'[l][r], j) <=> Contains(byLevelRegion[l][r], j)
  <2>1. byLevelRegion[l][r] \in IdList /\ byLevelRegion'[l][r] \in IdList
    BY DEF IndexType, Buckets
  <2> QED
    BY <2>1, BucketSteps
<1>4. ResolveLevel(j) \in ProgressLevel
  BY ResolvedLevel
<1>5. ASSUME Exists(j) PROVE Contains(byLevelRegion'[ResolveLevel(j)][player[j].vitals.region], j)
  <2>1. Contains(byLevelRegion[ResolveLevel(j)][player[j].vitals.region], j)
    BY <1>5 DEF Findable
  <2> QED
    BY <1>3, <1>4, <1>5, <2>1
<1>6. Findable(j)'
  BY <1>1, <1>2, <1>5 DEF Findable
<1>7. ASSUME j \notin LegacyIds PROVE Placed(j)'
  BY <1>1, <1>7 DEF Placed, At
<1> QED
  BY <1>6, <1>7

\* A profile that takes a free id: its entries are the ones it needs.
LEMMA EnteredBuckets ==
  ASSUME ProfileType, IndexType, IndexType', BucketInv, overwritten = {},
         NEW id \in Ids, NEW vitals \in Vitals, NEW level \in ProgressLevel,
         ~Exists(id), Entered(id, vitals, level)
  PROVE  \A j \in Ids : Findable(j)' /\ (j \notin LegacyIds => Placed(j)')
<1> DEFINE R == vitals.region
<1>1. R \in Regions
  BY DEF Regions
<1>2. /\ player'[id] # NONE /\ player'[id].vitals.region = R
      /\ \A j \in Ids : j # id => player'[j] = player[j]
      /\ playerLevel' = [playerLevel EXCEPT ![id] = level]
      /\ UNCHANGED <<progressLevel, progressWired>>
  BY DEF Entered
<1>3. /\ byLevel' = [byLevel EXCEPT ![level] = Append(@, id)]
      /\ byLevelRegion' = [byLevelRegion EXCEPT ![level][R] = Append(@, id)]
  BY Zenon DEF Entered
<1> HIDE DEF R
<1>4. \A j \in Ids : Findable(j) /\ (j \notin LegacyIds => Placed(j))
  BY DEF BucketInv
<1>5. /\ playerLevel \in [Ids -> ProgressLevel \cup {NONE}]
      /\ \A l \in ProgressLevel : byLevel[l] \in IdList
      /\ \A l \in ProgressLevel, r \in Regions :
           byLevelRegion[l][r] \in IdList /\ byLevelRegion'[l][r] \in IdList
  BY DEF IndexType, Buckets
<1>6. ASSUME NEW l \in ProgressLevel, NEW r \in Regions
      PROVE  /\ byLevel'[l] = IF l = level THEN Append(byLevel[l], id) ELSE byLevel[l]
             /\ byLevelRegion'[l][r] = IF l = level /\ r = R THEN Append(byLevelRegion[l][r], id)
                                       ELSE byLevelRegion[l][r]
  <2>1. byLevel'[l] = IF l = level THEN Append(byLevel[l], id) ELSE byLevel[l]
    BY <1>3, <1>6 DEF IndexType
  <2>2. byLevelRegion'[l][r] = IF l = level /\ r = R THEN Append(byLevelRegion[l][r], id)
                               ELSE byLevelRegion[l][r]
    BY <1>1, <1>3, <1>6 DEF IndexType, Buckets
  <2> QED
    BY <2>1, <2>2
<1>7. ASSUME NEW j \in Ids, NEW l \in ProgressLevel, NEW r \in Regions
      PROVE  /\ Occurrences(byLevel'[l], j) = Occurrences(byLevel[l], j)
                                              + (IF l = level /\ j = id THEN 1 ELSE 0)
             /\ Occurrences(byLevel[l], j) \in Nat
             /\ Occurrences(byLevelRegion'[l][r], j) =
                  Occurrences(byLevelRegion[l][r], j)
                  + (IF l = level /\ r = R /\ j = id THEN 1 ELSE 0)
             /\ Occurrences(byLevelRegion[l][r], j) \in Nat
  BY <1>5, <1>6, <1>7, BucketSteps
<1>8. ASSUME NEW j \in Ids, j # id PROVE Findable(j)' /\ (j \notin LegacyIds => Placed(j)')
  <2>1. \A l \in ProgressLevel :
           /\ Occurrences(byLevel'[l], j) = Occurrences(byLevel[l], j)
           /\ \A r \in Regions :
                Occurrences(byLevelRegion'[l][r], j) = Occurrences(byLevelRegion[l][r], j)
    BY <1>1, <1>7, <1>8
  <2>2. Exists(j) => player[j].vitals.region \in Regions
    BY RegionIndexed
  <2>3. /\ player'[j] = player[j] /\ playerLevel'[j] = playerLevel[j]
        /\ progressLevel'[j] = progressLevel[j] /\ (progressWired => progressWired')
    BY <1>2, <1>5, <1>8
  <2> QED
    BY <1>4, <2>1, <2>2, <2>3, OthersStay
<1>9. Exists(id)' /\ playerLevel'[id] = level /\ ResolveLevel(id)' = level
  BY <1>2, <1>5, LevelsAreKnown DEF Exists, ResolveLevel
<1>10. Findable(id)'
  <2>1. Contains(byLevelRegion'[level][R], id)
    BY <1>1, <1>5, <1>6, BucketSteps
  <2> QED
    BY <1>2, <1>9, <2>1, LevelsAreKnown DEF Findable
<1>11. ASSUME id \notin LegacyIds PROVE Placed(id)'
  <2>1. \A l \in ProgressLevel : /\ Occurrences(byLevel[l], id) = 0
                                 /\ \A r \in Regions : Occurrences(byLevelRegion[l][r], id) = 0
    BY <1>4, <1>11 DEF Placed, At
  <2> QED
    BY <1>1, <1>2, <1>7, <1>9, <2>1 DEF Placed, At
<1> QED
  BY <1>8, <1>10, <1>11

\* An erased profile: nothing is left of it, unless it was legacy.
LEMMA LeftBuckets ==
  ASSUME ProfileType, IndexType, IndexType', BucketInv, overwritten = {},
         NEW id \in Ids, Exists(id), Left(id, player[id].vitals.region, StoredLevel(id))
  PROVE  \A j \in Ids : Findable(j)' /\ (j \notin LegacyIds => Placed(j)')
<1> DEFINE R == player[id].vitals.region
           level == StoredLevel(id)
<1>1. R \in Regions /\ level \in ProgressLevel
  BY RegionIndexed, LevelsAreKnown DEF StoredLevel, IndexType
<1>2. /\ player' = [player EXCEPT ![id] = NONE]
      /\ playerLevel' = [playerLevel EXCEPT ![id] = NONE]
      /\ UNCHANGED <<progressLevel, progressWired>>
  BY Zenon DEF Left
<1>3. /\ byLevel' = [byLevel EXCEPT ![level] = RemoveFirst(@, id)]
      /\ byLevelRegion' = [byLevelRegion EXCEPT ![level][R] = RemoveFirst(@, id)]
  BY Zenon DEF Left
<1>4. \A j \in Ids : Findable(j) /\ (j \notin LegacyIds => Placed(j))
  BY DEF BucketInv
<1>5. /\ playerLevel \in [Ids -> ProgressLevel \cup {NONE}]
      /\ player \in [Ids -> StoredPlayerProfile \cup {NONE}]
      /\ \A l \in ProgressLevel : byLevel[l] \in IdList
      /\ \A l \in ProgressLevel, r \in Regions : byLevelRegion[l][r] \in IdList
  BY DEF IndexType, Buckets, ProfileType
<1>6. ASSUME NEW l \in ProgressLevel, NEW r \in Regions
      PROVE  /\ byLevel'[l] = IF l = level THEN RemoveFirst(byLevel[l], id) ELSE byLevel[l]
             /\ byLevelRegion'[l][r] = IF l = level /\ r = R
                                       THEN RemoveFirst(byLevelRegion[l][r], id)
                                       ELSE byLevelRegion[l][r]
  <2> HIDE DEF R, level
  <2>1. PICK s, t : s = RemoveFirst(byLevel[level], id) /\ t = RemoveFirst(byLevelRegion[level][R], id)
    OBVIOUS
  <2>2. /\ byLevel' = [byLevel EXCEPT ![level] = s]
        /\ byLevelRegion' = [byLevelRegion EXCEPT ![level][R] = t]
    BY <1>3, <2>1, Zenon
  <2>3. byLevel'[l] = IF l = level THEN s ELSE byLevel[l]
    BY <1>1, <2>2 DEF IndexType
  <2>4. byLevelRegion'[l][r] = IF l = level /\ r = R THEN t ELSE byLevelRegion[l][r]
    BY <1>1, <2>2 DEF IndexType, Buckets
  <2> QED
    BY <2>1, <2>3, <2>4
<1>7. ASSUME NEW j \in Ids, j # id PROVE Findable(j)' /\ (j \notin LegacyIds => Placed(j)')
  <2>1. \A l \in ProgressLevel :
           /\ Occurrences(byLevel'[l], j) = Occurrences(byLevel[l], j)
           /\ \A r \in Regions :
                Occurrences(byLevelRegion'[l][r], j) = Occurrences(byLevelRegion[l][r], j)
    <3> HIDE DEF R, level
    <3> QED
      BY <1>1, <1>5, <1>6, <1>7, BucketSteps
  <2>2. Exists(j) => player[j].vitals.region \in Regions
    BY RegionIndexed
  <2>3. /\ player'[j] = player[j] /\ playerLevel'[j] = playerLevel[j]
        /\ progressLevel'[j] = progressLevel[j] /\ (progressWired => progressWired')
    BY <1>2, <1>5, <1>7
  <2> QED
    BY <1>4, <2>1, <2>2, <2>3, OthersStay
<1>8. ~Exists(id)'
  BY <1>2, <1>5 DEF Exists
<1>9. ASSUME id \notin LegacyIds PROVE Placed(id)'
  <2>1. playerLevel[id] # NONE /\ Placed(id)
    BY <1>4, <1>9 DEF Findable
  <2>2. level = playerLevel[id]
    BY <2>1 DEF StoredLevel
  <2>3. ASSUME NEW l \in ProgressLevel, NEW r \in Regions
        PROVE  /\ Occurrences(byLevel[l], id) = IF l = level THEN 1 ELSE 0
               /\ Occurrences(byLevelRegion[l][r], id) = IF l = level /\ r = R THEN 1 ELSE 0
    BY <2>1, <2>2, <2>3 DEF Placed, At
  <2> HIDE DEF R, level
  <2>4. ASSUME NEW l \in ProgressLevel, NEW r \in Regions
        PROVE  /\ Occurrences(byLevel'[l], id) = 0
               /\ Occurrences(byLevelRegion'[l][r], id) = 0
    <3>1. Occurrences(byLevel'[l], id) = 0
      BY <1>5, <1>6, <2>3, <2>4, BucketSteps
    <3>2. Occurrences(byLevelRegion'[l][r], id) = 0
      BY <1>5, <1>6, <2>3, <2>4, BucketSteps
    <3> QED
      BY <3>1, <3>2
  <2> QED
    BY <1>1, <1>8, <2>4 DEF Placed, At
<1>10. Findable(id)'
  BY <1>8 DEF Findable
<1> QED
  BY <1>7, <1>9, <1>10

\* A level write-back: the entries follow the player to its new level.
LEMMA MovedBuckets ==
  ASSUME ProfileType, IndexType, IndexType', BucketInv, overwritten = {},
         NEW id \in Ids, NEW level \in ProgressLevel, SetPlayerLevel(id, level)
  PROVE  \A j \in Ids : Findable(j)' /\ (j \notin LegacyIds => Placed(j)')
<1> DEFINE R == player[id].vitals.region
           From == LevelsLeft(id)
<1>1. /\ Exists(id) /\ R \in Regions
      /\ progressLevel' = [progressLevel EXCEPT ![id] = level]
      /\ playerLevel' = [playerLevel EXCEPT ![id] = level]
      /\ player' = player /\ progressWired /\ progressWired'
  BY LevelMoves, RegionIndexed
<1>2. /\ byLevel' = [l \in ProgressLevel |-> Moved(byLevel[l], l, id, From, level)]
      /\ \A l \in ProgressLevel :
           byLevelRegion'[l] = [byLevelRegion[l] EXCEPT ![R] = Moved(@, l, id, From, level)]
  BY LevelMoves
<1>3. \A j \in Ids : Findable(j) /\ (j \notin LegacyIds => Placed(j))
  BY DEF BucketInv
<1>4. /\ playerLevel \in [Ids -> ProgressLevel \cup {NONE}]
      /\ progressLevel \in [Ids -> ProgressLevel]
      /\ \A l \in ProgressLevel : byLevel[l] \in IdList
      /\ \A l \in ProgressLevel, r \in Regions : byLevelRegion[l][r] \in IdList
  BY DEF IndexType, Buckets
<1>5. ASSUME NEW l \in ProgressLevel, NEW r \in Regions
      PROVE  /\ byLevel'[l] = Moved(byLevel[l], l, id, From, level)
             /\ byLevelRegion'[l][r] = IF r = R THEN Moved(byLevelRegion[l][r], l, id, From, level)
                                       ELSE byLevelRegion[l][r]
  <2> HIDE DEF R, From
  <2>1. byLevelRegion'[l] = [byLevelRegion[l] EXCEPT ![R] = Moved(@, l, id, From, level)]
    BY <1>2
  <2> QED
    BY <1>1, <1>2, <2>1 DEF IndexType, Buckets
<1>6. ASSUME NEW s \in IdList, NEW j \in Ids, NEW l \in ProgressLevel
      PROVE  /\ j # id => Occurrences(Moved(s, l, id, From, level), j) = Occurrences(s, j)
             /\ l = level => Contains(Moved(s, l, id, From, level), id)
             /\ l \in From /\ Occurrences(s, id) <= 1 =>
                  Occurrences(Moved(s, l, id, From, level), id) = IF l = level THEN 1 ELSE 0
             /\ Occurrences(s, id) = 0 =>
                  Occurrences(Moved(s, l, id, From, level), id) = IF l = level THEN 1 ELSE 0
  <2> HIDE DEF From
  <2>1. PICK t \in IdList : t = IF l \in From THEN RemoveFirst(s, id) ELSE s
    BY ListSteps
  <2>2. Moved(s, l, id, From, level) = IF l = level THEN Append(t, id) ELSE t
    BY <2>1 DEF Moved
  <2>3. /\ j # id => Occurrences(t, j) = Occurrences(s, j)
        /\ l \in From /\ Occurrences(s, id) <= 1 => Occurrences(t, id) = 0
        /\ Occurrences(s, id) = 0 => Occurrences(t, id) = 0
    BY <2>1, BucketSteps
  <2>4. /\ Occurrences(Append(t, id), j) = Occurrences(t, j) + (IF j = id THEN 1 ELSE 0)
        /\ Occurrences(Append(t, id), id) = Occurrences(t, id) + 1
        /\ Occurrences(t, j) \in Nat /\ Occurrences(t, id) \in Nat
        /\ Contains(Append(t, id), id)
    BY BucketSteps
  <2>5. CASE l = level
    BY <2>2, <2>3, <2>4, <2>5
  <2>6. CASE l # level
    BY <2>2, <2>3, <2>4, <2>6
  <2> QED
    BY <2>5, <2>6
<1>7. ASSUME NEW j \in Ids, j # id PROVE Findable(j)' /\ (j \notin LegacyIds => Placed(j)')
  <2>1. \A l \in ProgressLevel :
           /\ Occurrences(byLevel'[l], j) = Occurrences(byLevel[l], j)
           /\ \A r \in Regions :
                Occurrences(byLevelRegion'[l][r], j) = Occurrences(byLevelRegion[l][r], j)
    <3> HIDE DEF R, From
    <3> QED
      BY <1>1, <1>4, <1>5, <1>6, <1>7
  <2>2. Exists(j) => player[j].vitals.region \in Regions
    BY RegionIndexed
  <2>3. /\ player'[j] = player[j] /\ playerLevel'[j] = playerLevel[j]
        /\ progressLevel'[j] = progressLevel[j] /\ (progressWired => progressWired')
    BY <1>1, <1>4, <1>7
  <2> QED
    BY <1>3, <2>1, <2>2, <2>3, OthersStay
<1>8. Exists(id)' /\ playerLevel'[id] = level /\ ResolveLevel(id)' = level
  BY <1>1, <1>4, LevelsAreKnown DEF Exists, ResolveLevel
<1>9. Findable(id)'
  <2>1. Contains(byLevelRegion'[level][R], id)
    <3> HIDE DEF R, From
    <3> QED
      BY <1>1, <1>4, <1>5, <1>6
  <2> QED
    BY <1>1, <1>8, <2>1, LevelsAreKnown DEF Findable
<1>10. ASSUME id \notin LegacyIds PROVE Placed(id)'
  <2>1. playerLevel[id] # NONE /\ Placed(id)
    BY <1>3, <1>1, <1>10 DEF Findable
  <2>2. \A l : l \in From <=> l = playerLevel[id]
    BY <2>1 DEF LevelsLeft
  <2>3. ASSUME NEW l \in ProgressLevel, NEW r \in Regions
        PROVE  /\ Occurrences(byLevel[l], id) = IF l \in From THEN 1 ELSE 0
               /\ Occurrences(byLevelRegion[l][r], id) = IF l \in From /\ r = R THEN 1 ELSE 0
    BY <1>1, <2>1, <2>2, <2>3 DEF Placed, At
  <2> HIDE DEF R, From
  <2>4. ASSUME NEW l \in ProgressLevel, NEW r \in Regions
        PROVE  /\ Occurrences(byLevel'[l], id) = IF l = level THEN 1 ELSE 0
               /\ Occurrences(byLevelRegion'[l][r], id) = IF l = level /\ r = R THEN 1 ELSE 0
    BY <1>4, <1>5, <1>6, <2>3, <2>4
  <2>5. player'[id].vitals.region = R
    BY <1>1 DEF R
  <2> QED
    BY <1>1, <1>8, <2>4, <2>5 DEF Placed, At
<1> QED
  BY <1>7, <1>9, <1>10

LEMMA BucketStep ==
  ASSUME ProfileType, IndexType, IndexType', BucketInv, [Next]_vars
  PROVE  BucketInv'
<1> SUFFICES ASSUME overwritten' = {}
             PROVE  \A j \in Ids : Findable(j)' /\ (j \notin LegacyIds => Placed(j)')
  BY DEF BucketInv
<1>1. CASE \E wallet \in Wallets, vitals \in Vitals : RegisterPlayer(wallet, vitals)
  <2>1. PICK wallet \in Wallets, vitals \in Vitals : RegisterPlayer(wallet, vitals)
    BY <1>1
  <2>2. PICK id \in Ids :
          /\ Entered(id, vitals, Unverified)
          /\ overwritten' = IF Exists(id) THEN overwritten \cup {id} ELSE overwritten
    BY <2>1, RegisterEnters
  <2>3. ~Exists(id) /\ overwritten = {}
    BY <2>2
  <2> QED
    BY <2>2, <2>3, EnteredBuckets, LevelsAreKnown
<1>2. CASE \E id \in Ids, wallet \in Wallets, vitals \in Vitals, level \in ProgressLevel :
             Seed(id, wallet, vitals, level)
  BY <1>2, SeedEnters, EnteredBuckets
<1>3. CASE \E id \in Ids : DeregisterPlayer(id)
  <2>1. PICK id \in Ids : DeregisterPlayer(id)
    BY <1>3
  <2>2. Exists(id) /\ Left(id, player[id].vitals.region, StoredLevel(id))
    BY <2>1, DeregisterLeaves
  <2>3. overwritten = {}
    BY <2>2, Zenon DEF Left
  <2> QED
    BY <2>2, <2>3, LeftBuckets
<1>4. CASE \E id \in Ids, level \in ProgressLevel : SetPlayerLevel(id, level)
  BY <1>4, LevelMoves, MovedBuckets
<1>5. CASE UNCHANGED Registered /\ (progressWired => progressWired')
  <2>1. \A j \in Ids : Findable(j) /\ (j \notin LegacyIds => Placed(j))
    BY <1>5 DEF BucketInv, Registered
  <2>2. \A j \in Ids : Exists(j) => player[j].vitals.region \in Regions
    BY RegionIndexed
  <2>3. /\ player' = player /\ playerLevel' = playerLevel /\ progressLevel' = progressLevel
        /\ byLevel' = byLevel /\ byLevelRegion' = byLevelRegion
    BY <1>5 DEF Registered
  <2> QED
    BY <1>5, <2>1, <2>2, <2>3, OthersStay
<1> QED
  BY <1>1, <1>2, <1>3, <1>4, <1>5, RegistrySteps

LEMMA BucketsInductive == Spec => [](ProfileType /\ IndexType /\ BucketInv)
<1>1. Init => BucketInv
  BY InitBuckets
<1>2. ProfileType /\ IndexType /\ IndexType' /\ BucketInv /\ [Next]_vars => BucketInv'
  BY BucketStep
<1> QED
  BY <1>1, <1>2, TypesInductive, PTL DEF Spec

\* A player that is not legacy stands at its stored level.
LEMMA PlacedIsMatched ==
  ASSUME IndexType, BucketInv, overwritten = {}, NEW id \in Ids \ LegacyIds
  PROVE  Placed(id) /\ \A l \in ProgressLevel : At(id, l) <=> Exists(id) /\ ResolveLevel(id) = l
<1>1. Findable(id) /\ Placed(id)
  BY DEF BucketInv
<1> QED
  BY <1>1 DEF Findable, At, ResolveLevel

\* Registration, replay, tickets, erasure and the level write-back of progress each
\* rewrite the level buckets by hand; every player registered since the upgrade is in
\* the buckets of its level and region, once, and in no other.
THEOREM BucketsHold == Spec => []BucketsMatchProfiles
<1>1. IndexType /\ BucketInv => BucketsMatchProfiles
  BY PlacedIsMatched DEF BucketsMatchProfiles, Placed
<1> QED
  BY <1>1, BucketsInductive, PTL

----
(***************************************************************************)
(* filter_players.                                                          *)
(***************************************************************************)
Filters == [region : Regions \cup {ANY}, position : {ANY} \cup Positions,
            min_level : ProgressLevel]

\* What FilterListsEachOnce says of one filter.
ListsEachOnce(query) ==
  /\ \A id \in Wanted(query) \ LegacyIds : Occurrences(Matches(query), id) = 1
  /\ Wanted(query) \subseteq Range(Matches(query))
  /\ Range(Matches(query)) \subseteq Wanted(query) \cup LegacyIds

\* The scan of PlayerIndex, which holds every live player once.
LEMMA ScanIsExact ==
  ASSUME IndexType, CountInv, overwritten = {}, NEW query \in Filters, query.region = ANY
  PROVE  ListsEachOnce(query)
<1> DEFINE A == {id \in Ids : Shown(id, query) /\ ResolveLevel(id) >= query.min_level}
<1>1. playerIndex \in Seq(Ids) /\ Matches(query) = Filter(playerIndex, A)
  BY DEF IndexType, IdList, Matches, SlowPath
<1>2. Wanted(query) = A
  BY DEF Wanted
<1>3. A \subseteq Ids /\ \A id \in A : Exists(id)
  BY DEF Shown
<1> HIDE DEF A
<1>4. \A id \in A : Occurrences(playerIndex, id) = 1
  BY <1>3 DEF CountInv
<1>5. \A id \in A : Occurrences(Filter(playerIndex, A), id) = 1
  BY <1>1, <1>4, OccurrencesFilter
<1>6. Filter(playerIndex, A) \in Seq(Ids)
  BY <1>1, FilterType
<1>7. \A x : x \in Range(Filter(playerIndex, A)) <=> Contains(Filter(playerIndex, A), x)
  BY <1>6, RangeEntries
<1>8. A \subseteq Range(Filter(playerIndex, A))
  BY <1>5, <1>6, <1>7, OccurrencesNone
<1>9. Range(Filter(playerIndex, A)) \subseteq A
  BY <1>1, <1>7, FilterEntries
<1> QED
  BY <1>1, <1>2, <1>5, <1>8, <1>9 DEF ListsEachOnce

\* The buckets of a region, which hold every live player of theirs.
LEMMA BucketsAreExact ==
  ASSUME IndexType, BucketInv, overwritten = {}, NEW query \in Filters, query.region # ANY
  PROVE  ListsEachOnce(query)
<1> DEFINE r == query.region
           m == query.min_level
           n == EliteTier - m + 1
           ss == [k \in 1..n |-> byLevelRegion[m + k - 1][r]]
           A == {id \in Ids : Shown(id, query)}
           all == Filter(FlattenSeq(ss), A)
<1>1. r \in Regions /\ m \in ProgressLevel
  BY DEF Filters
<1>2. /\ n \in Nat /\ n # 0 /\ \A k \in 1..n : m + k - 1 \in ProgressLevel
      /\ \A l \in ProgressLevel : l >= m => l - m + 1 \in 1..n /\ m + (l - m + 1) - 1 = l
      /\ \A k \in 1..n : m + k - 1 >= m
      /\ \A j, k \in 1..n : m + j - 1 = m + k - 1 => j = k
  <2>1. m \in 0..3 /\ n = 4 - m
    BY <1>1, LevelsAreKnown DEF EliteTier
  <2> HIDE DEF m, n
  <2>2. n \in Nat /\ n # 0
    BY <2>1
  <2>3. /\ \A k \in 1..n : m + k - 1 \in ProgressLevel
        /\ \A l \in ProgressLevel : l >= m => l - m + 1 \in 1..n /\ m + (l - m + 1) - 1 = l
    BY <2>1, LevelsAreKnown
  <2>4. /\ \A k \in 1..n : m + k - 1 >= m
        /\ \A j, k \in 1..n : m + j - 1 = m + k - 1 => j = k
    BY <2>1
  <2> QED
    BY <2>2, <2>3, <2>4
<1>3. Matches(query) = all
  BY Zenon DEF Matches, FastPath
<1>4. \A l \in ProgressLevel : byLevelRegion[l][r] \in Seq(Ids)
  BY <1>1 DEF IndexType, Buckets, IdList
<1>5. ss \in [1..n -> Seq(Ids)] /\ \A k \in 1..n : ss[k] = byLevelRegion[m + k - 1][r]
  <2> HIDE DEF n, m, r
  <2> QED
    BY <1>2, <1>4
<1>6. \A id \in Ids : id \in Wanted(query) <=> /\ id \in A /\ player[id].vitals.region = r
                                               /\ ResolveLevel(id) >= m
  BY DEF Wanted
<1>7. A \subseteq Ids /\ \A id \in A : Exists(id)
  BY DEF Shown
<1>8. \A id \in Ids : Findable(id) /\ ResolveLevel(id) \in ProgressLevel
  BY ResolvedLevel DEF BucketInv
<1>9. Wanted(query) \subseteq Ids
  BY DEF Wanted
<1> HIDE DEF r, m, n, ss, A
<1>10. /\ FlattenSeq(ss) \in Seq(Ids)
       /\ \A x : Contains(FlattenSeq(ss), x) <=> \E k \in 1..n : Contains(ss[k], x)
  BY <1>2, <1>5, FlattenEntries
<1>11. /\ all \in Seq(Ids)
       /\ \A x : Contains(all, x) <=> x \in A /\ Contains(FlattenSeq(ss), x)
  BY <1>10, FilterType, FilterEntries
<1>12. \A x : x \in Range(all) <=> x \in A /\ \E k \in 1..n : Contains(ss[k], x)
  BY <1>10, <1>11, RangeEntries
<1>13. ASSUME NEW id \in Wanted(query) PROVE id \in Range(all)
  <2>1. /\ id \in A /\ Exists(id) /\ player[id].vitals.region = r
        /\ ResolveLevel(id) \in ProgressLevel /\ ResolveLevel(id) >= m
    BY <1>6, <1>7, <1>8, <1>9, <1>13
  <2>2. Contains(byLevelRegion[ResolveLevel(id)][r], id)
    BY <1>8, <1>9, <2>1 DEF Findable
  <2>3. PICK k \in 1..n : m + k - 1 = ResolveLevel(id)
    BY <1>2, <2>1
  <2>4. Contains(ss[k], id)
    BY <1>5, <2>2, <2>3
  <2> QED
    BY <1>12, <2>1, <2>4
<1>14. ASSUME NEW id \in Range(all), id \notin LegacyIds PROVE id \in Wanted(query)
  <2>1. id \in A /\ id \in Ids /\ Exists(id)
    BY <1>7, <1>12, <1>14
  <2>2. PICK k \in 1..n : Contains(ss[k], id)
    BY <1>12, <1>14
  <2>3. PICK l \in ProgressLevel : l = m + k - 1 /\ l >= m
    BY <1>2
  <2>4. Occurrences(byLevelRegion[l][r], id) # 0
    BY <1>4, <1>5, <2>2, <2>3, OccurrencesNone
  <2>5. Placed(id) /\ (At(id, l) <=> Exists(id) /\ ResolveLevel(id) = l)
    BY <1>14, <2>1, PlacedIsMatched
  <2>6. At(id, l) /\ player[id].vitals.region = r
    BY <1>1, <2>4, <2>5 DEF Placed
  <2> QED
    BY <1>6, <2>1, <2>3, <2>5, <2>6
<1>15. ASSUME NEW id \in Wanted(query) \ LegacyIds PROVE Occurrences(all, id) = 1
  <2>1. /\ id \in A /\ id \in Ids /\ Exists(id) /\ player[id].vitals.region = r
        /\ ResolveLevel(id) \in ProgressLevel /\ ResolveLevel(id) >= m
    BY <1>6, <1>7, <1>8, <1>9, <1>15
  <2>2. PICK k \in 1..n : m + k - 1 = ResolveLevel(id)
    BY <1>2, <2>1
  <2>3. Placed(id) /\ \A l \in ProgressLevel : At(id, l) <=> Exists(id) /\ ResolveLevel(id) = l
    BY <1>15, <2>1, PlacedIsMatched
  <2>4. \A l \in ProgressLevel : Occurrences(byLevelRegion[l][r], id) =
                                   IF l = ResolveLevel(id) THEN 1 ELSE 0
    BY <1>1, <2>1, <2>3 DEF Placed
  <2>5. \A j \in 1..n : Occurrences(ss[j], id) = IF j = k THEN 1 ELSE 0
    <3> SUFFICES ASSUME NEW j \in 1..n PROVE Occurrences(ss[j], id) = IF j = k THEN 1 ELSE 0
      OBVIOUS
    <3>1. PICK l \in ProgressLevel : l = m + j - 1
      BY <1>2
    <3>2. ss[j] = byLevelRegion[l][r]
      BY <1>5, <3>1
    <3>3. l = ResolveLevel(id) <=> j = k
      BY <1>2, <2>2, <3>1
    <3> QED
      BY <2>4, <3>2, <3>3
  <2>6. Occurrences(FlattenSeq(ss), id) = 1
    <3>1. PICK lists, N : lists = ss /\ N = n
      OBVIOUS
    <3>2. Occurrences(lists[k], id) = 1 /\ OnlyIn(lists, N, k, id)
      BY <2>5, <3>1 DEF OnlyIn
    <3>3. lists \in [1..N -> Seq(Ids)] /\ N \in Nat /\ k \in 1..N
      BY <1>2, <1>5, <3>1
    <3>4. Occurrences(FlattenSeq(lists), id) = 1
      BY <3>2, <3>3, FlattenOccurrences
    <3> QED
      BY <3>1, <3>4
  <2> QED
    BY <1>10, <2>1, <2>6, OccurrencesFilter
<1> QED
  BY <1>3, <1>13, <1>14, <1>15 DEF ListsEachOnce

\* filter_players answers from five vectors that seven calls maintain: for every
\* filter, by region or by scan, it lists each player asked for, once, and no other,
\* but for entries that an erasure of a legacy player has left.
THEOREM FiltersAreExact == Spec => []FilterListsEachOnce
<1>1. IndexType /\ CountInv /\ BucketInv => FilterListsEachOnce
  <2> SUFFICES ASSUME IndexType, CountInv, BucketInv, overwritten = {},
                      NEW query \in Filters
               PROVE  ListsEachOnce(query)
    BY Zenon DEF FilterListsEachOnce, Filters, ListsEachOnce
  <2> QED
    BY ScanIsExact, BucketsAreExact
<1>2. Spec => []CountInv
  <2>1. Init => CountInv
    BY InitCount
  <2>2. ProfileType /\ IndexType /\ CountInv /\ [Next]_vars => CountInv'
    BY CountStep
  <2> QED
    BY <2>1, <2>2, TypesInductive, PTL DEF Spec
<1> QED
  BY <1>1, <1>2, BucketsInductive, PTL

----
(***************************************************************************)
(* The walk.                                                                *)
(***************************************************************************)
\* A walk that has another page to fetch: without a region, whoever has matched
\* since it began has been returned or is ahead of its cursor.
Fields(w) ==
  [query |-> w.query, limit |-> w.limit, cursor |-> w.cursor, first |-> w.first, seen |-> w.seen]

WalkInv ==
  /\ walk = Fields(walk)
  /\ walk.cursor \in Nat
  /\ walk.cursor # 0 =>
       /\ walk.limit \in Nat
       /\ walk.query.region = ANY => WalkLosesNoOne

\* The ids the scan matches.
Scanned(query) == {id \in Ids : Shown(id, query) /\ ResolveLevel(id) >= query.min_level}

LEMMA ScanFilters ==
  ASSUME IndexType, NEW query, query.region = ANY
  PROVE  /\ Matches(query) = Filter(playerIndex, Scanned(query))
         /\ playerIndex \in Seq(Ids)
         /\ Matches(query) \in Seq(Ids)
<1>1. playerIndex \in Seq(Ids) /\ Matches(query) = Filter(playerIndex, Scanned(query))
  BY DEF IndexType, IdList, Matches, SlowPath, Scanned
<1> QED
  BY <1>1, FilterType

\* With a region too, a walk's cursor is a number.
LEMMA PageShape ==
  ASSUME NEW query, query.region # ANY, NEW limit \in Nat, NEW cursor \in Nat,
         NEW first, NEW seen,
         walk' = WalkOn(query, limit, first, seen, FilterPlayers(query, cursor, limit))
  PROVE  WalkInv'
<1> DEFINE last == cursor + Clamp(limit)
           page == FilterPlayers(query, cursor, limit)
<1>1. last \in Nat
  BY RegistryAssumption DEF Clamp, Least
<1>2. page.next_cursor \in {0, last}
  BY DEF FilterPlayers
<1>3. PICK more, next : more = seen \cup Range(page.profiles) /\ next = page.next_cursor
  OBVIOUS
<1>4. walk' = IF next = 0 THEN NoWalk
              ELSE [query |-> query, limit |-> limit, cursor |-> next, first |-> first, seen |-> more]
  BY <1>3 DEF WalkOn
<1>5. next \in Nat
  BY <1>1, <1>2, <1>3
<1> HIDE DEF last, page
<1>6. CASE next = 0
  <2>1. walk' = NoWalk
    BY <1>4, <1>6
  <2>2. walk' = Fields(walk') /\ walk'.cursor = 0
    BY <2>1 DEF NoWalk, Fields
  <2> QED
    BY <2>2 DEF WalkInv
<1>7. CASE next # 0
  <2>1. walk' = [query |-> query, limit |-> limit, cursor |-> next, first |-> first, seen |-> more]
    BY <1>4, <1>7
  <2>2. /\ walk' = Fields(walk') /\ walk'.cursor = next /\ walk'.limit = limit
        /\ walk'.query = query
    BY <2>1 DEF Fields
  <2> QED
    BY <1>5, <2>2 DEF WalkInv
<1> QED
  BY <1>6, <1>7

\* A page returns the matches between its cursor and the next one.
LEMMA PageStep ==
  ASSUME IndexType, NEW query, query.region = ANY, NEW limit \in Nat, NEW cursor \in Nat,
         NEW first, NEW seen,
         first \subseteq seen \cup Beyond(Matches(query), cursor),
         walk' = WalkOn(query, limit, first, seen, FilterPlayers(query, cursor, limit)),
         UNCHANGED registryVars
  PROVE  WalkInv'
<1> DEFINE all == Matches(query)
           last == cursor + Clamp(limit)
           page == FilterPlayers(query, cursor, limit)
<1>1. all \in Seq(Ids) /\ Len(all) \in Nat
  BY ScanFilters
<1>2. last \in Nat /\ last > cursor
  BY RegistryAssumption DEF Clamp, Least
<1>3. /\ page.next_cursor = IF Len(all) > last THEN last ELSE 0
      /\ page.profiles = SubSeq(all, cursor + 1, Least(last, Len(all)))
  BY DEF FilterPlayers
<1>4. all' = all
  BY DEF registryVars, profiles, settings, indexes, Matches, SlowPath, FastPath, Shown, Exists,
         ResolveLevel
<1>5. walk' = IF page.next_cursor = 0 THEN NoWalk
              ELSE [query |-> query, limit |-> limit, cursor |-> page.next_cursor,
                    first |-> first, seen |-> seen \cup Range(page.profiles)]
  BY DEF WalkOn
<1>6. CASE page.next_cursor = 0
  <2>1. walk' = NoWalk
    BY <1>5, <1>6
  <2> HIDE DEF page
  <2>2. walk' = Fields(walk') /\ walk'.cursor = 0
    BY <2>1 DEF NoWalk, Fields
  <2> QED
    BY <2>2 DEF WalkInv
<1>7. CASE page.next_cursor # 0
  <2>1. last < Len(all) /\ page.next_cursor = last
    BY <1>1, <1>2, <1>3, <1>7
  <2>2. page.profiles = SubSeq(all, cursor + 1, last)
    BY <1>1, <1>2, <1>3, <2>1 DEF Least
  <2>3. /\ walk'.cursor = last /\ walk'.limit = limit /\ walk'.first = first
        /\ walk'.seen = seen \cup Range(page.profiles) /\ walk'.query = query
        /\ walk' = Fields(walk')
    <3>1. PICK more : more = seen \cup Range(page.profiles)
      OBVIOUS
    <3>2. walk' = [query |-> query, limit |-> limit, cursor |-> last, first |-> first, seen |-> more]
      BY <1>5, <1>7, <2>1, <3>1
    <3> QED
      BY <3>1, <3>2 DEF Fields
  <2> HIDE DEF all, last, page
  <2>4. ASSUME NEW x \in Beyond(all, cursor) PROVE x \in Range(page.profiles) \/ x \in Beyond(all, last)
    <3>1. cursor <= last /\ last <= Len(all)
      BY <1>1, <1>2, <2>1
    <3>2. Contains(page.profiles, x) \/ x \in Beyond(all, last)
      BY <1>1, <1>2, <2>2, <2>4, <3>1, PageBeyond
    <3>3. page.profiles \in Seq(Ids)
      BY <1>1, <1>2, <2>2, <3>1, PageEntries
    <3> QED
      BY <3>2, <3>3, RangeEntries
  <2>5. first \subseteq (seen \cup Range(page.profiles)) \cup Beyond(all, last)
    BY <2>4 DEF all
  <2>6. Matches(walk.query)' = all
    BY <1>4, <2>3 DEF all
  <2>7. WalkLosesNoOne'
    BY <2>3, <2>5, <2>6 DEF WalkLosesNoOne
  <2>8. walk' = Fields(walk') /\ walk'.cursor \in Nat /\ walk'.limit \in Nat
    BY <1>2, <2>3 DEF last
  <2> QED
    BY <2>7, <2>8 DEF WalkInv
<1> QED
  BY <1>6, <1>7

\* The scanned vector grows at its end, or loses an id that no longer matches.
IndexMoves ==
  \/ playerIndex' = playerIndex
  \/ \E id \in Ids : playerIndex' = Append(playerIndex, id)
  \/ \E id \in Ids : playerIndex' = RemoveFirst(playerIndex, id) /\ ~Exists(id)'

LEMMA IndexMovesOnly ==
  ASSUME ProfileType, IndexType, [Next]_vars
  PROVE  IndexMoves
<1>1. CASE \E wallet \in Wallets, vitals \in Vitals : RegisterPlayer(wallet, vitals)
  BY <1>1, RegisterEnters DEF IndexMoves
<1>2. CASE \E id \in Ids, wallet \in Wallets, vitals \in Vitals, level \in ProgressLevel :
             Seed(id, wallet, vitals, level)
  BY <1>2, SeedEnters DEF IndexMoves
<1>3. CASE \E id \in Ids : DeregisterPlayer(id)
  <2>1. PICK id \in Ids : DeregisterPlayer(id)
    BY <1>3
  <2>2. player' = [player EXCEPT ![id] = NONE] /\ playerIndex' = RemoveFirst(playerIndex, id)
    BY <2>1, DeregisterLeaves, Zenon DEF Left
  <2>3. ~Exists(id)'
    BY <2>2 DEF Exists, ProfileType
  <2> QED
    BY <2>2, <2>3 DEF IndexMoves
<1>4. CASE \E id \in Ids, level \in ProgressLevel : SetPlayerLevel(id, level)
  BY <1>4, LevelMoves DEF IndexMoves
<1>5. CASE UNCHANGED Registered
  BY <1>5 DEF Registered, IndexMoves
<1> QED
  BY <1>1, <1>2, <1>3, <1>4, <1>5, RegistrySteps

\* Every step but the client's own is observed by the walk, or changes nothing it
\* depends on.
LEMMA WalkSteps ==
  ASSUME [Next]_vars
  PROVE  \/ Observe
         \/ NextPage
         \/ \E query \in Queries, limit \in PageLimits : FirstPage(query, limit)
         \/ /\ walk' = walk
            /\ UNCHANGED <<player, playerLevel, playerDeactivated, playerIndex, byLevelRegion,
                           progressWired, progressLevel>>
<1>1. CASE \/ PauseContract \/ UnpauseContract \/ SetProgressContract
           \/ \E secs \in Cooldowns : SetRegCooldown(secs)
           \/ \E id \in Ids : DeactivatePlayer(id) \/ ReactivatePlayer(id) \/ DeregisterPlayer(id)
           \/ \E wallet \in Wallets, vitals \in Vitals : RegisterPlayer(wallet, vitals)
           \/ \E id \in Ids, level \in Levels : SetPlayerLevel(id, level)
  BY <1>1, Zenon DEF PauseContract, UnpauseContract, SetProgressContract, SetRegCooldown,
     DeactivatePlayer, ReactivatePlayer, DeregisterPlayer, RegisterPlayer, SetPlayerLevel
<1>2. CASE \/ \E id \in SeedIds, wallet \in Wallets, vitals \in Vitals, level \in Levels :
                AdminSeedPlayer(id, wallet, vitals, level)
           \/ \E auth \in Authorizations, id \in Ids, vitals \in Vitals, level \in Levels :
                RedeemMigrationPlayer(auth, id, vitals, level)
  BY SMTT(60), <1>2 DEF AdminSeedPlayer, RedeemMigrationPlayer, Seed
<1>3. CASE Tick \/ UNCHANGED vars
  BY <1>3 DEF Tick, vars, registryVars, settings, profiles, indexes
<1> QED
  BY <1>1, <1>2, <1>3 DEF Next

\* The scan after a step keeps whom the step leaves a match ahead of the cursor.
LEMMA ScanMoves ==
  ASSUME IndexType, IndexType', IndexMoves, NEW query, query.region = ANY, NEW c \in Nat,
         Upto(Matches(query), c) \subseteq MatchSet(query)'
  PROVE  Beyond(Matches(query), c) \cap MatchSet(query)' \subseteq Beyond(Matches(query)', c)
<1> DEFINE A == Scanned(query)
           B == Scanned(query)'
<1>1. /\ Matches(query) = Filter(playerIndex, A) /\ playerIndex \in Seq(Ids)
      /\ Matches(query)' = Filter(playerIndex', B) /\ playerIndex' \in Seq(Ids)
  <2>1. playerIndex' \in Seq(Ids) /\ Matches(query)' = Filter(playerIndex', B)
    BY DEF IndexType, IdList, Matches, SlowPath, Scanned
  <2> QED
    BY <2>1, ScanFilters
<1>2. \A id \in Ids : ~Exists(id)' => id \notin B
  BY DEF Scanned, Shown, Exists
<1> HIDE DEF A, B
<1>3. MatchSet(query)' \subseteq B
  <2>1. MatchSet(query)' = Range(Filter(playerIndex', B))
    BY <1>1 DEF MatchSet
  <2>2. Filter(playerIndex', B) \in Seq(Ids)
    BY <1>1, FilterType
  <2>3. ASSUME NEW x, x \in Range(Filter(playerIndex', B)) PROVE x \in B
    BY <1>1, <2>2, <2>3, RangeEntries, FilterEntries
  <2> QED
    BY <2>1, <2>3
<1>4. Beyond(Filter(playerIndex, A), c) \cap B \subseteq Beyond(Filter(playerIndex, B), c)
  BY <1>1, <1>3, FilterFurther DEF Further
<1>5. Beyond(Filter(playerIndex, B), c) \subseteq Beyond(Filter(playerIndex', B), c)
  <2>1. CASE playerIndex' = playerIndex
    BY <2>1
  <2>2. CASE \E id \in Ids : playerIndex' = Append(playerIndex, id)
    <3>1. PICK id \in Ids : playerIndex' = Append(playerIndex, id)
      BY <2>2
    <3>2. PICK kept \in Seq(Ids) : kept = Filter(playerIndex, B)
      BY <1>1, FilterType
    <3>3. Filter(playerIndex', B) = IF id \in B THEN Append(kept, id) ELSE kept
      BY <1>1, <3>1, <3>2, FilterAppend
    <3>4. Beyond(kept, c) \subseteq Beyond(Append(kept, id), c)
      BY <3>2, BeyondAppend
    <3> QED
      BY <3>2, <3>3, <3>4
  <2>3. CASE \E id \in Ids : playerIndex' = RemoveFirst(playerIndex, id) /\ ~Exists(id)'
    <3>1. PICK id \in Ids : playerIndex' = RemoveFirst(playerIndex, id) /\ ~Exists(id)'
      BY <2>3
    <3>2. Filter(playerIndex', B) = Filter(playerIndex, B)
      BY <1>1, <1>2, <3>1, FilterRemoveFirst
    <3> QED
      BY <3>2
  <2> QED
    BY <2>1, <2>2, <2>3 DEF IndexMoves
<1>6. Beyond(Matches(query), c) \cap MatchSet(query)'
        \subseteq Beyond(Filter(playerIndex, A), c) \cap B
  BY <1>1, <1>3
<1> QED
  BY <1>1, <1>4, <1>5, <1>6

\* What happens between two pages.
LEMMA ObserveStep ==
  ASSUME IndexType, IndexType', WalkInv, IndexMoves, Observe
  PROVE  WalkInv'
<1>1. CASE walk.cursor = 0
  <2>1. walk' = walk
    BY <1>1 DEF Observe
  <2> QED
    BY <1>1, <2>1 DEF WalkInv
<1>2. CASE walk.cursor # 0
  <2>1. PICK query \in Queries :
          /\ query = walk.query
          /\ walk' = IF Upto(Matches(query), walk.cursor) \subseteq MatchSet(query)'
                     THEN [walk EXCEPT !.first = @ \cap MatchSet(query)'] ELSE NoWalk
    BY <1>2 DEF Observe
  <2>2. CASE ~(Upto(Matches(query), walk.cursor) \subseteq MatchSet(query)')
    <3>1. walk' = NoWalk
      BY <2>1, <2>2, Zenon
    <3>2. walk' = Fields(walk') /\ walk'.cursor = 0
      BY <3>1 DEF NoWalk, Fields
    <3> QED
      BY <3>2 DEF WalkInv
  <2>3. CASE Upto(Matches(query), walk.cursor) \subseteq MatchSet(query)'
    <3>1. PICK c, first : c = walk.cursor /\ first = walk.first \cap MatchSet(query)'
      OBVIOUS
    <3>2. walk' = [walk EXCEPT !.first = first]
      BY <2>1, <2>3, <3>1, Zenon
    <3>3. /\ walk'.cursor = c /\ walk'.limit = walk.limit /\ walk'.query = query
          /\ walk'.seen = walk.seen
      <4>1. walk = Fields(walk)
        BY DEF WalkInv
      <4>2. walk' = [Fields(walk) EXCEPT !.first = first]
        BY <3>2, <4>1, Zenon
      <4> QED
        BY <2>1, <3>1, <4>2 DEF Fields
    <3>4. walk' = Fields(walk') /\ walk'.first = first
      <4>1. walk' = [Fields(walk) EXCEPT !.first = first]
        BY <3>2, Zenon DEF WalkInv
      <4> QED
        BY <4>1 DEF Fields
    <3>5. ASSUME query.region = ANY PROVE WalkLosesNoOne'
      <4>1. walk.first \subseteq walk.seen \cup Beyond(Matches(query), c)
        BY <1>2, <2>1, <3>1, <3>5 DEF WalkInv, WalkLosesNoOne
      <4>2. Beyond(Matches(query), c) \cap MatchSet(query)' \subseteq Beyond(Matches(query)', c)
        BY <2>3, <3>1, <3>5, ScanMoves DEF WalkInv
      <4>3. first \subseteq walk.seen \cup Beyond(Matches(query)', c)
        BY <3>1, <4>1, <4>2
      <4>4. Beyond(Matches(walk.query), walk.cursor)' = Beyond(Matches(query)', c)
        BY <3>3
      <4> QED
        BY <3>3, <3>4, <4>3, <4>4 DEF WalkLosesNoOne
    <3>6. c \in Nat /\ walk.limit \in Nat
      BY <1>2, <3>1 DEF WalkInv
    <3> QED
      BY <3>3, <3>4, <3>5, <3>6 DEF WalkInv
  <2> QED
    BY <2>1, <2>2, <2>3
<1> QED
  BY <1>1, <1>2

LEMMA WalkStep ==
  ASSUME ProfileType, IndexType, IndexType', WalkInv, [Next]_vars
  PROVE  WalkInv'
<1>1. CASE Observe
  BY <1>1, ObserveStep, IndexMovesOnly
<1>2. CASE NextPage
  <2>1. /\ walk.cursor # 0 /\ UNCHANGED registryVars
        /\ walk' = WalkOn(walk.query, walk.limit, walk.first, walk.seen,
                          FilterPlayers(walk.query, walk.cursor, walk.limit))
    BY <1>2 DEF NextPage
  <2>2. CASE walk.query.region = ANY
    <3>1. walk.first \subseteq walk.seen \cup Beyond(Matches(walk.query), walk.cursor)
      BY <2>1, <2>2 DEF WalkInv, WalkLosesNoOne
    <3> QED
      BY <2>1, <2>2, <3>1, PageStep DEF WalkInv
  <2>3. CASE walk.query.region # ANY
    BY <2>1, <2>3, PageShape DEF WalkInv
  <2> QED
    BY <2>2, <2>3
<1>3. CASE \E query \in Queries, limit \in PageLimits : FirstPage(query, limit)
  <2>1. PICK query \in Queries, limit \in PageLimits : FirstPage(query, limit)
    BY <1>3
  <2>2. /\ UNCHANGED registryVars /\ limit \in Nat
        /\ walk' = WalkOn(query, limit, MatchSet(query), {}, FilterPlayers(query, 0, limit))
    BY <2>1, RegistryAssumption DEF FirstPage
  <2>3. CASE query.region = ANY
    <3>1. Matches(query) \in Seq(Ids)
      BY <2>3, ScanFilters
    <3>2. MatchSet(query) \subseteq {} \cup Beyond(Matches(query), 0)
      <4>1. ASSUME NEW x \in MatchSet(query) PROVE x \in Beyond(Matches(query), 0)
        <5>1. Contains(Matches(query), x)
          BY <3>1, <4>1, RangeEntries DEF MatchSet
        <5>2. PICK i \in 1..Len(Matches(query)) : Matches(query)[i] = x
          BY <5>1 DEF Contains
        <5>3. i > 0
          OBVIOUS
        <5> QED
          BY <3>1, <5>2, <5>3, BeyondEntries
      <4> QED
        BY <4>1
    <3> QED
      BY <2>2, <2>3, <3>2, PageStep
  <2>4. CASE query.region # ANY
    BY <2>2, <2>4, PageShape
  <2> QED
    BY <2>3, <2>4
<1>4. CASE /\ walk' = walk
           /\ UNCHANGED <<player, playerLevel, playerDeactivated, playerIndex, byLevelRegion,
                          progressWired, progressLevel>>
  <2>1. Matches(walk.query)' = Matches(walk.query)
    BY <1>4 DEF Matches, SlowPath, FastPath, Shown, Exists, ResolveLevel
  <2> QED
    BY <1>4, <2>1 DEF WalkInv, WalkLosesNoOne
<1> QED
  BY <1>1, <1>2, <1>3, <1>4, WalkSteps

\* A client that passes next_cursor back as the offset of a scan while players are
\* registered, replayed, hidden, moved and erased: as long as no match that a page
\* has counted goes away, whoever matched all along is returned.
THEOREM ScansLoseNoOne == Spec => []ScanLosesNoOne
<1>1. Init => WalkInv
  BY DEF Init, InitWith, WalkInv, NoWalk, Fields
<1>2. ProfileType /\ IndexType /\ IndexType' /\ WalkInv /\ [Next]_vars => WalkInv'
  BY WalkStep
<1>3. WalkInv => ScanLosesNoOne
  BY DEF WalkInv, ScanLosesNoOne, WalkLosesNoOne
<1> QED
  BY <1>1, <1>2, <1>3, TypesInductive, PTL DEF Spec

----
(***************************************************************************)
(* Tickets, and the types of the remaining keys.                            *)
(***************************************************************************)
\* A ticket is redeemed at most once, and its nonce is marked from then on.
TicketInv ==
  /\ paused \in BOOLEAN /\ progressWired \in BOOLEAN
  /\ migrationNonce \subseteq Wallets \X Nat
  /\ redeemed \in [Authorizations -> 0..1]
  /\ \A auth \in Authorizations : redeemed[auth] = 1 => NonceKey(auth) \in migrationNonce

LEMMA NonceType ==
  ASSUME NEW auth \in Authorizations
  PROVE  NonceKey(auth) \in Wallets \X Nat
<1>1. auth \in MigrationAuthorization
  BY RegistryAssumption
<1>2. auth.wallet \in Wallets /\ auth.nonce \in Nat
  BY <1>1 DEF MigrationAuthorization
<1> QED
  BY <1>2 DEF NonceKey

LEMMA TicketStep ==
  ASSUME TicketInv, [Next]_vars
  PROVE  TicketInv'
<1>1. CASE PauseContract \/ UnpauseContract \/ SetProgressContract
  BY <1>1 DEF PauseContract, UnpauseContract, SetProgressContract, history, TicketInv, NonceKey
<1>2. CASE \E auth \in Authorizations, id \in Ids, vitals \in Vitals, level \in Levels :
             RedeemMigrationPlayer(auth, id, vitals, level)
  <2>1. PICK auth \in Authorizations, id \in Ids, vitals \in Vitals, level \in Levels :
          RedeemMigrationPlayer(auth, id, vitals, level)
    BY <1>2
  <2>2. /\ NonceKey(auth) \notin migrationNonce
        /\ migrationNonce' = migrationNonce \cup {NonceKey(auth)}
        /\ redeemed' = [redeemed EXCEPT ![auth] = @ + 1]
    BY <2>1 DEF RedeemMigrationPlayer, NonceFree
  <2>3. paused' = paused /\ progressWired' = progressWired
    BY <2>1 DEF RedeemMigrationPlayer, Seed, settings
  <2>4. redeemed[auth] = 0
    BY <2>2 DEF TicketInv
  <2>5. \A other \in Authorizations : redeemed'[other] = IF other = auth THEN 1 ELSE redeemed[other]
    BY <2>2, <2>4 DEF TicketInv
  <2>6. redeemed' \in [Authorizations -> 0..1]
    BY <2>2, <2>4 DEF TicketInv
  <2>7. migrationNonce' \subseteq Wallets \X Nat
    BY <2>2, NonceType DEF TicketInv
  <2>8. ASSUME NEW other \in Authorizations, redeemed'[other] = 1
        PROVE  NonceKey(other) \in migrationNonce'
    BY <2>2, <2>5, <2>8 DEF TicketInv
  <2>9. \A other \in Authorizations : NonceKey(other)' = NonceKey(other)
    BY DEF NonceKey
  <2> QED
    BY <2>3, <2>6, <2>7, <2>8, <2>9 DEF TicketInv
<1>3. ASSUME UNCHANGED <<paused, progressWired, migrationNonce, redeemed>> PROVE TicketInv'
  BY <1>3 DEF TicketInv, NonceKey
<1>4. CASE \/ \E secs \in Cooldowns : SetRegCooldown(secs)
           \/ \E id \in Ids : DeactivatePlayer(id) \/ ReactivatePlayer(id) \/ DeregisterPlayer(id)
           \/ \E id \in Ids, level \in Levels : SetPlayerLevel(id, level)
           \/ \E query \in Queries, limit \in PageLimits : FirstPage(query, limit)
           \/ NextPage \/ Tick \/ UNCHANGED vars
  BY <1>3, <1>4 DEF SetRegCooldown, DeactivatePlayer, ReactivatePlayer, DeregisterPlayer,
     SetPlayerLevel, FirstPage, NextPage, Tick, vars, registryVars, settings, history
<1>5. CASE \E wallet \in Wallets, vitals \in Vitals : RegisterPlayer(wallet, vitals)
  BY <1>3, <1>5 DEF RegisterPlayer, settings
<1>6. CASE \E id \in SeedIds, wallet \in Wallets, vitals \in Vitals, level \in Levels :
             AdminSeedPlayer(id, wallet, vitals, level)
  BY <1>3, <1>6 DEF AdminSeedPlayer, Seed, settings
<1> QED
  BY <1>1, <1>2, <1>4, <1>5, <1>6 DEF Next

\* The keys of the contract hold what their types say; and a relayer gets one profile
\* out of a signed ticket, also after that profile is erased and with any number of
\* tickets under the same nonce.
THEOREM RegistryTypesHold == Spec => []TypeOK
<1>1. Init => TicketInv
  <2> SUFFICES ASSUME Init PROVE TicketInv
    OBVIOUS
  <2>1. PICK old \in {{}, LegacyPlayers} : InitWith(old)
    BY DEF Init
  <2>2. /\ paused = FALSE /\ progressWired = (old # {}) /\ migrationNonce = {}
        /\ redeemed = [auth \in Authorizations |-> 0]
    BY <2>1 DEF InitWith
  <2>3. paused \in BOOLEAN /\ progressWired \in BOOLEAN
    BY <2>2, Zenon
  <2>4. redeemed \in [Authorizations -> 0..1] /\ \A auth \in Authorizations : redeemed[auth] # 1
    BY <2>2
  <2> QED
    BY <2>2, <2>3, <2>4 DEF TicketInv
<1>2. TicketInv /\ [Next]_vars => TicketInv'
  BY TicketStep
<1>3. Spec => []TicketInv
  BY <1>1, <1>2, PTL DEF Spec
<1>4. TicketInv /\ StampInv /\ ProfileType /\ IndexType => TypeOK
  BY DEF TicketInv, StampInv, ProfileType, IndexType, TypeOK, IdList, Buckets
<1> QED
  BY <1>3, <1>4, StampsInductive, TypesInductive, PTL
====
