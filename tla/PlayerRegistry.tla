---- MODULE PlayerRegistry ----
(***************************************************************************)
(* The registration contract's players: profiles, the wallet index, the     *)
(* three discovery indexes and the live counter, through registration,      *)
(* replay, migration tickets, level write-backs, deactivation and erasure;  *)
(* and a client that walks filter_players page by page meanwhile.           *)
(*                                                                          *)
(* An action is a successful invocation (a failing one leaves no trace).    *)
(* The index vectors keep their order, which paging depends on.  A profile  *)
(* keeps its wallet and vitals; age, nationality, CIDs and the timestamps,  *)
(* and with them update_profile, are abstracted from.  The strings the code *)
(* canonicalises are taken in canonical form.                               *)
(***************************************************************************)
EXTENDS Lists, FiniteSets

CONSTANTS
  NONE,              \* an absent storage key
  Wallets,           \* player wallets
  MaxPlayerId,       \* player ids considered: 1..MaxPlayerId
  Vitals,            \* canonical vitals, records with region and position
  SeedIds,           \* ids the admin may replay profiles under
  Authorizations,    \* migration tickets that wallets have signed
  LegacyPlayers,     \* initial profiles from before PlayerLevel was tracked
  Levels,            \* levels that progress writes back and the admin replays
  Cooldowns,         \* values the admin may give the cooldown
  MAX_PAGE,          \* entries a page holds at most (50)
  MAX_PLAYERS,       \* cap on PlayerIndex (10_000 in the source)
  MAX_BATCH_SIZE,    \* ids get_players takes (20)
  DEFAULT_REG_COOLDOWN_SECS,  \* one day in the source
  Queries,           \* the filters clients use
  PageLimits,        \* and their page sizes
  MaxTime            \* bound on the ledger time

Ids == 1..MaxPlayerId

Unverified == 0
VerifiedIdentity == 1
PerformanceMilestones == 2
EliteTier == 3
ProgressLevel == Unverified..EliteTier

ANY == ""            \* an empty filter string
Regions == {v.region : v \in Vitals}
Positions == {v.position : v \in Vitals}
StoredPlayerProfile == [wallet : Wallets, vitals : Vitals]
\* The hash of a profile, by what goes into it: not the level.
ProfileDataHash(wallet, vitals, id) == <<wallet, vitals, id>>
MigrationAuthorization ==
  [wallet : Wallets, profile_data_hash : Wallets \X Vitals \X Ids,
   nonce : Nat, expires_at : Nat]

ASSUME RegistryAssumption ==
  /\ MaxPlayerId \in Nat /\ MaxTime \in Nat /\ MAX_PLAYERS \in Nat /\ MAX_BATCH_SIZE \in Nat
  /\ MAX_PAGE \in Nat \ {0}
  /\ DEFAULT_REG_COOLDOWN_SECS \in Nat /\ Cooldowns \subseteq Nat
  /\ SeedIds \subseteq Ids
  /\ Levels \subseteq ProgressLevel
  /\ Authorizations \subseteq MigrationAuthorization
  /\ PageLimits \subseteq Nat
  /\ NONE \notin Nat \cup Wallets \cup StoredPlayerProfile

ASSUME LegacyAssumption ==
  /\ LegacyPlayers \subseteq [id : Ids, wallet : Wallets, vitals : Vitals, level : ProgressLevel]
  /\ \A o1, o2 \in LegacyPlayers : o1 # o2 => o1.id # o2.id /\ o1.wallet # o2.wallet

VARIABLES
  paused,               \* Paused
  cooldownSecs,         \* RegCooldownSecs, its default when absent
  progressWired,        \* whether ProgressContract is set
  playerCounter,        \* PlayerCounter
  livePlayerCount,      \* LivePlayerCount
  player,               \* Player(id)
  playerByWallet,       \* PlayerByWallet(wallet)
  playerLevel,          \* PlayerLevel(id)
  playerDeactivated,    \* the ids whose PlayerDeactivated flag is set
  playerIndex,          \* PlayerIndex
  byLevel,              \* PlayersByLevel(level)
  byLevelRegion,        \* PlayersByLevelRegion(level, region)
  playerRegLastSent,    \* PlayerRegLastSent(wallet)
  migrationNonce,       \* the pairs (wallet, nonce) marked by MigrationNonce
  progressLevel,        \* progress: the level it reports for an id
  now,                  \* the ledger clock
  walk,                 \* a client's walk through filter_players
  \* What the properties need to know of the past; no guard reads these.
  overwritten,          \* ids whose live profile a registration replaced
  lastRegistered,       \* when each wallet last registered
  redeemed              \* how often each ticket has been redeemed

settings == <<paused, cooldownSecs, progressWired>>
profiles == <<player, playerByWallet, playerLevel, livePlayerCount>>
indexes == <<playerIndex, byLevel, byLevelRegion>>
history == <<overwritten, lastRegistered, redeemed>>
registryVars == <<settings, playerCounter, profiles, playerDeactivated, indexes,
                  playerRegLastSent, migrationNonce, progressLevel, now, history>>
vars == <<registryVars, walk>>

----
(***************************************************************************)
(* Discovery.                                                               *)
(***************************************************************************)
Least(a, b) == IF a < b THEN a ELSE b

Exists(id) == player[id] # NONE

\* resolve_level: the stored level, or progress's, or Unverified without a link.
ResolveLevel(id) ==
  IF playerLevel[id] # NONE THEN playerLevel[id]
  ELSE IF progressWired THEN progressLevel[id] ELSE Unverified

\* The profile readers answer with; a summary leaves the wallet out.
LoadPlayer(id) ==
  IF Exists(id) THEN [player_id |-> id, wallet |-> player[id].wallet,
                      vitals |-> player[id].vitals, level |-> ResolveLevel(id)]
  ELSE NONE
ToPlayerSummary(profile) ==
  [player_id |-> profile.player_id, vitals |-> profile.vitals, level |-> profile.level]

GetPlayerIdByWallet(w) == playerByWallet[w]
GetPlayerByWallet(w) ==
  IF playerByWallet[w] = NONE THEN NONE ELSE LoadPlayer(playerByWallet[w])
GetPlayerStatus(id) ==
  IF ~Exists(id) THEN NONE ELSE IF id \in playerDeactivated THEN "Deactivated" ELSE "Active"
GetPlayerCount == livePlayerCount

\* A repeated id is answered once, where it occurs first; a missing one is not.
GetPlayers(ids) ==
  IF Len(ids) > MAX_BATCH_SIZE THEN NONE
  ELSE LET hits == Filter(Once(ids), {id \in Ids : Exists(id)})
       IN  [i \in DOMAIN hits |-> ToPlayerSummary(LoadPlayer(hits[i]))]

\* What both paths of filter_players ask of an id before counting it.
Shown(id, query) ==
  /\ id \notin playerDeactivated
  /\ Exists(id)
  /\ query.position \in {ANY, player[id].vitals.position}

\* With a region, the buckets of the levels from min_level up, in level order.
FastPath(query) ==
  LET bucket(k) == byLevelRegion[query.min_level + k - 1][query.region]
  IN  Filter(FlattenSeq([k \in 1..(EliteTier - query.min_level + 1) |-> bucket(k)]),
             {id \in Ids : Shown(id, query)})

\* Mutant: the minimum level is excluded.
AboveMinLevel(query) ==
  Filter(playerIndex, {id \in Ids : Shown(id, query) /\ ResolveLevel(id) > query.min_level})

\* Without one, a scan of PlayerIndex.
SlowPath(query) ==
  Filter(playerIndex, {id \in Ids : Shown(id, query) /\ ResolveLevel(id) >= query.min_level})

Matches(query) == IF query.region = ANY THEN SlowPath(query) ELSE FastPath(query)

Clamp(limit) == IF limit = 0 THEN 1 ELSE Least(limit, MAX_PAGE)

\* Mutant: next_cursor counts the match that did not fit.
CursorPastNext(query, offset, limit) ==
  LET all  == Matches(query)
      last == offset + Clamp(limit)
  IN  [profiles    |-> SubSeq(all, offset + 1, Least(last, Len(all))),
       next_cursor |-> IF Len(all) > last THEN last + 1 ELSE 0]

\* filter_players: limit matches after the first offset ones; next_cursor is 0
\* unless another match follows.
FilterPlayers(query, offset, limit) ==
  LET all  == Matches(query)
      last == offset + Clamp(limit)
  IN  [profiles    |-> SubSeq(all, offset + 1, Least(last, Len(all))),
       next_cursor |-> IF Len(all) > last THEN last ELSE 0]

----
(***************************************************************************)
(* A client that walks filter_players, passing next_cursor back as offset:  *)
(* who has matched ever since it began, and what the calls have returned.   *)
(* A walk is followed until it ends or a match that a page has counted goes *)
(* away, for the offset then skips one who is still there.                  *)
(***************************************************************************)
MatchSet(query) == Range(Matches(query))

NoWalk == [query |-> NONE, limit |-> 0, cursor |-> 0, first |-> {}, seen |-> {}]

Observe ==
  IF walk.cursor = 0 THEN UNCHANGED walk
  ELSE \E query \in Queries :
         /\ query = walk.query
         /\ walk' = IF Upto(Matches(query), walk.cursor) \subseteq MatchSet(query)'
                    THEN [walk EXCEPT !.first = @ \cap MatchSet(query)'] ELSE NoWalk

\* The walk after a page: over when there is no next one.
WalkOn(query, limit, first, seen, page) ==
  IF page.next_cursor = 0 THEN NoWalk
  ELSE [query |-> query, limit |-> limit, cursor |-> page.next_cursor,
        first |-> first, seen |-> seen \cup Range(page.profiles)]

----
(***************************************************************************)
(* Indexes.                                                                 *)
(***************************************************************************)
CompositeIndexAdd(id, level, region) ==
  byLevelRegion' = [byLevelRegion EXCEPT ![level][region] = Append(@, id)]
LevelIndexAdd(id, level) == byLevel' = [byLevel EXCEPT ![level] = Append(@, id)]
CompositeIndexRemove(id, level, region) ==
  byLevelRegion' = [byLevelRegion EXCEPT ![level][region] = RemoveFirst(@, id)]
LevelIndexRemove(id, level) ==
  byLevel' = [byLevel EXCEPT ![level] = RemoveFirst(@, id)]

\* Mutant: the composite index is not told of the move.
MoveLevelOnly(id, from, level, region) ==
  /\ byLevel' = [l \in ProgressLevel |->
                   LET rest == IF l \in from THEN RemoveFirst(byLevel[l], id) ELSE byLevel[l]
                   IN  IF l = level THEN Append(rest, id) ELSE rest]
  /\ UNCHANGED byLevelRegion

\* Remove id from the buckets of the levels in from, then add it to level's.
IndexMove(id, from, level, region) ==
  LET moved(bucket, l) ==
        LET rest == IF l \in from THEN RemoveFirst(bucket, id) ELSE bucket
        IN  IF l = level THEN Append(rest, id) ELSE rest
  IN  /\ byLevelRegion' =
           [l \in ProgressLevel |->
              [byLevelRegion[l] EXCEPT ![region] = moved(@, l)]]
      /\ byLevel' = [l \in ProgressLevel |-> moved(byLevel[l], l)]

----
(***************************************************************************)
(* Administration.                                                          *)
(***************************************************************************)
PauseContract ==
  /\ ~paused
  /\ paused' = TRUE
  /\ UNCHANGED <<cooldownSecs, progressWired, playerCounter, profiles,
                 playerDeactivated, indexes, playerRegLastSent, migrationNonce,
                 progressLevel, now, history>>
  /\ Observe

UnpauseContract ==
  /\ paused
  /\ paused' = FALSE
  /\ UNCHANGED <<cooldownSecs, progressWired, playerCounter, profiles,
                 playerDeactivated, indexes, playerRegLastSent, migrationNonce,
                 progressLevel, now, history>>
  /\ Observe

SetRegCooldown(secs) ==
  /\ secs # cooldownSecs
  /\ cooldownSecs' = secs
  /\ UNCHANGED <<paused, progressWired, playerCounter, profiles,
                 playerDeactivated, indexes, playerRegLastSent, migrationNonce,
                 progressLevel, now, history>>
  /\ Observe

SetProgressContract ==
  /\ ~progressWired
  /\ progressWired' = TRUE
  /\ UNCHANGED <<paused, cooldownSecs, playerCounter, profiles,
                 playerDeactivated, indexes, playerRegLastSent, migrationNonce,
                 progressLevel, now, history>>
  /\ Observe

\* Deactivation hides a player from discovery and changes nothing else.
DeactivatePlayer(id) ==
  /\ Exists(id)
  /\ id \notin playerDeactivated
  /\ playerDeactivated' = playerDeactivated \cup {id}
  /\ UNCHANGED <<settings, playerCounter, profiles, indexes, playerRegLastSent,
                 migrationNonce, progressLevel, now, history>>
  /\ Observe

ReactivatePlayer(id) ==
  /\ Exists(id)
  /\ id \in playerDeactivated
  /\ playerDeactivated' = playerDeactivated \ {id}
  /\ UNCHANGED <<settings, playerCounter, profiles, indexes, playerRegLastSent,
                 migrationNonce, progressLevel, now, history>>
  /\ Observe

----
(***************************************************************************)
(* Profiles.                                                                *)
(***************************************************************************)
RequireNotPaused == ~paused
NextPlayerId == playerCounter + 1
IncrementLivePlayerCount == livePlayerCount' = livePlayerCount + 1

\* Mutant: the wallet check is dropped.
AnyWallet(wallet) == TRUE

WalletFree(wallet) == playerByWallet[wallet] = NONE

\* Mutant: the cooldown binds registered wallets only.
CooledWhenRegistered(wallet) ==
  ~WalletFree(wallet) /\ playerRegLastSent[wallet] # NONE /\ cooldownSecs > 0 =>
    now >= playerRegLastSent[wallet] + cooldownSecs

\* enforce_reg_cooldown on a wallet's last registration.
Cooled(wallet) ==
  playerRegLastSent[wallet] # NONE /\ cooldownSecs > 0 =>
    now >= playerRegLastSent[wallet] + cooldownSecs

\* The three keys of a profile.
WriteProfile(id, wallet, vitals, level) ==
  /\ player' = [player EXCEPT ![id] = [wallet |-> wallet, vitals |-> vitals]]
  /\ playerByWallet' = [playerByWallet EXCEPT ![wallet] = id]
  /\ playerLevel' = [playerLevel EXCEPT ![id] = level]

\* register_player takes the next id without looking whether it is in use.
RegisterPlayer(wallet, vitals) ==
  LET id == NextPlayerId
  IN  /\ RequireNotPaused
      /\ Cooled(wallet)
      /\ WalletFree(wallet)
      /\ Len(playerIndex) < MAX_PLAYERS
      /\ id <= MaxPlayerId    \* bound
      /\ playerCounter' = id
      /\ WriteProfile(id, wallet, vitals, Unverified)
      /\ playerIndex' = Append(playerIndex, id)
      /\ CompositeIndexAdd(id, Unverified, vitals.region) /\ LevelIndexAdd(id, Unverified)
      /\ IncrementLivePlayerCount
      /\ playerRegLastSent' = [playerRegLastSent EXCEPT ![wallet] = now]
      /\ overwritten' = IF Exists(id) THEN overwritten \cup {id} ELSE overwritten
      /\ lastRegistered' = [lastRegistered EXCEPT ![wallet] = now]
      /\ UNCHANGED <<settings, playerDeactivated, migrationNonce, progressLevel,
                     now, redeemed>>
      /\ Observe

\* The guards and writes of admin_seed_player: the caller chooses the id, the
\* counter does not move, and neither cooldown nor cap applies.
Seed(id, wallet, vitals, level) ==
  /\ RequireNotPaused
  /\ ~Exists(id)
  /\ WalletFree(wallet)
  /\ WriteProfile(id, wallet, vitals, level)
  /\ IF id \in Range(playerIndex)
     THEN UNCHANGED <<playerIndex, livePlayerCount>>
     ELSE /\ playerIndex' = Append(playerIndex, id)
          /\ IncrementLivePlayerCount
  /\ CompositeIndexAdd(id, level, vitals.region) /\ LevelIndexAdd(id, level)
  /\ UNCHANGED <<settings, playerCounter, playerDeactivated, playerRegLastSent,
                 progressLevel, now, overwritten, lastRegistered>>
  /\ Observe

AdminSeedPlayer(id, wallet, vitals, level) ==
  /\ Seed(id, wallet, vitals, level)
  /\ UNCHANGED <<migrationNonce, redeemed>>

NonceKey(auth) == <<auth.wallet, auth.nonce>>

\* Mutant: a marked nonce is accepted again.
AnyNonce(auth) == TRUE

NonceFree(auth) == NonceKey(auth) \notin migrationNonce

\* redeem_migration_player: the ticket fixes everything but the level, which
\* the signed profile_data_hash does not cover.
RedeemMigrationPlayer(auth, id, vitals, level) ==
  /\ auth.expires_at > 0 => auth.expires_at > now
  /\ auth.profile_data_hash = ProfileDataHash(auth.wallet, vitals, id)
  /\ NonceFree(auth)
  /\ migrationNonce' = migrationNonce \cup {NonceKey(auth)}
  /\ Seed(id, auth.wallet, vitals, level)
  /\ redeemed' = [redeemed EXCEPT ![auth] = @ + 1]

\* Mutant: the live counter is not decremented.
CountKept(count) == count

\* saturating_sub(1)
Decremented(count) == IF count = 0 THEN 0 ELSE count - 1

FlagCleared(id) == playerDeactivated \ {id}

\* deregister_player: the profile's keys and index entries go; the cooldown
\* stamp, the counter and the marked nonces stay.
DeregisterPlayer(id) ==
  LET profile == player[id]
      level   == IF playerLevel[id] = NONE THEN Unverified ELSE playerLevel[id]
  IN  /\ Exists(id)
      /\ player' = [player EXCEPT ![id] = NONE]
      /\ playerByWallet' = [playerByWallet EXCEPT ![profile.wallet] = NONE]
      /\ playerLevel' = [playerLevel EXCEPT ![id] = NONE]
      /\ playerDeactivated' = FlagCleared(id)
      /\ playerIndex' = RemoveFirst(playerIndex, id)
      /\ CompositeIndexRemove(id, level, profile.vitals.region)
      /\ LevelIndexRemove(id, level)
      /\ livePlayerCount' = Decremented(livePlayerCount)
      /\ UNCHANGED <<settings, playerCounter, playerRegLastSent, migrationNonce,
                     progressLevel, now, history>>
      /\ Observe

\* progress changes the player's level and writes it back with
\* set_player_level, which sweeps every bucket when no level was stored.
SetPlayerLevel(id, level) ==
  /\ progressWired
  /\ Exists(id)
  /\ level # progressLevel[id]
  /\ progressLevel' = [progressLevel EXCEPT ![id] = level]
  /\ IndexMove(id, IF playerLevel[id] = NONE THEN ProgressLevel ELSE {playerLevel[id]},
               level, player[id].vitals.region)
  /\ playerLevel' = [playerLevel EXCEPT ![id] = level]
  /\ UNCHANGED <<settings, playerCounter, player, playerByWallet, livePlayerCount,
                 playerDeactivated, playerIndex, playerRegLastSent,
                 migrationNonce, now, history>>
  /\ Observe

----
FirstPage(query, limit) ==
  /\ walk.cursor = 0
  /\ walk' = WalkOn(query, limit, MatchSet(query), {}, FilterPlayers(query, 0, limit))
  /\ UNCHANGED registryVars

NextPage ==
  /\ walk.cursor # 0
  /\ walk' = WalkOn(walk.query, walk.limit, walk.first, walk.seen,
                    FilterPlayers(walk.query, walk.cursor, walk.limit))
  /\ UNCHANGED registryVars

Tick ==
  /\ now < MaxTime
  /\ now' = now + 1
  /\ UNCHANGED <<settings, playerCounter, profiles, playerDeactivated, indexes,
                 playerRegLastSent, migrationNonce, progressLevel, walk, history>>

----
LegacyIds == {old.id : old \in LegacyPlayers}
LegacyIn(old) == Filter([id \in Ids |-> id], {o.id : o \in old})

\* A contract that holds the given legacy profiles, indexed at their levels.
InitWith(old) ==
  /\ paused = FALSE
  /\ cooldownSecs = DEFAULT_REG_COOLDOWN_SECS
  /\ progressWired = (old # {})
  /\ playerCounter \in {0} \cup {o.id : o \in old}
  /\ \A o \in old : o.id <= playerCounter
  /\ livePlayerCount = Cardinality(old)
  /\ player = [id \in Ids |->
                 IF \E o \in old : o.id = id
                 THEN LET o == CHOOSE o \in old : o.id = id
                      IN  [wallet |-> o.wallet, vitals |-> o.vitals]
                 ELSE NONE]
  /\ playerByWallet = [w \in Wallets |->
                         IF \E o \in old : o.wallet = w
                         THEN (CHOOSE o \in old : o.wallet = w).id ELSE NONE]
  /\ playerLevel = [id \in Ids |-> NONE]
  /\ playerDeactivated = {}
  /\ playerIndex = LegacyIn(old)
  /\ byLevel = [l \in ProgressLevel |-> LegacyIn({o \in old : o.level = l})]
  /\ byLevelRegion =
       [l \in ProgressLevel |->
          [r \in Regions |-> LegacyIn({o \in old : o.level = l /\ o.vitals.region = r})]]
  /\ playerRegLastSent = [w \in Wallets |-> NONE]
  /\ migrationNonce = {}
  /\ progressLevel = [id \in Ids |->
                        IF \E o \in old : o.id = id
                        THEN (CHOOSE o \in old : o.id = id).level ELSE Unverified]
  /\ now = 0
  /\ walk = NoWalk
  /\ overwritten = {}
  /\ lastRegistered = [w \in Wallets |-> NONE]
  /\ redeemed = [a \in Authorizations |-> 0]

\* A fresh contract, or an upgraded one.
Init == InitWith({}) \/ InitWith(LegacyPlayers)

Next ==
  \/ PauseContract
  \/ UnpauseContract
  \/ \E secs \in Cooldowns : SetRegCooldown(secs)
  \/ SetProgressContract
  \/ \E id \in Ids : DeactivatePlayer(id)
  \/ \E id \in Ids : ReactivatePlayer(id)
  \/ \E wallet \in Wallets, vitals \in Vitals : RegisterPlayer(wallet, vitals)
  \/ \E id \in SeedIds, wallet \in Wallets, vitals \in Vitals, level \in Levels :
       AdminSeedPlayer(id, wallet, vitals, level)
  \/ \E auth \in Authorizations, id \in Ids, vitals \in Vitals, level \in Levels :
       RedeemMigrationPlayer(auth, id, vitals, level)
  \/ \E id \in Ids : DeregisterPlayer(id)
  \/ \E id \in Ids, level \in Levels : SetPlayerLevel(id, level)
  \/ \E query \in Queries, limit \in PageLimits : FirstPage(query, limit)
  \/ NextPage
  \/ Tick

Spec == Init /\ [][Next]_vars

----
(***************************************************************************)
(* Properties.                                                              *)
(***************************************************************************)
\* Every storage key holds a value of its declared type, or is absent; and a
\* relayer gets one profile out of a ticket, also when that one is erased.
TypeOK ==
  /\ paused \in BOOLEAN /\ progressWired \in BOOLEAN /\ cooldownSecs \in Nat
  /\ playerCounter \in 0..MaxPlayerId /\ livePlayerCount \in Nat
  /\ player \in [Ids -> StoredPlayerProfile \cup {NONE}]
  /\ playerByWallet \in [Wallets -> Ids \cup {NONE}]
  /\ playerLevel \in [Ids -> ProgressLevel \cup {NONE}]
  /\ playerDeactivated \subseteq Ids
  /\ playerIndex \in Seq(Ids)
  /\ byLevel \in [ProgressLevel -> Seq(Ids)]
  /\ byLevelRegion \in [ProgressLevel -> [Regions -> Seq(Ids)]]
  /\ playerRegLastSent \in [Wallets -> Nat \cup {NONE}]
  /\ migrationNonce \subseteq Wallets \X Nat
  /\ progressLevel \in [Ids -> ProgressLevel]
  /\ now \in Nat
  /\ overwritten \subseteq Ids
  /\ redeemed \in [Authorizations -> 0..1]

\* Two keys describe who owns a profile, Player(id) and PlayerByWallet(wallet);
\* through registrations, replays, tickets and erasures each is the inverse of
\* the other, until a registration has taken an id that was replayed.  An erased
\* id keeps no flag that would hide its next owner.
WalletsOwnTheirProfiles ==
  overwritten = {} =>
    /\ \A w \in Wallets :
         GetPlayerByWallet(w) # NONE => GetPlayerByWallet(w).wallet = w
    /\ \A w \in Wallets, id \in Ids :
         GetPlayerIdByWallet(w) = id <=> Exists(id) /\ LoadPlayer(id).wallet = w
    /\ \A id \in playerDeactivated : GetPlayerStatus(id) = "Deactivated"

\* The counter that get_player_count reports and the vector that the slow path
\* scans both follow the profiles, although five calls maintain them apart; a
\* batch read of that vector, repetitions included, is answered once per player.
LiveCountIsExact ==
  overwritten = {} =>
    /\ GetPlayerCount = Cardinality({id \in Ids : Exists(id)})
    /\ GetPlayerCount = Len(playerIndex)
    /\ LET summaries == GetPlayers(playerIndex \o playerIndex)
       IN  summaries # NONE =>
             [i \in DOMAIN summaries |-> summaries[i].player_id] = playerIndex

\* The level buckets place every live player at the level and region its
\* profile resolves to, once, and an erased player in none of them; a player
\* from before PlayerLevel was tracked may leave an entry behind.
BucketsMatchProfiles ==
  overwritten = {} =>
    \A id \in Ids \ LegacyIds, l \in ProgressLevel :
      LET here == Exists(id) /\ ResolveLevel(id) = l
      IN  /\ Occurrences(byLevel[l], id) = IF here THEN 1 ELSE 0
          /\ \A r \in Regions :
               Occurrences(byLevelRegion[l][r], id) =
                 IF here /\ player[id].vitals.region = r THEN 1 ELSE 0

\* filter_players, by region from the buckets or without one from the scan,
\* lists exactly the players that exist, are not deactivated and have the
\* region, position and minimum level asked for, each once.  Legacy entries
\* left behind by an erasure may repeat a player seeded again under that id.
Wanted(query) ==
  {id \in Ids : /\ Shown(id, query)
                /\ query.region \in {ANY, player[id].vitals.region}
                /\ ResolveLevel(id) >= query.min_level}

FilterListsEachOnce ==
  overwritten = {} =>
    \A query \in [region : Regions \cup {ANY}, position : {ANY} \cup Positions,
                  min_level : ProgressLevel] :
      LET all    == Matches(query)
          wanted == Wanted(query)
      IN  /\ \A id \in wanted \ LegacyIds : Occurrences(all, id) = 1
          /\ wanted \subseteq Range(all)
          /\ Range(all) \subseteq wanted \cup LegacyIds

\* A walk without a region loses no one: whatever happens between two pages,
\* each player that has matched since the first page has been returned or is
\* still ahead of the cursor, unless a match that a page has counted, one that
\* appeared meanwhile too, has gone away.  With a region, a change of level
\* moves players between the buckets that are read in turn.
WalkLosesNoOne ==
  walk.cursor # 0 =>
    walk.first \subseteq walk.seen \cup Beyond(Matches(walk.query), walk.cursor)

ScanLosesNoOne ==
  walk.cursor # 0 => (walk.query.region = ANY => WalkLosesNoOne)

\* A wallet that registers again, after an erasure too, has waited for the
\* cooldown in force since it registered before.
CooldownOutlivesErasure ==
  [][\A w \in Wallets :
       lastRegistered[w] # NONE /\ playerCounter' # playerCounter
         /\ playerByWallet[w] = NONE /\ playerByWallet'[w] # NONE =>
       now >= lastRegistered[w] + cooldownSecs]_vars
====
