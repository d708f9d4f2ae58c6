---- MODULE ProgressProofs ----
(***************************************************************************)
(* Proofs about Progress for every value of its constants: type             *)
(* correctness, the agreement of history and level, of registration's copy  *)
(* and the level, what an erasure leaves behind, the two action properties, *)
(* and what the getters, the cursor and the Merkle root say of a history.   *)
(***************************************************************************)
EXTENDS HistoryReader, DataTheorems

\* What the type proofs use of the constants.
LEMMA LevelFacts ==
  /\ NONE \notin Level
  /\ Unverified \in Level
  /\ Level = 0..3
  /\ Level \subseteq Nat
BY NoneAssumption DEF Level, Unverified, VerifiedIdentity, PerformanceMilestones, EliteTier

\* An absent level reads as Unverified (get_current_level), so the level a
\* player has is always one of the four.
LEMMA CurrentLevelType ==
  ASSUME TypeOK, NEW p \in Players
  PROVE  CurrentLevel(p) \in Level
BY LevelFacts DEF CurrentLevel, OrElse, TypeOK

\* What an append does to the keys that other proofs look at, whatever the
\* page it starts from and the frontier it folds onto.
LEMMA AppendEffect ==
  ASSUME TypeOK, NEW p \in Players, NEW e \in ProgressEntry, NEW priorPage,
         historyCounter[p] < U32_MAX,
         AppendToHistory(p, e, priorPage)
  PROVE  /\ historyCounter' = [historyCounter EXCEPT ![p] = historyCounter[p] + 1]
         /\ historyCounter' \in [Players -> 0..U32_MAX]
         /\ historyCounter[p] + 1 \in Index
         /\ historyEntry' = [historyEntry EXCEPT ![p] =
              [historyEntry[p] EXCEPT ![historyCounter[p] + 1] = e]]
         /\ historyEntry' \in [Players -> [Index -> ProgressEntry \cup {NONE}]]
         /\ DOMAIN historyPage' = Players
         /\ \A r \in Players : DOMAIN historyPage'[r] = PageNo
         /\ \A r \in Players, q \in PageNo :
              historyPage'[r][q] # historyPage[r][q]
                => r = p /\ q = HistoryPageIndex(historyCounter[p] + 1)
         /\ DOMAIN historyRoot' = Players
         /\ DOMAIN historyFrontier' = Players
<1> DEFINE index == historyCounter[p] + 1
           entries == [historyEntry[p] EXCEPT ![index] = e]
           pages == [historyPage[p] EXCEPT ![HistoryPageIndex(index)] = Append(priorPage, e)]
<1>1. index \in Index
  BY SizesAssumption DEF TypeOK, Index
<1>2. /\ historyCounter' = [historyCounter EXCEPT ![p] = index]
      /\ historyEntry' = [historyEntry EXCEPT ![p] = entries]
      /\ historyPage' = [historyPage EXCEPT ![p] = pages]
      /\ DOMAIN historyRoot' = DOMAIN historyRoot
      /\ DOMAIN historyFrontier' = DOMAIN historyFrontier
  BY DEF AppendToHistory
<1>3. entries \in [Index -> ProgressEntry \cup {NONE}]
  BY <1>1 DEF TypeOK
<1>4. historyEntry' \in [Players -> [Index -> ProgressEntry \cup {NONE}]]
  BY <1>2, <1>3 DEF TypeOK
<1>5. historyCounter' \in [Players -> 0..U32_MAX]
  BY <1>1, <1>2 DEF TypeOK, Index
<1>6. DOMAIN pages = PageNo
  BY DEF TypeOK
<1>7. /\ DOMAIN historyPage' = Players
      /\ \A r \in Players : DOMAIN historyPage'[r] = PageNo
  BY <1>2, <1>6 DEF TypeOK
<1>8. \A r \in Players, q \in PageNo :
        historyPage'[r][q] # historyPage[r][q] => r = p /\ q = HistoryPageIndex(index)
  BY <1>2 DEF TypeOK
<1> QED
  BY <1>1, <1>2, <1>4, <1>5, <1>7, <1>8 DEF TypeOK

\* A successful level change (reset_player_level, advance_level and
\* advance_level_for_scout) appends one well-typed entry and writes the new
\* level here and in registration.
LEMMA ChangeLevelEffect ==
  ASSUME TypeOK, NEW p \in Players, NEW new \in Level,
         NEW by \in Admins \cup Validators \cup Scouts, NEW ref \in Nat,
         ChangeLevel(p, new, by, ref)
  PROVE  \E e \in ProgressEntry :
           /\ e.old_level = CurrentLevel(p) /\ e.new_level = new
           /\ e.updated_by = by /\ e.milestone_ref = ref
           /\ historyCounter[p] < U32_MAX
           /\ \E priorPage : AppendToHistory(p, e, priorPage)
           /\ playerLevel' = [playerLevel EXCEPT ![p] = new]
           /\ regLevel[p] # NONE
           /\ regLevel' = [regLevel EXCEPT ![p] = new]
<1> DEFINE e == [player_id |-> p, old_level |-> CurrentLevel(p), new_level |-> new,
                 updated_by |-> by, updated_at |-> now, milestone_ref |-> ref]
<1>1. e \in ProgressEntry
  BY CurrentLevelType DEF ProgressEntry, TypeOK
<1>2. /\ historyCounter[p] < U32_MAX
      /\ AppendToHistory(p, e, PageOrStored(p))
  BY DEF ChangeLevel, RecordProgressEntry
<1>3. /\ playerLevel' = [playerLevel EXCEPT ![p] = new]
      /\ regLevel[p] # NONE
      /\ regLevel' = [regLevel EXCEPT ![p] = new]
  BY DEF ChangeLevel, SetPlayerLevel
<1> HIDE DEF e
<1>4. /\ e.old_level = CurrentLevel(p) /\ e.new_level = new
      /\ e.updated_by = by /\ e.milestone_ref = ref
  BY DEF e
<1> QED
  BY <1>1, <1>2, <1>3, <1>4

\* The level one tier up is a level unless the player is at the top.
LEMMA NextTier ==
  ASSUME NEW l \in Level, l # EliteTier
  PROVE  l + 1 \in Level
BY DEF Level, Unverified, VerifiedIdentity, PerformanceMilestones, EliteTier

----
(***************************************************************************)
(* Type correctness.                                                        *)
(***************************************************************************)
LEMMA ChangeLevelTypeOK ==
  ASSUME TypeOK, NEW p \in Players, NEW new \in Level,
         NEW by \in Admins \cup Validators \cup Scouts, NEW ref \in Nat,
         ChangeLevel(p, new, by, ref),
         milestoneCounter' \in [Players -> Nat]
  PROVE  TypeOK'
<1>1. PICK e \in ProgressEntry :
        /\ historyCounter[p] < U32_MAX
        /\ \E priorPage : AppendToHistory(p, e, priorPage)
        /\ playerLevel' = [playerLevel EXCEPT ![p] = new]
        /\ regLevel' = [regLevel EXCEPT ![p] = new]
  BY ChangeLevelEffect
<1>2. PICK priorPage : AppendToHistory(p, e, priorPage)
  BY <1>1
<1>3. /\ historyCounter' \in [Players -> 0..U32_MAX]
      /\ historyEntry' \in [Players -> [Index -> ProgressEntry \cup {NONE}]]
      /\ DOMAIN historyPage' = Players
      /\ \A r \in Players : DOMAIN historyPage'[r] = PageNo
      /\ DOMAIN historyRoot' = Players
      /\ DOMAIN historyFrontier' = Players
  BY <1>1, <1>2, AppendEffect
<1>4. /\ playerLevel' \in [Players -> Level \cup {NONE}]
      /\ regLevel' \in [Players -> Level \cup {NONE}]
  BY <1>1 DEF TypeOK
<1>5. UNCHANGED <<admin, pendingAdmin, paused, wired, migrationActive,
                  migrationWindowSealed, schemaVersion, migrationCursor, historyVec,
                  regCounter, now, legacy, seeded, imported, erased, purges,
                  purgeCursor, strayed>>
  BY DEF ChangeLevel, configVars, migrationVars, schemaVars, ghostVars, erasureVars
<1> QED
  BY <1>3, <1>4, <1>5 DEF TypeOK

\* An entry of a history from before paging is well typed, explains the change
\* it records, and was made by an admin when it refers to no milestone.
LEMMA LegacyEntry ==
  ASSUME NEW p \in Players, NEW levels \in LegacyLevels, NEW i \in 1..Len(levels)
  PROVE  LET e == LegacyHistory(p, levels)[i]
         IN  /\ e \in ProgressEntry
             /\ e.old_level = IF i = 1 THEN Unverified ELSE levels[i - 1]
             /\ e.new_level = levels[i]
             /\ e.new_level # e.old_level
             /\ e.milestone_ref # 0 => e.new_level = e.old_level + 1
             /\ e.milestone_ref = 0 => e.updated_by \in Admins
<1> DEFINE old == IF i = 1 THEN Unverified ELSE levels[i - 1]
           by  == IF levels[i] = old + 1 THEN CHOOSE v \in Validators : TRUE
                  ELSE CHOOSE a \in Admins : TRUE
           ref == IF levels[i] = old + 1 THEN 1 ELSE 0
           e   == [player_id |-> p, old_level |-> old, new_level |-> levels[i],
                   updated_by |-> by, updated_at |-> 0, milestone_ref |-> ref]
<1>1. levels \in Seq(Level) /\ levels[i] # old
  BY LegacyAssumption
<1>2. i \in DOMAIN levels /\ levels[i] \in Level /\ old \in Level
  BY <1>1, LevelFacts
<1>3. LegacyHistory(p, levels)[i] = e
  BY <1>2 DEF LegacyHistory
<1>4. /\ levels[i] = old + 1 => by \in Validators
      /\ levels[i] # old + 1 => by \in Admins
  BY AddressAssumption
<1>5. ref \in Nat /\ (ref = 0 <=> levels[i] # old + 1)
  OBVIOUS
<1> HIDE DEF old, by, ref
<1>6. e \in ProgressEntry
  BY <1>2, <1>4, <1>5 DEF ProgressEntry
<1>7. /\ e.old_level = old
      /\ e.new_level = levels[i]
      /\ e.new_level # e.old_level
      /\ e.milestone_ref # 0 => e.new_level = e.old_level + 1
      /\ e.milestone_ref = 0 => e.updated_by \in Admins
  BY <1>1, <1>4, <1>5
<1> QED
  BY <1>3, <1>6, <1>7 DEF old

LEMMA InitTypeOK == Init => TypeOK
<1> SUFFICES ASSUME Init PROVE TypeOK
  OBVIOUS
<1>1. /\ paused \in BOOLEAN /\ migrationActive \in BOOLEAN
      /\ migrationWindowSealed \in BOOLEAN
  BY Zenon DEF Init
<1>2. /\ admin \in Admins /\ pendingAdmin \in Admins \cup {NONE}
      /\ migrationCursor \in Nat /\ now \in Nat /\ purges \in Nat
      /\ DOMAIN historyPage = Players
      /\ \A p \in Players : DOMAIN historyPage[p] = PageNo
      /\ DOMAIN historyFrontier = Players
      /\ seeded \subseteq Players /\ imported \subseteq Players
      /\ erased \subseteq Players /\ strayed \subseteq Players
      /\ purgeCursor \in [Players -> 0..U32_MAX]
  BY SizesAssumption DEF Init
<1>3. CASE InitFresh
  <2>1. /\ playerLevel \in [Players -> Level \cup {NONE}]
        /\ historyCounter \in [Players -> 0..U32_MAX]
        /\ historyEntry \in [Players -> [Index -> ProgressEntry \cup {NONE}]]
        /\ DOMAIN historyVec = Players /\ DOMAIN historyRoot = Players
        /\ regLevel \in [Players -> Level \cup {NONE}]
        /\ regCounter \in 0..MaxPlayerId
        /\ milestoneCounter \in [Players -> Nat]
        /\ schemaVersion \in 0..CODE_SCHEMA_VERSION
        /\ wired \subseteq Peer /\ legacy \subseteq Players
    BY <1>3, SizesAssumption DEF InitFresh, CODE_SCHEMA_VERSION
  <2> QED
    BY <1>1, <1>2, <2>1 DEF TypeOK
<1>4. CASE InitUpgraded
  <2>1. PICK levels \in [Players -> LegacyLevels] :
          LET history == [p \in Players |-> LegacyHistory(p, levels[p])]
              hasHistory == {p \in Players : levels[p] # <<>>}
          IN  /\ schemaVersion = 0 /\ wired = Peer
              /\ playerLevel = [p \in Players |->
                   IF p \in hasHistory THEN levels[p][Len(levels[p])] ELSE NONE]
              /\ historyCounter = [p \in Players |-> Len(levels[p])]
              /\ historyEntry = [p \in Players |-> [i \in Index |->
                   IF i <= Len(levels[p]) THEN history[p][i] ELSE NONE]]
              /\ DOMAIN historyVec = Players /\ DOMAIN historyRoot = Players
              /\ regLevel = [p \in Players |-> OrElse(playerLevel[p], Unverified)]
              /\ regCounter = MaxPlayerId
              /\ milestoneCounter = [p \in Players |-> IF p \in hasHistory THEN 1 ELSE 0]
              /\ legacy = hasHistory
    BY <1>4 DEF InitUpgraded
  <2>2. ASSUME NEW p \in Players
        PROVE  /\ levels[p] \in Seq(Level) /\ Len(levels[p]) \in 0..U32_MAX
               /\ levels[p] # <<>> => levels[p][Len(levels[p])] \in Level
    BY LegacyAssumption
  <2>3. playerLevel \in [Players -> Level \cup {NONE}]
    BY <2>1, <2>2
  <2>4. historyCounter \in [Players -> 0..U32_MAX]
    BY <2>1, <2>2
  <2>5. historyEntry \in [Players -> [Index -> ProgressEntry \cup {NONE}]]
    <3>1. ASSUME NEW p \in Players, NEW i \in Index
          PROVE  historyEntry[p][i] \in ProgressEntry \cup {NONE}
      BY <2>1, <2>2, LegacyEntry DEF Index
    <3> QED
      BY <2>1, <3>1
  <2>6. regLevel \in [Players -> Level \cup {NONE}]
    BY <2>1, <2>3, LevelFacts DEF OrElse
  <2>7. milestoneCounter \in [Players -> Nat]
    BY <2>1
  <2>8. /\ regCounter \in 0..MaxPlayerId /\ legacy \subseteq Players
        /\ schemaVersion \in 0..CODE_SCHEMA_VERSION /\ wired \subseteq Peer
        /\ DOMAIN historyVec = Players /\ DOMAIN historyRoot = Players
    BY <2>1, SizesAssumption DEF CODE_SCHEMA_VERSION
  <2> QED
    BY <1>1, <1>2, <2>3, <2>4, <2>5, <2>6, <2>7, <2>8 DEF TypeOK
<1> QED
  BY <1>3, <1>4 DEF Init

\* What a purge call leaves of the keys, with nextCursor the cursor it returns.
LEMMA PurgeEffect ==
  ASSUME TypeOK, NEW p \in Players, NEW cursor \in Nat, PurgePlayerData(p, cursor),
         NEW nextCursor, nextCursor = Least(cursor + PURGE_PAGE_SIZE, historyCounter[p])
  PROVE  /\ nextCursor \in 0..historyCounter[p]
         /\ historyCounter' = IF nextCursor < historyCounter[p] THEN historyCounter
                              ELSE [historyCounter EXCEPT ![p] = 0]
         /\ purgeCursor' = [purgeCursor EXCEPT ![p] =
              IF nextCursor < historyCounter[p] THEN nextCursor ELSE 0]
         /\ historyEntry' = [historyEntry EXCEPT ![p] =
              [i \in Index |-> IF i \in (cursor + 1)..nextCursor THEN NONE
                               ELSE historyEntry[p][i]]]
         /\ historyPage' = [historyPage EXCEPT ![p] =
              [q \in PageNo |-> IF q \in PagesHit((cursor + 1)..nextCursor) THEN NONE
                                ELSE historyPage[p][q]]]
         /\ playerLevel' \in {playerLevel, [playerLevel EXCEPT ![p] = NONE]}
         /\ erased' = erased \cup {p}
         /\ strayed' = IF cursor \in {0, purgeCursor[p]} THEN strayed ELSE strayed \cup {p}
BY SizesAssumption DEF PurgePlayerData, Least, TypeOK

LEMMA PurgeTypeOK ==
  ASSUME TypeOK, NEW p \in Players, NEW cursor \in Nat, PurgePlayerData(p, cursor)
  PROVE  TypeOK'
<1> DEFINE nextCursor == Least(cursor + PURGE_PAGE_SIZE, historyCounter[p])
<1> HIDE DEF nextCursor
<1>1. /\ nextCursor \in 0..historyCounter[p]
      /\ historyCounter' = IF nextCursor < historyCounter[p] THEN historyCounter
                           ELSE [historyCounter EXCEPT ![p] = 0]
      /\ purgeCursor' = [purgeCursor EXCEPT ![p] =
           IF nextCursor < historyCounter[p] THEN nextCursor ELSE 0]
      /\ historyEntry' = [historyEntry EXCEPT ![p] =
           [i \in Index |-> IF i \in (cursor + 1)..nextCursor THEN NONE
                            ELSE historyEntry[p][i]]]
      /\ historyPage' = [historyPage EXCEPT ![p] =
           [q \in PageNo |-> IF q \in PagesHit((cursor + 1)..nextCursor) THEN NONE
                             ELSE historyPage[p][q]]]
      /\ playerLevel' \in {playerLevel, [playerLevel EXCEPT ![p] = NONE]}
      /\ erased' = erased \cup {p}
      /\ strayed' = IF cursor \in {0, purgeCursor[p]} THEN strayed ELSE strayed \cup {p}
  BY PurgeEffect DEF nextCursor
<1>2. /\ historyCounter' \in [Players -> 0..U32_MAX]
      /\ purgeCursor' \in [Players -> 0..U32_MAX]
  BY SMTT(60), <1>1, SizesAssumption DEF TypeOK
<1>3. historyEntry' \in [Players -> [Index -> ProgressEntry \cup {NONE}]]
  BY <1>1 DEF TypeOK
<1>4. /\ DOMAIN historyPage' = Players
      /\ \A r \in Players : DOMAIN historyPage'[r] = PageNo
  BY <1>1 DEF TypeOK
<1>5. playerLevel' \in [Players -> Level \cup {NONE}]
  BY <1>1 DEF TypeOK
<1>6. erased' \subseteq Players /\ strayed' \subseteq Players
  BY <1>1 DEF TypeOK
<1>7. DOMAIN historyRoot' = Players /\ DOMAIN historyVec' = Players
  BY DEF PurgePlayerData, TypeOK
<1>8. purges' \in Nat
  BY DEF PurgePlayerData, TypeOK
<1>9. UNCHANGED <<admin, pendingAdmin, paused, wired, migrationActive,
                  migrationWindowSealed, schemaVersion, migrationCursor,
                  historyFrontier, milestoneCounter, regLevel, regCounter, now,
                  legacy, seeded, imported>>
  BY DEF PurgePlayerData, configVars, migrationVars, schemaVars, peerVars
<1> QED
  BY <1>2, <1>3, <1>4, <1>5, <1>6, <1>7, <1>8, <1>9 DEF TypeOK

\* admin_seed_history appends the replayed entry and touches no level.
LEMMA SeedEffect ==
  ASSUME TypeOK, NEW p \in Players, NEW e \in SeedEntries, AdminSeedHistory(p, e)
  PROVE  /\ e \in ProgressEntry
         /\ migrationActive
         /\ historyCounter[p] < U32_MAX
         /\ \E priorPage : AppendToHistory(p, e, priorPage)
         /\ seeded' = seeded \cup {p}
         /\ UNCHANGED <<admin, pendingAdmin, paused, wired, migrationActive,
                        migrationWindowSealed, schemaVersion, migrationCursor,
                        playerLevel, historyVec, milestoneCounter, regLevel, regCounter,
                        now, legacy, imported, erased, purges, purgeCursor, strayed>>
<1>1. e \in ProgressEntry
  BY InputAssumption
<1>2. /\ migrationActive
      /\ historyCounter[p] < U32_MAX
      /\ \E priorPage : AppendToHistory(p, e, priorPage)
      /\ seeded' = seeded \cup {p}
  BY DEF AdminSeedHistory
<1>3. UNCHANGED <<admin, pendingAdmin, paused, wired, migrationActive,
                  migrationWindowSealed, schemaVersion, migrationCursor,
                  playerLevel, historyVec, milestoneCounter, regLevel, regCounter,
                  now, legacy, imported, erased, purges, purgeCursor, strayed>>
  BY DEF AdminSeedHistory, configVars, migrationVars, schemaVars, peerVars, erasureVars
<1> QED
  BY <1>1, <1>2, <1>3

\* The three actions that change a level are level changes to one of the four
\* levels, by an admin with reference 0 or to the next tier with another one.
LEMMA LevelSteps ==
  ASSUME TypeOK, NEW p \in Players,
         \/ \E target \in ResetTargets : ResetPlayerLevel(p, target)
         \/ \E v \in Validators : AdvanceLevel(v, p)
         \/ \E s \in Scouts, ref \in 1..MaxMilestones : AdvanceLevelForScout(s, p, ref)
  PROVE  /\ milestoneCounter' \in [Players -> Nat]
         /\ \E new \in Level, by \in Admins \cup Validators \cup Scouts, ref \in Nat :
              /\ ChangeLevel(p, new, by, ref)
              /\ new # CurrentLevel(p)
              /\ ref # 0 => new = CurrentLevel(p) + 1
              /\ ref = 0 => by \in Admins
<1>1. CASE \E target \in ResetTargets : ResetPlayerLevel(p, target)
  <2>1. PICK target \in ResetTargets : ResetPlayerLevel(p, target)
    BY <1>1
  <2>2. /\ target \in Level /\ admin \in Admins /\ 0 \in Nat
        /\ ChangeLevel(p, target, admin, 0)
        /\ target # CurrentLevel(p)
        /\ milestoneCounter' = milestoneCounter
    BY <2>1, InputAssumption DEF ResetPlayerLevel, TypeOK
  <2> QED
    BY <2>2 DEF TypeOK
<1>2. ASSUME NEW v \in Validators \cup Scouts, NEW ref \in Nat, ref # 0,
             AdvanceLevelAuthorized(v, p, ref)
      PROVE  \E new \in Level, by \in Admins \cup Validators \cup Scouts, r \in Nat :
              /\ ChangeLevel(p, new, by, r)
              /\ new # CurrentLevel(p)
              /\ r # 0 => new = CurrentLevel(p) + 1
              /\ r = 0 => by \in Admins
  <2>1. CurrentLevel(p) \in Level /\ CurrentLevel(p) \in Nat
    BY CurrentLevelType, LevelFacts
  <2>2. CurrentLevel(p) + 1 \in Level
    BY <1>2, <2>1, NextTier DEF AdvanceLevelAuthorized
  <2>3. ChangeLevel(p, CurrentLevel(p) + 1, v, ref)
    BY <1>2 DEF AdvanceLevelAuthorized
  <2>4. CurrentLevel(p) + 1 # CurrentLevel(p)
    BY <2>1
  <2> QED
    BY <1>2, <2>2, <2>3, <2>4
<1>3. CASE \E v \in Validators : AdvanceLevel(v, p)
  <2>1. PICK v \in Validators : AdvanceLevel(v, p)
    BY <1>3
  <2>2. /\ milestoneCounter' = [milestoneCounter EXCEPT ![p] = @ + 1]
        /\ AdvanceLevelAuthorized(v, p, milestoneCounter[p] + 1)
    BY <2>1 DEF AdvanceLevel
  <2>3. milestoneCounter[p] + 1 \in Nat /\ milestoneCounter[p] + 1 # 0
    BY DEF TypeOK
  <2>4. milestoneCounter' \in [Players -> Nat]
    BY <2>2, <2>3 DEF TypeOK
  <2> QED
    BY <1>2, <2>2, <2>3, <2>4
<1>4. CASE \E s \in Scouts, ref \in 1..MaxMilestones : AdvanceLevelForScout(s, p, ref)
  <2>1. PICK s \in Scouts, ref \in 1..MaxMilestones : AdvanceLevelForScout(s, p, ref)
    BY <1>4
  <2>2. AdvanceLevelAuthorized(s, p, ref) /\ milestoneCounter' = milestoneCounter
    BY <2>1 DEF AdvanceLevelForScout
  <2>3. ref \in Nat /\ ref # 0
    BY SizesAssumption
  <2> QED
    BY <1>2, <2>2, <2>3 DEF TypeOK
<1> QED
  BY <1>1, <1>3, <1>4

\* The administrative actions, which leave every key of a player alone.
AdminStep ==
  \/ PauseContract \/ UnpauseContract
  \/ \E peer \in Peer : SetPeerContract(peer)
  \/ \E a \in Admins : ProposeAdmin(a)
  \/ AcceptAdmin
  \/ OpenMigrationWindow \/ CloseMigrationWindow

\* The other contracts' own actions and the clock, which leave progress alone.
PeerStep ==
  \/ \E p \in Players : CommitMilestoneOnly(p)
  \/ \E p \in Players : PurgeMilestones(p)
  \/ RegisterPlayer
  \/ \E p \in Players : DeregisterPlayer(p)
  \/ Tick

LevelStep ==
  \E p \in Players :
    \/ \E target \in ResetTargets : ResetPlayerLevel(p, target)
    \/ \E v \in Validators : AdvanceLevel(v, p)
    \/ \E s \in Scouts, ref \in 1..MaxMilestones : AdvanceLevelForScout(s, p, ref)

MigrateStep == \E target \in 0..2, maxItems \in 0..MaxPlayerId : Migrate(target, maxItems)
SeedStep == \E p \in Players, e \in SeedEntries : AdminSeedHistory(p, e)
ImportStep == \E p \in Players, level \in ImportLevels : AdminSeedPlayer(p, level)
PurgeStep == \E p \in Players, cursor \in 0..(U32_MAX - 1) : PurgePlayerData(p, cursor)

\* Every step is one of these.
LEMMA StepCases ==
  Next => \/ AdminStep \/ PeerStep \/ LevelStep \/ MigrateStep
          \/ SeedStep \/ ImportStep \/ PurgeStep
BY Zenon DEF Next, AdminStep, PeerStep, LevelStep, MigrateStep, SeedStep, ImportStep, PurgeStep

\* The keys of the players, here and in registration and verification.
playerVars == <<playerLevel, recordVars, historyVec, peerVars, now, ghostVars>>

LEMMA AdminStepFrame == AdminStep => UNCHANGED playerVars
BY DEF AdminStep, playerVars, PauseContract, UnpauseContract, SetPeerContract,
       ProposeAdmin, AcceptAdmin, OpenMigrationWindow, CloseMigrationWindow,
       UnchangedPlayers

LEMMA PeerStepFrame ==
  PeerStep => UNCHANGED <<configVars, migrationVars, schemaVars, playerLevel,
                          recordVars, historyVec, ghostVars>>
BY DEF PeerStep, CommitMilestoneOnly, PurgeMilestones, RegisterPlayer, DeregisterPlayer, Tick,
       UnchangedProgress

LEMMA AdminTypeOK == ASSUME TypeOK, AdminStep PROVE TypeOK'
<1>1. UNCHANGED <<playerLevel, historyCounter, historyEntry, historyPage, historyRoot,
                  historyFrontier, historyVec, milestoneCounter, regLevel, regCounter,
                  now, legacy, seeded, imported, erased, purges, purgeCursor, strayed>>
  BY AdminStepFrame DEF playerVars, recordVars, peerVars, ghostVars, erasureVars
<1>2. /\ paused' \in BOOLEAN /\ migrationActive' \in BOOLEAN
      /\ migrationWindowSealed' \in BOOLEAN
  BY Zenon DEF AdminStep, PauseContract, UnpauseContract, SetPeerContract,
       ProposeAdmin, AcceptAdmin, OpenMigrationWindow, CloseMigrationWindow,
       configVars, migrationVars, TypeOK
<1>3. /\ admin' \in Admins /\ pendingAdmin' \in Admins \cup {NONE}
      /\ wired' \subseteq Peer
  BY DEF AdminStep, PauseContract, UnpauseContract, SetPeerContract,
       ProposeAdmin, AcceptAdmin, OpenMigrationWindow, CloseMigrationWindow,
       configVars, TypeOK
<1>4. schemaVersion' = schemaVersion /\ migrationCursor' = migrationCursor
  BY DEF AdminStep, PauseContract, UnpauseContract, SetPeerContract,
       ProposeAdmin, AcceptAdmin, OpenMigrationWindow, CloseMigrationWindow, schemaVars
<1> QED
  BY <1>1, <1>2, <1>3, <1>4 DEF TypeOK

LEMMA PeerTypeOK == ASSUME TypeOK, PeerStep PROVE TypeOK'
<1>1. UNCHANGED <<admin, pendingAdmin, paused, wired, migrationActive,
                  migrationWindowSealed, schemaVersion, migrationCursor, playerLevel,
                  historyCounter, historyEntry, historyPage, historyRoot, historyFrontier,
                  historyVec, legacy, seeded, imported, erased, purges, purgeCursor, strayed>>
  BY PeerStepFrame DEF configVars, migrationVars, schemaVars, recordVars, ghostVars, erasureVars
<1>2. milestoneCounter' \in [Players -> Nat]
  BY DEF PeerStep, CommitMilestoneOnly, PurgeMilestones, RegisterPlayer, DeregisterPlayer, Tick, peerVars, TypeOK
<1>3. regLevel' \in [Players -> Level \cup {NONE}]
  BY LevelFacts DEF PeerStep, CommitMilestoneOnly, PurgeMilestones, RegisterPlayer, DeregisterPlayer, Tick,
     peerVars, TypeOK
<1>4. regCounter' \in 0..MaxPlayerId
  BY SizesAssumption DEF PeerStep, CommitMilestoneOnly, PurgeMilestones, RegisterPlayer, DeregisterPlayer,
     Tick, peerVars, TypeOK
<1>5. now' \in Nat
  BY DEF PeerStep, CommitMilestoneOnly, PurgeMilestones, RegisterPlayer, DeregisterPlayer, Tick, peerVars, TypeOK
<1> QED
  BY <1>1, <1>2, <1>3, <1>4, <1>5 DEF TypeOK

LEMMA NextTypeOK == ASSUME TypeOK, [Next]_vars PROVE TypeOK'
<1>1. CASE AdminStep
  BY <1>1, AdminTypeOK
<1>2. CASE PeerStep
  BY <1>2, PeerTypeOK
<1>3. CASE LevelStep
  BY <1>3, LevelSteps, ChangeLevelTypeOK DEF LevelStep
<1>4. CASE MigrateStep
  <2>1. /\ migrationCursor' \in Nat
        /\ schemaVersion' \in 0..CODE_SCHEMA_VERSION
        /\ DOMAIN historyVec' = Players
    BY <1>4, SizesAssumption DEF MigrateStep, Migrate, BackfillHistoryVec, TypeOK,
       CODE_SCHEMA_VERSION
  <2>2. UNCHANGED <<admin, pendingAdmin, paused, wired, migrationActive,
                    migrationWindowSealed, playerLevel,
                    historyCounter, historyEntry, historyPage, historyRoot, historyFrontier,
                    milestoneCounter, regLevel, regCounter, now,
                    legacy, seeded, imported, erased, purges, purgeCursor, strayed>>
    BY <1>4 DEF MigrateStep, Migrate, configVars, migrationVars, recordVars, peerVars,
       ghostVars, erasureVars
  <2> QED
    BY <2>1, <2>2 DEF TypeOK
<1>5. CASE SeedStep
  <2>1. PICK p \in Players, e \in SeedEntries : AdminSeedHistory(p, e)
    BY <1>5 DEF SeedStep
  <2>2. PICK priorPage : AppendToHistory(p, e, priorPage)
    BY <2>1, SeedEffect
  <2>3. /\ historyCounter' \in [Players -> 0..U32_MAX]
        /\ historyEntry' \in [Players -> [Index -> ProgressEntry \cup {NONE}]]
        /\ DOMAIN historyPage' = Players
        /\ \A r \in Players : DOMAIN historyPage'[r] = PageNo
        /\ DOMAIN historyRoot' = Players
        /\ DOMAIN historyFrontier' = Players
    BY <2>1, <2>2, SeedEffect, AppendEffect
  <2> QED
    BY <2>1, <2>3, SeedEffect DEF TypeOK
<1>6. CASE ImportStep
  <2>1. /\ regLevel' \in [Players -> Level \cup {NONE}]
        /\ imported' \subseteq Players
    BY <1>6, InputAssumption DEF ImportStep, AdminSeedPlayer, TypeOK
  <2>2. UNCHANGED <<admin, pendingAdmin, paused, wired, migrationActive,
                    migrationWindowSealed, schemaVersion, migrationCursor, playerLevel,
                    historyCounter, historyEntry, historyPage, historyRoot, historyFrontier,
                    historyVec, milestoneCounter, regCounter, now,
                    legacy, seeded, erased, purges, purgeCursor, strayed>>
    BY <1>6 DEF ImportStep, AdminSeedPlayer, configVars, migrationVars, schemaVars,
       recordVars, erasureVars
  <2> QED
    BY <2>1, <2>2 DEF TypeOK
<1>7. CASE PurgeStep
  BY <1>7, PurgeTypeOK DEF PurgeStep
<1>8. CASE UNCHANGED vars
  BY <1>8 DEF TypeOK, vars, configVars, migrationVars, schemaVars, recordVars, peerVars,
     ghostVars, erasureVars
<1> QED
  BY <1>1, <1>2, <1>3, <1>4, <1>5, <1>6, <1>7, <1>8, StepCases

\* In every reachable state each storage key holds a value of its type: the
\* history counter in particular never leaves u32, because record_progress_entry
\* and admin_seed_history refuse to count past it.
THEOREM TypeCorrect == Spec => []TypeOK
<1>1. Init => TypeOK
  BY InitTypeOK
<1>2. TypeOK /\ [Next]_vars => TypeOK'
  BY NextTypeOK
<1> QED
  BY <1>1, <1>2, PTL DEF Spec

----
(***************************************************************************)
(* The replay window.                                                       *)
(***************************************************************************)
\* A sealed window is closed.
WindowInv == migrationWindowSealed => ~migrationActive

\* Only the two window actions write the window's flags, and only
\* admin_seed_history, which needs it open, replays an entry.
LEMMA WindowSteps ==
  ASSUME TypeOK, [Next]_vars
  PROVE  \/ OpenMigrationWindow \/ CloseMigrationWindow
         \/ UNCHANGED migrationVars /\ (seeded' # seeded => migrationActive)
<1>1. CASE AdminStep
  BY <1>1, Zenon, AdminStepFrame DEF AdminStep, PauseContract, UnpauseContract, SetPeerContract,
     ProposeAdmin, AcceptAdmin, playerVars, ghostVars
<1>2. CASE PeerStep
  BY <1>2, PeerStepFrame, Zenon DEF ghostVars
<1>3. CASE LevelStep
  <2>1. PICK p \in Players, new \in Level, by \in Admins \cup Validators \cup Scouts,
             ref \in Nat : ChangeLevel(p, new, by, ref)
    BY <1>3, LevelSteps DEF LevelStep
  <2> QED
    BY <2>1, Zenon DEF ChangeLevel, ghostVars
<1>4. CASE MigrateStep
  BY <1>4, Zenon DEF MigrateStep, Migrate, ghostVars
<1>5. CASE SeedStep
  BY <1>5, Zenon DEF SeedStep, AdminSeedHistory
<1>6. CASE ImportStep
  BY <1>6, Zenon DEF ImportStep, AdminSeedPlayer
<1>7. CASE PurgeStep
  BY <1>7, Zenon DEF PurgeStep, PurgePlayerData
<1>8. CASE UNCHANGED vars
  BY <1>8, Zenon DEF vars, ghostVars
<1> QED
  BY <1>1, <1>2, <1>3, <1>4, <1>5, <1>6, <1>7, <1>8, StepCases

LEMMA WindowInductive ==
  /\ Init => WindowInv
  /\ TypeOK /\ WindowInv /\ [Next]_vars => WindowInv'
<1>1. Init => WindowInv
  BY Zenon DEF Init, WindowInv
<1>2. ASSUME TypeOK, WindowInv, [Next]_vars PROVE WindowInv'
  BY <1>2, WindowSteps, Zenon DEF WindowInv, OpenMigrationWindow, CloseMigrationWindow, migrationVars
<1> QED
  BY <1>1, <1>2

\* close_migration_window is irreversible for every value of the constants:
\* no sequence of calls reopens a sealed window or replays another entry.
THEOREM SealIsFinal == Spec => SealedForever
<1>1. ASSUME TypeOK, WindowInv, [Next]_vars, migrationWindowSealed
      PROVE  migrationWindowSealed' /\ ~migrationActive' /\ seeded' = seeded
  <2>1. ~migrationActive
    BY <1>1 DEF WindowInv
  <2>2. UNCHANGED migrationVars /\ seeded' = seeded
    BY <1>1, <2>1, WindowSteps, Zenon DEF OpenMigrationWindow, CloseMigrationWindow
  <2> QED
    BY <1>1, <2>1, <2>2, Zenon DEF migrationVars
<1>2. TypeOK /\ WindowInv /\ [Next]_vars =>
        [migrationWindowSealed =>
           migrationWindowSealed' /\ ~migrationActive' /\ seeded' = seeded]_vars
  BY <1>1
<1> QED
  BY <1>2, WindowInductive, TypeCorrect, PTL DEF Spec, SealedForever

----
(***************************************************************************)
(* The history and its counter.                                             *)
(***************************************************************************)
\* A step either leaves all histories alone, or appends one entry to one
\* player's history, or is a purge call.
LEMMA HistorySteps ==
  ASSUME TypeOK, [Next]_vars
  PROVE  \/ /\ UNCHANGED <<historyCounter, historyEntry, historyPage>>
            /\ UNCHANGED <<erased, purgeCursor, strayed>>
         \/ /\ \E p \in Players, e \in ProgressEntry :
                 historyCounter[p] < U32_MAX
                 /\ \E priorPage : AppendToHistory(p, e, priorPage)
            /\ UNCHANGED <<erased, purgeCursor, strayed>>
         \/ PurgeStep
<1>1. CASE AdminStep
  BY <1>1, AdminStepFrame DEF playerVars, recordVars, ghostVars, erasureVars
<1>2. CASE PeerStep
  BY <1>2, PeerStepFrame DEF recordVars, ghostVars, erasureVars
<1>3. CASE LevelStep
  <2>1. PICK p \in Players, new \in Level, by \in Admins \cup Validators \cup Scouts,
             ref \in Nat : ChangeLevel(p, new, by, ref)
    BY <1>3, LevelSteps DEF LevelStep
  <2>2. UNCHANGED <<erased, purgeCursor, strayed>>
    BY <2>1 DEF ChangeLevel, ghostVars, erasureVars
  <2> QED
    BY <2>1, <2>2, ChangeLevelEffect
<1>4. CASE MigrateStep
  BY <1>4 DEF MigrateStep, Migrate, recordVars, ghostVars, erasureVars
<1>5. CASE SeedStep
  BY <1>5, SeedEffect DEF SeedStep
<1>6. CASE ImportStep
  BY <1>6 DEF ImportStep, AdminSeedPlayer, recordVars, erasureVars
<1>7. CASE UNCHANGED vars
  BY <1>7 DEF vars, recordVars, ghostVars, erasureVars
<1> QED
  BY <1>1, <1>2, <1>3, <1>4, <1>5, <1>6, <1>7, StepCases

\* No step shortens a history or changes an entry of a player whose erasure has
\* not been started.
LEMMA StepAppends ==
  ASSUME TypeOK, [Next]_vars, NEW p \in Players \ erased'
  PROVE  /\ historyCounter'[p] >= historyCounter[p]
         /\ \A i \in 1..historyCounter[p] : historyEntry'[p][i] = historyEntry[p][i]
         /\ p \notin erased
<1>1. historyCounter[p] \in Nat
  BY SizesAssumption DEF TypeOK
<1>2. CASE /\ UNCHANGED <<historyCounter, historyEntry, historyPage>>
           /\ UNCHANGED <<erased, purgeCursor, strayed>>
  BY <1>1, <1>2
<1>3. ASSUME NEW r \in Players, NEW e \in ProgressEntry, NEW priorPage,
             historyCounter[r] < U32_MAX, AppendToHistory(r, e, priorPage),
             UNCHANGED <<erased, purgeCursor, strayed>>
      PROVE  /\ historyCounter'[p] >= historyCounter[p]
             /\ \A i \in 1..historyCounter[p] : historyEntry'[p][i] = historyEntry[p][i]
             /\ p \notin erased
  <2>1. /\ historyCounter' = [historyCounter EXCEPT ![r] = historyCounter[r] + 1]
        /\ historyEntry' = [historyEntry EXCEPT ![r] =
             [historyEntry[r] EXCEPT ![historyCounter[r] + 1] = e]]
    BY <1>3, AppendEffect
  <2> QED
    BY <1>1, <1>3, <2>1, SizesAssumption DEF TypeOK, Index
<1>4. CASE PurgeStep
  <2>1. PICK r \in Players, cursor \in 0..(U32_MAX - 1) : PurgePlayerData(r, cursor)
    BY <1>4 DEF PurgeStep
  <2>2. r # p /\ p \notin erased
    BY <2>1 DEF PurgePlayerData
  <2>3. historyCounter'[p] = historyCounter[p] /\ historyEntry'[p] = historyEntry[p]
    BY <2>1, <2>2 DEF PurgePlayerData, TypeOK
  <2> QED
    BY <1>1, <2>2, <2>3
<1> QED
  BY <1>2, <1>3, <1>4, HistorySteps

\* History is append-only for every value of the constants: an append takes the
\* index after the counter, and a purge call erases entries of nobody but the
\* player it is for.
THEOREM AppendOnly == Spec => HistoryAppendOnly
<1>1. ASSUME TypeOK, [Next]_vars, NEW p \in Players \ erased'
      PROVE  /\ historyCounter'[p] >= historyCounter[p]
             /\ \A i \in 1..historyCounter[p] : historyEntry'[p][i] = historyEntry[p][i]
  BY <1>1, StepAppends
<1>2. TypeOK /\ [Next]_vars =>
        [\A p \in Players \ erased' :
           /\ historyCounter'[p] >= historyCounter[p]
           /\ \A i \in 1..historyCounter[p] : historyEntry'[p][i] = historyEntry[p][i]]_vars
  BY <1>1
<1> QED
  BY <1>2, TypeCorrect, PTL DEF Spec, HistoryAppendOnly

----
(***************************************************************************)
(* What an erasure leaves behind.  PurgeLeavesNoHistory is not inductive: it *)
(* speaks of the end of an erasure only.  What holds all along is that the  *)
(* entries and pages still there lie between the erasure's cursor and the   *)
(* counter, where a page may straddle the cursor.                           *)
(***************************************************************************)
Remaining(p) == (purgeCursor[p] + 1)..historyCounter[p]

EraseInv ==
  \A p \in Players :
    /\ purgeCursor[p] <= historyCounter[p]
    /\ p \notin strayed =>
         /\ \A i \in Index : historyEntry[p][i] # NONE => i \in Remaining(p)
         /\ \A q \in PageNo : historyPage[p][q] # NONE =>
              \E i \in Remaining(p) : HistoryPageIndex(i) = q

LEMMA EraseInit == Init => EraseInv
<1> SUFFICES ASSUME Init, NEW p \in Players
             PROVE  /\ purgeCursor[p] = 0 /\ historyCounter[p] >= 0
                    /\ \A i \in Index : historyEntry[p][i] # NONE => i <= historyCounter[p]
                    /\ \A q \in PageNo : historyPage[p][q] = NONE
  BY InitTypeOK, SizesAssumption DEF EraseInv, Remaining, Index, TypeOK
<1>1. purgeCursor[p] = 0 /\ \A q \in PageNo : historyPage[p][q] = NONE
  BY DEF Init
<1>2. historyCounter[p] >= 0
  BY InitTypeOK, SizesAssumption DEF TypeOK
<1>3. ASSUME NEW i \in Index, historyEntry[p][i] # NONE PROVE i <= historyCounter[p]
  <2>1. CASE InitFresh
    BY <1>3, <2>1 DEF InitFresh
  <2>2. CASE InitUpgraded
    <3>1. PICK levels \in [Players -> LegacyLevels] :
            /\ historyCounter = [r \in Players |-> Len(levels[r])]
            /\ historyEntry = [r \in Players |-> [j \in Index |->
                 IF j <= Len(levels[r])
                 THEN [s \in Players |-> LegacyHistory(s, levels[s])][r][j] ELSE NONE]]
      BY <2>2 DEF InitUpgraded
    <3> QED
      BY <1>3, <3>1
  <2> QED
    BY <2>1, <2>2 DEF Init
<1> QED
  BY <1>1, <1>2, <1>3

\* Appending keeps what remains between cursor and counter: the new entry, and
\* its page, extend the range at its end.
LEMMA EraseAppend ==
  ASSUME TypeOK, EraseInv, UNCHANGED <<purgeCursor, strayed>>,
         NEW p \in Players, NEW e \in ProgressEntry, NEW priorPage,
         historyCounter[p] < U32_MAX, AppendToHistory(p, e, priorPage)
  PROVE  EraseInv'
<1> DEFINE index == historyCounter[p] + 1
<1>1. /\ historyCounter' = [historyCounter EXCEPT ![p] = index]
      /\ index \in Index
      /\ historyEntry' = [historyEntry EXCEPT ![p] = [historyEntry[p] EXCEPT ![index] = e]]
      /\ \A r \in Players, q \in PageNo :
           historyPage'[r][q] # historyPage[r][q] => r = p /\ q = HistoryPageIndex(index)
  BY AppendEffect
<1> SUFFICES ASSUME NEW r \in Players
             PROVE  /\ purgeCursor[r] <= historyCounter'[r]
                    /\ r \notin strayed =>
                         /\ \A i \in Index : historyEntry'[r][i] # NONE => i \in Remaining(r)'
                         /\ \A q \in PageNo : historyPage'[r][q] # NONE =>
                              \E i \in Remaining(r)' : HistoryPageIndex(i) = q
  BY DEF EraseInv
<1>2. purgeCursor[r] \in Nat /\ historyCounter[r] \in Nat /\ historyCounter'[r] \in Nat
  BY <1>1, SizesAssumption DEF TypeOK, Index
<1>3. historyCounter'[r] = IF r = p THEN index ELSE historyCounter[r]
  BY <1>1 DEF TypeOK
<1>4. purgeCursor[r] <= historyCounter[r]
  BY DEF EraseInv
<1>5. Remaining(r) \subseteq Remaining(r)' /\ (r = p => index \in Remaining(r)')
  BY <1>2, <1>3, <1>4 DEF Remaining
<1>6. ASSUME r \notin strayed, NEW i \in Index, historyEntry'[r][i] # NONE
      PROVE  i \in Remaining(r)'
  <2>1. (r = p /\ i = index) \/ historyEntry'[r][i] = historyEntry[r][i]
    BY <1>1 DEF TypeOK
  <2> QED
    BY <1>5, <1>6, <2>1 DEF EraseInv
<1>7. ASSUME r \notin strayed, NEW q \in PageNo, historyPage'[r][q] # NONE
      PROVE  \E i \in Remaining(r)' : HistoryPageIndex(i) = q
  <2>1. (r = p /\ q = HistoryPageIndex(index)) \/ historyPage'[r][q] = historyPage[r][q]
    BY <1>1
  <2> QED
    BY <1>5, <1>7, <2>1 DEF EraseInv
<1> QED
  BY <1>2, <1>3, <1>4, <1>6, <1>7

\* A purge call that starts at 0 or at the cursor the last one returned erases
\* the beginning of what remains; a page it leaves has an entry beyond it.
LEMMA ErasePurge ==
  ASSUME TypeOK, EraseInv, NEW p \in Players, NEW cursor \in Nat, PurgePlayerData(p, cursor)
  PROVE  EraseInv'
<1> DEFINE next == Least(cursor + PURGE_PAGE_SIZE, historyCounter[p])
<1> HIDE DEF next
<1>1. /\ next \in 0..historyCounter[p]
      /\ historyCounter' = IF next < historyCounter[p] THEN historyCounter
                           ELSE [historyCounter EXCEPT ![p] = 0]
      /\ purgeCursor' = [purgeCursor EXCEPT ![p] =
           IF next < historyCounter[p] THEN next ELSE 0]
      /\ historyEntry' = [historyEntry EXCEPT ![p] =
           [i \in Index |-> IF i \in (cursor + 1)..next THEN NONE
                            ELSE historyEntry[p][i]]]
      /\ historyPage' = [historyPage EXCEPT ![p] =
           [q \in PageNo |-> IF q \in PagesHit((cursor + 1)..next) THEN NONE
                             ELSE historyPage[p][q]]]
      /\ strayed' = IF cursor \in {0, purgeCursor[p]} THEN strayed ELSE strayed \cup {p}
  BY PurgeEffect DEF next
<1>2. \A r \in Players \ {p} :
        /\ historyCounter'[r] = historyCounter[r] /\ purgeCursor'[r] = purgeCursor[r]
        /\ historyEntry'[r] = historyEntry[r] /\ historyPage'[r] = historyPage[r]
        /\ r \in strayed' <=> r \in strayed
  BY <1>1 DEF TypeOK
<1>3. /\ historyCounter[p] \in Nat /\ purgeCursor[p] \in Nat /\ next \in Nat
      /\ purgeCursor[p] <= historyCounter[p]
      /\ historyCounter'[p] = IF next < historyCounter[p] THEN historyCounter[p] ELSE 0
      /\ purgeCursor'[p] = IF next < historyCounter[p] THEN next ELSE 0
  BY <1>1, SizesAssumption DEF TypeOK, EraseInv
<1>4. ASSUME NEW i \in Remaining(p), i \notin (cursor + 1)..next,
             cursor = 0 \/ cursor = purgeCursor[p]
      PROVE  i \in Remaining(p)'
  BY <1>3, <1>4 DEF Remaining
<1>5. ASSUME p \notin strayed', NEW i \in Index, historyEntry'[p][i] # NONE
      PROVE  i \in Remaining(p)'
  <2>1. p \notin strayed /\ (cursor = 0 \/ cursor = purgeCursor[p])
    BY <1>1, <1>5
  <2>2. i \notin (cursor + 1)..next /\ historyEntry[p][i] # NONE
    BY <1>1, <1>5 DEF TypeOK
  <2> QED
    BY <1>4, <2>1, <2>2 DEF EraseInv
<1>6. ASSUME p \notin strayed', NEW q \in PageNo, historyPage'[p][q] # NONE
      PROVE  \E i \in Remaining(p)' : HistoryPageIndex(i) = q
  <2>1. p \notin strayed /\ (cursor = 0 \/ cursor = purgeCursor[p])
    BY <1>1, <1>6
  <2>2. q \notin PagesHit((cursor + 1)..next) /\ historyPage[p][q] # NONE
    BY <1>1, <1>6 DEF TypeOK
  <2>3. PICK i \in Remaining(p) : HistoryPageIndex(i) = q
    BY <2>1, <2>2 DEF EraseInv
  <2>4. i \notin (cursor + 1)..next
    BY <2>2, <2>3 DEF PagesHit
  <2> QED
    BY <1>4, <2>1, <2>3, <2>4
<1>7. purgeCursor'[p] <= historyCounter'[p]
  BY <1>3
<1> QED
  BY <1>2, <1>5, <1>6, <1>7 DEF EraseInv, Remaining

LEMMA EraseNext == ASSUME TypeOK, EraseInv, [Next]_vars PROVE EraseInv'
<1>1. CASE UNCHANGED <<historyCounter, historyEntry, historyPage, erased, purgeCursor, strayed>>
  BY <1>1 DEF EraseInv, Remaining
<1>2. CASE /\ \E p \in Players, e \in ProgressEntry :
                historyCounter[p] < U32_MAX
                /\ \E priorPage : AppendToHistory(p, e, priorPage)
           /\ UNCHANGED <<erased, purgeCursor, strayed>>
  BY <1>2, EraseAppend
<1>3. CASE PurgeStep
  BY <1>3, ErasePurge DEF PurgeStep
<1> QED
  BY <1>1, <1>2, <1>3, HistorySteps

\* However appends, replays and other erasures interleave with it, an erasure
\* that follows the returned cursors leaves no HistoryEntry and no HistoryPage
\* of the player, for any page sizes of history and purge.
THEOREM PurgeComplete == Spec => []PurgeLeavesNoHistory
<1>1. ASSUME TypeOK, EraseInv PROVE PurgeLeavesNoHistory
  <2> SUFFICES ASSUME NEW p \in erased \ strayed, historyCounter[p] = 0
               PROVE  /\ \A i \in Index : historyEntry[p][i] = NONE
                      /\ \A q \in PageNo : historyPage[p][q] = NONE
    BY DEF PurgeLeavesNoHistory
  <2>1. p \in Players /\ purgeCursor[p] \in Nat
    BY <1>1, SizesAssumption DEF TypeOK
  <2>2. Remaining(p) = {}
    BY <2>1 DEF Remaining
  <2> QED
    BY <1>1, <2>1, <2>2 DEF EraseInv
<1>2. TypeOK /\ EraseInv /\ [Next]_vars => EraseInv'
  BY EraseNext
<1> QED
  BY <1>1, <1>2, EraseInit, TypeCorrect, PTL DEF Spec

----
(***************************************************************************)
(* History and level.  HistoryExplainsLevel is inductive together with the  *)
(* types.                                                                    *)
(***************************************************************************)
\* The three parts of HistoryExplainsLevel for one player.
Contiguous(p) == \A i \in Index : historyEntry[p][i] # NONE <=> i <= historyCounter[p]

Continues(p, i) ==
  LET e == historyEntry[p][i]
  IN  /\ e.old_level = LevelAfter(p, i - 1)
      /\ e.new_level # e.old_level
      /\ e.milestone_ref # 0 => e.new_level = e.old_level + 1
      /\ e.milestone_ref = 0 => e.updated_by \in Admins

Explained(p) ==
  /\ Contiguous(p)
  /\ \A i \in 1..historyCounter[p] : Continues(p, i)
  /\ CurrentLevel(p) = LevelAfter(p, historyCounter[p])

LEMMA ExplainedIff ==
  HistoryExplainsLevel <=> \A p \in Players \ (seeded \cup erased) : Explained(p)
BY DEF HistoryExplainsLevel, Explained, Contiguous, Continues

LEMMA ExplainedInit == Init => HistoryExplainsLevel
<1> SUFFICES ASSUME Init, NEW p \in Players PROVE Explained(p)
  BY ExplainedIff
<1>1. CASE InitFresh
  <2>1. historyCounter[p] = 0 /\ playerLevel[p] = NONE /\ \A i \in Index : historyEntry[p][i] = NONE
    BY <1>1 DEF InitFresh
  <2> QED
    BY <2>1 DEF Explained, Contiguous, CurrentLevel, LevelAfter, OrElse, Index
<1>2. CASE InitUpgraded
  <2>1. PICK levels \in [Players -> LegacyLevels] :
          /\ playerLevel = [r \in Players |->
               IF r \in {t \in Players : levels[t] # <<>>}
               THEN levels[r][Len(levels[r])] ELSE NONE]
          /\ historyCounter = [r \in Players |-> Len(levels[r])]
          /\ historyEntry = [r \in Players |-> [j \in Index |->
               IF j <= Len(levels[r])
               THEN [t \in Players |-> LegacyHistory(t, levels[t])][r][j] ELSE NONE]]
    BY <1>2 DEF InitUpgraded
  <2> DEFINE n == Len(levels[p])
  <2>2. /\ levels[p] \in Seq(Level) /\ n \in Nat /\ n <= U32_MAX
        /\ levels[p] \in LegacyLevels
    BY LegacyAssumption
  <2>3. historyCounter[p] = n
    BY <2>1
  <2>4. \A i \in Index :
          historyEntry[p][i] = IF i <= n THEN LegacyHistory(p, levels[p])[i] ELSE NONE
    BY <2>1
  <2>5. ASSUME NEW i \in 1..n
        PROVE  /\ i \in Index
               /\ historyEntry[p][i] \in ProgressEntry
               /\ historyEntry[p][i].old_level = IF i = 1 THEN Unverified ELSE levels[p][i - 1]
               /\ historyEntry[p][i].new_level = levels[p][i]
               /\ historyEntry[p][i].new_level # historyEntry[p][i].old_level
               /\ historyEntry[p][i].milestone_ref # 0 =>
                    historyEntry[p][i].new_level = historyEntry[p][i].old_level + 1
               /\ historyEntry[p][i].milestone_ref = 0 => historyEntry[p][i].updated_by \in Admins
    <3>1. i \in Index
      BY <2>2, SizesAssumption DEF Index
    <3>2. historyEntry[p][i] = LegacyHistory(p, levels[p])[i]
      BY <2>4, <3>1
    <3> QED
      BY <2>2, <3>1, <3>2, LegacyEntry
  <2>6. Contiguous(p)
    BY <2>2, <2>3, <2>4, <2>5, NoneAssumption DEF Contiguous, Index
  <2>7. ASSUME NEW i \in 1..n PROVE Continues(p, i)
    <3>1. LevelAfter(p, i - 1) = IF i = 1 THEN Unverified ELSE levels[p][i - 1]
      BY <2>2, <2>5 DEF LevelAfter
    <3> QED
      BY <2>5, <3>1 DEF Continues
  <2>8. CurrentLevel(p) = LevelAfter(p, n)
    <3>1. CASE n = 0
      BY <2>1, <2>2, <3>1 DEF CurrentLevel, LevelAfter, OrElse
    <3>2. CASE n # 0
      <4>1. levels[p] # <<>> /\ n \in 1..n /\ levels[p][n] \in Level
        BY <2>2, <3>2
      <4>2. playerLevel[p] = levels[p][n]
        BY <2>1, <4>1
      <4> QED
        BY <2>5, <3>2, <4>1, <4>2, LevelFacts DEF CurrentLevel, LevelAfter, OrElse
    <3> QED
      BY <3>1, <3>2
  <2> QED
    BY <2>3, <2>6, <2>7, <2>8 DEF Explained
<1> QED
  BY <1>1, <1>2 DEF Init

\* A level change explains itself: the entry it appends continues from the
\* level the player has and leads to the one it writes.
LEMMA ExplainedChange ==
  ASSUME TypeOK, NEW r \in Players, Explained(r),
         NEW p \in Players, NEW new \in Level,
         NEW by \in Admins \cup Validators \cup Scouts, NEW ref \in Nat,
         ChangeLevel(p, new, by, ref),
         new # CurrentLevel(p),
         ref # 0 => new = CurrentLevel(p) + 1,
         ref = 0 => by \in Admins
  PROVE  Explained(r)'
<1>1. PICK e \in ProgressEntry :
        /\ e.old_level = CurrentLevel(p) /\ e.new_level = new
        /\ e.updated_by = by /\ e.milestone_ref = ref
        /\ historyCounter[p] < U32_MAX
        /\ \E priorPage : AppendToHistory(p, e, priorPage)
        /\ playerLevel' = [playerLevel EXCEPT ![p] = new]
  BY ChangeLevelEffect
<1>0. PICK n \in 0..U32_MAX : historyCounter[p] = n
  BY DEF TypeOK
<1> DEFINE index == n + 1
<1>2. /\ historyCounter' = [historyCounter EXCEPT ![p] = index]
      /\ index \in Index
      /\ historyEntry' = [historyEntry EXCEPT ![p] = [historyEntry[p] EXCEPT ![index] = e]]
  BY <1>0, <1>1, AppendEffect
<1>3. CASE r # p
  <2>1. /\ historyCounter'[r] = historyCounter[r] /\ historyEntry'[r] = historyEntry[r]
        /\ playerLevel'[r] = playerLevel[r]
    BY <1>1, <1>2, <1>3 DEF TypeOK
  <2> QED
    BY <2>1 DEF Explained, Contiguous, Continues, LevelAfter, CurrentLevel
<1>4. CASE r = p
  <2>1. n \in Nat /\ historyCounter[p] = n /\ historyCounter'[p] = index
    BY <1>0, <1>2, SizesAssumption DEF TypeOK
  <2>2. /\ historyEntry'[p][index] = e
        /\ \A i \in Index : i # index => historyEntry'[p][i] = historyEntry[p][i]
    BY <1>2 DEF TypeOK
  <2>3. e # NONE
    BY NoneAssumption
  <2>4. Contiguous(p)'
    BY <1>4, <2>1, <2>2, <2>3 DEF Explained, Contiguous, Index
  <2>5. ASSUME NEW i \in 0..n PROVE LevelAfter(p, i)' = LevelAfter(p, i)
    <3>1. i = 0 \/ (i \in Index /\ i # index)
      BY <1>2, <2>1, SizesAssumption DEF Index
    <3> QED
      BY <2>2, <3>1 DEF LevelAfter
  <2>6. ASSUME NEW i \in 1..n PROVE Continues(p, i)'
    <3>1. i \in Index /\ i # index /\ i - 1 \in 0..n
      BY <1>2, <2>1, SizesAssumption DEF Index
    <3>2. historyEntry'[p][i] = historyEntry[p][i] /\ LevelAfter(p, i - 1)' = LevelAfter(p, i - 1)
      BY <2>2, <2>5, <3>1
    <3>3. Continues(p, i)
      BY <1>4, <2>1 DEF Explained
    <3> QED
      BY <3>2, <3>3 DEF Continues
  <2>7. Continues(p, index)'
    <3>1. LevelAfter(p, index - 1)' = CurrentLevel(p)
      BY <1>4, <2>1, <2>5 DEF Explained
    <3> QED
      BY <1>1, <2>2, <3>1 DEF Continues
  <2>8. CurrentLevel(p)' = LevelAfter(p, historyCounter[p])'
    <3>1. CurrentLevel(p)' = new
      BY <1>1, LevelFacts DEF CurrentLevel, OrElse, TypeOK
    <3> QED
      BY <1>1, <2>1, <2>2, <3>1 DEF LevelAfter
  <2> QED
    BY <1>4, <2>1, <2>4, <2>6, <2>7, <2>8 DEF Explained
<1> QED
  BY <1>3, <1>4

LEMMA ExplainedNext ==
  ASSUME TypeOK, HistoryExplainsLevel, [Next]_vars
  PROVE  HistoryExplainsLevel'
<1>1. ASSUME UNCHANGED <<playerLevel, historyCounter, historyEntry, seeded, erased>>
      PROVE  HistoryExplainsLevel'
  BY <1>1 DEF HistoryExplainsLevel, LevelAfter, CurrentLevel
<1>2. CASE AdminStep
  BY <1>1, <1>2, AdminStepFrame DEF playerVars, recordVars, ghostVars, erasureVars
<1>3. CASE PeerStep
  BY <1>1, <1>3, PeerStepFrame DEF recordVars, ghostVars, erasureVars
<1>4. CASE LevelStep
  <2>1. PICK p \in Players, new \in Level, by \in Admins \cup Validators \cup Scouts,
             ref \in Nat :
          /\ ChangeLevel(p, new, by, ref)
          /\ new # CurrentLevel(p)
          /\ ref # 0 => new = CurrentLevel(p) + 1
          /\ ref = 0 => by \in Admins
    BY <1>4, LevelSteps DEF LevelStep
  <2>2. seeded' = seeded /\ erased' = erased
    BY <2>1 DEF ChangeLevel, ghostVars, erasureVars
  <2>3. \A r \in Players : Explained(r) => Explained(r)'
    BY <2>1, ExplainedChange
  <2>4. (\A r \in Players \ (seeded \cup erased) : Explained(r))'
    BY <2>2, <2>3, ExplainedIff
  <2> QED
    BY <2>4 DEF HistoryExplainsLevel, Explained, Contiguous, Continues
<1>5. CASE MigrateStep
  BY <1>1, <1>5 DEF MigrateStep, Migrate, recordVars, ghostVars, erasureVars
<1>6. CASE SeedStep
  <2>1. PICK p \in Players, e \in SeedEntries :
          /\ AdminSeedHistory(p, e)
          /\ \E priorPage : AppendToHistory(p, e, priorPage)
          /\ e \in ProgressEntry /\ historyCounter[p] < U32_MAX
    BY <1>6, SeedEffect DEF SeedStep
  <2>2. playerLevel' = playerLevel /\ erased' = erased /\ seeded' = seeded \cup {p}
    BY <2>1, SeedEffect
  <2>3. \A r \in Players \ {p} :
          historyCounter'[r] = historyCounter[r] /\ historyEntry'[r] = historyEntry[r]
    BY <2>1, AppendEffect DEF TypeOK
  <2> QED
    BY <2>2, <2>3 DEF HistoryExplainsLevel, LevelAfter, CurrentLevel
<1>7. CASE ImportStep
  BY <1>1, <1>7 DEF ImportStep, AdminSeedPlayer, recordVars, erasureVars
<1>8. CASE PurgeStep
  <2>1. PICK p \in Players, cursor \in 0..(U32_MAX - 1) : PurgePlayerData(p, cursor)
    BY <1>8 DEF PurgeStep
  <2>2. /\ erased' = erased \cup {p} /\ seeded' = seeded
        /\ \A r \in Players \ {p} :
             /\ historyCounter'[r] = historyCounter[r] /\ historyEntry'[r] = historyEntry[r]
             /\ playerLevel'[r] = playerLevel[r]
    BY <2>1 DEF PurgePlayerData, TypeOK
  <2> QED
    BY <2>2 DEF HistoryExplainsLevel, LevelAfter, CurrentLevel
<1>9. CASE UNCHANGED vars
  BY <1>1, <1>9 DEF vars, recordVars, ghostVars, erasureVars
<1> QED
  BY <1>2, <1>3, <1>4, <1>5, <1>6, <1>7, <1>8, <1>9, StepCases

\* For any number of players and any history length, in a fresh contract and
\* in one upgraded from the layout before paging: the history of a player is a
\* gapless chain of level changes from Unverified to the level stored.
THEOREM HistoryExplains == Spec => []HistoryExplainsLevel
<1>1. TypeOK /\ HistoryExplainsLevel /\ [Next]_vars => HistoryExplainsLevel'
  BY ExplainedNext
<1> QED
  BY <1>1, ExplainedInit, TypeCorrect, PTL DEF Spec

----
(***************************************************************************)
(* registration's copy of the level.  RegistrationMirrorsLevel needs that an *)
(* id registration has not handed out yet has no level in progress either:  *)
(* register_player writes Unverified without asking progress.               *)
(***************************************************************************)
UnregisteredUntouched ==
  \A p \in Players \ imported :
    p > regCounter => regLevel[p] = NONE /\ playerLevel[p] = NONE

MirrorInv == UnregisteredUntouched /\ RegistrationMirrorsLevel

LEMMA MirrorInit == Init => MirrorInv
<1> SUFFICES ASSUME Init, NEW p \in Players
             PROVE  /\ p > regCounter => regLevel[p] = NONE /\ playerLevel[p] = NONE
                    /\ regLevel[p] # NONE => regLevel[p] = CurrentLevel(p)
  BY DEF MirrorInv, UnregisteredUntouched, RegistrationMirrorsLevel
<1>1. CASE InitFresh
  BY <1>1 DEF InitFresh
<1>2. CASE InitUpgraded
  <2>1. /\ regLevel = [r \in Players |-> OrElse(playerLevel[r], Unverified)]
        /\ regCounter = MaxPlayerId
    BY <1>2 DEF InitUpgraded
  <2>2. ~(p > regCounter)
    BY <2>1, SizesAssumption DEF Players
  <2> QED
    BY <2>1, <2>2 DEF CurrentLevel
<1> QED
  BY <1>1, <1>2 DEF Init

LEMMA MirrorNext == ASSUME TypeOK, MirrorInv, [Next]_vars PROVE MirrorInv'
<1>1. ASSUME UNCHANGED <<playerLevel, regLevel, regCounter, imported, erased>>
      PROVE  MirrorInv'
  BY <1>1 DEF MirrorInv, UnregisteredUntouched, RegistrationMirrorsLevel, CurrentLevel
<1>2. CASE AdminStep
  BY <1>1, <1>2, AdminStepFrame DEF playerVars, peerVars, ghostVars, erasureVars
<1>3. CASE PeerStep
  <2>1. UNCHANGED <<playerLevel, imported, erased>>
    BY <1>3, PeerStepFrame DEF ghostVars, erasureVars
  <2>2. CASE (\E p \in Players : CommitMilestoneOnly(p) \/ PurgeMilestones(p)) \/ Tick
    BY <1>1, <2>1, <2>2 DEF CommitMilestoneOnly, PurgeMilestones, Tick, peerVars
  <2>3. CASE RegisterPlayer
    <3>1. /\ regCounter' = regCounter + 1
          /\ regCounter + 1 \in Players /\ regCounter \in Nat
          /\ regLevel' = [regLevel EXCEPT ![regCounter + 1] = Unverified]
      BY <2>3, SizesAssumption DEF RegisterPlayer, Players, TypeOK
    <3>2. UnregisteredUntouched'
      BY <2>1, <3>1 DEF MirrorInv, UnregisteredUntouched, Players, TypeOK
    <3>3. regCounter + 1 \in imported \/ CurrentLevel(regCounter + 1) = Unverified
      BY <3>1 DEF MirrorInv, UnregisteredUntouched, CurrentLevel, OrElse
    <3>4. ASSUME NEW r \in Players \ (erased \cup imported), regLevel'[r] # NONE
          PROVE  regLevel'[r] = CurrentLevel(r)
      BY <3>1, <3>3, <3>4 DEF MirrorInv, RegistrationMirrorsLevel, TypeOK
    <3>5. RegistrationMirrorsLevel'
      BY <2>1, <3>4 DEF RegistrationMirrorsLevel, CurrentLevel
    <3> QED
      BY <3>2, <3>5 DEF MirrorInv
  <2>4. CASE \E p \in Players : DeregisterPlayer(p)
    <3>1. PICK p \in Players : DeregisterPlayer(p)
      BY <2>4
    <3>2. regLevel' = [regLevel EXCEPT ![p] = NONE] /\ regCounter' = regCounter
      BY <3>1 DEF DeregisterPlayer
    <3> QED
      BY <2>1, <3>2 DEF MirrorInv, UnregisteredUntouched, RegistrationMirrorsLevel,
         CurrentLevel, TypeOK
  <2> QED
    BY <1>3, <2>2, <2>3, <2>4 DEF PeerStep
<1>4. CASE LevelStep
  <2>1. PICK p \in Players, new \in Level, by \in Admins \cup Validators \cup Scouts,
             ref \in Nat : ChangeLevel(p, new, by, ref)
    BY <1>4, LevelSteps DEF LevelStep
  <2>2. /\ playerLevel' = [playerLevel EXCEPT ![p] = new]
        /\ regLevel[p] # NONE
        /\ regLevel' = [regLevel EXCEPT ![p] = new]
    BY <2>1, ChangeLevelEffect
  <2>3. UNCHANGED <<regCounter, imported, erased>>
    BY <2>1 DEF ChangeLevel, ghostVars, erasureVars
  <2>4. UnregisteredUntouched'
    BY <2>2, <2>3 DEF MirrorInv, UnregisteredUntouched, TypeOK
  <2>5. RegistrationMirrorsLevel'
    BY <2>2, <2>3, LevelFacts DEF MirrorInv, RegistrationMirrorsLevel, CurrentLevel,
       OrElse, TypeOK
  <2> QED
    BY <2>4, <2>5 DEF MirrorInv
<1>5. CASE MigrateStep
  BY <1>1, <1>5 DEF MigrateStep, Migrate, peerVars, ghostVars, erasureVars
<1>6. CASE SeedStep
  BY <1>1, <1>6, SeedEffect DEF SeedStep
<1>7. CASE ImportStep
  <2>1. PICK p \in Players, level \in ImportLevels : AdminSeedPlayer(p, level)
    BY <1>7 DEF ImportStep
  <2>2. /\ regLevel' = [regLevel EXCEPT ![p] = level] /\ imported' = imported \cup {p}
        /\ UNCHANGED <<playerLevel, regCounter, erased>>
    BY <2>1 DEF AdminSeedPlayer, erasureVars
  <2> QED
    BY <2>2 DEF MirrorInv, UnregisteredUntouched, RegistrationMirrorsLevel, CurrentLevel, TypeOK
<1>8. CASE PurgeStep
  <2>1. PICK p \in Players, cursor \in 0..(U32_MAX - 1) : PurgePlayerData(p, cursor)
    BY <1>8 DEF PurgeStep
  <2>2. /\ erased' = erased \cup {p}
        /\ playerLevel' \in {playerLevel, [playerLevel EXCEPT ![p] = NONE]}
        /\ UNCHANGED <<regLevel, regCounter, imported>>
    BY <2>1 DEF PurgePlayerData, peerVars
  <2> QED
    BY <2>2 DEF MirrorInv, UnregisteredUntouched, RegistrationMirrorsLevel, CurrentLevel, TypeOK
<1>9. CASE UNCHANGED vars
  BY <1>1, <1>9 DEF vars, peerVars, ghostVars, erasureVars
<1> QED
  BY <1>2, <1>3, <1>4, <1>5, <1>6, <1>7, <1>8, <1>9, StepCases

\* The level filter registration answers from its own copy is never behind the
\* level progress reports, however registrations, level changes, resets and
\* erasures of other players interleave.
THEOREM MirrorCorrect == Spec => []RegistrationMirrorsLevel
<1>1. TypeOK /\ MirrorInv /\ [Next]_vars => MirrorInv'
  BY MirrorNext
<1>2. MirrorInv => RegistrationMirrorsLevel
  BY DEF MirrorInv
<1> QED
  BY <1>1, <1>2, MirrorInit, TypeCorrect, PTL DEF Spec

----
(***************************************************************************)
(* What the getters read: the entries of a player read as a list, whether a *)
(* page is there or has to be rebuilt.                                      *)
(***************************************************************************)
\* What the entries stored at 1..n read as, from a + 1 to b.
Holds(entries, list, n) == \A i \in 1..n : entries[i] = list[i]

LEMMA StoredIsPart ==
  ASSUME NEW S, NONE \notin S, NEW list \in Seq(S), NEW n \in Nat, n = Len(list),
         NEW entries, Holds(entries, list, n), NEW a \in Nat, NEW b \in Nat, b <= n
  PROVE  StoredEntries(entries, a + 1, b) = Part(list, a, b)
<1> DEFINE length == IF b < a + 1 THEN 0 ELSE b - (a + 1) + 1
           range == [k \in 1..length |-> entries[a + 1 + k - 1]]
<1>1. StoredEntries(entries, a + 1, b) = Filter(range, ToSet(range) \ {NONE})
  BY DEF StoredEntries
<1>2. CASE a <= b
  <2>1. PICK d \in Nat : d = b - a
    BY <1>2
  <2>2. PartEnd(list, b) = b
    BY DEF PartEnd
  <2>3. PICK t \in Seq(S) : t = Part(list, a, b) /\ Len(t) = d /\ \A i \in 1..d : t[i] = list[a + i]
    <3>1. a <= PartEnd(list, b) /\ PartEnd(list, b) - a = d
      BY <1>2, <2>1, <2>2
    <3> HIDE DEF range
    <3>2. /\ Part(list, a, b) \in Seq(S) /\ Len(Part(list, a, b)) = PartEnd(list, b) - a
          /\ \A i \in 1..(PartEnd(list, b) - a) : Part(list, a, b)[i] = list[a + i]
      BY <3>1, PartEntries
    <3> QED
      BY <3>1, <3>2, Zenon
  <2>4. range = [k \in 1..d |-> entries[a + k]]
    <3>1. length = d /\ \A k \in 1..d : a + 1 + k - 1 = a + k
      BY <1>2, <2>1
    <3> QED
      BY <3>1
  <2>5. \A k \in 1..d : entries[a + k] = t[k] /\ t[k] \in S
    <3>1. ASSUME NEW k \in 1..d
          PROVE  entries[a + k] = list[a + k]
      BY <2>1 DEF Holds
    <3> QED
      BY <2>3, <3>1, ElementOfSeq
  <2>6. range \in [1..d -> S] /\ \A k \in 1..d : range[k] = t[k]
    BY <2>4, <2>5
  <2> HIDE DEF range
  <2>7. range \in Seq(S) /\ Len(range) = d
    BY <2>1, <2>6, FunctionIsList
  <2>8. range = t
    BY <2>3, <2>6, <2>7, SeqEqual
  <2>9. \A i \in 1..Len(range) : range[i] \in ToSet(range) \ {NONE}
    BY <2>6, <2>7 DEF ToSet
  <2>10. Filter(range, ToSet(range) \ {NONE}) = range
    <3>1. PICK A : A = ToSet(range) \ {NONE}
      OBVIOUS
    <3> QED
      BY <2>7, <2>9, <3>1, FilterAll
  <2> QED
    BY <1>1, <2>3, <2>8, <2>10
<1>3. CASE ~(a <= b)
  <2>1. length = 0
    BY <1>3
  <2>2. range \in [1..0 -> S]
    BY <2>1
  <2> HIDE DEF range
  <2>3. range = << >>
    <3>1. range \in Seq(S) /\ Len(range) = 0
      BY <2>2, FunctionIsList
    <3> QED
      BY <3>1, EmptySeq
  <2>4. Part(list, a, b) = << >>
    BY <1>3, PartEmpty
  <2>5. Filter(range, ToSet(range) \ {NONE}) = << >>
    BY <2>3, FilterEmpty
  <2> QED
    BY <1>1, <2>4, <2>5
<1> QED
  BY <1>2, <1>3

\* The pages that are there are the pages of the list.
PagesAre(pages, list) ==
  \A q \in PageNo :
    pages[q] = NONE
      \/ pages[q] = Part(list, q * HISTORY_PAGE_SIZE, (q + 1) * HISTORY_PAGE_SIZE)

LEMMA PageIndexes ==
  ASSUME NEW index \in Index
  PROVE  /\ HistoryPageIndex(index) \in PageNo
         /\ HistoryPageIndex(index) * HISTORY_PAGE_SIZE < index
         /\ index <= (HistoryPageIndex(index) + 1) * HISTORY_PAGE_SIZE
         /\ \A q \in Nat : q <= HistoryPageIndex(index) => q \in PageNo
<1>1. PICK H \in Nat \ {0} : H = HISTORY_PAGE_SIZE
  BY SizesAssumption
<1>2. PICK i \in Nat : i = index - 1 /\ i <= U32_MAX - 1
  BY SizesAssumption DEF Index
<1>3. PICK q \in Nat : q = i \div H /\ q * H <= i /\ i < (q + 1) * H
  OBVIOUS
<1>4. PICK m \in Nat : m = (U32_MAX - 1) \div H /\ m * H <= U32_MAX - 1 /\ U32_MAX - 1 < (m + 1) * H
  <2>1. PICK u \in Nat : u = U32_MAX - 1
    BY SizesAssumption
  <2> QED
    BY <2>1
<1>5. q <= m
  <2> SUFFICES ASSUME m < q PROVE FALSE
    OBVIOUS
  <2>1. (m + 1) * H <= q * H
    OBVIOUS
  <2> QED
    BY <1>2, <1>3, <1>4, <2>1, SizesAssumption
<1>6. HistoryPageIndex(index) = q /\ HistoryPageIndex(U32_MAX) = m
  BY <1>1, <1>2, <1>3, <1>4 DEF HistoryPageIndex
<1> QED
  BY <1>1, <1>2, <1>3, <1>5, <1>6, SizesAssumption DEF PageNo, Index

\* A page, there or rebuilt, is its part of the list.
LEMMA PageReads ==
  ASSUME NEW S, NONE \notin S, NEW list \in Seq(S), NEW n \in Index, n = Len(list),
         NEW entries, Holds(entries, list, n), NEW pages, PagesAre(pages, list),
         NEW q \in Nat, q <= HistoryPageIndex(n)
  PROVE  PageOrRebuilt(q, n, pages, entries)
           = Part(list, q * HISTORY_PAGE_SIZE, (q + 1) * HISTORY_PAGE_SIZE)
<1>1. q \in PageNo
  BY PageIndexes
<1>2. PICK H \in Nat \ {0}, a \in Nat, b \in Nat :
        H = HISTORY_PAGE_SIZE /\ a = q * H /\ b = (q + 1) * H /\ a <= b
  BY SizesAssumption
<1>3. pages[q] = NONE \/ pages[q] = Part(list, a, b)
  BY <1>1, <1>2 DEF PagesAre
<1>4. CASE pages[q] = NONE
  <2>1. PageOrRebuilt(q, n, pages, entries) = StoredEntries(entries, a + 1, Least(b, n))
    BY <1>2, <1>4 DEF PageOrRebuilt, OrElse
  <2>2. PICK d \in Nat : d = Least(b, n) /\ d <= n /\ d = PartEnd(list, b)
                         /\ PartEnd(list, d) = d
    BY <1>2 DEF Least, PartEnd, Index
  <2>3. n \in Nat
    BY DEF Index
  <2>4. StoredEntries(entries, a + 1, d) = Part(list, a, d)
    BY <2>2, <2>3, StoredIsPart
  <2>5. Part(list, a, d) = Part(list, a, b)
    BY <2>2, Zenon DEF Part
  <2> QED
    BY <1>2, <2>1, <2>2, <2>4, <2>5, Zenon
<1>5. CASE pages[q] # NONE
  BY <1>2, <1>3, <1>5 DEF PageOrRebuilt, OrElse
<1> QED
  BY <1>4, <1>5

\* Reading from a page to the last one gives the rest of the list.
LEMMA PagesRead ==
  ASSUME NEW S, NONE \notin S, NEW list \in Seq(S), NEW n \in Index, n = Len(list),
         NEW entries, Holds(entries, list, n), NEW pages, PagesAre(pages, list),
         NEW f \in Nat, NEW l \in Nat, l = HistoryPageIndex(n), f <= l
  PROVE  ReadPages(f, l, n, pages, entries) = Part(list, f * HISTORY_PAGE_SIZE, n)
<1>1. PICK H \in Nat \ {0} : H = HISTORY_PAGE_SIZE
  BY SizesAssumption
<1>2. PICK m \in Nat \ {0} : m = l - f + 1
  OBVIOUS
<1>3. PICK cut \in [0..m -> Nat] : \A i \in 0..m : cut[i] = (f + i) * H
  <2>1. \A i \in 0..m : (f + i) * H \in Nat
    OBVIOUS
  <2>2. [i \in 0..m |-> (f + i) * H] \in [0..m -> Nat]
    BY <2>1
  <2> QED
    BY <2>2
<1>4. PICK read : read = [k \in 1..m |-> PageOrRebuilt(f + k - 1, n, pages, entries)]
  OBVIOUS
<1>5. ReadPages(f, l, n, pages, entries) = FlattenSeq(read)
  BY <1>2, <1>4, Zenon DEF ReadPages
<1>6. ASSUME NEW i \in 0..(m - 1)
      PROVE  /\ cut[i] <= cut[i + 1] /\ read[i + 1] = Part(list, cut[i], cut[i + 1])
             /\ read[i + 1] \in Seq(S)
  <2>1. PICK q \in Nat : q = f + i /\ q <= l /\ f + (i + 1) = q + 1 /\ f + (i + 1) - 1 = q
    BY <1>2
  <2>2. PICK a \in Nat, b \in Nat : a = q * H /\ b = (q + 1) * H /\ a <= b
    OBVIOUS
  <2>3. cut[i] = a /\ cut[i + 1] = b
    <3>1. i \in 0..m /\ i + 1 \in 0..m
      OBVIOUS
    <3> QED
      BY <1>3, <2>1, <2>2, <3>1
  <2>4. read[i + 1] = PageOrRebuilt(q, n, pages, entries)
    <3>1. i + 1 \in 1..m
      OBVIOUS
    <3> QED
      BY <1>4, <2>1, <3>1
  <2>5. PageOrRebuilt(q, n, pages, entries) = Part(list, a, b)
    BY <1>1, <2>1, <2>2, PageReads
  <2>6. Part(list, a, b) \in Seq(S)
    BY PartType
  <2> QED
    BY <2>2, <2>3, <2>4, <2>5, <2>6
<1>7. read \in [1..m -> Seq(S)]
  <2>1. \A k \in 1..m : k - 1 \in 0..(m - 1) /\ (k - 1) + 1 = k
    OBVIOUS
  <2>2. \A k \in 1..m : read[k] \in Seq(S)
    BY <1>6, <2>1
  <2> QED
    BY <1>4, <2>2
<1>8. Consecutive(read, list, cut, m)
  BY <1>6 DEF Consecutive
<1>9. FlattenSeq(read) = Part(list, cut[0], cut[m])
  <2>1. \A p \in [1..m -> Seq(S)] :
          Consecutive(p, list, cut, m) => FlattenSeq(p) = Part(list, cut[0], cut[m])
    BY CutsJoin
  <2> QED
    BY <1>7, <1>8, <2>1, Zenon
<1>10. PICK a \in Nat, b \in Nat : a = cut[0] /\ b = cut[m] /\ a = f * H /\ b = (l + 1) * H
  <2>1. 0 \in 0..m /\ m \in 0..m /\ f + 0 = f /\ f + m = l + 1
    BY <1>2
  <2> QED
    BY <1>3, <2>1
<1>11. n <= b /\ n \in Nat
  <2>1. n <= (HistoryPageIndex(n) + 1) * HISTORY_PAGE_SIZE /\ n \in Nat
    BY PageIndexes DEF Index
  <2> QED
    BY <1>1, <1>10, <2>1
<1>12. PartEnd(list, b) = PartEnd(list, n)
  BY <1>11 DEF PartEnd
<1>13. Part(list, a, b) = Part(list, a, n)
  BY <1>12, Zenon DEF Part
<1> QED
  BY <1>1, <1>5, <1>9, <1>10, <1>13, Zenon

\* Reading all pages, after an entry or before, gives the list.
LEMMA HistoryReads ==
  ASSUME NEW S, NONE \notin S, NEW list \in Seq(S), NEW n \in Index, n = Len(list),
         NEW entries, Holds(entries, list, n), NEW pages, PagesAre(pages, list), NEW vec
  PROVE  ReadHistoryPages(n, pages, entries, vec) = list
<1>1. PICK l \in Nat : l = HistoryPageIndex(n)
  BY PageIndexes DEF PageNo
<1>2. ReadPages(0, l, n, pages, entries) = Part(list, 0 * HISTORY_PAGE_SIZE, n)
  <2>1. PICK f \in Nat : f = 0 /\ f <= l
    OBVIOUS
  <2>2. ReadPages(f, l, n, pages, entries) = Part(list, f * HISTORY_PAGE_SIZE, n)
    BY <1>1, <2>1, PagesRead
  <2> QED
    BY <2>1, <2>2, Zenon
<1>3. 0 * HISTORY_PAGE_SIZE = 0 /\ n \in Nat /\ n # 0
  BY SizesAssumption DEF Index
<1>4. Part(list, 0, n) = list
  BY <1>3, PartFull
<1>5. list # << >>
  BY <1>3
<1> QED
  BY <1>1, <1>2, <1>3, <1>4, <1>5 DEF ReadHistoryPages

----
(***************************************************************************)
(* The history and its commitment: entries, pages, frontier and root stand  *)
(* for the same list after every append, live or replayed.                  *)
(***************************************************************************)
\* The entries stored at 1..n.
Listed(entries, n) == [i \in 1..n |-> entries[i]]

\* The entries 1..n exist and nothing beyond.
Filled(entries, n) == \A i \in Index : entries[i] # NONE <=> i <= n

\* Each page is its part of the list; a page may lack where the history is
\* not as long, or may predate paging.
PagesHold(pages, list, early) ==
  \A q \in PageNo :
    IF pages[q] = NONE THEN early \/ Len(list) <= q * HISTORY_PAGE_SIZE
    ELSE pages[q] = Part(list, q * HISTORY_PAGE_SIZE, (q + 1) * HISTORY_PAGE_SIZE)

\* Pages, frontier and root all stand for the list of the entries.
Whole(n, entries, pages, frontier, root, early) ==
  /\ PagesHold(pages, Listed(entries, n), early)
  /\ frontier # NONE => Covering(frontier, n, LeafHashes(Listed(entries, n)))
  /\ n > 0 => root = MthRange(LeafHashes(Listed(entries, n)), 0, n)

LEMMA ListedIs ==
  ASSUME NEW n \in 0..U32_MAX, NEW entries \in [Index -> ProgressEntry \cup {NONE}],
         Filled(entries, n)
  PROVE  /\ Listed(entries, n) \in Seq(ProgressEntry) /\ Len(Listed(entries, n)) = n
         /\ Holds(entries, Listed(entries, n), n)
<1>1. \A i \in 1..n : i \in Index /\ i <= n
  BY SizesAssumption DEF Index
<1>2. \A i \in 1..n : entries[i] \in ProgressEntry
  BY <1>1 DEF Filled
<1>3. Listed(entries, n) \in [1..n -> ProgressEntry] /\ Holds(entries, Listed(entries, n), n)
  BY <1>2 DEF Listed, Holds
<1>4. n \in Nat
  BY SizesAssumption
<1> QED
  BY <1>3, <1>4, FunctionIsList

\* One entry written.
Puts(new, entries, index, e) == new = [entries EXCEPT ![index] = e]

LEMMA ListedAppend ==
  ASSUME NEW n \in 0..U32_MAX, n + 1 \in Index,
         NEW entries \in [Index -> ProgressEntry \cup {NONE}],
         Filled(entries, n), NEW e \in ProgressEntry,
         NEW new, Puts(new, entries, n + 1, e)
  PROVE  /\ new \in [Index -> ProgressEntry \cup {NONE}]
         /\ Filled(new, n + 1)
         /\ Listed(new, n + 1) = Append(Listed(entries, n), e)
<1>1. new \in [Index -> ProgressEntry \cup {NONE}]
  BY DEF Puts
<1>2. \A i \in Index : new[i] = IF i = n + 1 THEN e ELSE entries[i]
  BY DEF Puts
<1>3. n \in Nat /\ e # NONE
  BY SizesAssumption, NoneAssumption
<1>4. Filled(new, n + 1)
  BY <1>2, <1>3 DEF Filled, Index
<1>5. PICK list \in Seq(ProgressEntry) :
        list = Listed(entries, n) /\ Len(list) = n /\ \A i \in 1..n : list[i] = entries[i]
  BY ListedIs DEF Holds
<1>6. PICK longer \in Seq(ProgressEntry) :
        /\ longer = Listed(new, n + 1) /\ Len(longer) = n + 1
        /\ \A i \in 1..(n + 1) : longer[i] = new[i]
  <2>1. PICK m \in 0..U32_MAX : m = n + 1
    BY SizesAssumption DEF Index
  <2>2. /\ Listed(new, m) \in Seq(ProgressEntry) /\ Len(Listed(new, m)) = m
        /\ Holds(new, Listed(new, m), m)
    BY <1>1, <1>4, <2>1, ListedIs
  <2> QED
    BY <2>1, <2>2 DEF Holds
<1>7. PICK appended \in Seq(ProgressEntry) :
        /\ appended = Append(list, e) /\ Len(appended) = n + 1
        /\ \A i \in 1..n : appended[i] = list[i]
        /\ appended[n + 1] = e
  <2>1. Append(list, e) \in Seq(ProgressEntry) /\ Len(Append(list, e)) = Len(list) + 1
    OBVIOUS
  <2>2. \A i \in 1..Len(list) : Append(list, e)[i] = list[i]
    OBVIOUS
  <2>3. Append(list, e)[Len(list) + 1] = e
    OBVIOUS
  <2> QED
    BY <1>5, <2>1, <2>2, <2>3
<1>8. \A i \in 1..(n + 1) : longer[i] = appended[i]
  <2>1. ASSUME NEW i \in 1..n PROVE longer[i] = appended[i]
    <3>1. i \in Index /\ i # n + 1 /\ i \in 1..(n + 1)
      BY <1>3, SizesAssumption DEF Index
    <3> QED
      BY <1>2, <1>5, <1>6, <1>7, <3>1
  <2>2. longer[n + 1] = appended[n + 1]
    <3>1. n + 1 \in 1..(n + 1)
      BY <1>3
    <3>2. longer[n + 1] = new[n + 1]
      BY <1>6, <3>1
    <3> QED
      BY <1>2, <1>7, <3>2
  <2>3. \A i \in 1..(n + 1) : i = n + 1 \/ i \in 1..n
    BY <1>3
  <2> QED
    BY <2>1, <2>2, <2>3
<1>9. longer = appended
  BY <1>6, <1>7, <1>8, SeqEqual
<1> QED
  BY <1>1, <1>4, <1>5, <1>6, <1>7, <1>9

LEMMA PagesHoldAre ==
  ASSUME NEW pages, NEW list, NEW early, PagesHold(pages, list, early)
  PROVE  PagesAre(pages, list)
BY DEF PagesHold, PagesAre

\* The page of the entry after the first n as a live append finds it, or, for
\* a player who did not begin before paging, a replay.
Found(prior, n, pages, entries, q, early) ==
  \/ prior = OrElse(pages[q], StoredEntries(entries, q * HISTORY_PAGE_SIZE + 1, n))
  \/ ~early /\ prior = OrElse(pages[q], << >>)

\* It is the part of the list that is on this page.
LEMMA PriorPage ==
  ASSUME NEW n \in 0..U32_MAX, n + 1 \in Index,
         NEW entries \in [Index -> ProgressEntry \cup {NONE}], Filled(entries, n),
         NEW pages, NEW early \in BOOLEAN, NEW list, list = Listed(entries, n),
         PagesHold(pages, list, early), NEW q, q = HistoryPageIndex(n + 1),
         NEW prior, Found(prior, n, pages, entries, q, early)
  PROVE  prior = Part(list, q * HISTORY_PAGE_SIZE, (q + 1) * HISTORY_PAGE_SIZE)
<1>1. PICK k \in PageNo : k = q
  BY PageIndexes
<1>2. PICK H \in Nat \ {0}, a \in Nat, b \in Nat :
        H = HISTORY_PAGE_SIZE /\ a = q * H /\ b = (q + 1) * H /\ a <= n /\ n < b
  <2>1. q \in Nat
    BY <1>1 DEF PageNo
  <2>2. PICK H \in Nat \ {0} : H = HISTORY_PAGE_SIZE
    BY SizesAssumption
  <2>3. q * H < n + 1 /\ n + 1 <= (q + 1) * H
    BY <2>2, PageIndexes
  <2>4. n \in Nat /\ q * H \in Nat /\ (q + 1) * H \in Nat
    BY <2>1, SizesAssumption
  <2> QED
    BY <2>2, <2>3, <2>4
<1>3. n \in Nat /\ list \in Seq(ProgressEntry) /\ Len(list) = n /\ Holds(entries, list, n)
  BY ListedIs, SizesAssumption
<1>4. CASE pages[q] # NONE
  <2>1. prior = pages[q]
    BY <1>4 DEF Found, OrElse
  <2> QED
    BY <1>1, <1>4, <2>1 DEF PagesHold
<1>5. CASE pages[q] = NONE
  <2>1. CASE prior = OrElse(pages[q], StoredEntries(entries, q * HISTORY_PAGE_SIZE + 1, n))
    <3>1. prior = StoredEntries(entries, a + 1, n)
      BY <1>2, <1>5, <2>1 DEF OrElse
    <3>2. StoredEntries(entries, a + 1, n) = Part(list, a, n)
      BY <1>2, <1>3, StoredIsPart, NoneAssumption
    <3>3. PartEnd(list, n) = PartEnd(list, b)
      BY <1>2, <1>3 DEF PartEnd
    <3>4. Part(list, a, n) = Part(list, a, b)
      BY <3>3, Zenon DEF Part
    <3> QED
      BY <1>2, <3>1, <3>2, <3>4, Zenon
  <2>2. CASE ~early /\ prior = OrElse(pages[q], << >>)
    <3>1. prior = << >> /\ Len(list) <= a
      BY <1>1, <1>2, <1>5, <2>2 DEF OrElse, PagesHold
    <3>2. Part(list, a, b) = << >>
      BY <1>3, <3>1, PartEmpty
    <3> QED
      BY <1>2, <3>1, <3>2, Zenon
  <2> QED
    BY <2>1, <2>2, Zenon DEF Found
<1> QED
  BY <1>4, <1>5

LEMMA ScaledOrder ==
  ASSUME NEW a \in Nat, NEW b \in Nat, a <= b, NEW h \in Nat
  PROVE  a * h <= b * h
<1>1. PICK d \in Nat : b = a + d
  <2>1. b - a \in Nat /\ b = a + (b - a)
    OBVIOUS
  <2> QED
    BY <2>1
<1>2. b * h = a * h + d * h
  BY <1>1
<1>3. a * h \in Nat /\ d * h \in Nat
  OBVIOUS
<1> QED
  BY <1>2, <1>3

\* Pushing the entry onto its page, the other pages need no change.
LEMMA PagesAppend ==
  ASSUME NEW n \in Nat, n + 1 \in Index, NEW list \in Seq(ProgressEntry), Len(list) = n,
         NEW e \in ProgressEntry, NEW pages, DOMAIN pages = PageNo, NEW early \in BOOLEAN,
         PagesHold(pages, list, early), NEW q, q = HistoryPageIndex(n + 1), NEW prior,
         prior = Part(list, q * HISTORY_PAGE_SIZE, (q + 1) * HISTORY_PAGE_SIZE)
  PROVE  PagesHold([pages EXCEPT ![q] = Append(prior, e)], Append(list, e), early)
<1>1. PICK H \in Nat \ {0} : H = HISTORY_PAGE_SIZE
  BY SizesAssumption
<1>2. q \in PageNo /\ q \in Nat /\ q * H <= n /\ n < (q + 1) * H
  <2>1. q \in PageNo /\ q \in Nat
    BY PageIndexes DEF PageNo
  <2>2. q * H < n + 1 /\ n + 1 <= (q + 1) * H
    BY <1>1, PageIndexes
  <2>3. q * H \in Nat /\ (q + 1) * H \in Nat
    BY <2>1
  <2> QED
    BY <2>1, <2>2, <2>3
<1> DEFINE new == [pages EXCEPT ![q] = Append(prior, e)]
           longer == Append(list, e)
<1>3. longer \in Seq(ProgressEntry) /\ Len(longer) = n + 1
  OBVIOUS
<1>4. \A k \in PageNo : new[k] = IF k = q THEN Append(prior, e) ELSE pages[k]
  BY <1>2
<1> SUFFICES ASSUME NEW k \in PageNo
             PROVE  IF new[k] = NONE THEN early \/ Len(longer) <= k * H
                    ELSE new[k] = Part(longer, k * H, (k + 1) * H)
  BY <1>1 DEF PagesHold
<1>5. PICK a \in Nat, b \in Nat :
        a = k * H /\ b = (k + 1) * H /\ (k = q <=> a <= n /\ n < b) /\ (n < a => q < k)
        /\ (q < k => n + 1 <= a)
  <2>1. k \in Nat
    BY DEF PageNo
  <2>2. PICK a \in Nat, b \in Nat : a = k * H /\ b = (k + 1) * H /\ b = a + H
    BY <2>1
  <2>3. k < q => b <= q * H
    <3>1. k < q => k + 1 <= q /\ k + 1 \in Nat
      BY <1>2, <2>1
    <3> QED
      BY <1>2, <2>2, <3>1, ScaledOrder
  <2>4. q < k => (q + 1) * H <= a
    <3>1. q < k => q + 1 <= k /\ q + 1 \in Nat
      BY <1>2, <2>1
    <3> QED
      BY <1>2, <2>1, <2>2, <3>1, ScaledOrder
  <2>5. PICK c \in Nat, d \in Nat : c = q * H /\ d = (q + 1) * H
    BY <1>2
  <2>6. k < q \/ k = q \/ q < k
    BY <1>2, <2>1
  <2>7. (k = q <=> a <= n /\ n < b) /\ (n < a => q < k) /\ (q < k => n + 1 <= a)
    <3>1. c <= n /\ n < d /\ (k = q => a = c /\ b = d) /\ (k < q => b <= c) /\ (q < k => d <= a)
      BY <1>2, <2>2, <2>3, <2>4, <2>5
    <3>2. k < q => ~(n < b) /\ ~(n < a)
      BY <2>2, <3>1
    <3>3. q < k => ~(a <= n) /\ n + 1 <= a
      BY <2>2, <3>1
    <3> QED
      BY <1>2, <2>1, <2>6, <3>1, <3>2, <3>3
  <2> QED
    BY <2>2, <2>7
<1>6. Part(longer, a, b) = IF a <= n /\ n < b THEN Append(Part(list, a, b), e) ELSE Part(list, a, b)
  BY PartAppend
<1>7. CASE k = q
  <2>1. new[k] = Append(Part(list, a, b), e)
    BY <1>1, <1>4, <1>5, <1>7
  <2>2. Append(Part(list, a, b), e) # NONE
    <3>1. Part(list, a, b) \in Seq(ProgressEntry)
      BY PartType
    <3>2. Append(Part(list, a, b), e) \in Seq(ProgressEntry)
      BY <3>1
    <3> QED
      BY <3>2, NoneAssumption
  <2>3. Part(longer, a, b) = Append(Part(list, a, b), e)
    BY <1>5, <1>6, <1>7
  <2> QED
    BY <1>5, <2>1, <2>2, <2>3
<1>8. CASE k # q
  <2>1. new[k] = pages[k] /\ Part(longer, a, b) = Part(list, a, b)
    BY <1>4, <1>5, <1>6, <1>8
  <2>2. IF pages[k] = NONE THEN early \/ n <= a ELSE pages[k] = Part(list, a, b)
    BY <1>1, <1>5 DEF PagesHold
  <2>3. n <= a => n + 1 <= a
    <3>1. CASE n < a
      BY <3>1, <1>5
    <3>2. CASE n = a
      <4>1. ~(n < b)
        BY <1>5, <1>8, <3>2
      <4>2. b > a
        BY <1>5, <1>8 DEF PageNo
      <4> QED
        BY <3>2, <4>1, <4>2
    <3> QED
      BY <3>1, <3>2
  <2> QED
    BY <1>3, <1>5, <2>1, <2>2, <2>3
<1> QED
  BY <1>7, <1>8

\* The frontier an append folds onto, in terms of the keys after its entry and
\* its page have been written.
Folded(n, frontier, pages, entries, vec) ==
  IF frontier # NONE THEN frontier
  ELSE IF n = 0 THEN << >>
  ELSE BuildFrontier(ReadHistoryPages(n + 1, pages, entries, vec), n)

\* It covers the entries before this one, also when it is rebuilt from a
\* history that already holds it.
LEMMA FoldedCovers ==
  ASSUME NEW n \in Nat, n + 1 \in Index, NEW list \in Seq(ProgressEntry), Len(list) = n,
         NEW e \in ProgressEntry, NEW frontier,
         frontier # NONE => Covering(frontier, n, LeafHashes(list)),
         NEW pages, PagesAre(pages, Append(list, e)),
         NEW entries, Holds(entries, Append(list, e), n + 1), NEW vec
  PROVE  Covering(Folded(n, frontier, pages, entries, vec), n, LeafHashes(list))
<1>1. CASE frontier # NONE
  BY <1>1 DEF Folded
<1>2. CASE frontier = NONE /\ n = 0
  BY <1>2, NothingCovered DEF Folded
<1>3. CASE frontier = NONE /\ n # 0
  <2>1. PICK longer \in Seq(ProgressEntry) :
          /\ longer = Append(list, e) /\ Len(longer) = n + 1
          /\ \A i \in 1..n : longer[i] = list[i]
    <3>1. Append(list, e) \in Seq(ProgressEntry) /\ Len(Append(list, e)) = Len(list) + 1
      OBVIOUS
    <3>2. \A i \in 1..Len(list) : Append(list, e)[i] = list[i]
      OBVIOUS
    <3> QED
      BY <3>1, <3>2
  <2>2. PICK m \in Index : m = n + 1
    OBVIOUS
  <2>3. ReadHistoryPages(m, pages, entries, vec) = longer
    <3>1. Holds(entries, longer, m) /\ PagesAre(pages, longer) /\ Len(longer) = m
      BY <2>1, <2>2, Zenon
    <3>2. NONE \notin ProgressEntry
      BY NoneAssumption
    <3>3. \A l \in Seq(ProgressEntry) :
            Len(l) = m /\ Holds(entries, l, m) /\ PagesAre(pages, l)
              => ReadHistoryPages(m, pages, entries, vec) = l
      BY <3>2, HistoryReads
    <3> QED
      BY <3>1, <3>3, Zenon
  <2>4. Folded(n, frontier, pages, entries, vec) = BuildFrontier(longer, n)
    BY <1>3, <2>2, <2>3, Zenon DEF Folded
  <2>5. Covering(BuildFrontier(longer, n), n, LeafHashes(longer))
    <3>1. n <= Len(longer)
      BY <2>1
    <3> QED
      BY <3>1, BuildCovers
  <2>6. PICK v, w : v = LeafHashes(longer) /\ w = LeafHashes(list)
    OBVIOUS
  <2>7. /\ Len(v) = n + 1 /\ Len(w) = n
        /\ \A i \in 1..(n + 1) : v[i] = LeafHash(longer[i])
        /\ \A i \in 1..n : w[i] = LeafHash(list[i])
    BY <2>1, <2>6, LeafHashesAre
  <2>8. \A i \in 1..n : v[i] = w[i]
    BY <2>1, <2>7
  <2>9. Covering(BuildFrontier(longer, n), n, w)
    <3>1. Len(v) \in Nat /\ Len(w) \in Nat /\ n <= Len(v) /\ n <= Len(w)
      BY <2>7
    <3> QED
      BY <2>5, <2>6, <2>8, <3>1, CoversSame
  <2> QED
    BY <2>4, <2>6, <2>9
<1> QED
  BY <1>1, <1>2, <1>3

\* An append keeps the history whole, and so does a replay for a player whose
\* history does not predate paging.
LEMMA AppendWhole ==
  ASSUME NEW n \in 0..U32_MAX, n + 1 \in Index,
         NEW entries \in [Index -> ProgressEntry \cup {NONE}], Filled(entries, n),
         NEW pages, DOMAIN pages = PageNo, NEW frontier, NEW root, NEW early \in BOOLEAN,
         Whole(n, entries, pages, frontier, root, early),
         NEW e \in ProgressEntry, NEW vec, NEW q, q = HistoryPageIndex(n + 1),
         NEW prior, Found(prior, n, pages, entries, q, early),
         NEW newEntries, Puts(newEntries, entries, n + 1, e),
         NEW newPages, Puts(newPages, pages, q, Append(prior, e)),
         NEW newFrontier,
         newFrontier = FrontierAppend(Folded(n, frontier, newPages, newEntries, vec), LeafHash(e))
  PROVE  /\ Filled(newEntries, n + 1)
         /\ Whole(n + 1, newEntries, newPages, newFrontier, FrontierRoot(newFrontier), early)
<1>1. PICK list \in Seq(ProgressEntry) : list = Listed(entries, n) /\ Len(list) = n
  BY ListedIs
<1>2. n \in Nat
  BY SizesAssumption
<1>3. PICK longer \in Seq(ProgressEntry) : longer = Append(list, e) /\ Len(longer) = n + 1
  <2>1. Append(list, e) \in Seq(ProgressEntry) /\ Len(Append(list, e)) = Len(list) + 1
    OBVIOUS
  <2> QED
    BY <1>1, <2>1
<1>4. /\ newEntries \in [Index -> ProgressEntry \cup {NONE}]
      /\ Filled(newEntries, n + 1) /\ Listed(newEntries, n + 1) = longer
  <2>1. /\ newEntries \in [Index -> ProgressEntry \cup {NONE}]
        /\ Filled(newEntries, n + 1)
        /\ Listed(newEntries, n + 1) = Append(Listed(entries, n), e)
    BY ListedAppend
  <2> QED
    BY <1>1, <1>3, <2>1, Zenon
<1>5. PagesHold(pages, list, early)
  BY <1>1 DEF Whole
<1>6. prior = Part(list, q * HISTORY_PAGE_SIZE, (q + 1) * HISTORY_PAGE_SIZE)
  <2>1. \A l : l = Listed(entries, n) /\ PagesHold(pages, l, early)
          => prior = Part(l, q * HISTORY_PAGE_SIZE, (q + 1) * HISTORY_PAGE_SIZE)
    BY PriorPage
  <2> QED
    BY <1>1, <1>5, <2>1, Zenon
<1>7. PagesHold(newPages, longer, early)
  <2>1. PagesHold([pages EXCEPT ![q] = Append(prior, e)], Append(list, e), early)
    BY <1>1, <1>2, <1>5, <1>6, PagesAppend
  <2> QED
    BY <1>3, <2>1, Zenon DEF Puts
<1>8. Holds(newEntries, longer, n + 1)
  <2>1. PICK m \in 0..U32_MAX : m = n + 1
    BY SizesAssumption DEF Index
  <2>2. Holds(newEntries, Listed(newEntries, m), m)
    BY <1>4, <2>1, ListedIs
  <2> QED
    BY <1>4, <2>1, <2>2, Zenon
<1>9. Covering(Folded(n, frontier, newPages, newEntries, vec), n, LeafHashes(list))
  <2>1. frontier # NONE => Covering(frontier, n, LeafHashes(list))
    BY <1>1 DEF Whole
  <2>2. PagesAre(newPages, longer)
    BY <1>7, PagesHoldAre
  <2> QED
    BY <1>1, <1>2, <1>3, <1>8, <2>1, <2>2, FoldedCovers
<1>10. Covering(newFrontier, n + 1, LeafHashes(longer))
  <2>1. PICK folded : folded = Folded(n, frontier, newPages, newEntries, vec)
    OBVIOUS
  <2>2. Covering(FrontierAppend(folded, LeafHash(e)), Len(longer), LeafHashes(longer))
    BY <1>1, <1>3, <1>9, <2>1, EntryCovered
  <2> QED
    BY <1>3, <2>1, <2>2, Zenon
<1>11. FrontierRoot(newFrontier) = MthRange(LeafHashes(longer), 0, n + 1)
  <2>1. PICK v : v = LeafHashes(longer) /\ Len(v) = n + 1
    BY <1>3, LeafHashesAre
  <2>2. PICK m \in Nat \ {0} : m = n + 1
    BY <1>2
  <2>3. FrontierRoot(newFrontier) = MthRange(v, 0, m)
    BY <1>10, <2>1, <2>2, CoveringRoot
  <2> QED
    BY <2>1, <2>2, <2>3, Zenon
<1> QED
  BY <1>4, <1>7, <1>10, <1>11 DEF Whole

\* The players whose history the getters give back whole: not those of whom an
\* erasure has been started, nor those who began before paging and had entries
\* replayed (admin_seed_history starts a missing page empty).
Kept == Players \ (erased \cup (legacy \cap seeded))

WholeFor(p) ==
  Whole(historyCounter[p], historyEntry[p], historyPage[p], historyFrontier[p],
        historyRoot[p], p \in legacy)

HistoryInv ==
  /\ \A p \in Players \ erased : Filled(historyEntry[p], historyCounter[p])
  /\ \A p \in Kept : WholeFor(p)

\* The keys of one player an append writes, and those it leaves alone.
LEMMA AppendWrites ==
  ASSUME TypeOK, NEW p \in Players, NEW e \in ProgressEntry, NEW prior,
         historyCounter[p] < U32_MAX, AppendToHistory(p, e, prior),
         NEW n, n = historyCounter[p], NEW q, q = HistoryPageIndex(n + 1)
  PROVE  /\ n \in 0..U32_MAX /\ n + 1 \in Index /\ historyCounter'[p] = n + 1
         /\ historyEntry'[p] = [historyEntry[p] EXCEPT ![n + 1] = e]
         /\ historyPage'[p] = [historyPage[p] EXCEPT ![q] = Append(prior, e)]
         /\ historyFrontier'[p]
              = FrontierAppend(Folded(n, historyFrontier[p], historyPage'[p], historyEntry'[p],
                                      historyVec[p]), LeafHash(e))
         /\ historyRoot'[p] = FrontierRoot(historyFrontier'[p])
         /\ \A r \in Players \ {p} :
              /\ historyCounter'[r] = historyCounter[r] /\ historyEntry'[r] = historyEntry[r]
              /\ historyPage'[r] = historyPage[r] /\ historyFrontier'[r] = historyFrontier[r]
              /\ historyRoot'[r] = historyRoot[r]
<1>1. n \in 0..U32_MAX /\ n + 1 \in Index /\ n + 1 - 1 = n
  BY SizesAssumption DEF TypeOK, Index
<1>2. /\ historyCounter' = [historyCounter EXCEPT ![p] = historyCounter[p] + 1]
      /\ historyEntry' = [historyEntry EXCEPT ![p][historyCounter[p] + 1] = e]
      /\ historyPage' = [historyPage EXCEPT ![p][HistoryPageIndex(historyCounter[p] + 1)] =
                           Append(prior, e)]
      /\ historyFrontier' = [historyFrontier EXCEPT ![p] =
           FrontierAppend(LoadOrBuildFrontier(p, (historyCounter[p] + 1) - 1, historyPage'[p],
                                              historyEntry'[p]), LeafHash(e))]
      /\ historyRoot' = [historyRoot EXCEPT ![p] = FrontierRoot(historyFrontier'[p])]
  BY DEF AppendToHistory
<1>3. LoadOrBuildFrontier(p, n, historyPage'[p], historyEntry'[p])
        = Folded(n, historyFrontier[p], historyPage'[p], historyEntry'[p], historyVec[p])
  BY DEF LoadOrBuildFrontier, Folded
<1>4. historyCounter[p] + 1 = n + 1 /\ (historyCounter[p] + 1) - 1 = n
  BY <1>1
<1>5. /\ historyCounter'[p] = n + 1
      /\ historyEntry'[p] = [historyEntry[p] EXCEPT ![n + 1] = e]
      /\ historyPage'[p] = [historyPage[p] EXCEPT ![q] = Append(prior, e)]
      /\ historyFrontier'[p]
           = FrontierAppend(LoadOrBuildFrontier(p, n, historyPage'[p], historyEntry'[p]), LeafHash(e))
      /\ historyRoot'[p] = FrontierRoot(historyFrontier'[p])
  BY <1>2, <1>4 DEF TypeOK
<1>6. \A r \in Players \ {p} :
        /\ historyCounter'[r] = historyCounter[r] /\ historyEntry'[r] = historyEntry[r]
        /\ historyPage'[r] = historyPage[r] /\ historyFrontier'[r] = historyFrontier[r]
        /\ historyRoot'[r] = historyRoot[r]
  BY <1>2 DEF TypeOK
<1> QED
  BY <1>1, <1>3, <1>5, <1>6

LEMMA HistoryInit == Init => HistoryInv
<1> SUFFICES ASSUME Init PROVE HistoryInv
  OBVIOUS
<1>1. ASSUME NEW p \in Players PROVE Filled(historyEntry[p], historyCounter[p])
  <2>1. seeded = {} /\ erased = {}
    BY DEF Init
  <2>2. Explained(p)
    BY <2>1, ExplainedInit, ExplainedIff
  <2> QED
    BY <2>2 DEF Explained, Contiguous, Filled
<1>2. ASSUME NEW p \in Players, historyCounter[p] = 0
      PROVE  WholeFor(p)
  <2>1. historyFrontier[p] = NONE /\ \A q \in PageNo : historyPage[p][q] = NONE
    BY DEF Init
  <2>2. PICK list : list = Listed(historyEntry[p], 0)
    OBVIOUS
  <2>3. Len(list) = 0
    <3>1. list \in [1..0 -> {}]
      BY <2>2 DEF Listed
    <3> QED
      BY <3>1, FunctionIsList
  <2>4. ASSUME NEW q \in PageNo PROVE 0 <= q * HISTORY_PAGE_SIZE
    <3>1. q \in Nat /\ HISTORY_PAGE_SIZE \in Nat
      BY SizesAssumption DEF PageNo
    <3> QED
      BY <3>1
  <2>5. PagesHold(historyPage[p], list, p \in legacy)
    BY <2>1, <2>3, <2>4 DEF PagesHold
  <2> QED
    BY <1>2, <2>1, <2>2, <2>5 DEF WholeFor, Whole
<1>3. CASE InitFresh
  <2>1. \A p \in Players : historyCounter[p] = 0
    BY <1>3 DEF InitFresh
  <2> QED
    BY <1>1, <1>2, <2>1 DEF HistoryInv, Kept
<1>4. CASE InitUpgraded
  <2>1. PICK levels \in [Players -> LegacyLevels] :
          /\ historyCounter = [r \in Players |-> Len(levels[r])]
          /\ historyEntry = [r \in Players |-> [j \in Index |->
               IF j <= Len(levels[r])
               THEN [t \in Players |-> LegacyHistory(t, levels[t])][r][j] ELSE NONE]]
          /\ historyRoot = [r \in Players |->
               IF r \in {t \in Players : levels[t] # <<>>}
               THEN MthRange(LeafHashes([t \in Players |-> LegacyHistory(t, levels[t])][r]), 0,
                             Len([t \in Players |-> LegacyHistory(t, levels[t])][r])) ELSE NONE]
          /\ legacy = {t \in Players : levels[t] # <<>>}
    BY <1>4 DEF InitUpgraded
  <2>2. ASSUME NEW p \in Players, historyCounter[p] # 0
        PROVE  WholeFor(p)
    <3>1. PICK l \in Seq(Level), n \in Nat \ {0} :
            l = levels[p] /\ n = Len(l) /\ n <= U32_MAX /\ n = historyCounter[p]
      <4>1. levels[p] \in Seq(Level) /\ Len(levels[p]) <= U32_MAX
        BY LegacyAssumption
      <4> QED
        BY <2>1, <2>2, <4>1
    <3>2. p \in legacy /\ l # << >>
      BY <2>1, <3>1
    <3>3. PICK h : h = LegacyHistory(p, l)
      OBVIOUS
    <3>4. h = [i \in 1..n |-> h[i]]
      <4>1. DOMAIN l = 1..n
        BY <3>1, LenProperties
      <4> QED
        BY <3>3, <4>1 DEF LegacyHistory
    <3>5. \A i \in 1..n : historyEntry[p][i] = h[i]
      <4>1. \A i \in 1..n : i \in Index /\ i <= Len(levels[p])
        BY <3>1, SizesAssumption DEF Index
      <4> QED
        BY <2>1, <3>1, <3>3, <4>1
    <3>6. Listed(historyEntry[p], n) = h
      BY <3>4, <3>5 DEF Listed
    <3>7. historyRoot[p] = MthRange(LeafHashes(h), 0, Len(h))
      BY <2>1, <3>1, <3>2, <3>3
    <3>8. Len(h) = n
      BY <3>4
    <3>9. historyFrontier[p] = NONE /\ \A q \in PageNo : historyPage[p][q] = NONE
      BY DEF Init
    <3>10. PagesHold(historyPage[p], h, p \in legacy)
      BY <3>2, <3>9 DEF PagesHold
    <3> QED
      BY <3>1, <3>6, <3>7, <3>8, <3>9, <3>10 DEF WholeFor, Whole
  <2> QED
    BY <1>1, <1>2, <2>2 DEF HistoryInv, Kept
<1> QED
  BY <1>3, <1>4 DEF Init

\* A live append to a player's history, and a replayed entry.
LiveAppend(p) ==
  \E e \in ProgressEntry :
    /\ historyCounter[p] < U32_MAX /\ e.updated_at = now
    /\ AppendToHistory(p, e, PageOrStored(p))

ReplayAppend(p) ==
  \E e \in SeedEntries :
    /\ historyCounter[p] < U32_MAX
    /\ historyCounter[p] > 0
         => e.updated_at >= historyEntry[p][historyCounter[p]].updated_at
    /\ AppendToHistory(p, e, OrElse(historyPage[p][HistoryPageIndex(historyCounter[p] + 1)], <<>>))

keptVars == <<historyCounter, historyEntry, historyPage, historyFrontier, historyRoot>>

\* What a step does to the histories and to who is counted as kept.
LEMMA RecordSteps ==
  ASSUME TypeOK, [Next]_vars
  PROVE  /\ legacy' = legacy
         /\ \/ UNCHANGED <<keptVars, seeded, erased>>
            \/ /\ \E p \in Players : LiveAppend(p)
               /\ UNCHANGED <<seeded, erased, now>>
            \/ \E p \in Players : /\ ReplayAppend(p)
                                  /\ \E e \in SeedEntries : AdminSeedHistory(p, e)
                                  /\ seeded' = seeded \cup {p} /\ UNCHANGED <<erased, now>>
            \/ \E p \in Players :
                 /\ \A r \in Players \ {p} :
                      /\ historyCounter'[r] = historyCounter[r]
                      /\ historyEntry'[r] = historyEntry[r]
                      /\ historyPage'[r] = historyPage[r]
                      /\ historyFrontier'[r] = historyFrontier[r]
                      /\ historyRoot'[r] = historyRoot[r]
                 /\ seeded' = seeded /\ erased' = erased \cup {p} /\ now' = now
<1>1. CASE AdminStep
  BY <1>1, AdminStepFrame DEF playerVars, recordVars, ghostVars, erasureVars, keptVars
<1>2. CASE PeerStep
  BY <1>2, PeerStepFrame DEF recordVars, ghostVars, erasureVars, keptVars
<1>3. CASE LevelStep
  <2>1. PICK p \in Players, new \in Level, by \in Admins \cup Validators \cup Scouts,
             ref \in Nat : ChangeLevel(p, new, by, ref)
    BY <1>3, LevelSteps DEF LevelStep
  <2>2. UNCHANGED <<legacy, seeded, erased, now>>
    BY <2>1 DEF ChangeLevel, ghostVars, erasureVars
  <2>3. LiveAppend(p)
    <3>1. PICK e : e = [player_id |-> p, old_level |-> CurrentLevel(p), new_level |-> new,
                        updated_by |-> by, updated_at |-> now, milestone_ref |-> ref]
      OBVIOUS
    <3>2. e \in ProgressEntry /\ e.updated_at = now
      BY <3>1, CurrentLevelType DEF ProgressEntry, TypeOK
    <3>3. historyCounter[p] < U32_MAX /\ AppendToHistory(p, e, PageOrStored(p))
      BY <2>1, <3>1, Zenon DEF ChangeLevel, RecordProgressEntry
    <3> QED
      BY <3>2, <3>3 DEF LiveAppend
  <2> QED
    BY <2>2, <2>3
<1>4. CASE MigrateStep
  BY <1>4 DEF MigrateStep, Migrate, recordVars, ghostVars, erasureVars, keptVars
<1>5. CASE SeedStep
  <2>1. PICK p \in Players, e \in SeedEntries : AdminSeedHistory(p, e)
    BY <1>5 DEF SeedStep
  <2>2. seeded' = seeded \cup {p} /\ UNCHANGED <<legacy, erased, now>>
    BY <2>1, SeedEffect
  <2>3. historyCounter[p] > 0 => e.updated_at >= historyEntry[p][historyCounter[p]].updated_at
    <3>1. historyCounter[p] \in Nat
      BY SizesAssumption DEF TypeOK
    <3> QED
      BY <2>1, <3>1 DEF AdminSeedHistory
  <2>4. /\ historyCounter[p] < U32_MAX
        /\ AppendToHistory(p, e,
             OrElse(historyPage[p][HistoryPageIndex(historyCounter[p] + 1)], <<>>))
    BY <2>1, Zenon DEF AdminSeedHistory
  <2> QED
    BY <2>1, <2>2, <2>3, <2>4 DEF ReplayAppend
<1>6. CASE ImportStep
  BY <1>6 DEF ImportStep, AdminSeedPlayer, recordVars, erasureVars, keptVars
<1>7. CASE PurgeStep
  <2>1. PICK p \in Players, cursor \in 0..(U32_MAX - 1) : PurgePlayerData(p, cursor)
    BY <1>7 DEF PurgeStep
  <2>2. /\ seeded' = seeded /\ legacy' = legacy /\ erased' = erased \cup {p} /\ now' = now
        /\ historyFrontier' = historyFrontier
    BY <2>1 DEF PurgePlayerData
  <2>3. \A r \in Players \ {p} :
          /\ historyCounter'[r] = historyCounter[r] /\ historyEntry'[r] = historyEntry[r]
          /\ historyPage'[r] = historyPage[r] /\ historyRoot'[r] = historyRoot[r]
    BY <2>1 DEF PurgePlayerData, TypeOK
  <2> QED
    BY <2>2, <2>3
<1>8. CASE UNCHANGED vars
  BY <1>8 DEF vars, recordVars, ghostVars, erasureVars, keptVars
<1> QED
  BY <1>1, <1>2, <1>3, <1>4, <1>5, <1>6, <1>7, <1>8, StepCases

\* An append to one history leaves it filled, and whole if it was.
LEMMA AppendInv ==
  ASSUME TypeOK, NEW p \in Players, Filled(historyEntry[p], historyCounter[p]),
         NEW e \in ProgressEntry, NEW prior, historyCounter[p] < U32_MAX,
         AppendToHistory(p, e, prior), legacy' = legacy
  PROVE  /\ Filled(historyEntry'[p], historyCounter'[p])
         /\ Found(prior, historyCounter[p], historyPage[p], historyEntry[p],
                  HistoryPageIndex(historyCounter[p] + 1), p \in legacy) /\ WholeFor(p)
              => WholeFor(p)'
<1>1. PICK n \in 0..U32_MAX : n = historyCounter[p] /\ n + 1 \in Index
  BY AppendWrites
<1>2. PICK q : q = HistoryPageIndex(n + 1)
  OBVIOUS
<1>3. PICK entries, pages, frontier, root, newEntries, newPages, newFrontier, newRoot, vec :
        /\ entries = historyEntry[p] /\ pages = historyPage[p]
        /\ frontier = historyFrontier[p] /\ root = historyRoot[p] /\ vec = historyVec[p]
        /\ newEntries = historyEntry'[p] /\ newPages = historyPage'[p]
        /\ newFrontier = historyFrontier'[p] /\ newRoot = historyRoot'[p]
  OBVIOUS
<1>4. /\ historyCounter'[p] = n + 1
      /\ Puts(newEntries, entries, n + 1, e)
      /\ Puts(newPages, pages, q, Append(prior, e))
      /\ newFrontier
           = FrontierAppend(Folded(n, frontier, newPages, newEntries, vec), LeafHash(e))
      /\ newRoot = FrontierRoot(newFrontier)
  <2>1. /\ historyCounter'[p] = n + 1
        /\ historyEntry'[p] = [historyEntry[p] EXCEPT ![n + 1] = e]
        /\ historyPage'[p] = [historyPage[p] EXCEPT ![q] = Append(prior, e)]
        /\ historyFrontier'[p]
             = FrontierAppend(Folded(n, historyFrontier[p], historyPage'[p], historyEntry'[p],
                                     historyVec[p]), LeafHash(e))
        /\ historyRoot'[p] = FrontierRoot(historyFrontier'[p])
    BY <1>1, <1>2, AppendWrites
  <2> QED
    BY <1>3, <2>1, Zenon DEF Puts
<1>5. entries \in [Index -> ProgressEntry \cup {NONE}] /\ DOMAIN pages = PageNo
  BY <1>3 DEF TypeOK
<1>6. Filled(entries, n)
  BY <1>1, <1>3
<1>7. Filled(newEntries, n + 1)
  BY <1>1, <1>4, <1>5, <1>6, ListedAppend
<1>8. PICK early \in BOOLEAN : early = (p \in legacy)
  <2>1. (p \in legacy) \in BOOLEAN
    BY SMT
  <2>2. \A b : b \in BOOLEAN /\ b = (p \in legacy) => \E c \in BOOLEAN : c = (p \in legacy)
    BY Zenon
  <2> QED
    BY <2>1, <2>2, Zenon
<1>9. ASSUME Found(prior, n, pages, entries, q, early),
             Whole(n, entries, pages, frontier, root, early)
      PROVE  Whole(n + 1, newEntries, newPages, newFrontier, newRoot, early)
  BY <1>1, <1>2, <1>4, <1>5, <1>6, <1>9, AppendWhole
<1>10. WholeFor(p) <=> Whole(n, entries, pages, frontier, root, early)
  BY <1>1, <1>3, <1>8, Zenon DEF WholeFor
<1>11. WholeFor(p)' <=> Whole(n + 1, newEntries, newPages, newFrontier, newRoot, early)
  BY <1>3, <1>4, <1>8, Zenon DEF WholeFor
<1> QED
  BY <1>1, <1>2, <1>3, <1>4, <1>7, <1>8, <1>9, <1>10, <1>11, Zenon

ArePages(pages, list, c, n) == \A i \in 1..n : pages[i] = Part(list, (i - 1) * c, (i - 1) * c + c)

LEMMA PagesOfAreJoined ==
  ASSUME NEW S, NEW list \in Seq(S), NEW c \in Nat \ {0}, NEW n \in Nat, Len(list) <= n,
         NEW pages \in [1..n -> Seq(S)], ArePages(pages, list, c, n)
  PROVE  FlattenSeq(pages) = list
<1>1. \A i \in 1..n : pages[i] = Part(list, (i - 1) * c, (i - 1) * c + c)
  BY Zenon DEF ArePages
<1> QED
  BY <1>1, PagesJoin

LEMMA HistoryNext == ASSUME TypeOK, HistoryInv, [Next]_vars PROVE HistoryInv'
<1>1. legacy' = legacy
  BY RecordSteps
<1>2. ASSUME NEW r \in Players,
             /\ historyCounter'[r] = historyCounter[r] /\ historyEntry'[r] = historyEntry[r]
             /\ historyPage'[r] = historyPage[r] /\ historyFrontier'[r] = historyFrontier[r]
             /\ historyRoot'[r] = historyRoot[r]
      PROVE  /\ Filled(historyEntry[r], historyCounter[r])
                  => Filled(historyEntry'[r], historyCounter'[r])
             /\ WholeFor(r) => WholeFor(r)'
  BY <1>1, <1>2 DEF WholeFor
<1>3. CASE UNCHANGED <<keptVars, seeded, erased>>
  BY <1>1, <1>3 DEF HistoryInv, Kept, WholeFor, keptVars
<1>4. CASE /\ \E p \in Players : LiveAppend(p)
           /\ UNCHANGED <<seeded, erased, now>>
  <2>1. PICK p \in Players, e \in ProgressEntry :
          historyCounter[p] < U32_MAX /\ AppendToHistory(p, e, PageOrStored(p))
    BY <1>4 DEF LiveAppend
  <2>2. ASSUME NEW r \in Players \ {p}
        PROVE  /\ Filled(historyEntry[r], historyCounter[r])
                    => Filled(historyEntry'[r], historyCounter'[r])
               /\ WholeFor(r) => WholeFor(r)'
    BY <1>2, <2>1, AppendWrites
  <2>3. ASSUME p \notin erased
        PROVE  /\ Filled(historyEntry'[p], historyCounter'[p])
               /\ WholeFor(p) => WholeFor(p)'
    <3>1. Filled(historyEntry[p], historyCounter[p])
      BY <2>3 DEF HistoryInv
    <3>2. Found(PageOrStored(p), historyCounter[p], historyPage[p], historyEntry[p],
                HistoryPageIndex(historyCounter[p] + 1), p \in legacy)
      <4>1. (historyCounter[p] + 1) - 1 = historyCounter[p]
        BY SizesAssumption DEF TypeOK
      <4> QED
        BY <4>1, Zenon DEF Found, PageOrStored
    <3> QED
      BY <1>1, <2>1, <3>1, <3>2, AppendInv
  <2> QED
    BY <1>1, <1>4, <2>2, <2>3 DEF HistoryInv, Kept
<1>5. CASE \E p \in Players : ReplayAppend(p) /\ seeded' = seeded \cup {p} /\ erased' = erased
  <2>1. PICK p \in Players, e \in SeedEntries :
          /\ historyCounter[p] < U32_MAX
          /\ AppendToHistory(p, e,
               OrElse(historyPage[p][HistoryPageIndex(historyCounter[p] + 1)], <<>>))
          /\ seeded' = seeded \cup {p} /\ erased' = erased
    BY <1>5 DEF ReplayAppend
  <2>2. e \in ProgressEntry
    BY InputAssumption
  <2>3. ASSUME NEW r \in Players \ {p}
        PROVE  /\ Filled(historyEntry[r], historyCounter[r])
                    => Filled(historyEntry'[r], historyCounter'[r])
               /\ WholeFor(r) => WholeFor(r)'
    BY <1>2, <2>1, <2>2, AppendWrites
  <2>4. ASSUME p \notin erased
        PROVE  /\ Filled(historyEntry'[p], historyCounter'[p])
               /\ p \notin legacy /\ WholeFor(p) => WholeFor(p)'
    <3>1. Filled(historyEntry[p], historyCounter[p])
      BY <2>4 DEF HistoryInv
    <3>2. p \notin legacy =>
            Found(OrElse(historyPage[p][HistoryPageIndex(historyCounter[p] + 1)], <<>>),
                  historyCounter[p], historyPage[p], historyEntry[p],
                  HistoryPageIndex(historyCounter[p] + 1), p \in legacy)
      BY Zenon DEF Found
    <3> QED
      BY <1>1, <2>1, <2>2, <3>1, <3>2, AppendInv
  <2> QED
    BY <1>1, <2>1, <2>3, <2>4 DEF HistoryInv, Kept
<1>6. CASE \E p \in Players :
             /\ \A r \in Players \ {p} :
                  /\ historyCounter'[r] = historyCounter[r] /\ historyEntry'[r] = historyEntry[r]
                  /\ historyPage'[r] = historyPage[r] /\ historyFrontier'[r] = historyFrontier[r]
                  /\ historyRoot'[r] = historyRoot[r]
             /\ seeded' = seeded /\ erased' = erased \cup {p}
  BY <1>1, <1>2, <1>6 DEF HistoryInv, Kept
<1> QED
  BY <1>3, <1>4, <1>5, <1>6, RecordSteps

LEMMA HistoryAlways == Spec => [](TypeOK /\ HistoryInv)
<1>1. TypeOK /\ HistoryInv /\ [Next]_vars => HistoryInv'
  BY HistoryNext
<1> QED
  BY <1>1, HistoryInit, TypeCorrect, PTL DEF Spec

\* What the invariant says of one kept player.
LEMMA KeptHistory ==
  ASSUME TypeOK, HistoryInv, NEW p \in Players \ erased
  PROVE  /\ historyCounter[p] \in 0..U32_MAX
         /\ Entries(p) \in Seq(ProgressEntry) /\ Len(Entries(p)) = historyCounter[p]
         /\ Holds(historyEntry[p], Entries(p), historyCounter[p])
         /\ p \in Kept => PagesAre(historyPage[p], Entries(p))
         /\ p \in Kept /\ historyCounter[p] > 0
              => historyRoot[p] = MthRange(LeafHashes(Entries(p)), 0, historyCounter[p])
<1>1. PICK n \in 0..U32_MAX : n = historyCounter[p]
  BY DEF TypeOK
<1>2. PICK entries : entries = historyEntry[p]
  OBVIOUS
<1>3. entries \in [Index -> ProgressEntry \cup {NONE}]
  BY <1>2 DEF TypeOK
<1>4. Filled(entries, n)
  BY <1>1, <1>2 DEF HistoryInv
<1>5. Entries(p) = Listed(entries, n)
  BY <1>1, <1>2, Zenon DEF Entries, Listed
<1>6. /\ Listed(entries, n) \in Seq(ProgressEntry) /\ Len(Listed(entries, n)) = n
      /\ Holds(entries, Listed(entries, n), n)
  BY <1>3, <1>4, ListedIs
<1>7. ASSUME p \in Kept
      PROVE  /\ PagesAre(historyPage[p], Listed(entries, n))
             /\ n > 0 => historyRoot[p] = MthRange(LeafHashes(Listed(entries, n)), 0, n)
  <2>1. Whole(n, entries, historyPage[p], historyFrontier[p], historyRoot[p], p \in legacy)
    BY <1>1, <1>2, <1>7, Zenon DEF HistoryInv, WholeFor
  <2> QED
    BY <2>1, PagesHoldAre DEF Whole
<1> QED
  BY <1>1, <1>2, <1>5, <1>6, <1>7

LEMMA HistoryIsEntries ==
  ASSUME TypeOK, HistoryInv, NEW p \in Kept, historyCounter[p] > 0
  PROVE  ProgressHistory(p) = Entries(p)
<1>1. p \in Players \ erased
  BY DEF Kept
<1>2. PICK list \in Seq(ProgressEntry), n \in Index :
        /\ list = Entries(p) /\ n = historyCounter[p] /\ Len(list) = n
        /\ Holds(historyEntry[p], list, n) /\ PagesAre(historyPage[p], list)
  BY <1>1, KeptHistory, SizesAssumption DEF Index
<1>3. NONE \notin ProgressEntry
  BY NoneAssumption
<1>4. ReadHistoryPages(n, historyPage[p], historyEntry[p], historyVec[p]) = list
  BY <1>2, <1>3, HistoryReads
<1> QED
  BY <1>2, <1>4, Zenon DEF ProgressHistory

\* The root a client gets from get_progress_root commits to exactly the history
\* get_progress_history returns.
THEOREM RootCommits == Spec => []RootCommitsToHistory
<1>1. ASSUME TypeOK, HistoryInv PROVE RootCommitsToHistory
  <2> SUFFICES ASSUME NEW p \in Kept, historyCounter[p] > 0
               PROVE  historyRoot[p] = MthRange(LeafHashes(ProgressHistory(p)), 0,
                                                Len(ProgressHistory(p)))
    BY DEF RootCommitsToHistory, CommitsToHistory, Kept
  <2>1. p \in Players \ erased
    BY DEF Kept
  <2>2. ProgressHistory(p) = Entries(p)
    BY <1>1, HistoryIsEntries
  <2>3. /\ Len(Entries(p)) = historyCounter[p]
        /\ historyRoot[p] = MthRange(LeafHashes(Entries(p)), 0, historyCounter[p])
    BY <1>1, <2>1, KeptHistory
  <2> QED
    BY <2>2, <2>3, Zenon
<1> QED
  BY <1>1, HistoryAlways, PTL

\* Reading page by page, by offset or as a whole gives the entries 1..count.
THEOREM PagesReadBack == Spec => []PagesReadBackEntries
<1>1. ASSUME TypeOK, HistoryInv, NEW p \in Kept, historyCounter[p] > 0,
             NEW limit \in 0..(MAX_PAGE + 1)
      PROVE  Entries(p) = FlattenSeq([k \in 1..historyCounter[p] |->
               GetProgressHistoryPage(p, (k - 1) * Clamp(limit), limit)])
  <2>1. p \in Players \ erased
    BY <1>1 DEF Kept
  <2>2. PICK list \in Seq(ProgressEntry), n \in Nat, entries \in {historyEntry[p]} :
          /\ list = Entries(p) /\ n = historyCounter[p] /\ Len(list) = n
          /\ entries = historyEntry[p] /\ Holds(entries, list, n)
    BY <1>1, <2>1, KeptHistory, SizesAssumption
  <2>3. PICK c \in Nat \ {0} : c = Clamp(limit)
    BY SizesAssumption DEF Clamp, Least
  <2>4. NONE \notin ProgressEntry
    BY NoneAssumption
  <2>5. ASSUME NEW k \in 1..n
        PROVE  /\ GetProgressHistoryPage(p, (k - 1) * c, limit)
                    = Part(list, (k - 1) * c, (k - 1) * c + c)
               /\ Part(list, (k - 1) * c, (k - 1) * c + c) \in Seq(ProgressEntry)
    <3>1. PICK a \in Nat, b \in Nat : a = (k - 1) * c /\ b = a + c
      OBVIOUS
    <3>2. PICK d \in Nat : d = Least(b, n) /\ d <= n /\ PartEnd(list, d) = PartEnd(list, b)
      BY <2>2 DEF Least, PartEnd
    <3>3. StoredEntries(entries, a + 1, d) = Part(list, a, d)
      BY <2>2, <2>4, <3>2, StoredIsPart
    <3>4. Part(list, a, d) = Part(list, a, b)
      BY <3>2, Zenon DEF Part
    <3>5. GetProgressHistoryPage(p, a, limit) = StoredEntries(entries, a + 1, d)
      BY <2>2, <2>3, <3>1, <3>2, Zenon DEF GetProgressHistoryPage
    <3>6. Part(list, a, b) \in Seq(ProgressEntry)
      BY PartType
    <3> QED
      BY <3>1, <3>3, <3>4, <3>5, <3>6, Zenon
  <2>6. PICK pages : pages = [k \in 1..n |-> GetProgressHistoryPage(p, (k - 1) * c, limit)]
    OBVIOUS
  <2>7. /\ pages \in [1..n -> Seq(ProgressEntry)]
        /\ \A i \in 1..n : pages[i] = Part(list, (i - 1) * c, (i - 1) * c + c)
    BY <2>5, <2>6
  <2>8. FlattenSeq(pages) = list
    <3>1. Len(list) <= n
      BY <2>2
    <3>2. ArePages(pages, list, c, n)
      BY <2>7, Zenon DEF ArePages
    <3>3. \A f \in [1..n -> Seq(ProgressEntry)] : ArePages(f, list, c, n) => FlattenSeq(f) = list
      BY <2>2, <3>1, PagesOfAreJoined
    <3> QED
      BY <2>7, <3>2, <3>3, Zenon
  <2> QED
    BY <2>2, <2>3, <2>6, <2>8, Zenon
<1>2. ASSUME TypeOK, HistoryInv PROVE PagesReadBackEntries
  <2> SUFFICES ASSUME NEW p \in Kept, historyCounter[p] > 0
               PROVE  /\ ProgressHistory(p) = [i \in 1..historyCounter[p] |-> historyEntry[p][i]]
                      /\ \A limit \in 0..(MAX_PAGE + 1) :
                           Entries(p) = FlattenSeq([k \in 1..historyCounter[p] |->
                             GetProgressHistoryPage(p, (k - 1) * Clamp(limit), limit)])
    BY Zenon DEF PagesReadBackEntries, GetHistoryCount, GetHistoryEntry, Kept
  <2>1. ProgressHistory(p) = [i \in 1..historyCounter[p] |-> historyEntry[p][i]]
    BY <1>2, HistoryIsEntries, Zenon DEF Entries
  <2> QED
    BY <1>1, <1>2, <2>1
<1> QED
  BY <1>2, HistoryAlways, PTL

----
(***************************************************************************)
(* A client that pages through a history that grows.                        *)
(***************************************************************************)
\* A reader runs beside the contract and changes nothing of it.
LEMMA ReaderIsReading == ReaderSpec => Spec
<1>1. ReaderInit => Init
  BY DEF ReaderInit
<1>2. [ReaderNext]_<<vars, reader>> => [Next]_vars
  BY Zenon DEF ReaderNext, FirstPage, NextPage
<1> QED
  BY <1>1, <1>2, PTL DEF ReaderSpec, Spec

\* What a client that started when there were `started' entries holds: a part
\* of them from the first, and a cursor that stands after it.
HasRead(r, count, entries) ==
  /\ r.seen \in Seq(ProgressEntry) /\ Len(r.seen) <= r.started
  /\ r.started \in 0..count
  /\ \A i \in 1..Len(r.seen) : r.seen[i] = entries[i]
  /\ IF r.next = 0 THEN Len(r.seen) = r.started
     ELSE /\ r.next \in 1..r.started /\ Len(r.seen) = r.next - 1
          /\ r.snapshot = r.started

ReaderInv ==
  \/ reader = Idle
  \/ /\ DOMAIN reader = {"player", "started", "snapshot", "next", "seen"}
     /\ reader.player \in Players
     /\ reader.player \notin erased =>
          HasRead(reader, historyCounter[reader.player], historyEntry[reader.player])

\* The page from the entry next up to end of the first `started' entries.
Delivers(page, entries, next, end, started) ==
  /\ end \in next..started
  /\ page.entries \in Seq(ProgressEntry) /\ Len(page.entries) = end - (next - 1)
  /\ \A i \in 1..(end - (next - 1)) : page.entries[i] = entries[(next - 1) + i]
  /\ page.next = IF end >= started THEN 0 ELSE end + 1
  /\ page.snapshot = started

LEMMA PageDelivers ==
  ASSUME TypeOK, HistoryInv, NEW p \in Players \ erased, NEW limit \in Nat,
         NEW started \in 1..historyCounter[p], NEW next \in 1..started,
         NEW entries, entries = historyEntry[p]
  PROVE  \E end \in Nat : Delivers(PageWithCursor(p, started, next, limit), entries,
                                   next, end, started)
<1>1. PICK list \in Seq(ProgressEntry), n \in Nat :
        /\ list = Entries(p) /\ n = historyCounter[p] /\ Len(list) = n
        /\ Holds(entries, list, n)
  BY KeptHistory, SizesAssumption
<1>2. started \in Nat /\ next \in Nat /\ next <= started /\ started <= n /\ next # 0
  BY <1>1
<1>3. Snapshot(p, started) = started
  BY <1>1, <1>2 DEF Snapshot, Least
<1>4. PICK c \in Nat \ {0} : c = Clamp(limit)
  BY SizesAssumption DEF Clamp, Least
<1>5. PICK end \in Nat : end = Least(next + c - 1, started) /\ next <= end /\ end <= started
  BY <1>2 DEF Least
<1>6. PICK a \in Nat : a = next - 1 /\ next = a + 1
  BY <1>2
<1>7. PICK page : page = PageWithCursor(p, started, next, limit)
  OBVIOUS
<1>8. page = [entries |-> StoredEntries(entries, next, end),
              next |-> IF end >= started THEN 0 ELSE end + 1, snapshot |-> started]
  <2>1. ~(next = 0 \/ next > started)
    BY <1>2
  <2> QED
    BY <1>3, <1>4, <1>5, <1>7, <2>1, Zenon DEF PageWithCursor
<1>9. StoredEntries(entries, a + 1, end) = Part(list, a, end)
  <2>1. NONE \notin ProgressEntry /\ end <= n
    BY <1>2, <1>5, NoneAssumption
  <2> QED
    BY <1>1, <2>1, StoredIsPart
<1>10. /\ Part(list, a, end) \in Seq(ProgressEntry) /\ Len(Part(list, a, end)) = end - a
       /\ \A i \in 1..(end - a) : Part(list, a, end)[i] = list[a + i]
  <2>1. PartEnd(list, end) = end /\ a <= PartEnd(list, end)
    BY <1>1, <1>2, <1>5, <1>6 DEF PartEnd
  <2> QED
    BY <2>1, PartEntries
<1>11. \A i \in 1..(end - a) : list[a + i] = entries[a + i]
  <2>1. \A i \in 1..(end - a) : a + i \in 1..n
    BY <1>2, <1>5
  <2> QED
    BY <1>1, <2>1 DEF Holds
<1>12. page.entries = Part(list, a, end)
  BY <1>6, <1>8, <1>9
<1>13. Delivers(page, entries, next, end, started)
  <2>1. \A i \in 1..(end - a) : page.entries[i] = entries[a + i]
    BY <1>10, <1>11, <1>12
  <2> QED
    BY <1>2, <1>5, <1>6, <1>8, <1>10, <1>12, <2>1 DEF Delivers
<1> QED
  BY <1>7, <1>13, Zenon

LEMMA ReaderInvInit == ReaderInit => ReaderInv
BY DEF ReaderInit, ReaderInv

LEMMA ReaderInvNext ==
  ASSUME TypeOK, HistoryInv, ReaderInv, [ReaderNext]_<<vars, reader>>
  PROVE  ReaderInv'
<1>1. CASE [Next]_vars /\ UNCHANGED reader
  <2> SUFFICES ASSUME NEW p \in Players \ erased', reader.player = p,
                      HasRead(reader, historyCounter[p], historyEntry[p])
               PROVE  HasRead(reader, historyCounter'[p], historyEntry'[p])
    <3>1. \A p \in Players : p \notin erased' => p \notin erased
      BY <1>1, StepAppends
    <3> QED
      BY <1>1, <3>1 DEF ReaderInv
  <2>1. /\ historyCounter'[p] >= historyCounter[p]
        /\ \A i \in 1..historyCounter[p] : historyEntry'[p][i] = historyEntry[p][i]
    BY <1>1, StepAppends
  <2>2. historyCounter[p] \in Nat /\ historyCounter'[p] \in Nat
    <3>1. TypeOK'
      BY <1>1, NextTypeOK
    <3> QED
      BY <3>1, SizesAssumption DEF TypeOK
  <2>3. reader.started \in 0..historyCounter'[p]
    BY <2>1, <2>2 DEF HasRead
  <2>4. ASSUME NEW i \in 1..Len(reader.seen)
        PROVE  reader.seen[i] = historyEntry'[p][i]
    <3>1. Len(reader.seen) \in Nat /\ Len(reader.seen) <= historyCounter[p]
      BY <2>2 DEF HasRead
    <3>2. i \in 1..historyCounter[p]
      BY <2>2, <3>1
    <3> QED
      BY <2>1, <3>2 DEF HasRead
  <2> QED
    BY <2>3, <2>4 DEF HasRead
<1>2. ASSUME NEW p \in Players, NEW limit \in 0..(MAX_PAGE + 1), FirstPage(p, limit)
      PROVE  ReaderInv'
  <2>1. PICK page : page = PageWithCursor(p, historyCounter[p], 1, limit)
    OBVIOUS
  <2>2. reader' = [player |-> p, started |-> historyCounter[p], snapshot |-> page.snapshot,
                   next |-> page.next, seen |-> page.entries]
    BY <1>2, <2>1 DEF FirstPage
  <2>3. UNCHANGED <<historyCounter, historyEntry, erased>>
    BY <1>2 DEF FirstPage, vars, recordVars, ghostVars, erasureVars
  <2> SUFFICES ASSUME p \notin erased
               PROVE  HasRead(reader', historyCounter[p], historyEntry[p])
    BY <2>2, <2>3 DEF ReaderInv
  <2>4. PICK n \in Nat, entries \in {historyEntry[p]} :
          n = historyCounter[p] /\ entries = historyEntry[p]
    BY SizesAssumption DEF TypeOK
  <2>5. CASE n = 0
    <3>1. page.entries = << >> /\ page.next = 0
      BY <2>1, <2>4, <2>5 DEF PageWithCursor, Snapshot, Least
    <3> QED
      BY <2>2, <2>4, <2>5, <3>1 DEF HasRead
  <2>6. CASE n # 0
    <3>1. limit \in Nat /\ 1 \in 1..n /\ n \in 1..n
      BY <2>6, SizesAssumption
    <3>2. PICK end \in Nat : Delivers(page, entries, 1, end, n)
      BY <2>1, <2>4, <3>1, PageDelivers
    <3>3. /\ end \in 1..n /\ page.entries \in Seq(ProgressEntry) /\ Len(page.entries) = end
          /\ \A i \in 1..end : page.entries[i] = entries[i]
          /\ page.next = IF end >= n THEN 0 ELSE end + 1
          /\ page.snapshot = n
      <4>1. end - (1 - 1) = end /\ \A i \in 1..end : (1 - 1) + i = i
        OBVIOUS
      <4> QED
        BY <3>2, <4>1 DEF Delivers
    <3> QED
      BY <2>2, <2>4, <3>3 DEF HasRead
  <2> QED
    BY <2>5, <2>6
<1>3. ASSUME NEW limit \in 0..(MAX_PAGE + 1), NextPage(limit)
      PROVE  ReaderInv'
  <2>1. PICK p, started, next, seen :
          /\ p = reader.player /\ started = reader.started /\ next = reader.next
          /\ seen = reader.seen
    OBVIOUS
  <2>2. PICK page : page = PageWithCursor(p, reader.snapshot, next, limit)
    OBVIOUS
  <2>3. /\ next # 0
        /\ reader' = [reader EXCEPT !.snapshot = page.snapshot, !.next = page.next,
                                    !.seen = seen \o page.entries]
    BY <1>3, <2>1, <2>2 DEF NextPage
  <2>4. UNCHANGED <<historyCounter, historyEntry, erased>>
    BY <1>3 DEF NextPage, vars, recordVars, ghostVars, erasureVars
  <2>5. /\ DOMAIN reader = {"player", "started", "snapshot", "next", "seen"}
        /\ p \in Players
        /\ p \notin erased => HasRead(reader, historyCounter[p], historyEntry[p])
    BY <2>1, <2>3 DEF ReaderInv, Idle
  <2>6. /\ DOMAIN reader' = {"player", "started", "snapshot", "next", "seen"}
        /\ reader'.player = p /\ reader'.started = started /\ reader'.snapshot = page.snapshot
        /\ reader'.next = page.next /\ reader'.seen = seen \o page.entries
    BY <2>1, <2>3, <2>5
  <2> SUFFICES ASSUME p \notin erased
               PROVE  HasRead(reader', historyCounter[p], historyEntry[p])
    BY <2>4, <2>5, <2>6 DEF ReaderInv
  <2>7. PICK n \in Nat, entries \in {historyEntry[p]} :
          n = historyCounter[p] /\ entries = historyEntry[p]
    BY <2>5, SizesAssumption DEF TypeOK
  <2>8. /\ seen \in Seq(ProgressEntry) /\ started \in 0..n /\ next \in 1..started
        /\ Len(seen) = next - 1 /\ reader.snapshot = started
        /\ \A i \in 1..Len(seen) : seen[i] = entries[i]
    BY <2>1, <2>3, <2>5, <2>7 DEF HasRead
  <2>9. PICK a \in Nat, b \in Nat : a = next - 1 /\ b = started /\ Len(seen) = a /\ b <= n
    BY <2>8
  <2>10. PICK end \in Nat : Delivers(page, entries, next, end, b)
    <3>1. limit \in Nat /\ b \in 1..n /\ next \in 1..b
      BY <2>8, <2>9, SizesAssumption
    <3>2. page = PageWithCursor(p, b, next, limit) /\ p \in Players \ erased
      BY <2>2, <2>5, <2>8, <2>9
    <3> QED
      BY <2>7, <3>1, <3>2, PageDelivers
  <2>11. /\ end \in next..b /\ page.entries \in Seq(ProgressEntry) /\ Len(page.entries) = end - a
         /\ \A i \in 1..(end - a) : page.entries[i] = entries[a + i]
         /\ page.next = IF end >= b THEN 0 ELSE end + 1
         /\ page.snapshot = b
    BY <2>9, <2>10 DEF Delivers
  <2>12. PICK joined \in Seq(ProgressEntry) :
           /\ joined = seen \o page.entries /\ Len(joined) = a + (end - a)
           /\ \A i \in 1..(a + (end - a)) :
                joined[i] = IF i <= a THEN seen[i] ELSE page.entries[i - a]
    <3>1. PICK rest \in Seq(ProgressEntry) : rest = page.entries /\ Len(rest) = end - a
      BY <2>11
    <3>2. /\ seen \o rest \in Seq(ProgressEntry) /\ Len(seen \o rest) = Len(seen) + Len(rest)
          /\ \A i \in 1..(Len(seen) + Len(rest)) :
               (seen \o rest)[i] = IF i <= Len(seen) THEN seen[i] ELSE rest[i - Len(seen)]
      BY <2>8, <3>1, ConcatProperties
    <3> QED
      BY <2>9, <3>1, <3>2
  <2>13. Len(joined) = end /\ a + (end - a) = end
    BY <2>12
  <2>14. ASSUME NEW i \in 1..end PROVE joined[i] = entries[i]
    <3>1. CASE i <= a
      <4>1. i \in 1..Len(seen)
        BY <2>9, <3>1
      <4> QED
        BY <2>8, <2>12, <2>13, <3>1, <4>1
    <3>2. CASE ~(i <= a)
      <4>1. i - a \in 1..(end - a) /\ a + (i - a) = i
        BY <3>2
      <4>2. page.entries[i - a] = entries[a + (i - a)]
        BY <2>11, <4>1
      <4> QED
        BY <2>12, <2>13, <3>2, <4>1, <4>2
    <3> QED
      BY <3>1, <3>2
  <2>15. PICK r : r = reader'
    OBVIOUS
  <2>16. /\ r.seen = joined /\ r.started = b /\ r.snapshot = b
         /\ r.next = IF end >= b THEN 0 ELSE end + 1
    BY <2>6, <2>9, <2>11, <2>12, <2>15
  <2>17. HasRead(r, n, entries)
    <3>1. end <= b /\ b \in 0..n
      BY <2>9, <2>11
    <3>2. end < b => end + 1 # 0 /\ end + 1 \in 1..b /\ end = (end + 1) - 1
      BY <3>1
    <3>3. end >= b => end = b
      BY <3>1
    <3>4. /\ r.seen \in Seq(ProgressEntry) /\ Len(r.seen) = end
          /\ \A i \in 1..Len(r.seen) : r.seen[i] = entries[i]
      BY <2>12, <2>13, <2>14, <2>16
    <3>5. IF r.next = 0 THEN Len(r.seen) = r.started
          ELSE /\ r.next \in 1..r.started /\ Len(r.seen) = r.next - 1
               /\ r.snapshot = r.started
      BY <2>16, <3>2, <3>3, <3>4
    <3> QED
      BY <2>16, <3>1, <3>4, <3>5 DEF HasRead
  <2> QED
    BY <2>7, <2>15, <2>17
<1> QED
  <2>1. \/ [Next]_vars /\ UNCHANGED reader
        \/ \E p \in Players, limit \in 0..(MAX_PAGE + 1) : FirstPage(p, limit)
        \/ \E limit \in 0..(MAX_PAGE + 1) : NextPage(limit)
    BY Zenon DEF ReaderNext
  <2> QED
    BY <1>1, <1>2, <1>3, <2>1

\* A client that follows the cursor gets each entry that existed when it
\* started exactly once and in order, whatever is appended between its calls.
THEOREM CursorReadsExactlyOnce == ReaderSpec => []EveryEntryExactlyOnce
<1>1. ReaderSpec => [](TypeOK /\ HistoryInv)
  BY ReaderIsReading, HistoryAlways, PTL
<1>2. TypeOK /\ HistoryInv /\ ReaderInv /\ [ReaderNext]_<<vars, reader>> => ReaderInv'
  BY ReaderInvNext
<1>3. ASSUME TypeOK, HistoryInv, ReaderInv PROVE EveryEntryExactlyOnce
  <2> SUFFICES ASSUME NEW p, p = reader.player, p # NONE, p \notin erased
               PROVE  /\ reader.seen = SubSeq(Entries(p), 1, Len(reader.seen))
                      /\ IF reader.next = 0 THEN Len(reader.seen) = reader.started
                         ELSE /\ Len(reader.seen) = reader.next - 1
                              /\ Len(reader.seen) < reader.started
    BY DEF EveryEntryExactlyOnce
  <2>1. p \in Players /\ HasRead(reader, historyCounter[p], historyEntry[p])
    BY <1>3 DEF ReaderInv, Idle
  <2>2. PICK list \in Seq(ProgressEntry), n \in Nat, entries \in {historyEntry[p]} :
          /\ list = Entries(p) /\ n = historyCounter[p] /\ Len(list) = n
          /\ entries = historyEntry[p] /\ Holds(entries, list, n)
    BY <1>3, <2>1, KeptHistory, SizesAssumption
  <2>3. PICK seen \in Seq(ProgressEntry), m \in Nat :
          /\ seen = reader.seen /\ m = Len(seen) /\ m <= reader.started /\ m <= n
          /\ \A i \in 1..m : seen[i] = entries[i]
    <3>1. /\ reader.seen \in Seq(ProgressEntry) /\ Len(reader.seen) <= reader.started
          /\ reader.started \in 0..n
          /\ \A i \in 1..Len(reader.seen) : reader.seen[i] = entries[i]
      BY <2>1, <2>2 DEF HasRead
    <3>2. PICK seen \in Seq(ProgressEntry), m \in Nat : seen = reader.seen /\ m = Len(seen)
      BY <3>1
    <3> QED
      BY <3>1, <3>2
  <2>4. PICK first \in Seq(ProgressEntry) :
          first = SubSeq(list, 1, m) /\ Len(first) = m /\ \A i \in 1..m : first[i] = list[i]
    <3>1. m \in 0..Len(list)
      BY <2>2, <2>3
    <3>2. /\ Len(SubSeq(list, 1, m)) = m /\ SubSeq(list, 1, m) \in Seq(ProgressEntry)
          /\ \A i \in 1..m : SubSeq(list, 1, m)[i] = list[i]
      BY <3>1, CutEntries
    <3> QED
      BY <3>2, Zenon
  <2>5. \A i \in 1..m : seen[i] = first[i]
    BY <2>2, <2>3, <2>4 DEF Holds
  <2>6. seen = first
    BY <2>3, <2>4, <2>5, SeqEqual
  <2>7. IF reader.next = 0 THEN Len(reader.seen) = reader.started
        ELSE Len(reader.seen) = reader.next - 1 /\ Len(reader.seen) < reader.started
    BY <2>1, <2>2 DEF HasRead
  <2> QED
    BY <2>2, <2>3, <2>4, <2>6, <2>7
<1> QED
  BY <1>1, <1>2, <1>3, ReaderInvInit, PTL DEF ReaderSpec

----
(***************************************************************************)
(* The entries since a time: histories are chronological, so the scan from  *)
(* the newest entry may stop at the first one that is too old.              *)
(***************************************************************************)
\* The first n entries are in the order of their times, none later than time.
InOrder(entries, n, time) ==
  \A j \in 1..n :
    /\ entries[j].updated_at <= time
    /\ \A i \in 1..j : entries[i].updated_at <= entries[j].updated_at

ChronologyInv ==
  \A p \in Players \ erased : InOrder(historyEntry[p], historyCounter[p], now)

\* No replay is of an entry that lies in the future.
ReplaysLieBack ==
  [][\A p \in Players, e \in SeedEntries :
       AdminSeedHistory(p, e) => e.updated_at <= now]_vars

LEMMA InOrderAppend ==
  ASSUME NEW n \in Nat, NEW entries, NEW time \in Nat, InOrder(entries, n, time),
         n + 1 \in DOMAIN entries, \A i \in 1..n : entries[i].updated_at \in Nat,
         NEW e, e.updated_at \in Nat, e.updated_at <= time,
         n > 0 => e.updated_at >= entries[n].updated_at,
         NEW new, Puts(new, entries, n + 1, e)
  PROVE  InOrder(new, n + 1, time)
<1>1. new[n + 1] = e
  BY DEF Puts
<1>2. ASSUME NEW i \in 1..n PROVE new[i] = entries[i]
  <2>1. i # n + 1
    OBVIOUS
  <2> QED
    BY <2>1 DEF Puts
<1>3. ASSUME NEW i \in 1..n PROVE entries[i].updated_at <= e.updated_at
  <2>1. n \in 1..n /\ i \in 1..n /\ n > 0
    OBVIOUS
  <2>2. /\ entries[i].updated_at <= entries[n].updated_at
        /\ entries[i].updated_at \in Nat /\ entries[n].updated_at \in Nat
    BY <2>1 DEF InOrder
  <2> QED
    BY <2>1, <2>2
<1>4. ASSUME NEW j \in 1..(n + 1), NEW i \in 1..j
      PROVE  /\ new[j].updated_at <= time
             /\ new[i].updated_at <= new[j].updated_at
  <2>1. CASE j \in 1..n
    <3>1. i \in 1..n
      BY <2>1
    <3> QED
      BY <1>2, <2>1, <3>1 DEF InOrder
  <2>2. CASE j = n + 1
    <3>1. CASE i = n + 1
      BY <1>1, <2>2, <3>1
    <3>2. CASE i \in 1..n
      BY <1>1, <1>2, <1>3, <2>2, <3>2
    <3> QED
      BY <2>2, <3>1, <3>2
  <2> QED
    BY <2>1, <2>2
<1>5. \A j \in 1..(n + 1) : j \in 1..j
  OBVIOUS
<1> QED
  BY <1>4, <1>5 DEF InOrder

LEMMA ClockRises == ASSUME TypeOK, [Next]_vars PROVE now' \in Nat /\ now <= now'
<1>1. now \in Nat
  BY DEF TypeOK
<1>2. CASE AdminStep
  BY <1>1, <1>2, AdminStepFrame DEF playerVars
<1>3. CASE PeerStep
  BY <1>1, <1>3 DEF PeerStep, CommitMilestoneOnly, PurgeMilestones, RegisterPlayer,
     DeregisterPlayer, Tick
<1>4. CASE LevelStep
  <2>1. now' = now
    BY <1>4, LevelSteps DEF LevelStep, ChangeLevel
  <2> QED
    BY <1>1, <2>1
<1>5. CASE MigrateStep
  BY <1>1, <1>5 DEF MigrateStep, Migrate
<1>6. CASE SeedStep
  BY <1>1, <1>6 DEF SeedStep, AdminSeedHistory
<1>7. CASE ImportStep
  BY <1>1, <1>7 DEF ImportStep, AdminSeedPlayer
<1>8. CASE PurgeStep
  BY <1>1, <1>8 DEF PurgeStep, PurgePlayerData
<1>9. CASE UNCHANGED vars
  BY <1>1, <1>9 DEF vars
<1> QED
  BY <1>2, <1>3, <1>4, <1>5, <1>6, <1>7, <1>8, <1>9, StepCases

LEMMA ChronologyInit == Init => ChronologyInv
<1> SUFFICES ASSUME Init, NEW p \in Players PROVE InOrder(historyEntry[p], historyCounter[p], now)
  BY DEF ChronologyInv
<1>1. now = 0
  BY DEF Init
<1>2. CASE InitFresh
  <2>1. historyCounter[p] = 0
    BY <1>2 DEF InitFresh
  <2> QED
    BY <2>1 DEF InOrder
<1>3. CASE InitUpgraded
  <2>1. PICK levels \in [Players -> LegacyLevels] :
          /\ historyCounter[p] = Len(levels[p])
          /\ historyEntry[p] = [j \in Index |->
               IF j <= Len(levels[p])
               THEN [t \in Players |-> LegacyHistory(t, levels[t])][p][j] ELSE NONE]
    BY <1>3 DEF InitUpgraded
  <2>2. PICK l \in Seq(Level), n \in Nat : l = levels[p] /\ n = Len(l) /\ n <= U32_MAX
    BY LegacyAssumption
  <2>3. ASSUME NEW j \in 1..n PROVE historyEntry[p][j].updated_at = 0
    <3>1. j \in Index /\ j <= Len(l) /\ j \in DOMAIN l
      BY <2>2, SizesAssumption DEF Index
    <3>2. historyEntry[p][j] = LegacyHistory(p, l)[j]
      BY <2>1, <2>2, <3>1
    <3> QED
      BY <3>1, <3>2 DEF LegacyHistory
  <2>4. \A j \in 1..n : \A i \in 1..j : i \in 1..n
    BY <2>2
  <2>5. ASSUME NEW j \in 1..n, NEW i \in 1..j
        PROVE  /\ historyEntry[p][j].updated_at <= 0
               /\ historyEntry[p][i].updated_at <= historyEntry[p][j].updated_at
    BY <2>3, <2>4
  <2>6. \A j \in 1..n : j \in 1..j
    OBVIOUS
  <2>7. InOrder(historyEntry[p], n, 0)
    BY <2>5, <2>6 DEF InOrder
  <2> QED
    BY <1>1, <2>1, <2>2, <2>7
<1> QED
  BY <1>2, <1>3 DEF Init

LEMMA ChronologyNext ==
  ASSUME TypeOK, HistoryInv, ChronologyInv, [Next]_vars,
         \A p \in Players, e \in SeedEntries : AdminSeedHistory(p, e) => e.updated_at <= now
  PROVE  ChronologyInv'
<1> DEFINE Kind(p) == /\ historyCounter'[p] = historyCounter[p]
                      /\ historyEntry'[p] = historyEntry[p]
<1>1. ASSUME NEW p \in Players \ erased
      PROVE  /\ historyCounter[p] \in Nat /\ now \in Nat
             /\ \A i \in 1..historyCounter[p] : historyEntry[p][i].updated_at \in Nat
  <2>1. PICK list \in Seq(ProgressEntry), n \in Nat :
          n = historyCounter[p] /\ Len(list) = n /\ Holds(historyEntry[p], list, n)
    BY KeptHistory, SizesAssumption
  <2>2. ASSUME NEW i \in 1..n PROVE historyEntry[p][i].updated_at \in Nat
    <3>1. list[i] \in ProgressEntry /\ historyEntry[p][i] = list[i]
      BY <2>1, ElementOfSeq DEF Holds
    <3> QED
      BY <3>1 DEF ProgressEntry
  <2> QED
    BY <2>1, <2>2 DEF TypeOK
<1>2. ASSUME NEW p \in Players, p \notin erased, p \notin erased', Kind(p)
      PROVE  InOrder(historyEntry'[p], historyCounter'[p], now')
  <2>1. /\ InOrder(historyEntry[p], historyCounter[p], now)
        /\ \A i \in 1..historyCounter[p] : historyEntry[p][i].updated_at \in Nat
    BY <1>1, <1>2, Zenon DEF ChronologyInv
  <2>2. PICK n \in Nat, t \in Nat, u \in Nat :
          n = historyCounter[p] /\ t = now /\ u = now' /\ t <= u
    BY <1>1, <1>2, ClockRises
  <2>3. PICK entries : entries = historyEntry[p]
    OBVIOUS
  <2>4. InOrder(entries, n, u)
    BY <2>1, <2>2, <2>3 DEF InOrder
  <2> QED
    BY <1>2, <2>2, <2>3, <2>4
<1>3. ASSUME NEW p \in Players, p \notin erased, NEW e \in ProgressEntry, NEW prior,
             historyCounter[p] < U32_MAX, AppendToHistory(p, e, prior), now' = now,
             e.updated_at <= now,
             historyCounter[p] > 0 => e.updated_at >= historyEntry[p][historyCounter[p]].updated_at
      PROVE  InOrder(historyEntry'[p], historyCounter'[p], now')
  <2>1. /\ InOrder(historyEntry[p], historyCounter[p], now)
        /\ \A i \in 1..historyCounter[p] : historyEntry[p][i].updated_at \in Nat
    BY <1>1, <1>3, Zenon DEF ChronologyInv
  <2>2. PICK n \in Nat, t \in Nat : n = historyCounter[p] /\ t = now
    BY <1>1, <1>3
  <2>3. PICK entries, new : entries = historyEntry[p] /\ new = historyEntry'[p]
    OBVIOUS
  <2>4. historyCounter'[p] = n + 1 /\ Puts(new, entries, n + 1, e) /\ n + 1 \in DOMAIN entries
    <3>1. /\ historyCounter' = [historyCounter EXCEPT ![p] = historyCounter[p] + 1]
          /\ historyEntry' = [historyEntry EXCEPT ![p] =
               [historyEntry[p] EXCEPT ![historyCounter[p] + 1] = e]]
      BY <1>3, AppendEffect
    <3>2. n + 1 \in Index
      BY <1>3, <2>2, SizesAssumption DEF Index
    <3> QED
      BY <2>2, <2>3, <3>1, <3>2 DEF Puts, TypeOK
  <2>5. e.updated_at \in Nat
    BY DEF ProgressEntry
  <2>6. InOrder(new, n + 1, t)
    BY <1>3, <2>1, <2>2, <2>3, <2>4, <2>5, InOrderAppend
  <2> QED
    BY <1>3, <2>2, <2>3, <2>4, <2>6
<1>4. CASE UNCHANGED <<keptVars, seeded, erased>>
  BY <1>2, <1>4 DEF ChronologyInv, keptVars
<1>5. CASE /\ \E p \in Players : LiveAppend(p)
           /\ UNCHANGED <<seeded, erased, now>>
  <2>1. PICK p \in Players, e \in ProgressEntry :
          /\ historyCounter[p] < U32_MAX /\ e.updated_at = now
          /\ AppendToHistory(p, e, PageOrStored(p))
    BY <1>5 DEF LiveAppend
  <2>2. \A r \in Players \ {p} : Kind(r)
    BY <2>1, AppendWrites
  <2>3. ASSUME p \notin erased PROVE InOrder(historyEntry'[p], historyCounter'[p], now')
    <3>1. PICK n \in Nat : n = historyCounter[p]
      BY <1>1, <2>3
    <3>2. n > 0 => historyEntry[p][n].updated_at <= now
      BY <2>3, <3>1 DEF ChronologyInv, InOrder
    <3>3. now \in Nat /\ (n > 0 => historyEntry[p][n].updated_at \in Nat)
      BY <1>1, <2>3, <3>1
    <3>4. e.updated_at <= now /\ (n > 0 => e.updated_at >= historyEntry[p][n].updated_at)
      BY <2>1, <3>2, <3>3
    <3> QED
      BY <1>3, <1>5, <2>1, <2>3, <3>1, <3>4
  <2> QED
    BY <1>2, <1>5, <2>2, <2>3 DEF ChronologyInv
<1>6. CASE \E p \in Players : /\ \E e \in SeedEntries : AdminSeedHistory(p, e)
                              /\ UNCHANGED <<erased, now>>
  <2>1. PICK p \in Players, e \in SeedEntries : AdminSeedHistory(p, e)
    BY <1>6
  <2>2. erased' = erased /\ now' = now
    BY <1>6
  <2>3. e \in ProgressEntry /\ e.updated_at <= now
    BY <2>1, InputAssumption
  <2>4. /\ historyCounter[p] < U32_MAX
        /\ AppendToHistory(p, e,
             OrElse(historyPage[p][HistoryPageIndex(historyCounter[p] + 1)], <<>>))
    BY <2>1, Zenon DEF AdminSeedHistory
  <2>5. historyCounter[p] > 0 => e.updated_at >= historyEntry[p][historyCounter[p]].updated_at
    <3>1. historyCounter[p] \in Nat
      BY SizesAssumption DEF TypeOK
    <3> QED
      BY <2>1, <3>1 DEF AdminSeedHistory
  <2>6. \A r \in Players \ {p} : Kind(r)
    BY <2>3, <2>4, AppendWrites
  <2>7. ASSUME p \notin erased PROVE InOrder(historyEntry'[p], historyCounter'[p], now')
    BY <1>3, <2>2, <2>3, <2>4, <2>5, <2>7
  <2> QED
    BY <1>2, <2>2, <2>6, <2>7 DEF ChronologyInv
<1>7. CASE \E p \in Players :
             /\ \A r \in Players \ {p} : Kind(r)
             /\ erased' = erased \cup {p}
  BY <1>2, <1>7 DEF ChronologyInv
<1>8. \/ UNCHANGED <<keptVars, seeded, erased>>
      \/ /\ \E p \in Players : LiveAppend(p)
         /\ UNCHANGED <<seeded, erased, now>>
      \/ \E p \in Players : /\ \E e \in SeedEntries : AdminSeedHistory(p, e)
                            /\ UNCHANGED <<erased, now>>
      \/ \E p \in Players :
           /\ \A r \in Players \ {p} : Kind(r)
           /\ erased' = erased \cup {p}
  BY RecordSteps
<1> QED
  BY <1>4, <1>5, <1>6, <1>7, <1>8

\* t is a part of the list, of these many entries, after the a-th.
Inner(t, list, a, m) ==
  t \in Seq(ProgressEntry) /\ Len(t) = m /\ \A i \in 1..m : t[i] = list[a + i]

LEMMA InnerPart ==
  ASSUME NEW list \in Seq(ProgressEntry), NEW a \in Nat, NEW b \in Nat, a <= b, b <= Len(list)
  PROVE  Inner(Part(list, a, b), list, a, b - a)
<1>1. PartEnd(list, b) = b
  BY LenProperties DEF PartEnd
<1>2. /\ Part(list, a, b) \in Seq(ProgressEntry)
      /\ Len(Part(list, a, b)) = PartEnd(list, b) - a
      /\ \A i \in 1..(PartEnd(list, b) - a) : Part(list, a, b)[i] = list[a + i]
  <2>1. a <= PartEnd(list, b)
    BY <1>1
  <2> QED
    BY <2>1, PartEntries
<1> QED
  BY <1>1, <1>2, Zenon DEF Inner

LEMMA EntriesConcat ==
  ASSUME NEW s \in Seq(ProgressEntry), NEW t \in Seq(ProgressEntry), NEW A
  PROVE  Filter(s \o t, A) = Filter(s, A) \o Filter(t, A)
BY FilterConcat

\* l is the last m entries of list, newest first.
Newest(l, list, m) ==
  /\ l \in Seq(ProgressEntry) /\ Len(l) = m
  /\ \A i \in 1..m : l[i] = list[Len(list) + 1 - i]

LEMMA NewestSame ==
  ASSUME NEW list, NEW m \in Nat, NEW k, NEW l, Newest(k, list, m), Newest(l, list, m)
  PROVE  k = l
<1>1. \A i \in 1..m : k[i] = l[i]
  BY DEF Newest
<1> QED
  BY <1>1, SeqEqual DEF Newest

LEMMA NewestFirst ==
  ASSUME NEW list, NEW m \in Nat, NEW l, Newest(l, list, m), NEW k \in 0..m
  PROVE  Newest(SubSeq(l, 1, k), list, k)
<1>1. l \in Seq(ProgressEntry) /\ k \in 0..Len(l)
  BY DEF Newest
<1>2. /\ SubSeq(l, 1, k) \in Seq(ProgressEntry) /\ Len(SubSeq(l, 1, k)) = k
      /\ \A i \in 1..k : SubSeq(l, 1, k)[i] = l[i]
  BY <1>1, CutEntries
<1>3. \A i \in 1..k : i \in 1..m
  OBVIOUS
<1> QED
  BY <1>2, <1>3 DEF Newest

LEMMA NewestReverse ==
  ASSUME NEW list \in Seq(ProgressEntry), NEW n \in Nat, Len(list) = n, NEW a \in 0..n
  PROVE  Newest(Reverse(Part(list, a, n)), list, n - a)
<1>1. PICK m \in Nat : m = n - a
  OBVIOUS
<1>2. PICK t \in Seq(ProgressEntry) :
        t = Part(list, a, n) /\ Len(t) = m /\ \A i \in 1..m : t[i] = list[a + i]
  <2>1. a \in Nat /\ a <= n /\ n <= Len(list)
    OBVIOUS
  <2>2. Inner(Part(list, a, n), list, a, n - a)
    BY <2>1, InnerPart
  <2> QED
    BY <1>1, <2>2, Zenon DEF Inner
<1>3. PICK r : r = Reverse(t) /\ r = [i \in 1..m |-> t[(m - i) + 1]]
  BY <1>2 DEF Reverse
<1>4. ASSUME NEW i \in 1..m
      PROVE  r[i] = list[n + 1 - i] /\ r[i] \in ProgressEntry
  <2>1. (m - i) + 1 \in 1..m /\ a + ((m - i) + 1) = n + 1 - i
    BY <1>1
  <2>2. r[i] = t[(m - i) + 1]
    BY <1>3
  <2>3. t[(m - i) + 1] = list[a + ((m - i) + 1)] /\ t[(m - i) + 1] \in ProgressEntry
    BY <1>2, <2>1, ElementOfSeq
  <2> QED
    BY <2>1, <2>2, <2>3
<1>5. r \in Seq(ProgressEntry) /\ Len(r) = m
  <2>1. r \in [1..m -> ProgressEntry]
    BY <1>3, <1>4
  <2> QED
    BY <2>1, FunctionIsList
<1>6. Newest(r, list, m)
  BY <1>4, <1>5 DEF Newest
<1> QED
  BY <1>1, <1>2, <1>3, <1>6

\* The entries after the c-th are those at or after since.
CutsAt(list, c, since) == \A i \in 1..Len(list) : list[i].updated_at >= since <=> i > c

Dated(list) == \A i \in 1..Len(list) : list[i].updated_at \in Nat
InTurn(list) ==
  \A j \in 1..Len(list) : \A i \in 1..j : list[i].updated_at <= list[j].updated_at

LEMMA CutExists ==
  ASSUME NEW list, NEW n \in Nat, Len(list) = n, Dated(list), InTurn(list), NEW since \in Nat
  PROVE  \E c \in 0..n : CutsAt(list, c, since)
<1> DEFINE T == {k \in Nat : k = n + 1 \/ (k \in 1..n /\ list[k].updated_at >= since)}
<1>1. /\ T \in SUBSET Nat
      /\ \A k \in Nat : k \in T <=> k = n + 1 \/ (k \in 1..n /\ list[k].updated_at >= since)
  OBVIOUS
<1> HIDE DEF T
<1>2. n + 1 \in T
  BY <1>1
<1>3. PICK k \in T : \A j \in T : k <= j
  BY <1>1, <1>2, LeastNatural
<1>4. PICK c \in 0..n : k = c + 1
  <2>1. k \in 1..(n + 1)
    BY <1>1, <1>3
  <2>2. k - 1 \in 0..n /\ k = (k - 1) + 1
    BY <2>1
  <2> QED
    BY <2>2
<1>5. ASSUME NEW i \in 1..n PROVE list[i].updated_at >= since <=> i > c
  <2>1. CASE i > c
    <3>1. k \in 1..n /\ k \in 1..i
      BY <1>4, <2>1
    <3>2. list[k].updated_at >= since
      BY <1>1, <1>3, <3>1
    <3>3. list[k].updated_at <= list[i].updated_at
      BY <3>1 DEF InTurn
    <3>4. list[k].updated_at \in Nat /\ list[i].updated_at \in Nat
      BY <3>1 DEF Dated
    <3> QED
      BY <2>1, <3>2, <3>3, <3>4
  <2>2. CASE ~(i > c)
    <3>1. i \notin T
      BY <1>3, <1>4, <2>2
    <3> QED
      BY <1>1, <2>2, <3>1
  <2> QED
    BY <2>1, <2>2
<1>6. CutsAt(list, c, since)
  BY <1>5 DEF CutsAt
<1> QED
  BY <1>6

Selects(A, list, since) == \A e : e \in A <=> e \in ToSet(list) /\ e.updated_at >= since

\* Filtered, they are the part after the cut.
LEMMA RecentPart ==
  ASSUME NEW list \in Seq(ProgressEntry), NEW n \in Nat, Len(list) = n, NEW c \in 0..n,
         NEW since, CutsAt(list, c, since), NEW A, Selects(A, list, since)
  PROVE  Filter(list, A) = Part(list, c, n)
<1>1. PICK s \in Seq(ProgressEntry), t \in Seq(ProgressEntry) :
        /\ s = Part(list, 0, c) /\ t = Part(list, c, n) /\ list = s \o t
        /\ Len(s) = c /\ Len(t) = n - c
        /\ \A i \in 1..c : s[i] = list[i]
        /\ \A i \in 1..(n - c) : t[i] = list[c + i]
  <2>1. c \in Nat /\ 0 <= c /\ c <= n /\ c <= Len(list) /\ n <= Len(list)
    OBVIOUS
  <2>2. /\ Part(list, 0, c) \in Seq(ProgressEntry) /\ Len(Part(list, 0, c)) = c
        /\ \A i \in 1..c : Part(list, 0, c)[i] = list[i]
    <3>1. c - 0 = c /\ \A i \in 1..c : 0 + i = i
      BY <2>1
    <3>2. Inner(Part(list, 0, c), list, 0, c - 0)
      BY <2>1, InnerPart
    <3> QED
      BY <3>1, <3>2 DEF Inner
  <2>3. /\ Part(list, c, n) \in Seq(ProgressEntry) /\ Len(Part(list, c, n)) = n - c
        /\ \A i \in 1..(n - c) : Part(list, c, n)[i] = list[c + i]
    BY <2>1, InnerPart, Zenon DEF Inner
  <2>4. Part(list, 0, c) \o Part(list, c, n) = list
    <3>1. Part(list, 0, c) \o Part(list, c, n) = Part(list, 0, n)
      BY <2>1, PartsJoin
    <3>2. Part(list, 0, n) = list
      BY PartFull
    <3> QED
      BY <3>1, <3>2
  <2> QED
    BY <2>2, <2>3, <2>4
<1>2. \A i \in 1..Len(s) : s[i] \notin A
  <2>1. \A i \in 1..c : i \in 1..Len(list) /\ ~(i > c)
    OBVIOUS
  <2> QED
    BY <1>1, <2>1 DEF CutsAt, Selects
<1>3. \A i \in 1..Len(t) : t[i] \in A
  <2>1. \A i \in 1..(n - c) : c + i \in 1..n /\ c + i > c
    OBVIOUS
  <2>2. DOMAIN list = 1..n
    BY LenProperties
  <2>3. ASSUME NEW i \in 1..(n - c) PROVE t[i] \in A
    <3>1. t[i] = list[c + i] /\ c + i \in 1..n /\ list[c + i].updated_at >= since
      BY <1>1, <2>1 DEF CutsAt
    <3>2. list[c + i] \in ToSet(list)
      BY <2>2, <3>1 DEF ToSet
    <3> QED
      BY <3>1, <3>2 DEF Selects
  <2> QED
    BY <1>1, <2>3
<1>4. Filter(s, A) = << >>
  BY <1>2, FilterNone
<1>5. Filter(t, A) = t
  BY <1>3, FilterAll
<1>6. Filter(s \o t, A) = Filter(s, A) \o Filter(t, A)
  BY EntriesConcat
<1>7. << >> \o t = t
  BY ConcatEmptySeq
<1> QED
  BY <1>1, <1>4, <1>5, <1>6, <1>7

\* The place of the first entry of l before since, as history_since finds it.
FirstOlder(l, since) ==
  LET before == {i \in 1..Len(l) : l[i].updated_at < since}
  IN  IF before # {} THEN Min(before) ELSE 0

\* Scanned back to the a-th entry, it stands right after the newest n - c.
LEMMA FirstOlderIs ==
  ASSUME NEW list, NEW n \in Nat, Len(list) = n, Dated(list), NEW since \in Nat,
         NEW c \in 0..n, CutsAt(list, c, since), NEW a \in 0..n,
         NEW l, Newest(l, list, n - a)
  PROVE  FirstOlder(l, since) = IF a < c THEN n + 1 - c ELSE 0
<1>1. PICK m \in Nat : m = n - a
  OBVIOUS
<1>2. PICK before : before = {i \in 1..Len(l) : l[i].updated_at < since}
  OBVIOUS
<1>3. \A i : i \in before <=> i \in 1..m /\ n + 1 - i <= c
  <2>1. ASSUME NEW i \in 1..m PROVE l[i].updated_at < since <=> n + 1 - i <= c
    <3>1. n + 1 - i \in 1..n
      BY <1>1
    <3>2. l[i] = list[n + 1 - i]
      BY <1>1 DEF Newest
    <3>3. /\ list[n + 1 - i].updated_at \in Nat
          /\ list[n + 1 - i].updated_at >= since <=> n + 1 - i > c
      BY <3>1 DEF Dated, CutsAt
    <3> QED
      BY <3>1, <3>2, <3>3
  <2>2. Len(l) = m
    BY <1>1 DEF Newest
  <2> QED
    BY <1>2, <2>1, <2>2
<1>4. CASE a < c
  <2>1. PICK k \in Nat : k = n + 1 - c
    OBVIOUS
  <2>2. k \in before /\ \A i \in before : k <= i
    BY <1>1, <1>3, <1>4, <2>1
  <2>3. Min(before) = k
    <3>1. \A x \in before : x \in Nat
      BY <1>3
    <3>2. \A x \in before : (\A y \in before : x <= y) => x = k
      BY <2>2, <3>1
    <3> QED
      BY <2>2, <3>2 DEF Min
  <2> QED
    BY <1>2, <1>4, <2>1, <2>2, <2>3 DEF FirstOlder
<1>5. CASE ~(a < c)
  <2>1. before = {}
    BY <1>1, <1>3, <1>5
  <2> QED
    BY <1>2, <1>5, <2>1 DEF FirstOlder
<1> QED
  BY <1>4, <1>5

\* What the newest m entries are when at most `limit' are wanted.
Answers(result, list, m, limit, older, first) ==
  /\ Newest(result.entries, list, Least(m, limit))
  /\ result.truncated = (m > limit \/ (older = 0 /\ first > 0))

\* An answer to a question cut at the c-th of n entries, by a scan that stops
\* early only when it leaves older pages unread.
AnswersCut(result, list, n, c, limit) ==
  \E m \in 0..(n - c), older \in Nat, first \in Nat :
    /\ Answers(result, list, m, limit, older, first)
    /\ m < n - c => older = 0 /\ first > 0

\* history_since, for a chronological history.
LEMMA SinceAnswers ==
  ASSUME TypeOK, HistoryInv, NEW p \in Kept, historyCounter[p] > 0, NEW list, list = Entries(p),
         NEW n, n = historyCounter[p], Dated(list), NEW since \in Nat, NEW limit \in Nat,
         NEW c \in 0..n, CutsAt(list, c, since)
  PROVE  AnswersCut(HistorySince(p, since, limit), list, n, c, Clamp(limit))
<1>1. p \in Players \ erased
  BY DEF Kept
<1>2. /\ list \in Seq(ProgressEntry) /\ n \in Index /\ n \in Nat /\ Len(list) = n
      /\ Holds(historyEntry[p], list, n) /\ PagesAre(historyPage[p], list)
  BY <1>1, KeptHistory, SizesAssumption DEF Index
<1>3. PICK last \in Nat, first \in Nat, H \in Nat \ {0}, a \in 0..n :
        /\ last = HistoryPageIndex(n) /\ H = HISTORY_PAGE_SIZE /\ a = first * H
        /\ first = IF last < MAX_PAGES_SCAN THEN 0 ELSE last - MAX_PAGES_SCAN + 1
        /\ first <= last /\ (first = 0 => a = 0)
  <2>1. PICK last \in Nat, H \in Nat \ {0}, N \in Nat \ {0} :
          /\ last = HistoryPageIndex(n) /\ H = HISTORY_PAGE_SIZE /\ N = MAX_PAGES_SCAN
          /\ last * H < n
    BY <1>2, PageIndexes, SizesAssumption DEF PageNo
  <2>2. PICK first \in Nat :
          first = (IF last < N THEN 0 ELSE last - N + 1) /\ first <= last
    <3>1. CASE last < N
      BY <3>1
    <3>2. CASE ~(last < N)
      <4>1. last - N + 1 \in Nat /\ last - N + 1 <= last
        BY <3>2
      <4> QED
        BY <3>2, <4>1
    <3> QED
      BY <3>1, <3>2
  <2>3. first * H <= last * H
    BY <2>2, ScaledOrder
  <2>4. first * H \in 0..n /\ (first = 0 => first * H = 0)
    BY <1>2, <2>1, <2>3
  <2> QED
    BY <2>1, <2>2, <2>4
<1>4. PICK scanned :
        scanned = Reverse(ReadPages(first, last, n, historyPage[p], historyEntry[p]))
  OBVIOUS
<1>5. Newest(scanned, list, n - a)
  <2>1. NONE \notin ProgressEntry
    BY NoneAssumption
  <2>2. ReadPages(first, last, n, historyPage[p], historyEntry[p])
          = Part(list, first * HISTORY_PAGE_SIZE, n)
    BY <1>2, <1>3, <2>1, PagesRead
  <2>3. Newest(Reverse(Part(list, a, n)), list, n - a)
    BY <1>2, NewestReverse
  <2> QED
    BY <1>3, <1>4, <2>2, <2>3, Zenon
<1>6. PICK older \in Nat : older = FirstOlder(scanned, since)
                           /\ older = IF a < c THEN n + 1 - c ELSE 0
  <2>1. FirstOlder(scanned, since) = IF a < c THEN n + 1 - c ELSE 0
    BY <1>2, <1>5, FirstOlderIs
  <2>2. n + 1 - c \in Nat
    BY <1>2
  <2> QED
    BY <2>1, <2>2
<1>7. PICK m \in 0..(n - c) :
        /\ m = IF older = 0 THEN n - a ELSE older - 1
        /\ m <= n - a
        /\ m < n - c => older = 0 /\ first > 0
  <2>1. CASE a < c
    <3>1. older = n + 1 - c /\ older # 0 /\ older - 1 = n - c
      BY <1>2, <1>6, <2>1
    <3> QED
      BY <1>2, <2>1, <3>1
  <2>2. CASE ~(a < c)
    <3>1. older = 0 /\ n - a \in 0..(n - c)
      BY <1>2, <1>6, <2>2
    <3>2. n - a < n - c => first > 0
      BY <1>2, <1>3, <2>2
    <3> QED
      BY <1>2, <3>1, <3>2
  <2> QED
    BY <2>1, <2>2
<1>8. PICK matched : matched = IF older = 0 THEN scanned ELSE SubSeq(scanned, 1, older - 1)
  OBVIOUS
<1>9. Newest(matched, list, m) /\ Len(matched) = m
  <2>1. n - a \in Nat /\ m \in 0..(n - a)
    BY <1>2, <1>7
  <2>2. CASE older = 0
    BY <1>5, <1>7, <1>8, <2>2 DEF Newest
  <2>3. CASE older # 0
    <3>1. matched = SubSeq(scanned, 1, m)
      BY <1>7, <1>8, <2>3
    <3>2. Newest(SubSeq(scanned, 1, m), list, m)
      BY <1>5, <2>1, NewestFirst
    <3> QED
      BY <3>1, <3>2 DEF Newest
  <2> QED
    BY <2>2, <2>3
<1>10. PICK w \in Nat, k \in 0..m : w = Clamp(limit) /\ k = Least(m, w)
  <2>1. PICK w \in Nat : w = Clamp(limit)
    BY SizesAssumption DEF Clamp, Least
  <2> QED
    BY <2>1 DEF Least
<1>11. HistorySince(p, since, limit)
         = [entries |-> SubSeq(matched, 1, k), truncated |-> m > w \/ (older = 0 /\ first > 0)]
  <2>1. /\ HistoryPageIndex(historyCounter[p]) = last
        /\ (IF last < MAX_PAGES_SCAN THEN 0 ELSE last - MAX_PAGES_SCAN + 1) = first
        /\ historyCounter[p] = n /\ n # 0
    BY <1>2, <1>3
  <2>2. SelectInSeq(scanned, LAMBDA e : e.updated_at < since) = FirstOlder(scanned, since)
    BY DEF SelectInSeq, FirstOlder
  <2> QED
    BY <1>4, <1>6, <1>8, <1>9, <1>10, <2>1, <2>2 DEF HistorySince, SinceTruncated
<1>12. Newest(SubSeq(matched, 1, k), list, k)
  BY <1>9, NewestFirst
<1>13. Answers(HistorySince(p, since, limit), list, m, Clamp(limit), older, first)
  BY <1>10, <1>11, <1>12 DEF Answers
<1> QED
  BY <1>7, <1>13 DEF AnswersCut

LEMMA NothingSince ==
  ASSUME NEW p \in Players, historyCounter[p] = 0 PROVE SinceIsComplete(p)
<1>1. Entries(p) = << >>
  <2>1. Entries(p) \in [1..0 -> {}]
    BY DEF Entries
  <2> QED
    BY <2>1, FunctionIsList, EmptySeq
<1>2. PICK nothing : nothing = << >> /\ Len(nothing) = 0
  OBVIOUS
<1>3. ASSUME NEW A PROVE Reverse(Filter(nothing, A)) = nothing
  <2>1. Filter(nothing, A) = nothing
    BY <1>2, FilterEmpty
  <2>2. Reverse(nothing) \in [1..0 -> {}]
    BY <1>2 DEF Reverse
  <2>3. Reverse(nothing) = << >>
    BY <2>2, FunctionIsList, EmptySeq
  <2> QED
    BY <1>2, <2>1, <2>3
<1>4. IsPrefix(nothing, nothing)
  BY <1>2 DEF IsPrefix
<1>5. \A since, limit : HistorySince(p, since, limit) = [entries |-> nothing, truncated |-> FALSE]
  BY <1>2 DEF HistorySince
<1>6. ASSUME NEW since, NEW limit, NEW A, NEW matching, matching = Reverse(Filter(Entries(p), A))
      PROVE  /\ IsPrefix(GetHistorySince(p, since, limit), matching)
             /\ GetHistorySinceV2(p, since, limit).entries = matching
  <2>1. matching = nothing
    BY <1>1, <1>2, <1>3, <1>6
  <2>2. /\ GetHistorySince(p, since, limit) = nothing
        /\ GetHistorySinceV2(p, since, limit).entries = nothing
    BY <1>5 DEF GetHistorySince, GetHistorySinceV2
  <2> QED
    BY <1>4, <2>1, <2>2
<1> QED
  BY <1>6 DEF SinceIsComplete

LEMMA SomethingSince ==
  ASSUME TypeOK, HistoryInv, NEW p \in Kept, historyCounter[p] > 0,
         InOrder(historyEntry[p], historyCounter[p], now)
  PROVE  SinceIsComplete(p)
<1>1. p \in Players \ erased
  BY DEF Kept
<1>2. PICK list \in Seq(ProgressEntry), n \in Nat :
        /\ list = Entries(p) /\ n = historyCounter[p] /\ Len(list) = n
        /\ Holds(historyEntry[p], list, n)
  BY <1>1, KeptHistory, SizesAssumption
<1>3. Dated(list)
  <2>1. \A i \in 1..n : list[i] \in ProgressEntry
    BY <1>2, ElementOfSeq
  <2> QED
    BY <1>2, <2>1 DEF Dated, ProgressEntry
<1>4. InTurn(list)
  <2>1. ASSUME NEW j \in 1..n, NEW i \in 1..j
        PROVE  list[i].updated_at <= list[j].updated_at
    <3>1. i \in 1..n
      BY <1>2
    <3>2. historyEntry[p][i].updated_at <= historyEntry[p][j].updated_at
      BY <1>2, <3>1 DEF InOrder
    <3> QED
      BY <1>2, <3>1, <3>2 DEF Holds
  <2> QED
    BY <1>2, <2>1 DEF InTurn
<1>5. ASSUME NEW since \in 0..MaxTime, NEW limit \in 0..(MAX_PAGE + 1), NEW recent,
             recent = {e \in ToSet(list) : e.updated_at >= since},
             NEW matching, matching = Reverse(Filter(list, recent)),
             NEW result, result = HistorySince(p, since, limit)
      PROVE  IsPrefix(result.entries, matching) /\ (result.truncated \/ result.entries = matching)
  <2>1. since \in Nat /\ limit \in Nat
    BY SizesAssumption
  <2>2. PICK c \in 0..n : CutsAt(list, c, since)
    BY <1>2, <1>3, <1>4, <2>1, CutExists
  <2>3. Newest(matching, list, n - c)
    <3>1. Selects(recent, list, since)
      BY <1>5 DEF Selects
    <3>2. Filter(list, recent) = Part(list, c, n)
      BY <1>2, <2>2, <3>1, RecentPart
    <3> QED
      BY <1>2, <1>5, <3>2, NewestReverse
  <2>4. PICK m \in 0..(n - c), older \in Nat, first \in Nat :
          /\ Answers(result, list, m, Clamp(limit), older, first)
          /\ m < n - c => older = 0 /\ first > 0
    <3>1. AnswersCut(result, list, n, c, Clamp(limit))
      BY <1>2, <1>3, <1>5, <2>1, <2>2, SinceAnswers
    <3> QED
      BY <3>1 DEF AnswersCut
  <2>5. PICK w \in Nat, d \in Nat, k \in Nat :
          /\ w = Clamp(limit) /\ d = n - c /\ k = Least(m, w) /\ k \in 0..d
          /\ m <= w => k = m
    <3>1. PICK w \in Nat : w = Clamp(limit)
      BY <2>1, SizesAssumption DEF Clamp, Least
    <3>2. PICK d \in Nat : d = n - c
      BY <1>2
    <3>3. PICK k \in Nat : k = Least(m, w) /\ k \in 0..d /\ (m <= w => k = m)
      BY <3>1, <3>2 DEF Least
    <3> QED
      BY <3>1, <3>2, <3>3
  <2>6. PICK got : got = result.entries /\ Newest(got, list, k)
    BY <2>4, <2>5 DEF Answers
  <2>7. IsPrefix(got, matching)
    <3>1. Newest(SubSeq(matching, 1, k), list, k)
      BY <2>3, <2>5, NewestFirst
    <3>2. Newest(SubSeq(got, 1, k), list, k)
      <4>1. k \in Nat /\ k \in 0..k
        BY <2>5
      <4> QED
        BY <2>6, <4>1, NewestFirst
    <3>3. SubSeq(got, 1, k) = SubSeq(matching, 1, k)
      BY <2>5, <3>1, <3>2, NewestSame
    <3>4. Len(got) = k /\ Len(matching) = d
      BY <2>3, <2>5, <2>6 DEF Newest
    <3> QED
      BY <2>5, <3>3, <3>4 DEF IsPrefix
  <2>8. result.truncated \/ got = matching
    <3>1. CASE m > w \/ (older = 0 /\ first > 0)
      BY <2>4, <2>5, <3>1 DEF Answers
    <3>2. CASE ~(m > w \/ (older = 0 /\ first > 0))
      <4>1. k = d
        BY <2>4, <2>5, <3>2
      <4> QED
        BY <2>3, <2>5, <2>6, <4>1, NewestSame
    <3> QED
      BY <3>1, <3>2
  <2> QED
    BY <2>6, <2>7, <2>8
<1> QED
  BY <1>2, <1>5 DEF SinceIsComplete, GetHistorySince, GetHistorySinceV2

\* As long as no entry is replayed that lies in the future, get_history_since
\* returns the newest part of the entries at or after a time, and all of them
\* unless it says truncated: the histories are chronological, so the scan may
\* stop at the first older entry.
THEOREM SinceComplete == Spec /\ ReplaysLieBack => []HistorySinceComplete
<1>1. TypeOK /\ HistoryInv /\ ChronologyInv /\ [Next]_vars
        /\ [\A p \in Players, e \in SeedEntries :
              AdminSeedHistory(p, e) => e.updated_at <= now]_vars
      => ChronologyInv'
  <2> SUFFICES ASSUME TypeOK, HistoryInv, ChronologyInv, [Next]_vars,
                      [\A p \in Players, e \in SeedEntries :
                         AdminSeedHistory(p, e) => e.updated_at <= now]_vars
               PROVE  ChronologyInv'
    OBVIOUS
  <2>1. CASE UNCHANGED vars
    BY <2>1 DEF vars, recordVars, ghostVars, erasureVars, ChronologyInv
  <2>2. CASE \A p \in Players, e \in SeedEntries : AdminSeedHistory(p, e) => e.updated_at <= now
    BY <2>2, ChronologyNext
  <2> QED
    BY <2>1, <2>2
<1>2. ASSUME TypeOK, HistoryInv, ChronologyInv PROVE HistorySinceComplete
  <2> SUFFICES ASSUME NEW p \in Kept PROVE SinceIsComplete(p)
    BY DEF HistorySinceComplete, Kept
  <2>1. p \in Players \ erased /\ historyCounter[p] \in Nat
    BY <1>2, SizesAssumption DEF Kept, TypeOK
  <2>2. CASE historyCounter[p] = 0
    BY <2>1, <2>2, NothingSince
  <2>3. CASE historyCounter[p] > 0
    BY <1>2, <2>1, <2>3, SomethingSince DEF ChronologyInv
  <2> QED
    BY <2>1, <2>2, <2>3
<1> QED
  BY <1>1, <1>2, ChronologyInit, HistoryAlways, PTL DEF Spec, ReplaysLieBack
====
