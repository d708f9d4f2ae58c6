---- MODULE Progress ----
(***************************************************************************)
(* The progress contract: each player's level, the history of level changes *)
(* and the Merkle commitment over it, with the calls the three other        *)
(* contracts make into it and the calls it makes into registration and      *)
(* verification.                                                            *)
(*                                                                          *)
(* A contract invocation is atomic and one that returns an error leaves no  *)
(* trace, so an action is a successful call and a failing call is a stutter.*)
(* Each storage key family is a variable; NONE is an absent key.  Instance  *)
(* and entry lifetimes (TTL) and emitted events are left out.               *)
(***************************************************************************)
EXTENDS HistoryMerkle, FiniteSets

CONSTANTS
  NONE,               \* an absent storage key
  MaxPlayerId,        \* the players registration hands out: 1..MaxPlayerId
  Admins,             \* addresses that may be admin
  Validators,         \* validator wallets, callers through verification
  Scouts,             \* scout wallets, callers through scout_access
  HISTORY_PAGE_SIZE,  \* entries per HistoryPage (8 in the source)
  PURGE_PAGE_SIZE,    \* entries erased per purge call (50 in the source)
  MAX_PAGE,           \* entries a paged getter returns at most (50)
  MAX_PAGES_SCAN,     \* pages get_history_since reads at most (10)
  U32_MAX,            \* the largest history index
  MaxTime,            \* bound on the ledger time
  MaxMilestones,      \* bound on a player's milestone counter
  MaxPurges,          \* bound on the number of purge calls
  ResetTargets,       \* levels the admin may reset a player to
  ImportLevels,       \* levels the admin may seed a profile with in registration
  LegacyLevels,       \* level sequences a pre-paging history may have
  SeedEntries         \* entries the admin may replay into the contract

Players == 1..MaxPlayerId
Index == 1..U32_MAX
Peer == {"registration", "verification", "scout_access"}
CODE_SCHEMA_VERSION == 1

Unverified == 0
VerifiedIdentity == 1
PerformanceMilestones == 2
EliteTier == 3
Level == {Unverified, VerifiedIdentity, PerformanceMilestones, EliteTier}

\* updated_at stands for the ledger timestamp and the ledger sequence, which
\* advance together.
ProgressEntry == [player_id: Players, old_level: Level, new_level: Level,
                  updated_by: Admins \cup Validators \cup Scouts,
                  updated_at: Nat, milestone_ref: Nat]

ASSUME SizesAssumption ==
  /\ MaxPlayerId \in Nat
  /\ U32_MAX \in Nat \ {0}
  /\ HISTORY_PAGE_SIZE \in Nat \ {0}
  /\ PURGE_PAGE_SIZE \in Nat \ {0}
  /\ MAX_PAGE \in Nat \ {0} /\ MAX_PAGES_SCAN \in Nat \ {0}
  /\ MaxTime \in Nat /\ MaxMilestones \in Nat /\ MaxPurges \in Nat

ASSUME NoneAssumption ==
  /\ NONE \notin Level \cup Admins \cup ProgressEntry
  /\ NONE \notin Seq(ProgressEntry)

ASSUME AddressAssumption == Admins # {} /\ Validators # {}

ASSUME InputAssumption ==
  /\ SeedEntries \subseteq ProgressEntry
  /\ ResetTargets \subseteq Level
  /\ ImportLevels \subseteq Level

\* A history from before paging is a chain of changes that starts at Unverified.
ASSUME LegacyAssumption ==
  \A levels \in LegacyLevels :
    /\ levels \in Seq(Level)
    /\ Len(levels) <= U32_MAX
    /\ \A i \in 1..Len(levels) :
         levels[i] # IF i = 1 THEN Unverified ELSE levels[i - 1]

VARIABLES
  admin, pendingAdmin,      \* Admin, PendingAdmin
  paused,                   \* Paused
  wired,                    \* peers whose *Contract pointer is set
  migrationActive,          \* MigrationActive
  migrationWindowSealed,    \* MigrationWindowSealed
  schemaVersion,            \* SchemaVersion
  migrationCursor,          \* MigrationCursor
  playerLevel,              \* PlayerLevel(p)
  historyCounter,           \* HistoryCounter(p), 0 when absent
  historyEntry,             \* HistoryEntry(p, i)
  historyPage,              \* HistoryPage(p, q)
  historyVec,               \* HistoryVec(p)
  historyRoot,              \* HistoryRoot(p)
  historyFrontier,          \* HistoryFrontier(p)
  milestoneCounter,         \* verification: MilestoneCounter(p)
  regLevel,                 \* registration: PlayerLevel(p), NONE if no profile
  regCounter,               \* registration: PlayerCounter
  now,                      \* the ledger clock
  \* What the properties need to know of the past; no guard reads these
  \* (but for the bound on purges).
  legacy,       \* players whose history predates paging
  seeded,       \* players with a replayed entry
  imported,     \* players whose profile was seeded in registration
  erased,       \* players for whom an erasure has been started
  purges,       \* number of purge calls so far
  purgeCursor,  \* the cursor the last purge call of the player returned
  strayed       \* players purged with a cursor no call had returned

configVars == <<admin, pendingAdmin, paused, wired>>
migrationVars == <<migrationActive, migrationWindowSealed>>
schemaVars == <<schemaVersion, migrationCursor>>
recordVars == <<historyCounter, historyEntry, historyPage, historyRoot, historyFrontier>>
peerVars == <<milestoneCounter, regLevel, regCounter>>
erasureVars == <<erased, purges, purgeCursor, strayed>>
ghostVars == <<legacy, seeded, imported, erasureVars>>
vars == <<configVars, migrationVars, schemaVars, playerLevel, recordVars,
          historyVec, peerVars, now, ghostVars>>

----
(***************************************************************************)
(* Helpers.                                                                 *)
(***************************************************************************)
OrElse(value, default) == IF value = NONE THEN default ELSE value
Least(a, b) == IF a < b THEN a ELSE b

\* get_current_level and get_level: an absent key reads as Unverified.
CurrentLevel(p) == OrElse(playerLevel[p], Unverified)

HistoryPageIndex(index) == (index - 1) \div HISTORY_PAGE_SIZE
PageNo == 0..HistoryPageIndex(U32_MAX)

\* The entries of one player stored at from..to, in order, absent ones skipped.
StoredEntries(entries, from, to) ==
  LET length == IF to < from THEN 0 ELSE to - from + 1
      range  == [k \in 1..length |-> entries[from + k - 1]]
  IN  Filter(range, ToSet(range) \ {NONE})

\* A page, or the stored entries of its range when the page is missing.
PageOrRebuilt(q, count, pages, entries) ==
  OrElse(pages[q],
         StoredEntries(entries, q * HISTORY_PAGE_SIZE + 1,
                       Least((q + 1) * HISTORY_PAGE_SIZE, count)))

\* Pages from..to of one player, concatenated.
ReadPages(from, to, count, pages, entries) ==
  FlattenSeq([k \in 1..(to - from + 1) |->
                PageOrRebuilt(from + k - 1, count, pages, entries)])

\* read_history_pages on one player's keys: every page in order, or the
\* legacy vector when nothing else is there.
ReadHistoryPages(count, pages, entries, vec) ==
  LET history == IF count = 0 THEN <<>>
                 ELSE ReadPages(0, HistoryPageIndex(count), count, pages, entries)
  IN  IF history = <<>> THEN OrElse(vec, <<>>) ELSE history

\* get_progress_history.
ProgressHistory(p) ==
  ReadHistoryPages(historyCounter[p], historyPage[p], historyEntry[p], historyVec[p])

Clamp(limit) == IF limit = 0 THEN 1 ELSE Least(limit, MAX_PAGE)

\* Mutant: entries on pages that were not scanned are not reported.
SinceTruncatedByLimit(matches, limit, older, first) == matches > Clamp(limit)

\* More entries match than the limit, or older pages were left unread.
SinceTruncated(matches, limit, older, first) ==
  matches > Clamp(limit) \/ (older = 0 /\ first > 0)

\* history_since: newest first, from the newest MAX_PAGES_SCAN pages, ended by
\* the first entry older than since or by the limit.
HistorySince(p, since, limit) ==
  LET count   == historyCounter[p]
      last    == HistoryPageIndex(count)
      first   == IF last < MAX_PAGES_SCAN THEN 0 ELSE last - MAX_PAGES_SCAN + 1
      scanned == Reverse(ReadPages(first, last, count, historyPage[p], historyEntry[p]))
      older   == SelectInSeq(scanned, LAMBDA e : e.updated_at < since)
      matched == IF older = 0 THEN scanned ELSE SubSeq(scanned, 1, older - 1)
  IN  IF count = 0 THEN [entries |-> <<>>, truncated |-> FALSE]
      ELSE [entries   |-> SubSeq(matched, 1, Least(Len(matched), Clamp(limit))),
            truncated |-> SinceTruncated(Len(matched), limit, older, first)]

GetHistoryCount(p) == historyCounter[p]
GetHistoryEntry(p, index) == historyEntry[p][index]
GetHistorySince(p, since, limit) == HistorySince(p, since, limit).entries
GetHistorySinceV2(p, since, limit) == HistorySince(p, since, limit)

\* get_progress_history_page: the entries offset + 1 to offset + limit.
GetProgressHistoryPage(p, offset, limit) ==
  StoredEntries(historyEntry[p], offset + 1, Least(offset + Clamp(limit), historyCounter[p]))

\* Mutant: a missing frontier is taken for an empty one.
LoadFrontierOrEmpty(p, priorCount, pages, entries) == OrElse(historyFrontier[p], <<>>)

\* The frontier an append folds onto.  A missing one is rebuilt from the
\* first priorCount entries of the history as it reads after the entry, the
\* counter and the page of this append have been written.
LoadOrBuildFrontier(p, priorCount, pages, entries) ==
  IF historyFrontier[p] # NONE THEN historyFrontier[p]
  ELSE IF priorCount = 0 THEN <<>>
  ELSE BuildFrontier(ReadHistoryPages(priorCount + 1, pages, entries, historyVec[p]),
                     priorCount)

\* Mutant: the new entry takes the index of the newest one.
AppendToHistoryInPlace(p, e, priorPage) ==
  LET index == IF historyCounter[p] = 0 THEN 1 ELSE historyCounter[p]
  IN  /\ historyCounter' = [historyCounter EXCEPT ![p] = index]
      /\ historyEntry' = [historyEntry EXCEPT ![p][index] = e]
      /\ historyPage' = [historyPage EXCEPT ![p][HistoryPageIndex(index)] = <<e>>]
      /\ UNCHANGED <<historyFrontier, historyRoot>>

\* The writes record_progress_entry and admin_seed_history share.  priorPage
\* is what the entry's page holds before the entry is pushed onto it.
AppendToHistory(p, e, priorPage) ==
  LET index == historyCounter[p] + 1
  IN  /\ historyCounter' = [historyCounter EXCEPT ![p] = index]
      /\ historyEntry' = [historyEntry EXCEPT ![p][index] = e]
      /\ historyPage' = [historyPage EXCEPT ![p][HistoryPageIndex(index)] =
                           Append(priorPage, e)]
      /\ historyFrontier' = [historyFrontier EXCEPT ![p] =
           FrontierAppend(LoadOrBuildFrontier(p, index - 1, historyPage'[p], historyEntry'[p]),
                          LeafHash(e))]
      /\ historyRoot' = [historyRoot EXCEPT ![p] = FrontierRoot(historyFrontier'[p])]

\* Mutant: a missing page is taken for an empty one.
PageOrEmpty(p) ==
  OrElse(historyPage[p][HistoryPageIndex(historyCounter[p] + 1)], <<>>)

\* The page of the next entry, filled from the entries that predate paging
\* when it does not exist yet.
PageOrStored(p) ==
  LET index == historyCounter[p] + 1
      q     == HistoryPageIndex(index)
  IN  OrElse(historyPage[p][q],
             StoredEntries(historyEntry[p], q * HISTORY_PAGE_SIZE + 1, index - 1))

\* Mutant: the index is incremented without the overflow check.
RecordProgressEntryUnchecked(p, old, new, by, ref) ==
  AppendToHistory(p, [player_id |-> p, old_level |-> old, new_level |-> new,
                      updated_by |-> by, updated_at |-> now, milestone_ref |-> ref],
                  PageOrStored(p))

RecordProgressEntry(p, old, new, by, ref) ==
  /\ historyCounter[p] < U32_MAX
  /\ AppendToHistory(p, [player_id |-> p, old_level |-> old, new_level |-> new,
                         updated_by |-> by, updated_at |-> now,
                         milestone_ref |-> ref],
                     PageOrStored(p))

\* Mutant: a player registration does not know is skipped, the call succeeds.
SetPlayerLevelLenient(p, level) ==
  regLevel' = IF regLevel[p] = NONE THEN regLevel ELSE [regLevel EXCEPT ![p] = level]

\* registration.set_player_level, called back in the same transaction: it
\* fails, and the whole call with it, for a player without a profile.
SetPlayerLevel(p, level) ==
  /\ regLevel[p] # NONE
  /\ regLevel' = [regLevel EXCEPT ![p] = level]

----
(***************************************************************************)
(* Level changes.                                                           *)
(***************************************************************************)
\* Mutant: the level is written before the entry reads the one it replaces.
ChangeLevelFirst(p, new, by, ref) ==
  /\ "registration" \in wired
  /\ RecordProgressEntry(p, new, new, by, ref)
  /\ playerLevel' = [playerLevel EXCEPT ![p] = new]
  /\ SetPlayerLevel(p, new)
  /\ UNCHANGED <<configVars, migrationVars, schemaVars, historyVec, regCounter,
                 now, ghostVars>>

ChangeLevel(p, new, by, ref) ==
  /\ "registration" \in wired
  /\ RecordProgressEntry(p, CurrentLevel(p), new, by, ref)
  /\ playerLevel' = [playerLevel EXCEPT ![p] = new]
  /\ SetPlayerLevel(p, new)
  /\ UNCHANGED <<configVars, migrationVars, schemaVars, historyVec, regCounter,
                 now, ghostVars>>

ResetPlayerLevel(p, target) ==
  /\ ~paused
  /\ CurrentLevel(p) # target
  /\ ChangeLevel(p, target, admin, 0)
  /\ UNCHANGED milestoneCounter

AdvanceLevelAuthorized(by, p, ref) ==
  /\ CurrentLevel(p) # EliteTier
  /\ ChangeLevel(p, CurrentLevel(p) + 1, by, ref)

\* advance_level from verification's commit_approved_milestone, which has just
\* created the milestone it refers to.
AdvanceLevel(v, p) ==
  /\ ~paused
  /\ "verification" \in wired
  /\ milestoneCounter[p] < MaxMilestones
  /\ milestoneCounter' = [milestoneCounter EXCEPT ![p] = @ + 1]
  /\ AdvanceLevelAuthorized(v, p, milestoneCounter[p] + 1)

\* advance_level_for_scout from scout_access: the reference must be one of
\* the milestones verification holds for the player.
AdvanceLevelForScout(s, p, ref) ==
  /\ ~paused
  /\ {"scout_access", "verification"} \subseteq wired
  /\ ref \in 1..milestoneCounter[p]
  /\ AdvanceLevelAuthorized(s, p, ref)
  /\ UNCHANGED milestoneCounter

----
(***************************************************************************)
(* Administration, wiring and the replay window.                            *)
(***************************************************************************)
UnchangedPlayers ==
  UNCHANGED <<playerLevel, recordVars, historyVec, peerVars, now, ghostVars>>

PauseContract ==
  /\ ~paused /\ paused' = TRUE
  /\ UNCHANGED <<admin, pendingAdmin, wired, migrationVars, schemaVars>>
  /\ UnchangedPlayers

UnpauseContract ==
  /\ paused /\ paused' = FALSE
  /\ UNCHANGED <<admin, pendingAdmin, wired, migrationVars, schemaVars>>
  /\ UnchangedPlayers

\* set_registration_contract, set_verification_contract and
\* set_scout_access_contract; verify_peer has checked the address's kind.
SetPeerContract(peer) ==
  /\ wired' = wired \cup {peer}
  /\ UNCHANGED <<admin, pendingAdmin, paused, migrationVars, schemaVars>>
  /\ UnchangedPlayers

ProposeAdmin(newAdmin) ==
  /\ pendingAdmin' = newAdmin
  /\ UNCHANGED <<admin, paused, wired, migrationVars, schemaVars>>
  /\ UnchangedPlayers

AcceptAdmin ==
  /\ pendingAdmin # NONE
  /\ admin' = pendingAdmin
  /\ pendingAdmin' = NONE
  /\ UNCHANGED <<paused, wired, migrationVars, schemaVars>>
  /\ UnchangedPlayers

OpenMigrationWindow ==
  /\ ~migrationWindowSealed
  /\ migrationActive' = TRUE
  /\ UNCHANGED <<configVars, migrationWindowSealed, schemaVars>>
  /\ UnchangedPlayers

CloseMigrationWindow ==
  /\ migrationActive
  /\ migrationActive' = FALSE
  /\ migrationWindowSealed' = TRUE
  /\ UNCHANGED <<configVars, schemaVars>>
  /\ UnchangedPlayers

\* admin_seed_history at the next index.  A replay of a stored entry changes
\* nothing, any other index or a mismatch with expected_root fails.
AdminSeedHistory(p, e) ==
  LET count == historyCounter[p]
      q     == HistoryPageIndex(count + 1)
      prev  == IF count = 0
               THEN [new_level |-> Unverified, updated_at |-> 0]
               ELSE historyEntry[p][count]
  IN  /\ migrationActive
      /\ count < U32_MAX
      /\ historyEntry[p][count + 1] = NONE
      /\ e.player_id = p
      /\ prev # NONE
      /\ e.old_level = prev.new_level
      /\ e.updated_at >= prev.updated_at
      /\ AppendToHistory(p, e, OrElse(historyPage[p][q], <<>>))
      /\ seeded' = seeded \cup {p}
      /\ UNCHANGED <<configVars, migrationVars, schemaVars, playerLevel, historyVec,
                     peerVars, now, legacy, imported, erasureVars>>

\* backfill_history_vec over the ids first..last.
BackfillHistoryVec(first, last) ==
  [p \in Players |->
     IF p \in first..last /\ historyCounter[p] > 0 /\ historyVec[p] = NONE
     THEN StoredEntries(historyEntry[p], 1, historyCounter[p])
     ELSE historyVec[p]]

\* migrate(target, maxItems): a version already reached changes nothing, an
\* older or unknown target fails.
Migrate(target, maxItems) ==
  /\ schemaVersion < target /\ target <= CODE_SCHEMA_VERSION
  /\ historyVec' = BackfillHistoryVec(migrationCursor + 1, migrationCursor + maxItems)
  /\ migrationCursor' = migrationCursor + maxItems
  /\ schemaVersion' = target
  /\ UNCHANGED <<configVars, migrationVars, playerLevel, recordVars, peerVars, now,
                 ghostVars>>

----
(***************************************************************************)
(* Erasure.                                                                 *)
(***************************************************************************)
\* Mutant: a HistoryPage is dropped only when the call covers its last entry.
WholePages(covered) == {q \in PageNo : (q + 1) * HISTORY_PAGE_SIZE \in covered}

\* The pages a purge call drops: every page an erased index belongs to.
PagesHit(covered) == {HistoryPageIndex(i) : i \in covered}

\* purge_player_data(p, cursor): the first page also drops the level, the root
\* and the legacy vector; every page drops the entries it covers and the whole
\* HistoryPage each belongs to; the last page drops the counter.
PurgePlayerData(p, cursor) ==
  LET total      == historyCounter[p]
      nextCursor == Least(cursor + PURGE_PAGE_SIZE, total)
      covered    == (cursor + 1)..nextCursor
      Drop(f)    == IF cursor = 0 THEN [f EXCEPT ![p] = NONE] ELSE f
  IN  /\ purges < MaxPurges /\ purges' = purges + 1
      /\ playerLevel' = Drop(playerLevel)
      /\ historyRoot' = Drop(historyRoot)
      /\ historyVec' = Drop(historyVec)
      /\ historyEntry' = [historyEntry EXCEPT ![p] =
           [i \in Index |-> IF i \in covered THEN NONE ELSE @[i]]]
      /\ historyPage' = [historyPage EXCEPT ![p] =
           [q \in PageNo |-> IF q \in PagesHit(covered) THEN NONE ELSE @[q]]]
      /\ historyCounter' = IF nextCursor < total THEN historyCounter
                           ELSE [historyCounter EXCEPT ![p] = 0]
      /\ erased' = erased \cup {p}
      /\ purgeCursor' = [purgeCursor EXCEPT ![p] = IF nextCursor < total THEN nextCursor ELSE 0]
      /\ strayed' = IF cursor \in {0, purgeCursor[p]} THEN strayed ELSE strayed \cup {p}
      /\ UNCHANGED <<configVars, migrationVars, schemaVars, historyFrontier, peerVars,
                     now, legacy, seeded, imported>>

----
(***************************************************************************)
(* The other contracts, as far as progress depends on them, and the clock.  *)
(***************************************************************************)
UnchangedProgress ==
  UNCHANGED <<configVars, migrationVars, schemaVars, playerLevel, recordVars,
              historyVec, ghostVars>>

\* verification commits a milestone without advancing: deferred by the
\* diversity rule, skipped at the top level, or progress not wired there.
CommitMilestoneOnly(p) ==
  /\ regLevel[p] # NONE
  /\ milestoneCounter[p] < MaxMilestones
  /\ milestoneCounter' = [milestoneCounter EXCEPT ![p] = milestoneCounter[p] + 1]
  /\ UnchangedProgress
  /\ UNCHANGED <<regLevel, regCounter, now>>

\* verification.purge_player_data has reached its end: the counter is gone.
PurgeMilestones(p) ==
  /\ milestoneCounter[p] > 0
  /\ milestoneCounter' = [milestoneCounter EXCEPT ![p] = 0]
  /\ UnchangedProgress
  /\ UNCHANGED <<regLevel, regCounter, now>>

\* registration.register_player: the next id, at Unverified, whatever is there.
RegisterPlayer ==
  /\ regCounter < MaxPlayerId
  /\ regCounter' = regCounter + 1
  /\ regLevel' = [regLevel EXCEPT ![regCounter + 1] = Unverified]
  /\ UnchangedProgress
  /\ UNCHANGED <<milestoneCounter, now>>

\* registration.admin_seed_player: a profile at a given id and level.  Neither
\* PlayerCounter nor progress learns of it.
AdminSeedPlayer(p, level) ==
  /\ regLevel[p] = NONE
  /\ regLevel' = [regLevel EXCEPT ![p] = level]
  /\ imported' = imported \cup {p}
  /\ UNCHANGED <<configVars, migrationVars, schemaVars, playerLevel, recordVars,
                 historyVec, milestoneCounter, regCounter, now, legacy, seeded,
                 erasureVars>>

\* registration.deregister_player.
DeregisterPlayer(p) ==
  /\ regLevel[p] # NONE
  /\ regLevel' = [regLevel EXCEPT ![p] = NONE]
  /\ UnchangedProgress
  /\ UNCHANGED <<milestoneCounter, regCounter, now>>

Tick ==
  /\ now < MaxTime
  /\ now' = now + 1
  /\ UnchangedProgress
  /\ UNCHANGED peerVars

----
\* The history a level sequence stands for in a contract that predates paging.
LegacyHistory(p, levels) ==
  [i \in DOMAIN levels |->
     LET old == IF i = 1 THEN Unverified ELSE levels[i - 1]
     IN  [player_id |-> p, old_level |-> old, new_level |-> levels[i],
          updated_by |-> IF levels[i] = old + 1 THEN CHOOSE v \in Validators : TRUE
                         ELSE CHOOSE a \in Admins : TRUE,
          updated_at |-> 0,
          milestone_ref |-> IF levels[i] = old + 1 THEN 1 ELSE 0]]

\* The state init_state writes.
InitFresh ==
  /\ schemaVersion = CODE_SCHEMA_VERSION
  /\ wired = {}
  /\ playerLevel = [p \in Players |-> NONE]
  /\ historyCounter = [p \in Players |-> 0]
  /\ historyEntry = [p \in Players |-> [i \in Index |-> NONE]]
  /\ historyVec = [p \in Players |-> NONE]
  /\ historyRoot = [p \in Players |-> NONE]
  /\ regLevel = [p \in Players |-> NONE]
  /\ regCounter = 0
  /\ milestoneCounter = [p \in Players |-> 0]
  /\ legacy = {}

\* A contract upgraded in place from the layout before paging: entries and
\* counters are there, pages and frontiers are not, and some players have
\* the unbounded vector.
InitUpgraded ==
  \E levels \in [Players -> LegacyLevels], withVec \in SUBSET Players :
    LET history == [p \in Players |-> LegacyHistory(p, levels[p])]
        hasHistory == {p \in Players : levels[p] # <<>>}
    IN  /\ schemaVersion = 0
        /\ wired = Peer
        /\ withVec \subseteq hasHistory
        /\ playerLevel = [p \in Players |->
             IF p \in hasHistory THEN levels[p][Len(levels[p])] ELSE NONE]
        /\ historyCounter = [p \in Players |-> Len(levels[p])]
        /\ historyEntry = [p \in Players |-> [i \in Index |->
             IF i <= Len(levels[p]) THEN history[p][i] ELSE NONE]]
        /\ historyVec = [p \in Players |-> IF p \in withVec THEN history[p] ELSE NONE]
        /\ historyRoot = [p \in Players |->
             IF p \in hasHistory
             THEN MthRange(LeafHashes(history[p]), 0, Len(history[p])) ELSE NONE]
        /\ regLevel = [p \in Players |-> OrElse(playerLevel[p], Unverified)]
        /\ regCounter = MaxPlayerId
        /\ milestoneCounter = [p \in Players |-> IF p \in hasHistory THEN 1 ELSE 0]
        /\ legacy = hasHistory

Init ==
  /\ admin \in Admins
  /\ pendingAdmin = NONE
  /\ paused = FALSE
  /\ migrationActive = FALSE
  /\ migrationWindowSealed = FALSE
  /\ migrationCursor = 0
  /\ historyPage = [p \in Players |-> [q \in PageNo |-> NONE]]
  /\ historyFrontier = [p \in Players |-> NONE]
  /\ now = 0
  /\ seeded = {} /\ imported = {} /\ erased = {} /\ strayed = {} /\ purges = 0
  /\ purgeCursor = [p \in Players |-> 0]
  /\ InitFresh \/ InitUpgraded

Next ==
  \/ \E p \in Players, target \in ResetTargets : ResetPlayerLevel(p, target)
  \/ \E v \in Validators, p \in Players : AdvanceLevel(v, p)
  \/ \E s \in Scouts, p \in Players, ref \in 1..MaxMilestones : AdvanceLevelForScout(s, p, ref)
  \/ PauseContract
  \/ UnpauseContract
  \/ \E peer \in Peer : SetPeerContract(peer)
  \/ \E a \in Admins : ProposeAdmin(a)
  \/ AcceptAdmin
  \/ OpenMigrationWindow
  \/ CloseMigrationWindow
  \/ \E p \in Players, e \in SeedEntries : AdminSeedHistory(p, e)
  \/ \E target \in 0..2, maxItems \in 0..MaxPlayerId : Migrate(target, maxItems)
  \/ \E p \in Players, cursor \in 0..(U32_MAX - 1) : PurgePlayerData(p, cursor)
  \/ \E p \in Players : CommitMilestoneOnly(p)
  \/ \E p \in Players : PurgeMilestones(p)
  \/ RegisterPlayer
  \/ \E p \in Players, level \in ImportLevels : AdminSeedPlayer(p, level)
  \/ \E p \in Players : DeregisterPlayer(p)
  \/ Tick

Spec == Init /\ [][Next]_vars

----
(***************************************************************************)
(* Properties.                                                              *)
(***************************************************************************)
\* Every storage key holds a value of its declared type, or is absent: the
\* history counter stays within u32 and the purge cursors within it.  What
\* pages, roots and frontiers hold is derived from the entries and stated by
\* PagesReadBackEntries and RootCommitsToHistory.
TypeOK ==
  /\ admin \in Admins
  /\ pendingAdmin \in Admins \cup {NONE}
  /\ paused \in BOOLEAN
  /\ wired \subseteq Peer
  /\ migrationActive \in BOOLEAN
  /\ migrationWindowSealed \in BOOLEAN
  /\ schemaVersion \in 0..CODE_SCHEMA_VERSION
  /\ migrationCursor \in Nat
  /\ playerLevel \in [Players -> Level \cup {NONE}]
  /\ historyCounter \in [Players -> 0..U32_MAX]
  /\ historyEntry \in [Players -> [Index -> ProgressEntry \cup {NONE}]]
  /\ DOMAIN historyPage = Players
  /\ \A p \in Players : DOMAIN historyPage[p] = PageNo
  /\ DOMAIN historyVec = Players
  /\ DOMAIN historyRoot = Players
  /\ DOMAIN historyFrontier = Players
  /\ milestoneCounter \in [Players -> Nat]
  /\ regLevel \in [Players -> Level \cup {NONE}]
  /\ regCounter \in 0..MaxPlayerId
  /\ now \in Nat
  /\ legacy \subseteq Players
  /\ seeded \subseteq Players
  /\ imported \subseteq Players
  /\ erased \subseteq Players
  /\ purges \in Nat
  /\ purgeCursor \in [Players -> 0..U32_MAX]
  /\ strayed \subseteq Players

\* The entries 1..count of a player, whatever the pages say.
Entries(p) == [i \in 1..historyCounter[p] |-> historyEntry[p][i]]

\* The level the first i entries of a player's history lead to.
LevelAfter(p, i) == IF i = 0 THEN Unverified ELSE historyEntry[p][i].new_level

\* For a player whose history is the contract's own (not replayed, not erased),
\* advance_level and reset_player_level keep history and level in step: the
\* entries 1..count exist and nothing beyond, each continues from the level
\* the previous one reached, a change with a milestone climbs exactly one tier,
\* only an admin reset (milestone_ref 0) moves otherwise, and the stored level
\* is the one the last entry leads to.
HistoryExplainsLevel ==
  \A p \in Players \ (seeded \cup erased) :
    /\ \A i \in Index : historyEntry[p][i] # NONE <=> i <= historyCounter[p]
    /\ \A i \in 1..historyCounter[p] :
         LET e == historyEntry[p][i]
         IN  /\ e.old_level = LevelAfter(p, i - 1)
             /\ e.new_level # e.old_level
             /\ e.milestone_ref # 0 => e.new_level = e.old_level + 1
             /\ e.milestone_ref = 0 => e.updated_by \in Admins
    /\ CurrentLevel(p) = LevelAfter(p, historyCounter[p])

\* registration's copy of a registered player's level, written back by
\* set_player_level in the same transaction, is the level progress reports,
\* for every player who registered there, until an erasure has been started.
RegistrationMirrorsLevel ==
  \A p \in Players \ (erased \cup imported) : regLevel[p] # NONE => regLevel[p] = CurrentLevel(p)

\* The bounded pages, with missing ones rebuilt, read back exactly the entries
\* 1..count, for players who began before paging too (record_progress_entry
\* fills the page a legacy player lacks before pushing onto it); so do the walks
\* by offset and one by one, with any limit.
PagesReadBackEntries ==
  \A p \in Players \ (erased \cup (legacy \cap seeded)) :
    GetHistoryCount(p) > 0 =>
      /\ ProgressHistory(p) = [i \in 1..GetHistoryCount(p) |-> GetHistoryEntry(p, i)]
      /\ \A limit \in 0..(MAX_PAGE + 1) :
           Entries(p) = FlattenSeq([k \in 1..GetHistoryCount(p) |->
             GetProgressHistoryPage(p, (k - 1) * Clamp(limit), limit)])

\* The stored root is the tree hash of the history the getters return, so a
\* proof from get_history_proof verifies against get_progress_root.
CommitsToHistory(p) ==
  historyCounter[p] > 0 =>
    historyRoot[p] = MthRange(LeafHashes(ProgressHistory(p)), 0, Len(ProgressHistory(p)))

RootCommitsToHistory ==
  \A p \in Players \ (erased \cup (legacy \cap seeded)) : CommitsToHistory(p)

\* History is append-only: no step of any actor changes or removes an entry of
\* a player who has not been erased, or shortens the history.
HistoryAppendOnly ==
  [][\A p \in Players \ erased' :
       /\ historyCounter'[p] >= historyCounter[p]
       /\ \A i \in 1..historyCounter[p] : historyEntry'[p][i] = historyEntry[p][i]]_vars

\* close_migration_window is irreversible: once the window has been sealed it
\* never opens again and no entry is replayed into anyone's history.
SealedForever ==
  [][migrationWindowSealed =>
       migrationWindowSealed' /\ ~migrationActive' /\ seeded' = seeded]_vars

\* What get_history_since_v2 returns is the newest part of the entries at or
\* after the given time, and all of them unless it says truncated: the scan may
\* stop at the first older entry because live appends are chronological.
SinceIsComplete(p) ==
  \A since \in 0..MaxTime, limit \in 0..(MAX_PAGE + 1) :
    LET recent   == {e \in ToSet(Entries(p)) : e.updated_at >= since}
        matching == Reverse(Filter(Entries(p), recent))
        result   == GetHistorySinceV2(p, since, limit)
    IN  /\ IsPrefix(GetHistorySince(p, since, limit), matching)
        /\ result.truncated \/ result.entries = matching

HistorySinceComplete ==
  \A p \in Players \ (erased \cup (legacy \cap seeded)) : SinceIsComplete(p)

\* When an erasure that follows the returned cursors has ended (the counter is
\* gone), no HistoryEntry and no HistoryPage of the player is left, although a
\* purge page covers part of a history page and entries may be appended
\* between two calls.
PurgeLeavesNoHistory ==
  \A p \in erased \ strayed :
    historyCounter[p] = 0 =>
      /\ \A i \in Index : historyEntry[p][i] = NONE
      /\ \A q \in PageNo : historyPage[p][q] = NONE
====
