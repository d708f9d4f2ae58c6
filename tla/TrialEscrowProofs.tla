---- MODULE TrialEscrowProofs ----
(***************************************************************************)
(* The trial escrow of scout_access keeps the promise of EscrowLedger, for  *)
(* any scouts, players, amounts, expiries and bounds.                       *)
(***************************************************************************)
EXTENDS TrialEscrow, DataTheorems

\* The part of TypeOK the argument needs: the list of the sweep and the
\* balance play no part in what becomes of a deposit.
LedgerTyped ==
  /\ now \in Nat
  /\ trialCounter \in [Players -> 0..MaxOffers]
  /\ trialOffer \in [Key -> Scouts \cup {NONE}]
  /\ trialEscrow \in [Key -> TrialEscrowRecord \cup {NONE}]
  /\ made \in 0..MaxDeposits
  /\ terms \in [Deposit -> Terms \cup {NONE}]
  /\ depositOf \in [Key -> 0..made]
  /\ repaid \in [Deposit -> [Scouts -> Nat]]

\* An escrow record still says what was paid in, by whom and for whom: its
\* offer, its key and its amount.
EscrowKeepsTerms ==
  \A k \in Key : Live(k) /\ depositOf[k] # 0 =>
    terms[depositOf[k]] =
      [scout |-> trialOffer[k], player |-> k[1], amount |-> trialEscrow[k].amount]

OneEscrowPerDeposit ==
  \A k, l \in Key :
    Live(k) /\ Live(l) /\ depositOf[k] # 0 /\ depositOf[k] = depositOf[l] => k = l

\* Only a purge call leaves an escrow beyond the player's counter, where the
\* next offer takes its key.
UncountedWasErased ==
  \A k \in Key : Live(k) /\ k[2] > trialCounter[k[1]] => k[1] \in erased

LedgerIInv ==
  LedgerTyped /\ NoOrphanEscrow /\ EscrowKeepsTerms /\ OneEscrowPerDeposit
    /\ UncountedWasErased

----
(***************************************************************************)
(* What a step keeps.                                                       *)
(***************************************************************************)
LEMMA KeyParts == \A k \in Key : k[1] \in Players /\ k[2] \in Index /\ k = <<k[1], k[2]>>
  BY DEF Key

LEMMA LedgerInvInit == Init => LedgerIInv
  BY EscrowConstants
     DEF Init, LedgerIInv, LedgerTyped, NoOrphanEscrow, EscrowKeepsTerms,
         OneEscrowPerDeposit, UncountedWasErased, Live, Deposit

LEMMA LogStep ==
  ASSUME LedgerIInv,
         NEW s \in Scouts, NEW p \in Players, NEW amount \in EscrowAmounts,
         NEW secs \in ExpirySecs, LogTrialOffer(s, p, amount, secs)
  PROVE  LedgerIInv'
<1> USE DEF LedgerIInv
<1>1. PICK i \in Index : i = trialCounter[p] + 1 /\ i = NextTrialIndex(p) /\ i \in 0..MaxOffers
  BY EscrowConstants DEF LogTrialOffer, NextTrialIndex, Index, LedgerTyped
<1>k. PICK k \in Key : k = <<p, i>>
  BY DEF Key
<1>2. /\ trialOffer' = [trialOffer EXCEPT ![k] = s]
      /\ trialCounter' = [trialCounter EXCEPT ![p] = i]
      /\ trialEscrow' = [trialEscrow EXCEPT
                           ![k] = [amount |-> amount, expires_at |-> now + secs]]
      /\ made' = made + 1
      /\ terms' = [terms EXCEPT ![made + 1] =
                     [scout |-> s, player |-> p, amount |-> amount]]
      /\ depositOf' = [depositOf EXCEPT ![k] = made + 1]
      /\ now' = now /\ erased' = erased /\ repaid' = repaid
      /\ made < MaxDeposits
  BY <1>1, <1>k, Zenon DEF LogTrialOffer, configVars
<1>3. [amount |-> amount, expires_at |-> now + secs] \in TrialEscrowRecord
  BY EscrowConstants DEF TrialEscrowRecord, LedgerTyped
<1>4. LedgerTyped'
  <2>1. trialEscrow' \in [Key -> TrialEscrowRecord \cup {NONE}]
    BY <1>1, <1>k, <1>2, <1>3 DEF LedgerTyped
  <2>2. terms' \in [Deposit -> Terms \cup {NONE}]
    BY <1>2 DEF LedgerTyped, Terms
  <2>3. made' \in 0..MaxDeposits /\ depositOf' \in [Key -> 0..made']
    BY <1>1, <1>k, <1>2, EscrowConstants DEF LedgerTyped
  <2>4. trialOffer' \in [Key -> Scouts \cup {NONE}] /\ trialCounter' \in [Players -> 0..MaxOffers]
    BY <1>1, <1>k, <1>2 DEF LedgerTyped
  <2> QED
    BY <1>2, <2>1, <2>2, <2>3, <2>4 DEF LedgerTyped
<1>5. /\ Live(k)' /\ trialOffer'[k] = s /\ trialEscrow'[k].amount = amount
      /\ depositOf'[k] = made + 1 /\ made + 1 # 0
      /\ terms'[made + 1] = [scout |-> s, player |-> p, amount |-> amount]
      /\ made + 1 \in Deposit /\ \A d \in 1..made : terms'[d] = terms[d]
  <2>1. made + 1 # 0 /\ made + 1 \in Deposit /\ 1..made \subseteq Deposit
    BY <1>2, EscrowConstants DEF LedgerTyped, Deposit
  <2>2. terms'[made + 1] = [scout |-> s, player |-> p, amount |-> amount]
        /\ \A d \in 1..made : terms'[d] = terms[d]
    BY <1>2, <2>1 DEF LedgerTyped
  <2>3. trialOffer'[k] = s /\ depositOf'[k] = made + 1
        /\ trialEscrow'[k] = [amount |-> amount, expires_at |-> now + secs]
    BY <1>1, <1>k, <1>2 DEF LedgerTyped
  <2>4. trialEscrow'[k] # NONE
    BY <1>3, <2>3, EscrowConstants
  <2>5. trialEscrow'[k].amount = amount
    BY <2>3
  <2> QED
    BY <2>1, <2>2, <2>3, <2>4, <2>5 DEF Live
<1>6. \A l \in Key : l # k =>
        /\ Live(l)' <=> Live(l)
        /\ trialOffer'[l] = trialOffer[l] /\ trialEscrow'[l] = trialEscrow[l]
        /\ depositOf'[l] = depositOf[l] /\ depositOf[l] \in 0..made
  BY <1>1, <1>k, <1>2 DEF Live, LedgerTyped
<1>7. NoOrphanEscrow'
  BY <1>1, <1>k, <1>5, <1>6, EscrowConstants DEF NoOrphanEscrow
<1>8. EscrowKeepsTerms'
  BY <1>1, <1>k, <1>5, <1>6 DEF EscrowKeepsTerms
<1>9. OneEscrowPerDeposit'
  <2>1. \A l \in Key : l # k => depositOf'[l] # made + 1
    BY <1>6 DEF LedgerTyped
  <2> QED
    BY <1>1, <1>k, <1>5, <1>6, <2>1 DEF OneEscrowPerDeposit
<1>10. UncountedWasErased'
  <2> SUFFICES ASSUME NEW l \in Key, Live(l)', l[2] > trialCounter'[l[1]]
               PROVE  l[1] \in erased
    BY <1>2 DEF UncountedWasErased
  <2>1. l[1] \in Players /\ l[2] \in Nat /\ trialCounter[l[1]] \in Nat
    BY KeyParts, EscrowConstants DEF Index, LedgerTyped
  <2>2. l # k
    BY <1>1, <1>k, <1>2 DEF LedgerTyped, Index
  <2>3. l[2] > trialCounter[l[1]]
    <3>1. CASE l[1] = p
      <4>1. trialCounter'[p] = i
        BY <1>2 DEF LedgerTyped
      <4> QED
        BY <1>1, <1>k, <2>1, <3>1, <4>1
    <3>2. CASE l[1] # p
      <4>1. trialCounter'[l[1]] = trialCounter[l[1]]
        BY <1>2, <2>1, <3>2 DEF LedgerTyped
      <4> QED
        BY <4>1
    <3> QED
      BY <3>1, <3>2
  <2> QED
    BY <1>6, <2>2, <2>3 DEF UncountedWasErased
<1> QED
  BY <1>4, <1>7, <1>8, <1>9, <1>10

\* Escrows are given up, the offers and the payments behind them stay.
LEMMA EscrowsGivenUpStep ==
  ASSUME LedgerIInv, NEW keys,
         trialEscrow' = [k \in Key |-> IF k \in keys THEN NONE ELSE trialEscrow[k]],
         repaid' \in [Deposit -> [Scouts -> Nat]],
         now' = now, trialCounter' = trialCounter, trialOffer' = trialOffer,
         made' = made, terms' = terms, depositOf' = depositOf, erased' = erased
  PROVE  LedgerIInv'
<1> USE DEF LedgerIInv
<1>1. \A k \in Key : Live(k)' => Live(k) /\ trialEscrow'[k] = trialEscrow[k]
  BY DEF Live
<1>2. LedgerTyped'
  BY DEF LedgerTyped
<1>3. NoOrphanEscrow' /\ EscrowKeepsTerms' /\ OneEscrowPerDeposit'
  BY <1>1 DEF NoOrphanEscrow, EscrowKeepsTerms, OneEscrowPerDeposit
<1>4. UncountedWasErased'
  BY <1>1 DEF UncountedWasErased
<1> QED
  BY <1>2, <1>3, <1>4

\* A refund of live escrows leaves the amounts paid back natural numbers.
LEMMA RefundStep ==
  ASSUME LedgerIInv, NEW keys \in SUBSET {k \in Key : Live(k)}, RefundEscrows(keys),
         now' = now, UNCHANGED <<offerVars, depositOf>>
  PROVE  LedgerIInv'
<1>1. \A k \in keys : k \in Key /\ trialEscrow[k].amount \in Nat
  BY EscrowConstants DEF LedgerIInv, LedgerTyped, Live, TrialEscrowRecord
<1>2. repaid' \in [Deposit -> [Scouts -> Nat]]
  <2> SUFFICES ASSUME NEW d \in Deposit, NEW s \in Scouts
               PROVE  (IF \E k \in keys : depositOf[k] = d /\ trialOffer[k] = s
                       THEN repaid[d][s] + trialEscrow[CHOOSE k \in keys :
                              depositOf[k] = d /\ trialOffer[k] = s].amount
                       ELSE repaid[d][s]) \in Nat
    BY DEF RefundEscrows
  <2>1. repaid[d][s] \in Nat
    BY DEF LedgerIInv, LedgerTyped
  <2>2. CASE \E k \in keys : depositOf[k] = d /\ trialOffer[k] = s
    <3>1. PICK k \in keys : k = CHOOSE l \in keys : depositOf[l] = d /\ trialOffer[l] = s
      BY <2>2
    <3>2. trialEscrow[k].amount \in Nat
      BY <1>1
    <3>3. repaid[d][s] + trialEscrow[k].amount \in Nat
      BY <2>1, <3>2
    <3> QED
      BY <2>2, <3>1, <3>3
  <2> QED
    BY <2>1, <2>2
<1> QED
  BY <1>2, EscrowsGivenUpStep DEF RefundEscrows, offerVars

LEMMA PurgeStep ==
  ASSUME LedgerIInv, NEW p \in Players, NEW cursor, PurgePlayerData(p, cursor)
  PROVE  LedgerIInv'
<1> USE DEF LedgerIInv
<1>1. /\ now' = now /\ made' = made /\ terms' = terms /\ depositOf' = depositOf
      /\ repaid' = repaid /\ erased' = erased \cup {p}
  BY Zenon DEF PurgePlayerData, configVars
<1>2. \A k \in PurgedKeys(p, cursor) : k[1] = p
  BY DEF PurgedKeys
<1>3. \A k \in Key :
        Live(k)' => /\ Live(k) /\ k \notin PurgedKeys(p, cursor)
                    /\ trialEscrow'[k] = trialEscrow[k] /\ trialOffer'[k] = trialOffer[k]
  BY Zenon DEF PurgePlayerData, Live
<1>4. trialCounter' \in [Players -> 0..MaxOffers]
      /\ \A q \in Players : q # p => trialCounter'[q] = trialCounter[q]
  BY EscrowConstants DEF PurgePlayerData, LedgerTyped
<1>5. LedgerTyped'
  BY <1>1, <1>4 DEF LedgerTyped, PurgePlayerData
<1>6. NoOrphanEscrow' /\ EscrowKeepsTerms' /\ OneEscrowPerDeposit'
  BY <1>1, <1>3 DEF NoOrphanEscrow, EscrowKeepsTerms, OneEscrowPerDeposit
<1>7. UncountedWasErased'
  BY <1>1, <1>3, <1>4, KeyParts DEF UncountedWasErased
<1> QED
  BY <1>5, <1>6, <1>7

\* The key a replayed offer takes holds no escrow: it holds no offer.
LEMMA SeedStep ==
  ASSUME LedgerIInv, NEW p \in Players, NEW s \in Scouts,
         NEW escrow \in SeedEscrows \cup {NONE}, AdminSeedTrialOffer(p, s, escrow)
  PROVE  /\ LedgerIInv'
         /\ \A k \in Key : depositOf'[k] # 0 /\ Live(k)' =>
              Live(k) /\ depositOf'[k] = depositOf[k]
         /\ \A k \in Key : Live(k) => Live(k)' /\ depositOf'[k] = depositOf[k]
<1> USE DEF LedgerIInv
<1>1. PICK i \in Index : i = trialCounter[p] + 1 /\ i = NextTrialIndex(p) /\ i \in 0..MaxOffers
  BY EscrowConstants DEF AdminSeedTrialOffer, NextTrialIndex, Index, LedgerTyped
<1>k. PICK k \in Key : k = <<p, i>>
  BY DEF Key
<1>2. /\ trialOffer[k] = NONE
      /\ trialOffer' = [trialOffer EXCEPT ![k] = s]
      /\ trialCounter' = [trialCounter EXCEPT ![p] = i]
      /\ trialEscrow' = IF escrow = NONE THEN trialEscrow
                        ELSE [trialEscrow EXCEPT ![k] = escrow]
      /\ depositOf' = [depositOf EXCEPT ![k] = 0]
      /\ now' = now /\ made' = made /\ terms' = terms /\ erased' = erased
      /\ repaid' = repaid
  BY <1>1, <1>k, Zenon DEF AdminSeedTrialOffer, configVars, ledgerVars
<1>3. ~Live(k)
  BY <1>2 DEF NoOrphanEscrow
<1>4. trialEscrow' \in [Key -> TrialEscrowRecord \cup {NONE}]
  BY <1>2, EscrowConstants DEF LedgerTyped
<1>5. LedgerTyped'
  BY <1>1, <1>2, <1>4 DEF LedgerTyped
<1>6. trialOffer'[k] = s /\ depositOf'[k] = 0
  BY <1>2 DEF LedgerTyped
<1>7. \A l \in Key : l # k =>
        /\ Live(l)' <=> Live(l)
        /\ trialOffer'[l] = trialOffer[l] /\ trialEscrow'[l] = trialEscrow[l]
        /\ depositOf'[l] = depositOf[l]
  BY <1>2 DEF Live, LedgerTyped
<1>8. NoOrphanEscrow'
  BY <1>6, <1>7, EscrowConstants DEF NoOrphanEscrow
<1>9. EscrowKeepsTerms'
  BY <1>2, <1>6, <1>7 DEF EscrowKeepsTerms
<1>10. OneEscrowPerDeposit'
  BY <1>6, <1>7 DEF OneEscrowPerDeposit
<1>11. UncountedWasErased'
  <2> SUFFICES ASSUME NEW l \in Key, Live(l)', l[2] > trialCounter'[l[1]]
               PROVE  l[1] \in erased
    BY <1>2 DEF UncountedWasErased
  <2>1. l[1] \in Players /\ l[2] \in Nat /\ trialCounter[l[1]] \in Nat
    BY KeyParts, EscrowConstants DEF Index, LedgerTyped
  <2>2. trialCounter'[p] = i /\ (l[1] # p => trialCounter'[l[1]] = trialCounter[l[1]])
    BY <1>2, <2>1 DEF LedgerTyped
  <2>3. l # k
    BY <1>1, <1>k, <2>2 DEF Index
  <2>4. l[2] > trialCounter[l[1]]
    BY <1>1, <2>1, <2>2
  <2> QED
    BY <1>7, <2>3, <2>4 DEF UncountedWasErased
<1> QED
  BY <1>3, <1>5, <1>6, <1>7, <1>8, <1>9, <1>10, <1>11

----
(***************************************************************************)
(* What a step is to the ledger.                                            *)
(***************************************************************************)
\* The escrows on record are what is held for a scout: a step that leaves them
\* and the payments alone is a stutter of the ledger.
LEMMA LedgerStutter ==
  ASSUME UNCHANGED <<trialEscrow, depositOf, ledgerVars>>
  PROVE  UNCHANGED Ledger!vars
  BY DEF Open, Live, ledgerVars, Ledger!vars

LEMMA LogIsMakeDeposit ==
  ASSUME LedgerIInv,
         NEW s \in Scouts, NEW p \in Players, NEW amount \in EscrowAmounts,
         NEW secs \in ExpirySecs, LogTrialOffer(s, p, amount, secs)
  PROVE  Ledger!Next
<1> USE DEF LedgerIInv
<1>1. PICK i \in Index : i = trialCounter[p] + 1 /\ i = NextTrialIndex(p) /\ i \in 0..MaxOffers
  BY EscrowConstants DEF LogTrialOffer, NextTrialIndex, Index, LedgerTyped
<1>k. PICK k \in Key : k = <<p, i>>
  BY DEF Key
<1>d. PICK t \in Terms : t = [scout |-> s, player |-> p, amount |-> amount]
  BY DEF Terms
<1> DEFINE overwritten == {d \in Open : Live(k) /\ depositOf[k] = d}
           entry == [amount |-> amount, expires_at |-> now + secs]
<1>2. /\ trialEscrow' = [trialEscrow EXCEPT ![k] = entry]
      /\ made' = made + 1 /\ made < MaxDeposits
      /\ terms' = [terms EXCEPT ![made + 1] = t]
      /\ depositOf' = [depositOf EXCEPT ![k] = made + 1]
      /\ UNCHANGED <<accepted, erased, repaid>>
  BY <1>1, <1>k, <1>d, Zenon DEF LogTrialOffer
<1>3. made + 1 \in Deposit /\ depositOf'[k] = made + 1 /\ trialEscrow'[k] # NONE
  <2>1. entry \in TrialEscrowRecord
    BY EscrowConstants DEF TrialEscrowRecord, LedgerTyped
  <2>2. trialEscrow'[k] = entry /\ entry # NONE
    BY <1>2, <2>1, EscrowConstants DEF LedgerTyped
  <2>3. made + 1 \in Deposit /\ depositOf'[k] = made + 1
    BY <1>2, EscrowConstants DEF LedgerTyped, Deposit
  <2> QED
    BY <2>2, <2>3
<1>4. \A l \in Key : l # k =>
        /\ trialEscrow'[l] = trialEscrow[l] /\ depositOf'[l] = depositOf[l]
        /\ depositOf[l] # made + 1
  BY <1>2 DEF LedgerTyped
<1>5. Open' = (Open \ overwritten) \cup {made + 1}
  <2>1. ASSUME NEW d \in Open' PROVE d \in (Open \ overwritten) \cup {made + 1}
    <3>1. PICK l \in Key : trialEscrow'[l] # NONE /\ depositOf'[l] = d /\ d \in Deposit
      BY <2>1 DEF Open, Live
    <3>2. CASE l = k
      BY <1>3, <3>1, <3>2
    <3>3. CASE l # k
      <4>1. Live(l) /\ depositOf[l] = d /\ d # 0
        BY <1>4, <3>1, <3>3 DEF Live, Deposit
      <4>2. d \in Open
        BY <3>1, <4>1 DEF Open
      <4>3. d \notin overwritten
        BY <3>3, <4>1 DEF OneEscrowPerDeposit
      <4> QED
        BY <4>2, <4>3
    <3> QED
      BY <3>2, <3>3
  <2>2. ASSUME NEW d \in Open \ overwritten PROVE d \in Open'
    <3>1. PICK l \in Key : Live(l) /\ depositOf[l] = d /\ d \in Deposit
      BY <2>2 DEF Open
    <3>2. l # k
      BY <2>2, <3>1
    <3>3. trialEscrow'[l] # NONE /\ depositOf'[l] = d
      BY <1>4, <3>1, <3>2 DEF Live
    <3> QED
      BY <3>1, <3>3 DEF Open, Live
  <2>3. made + 1 \in Open'
    BY <1>3 DEF Open, Live
  <2> QED
    BY <2>1, <2>2, <2>3
<1>6. Ledger!Forfeitable(overwritten)
  <2>1. ASSUME NEW d \in overwritten PROVE terms[d].player \in erased
    <3>1. Live(k) /\ depositOf[k] = d /\ d \in Deposit
      BY <2>1 DEF Open
    <3>2. d # 0
      BY <3>1 DEF Deposit
    <3>3. k[1] \in erased
      BY <1>1, <1>k, <3>1 DEF UncountedWasErased, LedgerTyped
    <3>4. terms[d].player = k[1]
      <4>1. terms[d] = [scout |-> trialOffer[k], player |-> k[1],
                        amount |-> trialEscrow[k].amount]
        BY <3>1, <3>2, Zenon DEF EscrowKeepsTerms
      <4> QED
        BY <4>1
    <3> QED
      BY <3>3, <3>4
  <2> QED
    BY <2>1 DEF Ledger!Forfeitable
<1>7. Ledger!MakeDeposit(t, overwritten)
  BY <1>2, <1>5, <1>6 DEF Ledger!MakeDeposit
<1>8. t \in Ledger!Terms /\ overwritten \in SUBSET Open
  BY <1>d DEF Ledger!Terms, Terms
<1> QED
  BY <1>7, <1>8 DEF Ledger!Next

LEMMA RefundIsPayBack ==
  ASSUME LedgerIInv, NEW keys \in SUBSET {k \in Key : Live(k)}, RefundEscrows(keys),
         depositOf' = depositOf
  PROVE  Ledger!Next
<1> USE DEF LedgerIInv
<1> DEFINE returned == {d \in Deposit : \E k \in keys : depositOf[k] = d}
<1>1. /\ trialEscrow' = [k \in Key |-> IF k \in keys THEN NONE ELSE trialEscrow[k]]
      /\ UNCHANGED <<made, terms, accepted, erased>>
  BY Zenon DEF RefundEscrows
<1>2. returned \in SUBSET Open
  BY DEF Open
<1>3. Open' = Open \ returned
  <2>1. \A k \in Key : trialEscrow'[k] # NONE <=> Live(k) /\ k \notin keys
    BY <1>1 DEF Live
  <2>2. ASSUME NEW d \in Open' PROVE d \in Open \ returned
    <3>1. PICK k \in Key : Live(k) /\ k \notin keys /\ depositOf[k] = d /\ d \in Deposit
      BY <2>1, <2>2 DEF Open, Live
    <3>2. ASSUME NEW l \in keys, depositOf[l] = d PROVE FALSE
      BY <3>1, <3>2 DEF OneEscrowPerDeposit, Deposit
    <3> QED
      BY <3>1, <3>2 DEF Open
  <2>3. ASSUME NEW d \in Open \ returned PROVE d \in Open'
    BY <2>1, <2>3 DEF Open, Live
  <2> QED
    BY <2>2, <2>3
<1>4. \A d \in Deposit : repaid'[d] = IF d \in returned
        THEN [repaid[d] EXCEPT ![terms[d].scout] = @ + terms[d].amount]
        ELSE repaid[d]
  <2> SUFFICES ASSUME NEW d \in Deposit
               PROVE  repaid'[d] = IF d \in returned
                        THEN [repaid[d] EXCEPT ![terms[d].scout] = @ + terms[d].amount]
                        ELSE repaid[d]
    OBVIOUS
  <2>1. repaid'[d] = [s \in Scouts |->
          IF \E k \in keys : depositOf[k] = d /\ trialOffer[k] = s
          THEN repaid[d][s] + trialEscrow[CHOOSE k \in keys :
                 depositOf[k] = d /\ trialOffer[k] = s].amount
          ELSE repaid[d][s]]
    BY Zenon DEF RefundEscrows
  <2>2. repaid[d] \in [Scouts -> Nat]
    BY DEF LedgerTyped
  <2>3. CASE d \notin returned
    <3>1. repaid'[d] = [s \in Scouts |-> repaid[d][s]]
      BY <2>1, <2>3
    <3> QED
      BY <2>2, <2>3, <3>1
  <2>4. CASE d \in returned
    <3>1. PICK k \in keys : depositOf[k] = d
      BY <2>4
    <3>2. \A l \in keys : depositOf[l] = d => l = k
      BY <3>1 DEF OneEscrowPerDeposit, Deposit
    <3>3. terms[d] = [scout |-> trialOffer[k], player |-> k[1],
                      amount |-> trialEscrow[k].amount]
      <4>1. k \in Key /\ Live(k) /\ depositOf[k] # 0
        BY <3>1 DEF Deposit
      <4> QED
        BY <3>1, <4>1, Zenon DEF EscrowKeepsTerms
    <3>4. terms[d].scout = trialOffer[k] /\ terms[d].amount = trialEscrow[k].amount
      BY <3>3
    <3>5. \A s \in Scouts :
            /\ (\E l \in keys : depositOf[l] = d /\ trialOffer[l] = s) <=> s = trialOffer[k]
            /\ s = trialOffer[k] =>
                 (CHOOSE l \in keys : depositOf[l] = d /\ trialOffer[l] = s) = k
      BY <3>1, <3>2
    <3>6. repaid'[d] = [s \in Scouts |-> IF s = terms[d].scout
                                        THEN repaid[d][s] + terms[d].amount
                                        ELSE repaid[d][s]]
      BY <2>1, <3>4, <3>5
    <3> QED
      BY <2>2, <2>4, <3>6
  <2> QED
    BY <2>3, <2>4
<1>5. repaid' = [d \in Deposit |->
                  IF d \in returned
                  THEN [repaid[d] EXCEPT ![terms[d].scout] = @ + terms[d].amount]
                  ELSE repaid[d]]
  <2>1. repaid' = [d \in Deposit |-> repaid'[d]]
    BY Zenon DEF RefundEscrows
  <2> QED
    BY <1>4, <2>1
<1>6. Ledger!PayBack(returned)
  BY <1>1, <1>2, <1>3, <1>5 DEF Ledger!PayBack, Ledger!Deposit, Deposit
<1> QED
  BY <1>2, <1>6 DEF Ledger!Next

LEMMA ConfirmInTimeIsAccept ==
  ASSUME LedgerIInv, NEW k \in Key, NEW nonce, ConfirmInTime(k, nonce)
  PROVE  LedgerIInv' /\ (Ledger!Next \/ UNCHANGED Ledger!vars)
<1> USE DEF LedgerIInv
<1>1. /\ trialEscrow' = [trialEscrow EXCEPT ![k] = NONE]
      /\ accepted' = accepted \cup ({depositOf[k]} \ {0})
      /\ now' = now /\ trialCounter' = trialCounter /\ trialOffer' = trialOffer
      /\ UNCHANGED <<made, terms, erased, repaid, depositOf>>
  BY Zenon DEF ConfirmInTime, configVars, offerVars
<1>2. trialEscrow' = [l \in Key |-> IF l \in {k} THEN NONE ELSE trialEscrow[l]]
  BY <1>1 DEF LedgerTyped
<1>3. LedgerIInv'
  <2>1. repaid' \in [Deposit -> [Scouts -> Nat]]
    BY <1>1 DEF LedgerTyped
  <2> QED
    BY <1>1, <1>2, <2>1, EscrowsGivenUpStep
<1>4. Live(k)
  BY DEF ConfirmInTime, Confirmable
<1>5. Open' = Open \ {depositOf[k]}
  <2>1. \A l \in Key : trialEscrow'[l] # NONE <=> Live(l) /\ l # k
    BY <1>2 DEF Live
  <2>2. ASSUME NEW d \in Open' PROVE d \in Open \ {depositOf[k]}
    <3>1. PICK l \in Key : Live(l) /\ l # k /\ depositOf[l] = d /\ d \in Deposit
      BY <1>1, <2>1, <2>2 DEF Open, Live
    <3>2. d # depositOf[k]
      BY <1>4, <3>1 DEF OneEscrowPerDeposit, Deposit
    <3> QED
      BY <3>1, <3>2 DEF Open
  <2>3. ASSUME NEW d \in Open \ {depositOf[k]} PROVE d \in Open'
    BY <1>1, <2>1, <2>3 DEF Open, Live
  <2> QED
    BY <2>2, <2>3
<1>6. CASE depositOf[k] = 0
  <2>1. Open' = Open /\ accepted' = accepted
    BY <1>1, <1>5, <1>6 DEF Open, Deposit
  <2> QED
    BY <1>1, <1>3, <2>1 DEF Ledger!vars
<1>7. CASE depositOf[k] # 0
  <2>1. depositOf[k] \in Open
    BY <1>4, <1>7, EscrowConstants DEF Open, Deposit, LedgerTyped
  <2>2. Ledger!Accept(depositOf[k])
    BY <1>1, <1>5, <1>7, <2>1 DEF Ledger!Accept
  <2> QED
    BY <1>3, <2>1, <2>2 DEF Ledger!Next
<1> QED
  BY <1>6, <1>7

LEMMA PurgeIsErase ==
  ASSUME LedgerIInv, NEW p \in Players, NEW cursor, PurgePlayerData(p, cursor)
  PROVE  Ledger!Next
<1> USE DEF LedgerIInv
<1> DEFINE forfeited ==
             {d \in Open : \E k \in Key : /\ k \in PurgedKeys(p, cursor)
                                         /\ Live(k) /\ depositOf[k] = d}
<1>1. /\ trialEscrow' = [k \in Key |-> IF k \in PurgedKeys(p, cursor) THEN NONE
                                       ELSE trialEscrow[k]]
      /\ erased' = erased \cup {p}
      /\ UNCHANGED <<made, terms, accepted, repaid, depositOf>>
  BY Zenon DEF PurgePlayerData
<1>2. \A k \in PurgedKeys(p, cursor) : k[1] = p
  BY DEF PurgedKeys
<1>3. Open' = Open \ forfeited
  <2>1. \A k \in Key : trialEscrow'[k] # NONE <=> Live(k) /\ k \notin PurgedKeys(p, cursor)
    BY <1>1 DEF Live
  <2>2. ASSUME NEW d \in Open' PROVE d \in Open \ forfeited
    <3>1. PICK k \in Key : /\ Live(k) /\ k \notin PurgedKeys(p, cursor)
                           /\ depositOf[k] = d /\ d \in Deposit
      BY <1>1, <2>1, <2>2 DEF Open, Live
    <3>2. d \notin forfeited
      BY <3>1 DEF OneEscrowPerDeposit, Deposit
    <3> QED
      BY <3>1, <3>2 DEF Open
  <2>3. ASSUME NEW d \in Open \ forfeited PROVE d \in Open'
    BY <1>1, <2>1, <2>3 DEF Open, Live
  <2> QED
    BY <2>2, <2>3
<1>4. ASSUME NEW d \in forfeited PROVE terms[d].player = p
  <2>1. PICK k \in Key : k \in PurgedKeys(p, cursor) /\ Live(k) /\ depositOf[k] = d /\ d \in Deposit
    BY <1>4 DEF Open
  <2>2. k[1] = p /\ depositOf[k] # 0
    BY <1>2, <2>1 DEF Deposit
  <2>3. terms[d] = [scout |-> trialOffer[k], player |-> k[1],
                    amount |-> trialEscrow[k].amount]
    BY <2>1, <2>2, Zenon DEF EscrowKeepsTerms
  <2> QED
    BY <2>2, <2>3
<1>5. Ledger!Erase(p, forfeited)
  BY <1>1, <1>3, <1>4 DEF Ledger!Erase
<1>6. forfeited \in SUBSET Open
  OBVIOUS
<1> QED
  BY <1>5, <1>6 DEF Ledger!Next

----
LEMMA EscrowStep ==
  ASSUME LedgerIInv, [Next]_vars
  PROVE  LedgerIInv' /\ [Ledger!Next]_(Ledger!vars)
<1>1. ASSUME NEW s \in Scouts, NEW p \in Players, NEW amount \in EscrowAmounts,
             NEW secs \in ExpirySecs, LogTrialOffer(s, p, amount, secs)
      PROVE  LedgerIInv' /\ [Ledger!Next]_(Ledger!vars)
  BY <1>1, LogStep, LogIsMakeDeposit
<1>2. ASSUME NEW k \in Key, NEW nonce, ConfirmTrialOffer(k, nonce)
      PROVE  LedgerIInv' /\ [Ledger!Next]_(Ledger!vars)
  <2>1. CASE ConfirmInTime(k, nonce)
    BY <2>1, ConfirmInTimeIsAccept
  <2>2. CASE ConfirmLate(k, nonce)
    <3>1. /\ {k} \in SUBSET {l \in Key : Live(l)} /\ RefundEscrows({k})
          /\ now' = now /\ UNCHANGED <<offerVars, depositOf>>
      BY <2>2 DEF ConfirmLate, Confirmable, configVars
    <3> QED
      BY <3>1, RefundStep, RefundIsPayBack
  <2> QED
    BY <1>2, <2>1, <2>2 DEF ConfirmTrialOffer
<1>3. ASSUME NEW limit, ExpireTrialOffers(limit)
      PROVE  LedgerIInv' /\ [Ledger!Next]_(Ledger!vars)
  <2>1. PICK keys \in SUBSET {l \in Key : Live(l)} : RefundEscrows(keys)
    BY <1>3 DEF ExpireTrialOffers, Expired
  <2>2. now' = now /\ UNCHANGED <<offerVars, depositOf>>
    BY <1>3 DEF ExpireTrialOffers, configVars
  <2> QED
    BY <2>1, <2>2, RefundStep, RefundIsPayBack
<1>4. ASSUME NEW k \in Key, AdminRefundTrialEscrow(k)
      PROVE  LedgerIInv' /\ [Ledger!Next]_(Ledger!vars)
  <2>1. /\ {k} \in SUBSET {l \in Key : Live(l)} /\ RefundEscrows({k})
        /\ now' = now /\ UNCHANGED <<offerVars, depositOf>>
    BY <1>4 DEF AdminRefundTrialEscrow, configVars
  <2> QED
    BY <2>1, RefundStep, RefundIsPayBack
<1>5. ASSUME NEW p \in Players, NEW cursor, PurgePlayerData(p, cursor)
      PROVE  LedgerIInv' /\ [Ledger!Next]_(Ledger!vars)
  BY <1>5, PurgeStep, PurgeIsErase
<1>6. ASSUME NEW p \in Players, NEW s \in Scouts, NEW escrow \in SeedEscrows \cup {NONE},
             AdminSeedTrialOffer(p, s, escrow)
      PROVE  LedgerIInv' /\ [Ledger!Next]_(Ledger!vars)
  <2>1. Open' = Open
    BY <1>6, SeedStep DEF Open, Deposit
  <2>2. UNCHANGED ledgerVars
    BY <1>6 DEF AdminSeedTrialOffer
  <2>3. UNCHANGED Ledger!vars
    BY <2>1, <2>2 DEF Ledger!vars, ledgerVars
  <2> QED
    BY <1>6, <2>3, SeedStep
<1>7. ASSUME UNCHANGED <<offerVars, trialEscrow, depositOf, ledgerVars>>, now' \in Nat
      PROVE  LedgerIInv' /\ [Ledger!Next]_(Ledger!vars)
  <2>1. LedgerIInv'
    BY <1>7
       DEF LedgerIInv, LedgerTyped, NoOrphanEscrow, EscrowKeepsTerms,
           OneEscrowPerDeposit, UncountedWasErased, Live, offerVars, ledgerVars
  <2> QED
    BY <1>7, <2>1, LedgerStutter
<1>8. now \in Nat
  BY DEF LedgerIInv, LedgerTyped
<1>9. CASE \/ OpenMigrationWindow \/ CloseMigrationWindow
           \/ \E fee \in Fees : CollectFee(fee)
           \/ WithdrawFees
           \/ \E amount \in Refunds : RefundSubscription(amount)
           \/ PauseContract \/ UnpauseContract
  BY <1>7, <1>8, <1>9
     DEF OpenMigrationWindow, CloseMigrationWindow, CollectFee, WithdrawFees,
         RefundSubscription, PauseContract, UnpauseContract, configVars
<1>10. CASE Tick
  BY <1>7, <1>8, <1>10 DEF Tick
<1>11. CASE UNCHANGED vars
  BY <1>7, <1>8, <1>11 DEF vars, configVars
<1> QED
  BY <1>1, <1>2, <1>3, <1>4, <1>5, <1>6, <1>9, <1>10, <1>11, Zenon DEF Next

LEMMA EscrowInit == Init => Ledger!Init
  BY EscrowConstants DEF Init, Ledger!Init, Open, Live, Deposit, Ledger!Deposit

LEMMA LedgerInvariant == Spec => []LedgerIInv
  BY LedgerInvInit, EscrowStep, PTL DEF Spec

\* No operation leaves an escrow whose offer, and with it the scout to refund,
\* is gone.
THEOREM NoEscrowOrphaned == Spec => []NoOrphanEscrow
<1>1. LedgerIInv => NoOrphanEscrow
  BY DEF LedgerIInv
<1> QED
  BY <1>1, LedgerInvariant, PTL

\* Every step on the offers of scout_access is a step of the ledger or leaves
\* it alone: no scout's payment is given back twice, in part or to somebody
\* else, and none vanishes but by a confirmation or an erasure.
THEOREM EscrowPromiseKept == Spec => KeepsEscrowPromise
  BY EscrowInit, EscrowStep, LedgerInvariant, PTL DEF Spec, KeepsEscrowPromise, Ledger!Spec

----
(***************************************************************************)
(* What the promise amounts to.                                             *)
(***************************************************************************)
\* Each deposit is held, consumed, given back in full or lost to an erasure, and
\* none is given back twice.
Accounted ==
  /\ made \in 0..MaxDeposits
  /\ terms \in [Ledger!Deposit -> Ledger!Terms \cup {NONE}]
  /\ \A d \in 1..made : terms[d] \in Ledger!Terms
  /\ Open \subseteq 1..made /\ accepted \subseteq 1..made
  /\ Open \cap accepted = {}
  /\ repaid \in [Ledger!Deposit -> [Scouts -> Nat]]
  /\ \A d \in Ledger!Deposit \ 1..made : Ledger!NeverRepaid(d)
  /\ Ledger!EveryDepositAccountedFor

\* There are no deposits at first.
LEMMA AccountedInit ==
  ASSUME Ledger!LedgerConstants
  PROVE  Ledger!Init => Accounted
  BY DEF Accounted, Ledger!LedgerConstants, Ledger!Init, Ledger!Deposit,
         Ledger!NeverRepaid, Ledger!EveryDepositAccountedFor

\* A new deposit is held.
LEMMA MakeDepositStep ==
  ASSUME Ledger!LedgerConstants, Accounted,
         NEW t \in Ledger!Terms, NEW K, Ledger!MakeDeposit(t, K)
  PROVE  Accounted'
<1>1. made + 1 \in Ledger!Deposit /\ made + 1 \notin 1..made /\ made' \in 0..MaxDeposits
      /\ 1..made' = 1..made \cup {made + 1} /\ 1..made \subseteq Ledger!Deposit
  BY DEF Ledger!LedgerConstants, Accounted, Ledger!MakeDeposit, Ledger!Deposit
<1>2. /\ terms' \in [Ledger!Deposit -> Ledger!Terms \cup {NONE}]
      /\ terms'[made + 1] = t
      /\ \A d \in 1..made : terms'[d] = terms[d]
  BY <1>1 DEF Accounted, Ledger!MakeDeposit
<1>3. /\ Open' \subseteq 1..made' /\ accepted' \subseteq 1..made'
      /\ Open' \cap accepted' = {}
      /\ repaid' = repaid
  BY <1>1 DEF Accounted, Ledger!MakeDeposit
<1>4. \A d \in Ledger!Deposit : Ledger!NeverRepaid(d)' <=> Ledger!NeverRepaid(d)
  BY <1>3 DEF Ledger!NeverRepaid
<1>5. \A d \in 1..made : Ledger!RepaidInFull(d)' <=> Ledger!RepaidInFull(d)
  BY <1>2, <1>3 DEF Ledger!RepaidInFull
<1>6. Ledger!EveryDepositAccountedFor'
  <2> SUFFICES ASSUME NEW d \in 1..made'
               PROVE  /\ Ledger!NeverRepaid(d)' \/ Ledger!RepaidInFull(d)'
                      /\ d \in Open' \cup accepted' => Ledger!NeverRepaid(d)'
                      /\ d \notin Open' \cup accepted' =>
                           Ledger!RepaidInFull(d)' \/ terms'[d].player \in erased'
    BY DEF Ledger!EveryDepositAccountedFor
  <2>1. CASE d = made + 1
    BY <1>1, <1>4, <2>1 DEF Accounted, Ledger!MakeDeposit
  <2>2. CASE d \in 1..made
    BY <1>1, <1>2, <1>3, <1>4, <1>5, <2>2
       DEF Accounted, Ledger!MakeDeposit, Ledger!EveryDepositAccountedFor, Ledger!Forfeitable
  <2> QED
    BY <1>1, <2>1, <2>2
<1> QED
  BY <1>1, <1>2, <1>3, <1>4, <1>6 DEF Accounted

\* What is paid back was never paid before.
LEMMA PayBackStep ==
  ASSUME Ledger!LedgerConstants, Accounted, NEW R, Ledger!PayBack(R)
  PROVE  Accounted'
<1>1. R \subseteq 1..made /\ 1..made \subseteq Ledger!Deposit /\ made' = made
      /\ terms' = terms /\ accepted' = accepted /\ erased' = erased
  BY DEF Ledger!LedgerConstants, Accounted, Ledger!PayBack, Ledger!Deposit
<1>2. \A d \in R : terms[d].scout \in Scouts /\ terms[d].amount \in Nat
  BY <1>1 DEF Ledger!LedgerConstants, Accounted, Ledger!Terms
<1>3. repaid' \in [Ledger!Deposit -> [Scouts -> Nat]]
  <2> SUFFICES ASSUME NEW d \in Ledger!Deposit
               PROVE  (IF d \in R
                       THEN [repaid[d] EXCEPT ![terms[d].scout] = @ + terms[d].amount]
                       ELSE repaid[d]) \in [Scouts -> Nat]
    BY DEF Ledger!PayBack
  <2>1. repaid[d] \in [Scouts -> Nat]
    BY DEF Accounted
  <2> QED
    BY <1>2, <2>1
<1>4. \A d \in Ledger!Deposit \ R : repaid'[d] = repaid[d]
  BY <1>1 DEF Accounted, Ledger!PayBack
<1>5. \A d \in R : Ledger!NeverRepaid(d) /\ d \notin accepted
  BY <1>1 DEF Accounted, Ledger!PayBack, Ledger!EveryDepositAccountedFor
<1>6. \A d \in R : Ledger!RepaidInFull(d)'
  <2> SUFFICES ASSUME NEW d \in R
               PROVE  Ledger!RepaidInFull(d)'
    OBVIOUS
  <2>1. repaid[d] = [s \in Scouts |-> 0]
    BY <1>5 DEF Ledger!NeverRepaid
  <2>2. repaid'[d] = [repaid[d] EXCEPT ![terms[d].scout] = @ + terms[d].amount]
    BY <1>1 DEF Ledger!PayBack
  <2>3. repaid'[d] = [s \in Scouts |-> IF s = terms[d].scout
                                       THEN terms[d].amount ELSE 0]
    BY <1>2, <2>1, <2>2
  <2> QED
    BY <1>1, <2>3 DEF Ledger!RepaidInFull
<1>7. Ledger!EveryDepositAccountedFor'
  <2> SUFFICES ASSUME NEW d \in 1..made'
               PROVE  /\ Ledger!NeverRepaid(d)' \/ Ledger!RepaidInFull(d)'
                      /\ d \in Open' \cup accepted' => Ledger!NeverRepaid(d)'
                      /\ d \notin Open' \cup accepted' =>
                           Ledger!RepaidInFull(d)' \/ terms'[d].player \in erased'
    BY DEF Ledger!EveryDepositAccountedFor
  <2>1. CASE d \in R
    BY <1>1, <1>5, <1>6, <2>1 DEF Ledger!PayBack
  <2>2. CASE d \notin R
    <3>1. /\ Ledger!NeverRepaid(d)' <=> Ledger!NeverRepaid(d)
          /\ Ledger!RepaidInFull(d)' <=> Ledger!RepaidInFull(d)
      BY <1>1, <1>4, <2>2 DEF Ledger!NeverRepaid, Ledger!RepaidInFull
    <3>2. d \in 1..made /\ (d \in Open' <=> d \in Open)
      BY <1>1, <2>2 DEF Ledger!PayBack
    <3> QED
      BY <1>1, <3>1, <3>2 DEF Accounted, Ledger!EveryDepositAccountedFor
  <2> QED
    BY <2>1, <2>2
<1>8. \A d \in Ledger!Deposit \ 1..made' : Ledger!NeverRepaid(d)'
  BY <1>1, <1>4 DEF Accounted, Ledger!NeverRepaid
<1>9. Open' \subseteq 1..made' /\ Open' \cap accepted' = {} /\ accepted' \subseteq 1..made'
  BY <1>1 DEF Accounted, Ledger!PayBack
<1>10. \A d \in 1..made' : terms'[d] \in Ledger!Terms
  BY <1>1 DEF Accounted
<1> QED
  BY <1>1, <1>3, <1>7, <1>8, <1>9 DEF Accounted

\* Every step of the ledger accounts for every deposit.
LEMMA AccountedNext ==
  ASSUME Ledger!LedgerConstants, Accounted, [Ledger!Next]_(Ledger!vars)
  PROVE  Accounted'
<1>1. ASSUME NEW t \in Ledger!Terms, NEW K, Ledger!MakeDeposit(t, K) PROVE Accounted'
  BY <1>1, MakeDepositStep
<1>2. ASSUME NEW R, Ledger!PayBack(R) PROVE Accounted'
  BY <1>2, PayBackStep
<1>3. ASSUME NEW d \in Open, Ledger!Accept(d) PROVE Accounted'
  BY <1>3 DEF Accounted, Ledger!Accept, Ledger!EveryDepositAccountedFor,
              Ledger!NeverRepaid, Ledger!RepaidInFull
<1>4. ASSUME NEW p \in Players, NEW K, Ledger!Erase(p, K) PROVE Accounted'
  BY <1>4 DEF Accounted, Ledger!Erase, Ledger!EveryDepositAccountedFor,
              Ledger!NeverRepaid, Ledger!RepaidInFull
<1>5. CASE UNCHANGED Ledger!vars
  BY <1>5 DEF Ledger!vars, Accounted, Ledger!EveryDepositAccountedFor,
              Ledger!NeverRepaid, Ledger!RepaidInFull
<1> QED
  BY <1>1, <1>2, <1>3, <1>4, <1>5 DEF Ledger!Next

\* Whatever the order of deposits, refunds, acceptances and erasures, a deposit
\* is paid back at most once, in full and to its scout, and one that is neither
\* held nor accepted nor paid back belonged to an erased player.
THEOREM DepositsAccountedFor ==
  ASSUME Ledger!LedgerConstants
  PROVE  Ledger!Spec => []Ledger!EveryDepositAccountedFor
<1>1. Accounted => Ledger!EveryDepositAccountedFor
  BY DEF Accounted
<1> QED
  BY <1>1, AccountedInit, AccountedNext, PTL DEF Ledger!Spec

\* In no reachable state is a payment unaccounted for: it is given back at most
\* once, in full and to its scout, and one that is neither held nor consumed nor
\* given back was for an erased player.
THEOREM EscrowsAccountedFor == Spec => []Ledger!EveryDepositAccountedFor
<1>1. Ledger!LedgerConstants
  BY EscrowConstants DEF Ledger!LedgerConstants
<1> QED
  BY <1>1, EscrowPromiseKept, DepositsAccountedFor DEF KeepsEscrowPromise

----
(***************************************************************************)
(* The token balance and the list of the sweep.                             *)
(***************************************************************************)
\* What TypeOK says beyond LedgerTyped.
RestTyped ==
  /\ paused \in BOOLEAN /\ migration \in {"never", "open", "sealed"}
  /\ trialOfferConfirmed \subseteq Key /\ confirmationNonce \subseteq Nonces
  /\ trialOfferLastSent \in [Scouts -> [Players -> Nat \cup {NONE}]]
  /\ scoutTrialOffers \in [Scouts -> SUBSET Key]
  /\ outstanding \in Seq(Key)
  /\ accumulatedFees \in Nat /\ balance \in Nat
  /\ accepted \subseteq Deposit /\ erased \subseteq Players
  /\ unbacked \in Nat

LEMMA TypeParts == TypeOK <=> LedgerTyped /\ RestTyped
  BY DEF TypeOK, LedgerTyped, RestTyped

LEMMA KeysFinite == IsFiniteSet(Key)
<1>1. IsFiniteSet(Index)
  <2>1. 1 \in Int /\ MaxOffers \in Int
    BY EscrowConstants
  <2>2. QED
    BY <2>1, FS_Interval, Zenon DEF Index
<1>2. IsFiniteSet(Players)
  BY EscrowConstants
<1>3. QED
  BY <1>1, <1>2, FS_Product, Zenon DEF Key

LEMMA HeldType ==
  ASSUME LedgerTyped
  PROVE  Held \in [Key -> Nat]
BY EscrowConstants DEF Held, Live, LedgerTyped, TrialEscrowRecord

LEMMA EscrowedType ==
  ASSUME LedgerTyped, NEW keys \in SUBSET Key
  PROVE  Escrowed(keys) \in Nat
<1>1. IsFiniteSet(keys)
  BY KeysFinite, FS_Subset
<1>2. \A k \in keys : Held[k] \in Nat
  BY HeldType
<1> HIDE DEF Held
<1> QED
  BY <1>1, <1>2, SumType DEF Escrowed

LEMMA EscrowedTypeNext ==
  ASSUME LedgerTyped', NEW keys \in SUBSET Key
  PROVE  Escrowed(keys)' \in Nat
<1>1. IsFiniteSet(keys)
  BY KeysFinite, FS_Subset
<1>2. PICK g \in [Key -> Nat] : g = Held'
  BY EscrowConstants DEF Held, Live, LedgerTyped, TrialEscrowRecord
<1>3. SumFunctionOnSet(g, keys) \in Nat
  BY <1>1, SumType
<1> QED
  BY <1>2, <1>3, Zenon DEF Escrowed

\* Escrows given up leave what the others hold.
LEMMA EscrowedGivenUp ==
  ASSUME LedgerTyped, LedgerTyped', NEW keys \in SUBSET Key,
         trialEscrow' = [k \in Key |-> IF k \in keys THEN NONE ELSE trialEscrow[k]]
  PROVE  Escrowed(Key) = Escrowed(keys) + Escrowed(Key)'
<1>1. PICK f \in [Key -> Nat] : f = Held
  BY HeldType
<1>2. PICK g \in [Key -> Nat] : g = Held'
  BY EscrowConstants DEF Held, Live, LedgerTyped, TrialEscrowRecord
<1>3. \A k \in Key : g[k] = IF k \in keys THEN 0 ELSE f[k]
  BY <1>1, <1>2 DEF Held, Live
<1>4. SumFunctionOnSet(f, Key) = SumFunctionOnSet(f, keys) + SumFunctionOnSet(g, Key)
  BY <1>3, KeysFinite, SumCleared
<1> QED
  BY <1>1, <1>2, <1>4, Zenon DEF Escrowed

\* A record put at a key adds at most its amount: the one it replaces is lost.
LEMMA EscrowedPut ==
  ASSUME LedgerTyped, LedgerTyped', NEW k \in Key, NEW e \in TrialEscrowRecord,
         trialEscrow' = [trialEscrow EXCEPT ![k] = e]
  PROVE  Escrowed(Key)' <= Escrowed(Key) + e.amount
<1>1. PICK f \in [Key -> Nat] : f = Held
  BY HeldType
<1>2. PICK g \in [Key -> Nat] : g = Held'
  BY EscrowConstants DEF Held, Live, LedgerTyped, TrialEscrowRecord
<1>3. g[k] = e.amount
  BY <1>2, EscrowConstants DEF Held, Live, LedgerTyped
<1>4. \A l \in Key \ {k} : g[l] = f[l]
  BY <1>1, <1>2 DEF Held, Live, LedgerTyped
<1>5. SumFunctionOnSet(g, Key) + f[k] = SumFunctionOnSet(f, Key) + g[k]
  BY <1>4, KeysFinite, SumReplaced
<1>6. SumFunctionOnSet(f, Key) \in Nat /\ SumFunctionOnSet(g, Key) \in Nat
  BY KeysFinite, SumType
<1>7. SumFunctionOnSet(g, Key) <= SumFunctionOnSet(f, Key) + e.amount
  BY <1>3, <1>5, <1>6
<1> QED
  BY <1>1, <1>2, <1>7, Zenon DEF Escrowed

LEMMA EscrowedKept ==
  ASSUME UNCHANGED trialEscrow
  PROVE  Escrowed(Key)' = Escrowed(Key)
BY DEF Escrowed, Held, Live

\* Every escrow a scout paid in is in the sweep's list.
ListedForSweep == \A k \in Key : Live(k) /\ depositOf[k] # 0 => Contains(outstanding, k)

\* The offers of a player whose erasure has not begun are all there, and the
\* scout's list has them.
OffersOnRecord ==
  \A p \in Players \ erased : \A i \in 1..trialCounter[p] :
    /\ trialOffer[<<p, i>>] \in Scouts
    /\ <<p, i>> \in scoutTrialOffers[trialOffer[<<p, i>>]]

HoldingsIInv ==
  LedgerIInv /\ RestTyped /\ EscrowsCovered /\ ListedForSweep /\ OffersOnRecord

LEMMA HoldingsInit == Init => HoldingsIInv
<1> SUFFICES ASSUME Init PROVE HoldingsIInv
  OBVIOUS
<1>1. LedgerIInv
  BY LedgerInvInit
<1>2. RestTyped
  <2>1. outstanding \in Seq(Key)
    <3>1. outstanding = << >>
      BY Zenon DEF Init
    <3> QED
      BY <3>1, EmptySeq, Zenon
  <2> QED
    BY <2>1 DEF Init, RestTyped
<1>3. EscrowsCovered
  <2>1. \A k \in Key : Held[k] = 0
    BY DEF Init, Held, Live
  <2>2. SumFunctionOnSet(Held, Key) = 0
    <3> HIDE DEF Held
    <3>1. QED
      BY <2>1, KeysFinite, SumZero
  <2>3. balance = 0 /\ unbacked = 0 /\ accumulatedFees = 0
    BY DEF Init
  <2> QED
    BY <2>2, <2>3 DEF EscrowsCovered, Escrowed
<1>4. ListedForSweep
  BY DEF Init, ListedForSweep
<1>5. OffersOnRecord
  BY DEF Init, OffersOnRecord
<1> QED
  BY <1>1, <1>2, <1>3, <1>4, <1>5 DEF HoldingsIInv

LEMMA LogHoldings ==
  ASSUME HoldingsIInv, LedgerIInv',
         NEW s \in Scouts, NEW p \in Players, NEW amount \in EscrowAmounts,
         NEW secs \in ExpirySecs, LogTrialOffer(s, p, amount, secs)
  PROVE  HoldingsIInv'
<1> USE DEF HoldingsIInv
<1>1. PICK i \in Index : i = trialCounter[p] + 1 /\ i = NextTrialIndex(p)
  BY EscrowConstants DEF LogTrialOffer, NextTrialIndex, Index, LedgerIInv, LedgerTyped
<1>2. PICK k \in Key : k = <<p, i>>
  BY DEF Key
<1>3. PICK e \in TrialEscrowRecord : e = [amount |-> amount, expires_at |-> now + secs]
  <2>1. amount \in Nat /\ now + secs \in Nat
    BY EscrowConstants DEF LedgerIInv, LedgerTyped
  <2> QED
    BY <2>1 DEF TrialEscrowRecord
<1>4. /\ trialOffer' = [trialOffer EXCEPT ![k] = s]
      /\ trialCounter' = [trialCounter EXCEPT ![p] = i]
      /\ trialOfferLastSent' = [trialOfferLastSent EXCEPT ![s][p] = now]
      /\ scoutTrialOffers' = [scoutTrialOffers EXCEPT ![s] = @ \cup {k}]
      /\ balance' = balance + amount
      /\ trialEscrow' = [trialEscrow EXCEPT ![k] = e]
      /\ outstanding' = Append(outstanding, k)
      /\ made' = made + 1
      /\ depositOf' = [depositOf EXCEPT ![k] = made + 1]
      /\ UNCHANGED <<configVars, confirmVars, accumulatedFees, accepted, erased, unbacked>>
  BY <1>1, <1>2, <1>3, Zenon DEF LogTrialOffer
<1>5. LedgerTyped /\ LedgerTyped' /\ amount \in Nat
  BY EscrowConstants DEF LedgerIInv
<1>6. outstanding \in Seq(Key) /\ outstanding' \in Seq(Key)
  BY <1>4, AppendProperties DEF RestTyped
<1>7. RestTyped'
  <2>1. trialOfferLastSent' \in [Scouts -> [Players -> Nat \cup {NONE}]]
    BY <1>4, <1>5 DEF RestTyped, LedgerTyped
  <2>2. scoutTrialOffers' \in [Scouts -> SUBSET Key]
    BY <1>4 DEF RestTyped
  <2>3. balance' \in Nat
    BY <1>4, <1>5 DEF RestTyped
  <2> QED
    BY <1>4, <1>6, <2>1, <2>2, <2>3 DEF RestTyped, configVars, confirmVars
<1>8. EscrowsCovered'
  <2>1. Escrowed(Key)' <= Escrowed(Key) + e.amount
    BY <1>4, <1>5, EscrowedPut
  <2>2. Escrowed(Key) \in Nat /\ Escrowed(Key)' \in Nat
    <3>1. Key \in SUBSET Key
      OBVIOUS
    <3>2. Escrowed(Key) \in Nat
      BY <1>5, <3>1, EscrowedType
    <3>3. Escrowed(Key)' \in Nat
      BY <1>5, <3>1, EscrowedTypeNext
    <3> QED
      BY <3>2, <3>3
  <2>3. e.amount = amount
    BY <1>3
  <2>4. balance' = balance + amount /\ accumulatedFees' = accumulatedFees /\ unbacked' = unbacked
    BY <1>4
  <2>5. /\ balance \in Nat /\ unbacked \in Nat /\ accumulatedFees \in Nat
        /\ balance + unbacked >= accumulatedFees + Escrowed(Key)
    BY DEF RestTyped, EscrowsCovered
  <2>6. balance' + unbacked' >= accumulatedFees' + Escrowed(Key)'
    BY <1>5, <2>1, <2>2, <2>3, <2>4, <2>5
  <2> QED
    BY <2>6 DEF EscrowsCovered
<1>9. ListedForSweep'
  <2> SUFFICES ASSUME NEW l \in Key, Live(l)', depositOf'[l] # 0
               PROVE  Contains(outstanding', l)
    BY DEF ListedForSweep
  <2>1. Contains(outstanding', l) <=> Contains(outstanding, l) \/ l = k
    BY <1>4, <1>6, AppendEntries
  <2>2. l # k => Live(l) /\ depositOf[l] # 0
    BY <1>4, <1>5 DEF Live, LedgerTyped
  <2> QED
    BY <2>1, <2>2 DEF ListedForSweep
<1>10. OffersOnRecord'
  <2> SUFFICES ASSUME NEW q \in Players \ erased, NEW j \in 1..trialCounter'[q]
               PROVE  /\ trialOffer'[<<q, j>>] \in Scouts
                      /\ <<q, j>> \in scoutTrialOffers'[trialOffer'[<<q, j>>]]
    BY <1>4 DEF OffersOnRecord
  <2>1. PICK l \in Key : l = <<q, j>>
    <3>1. trialCounter'[q] \in 0..MaxOffers
      BY <1>5 DEF LedgerTyped
    <3>2. j \in Index
      BY <3>1, EscrowConstants DEF Index
    <3> QED
      BY <3>2 DEF Key
  <2>2. \A t \in Scouts : scoutTrialOffers[t] \subseteq scoutTrialOffers'[t]
    BY <1>4 DEF RestTyped
  <2>3. CASE l = k
    <3>1. trialOffer'[l] = s /\ l \in scoutTrialOffers'[s]
      BY <1>4, <1>5, <2>3 DEF LedgerTyped, RestTyped
    <3> QED
      BY <2>1, <3>1
  <2>4. CASE l # k
    <3>1. j \in 1..trialCounter[q]
      BY <1>1, <1>2, <1>4, <1>5, <2>1, <2>4 DEF LedgerTyped
    <3>2. trialOffer'[l] = trialOffer[l]
      BY <1>4, <1>5, <2>4 DEF LedgerTyped
    <3>3. trialOffer[l] \in Scouts /\ l \in scoutTrialOffers[trialOffer[l]]
      BY <2>1, <3>1 DEF OffersOnRecord
    <3> QED
      BY <2>1, <2>2, <3>2, <3>3
  <2> QED
    BY <2>3, <2>4
<1> QED
  BY <1>7, <1>8, <1>9, <1>10

\* An escrow given up, one with a refund, leaves the player's offers alone.
LEMMA GivenUpHoldings ==
  ASSUME HoldingsIInv, LedgerIInv', NEW keys \in SUBSET Key,
         trialEscrow' = [k \in Key |-> IF k \in keys THEN NONE ELSE trialEscrow[k]],
         balance' = balance \/ (Escrowed(keys) <= balance /\ balance' = balance - Escrowed(keys)),
         outstanding' \in Seq(Key),
         \A k \in Key : Contains(outstanding, k) /\ k \notin keys /\ Live(k) => Contains(outstanding', k),
         trialOfferConfirmed' \in SUBSET Key, confirmationNonce' \in SUBSET Nonces,
         accepted' \in SUBSET Deposit,
         UNCHANGED <<paused, migration, offerVars, accumulatedFees, depositOf, unbacked, erased>>
  PROVE  HoldingsIInv'
<1> USE DEF HoldingsIInv
<1>1. LedgerTyped /\ LedgerTyped'
  BY DEF LedgerIInv
<1>2. /\ Escrowed(keys) \in Nat /\ Escrowed(Key)' \in Nat
      /\ Escrowed(Key) = Escrowed(keys) + Escrowed(Key)'
  <2>1. Key \in SUBSET Key
    OBVIOUS
  <2>2. Escrowed(Key)' \in Nat
    BY <1>1, <2>1, EscrowedTypeNext
  <2> QED
    BY <1>1, <2>2, EscrowedType, EscrowedGivenUp
<1>3. RestTyped'
  <2>1. balance' \in Nat
    BY <1>2 DEF RestTyped
  <2> QED
    BY <2>1 DEF RestTyped, offerVars
<1>4. EscrowsCovered'
  <2>1. /\ balance \in Nat /\ unbacked \in Nat /\ accumulatedFees \in Nat
        /\ balance + unbacked >= accumulatedFees + Escrowed(Key)
        /\ unbacked' = unbacked /\ accumulatedFees' = accumulatedFees
    BY DEF RestTyped, EscrowsCovered
  <2>2. balance' + unbacked' >= accumulatedFees' + Escrowed(Key)'
    BY <1>2, <2>1
  <2> QED
    BY <2>2 DEF EscrowsCovered
<1>5. ListedForSweep'
  BY DEF ListedForSweep, Live
<1>6. OffersOnRecord'
  BY DEF OffersOnRecord, offerVars
<1> QED
  BY <1>3, <1>4, <1>5, <1>6

LEMMA RemovedFromList ==
  ASSUME outstanding \in Seq(Key), NEW k \in Key, RemoveFromOutstanding(k)
  PROVE  /\ outstanding' \in Seq(Key)
         /\ \A l \in Key : Contains(outstanding, l) /\ l # k => Contains(outstanding', l)
<1>1. PICK A : A = Key \ {k}
  OBVIOUS
<1>2. outstanding' = Filter(outstanding, A)
  BY <1>1 DEF RemoveFromOutstanding
<1>3. outstanding' \in Seq(Key)
  BY <1>2, FilterType
<1>4. \A l : Contains(outstanding', l) <=> l \in A /\ Contains(outstanding, l)
  BY <1>2, FilterEntries
<1> QED
  BY <1>1, <1>3, <1>4

LEMMA RefundHoldings ==
  ASSUME HoldingsIInv, LedgerIInv', NEW k \in Key, RefundEscrows({k}), RemoveFromOutstanding(k),
         UNCHANGED <<configVars, offerVars, confirmVars, accumulatedFees, depositOf, unbacked>>
  PROVE  HoldingsIInv'
<1>1. PICK keys \in SUBSET Key : keys = {k}
  OBVIOUS
<1>2. /\ trialEscrow' = [l \in Key |-> IF l \in keys THEN NONE ELSE trialEscrow[l]]
      /\ Escrowed(keys) <= balance /\ balance' = balance - Escrowed(keys)
      /\ UNCHANGED <<accepted, erased>>
  BY <1>1, Zenon DEF RefundEscrows
<1>3. RestTyped /\ outstanding \in Seq(Key)
  BY DEF HoldingsIInv, RestTyped
<1>4. /\ outstanding' \in Seq(Key)
      /\ \A l \in Key : Contains(outstanding, l) /\ l # k => Contains(outstanding', l)
  BY <1>3, RemovedFromList
<1>5. /\ trialOfferConfirmed' \in SUBSET Key /\ confirmationNonce' \in SUBSET Nonces
      /\ accepted' \in SUBSET Deposit
  BY <1>2, <1>3 DEF RestTyped, confirmVars
<1> QED
  BY <1>1, <1>2, <1>4, <1>5, GivenUpHoldings DEF configVars

LEMMA ConfirmInTimeHoldings ==
  ASSUME HoldingsIInv, LedgerIInv', NEW k \in Key, NEW nonce \in Nonces \cup {NONE},
         ConfirmInTime(k, nonce)
  PROVE  HoldingsIInv'
<1>1. PICK keys \in SUBSET Key : keys = {k}
  OBVIOUS
<1>2. /\ trialEscrow' = [trialEscrow EXCEPT ![k] = NONE]
      /\ confirmationNonce' = confirmationNonce \cup ({nonce} \ {NONE})
      /\ RemoveFromOutstanding(k)
      /\ trialOfferConfirmed' = trialOfferConfirmed \cup {k}
      /\ accepted' = accepted \cup ({depositOf[k]} \ {0})
      /\ UNCHANGED <<configVars, offerVars, accumulatedFees, balance, erased, depositOf, unbacked>>
  BY Zenon DEF ConfirmInTime
<1>3. RestTyped /\ outstanding \in Seq(Key) /\ LedgerTyped
  BY DEF HoldingsIInv, RestTyped, LedgerIInv
<1>4. trialEscrow' = [l \in Key |-> IF l \in keys THEN NONE ELSE trialEscrow[l]]
  BY <1>1, <1>2, <1>3 DEF LedgerTyped
<1>5. /\ outstanding' \in Seq(Key)
      /\ \A l \in Key : Contains(outstanding, l) /\ l # k => Contains(outstanding', l)
  BY <1>2, <1>3, RemovedFromList
<1>6. trialOfferConfirmed' \in SUBSET Key /\ confirmationNonce' \in SUBSET Nonces
  BY <1>2, <1>3 DEF RestTyped
<1>7. accepted' \in SUBSET Deposit
  <2>1. depositOf[k] \in 0..MaxDeposits
    BY <1>3, EscrowConstants DEF LedgerTyped
  <2>2. depositOf[k] # 0 => depositOf[k] \in Deposit
    BY <2>1, EscrowConstants DEF Deposit
  <2> QED
    BY <1>2, <1>3, <2>2 DEF RestTyped
<1>8. /\ balance' = balance
      /\ UNCHANGED <<paused, migration, offerVars, accumulatedFees, depositOf, unbacked, erased>>
  BY <1>2 DEF configVars
<1>9. \A l \in Key : Contains(outstanding, l) /\ l \notin keys /\ Live(l) => Contains(outstanding', l)
  BY <1>1, <1>5
<1>10. balance' = balance \/ (Escrowed(keys) <= balance /\ balance' = balance - Escrowed(keys))
  BY <1>8
<1>11. outstanding' \in Seq(Key)
  BY <1>5
<1> QED
  BY <1>4, <1>6, <1>7, <1>8, <1>9, <1>10, <1>11, GivenUpHoldings, Zenon, Zenon

LEMMA LeastOf ==
  ASSUME NEW a \in Nat, NEW b \in Nat, NEW c \in Nat
  PROVE  Min({a, b, c}) \in 0..c
BY DEF Min

LEMMA ExpireHoldings ==
  ASSUME HoldingsIInv, LedgerIInv', NEW limit \in Nat, ExpireTrialOffers(limit)
  PROVE  HoldingsIInv'
<1>1. RestTyped /\ outstanding \in Seq(Key)
  BY DEF HoldingsIInv, RestTyped
<1>2. PICK n \in Nat : n = Len(outstanding)
  BY <1>1, LenProperties
<1>3. PICK count \in 0..n : count = Min({limit, EXPIRE_TRIAL_OFFERS_MAX_LIMIT, Len(outstanding)})
  BY <1>2, EscrowConstants, LeastOf
<1>4. PICK keys \in SUBSET Key :
        keys = {k \in Key : Expired(k) /\ \E j \in 1..count : outstanding[j] = k}
  OBVIOUS
<1>5. PICK a \in Seq(Key), b \in Seq(Key) :
        a = SubSeq(outstanding, 1, count) /\ b = SubSeq(outstanding, count + 1, Len(outstanding))
  BY <1>1, <1>2, CutEntries, Zenon
<1>6. /\ RefundEscrows(keys)
      /\ outstanding' = Kept(a) \o b
      /\ UNCHANGED <<configVars, offerVars, confirmVars, accumulatedFees, depositOf, unbacked>>
  BY <1>3, <1>4, <1>5, Zenon DEF ExpireTrialOffers
<1>7. PICK A : A = {k \in Key : Live(k) /\ ~Expired(k)}
  OBVIOUS
<1>8. Kept(a) = Filter(a, A)
  BY <1>7, Zenon DEF Kept
<1>9. Filter(a, A) \in Seq(Key) /\ \A k : Contains(Filter(a, A), k) <=> k \in A /\ Contains(a, k)
  BY <1>5, FilterType, FilterEntries
<1>10. /\ outstanding' \in Seq(Key)
       /\ \A k : Contains(outstanding', k) <=> (k \in A /\ Contains(a, k)) \/ Contains(b, k)
  <2>1. PICK r \in Seq(Key) : r = Kept(a)
    BY <1>8, <1>9
  <2>2. r \o b \in Seq(Key) /\ \A k : Contains(r \o b, k) <=> Contains(r, k) \/ Contains(b, k)
    <3>1. r \o b \in Seq(Key)
      BY ConcatProperties, Zenon
    <3> QED
      BY <3>1, ConcatEntries, Zenon
  <2> QED
    BY <1>6, <1>8, <1>9, <2>1, <2>2, Zenon
<1>11. /\ \A k : Contains(outstanding, k) <=> Contains(a, k) \/ Contains(b, k)
       /\ \A k : Contains(a, k) => \E j \in 1..count : outstanding[j] = k
  <2>1. /\ Len(a) = count /\ \A i \in 1..count : a[i] = outstanding[i]
        /\ \A k : Contains(outstanding, k) <=> Contains(a, k) \/ Contains(b, k)
    BY <1>1, <1>2, <1>5, CutEntries, Zenon
  <2> QED
    BY <2>1, Zenon DEF Contains
<1>12. \A k \in Key : Contains(outstanding, k) /\ k \notin keys /\ Live(k) => Contains(outstanding', k)
  <2> SUFFICES ASSUME NEW k \in Key, Contains(outstanding, k), k \notin keys, Live(k)
               PROVE  Contains(outstanding', k)
    OBVIOUS
  <2>1. CASE Contains(b, k)
    BY <1>10, <2>1, Zenon
  <2>2. CASE Contains(a, k)
    <3>1. ~Expired(k)
      BY <1>4, <1>11, <2>2
    <3>2. k \in A
      BY <1>7, <3>1
    <3> QED
      BY <1>10, <2>2, <3>2, Zenon
  <2> QED
    BY <1>11, <2>1, <2>2, Zenon
<1>13. /\ trialEscrow' = [l \in Key |-> IF l \in keys THEN NONE ELSE trialEscrow[l]]
       /\ Escrowed(keys) <= balance /\ balance' = balance - Escrowed(keys)
       /\ UNCHANGED <<accepted, erased>>
  BY <1>6, Zenon DEF RefundEscrows
<1>14. /\ trialOfferConfirmed' \in SUBSET Key /\ confirmationNonce' \in SUBSET Nonces
       /\ accepted' \in SUBSET Deposit
  BY <1>1, <1>6, <1>13 DEF RestTyped, confirmVars
<1>15. UNCHANGED <<paused, migration, offerVars, accumulatedFees, depositOf, unbacked, erased>>
  BY <1>6, <1>13 DEF configVars
<1>16. outstanding' \in Seq(Key)
  BY <1>10
<1> QED
  BY <1>12, <1>13, <1>14, <1>15, <1>16, GivenUpHoldings

LEMMA PurgeHoldings ==
  ASSUME HoldingsIInv, LedgerIInv', NEW p \in Players, NEW cursor, PurgePlayerData(p, cursor)
  PROVE  HoldingsIInv'
<1> USE DEF HoldingsIInv
<1>1. PICK keys \in SUBSET Key : keys = PurgedKeys(p, cursor) \cap Key
  OBVIOUS
<1>2. /\ trialCounter' = IF cursor = 0 THEN [trialCounter EXCEPT ![p] = 0] ELSE trialCounter
      /\ trialOffer' = [k \in Key |-> IF k \in PurgedKeys(p, cursor) THEN NONE ELSE trialOffer[k]]
      /\ trialEscrow' = [k \in Key |-> IF k \in PurgedKeys(p, cursor) THEN NONE ELSE trialEscrow[k]]
      /\ erased' = erased \cup {p}
      /\ UNCHANGED <<configVars, trialOfferLastSent, scoutTrialOffers, confirmVars,
                     outstanding, accumulatedFees, balance, accepted, depositOf, unbacked>>
  BY Zenon DEF PurgePlayerData
<1>3. LedgerTyped /\ LedgerTyped'
  BY DEF LedgerIInv
<1>4. \A k \in Key : k[1] # p => trialOffer'[k] = trialOffer[k]
  <2>1. \A k \in PurgedKeys(p, cursor) : k[1] = p
    BY DEF PurgedKeys
  <2> QED
    BY <1>2, <2>1
<1>5. RestTyped'
  BY <1>2 DEF RestTyped, configVars, confirmVars
<1>6. EscrowsCovered'
  <2>1. trialEscrow' = [k \in Key |-> IF k \in keys THEN NONE ELSE trialEscrow[k]]
    <3>1. \A k \in Key : k \in PurgedKeys(p, cursor) <=> k \in keys
      BY <1>1
    <3> HIDE DEF Key
    <3> QED
      BY <1>2, <3>1
  <2>2. /\ Escrowed(keys) \in Nat /\ Escrowed(Key)' \in Nat
        /\ Escrowed(Key) = Escrowed(keys) + Escrowed(Key)'
    <3>1. Key \in SUBSET Key
      OBVIOUS
    <3>2. Escrowed(Key)' \in Nat
      BY <1>3, <3>1, EscrowedTypeNext
    <3> QED
      BY <1>3, <2>1, <3>2, EscrowedType, EscrowedGivenUp
  <2>3. /\ balance \in Nat /\ unbacked \in Nat /\ accumulatedFees \in Nat
        /\ balance + unbacked >= accumulatedFees + Escrowed(Key)
        /\ unbacked' = unbacked /\ accumulatedFees' = accumulatedFees /\ balance' = balance
    BY <1>2 DEF RestTyped, EscrowsCovered
  <2>4. balance' + unbacked' >= accumulatedFees' + Escrowed(Key)'
    BY <2>2, <2>3
  <2> QED
    BY <2>4 DEF EscrowsCovered
<1>7. ListedForSweep'
  <2>1. \A k \in Key : Live(k)' => Live(k)
    BY <1>2 DEF Live
  <2> QED
    BY <1>2, <2>1 DEF ListedForSweep
<1>8. OffersOnRecord'
  <2> SUFFICES ASSUME NEW q \in Players \ erased', NEW j \in 1..trialCounter'[q]
               PROVE  /\ trialOffer'[<<q, j>>] \in Scouts
                      /\ <<q, j>> \in scoutTrialOffers'[trialOffer'[<<q, j>>]]
    BY DEF OffersOnRecord
  <2>1. q # p /\ q \in Players \ erased
    BY <1>2
  <2>2. trialCounter'[q] = trialCounter[q]
    BY <1>2, <1>3, <2>1 DEF LedgerTyped
  <2>3. <<q, j>> \in Key
    <3>1. trialCounter[q] \in 0..MaxOffers
      BY <1>3, <2>1 DEF LedgerTyped
    <3>2. j \in Index
      BY <2>2, <3>1, EscrowConstants DEF Index
    <3> QED
      BY <3>2 DEF Key
  <2>4. trialOffer'[<<q, j>>] = trialOffer[<<q, j>>]
    BY <1>4, <2>1, <2>3
  <2> QED
    BY <1>2, <2>1, <2>2, <2>4 DEF OffersOnRecord
<1> QED
  BY <1>5, <1>6, <1>7, <1>8

LEMMA SeedHoldings ==
  ASSUME HoldingsIInv, LedgerIInv', NEW p \in Players, NEW s \in Scouts,
         NEW escrow \in SeedEscrows \cup {NONE}, AdminSeedTrialOffer(p, s, escrow)
  PROVE  HoldingsIInv'
<1> USE DEF HoldingsIInv
<1>1. PICK i \in Index : i = trialCounter[p] + 1 /\ i = NextTrialIndex(p)
  BY EscrowConstants DEF AdminSeedTrialOffer, NextTrialIndex, Index, LedgerIInv, LedgerTyped
<1>2. PICK k \in Key : k = <<p, i>>
  BY DEF Key
<1>3. /\ trialOffer' = [trialOffer EXCEPT ![k] = s]
      /\ trialEscrow' = IF escrow = NONE THEN trialEscrow
                        ELSE [trialEscrow EXCEPT ![k] = escrow]
      /\ trialCounter' = [trialCounter EXCEPT ![p] = i]
      /\ scoutTrialOffers' = [scoutTrialOffers EXCEPT ![s] = @ \cup {k}]
      /\ depositOf' = [depositOf EXCEPT ![k] = 0]
      /\ unbacked' = IF escrow = NONE THEN unbacked ELSE unbacked + escrow.amount
      /\ UNCHANGED <<configVars, trialOfferLastSent, confirmVars, outstanding,
                     accumulatedFees, balance, accepted, erased>>
  BY <1>1, <1>2, Zenon DEF AdminSeedTrialOffer, ledgerVars
<1>4. LedgerTyped /\ LedgerTyped'
  BY DEF LedgerIInv
<1>5. escrow # NONE => escrow \in TrialEscrowRecord /\ escrow.amount \in Nat
  BY EscrowConstants DEF TrialEscrowRecord
<1>6. RestTyped'
  <2>1. scoutTrialOffers' \in [Scouts -> SUBSET Key]
    BY <1>3 DEF RestTyped
  <2>2. unbacked' \in Nat
    BY <1>3, <1>5 DEF RestTyped
  <2> QED
    BY <1>3, <2>1, <2>2 DEF RestTyped, configVars, confirmVars
<1>7. EscrowsCovered'
  <2>1. Escrowed(Key) \in Nat /\ Escrowed(Key)' \in Nat
    <3>1. Key \in SUBSET Key
      OBVIOUS
    <3>2. Escrowed(Key) \in Nat
      BY <1>4, <3>1, EscrowedType
    <3>3. Escrowed(Key)' \in Nat
      BY <1>4, <3>1, EscrowedTypeNext
    <3> QED
      BY <3>2, <3>3
  <2>2. /\ balance \in Nat /\ unbacked \in Nat /\ accumulatedFees \in Nat
        /\ balance + unbacked >= accumulatedFees + Escrowed(Key)
        /\ accumulatedFees' = accumulatedFees /\ balance' = balance
    BY <1>3 DEF RestTyped, EscrowsCovered
  <2>3. CASE escrow = NONE
    <3>1. Escrowed(Key)' = Escrowed(Key)
      BY <1>3, <2>3, EscrowedKept
    <3>2. unbacked' = unbacked
      BY <1>3, <2>3
    <3> QED
      BY <2>2, <3>1, <3>2 DEF EscrowsCovered
  <2>4. CASE escrow # NONE
    <3>1. PICK e \in TrialEscrowRecord : e = escrow /\ e.amount \in Nat
      BY <1>5, <2>4
    <3>2. trialEscrow' = [trialEscrow EXCEPT ![k] = e]
      BY <1>3, <2>4, <3>1
    <3>3. Escrowed(Key)' <= Escrowed(Key) + e.amount
      BY <1>4, <3>2, EscrowedPut
    <3>4. unbacked' = unbacked + e.amount
      BY <1>3, <2>4, <3>1
    <3>5. balance' + unbacked' >= accumulatedFees' + Escrowed(Key)'
      BY <2>1, <2>2, <3>1, <3>3, <3>4
    <3> QED
      BY <3>5 DEF EscrowsCovered
  <2> QED
    BY <2>3, <2>4
<1>8. ListedForSweep'
  <2> SUFFICES ASSUME NEW l \in Key, Live(l)', depositOf'[l] # 0
               PROVE  Contains(outstanding, l)
    BY <1>3 DEF ListedForSweep
  <2>1. l # k
    BY <1>3, <1>4 DEF LedgerTyped
  <2>2. Live(l) /\ depositOf[l] # 0
    BY <1>3, <1>4, <2>1 DEF Live, LedgerTyped
  <2> QED
    BY <2>2 DEF ListedForSweep
<1>9. OffersOnRecord'
  <2> SUFFICES ASSUME NEW q \in Players \ erased, NEW j \in 1..trialCounter'[q]
               PROVE  /\ trialOffer'[<<q, j>>] \in Scouts
                      /\ <<q, j>> \in scoutTrialOffers'[trialOffer'[<<q, j>>]]
    BY <1>3 DEF OffersOnRecord
  <2>1. PICK l \in Key : l = <<q, j>>
    <3>1. trialCounter'[q] \in 0..MaxOffers
      BY <1>4 DEF LedgerTyped
    <3>2. j \in Index
      BY <3>1, EscrowConstants DEF Index
    <3> QED
      BY <3>2 DEF Key
  <2>2. \A t \in Scouts : scoutTrialOffers[t] \subseteq scoutTrialOffers'[t]
    BY <1>3 DEF RestTyped
  <2>3. CASE l = k
    <3>1. trialOffer'[l] = s /\ l \in scoutTrialOffers'[s]
      BY <1>3, <1>4, <2>3 DEF LedgerTyped, RestTyped
    <3> QED
      BY <2>1, <3>1
  <2>4. CASE l # k
    <3>1. j \in 1..trialCounter[q]
      BY <1>1, <1>2, <1>3, <1>4, <2>1, <2>4 DEF LedgerTyped
    <3>2. trialOffer'[l] = trialOffer[l]
      BY <1>3, <1>4, <2>4 DEF LedgerTyped
    <3>3. trialOffer[l] \in Scouts /\ l \in scoutTrialOffers[trialOffer[l]]
      BY <2>1, <3>1 DEF OffersOnRecord
    <3> QED
      BY <2>1, <2>2, <3>2, <3>3
  <2> QED
    BY <2>3, <2>4
<1> QED
  BY <1>6, <1>7, <1>8, <1>9

\* What touches neither the offers nor the escrows.
LEMMA OtherHoldings ==
  ASSUME HoldingsIInv, LedgerIInv',
         UNCHANGED <<offerVars, trialEscrow, confirmVars, outstanding, ledgerVars, depositOf>>,
         \/ OpenMigrationWindow \/ CloseMigrationWindow
         \/ \E fee \in Fees : CollectFee(fee)
         \/ WithdrawFees
         \/ \E amount \in Refunds : RefundSubscription(amount)
         \/ PauseContract \/ UnpauseContract
         \/ Tick
         \/ UNCHANGED vars
  PROVE  HoldingsIInv'
<1> USE DEF HoldingsIInv
<1>1. /\ balance \in Nat /\ unbacked \in Nat /\ accumulatedFees \in Nat
      /\ balance + unbacked >= accumulatedFees + Escrowed(Key)
  BY DEF RestTyped, EscrowsCovered
<1>2. Escrowed(Key)' = Escrowed(Key)
  BY EscrowedKept
<1>3. Escrowed(Key) \in Nat
  <2>1. LedgerTyped /\ Key \in SUBSET Key
    BY DEF LedgerIInv
  <2> QED
    BY <2>1, EscrowedType
<1>4. /\ balance' \in Nat /\ unbacked' \in Nat /\ accumulatedFees' \in Nat
      /\ balance' + unbacked' >= accumulatedFees' + Escrowed(Key)'
  <2>1. CASE \/ OpenMigrationWindow \/ CloseMigrationWindow
             \/ PauseContract \/ UnpauseContract \/ Tick \/ UNCHANGED vars
    <3>1. balance' = balance /\ unbacked' = unbacked /\ accumulatedFees' = accumulatedFees
      BY <2>1 DEF OpenMigrationWindow, CloseMigrationWindow, PauseContract, UnpauseContract,
                  Tick, vars
    <3> QED
      BY <1>1, <1>2, <3>1
  <2>2. ASSUME NEW fee \in Fees, CollectFee(fee)
        PROVE  /\ balance' \in Nat /\ unbacked' \in Nat /\ accumulatedFees' \in Nat
               /\ balance' + unbacked' >= accumulatedFees' + Escrowed(Key)'
    <3>1. /\ fee \in Nat /\ balance' = balance + fee /\ unbacked' = unbacked
          /\ accumulatedFees' = accumulatedFees + fee
      BY <2>2, EscrowConstants DEF CollectFee
    <3> QED
      BY <1>1, <1>2, <1>3, <3>1
  <2>3. ASSUME WithdrawFees
        PROVE  /\ balance' \in Nat /\ unbacked' \in Nat /\ accumulatedFees' \in Nat
               /\ balance' + unbacked' >= accumulatedFees' + Escrowed(Key)'
    <3>1. /\ accumulatedFees <= balance /\ balance' = balance - accumulatedFees
          /\ unbacked' = unbacked /\ accumulatedFees' = 0
      BY <2>3 DEF WithdrawFees
    <3> QED
      BY <1>1, <1>2, <1>3, <3>1
  <2>4. ASSUME NEW amount \in Refunds, RefundSubscription(amount)
        PROVE  /\ balance' \in Nat /\ unbacked' \in Nat /\ accumulatedFees' \in Nat
               /\ balance' + unbacked' >= accumulatedFees' + Escrowed(Key)'
    <3>1. /\ amount \in Nat /\ amount <= balance /\ balance' = balance - amount
          /\ unbacked' = unbacked + amount /\ accumulatedFees' = accumulatedFees
      BY <2>4, EscrowConstants DEF RefundSubscription
    <3> QED
      BY <1>1, <1>2, <1>3, <3>1
  <2> QED
    BY <2>1, <2>2, <2>3, <2>4
<1>5. paused' \in BOOLEAN /\ migration' \in {"never", "open", "sealed"}
  BY DEF RestTyped, OpenMigrationWindow, CloseMigrationWindow, CollectFee, WithdrawFees,
         RefundSubscription, PauseContract, UnpauseContract, Tick, vars, configVars
<1>6. RestTyped'
  BY <1>4, <1>5 DEF RestTyped, offerVars, confirmVars, ledgerVars
<1>7. EscrowsCovered'
  BY <1>4 DEF EscrowsCovered
<1>8. ListedForSweep' /\ OffersOnRecord'
  BY DEF ListedForSweep, OffersOnRecord, Live, offerVars, ledgerVars
<1> QED
  BY <1>6, <1>7, <1>8

LEMMA HoldingsStep ==
  ASSUME HoldingsIInv, [Next]_vars
  PROVE  HoldingsIInv'
<1>1. LedgerIInv'
  BY EscrowStep DEF HoldingsIInv
<1>2. ASSUME NEW k \in Key, NEW nonce \in Nonces \cup {NONE}, ConfirmTrialOffer(k, nonce)
      PROVE  HoldingsIInv'
  <2>1. CASE ConfirmLate(k, nonce)
    BY <1>1, <2>1, RefundHoldings DEF ConfirmLate
  <2>2. CASE ConfirmInTime(k, nonce)
    BY <1>1, <2>2, ConfirmInTimeHoldings
  <2> QED
    BY <1>2, <2>1, <2>2 DEF ConfirmTrialOffer
<1>3. ASSUME NEW k \in Key, AdminRefundTrialEscrow(k)
      PROVE  HoldingsIInv'
  BY <1>1, <1>3, RefundHoldings DEF AdminRefundTrialEscrow
<1>4. ASSUME NEW limit \in 1..EXPIRE_TRIAL_OFFERS_MAX_LIMIT, ExpireTrialOffers(limit)
      PROVE  HoldingsIInv'
  <2>1. limit \in Nat
    BY EscrowConstants
  <2> QED
    BY <1>1, <1>4, <2>1, ExpireHoldings
<1>5. CASE \/ OpenMigrationWindow \/ CloseMigrationWindow
           \/ \E fee \in Fees : CollectFee(fee)
           \/ WithdrawFees
           \/ \E amount \in Refunds : RefundSubscription(amount)
           \/ PauseContract \/ UnpauseContract
           \/ Tick
           \/ UNCHANGED vars
  <2>1. UNCHANGED <<offerVars, trialEscrow, confirmVars, outstanding, ledgerVars, depositOf>>
    BY <1>5 DEF OpenMigrationWindow, CloseMigrationWindow, CollectFee, WithdrawFees,
                RefundSubscription, PauseContract, UnpauseContract, Tick, vars
  <2> QED
    BY <1>1, <1>5, <2>1, OtherHoldings
<1> QED
  BY <1>1, <1>2, <1>3, <1>4, <1>5, LogHoldings, PurgeHoldings, SeedHoldings, Zenon DEF Next

LEMMA HoldingsInvariant == Spec => []HoldingsIInv
  BY HoldingsInit, HoldingsStep, PTL DEF Spec

\* Every operation leaves each storage key with a value of its type; the
\* balance of the contract never goes negative.
THEOREM EscrowTypesHold == Spec => []TypeOK
<1>1. HoldingsIInv => TypeOK
  BY TypeParts DEF HoldingsIInv, LedgerIInv
<1> QED
  BY <1>1, HoldingsInvariant, PTL

\* In any order of offers, confirmations, sweeps, erasures, replays, fees,
\* withdrawals and refunds the balance covers the fees to withdraw and all the
\* escrows due, short of what was replayed without a payment or refunded.
THEOREM EscrowsStayCovered == Spec => []EscrowsCovered
<1>1. HoldingsIInv => EscrowsCovered
  BY DEF HoldingsIInv
<1> QED
  BY <1>1, HoldingsInvariant, PTL

----
(***************************************************************************)
(* What the readers show.                                                   *)
(***************************************************************************)
\* The page of this size a position is on.
LEMMA PageOf ==
  ASSUME NEW size \in Nat \ {0}
  PROVE  \A d \in Nat : \E page \in 0..d : size * page <= d /\ d < size * page + size
<1> DEFINE Good == {d \in Nat : \E page \in 0..d : size * page <= d /\ d < size * page + size}
<1>1. 0 \in Good
  <2>1. size * 0 = 0 /\ 0 \in 0..0
    OBVIOUS
  <2>2. QED
    BY <2>1
<1>2. ASSUME NEW d \in Nat, d \in Good
      PROVE  d + 1 \in Good
  <2>1. PICK page \in 0..d : size * page <= d /\ d < size * page + size
    BY <1>2
  <2>2. PICK start \in Nat : start = size * page
    OBVIOUS
  <2>3. CASE d + 1 < start + size
    <3>1. page \in 0..(d + 1) /\ size * page <= d + 1 /\ d + 1 < size * page + size
      BY <2>1, <2>2, <2>3
    <3>2. QED
      BY <3>1
  <2>4. CASE ~(d + 1 < start + size)
    <3>1. size * (page + 1) = start + size
      BY <2>2
    <3>2. d + 1 = start + size
      BY <2>1, <2>2, <2>4
    <3>3. page + 1 \in 0..(d + 1) /\ size * (page + 1) <= d + 1
          /\ d + 1 < size * (page + 1) + size
      BY <3>1, <3>2
    <3>4. \E next \in 0..(d + 1) : size * next <= d + 1 /\ d + 1 < size * next + size
      BY <3>3, Zenon
    <3>5. QED
      BY <3>4
  <2>5. QED
    BY <2>3, <2>4
<1>3. \A d \in Nat : d \in Good
  <2> HIDE DEF Good
  <2>1. QED
    BY <1>1, <1>2, InductionOnSet
<1>4. QED
  BY <1>3

LEMMA LesserOf ==
  ASSUME NEW a \in Int, NEW b \in Int
  PROVE  /\ Min({a, b}) = IF a <= b THEN a ELSE b
         /\ Max({a, b}) = IF a <= b THEN b ELSE a
BY DEF Min, Max

\* A player whose offers are all on record is shown every index asked for.
LEMMA EntriesShowAll ==
  ASSUME HoldingsIInv, NEW p \in Players \ erased,
         NEW n \in Nat, n = trialCounter[p], NEW indices \in Seq(1..n)
  PROVE  Entries(p, indices) =
           [j \in 1..Len(indices) |->
              [index |-> indices[j], offer |-> trialOffer[<<p, indices[j]>>]]]
<1>1. \A i \in 1..n : i \in Index /\ trialOffer[<<p, i>>] # NONE
  <2>1. n \in 0..MaxOffers
    BY DEF HoldingsIInv, LedgerIInv, LedgerTyped
  <2>2. \A i \in 1..n : trialOffer[<<p, i>>] \in Scouts
    BY DEF HoldingsIInv, OffersOnRecord
  <2> QED
    BY <2>1, <2>2, EscrowConstants DEF Index
<1>2. PICK A : A = {i \in Index : trialOffer[<<p, i>>] # NONE}
  OBVIOUS
<1>3. \A j \in 1..Len(indices) : indices[j] \in A
  BY <1>1, <1>2
<1>4. Filter(indices, A) = indices
  BY <1>3, FilterAll
<1> QED
  BY <1>2, <1>4, Zenon DEF Entries

LEMMA OldestShown ==
  ASSUME HoldingsIInv, NEW p \in Players \ erased,
         NEW n \in Nat, n = trialCounter[p], NEW count \in 0..n
  PROVE  Oldest(p, count) = [j \in 1..count |-> trialOffer[<<p, j>>]]
<1>1. PICK indices : indices = [i \in 1..count |-> i]
  OBVIOUS
<1>2. count \in Nat /\ \A i \in 1..count : i \in 1..n
  OBVIOUS
<1>3. indices \in Seq(1..n) /\ Len(indices) = count /\ \A i \in 1..count : indices[i] = i
  <2>1. indices \in Seq(1..n)
    BY <1>1, <1>2, IsASeq
  <2> QED
    BY <1>1, <1>2, <2>1
<1>4. PICK entries : entries = [j \in 1..count |-> [index |-> j, offer |-> trialOffer[<<p, j>>]]]
  OBVIOUS
<1>5. Entries(p, indices) = entries
  <2>1. Entries(p, indices) =
           [j \in 1..count |->
              [index |-> indices[j], offer |-> trialOffer[<<p, indices[j]>>]]]
    BY SMTT(60), <1>3, EntriesShowAll
  <2> QED
    BY <1>3, <1>4, <2>1
<1>6. Len(entries) = count /\ \A j \in 1..count : entries[j].offer = trialOffer[<<p, j>>]
  <2>1. entries \in [1..count -> {entries[j] : j \in 1..count}]
    BY <1>4
  <2>2. Len(entries) = count
    BY <1>2, <2>1, FunctionIsList
  <2> QED
    BY <1>4, <2>2
<1>7. Oldest(p, count) = [j \in 1..Len(entries) |-> entries[j].offer]
  BY <1>1, <1>5, Zenon DEF Oldest
<1> QED
  BY <1>6, <1>7

LEMMA OfferOnAPage ==
  ASSUME HoldingsIInv, NEW p \in Players \ erased, NEW i \in 1..trialCounter[p],
         NEW limit \in 1..MAX_PAGE
  PROVE  [index |-> i, offer |-> trialOffer[<<p, i>>]] \in Paged(p, limit)
<1>1. PICK n \in Nat : n = trialCounter[p] /\ n <= MaxOffers /\ i \in 1..n
  BY EscrowConstants DEF HoldingsIInv, LedgerIInv, LedgerTyped
<1>2. limit \in Nat \ {0} /\ limit <= MAX_PAGE /\ MAX_PAGE \in Nat
  BY EscrowConstants
<1>3. PICK page \in 0..(n - i) : limit * page <= n - i /\ n - i < limit * page + limit
  <2>1. PICK d \in Nat : d = n - i
    BY <1>1
  <2>2. \E page \in 0..d : limit * page <= d /\ d < limit * page + limit
    BY <1>2, PageOf, Zenon
  <2> QED
    BY <2>1, <2>2, Zenon
<1>4. PICK offset \in Nat : offset = limit * page
  BY <1>1, <1>2
<1>5. PICK count \in Nat : count = n - offset /\ count = Max({0, trialCounter[p] - offset})
  <2>1. n - offset \in Nat /\ 0 <= n - offset
    BY <1>1, <1>3, <1>4
  <2>2. Max({0, n - offset}) = IF 0 <= n - offset THEN n - offset ELSE 0
    BY <2>1, LesserOf
  <2>3. Max({0, n - offset}) = n - offset
    BY <2>1, <2>2
  <2> QED
    BY <1>1, <2>1, <2>3, Zenon
<1>6. PICK indices : indices = [pos \in 1..count |-> n - offset + 1 - pos]
  OBVIOUS
<1>7. indices \in Seq(1..n) /\ Len(indices) = count
  <2>1. \A pos \in 1..count : n - offset + 1 - pos \in 1..n
    BY <1>1, <1>5
  <2>2. indices \in [1..count -> 1..n]
    BY <1>6, <2>1
  <2> QED
    BY <2>2, FunctionIsList
<1>8. PICK entries :
        entries = [j \in 1..count |->
                     [index |-> indices[j], offer |-> trialOffer[<<p, indices[j]>>]]]
  OBVIOUS
<1>9. Entries(p, indices) = entries
  <2>1. indices \in Seq(1..n) /\ n = trialCounter[p]
    BY <1>1, <1>7
  <2>2. Entries(p, indices) =
          [j \in 1..Len(indices) |->
             [index |-> indices[j], offer |-> trialOffer[<<p, indices[j]>>]]]
    BY <2>1, EntriesShowAll, Zenon
  <2> QED
    BY <1>7, <1>8, <2>2, Zenon
<1>10. PICK E : entries \in Seq(E) /\ Len(entries) = count
  <2>1. entries \in [1..count -> {entries[j] : j \in 1..count}]
    BY <1>8
  <2> QED
    BY <2>1, FunctionIsList
<1>11. Max({1, Min({limit, MAX_PAGE})}) = limit
  <2>1. Min({limit, MAX_PAGE}) = limit
    BY <1>2, LesserOf
  <2>2. Max({1, limit}) = limit
    <3>1. PICK one \in Int : one = 1
      OBVIOUS
    <3>2. Max({one, limit}) = IF one <= limit THEN limit ELSE one
      BY <1>2, LesserOf
    <3> QED
      BY <1>2, <3>1, <3>2
  <2> QED
    BY <2>1, <2>2
<1>12. PICK last \in 0..count : last = Min({limit, Len(entries)}) /\ last = IF limit <= count THEN limit ELSE count
  <2>1. Min({limit, count}) = IF limit <= count THEN limit ELSE count
    BY <1>2, LesserOf
  <2> QED
    BY <1>2, <1>10, <2>1
<1>13. PICK shown : shown = SubSeq(entries, 1, last)
  OBVIOUS
<1>14. Len(shown) = last /\ \A j \in 1..last : shown[j] = entries[j]
  <2>1. last \in 0..Len(entries)
    BY <1>10
  <2> QED
    BY <1>10, <1>13, <2>1, CutEntries, Zenon
<1>15. GetTrialOffersPage(p, limit * page, limit).entries = shown
  <2>1. GetTrialOffersPage(p, offset, limit)
          = [entries |-> SubSeq(Entries(p, [pos \in 1..Max({0, trialCounter[p] - offset}) |->
                                              trialCounter[p] - offset + 1 - pos]),
                                1, Min({Max({1, Min({limit, MAX_PAGE})}),
                                        Len(Entries(p, [pos \in 1..Max({0, trialCounter[p] - offset}) |->
                                              trialCounter[p] - offset + 1 - pos]))})),
             total |-> trialCounter[p]]
    BY Zenon DEF GetTrialOffersPage
  <2>2. [pos \in 1..Max({0, trialCounter[p] - offset}) |-> trialCounter[p] - offset + 1 - pos] = indices
    BY <1>1, <1>5, <1>6, Zenon
  <2>3. GetTrialOffersPage(p, offset, limit) = [entries |-> shown, total |-> trialCounter[p]]
    BY <1>9, <1>11, <1>12, <1>13, <2>1, <2>2, Zenon
  <2> QED
    BY <1>4, <2>3
<1>16. PICK pos \in 1..last : entries[pos] = [index |-> i, offer |-> trialOffer[<<p, i>>]]
  <2>1. PICK pos \in 1..last : pos = n - offset + 1 - i
    <3>1. offset <= n - i /\ n - i < offset + limit
      BY <1>3, <1>4
    <3>2. n \in Nat /\ i \in Nat /\ i <= n /\ 1 <= i /\ limit \in Nat /\ count = n - offset
      BY <1>1, <1>2, <1>5
    <3>3. last = IF limit <= count THEN limit ELSE count
      BY <1>12
    <3>4. n - offset + 1 - i \in 1..last
      BY <3>1, <3>2, <3>3
    <3> QED
      BY <3>4
  <2>2. pos \in 1..count
    BY <1>12, <2>1
  <2>3. indices[pos] = n - offset + 1 - pos
    BY <1>6, <2>2
  <2>4. indices[pos] = i
    BY <1>1, <2>1, <2>3
  <2> QED
    BY <1>8, <2>2, <2>4
<1>17. [index |-> i, offer |-> trialOffer[<<p, i>>]] \in Range(shown)
  <2>1. pos \in DOMAIN shown
    <3>1. shown \in Seq(E)
      BY <1>10, <1>13, CutEntries, Zenon
    <3> QED
      BY <1>14, <3>1
  <2>2. shown[pos] = [index |-> i, offer |-> trialOffer[<<p, i>>]]
    BY <1>14, <1>16
  <2> QED
    BY <2>1, <2>2, Zenon DEF Range
<1>18. page \in 0..MaxOffers
  BY <1>1, <1>3, EscrowConstants
<1> QED
  BY <1>15, <1>17, <1>18, Zenon DEF Paged

LEMMA ReadersShowEscrows == HoldingsIInv => SweepFindsEveryEscrow
<1> SUFFICES ASSUME HoldingsIInv PROVE SweepFindsEveryEscrow
  OBVIOUS
<1>1. \A k \in Key : Live(k) /\ depositOf[k] # 0 =>
        \E j \in 1..Len(outstanding) : outstanding[j] = k
  BY Zenon DEF HoldingsIInv, ListedForSweep, Contains
<1>2. ASSUME NEW p \in Players \ erased, NEW i \in Index, GetTrialEscrow(p, i) # NONE
      PROVE  /\ <<p, i>> \in GetScoutTrialOffers(GetTrialOffer(p, i))
             /\ \A limit \in 1..MAX_PAGE :
                  [index |-> i, offer |-> GetTrialOffer(p, i)] \in Paged(p, limit)
  <2>1. PICK k \in Key : k = <<p, i>> /\ k[1] = p /\ k[2] = i
    <3>1. PICK k : k = <<p, i>>
      OBVIOUS
    <3>2. k \in Key /\ k[1] = p /\ k[2] = i
      BY <3>1 DEF Key
    <3> QED
      BY <3>1, <3>2
  <2>2. ~(i > trialCounter[p])
    BY <1>2, <2>1 DEF HoldingsIInv, LedgerIInv, UncountedWasErased, GetTrialEscrow, Live
  <2>3. i \in 1..trialCounter[p]
    BY <2>2, EscrowConstants DEF HoldingsIInv, LedgerIInv, LedgerTyped, Index
  <2>4. <<p, i>> \in scoutTrialOffers[trialOffer[<<p, i>>]]
    BY <2>3 DEF HoldingsIInv, OffersOnRecord
  <2>5. \A limit \in 1..MAX_PAGE :
          [index |-> i, offer |-> trialOffer[<<p, i>>]] \in Paged(p, limit)
    BY <2>3, OfferOnAPage
  <2> QED
    BY <2>4, <2>5, Zenon DEF GetScoutTrialOffers, GetTrialOffer
<1>3. ASSUME NEW p \in Players \ erased
      PROVE  /\ Len(GetPlayerTrialOffers(p)) = GetTrialCount(p)
             /\ IsPrefix(GetAllTrialOffers(p), GetPlayerTrialOffers(p))
  <2>1. PICK n \in Nat : n = trialCounter[p]
    BY EscrowConstants DEF HoldingsIInv, LedgerIInv, LedgerTyped
  <2>2. PICK m \in 0..n : m = Min({trialCounter[p], MAX_OFFERS})
    <3>1. Min({n, MAX_OFFERS}) = IF n <= MAX_OFFERS THEN n ELSE MAX_OFFERS
      BY EscrowConstants, LesserOf
    <3> QED
      BY <2>1, <3>1, EscrowConstants
  <2>3. PICK s, t : s = GetAllTrialOffers(p) /\ t = GetPlayerTrialOffers(p)
    OBVIOUS
  <2>4. s = [j \in 1..m |-> trialOffer[<<p, j>>]] /\ t = [j \in 1..n |-> trialOffer[<<p, j>>]]
    <3>1. n \in 0..n
      OBVIOUS
    <3>2. t = [j \in 1..n |-> trialOffer[<<p, j>>]]
      BY <2>1, <2>3, <3>1, OldestShown, Zenon DEF GetPlayerTrialOffers
    <3>3. s = [j \in 1..m |-> trialOffer[<<p, j>>]]
      BY <2>1, <2>2, <2>3, OldestShown, Zenon DEF GetAllTrialOffers
    <3> QED
      BY <3>2, <3>3
  <2>5. PICK E : /\ s \in Seq(E) /\ t \in Seq(E) /\ Len(s) = m /\ Len(t) = n
                 /\ \A j \in 1..m : s[j] = t[j]
    <3>1. m \in Nat /\ \A j \in 1..m : j \in 1..n
      BY <2>2
    <3> DEFINE F == {trialOffer[<<p, j>>] : j \in 1..n}
    <3>2. s \in [1..m -> F] /\ t \in [1..n -> F]
      BY <2>4, <3>1
    <3>3. \A j \in 1..m : s[j] = t[j]
      BY <2>4, <3>1
    <3> HIDE DEF F
    <3>4. s \in Seq(F) /\ Len(s) = m
      BY <3>1, <3>2, FunctionIsList
    <3>5. t \in Seq(F) /\ Len(t) = n
      BY <3>2, FunctionIsList
    <3> QED
      BY <3>3, <3>4, <3>5
  <2>6. SubSeq(s, 1, Len(s)) = SubSeq(t, 1, Len(s))
    <3>1. PICK a \in Seq(E), b \in Seq(E) : a = SubSeq(s, 1, m) /\ b = SubSeq(t, 1, m)
      <4>1. m \in 0..Len(s) /\ m \in 0..Len(t)
        BY <2>2, <2>5
      <4>2. SubSeq(s, 1, m) \in Seq(E)
        BY <2>5, <4>1, CutEntries, Zenon
      <4>3. SubSeq(t, 1, m) \in Seq(E)
        BY <2>5, <4>1, CutEntries, Zenon
      <4> QED
        BY <4>2, <4>3
    <3>2. Len(a) = m /\ \A j \in 1..m : a[j] = s[j]
      <4>1. m \in 0..Len(s)
        BY <2>2, <2>5
      <4> QED
        BY <2>5, <3>1, <4>1, CutEntries, Zenon
    <3>3. Len(b) = m /\ \A j \in 1..m : b[j] = t[j]
      <4>1. m \in 0..Len(t)
        BY <2>2, <2>5
      <4> QED
        BY SMTT(60), <2>5, <3>1, <4>1, CutEntries
    <3>4. a = b
      BY <2>5, <3>2, <3>3, SeqEqual
    <3> QED
      BY <2>5, <3>1, <3>4
  <2>7. Len(s) <= Len(t)
    BY <2>2, <2>5
  <2>8. IsPrefix(s, t)
    BY <2>6, <2>7, Zenon DEF IsPrefix
  <2> QED
    BY <2>1, <2>3, <2>5, <2>8, Zenon DEF GetTrialCount
<1> QED
  BY <1>1, <1>2, <1>3, Zenon DEF SweepFindsEveryEscrow

\* After any sweeps, confirmations, refunds and erasures the sweep's list still
\* has every escrow a scout paid in, and scout and player are shown the offer of
\* each on every page size.
THEOREM EscrowsStayFindable == Spec => []SweepFindsEveryEscrow
  BY HoldingsInvariant, ReadersShowEscrows, PTL
====
