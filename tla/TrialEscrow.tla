---- MODULE TrialEscrow ----
(***************************************************************************)
(* Trial offers of scout_access: a scout pays an escrow to log an offer for *)
(* a player, the player's confirmation consumes it, and an expired one goes *)
(* back to the scout by a late confirmation, the admin's sweep or the       *)
(* admin's single refund.  The escrow shares the contract's token balance   *)
(* with the fees, which the admin withdraws, and with the admin's refunds.  *)
(*                                                                          *)
(* As in Progress an action is a successful invocation, NONE is an absent   *)
(* key and a failed token transfer or call into progress reverts the whole  *)
(* invocation.  What lets a scout log an offer (an Elite subscription, the  *)
(* verification, an earlier contact) is not modelled here: any scout may.   *)
(* The fee configuration may be another one at each call, so the amount and *)
(* the expiry of an offer are inputs.                                       *)
(***************************************************************************)
EXTENDS Lists, SequencesExt

CONSTANTS
  NONE,             \* an absent storage key
  Scouts, Players,
  Nonces,           \* idempotency nonces callers supply
  EscrowAmounts,    \* values of trial_offer_escrow_stroops; 0 disables offers
  ExpirySecs,       \* values of trial_offer_expiry_secs
  SeedEscrows,      \* escrow records replayed from an earlier deployment
  Fees,             \* amounts a subscription or a contact pays
  Refunds,          \* amounts the admin refunds a subscriber
  TRIAL_OFFER_COOLDOWN_SECS,
  EXPIRE_TRIAL_OFFERS_MAX_LIMIT,
  PURGE_PAGE_SIZE,  \* trial indices a purge call covers (50 in the source)
  MAX_OFFERS,       \* offers get_all_trial_offers stops at (20)
  MAX_PAGE,         \* largest page of get_trial_offers_page (50)
  MaxOffers,        \* bound on a player's TrialCounter
  MaxDeposits,      \* bound on the escrows ever paid in
  MaxBalance,       \* bound on the fees paid in and the refunds paid out
  MaxTime           \* bound on the ledger time

Index == 1..MaxOffers
Key == Players \X Index
Deposit == 1..MaxDeposits
TrialEscrowRecord == [amount : Nat, expires_at : Nat]
Terms == [scout : Scouts, player : Players, amount : EscrowAmounts]

ASSUME EscrowConstants ==
  /\ NONE \notin Scouts \cup TrialEscrowRecord \cup Nat \cup Nonces
  /\ IsFiniteSet(Players)
  /\ EscrowAmounts \subseteq Nat /\ ExpirySecs \subseteq Nat
  /\ SeedEscrows \subseteq TrialEscrowRecord
  /\ Fees \subseteq Nat \ {0} /\ Refunds \subseteq Nat \ {0}
  /\ TRIAL_OFFER_COOLDOWN_SECS \in Nat
  /\ EXPIRE_TRIAL_OFFERS_MAX_LIMIT \in Nat \ {0}
  /\ PURGE_PAGE_SIZE \in Nat \ {0}
  /\ MAX_OFFERS \in Nat \ {0} /\ MAX_PAGE \in Nat \ {0}
  /\ MaxOffers \in Nat /\ MaxDeposits \in Nat
  /\ MaxBalance \in Nat /\ MaxTime \in Nat

VARIABLES
  now,                  \* the ledger clock
  paused,               \* Paused
  migration,            \* MigrationActive and MigrationWindowSealed
  trialCounter,         \* TrialCounter(p), 0 when absent
  trialOffer,           \* TrialOffer(p, i): its scout
  trialEscrow,          \* TrialEscrow(p, i)
  trialOfferConfirmed,  \* TrialOfferConfirmed(p, i)
  confirmationNonce,    \* ConfirmationNonce(nonce)
  trialOfferLastSent,   \* TrialOfferLastSent(s, p)
  scoutTrialOffers,     \* ScoutTrialOffers(s), the keys it lists
  outstanding,          \* OutstandingTrialEscrows
  accumulatedFees,      \* AccumulatedFees
  balance,              \* the token balance of the contract
  \* What the properties need to know of the past; no guard reads these but
  \* for their bounds.
  made,         \* number of escrows paid in
  terms,        \* what was paid in, by whom and for which player
  depositOf,    \* the payment behind TrialEscrow(p, i), 0 if it was replayed
  accepted,     \* payments consumed by a confirmation
  erased,       \* players with a purge call
  repaid,       \* what each scout was paid back for each payment
  unbacked      \* replayed escrow and refunds, which no payment stands for

configVars == <<now, paused, migration>>
offerVars == <<trialCounter, trialOffer, trialOfferLastSent, scoutTrialOffers>>
confirmVars == <<trialOfferConfirmed, confirmationNonce>>
ledgerVars == <<made, terms, accepted, erased, repaid>>
vars == <<configVars, offerVars, trialEscrow, confirmVars, outstanding,
          accumulatedFees, balance, ledgerVars, depositOf, unbacked>>

----
(***************************************************************************)
(* Helpers.                                                                 *)
(***************************************************************************)
Live(k) == trialEscrow[k] # NONE
Expired(k) == Live(k) /\ now > trialEscrow[k].expires_at
Held == [k \in Key |-> IF Live(k) THEN trialEscrow[k].amount ELSE 0]
Escrowed(keys) == SumFunctionOnSet(Held, keys)

\* Mutant: the tokens go back to the scout but the escrow record stays.
RefundEscrowsTwice(keys) ==
  /\ Escrowed(keys) <= balance
  /\ balance' = balance - Escrowed(keys)
  /\ UNCHANGED <<trialEscrow, ledgerVars>>

\* A transfer of the escrows at these keys, each to the scout of its offer; it
\* reverts when the balance does not cover it.
RefundEscrows(keys) ==
  /\ Escrowed(keys) <= balance
  /\ balance' = balance - Escrowed(keys)
  /\ trialEscrow' = [k \in Key |-> IF k \in keys THEN NONE ELSE trialEscrow[k]]
  /\ repaid' = [d \in Deposit |-> [s \in Scouts |->
       IF \E k \in keys : depositOf[k] = d /\ trialOffer[k] = s
       THEN repaid[d][s] + trialEscrow[CHOOSE k \in keys :
              depositOf[k] = d /\ trialOffer[k] = s].amount
       ELSE repaid[d][s]]]
  /\ UNCHANGED <<made, terms, accepted, erased>>

\* Mutant: every entry of the player is taken off the list.
RemovePlayerFromOutstanding(k) ==
  outstanding' = Filter(outstanding, {entry \in Key : entry[1] # k[1]})

RemoveFromOutstanding(k) ==
  outstanding' = Filter(outstanding, Key \ {k})

----
(***************************************************************************)
(* Readers.  The two deprecated lists give the scouts without their index.  *)
(***************************************************************************)
GetTrialOffer(p, i) == trialOffer[<<p, i>>]
GetTrialEscrow(p, i) == trialEscrow[<<p, i>>]
GetTrialCount(p) == trialCounter[p]
GetScoutTrialOffers(s) == scoutTrialOffers[s]

\* The entries of these indices; an index without an offer is skipped.
Entries(p, indices) ==
  LET present == Filter(indices, {i \in Index : trialOffer[<<p, i>>] # NONE})
  IN  [j \in 1..Len(present) |->
         [index |-> present[j], offer |-> trialOffer[<<p, present[j]>>]]]

Oldest(p, count) ==
  LET entries == Entries(p, [i \in 1..count |-> i])
  IN  [j \in 1..Len(entries) |-> entries[j].offer]

GetPlayerTrialOffers(p) == Oldest(p, trialCounter[p])
GetAllTrialOffers(p) == Oldest(p, Min({trialCounter[p], MAX_OFFERS}))

\* Newest first: position 0 is the highest index.
GetTrialOffersPage(p, offset, limit) ==
  LET total == trialCounter[p]
      cap == Max({1, Min({limit, MAX_PAGE})})
      entries == Entries(p, [pos \in 1..Max({0, total - offset}) |->
                               total - offset + 1 - pos])
  IN  [entries |-> SubSeq(entries, 1, Min({cap, Len(entries)})), total |-> total]

----
(***************************************************************************)
(* Offers.                                                                  *)
(***************************************************************************)
\* Mutant: the first offer is counted as if it were logged at index 0.
NextTrialIndexFromZero(p) == Max({trialCounter[p], 1})

NextTrialIndex(p) == trialCounter[p] + 1

Cooled(s, p) ==
  trialOfferLastSent[s][p] # NONE =>
    now >= trialOfferLastSent[s][p] + TRIAL_OFFER_COOLDOWN_SECS

\* Bounded so that every escrow expires within the modelled time.
LogTrialOffer(s, p, amount, secs) ==
  LET i == NextTrialIndex(p)
      k == <<p, i>>
  IN
  /\ ~paused
  /\ amount # 0
  /\ Cooled(s, p)
  /\ i \in Index /\ made < MaxDeposits /\ now + secs < MaxTime
  /\ trialOffer' = [trialOffer EXCEPT ![k] = s]
  /\ trialCounter' = [trialCounter EXCEPT ![p] = i]
  /\ trialOfferLastSent' = [trialOfferLastSent EXCEPT ![s][p] = now]
  /\ scoutTrialOffers' = [scoutTrialOffers EXCEPT ![s] = @ \cup {k}]
  /\ balance' = balance + amount
  /\ trialEscrow' = [trialEscrow EXCEPT
                       ![k] = [amount |-> amount, expires_at |-> now + secs]]
  /\ outstanding' = Append(outstanding, k)
  /\ made' = made + 1
  /\ terms' = [terms EXCEPT ![made + 1] = [scout |-> s, player |-> p, amount |-> amount]]
  /\ depositOf' = [depositOf EXCEPT ![k] = made + 1]
  /\ UNCHANGED <<configVars, confirmVars, accumulatedFees, accepted, erased,
                 repaid, unbacked>>

\* Past the two idempotency checks and the two loads.
Confirmable(k, nonce) ==
  /\ ~paused
  /\ k \notin trialOfferConfirmed
  /\ nonce \notin confirmationNonce
  /\ Live(k)
  /\ trialOffer[k] # NONE

\* A confirmation that comes late refunds the scout and records nothing.
ConfirmLate(k, nonce) ==
  /\ Confirmable(k, nonce)
  /\ Expired(k)
  /\ RefundEscrows({k})
  /\ RemoveFromOutstanding(k)
  /\ UNCHANGED <<configVars, offerVars, confirmVars, accumulatedFees, depositOf, unbacked>>

\* In time, and progress advanced the player or answered AlreadyAtMaxLevel; any
\* other answer reverts.  The escrow is dropped: no transfer, no fee.
ConfirmInTime(k, nonce) ==
  /\ Confirmable(k, nonce)
  /\ ~Expired(k)
  /\ confirmationNonce' = confirmationNonce \cup ({nonce} \ {NONE})
  /\ trialEscrow' = [trialEscrow EXCEPT ![k] = NONE]
  /\ RemoveFromOutstanding(k)
  /\ trialOfferConfirmed' = trialOfferConfirmed \cup {k}
  /\ accepted' = accepted \cup ({depositOf[k]} \ {0})
  /\ UNCHANGED <<configVars, offerVars, accumulatedFees, balance, made, terms,
                 erased, repaid, depositOf, unbacked>>

ConfirmTrialOffer(k, nonce) == ConfirmLate(k, nonce) \/ ConfirmInTime(k, nonce)

----
(***************************************************************************)
(* The admin's ways to give an escrow back.                                 *)
(***************************************************************************)
\* Mutant: an offer that expires now is neither refunded nor kept.
KeptBeforeExpiry(examined) ==
  Filter(examined, {k \in Key : Live(k) /\ now < trialEscrow[k].expires_at})

Kept(examined) == Filter(examined, {k \in Key : Live(k) /\ ~Expired(k)})

\* The first entries are examined: the unexpired stay in front of the entries
\* not examined, the expired are refunded, those without an escrow are dropped.
ExpireTrialOffers(limit) ==
  LET count == Min({limit, EXPIRE_TRIAL_OFFERS_MAX_LIMIT, Len(outstanding)})
      examined == SubSeq(outstanding, 1, count)
  IN
  /\ limit # 0
  /\ RefundEscrows({k \in Key : Expired(k) /\ \E j \in 1..count : outstanding[j] = k})
  /\ outstanding' = Kept(examined) \o SubSeq(outstanding, count + 1, Len(outstanding))
  /\ UNCHANGED <<configVars, offerVars, confirmVars, accumulatedFees, depositOf, unbacked>>

AdminRefundTrialEscrow(k) ==
  /\ Live(k)
  /\ trialOffer[k] # NONE
  /\ RefundEscrows({k})
  /\ RemoveFromOutstanding(k)
  /\ UNCHANGED <<configVars, offerVars, confirmVars, accumulatedFees, depositOf, unbacked>>

----
(***************************************************************************)
(* Erasure and replay.                                                      *)
(***************************************************************************)
\* The trial indices a purge call that starts at the cursor covers.
PurgedKeys(p, cursor) ==
  {p} \X ((cursor + 1)..Min({cursor + PURGE_PAGE_SIZE, trialCounter[p]}))

\* Mutant: the offers are erased, their escrows are left for the sweep.
PurgePlayerDataOffersOnly(p, cursor) ==
  /\ ~paused
  /\ trialCounter' = IF cursor = 0 THEN [trialCounter EXCEPT ![p] = 0] ELSE trialCounter
  /\ trialOffer' = [k \in Key |-> IF k \in PurgedKeys(p, cursor) THEN NONE ELSE trialOffer[k]]
  /\ erased' = erased \cup {p}
  /\ UNCHANGED <<configVars, trialOfferLastSent, scoutTrialOffers, trialEscrow,
                 confirmVars, outstanding, accumulatedFees, balance, made, terms,
                 accepted, repaid, depositOf, unbacked>>

\* Refused while an unexpired escrow is counted.  The call with cursor 0 also
\* drops the counter, which the calls after it read.
PurgePlayerData(p, cursor) ==
  /\ ~paused
  /\ \A i \in 1..trialCounter[p] :
       Live(<<p, i>>) => Expired(<<p, i>>) \/ trialEscrow[<<p, i>>].amount = 0
  /\ trialCounter' = IF cursor = 0 THEN [trialCounter EXCEPT ![p] = 0] ELSE trialCounter
  /\ trialOffer' = [k \in Key |-> IF k \in PurgedKeys(p, cursor) THEN NONE ELSE trialOffer[k]]
  /\ trialEscrow' = [k \in Key |-> IF k \in PurgedKeys(p, cursor) THEN NONE ELSE trialEscrow[k]]
  /\ erased' = erased \cup {p}
  /\ UNCHANGED <<configVars, trialOfferLastSent, scoutTrialOffers, confirmVars,
                 outstanding, accumulatedFees, balance, made, terms, accepted,
                 repaid, depositOf, unbacked>>

\* A replayed escrow comes without a transfer and is not put into the sweep's
\* index.  Replaying an offer that is on record changes nothing.
AdminSeedTrialOffer(p, s, escrow) ==
  LET i == NextTrialIndex(p)
      k == <<p, i>>
  IN
  /\ migration = "open"
  /\ i \in Index
  /\ trialOffer[k] = NONE
  /\ escrow # NONE => unbacked + escrow.amount <= MaxBalance
  /\ trialOffer' = [trialOffer EXCEPT ![k] = s]
  /\ trialEscrow' = IF escrow = NONE THEN trialEscrow
                    ELSE [trialEscrow EXCEPT ![k] = escrow]
  /\ trialCounter' = [trialCounter EXCEPT ![p] = i]
  /\ scoutTrialOffers' = [scoutTrialOffers EXCEPT ![s] = @ \cup {k}]
  /\ depositOf' = [depositOf EXCEPT ![k] = 0]
  /\ unbacked' = IF escrow = NONE THEN unbacked ELSE unbacked + escrow.amount
  /\ UNCHANGED <<configVars, trialOfferLastSent, confirmVars, outstanding,
                 accumulatedFees, balance, ledgerVars>>

OpenMigrationWindow ==
  /\ migration # "sealed"
  /\ migration' = "open"
  /\ UNCHANGED <<now, paused, offerVars, trialEscrow, confirmVars, outstanding,
                 accumulatedFees, balance, ledgerVars, depositOf, unbacked>>

CloseMigrationWindow ==
  /\ migration = "open"
  /\ migration' = "sealed"
  /\ UNCHANGED <<now, paused, offerVars, trialEscrow, confirmVars, outstanding,
                 accumulatedFees, balance, ledgerVars, depositOf, unbacked>>

----
(***************************************************************************)
(* The other uses of the contract's balance.                                *)
(***************************************************************************)
\* subscribe, renew and pay_to_contact collect their fee this way.
CollectFee(fee) ==
  /\ ~paused
  /\ accumulatedFees + fee <= MaxBalance
  /\ balance' = balance + fee
  /\ accumulatedFees' = accumulatedFees + fee
  /\ UNCHANGED <<configVars, offerVars, trialEscrow, confirmVars, outstanding,
                 ledgerVars, depositOf, unbacked>>

WithdrawFees ==
  /\ accumulatedFees # 0
  /\ accumulatedFees <= balance
  /\ balance' = balance - accumulatedFees
  /\ accumulatedFees' = 0
  /\ UNCHANGED <<configVars, offerVars, trialEscrow, confirmVars, outstanding,
                 ledgerVars, depositOf, unbacked>>

\* Mutant: the balance is not looked at.
RefundSubscriptionUnchecked(amount) ==
  /\ unbacked + amount <= MaxBalance
  /\ balance' = balance - amount
  /\ unbacked' = unbacked + amount
  /\ UNCHANGED <<configVars, offerVars, trialEscrow, confirmVars, outstanding,
                 accumulatedFees, ledgerVars, depositOf>>

\* Any amount the balance covers, whatever it is held for.
RefundSubscription(amount) ==
  /\ amount <= balance
  /\ unbacked + amount <= MaxBalance
  /\ balance' = balance - amount
  /\ unbacked' = unbacked + amount
  /\ UNCHANGED <<configVars, offerVars, trialEscrow, confirmVars, outstanding,
                 accumulatedFees, ledgerVars, depositOf>>

PauseContract ==
  /\ ~paused
  /\ paused' = TRUE
  /\ UNCHANGED <<now, migration, offerVars, trialEscrow, confirmVars, outstanding,
                 accumulatedFees, balance, ledgerVars, depositOf, unbacked>>

UnpauseContract ==
  /\ paused
  /\ paused' = FALSE
  /\ UNCHANGED <<now, migration, offerVars, trialEscrow, confirmVars, outstanding,
                 accumulatedFees, balance, ledgerVars, depositOf, unbacked>>

Tick ==
  /\ now < MaxTime
  /\ now' = now + 1
  /\ UNCHANGED <<paused, migration, offerVars, trialEscrow, confirmVars, outstanding,
                 accumulatedFees, balance, ledgerVars, depositOf, unbacked>>

----
Init ==
  /\ now = 0 /\ paused = FALSE /\ migration = "never"
  /\ trialCounter = [p \in Players |-> 0]
  /\ trialOffer = [k \in Key |-> NONE]
  /\ trialEscrow = [k \in Key |-> NONE]
  /\ trialOfferConfirmed = {} /\ confirmationNonce = {}
  /\ trialOfferLastSent = [s \in Scouts |-> [p \in Players |-> NONE]]
  /\ scoutTrialOffers = [s \in Scouts |-> {}]
  /\ outstanding = <<>>
  /\ accumulatedFees = 0 /\ balance = 0
  /\ made = 0 /\ terms = [d \in Deposit |-> NONE]
  /\ depositOf = [k \in Key |-> 0]
  /\ accepted = {} /\ erased = {}
  /\ repaid = [d \in Deposit |-> [s \in Scouts |-> 0]]
  /\ unbacked = 0

Next ==
  \/ \E s \in Scouts, p \in Players, amount \in EscrowAmounts, secs \in ExpirySecs :
       LogTrialOffer(s, p, amount, secs)
  \/ \E k \in Key, nonce \in Nonces \cup {NONE} : ConfirmTrialOffer(k, nonce)
  \/ \E limit \in 1..EXPIRE_TRIAL_OFFERS_MAX_LIMIT : ExpireTrialOffers(limit)
  \/ \E k \in Key : AdminRefundTrialEscrow(k)
  \/ \E p \in Players, cursor \in 0..MaxOffers : PurgePlayerData(p, cursor)
  \/ \E p \in Players, s \in Scouts, escrow \in SeedEscrows \cup {NONE} :
       AdminSeedTrialOffer(p, s, escrow)
  \/ OpenMigrationWindow \/ CloseMigrationWindow
  \/ \E fee \in Fees : CollectFee(fee)
  \/ WithdrawFees
  \/ \E amount \in Refunds : RefundSubscription(amount)
  \/ PauseContract \/ UnpauseContract
  \/ Tick

Spec == Init /\ [][Next]_vars

\* Time passes, and the admin's keeper repeats the sweep, one entry at a time.
FairSpec == Spec /\ WF_vars(Tick) /\ WF_vars(ExpireTrialOffers(1))

----
(***************************************************************************)
(* Properties.                                                              *)
(***************************************************************************)
TypeOK ==
  /\ now \in Nat /\ paused \in BOOLEAN /\ migration \in {"never", "open", "sealed"}
  /\ trialCounter \in [Players -> 0..MaxOffers]
  /\ trialOffer \in [Key -> Scouts \cup {NONE}]
  /\ trialEscrow \in [Key -> TrialEscrowRecord \cup {NONE}]
  /\ trialOfferConfirmed \subseteq Key /\ confirmationNonce \subseteq Nonces
  /\ trialOfferLastSent \in [Scouts -> [Players -> Nat \cup {NONE}]]
  /\ scoutTrialOffers \in [Scouts -> SUBSET Key]
  /\ outstanding \in Seq(Key)
  /\ accumulatedFees \in Nat /\ balance \in Nat
  /\ made \in 0..MaxDeposits /\ terms \in [Deposit -> Terms \cup {NONE}]
  /\ depositOf \in [Key -> 0..made]
  /\ accepted \subseteq Deposit /\ erased \subseteq Players
  /\ repaid \in [Deposit -> [Scouts -> Nat]]
  /\ unbacked \in Nat

\* The tokens held cover the fees the admin may withdraw and every escrow still
\* due to a scout, short of what was paid out or replayed without a payment.
\* Offers, fees, withdrawals, confirmations, sweeps and erasures share the
\* balance, and no transfer says which of them it spends.
EscrowsCovered ==
  balance + unbacked >= accumulatedFees + Escrowed(Key)

\* What paging through get_trial_offers_page finds, with the index of each offer.
Paged(p, limit) ==
  UNION {Range(GetTrialOffersPage(p, limit * n, limit).entries) : n \in 0..MaxOffers}

\* Every escrow a scout paid in and has not got back is listed for the sweep,
\* whatever sweeps, confirmations and erasures did to the list in between; and
\* until the player's erasure begins, both sides can find its offer by the index
\* the confirmation asks for: the scout in get_scout_trial_offers, the player by
\* paging back from the newest offer, of which get_all_trial_offers shows the
\* oldest.
SweepFindsEveryEscrow ==
  /\ \A k \in Key : Live(k) /\ depositOf[k] # 0 =>
       \E j \in 1..Len(outstanding) : outstanding[j] = k
  /\ \A p \in Players \ erased :
       /\ \A i \in Index : GetTrialEscrow(p, i) # NONE =>
            /\ <<p, i>> \in GetScoutTrialOffers(GetTrialOffer(p, i))
            /\ \A limit \in 1..MAX_PAGE :
                 [index |-> i, offer |-> GetTrialOffer(p, i)] \in Paged(p, limit)
       /\ Len(GetPlayerTrialOffers(p)) = GetTrialCount(p)
       /\ IsPrefix(GetAllTrialOffers(p), GetPlayerTrialOffers(p))

\* No escrow is without its offer, which names the scout to refund: what the
\* orphan branch of the sweep and admin_rescue_orphan_trial_escrow handle is
\* not reached from this contract's own operations.
NoOrphanEscrow == \A k \in Key : Live(k) => trialOffer[k] # NONE

\* The payments the contract holds for their scouts.
Open == {d \in Deposit : \E k \in Key : Live(k) /\ depositOf[k] = d}

Ledger == INSTANCE EscrowLedger WITH Amounts <- EscrowAmounts, open <- Open

\* The contract keeps the promise of EscrowLedger: a scout's payment is given
\* back once, in full, to that scout, or is consumed by a confirmation, or
\* falls to the erasure of the player.
KeepsEscrowPromise == Ledger!Spec

\* While no refund of a subscription and no replay draws on the balance, every
\* escrow is settled: an entry that blocks the head of the sweep's list expires.
EveryEscrowSettles == \A d \in Deposit : d \in Open ~> d \notin Open
====
