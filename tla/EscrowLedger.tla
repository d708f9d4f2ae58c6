---- MODULE EscrowLedger ----
(***************************************************************************)
(* What the trial escrow promises a scout.  A deposit stays open until it   *)
(* is paid back to the scout who made it, once and in full, or the player   *)
(* accepts the trial it belongs to, or the player is erased.  Nothing else  *)
(* closes a deposit, and a closed deposit is never paid again.              *)
(***************************************************************************)
EXTENDS Naturals

CONSTANTS NONE, Scouts, Players, Amounts, MaxDeposits

Deposit == 1..MaxDeposits
Terms == [scout : Scouts, player : Players, amount : Amounts]

\* What the theorems about the ledger ask of its constants.
LedgerConstants == MaxDeposits \in Nat /\ Amounts \subseteq Nat

VARIABLES
  made,       \* deposits made so far
  terms,      \* who deposited how much, for which player
  open,       \* deposits the contract holds for their scout
  accepted,   \* deposits given up for an accepted trial
  erased,     \* players whose erasure has been started
  repaid      \* what each scout has been paid for each deposit

vars == <<made, terms, open, accepted, erased, repaid>>

Init ==
  /\ made = 0
  /\ terms = [d \in Deposit |-> NONE]
  /\ open = {} /\ accepted = {} /\ erased = {}
  /\ repaid = [d \in Deposit |-> [s \in Scouts |-> 0]]

Forfeitable(K) == K \subseteq {d \in open : terms[d].player \in erased}

\* A new deposit; the storage slot it takes may be that of a deposit forfeited
\* by an erasure.
MakeDeposit(t, forfeited) ==
  /\ made < MaxDeposits
  /\ Forfeitable(forfeited)
  /\ made' = made + 1
  /\ terms' = [terms EXCEPT ![made + 1] = t]
  /\ open' = (open \ forfeited) \cup {made + 1}
  /\ UNCHANGED <<accepted, erased, repaid>>

\* By a late confirmation, a sweep or the admin, to the deposits' own scouts.
PayBack(returned) ==
  /\ returned \subseteq open
  /\ open' = open \ returned
  /\ repaid' = [d \in Deposit |->
                  IF d \in returned
                  THEN [repaid[d] EXCEPT ![terms[d].scout] = @ + terms[d].amount]
                  ELSE repaid[d]]
  /\ UNCHANGED <<made, terms, accepted, erased>>

Accept(d) ==
  /\ d \in open
  /\ open' = open \ {d}
  /\ accepted' = accepted \cup {d}
  /\ UNCHANGED <<made, terms, erased, repaid>>

Erase(p, forfeited) ==
  /\ erased' = erased \cup {p}
  /\ forfeited \subseteq {d \in open : terms[d].player = p}
  /\ open' = open \ forfeited
  /\ UNCHANGED <<made, terms, accepted, repaid>>

Next ==
  \/ \E t \in Terms, K \in SUBSET open : MakeDeposit(t, K)
  \/ \E R \in SUBSET open : PayBack(R)
  \/ \E d \in open : Accept(d)
  \/ \E p \in Players, K \in SUBSET open : Erase(p, K)

Spec == Init /\ [][Next]_vars

----
\* What a deposit's own scout is owed back.
RepaidInFull(d) == repaid[d] = [s \in Scouts |-> IF s = terms[d].scout
                                                 THEN terms[d].amount ELSE 0]
NeverRepaid(d) == repaid[d] = [s \in Scouts |-> 0]

\* No deposit is paid twice, in part or to anyone but its scout; one that is
\* no longer held was paid back, accepted, or lost to an erasure.
EveryDepositAccountedFor ==
  \A d \in 1..made :
    /\ NeverRepaid(d) \/ RepaidInFull(d)
    /\ d \in open \cup accepted => NeverRepaid(d)
    /\ d \notin open \cup accepted =>
         RepaidInFull(d) \/ terms[d].player \in erased
====
