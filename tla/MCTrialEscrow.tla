---- MODULE MCTrialEscrow ----
(***************************************************************************)
(* Values of the constants of TrialEscrow for model checking.               *)
(***************************************************************************)
EXTENDS TrialEscrow

CONSTANTS s1, s2

\* A replayed escrow that is due at time 1, and one of amount 0.
SeedSome == {[amount |-> 2, expires_at |-> 1], [amount |-> 0, expires_at |-> 3]}
SeedNone == {}

\* One scout's offers with fees, refunds and replayed escrows ...
Funding == made <= 2 /\ now <= 3 /\ scoutTrialOffers[s2] = {}
\* ... and two scouts' offers without.
Erasing ==
  /\ unbacked = 0 /\ accumulatedFees % 2 = 0
  /\ migration = "never"
OneSubject == Funding \/ Erasing
====
