---- MODULE MCPlayerRegistry ----
(***************************************************************************)
(* Values of the constants of PlayerRegistry for model checking.            *)
(***************************************************************************)
EXTENDS PlayerRegistry

CONSTANTS w1, w2, w3

FewWallets == {w1, w2}
MoreWallets == {w1, w2, w3}

Keeper == [region |-> "NG", position |-> "GK"]
Striker == [region |-> "NG", position |-> "ST"]
Abroad == [region |-> "FR", position |-> "ST"]
TwoVitals == {Keeper, Abroad}

\* A ticket for an id that the counter reaches.
OneTicket ==
  {[wallet |-> w1, profile_data_hash |-> ProfileDataHash(w1, Keeper, 2), nonce |-> 1,
    expires_at |-> 2]}

OldPlayer == {[id |-> 1, wallet |-> w2, vitals |-> Keeper, level |-> VerifiedIdentity]}

TwoLevels == {Unverified, VerifiedIdentity}
CooldownOrNone == {0, 1}

Anywhere == {[region |-> ANY, position |-> ANY, min_level |-> Unverified]}
AtHome == {[region |-> "NG", position |-> ANY, min_level |-> Unverified]}
OneByOne == {1}
====
