---- MODULE VerificationProofs ----
(***************************************************************************)
(* Proofs about the verification contract: a key speaks for one wallet, a   *)
(* nonce is accepted once, a validator stays within its allowance of        *)
(* milestones for a player in a window, the registry's list and counters    *)
(* are those of the active validators, a pending claim counts the votes of  *)
(* its round, a milestone is recorded with the quorum it needs, a cascade   *)
(* reaches all its validator attested, and every key holds a value of its   *)
(* type.  They hold for any number of wallets, players and evidence, any    *)
(* widths and thresholds and any order of steps.                            *)
(***************************************************************************)
EXTENDS Verification, DataTheorems

----
(***************************************************************************)
(* Who touches keys and nonces: two of the thirty-one steps.                *)
(***************************************************************************)
Unsigned == UNCHANGED <<attestationKey, attestationKeyOwner, nonceBase, nonceBitmap,
                        accepted>>

\* The registry, the pauses and the clock leave keys and nonces alone.
LEMMA RegistryLeavesSigning ==
  ASSUME RegisterStep \/ RestoreStep \/ TransferStep \/ PauseStep \/ UnpauseStep \/ ClockStep
  PROVE  Unsigned
BY DEF RegisterStep, RestoreStep, TransferStep, PauseStep, UnpauseStep, ClockStep,
       TransferMilestoneCount, attestationVars, signing, Unsigned

\* So do the ways a milestone is recorded without a signature.
LEMMA ClaimsLeaveSigning ==
  ASSUME ApproveStep \/ AttestPendingStep \/ AttestCommitStep \/ PruneStep \/ SeedMilestoneStep
  PROVE  Unsigned
<1>1. ASSUME ApproveStep PROVE Unsigned
  BY <1>1 DEF ApproveStep, ApproveMilestone, signing, Unsigned
<1>2. ASSUME AttestPendingStep PROVE Unsigned
  BY <1>2 DEF AttestPendingStep, AttestPending, signing, Unsigned
<1>3. ASSUME AttestCommitStep PROVE Unsigned
  BY <1>3 DEF AttestCommitStep, AttestCommit, signing, Unsigned
<1>4. ASSUME PruneStep PROVE Unsigned
  BY <1>4 DEF PruneStep, PruneExpiredClaim, signing, Unsigned
<1>5. ASSUME SeedMilestoneStep PROVE Unsigned
  BY <1>5 DEF SeedMilestoneStep, AdminSeedMilestone, signing, Unsigned
<1> QED
  BY <1>1, <1>2, <1>3, <1>4, <1>5

\* So do the settings and the contracts it calls.
LEMMA SettingsLeaveSigning ==
  ASSUME \/ ThresholdStep \/ WindowStep \/ DiversityStep \/ WiringStep \/ StatusStep
         \/ OpenWindowStep \/ CloseWindowStep
  PROVE  Unsigned
BY DEF ThresholdStep, WindowStep, DiversityStep, WiringStep, StatusStep, OpenWindowStep,
       CloseWindowStep, SetMilestoneThreshold, SetVotingWindowSecs, SetDiversityConfig,
       SetProgressContract, UpdateProgressContract, SetRegistrationContract,
       UpdateRegistrationContract, WriteWiringLink, PlayerStatusChange,
       OpenMigrationWindow, CloseMigrationWindow, signing, Unsigned

\* So do disputes, revocation, the cascade, re-review and erasure.
LEMMA DisputesLeaveSigning ==
  ASSUME \/ DisputeStep \/ ResolveStep \/ TallyStep \/ VoteStep \/ JuryStep \/ SeedDisputeStep
         \/ RevokeStep \/ BatchRevokeStep \/ ContinueStep \/ RereviewStep \/ PurgeStep
  PROVE  Unsigned
<1>1. ASSUME DisputeStep PROVE Unsigned
  BY <1>1 DEF DisputeStep, DisputeMilestone, attestationVars, signing, Unsigned
<1>2. ASSUME ResolveStep \/ TallyStep PROVE Unsigned
  BY <1>2 DEF ResolveStep, ResolveDispute, TallyStep, TallyDispute, CloseDispute,
              attestationVars, signing, Unsigned
<1>3. ASSUME VoteStep PROVE Unsigned
  BY <1>3 DEF VoteStep, CastDisputeVote, attestationVars, signing, Unsigned
<1>4. ASSUME JuryStep PROVE Unsigned
  BY <1>4 DEF JuryStep, SetJuryConfig, attestationVars, signing, Unsigned
<1>5. ASSUME SeedDisputeStep PROVE Unsigned
  BY <1>5 DEF SeedDisputeStep, AdminSeedDispute, attestationVars, signing, Unsigned
<1>6. ASSUME RevokeStep PROVE Unsigned
  BY <1>6 DEF RevokeStep, RevokeValidator, Revoke, signing, Unsigned
<1>7. ASSUME BatchRevokeStep PROVE Unsigned
  BY <1>7 DEF BatchRevokeStep, BatchRevokeValidators, Revoke, signing, Unsigned
<1>8. ASSUME ContinueStep PROVE Unsigned
  BY <1>8 DEF ContinueStep, ContinueRevocationCascade, attestationVars, signing, Unsigned
<1>9. ASSUME RereviewStep PROVE Unsigned
  BY <1>9 DEF RereviewStep, RereviewMilestone, attestationVars, signing, Unsigned
<1>10. ASSUME PurgeStep PROVE Unsigned
  BY <1>10 DEF PurgeStep, PurgePlayerData, signing, Unsigned
<1> QED
  BY <1>1, <1>2, <1>3, <1>4, <1>5, <1>6, <1>7, <1>8, <1>9, <1>10

\* What is left: a wallet binds a key, and a signature uses up a nonce.
LEMMA SigningSteps ==
  ASSUME [Next]_vars
  PROVE  RegisterKeyStep \/ SubmitStep \/ Unsigned
<1>1. ASSUME UNCHANGED vars PROVE Unsigned
  BY <1>1 DEF vars, attestationVars, signing, Unsigned
<1> QED
  BY <1>1, RegistryLeavesSigning, ClaimsLeaveSigning, SettingsLeaveSigning,
     DisputesLeaveSigning DEF Next

----
(***************************************************************************)
(* Keys.                                                                    *)
(***************************************************************************)
\* The key registered for a wallet and the wallet a key belongs to are inverse
\* to each other: what a signature proves, it proves for one wallet.
KeysAreOneToOne ==
  /\ attestationKey \in [Wallets -> Keys \cup {NONE}]
  /\ attestationKeyOwner \in [Keys -> Wallets \cup {NONE}]
  /\ \A w \in Wallets, k \in Keys :
       attestationKey[w] = k <=> attestationKeyOwner[k] = w

\* NONE stands for an absent key, never for a key or a wallet.
LEMMA NoneIsNeither == NONE \notin Keys /\ NONE \notin Wallets
BY AttestationAssumption, ValidatorAssumption

\* A wallet that registers a key frees the one it had before.
LEMMA RebindingKeepsOneToOne ==
  ASSUME KeysAreOneToOne, RegisterKeyStep
  PROVE  KeysAreOneToOne'
<1>1. PICK w \in Wallets, k \in Keys : RegisterAttestationKey(w, k)
  BY DEF RegisterKeyStep
<1>2. /\ attestationKeyOwner[k] \in {NONE, w}
      /\ attestationKeyOwner' = Rebound(w, k)
      /\ attestationKey' = [attestationKey EXCEPT ![w] = k]
  BY <1>1 DEF RegisterAttestationKey
<1>3. /\ attestationKey' \in [Wallets -> Keys \cup {NONE}]
      /\ attestationKeyOwner' \in [Keys -> Wallets \cup {NONE}]
  BY <1>2 DEF KeysAreOneToOne, Rebound
<1>4. ASSUME NEW v \in Wallets, NEW j \in Keys
      PROVE  attestationKey'[v] = j <=> attestationKeyOwner'[j] = v
  <2>1. CASE v = w
    BY <1>2, <2>1, NoneIsNeither DEF KeysAreOneToOne, Rebound
  <2>2. CASE v # w
    BY <1>2, <2>2, NoneIsNeither DEF KeysAreOneToOne, Rebound
  <2> QED
    BY <2>1, <2>2
<1> QED
  BY <1>3, <1>4 DEF KeysAreOneToOne

\* register_attestation_key: at every moment a key has one wallet and a wallet
\* one key, however often wallets change theirs and whoever asks for a key again.
THEOREM KeysNameOneWallet == Spec => []KeysAreOneToOne
<1>1. Init => KeysAreOneToOne
  BY NoneIsNeither DEF Init, AttestationInit, KeysAreOneToOne
<1>2. KeysAreOneToOne /\ [Next]_vars => KeysAreOneToOne'
  <2> SUFFICES ASSUME KeysAreOneToOne, [Next]_vars PROVE KeysAreOneToOne'
    OBVIOUS
  <2>1. CASE RegisterKeyStep
    BY <2>1, RebindingKeepsOneToOne
  <2>2. CASE SubmitStep
    BY <2>2 DEF SubmitStep, SubmitAttestedMilestone, KeysAreOneToOne
  <2>3. CASE Unsigned
    BY <2>3 DEF Unsigned, KeysAreOneToOne
  <2> QED
    BY <2>1, <2>2, <2>3, SigningSteps
<1> QED
  BY <1>1, <1>2, PTL DEF Spec

----
(***************************************************************************)
(* Nonces.                                                                  *)
(***************************************************************************)
NonceType ==
  /\ nonceBase \in [Wallets -> 0..U64_MAX]
  /\ nonceBitmap \in [Wallets -> SUBSET (0..(ATTESTATION_NONCE_BITMAP_BITS - 1))]
  /\ accepted \in [Wallets -> Seq(0..U64_MAX)]

Behind(w, nonce) == nonce < nonceBase[w] \/ nonce - nonceBase[w] \in nonceBitmap[w]

\* The same of the window after a step.
BehindNext(w, nonce) == nonce < nonceBase'[w] \/ nonce - nonceBase'[w] \in nonceBitmap'[w]

\* What the window knows of the past of w: each accepted nonce is behind the
\* base or has its bit, each bit is of an accepted nonce, one bit is the highest,
\* and nothing was accepted twice but the last u64.
WindowRemembers(w) ==
  /\ \A i \in DOMAIN accepted[w] : Behind(w, accepted[w][i])
  /\ \A b \in nonceBitmap[w] : \E i \in DOMAIN accepted[w] : accepted[w][i] = nonceBase[w] + b
  /\ accepted[w] # << >> =>
       \E b \in nonceBitmap[w] : \A c \in nonceBitmap[w] : b >= c
  /\ \A i, j \in DOMAIN accepted[w] :
       i # j /\ accepted[w][i] = accepted[w][j] => accepted[w][i] = U64_MAX

NonceInv == NonceType /\ \A w \in Wallets : WindowRemembers(w)

\* The bounds of the window are numbers.
LEMMA WindowBounds ==
  U64_MAX \in Nat /\ ATTESTATION_NONCE_BITMAP_BITS \in Nat
  /\ ATTESTATION_NONCE_BITMAP_BITS > 0
BY AttestationAssumption

\* A set's greatest element is its maximum.
LEMMA GreatestIsMax ==
  ASSUME NEW S, S \subseteq Int, NEW m \in S, \A x \in S : m >= x
  PROVE  Max(S) = m
<1>1. Max(S) \in S /\ \A y \in S : Max(S) >= y
  BY DEF Max
<1>2. Max(S) \in Int /\ m \in Int /\ m >= Max(S) /\ Max(S) >= m
  BY <1>1
<1> HIDE DEF Max
<1> QED
  BY <1>2

\* An element of a sequence over S is in S.
LEMMA Elements ==
  ASSUME NEW S, NEW s \in Seq(S), NEW i \in DOMAIN s
  PROVE  s[i] \in S
<1>1. i \in 1..Len(s) /\ s \in [1..Len(s) -> S]
  OBVIOUS
<1> QED
  BY <1>1

\* The types, for one wallet, as numbers.
LEMMA WindowTypes ==
  ASSUME NonceType, NEW w \in Wallets
  PROVE  /\ nonceBase[w] \in Nat /\ nonceBase[w] <= U64_MAX
         /\ \A b \in nonceBitmap[w] : b \in Nat /\ b < ATTESTATION_NONCE_BITMAP_BITS
         /\ accepted[w] \in Seq(0..U64_MAX)
         /\ \A i \in DOMAIN accepted[w] :
              accepted[w][i] \in Nat /\ accepted[w][i] <= U64_MAX
<1>1. U64_MAX \in Nat /\ ATTESTATION_NONCE_BITMAP_BITS \in Nat
  BY WindowBounds
<1>2. /\ nonceBase[w] \in 0..U64_MAX
      /\ nonceBitmap[w] \subseteq 0..(ATTESTATION_NONCE_BITMAP_BITS - 1)
      /\ accepted[w] \in Seq(0..U64_MAX)
  BY DEF NonceType
<1>3. ASSUME NEW i \in DOMAIN accepted[w] PROVE accepted[w][i] \in 0..U64_MAX
  BY <1>2, Elements
<1> QED
  BY <1>1, <1>2, <1>3

\* The invariant is what get_attestation_nonce needs to answer with the highest.
LEMMA WindowAnswers ==
  ASSUME NonceInv
  PROVE  NonceAcceptedOnce
<1> SUFFICES ASSUME NEW w \in Wallets, accepted[w] # << >>
             PROVE  GetAttestationNonce(w) = Max(ToSetOf(accepted[w]))
  BY DEF NonceInv, WindowRemembers, NonceAcceptedOnce
<1>1. /\ nonceBase[w] \in Nat
      /\ nonceBitmap[w] \subseteq Nat
      /\ \A i \in DOMAIN accepted[w] : accepted[w][i] \in Nat
  BY WindowTypes DEF NonceInv
<1>2. PICK b \in nonceBitmap[w] : \A c \in nonceBitmap[w] : b >= c
  BY DEF NonceInv, WindowRemembers
<1>3. GetAttestationNonce(w) = nonceBase[w] + b
  <2>1. Max(nonceBitmap[w]) = b
    BY <1>1, <1>2, GreatestIsMax
  <2> QED
    BY <1>2, <2>1 DEF GetAttestationNonce
<1>4. nonceBase[w] + b \in ToSetOf(accepted[w])
  BY <1>2 DEF NonceInv, WindowRemembers, ToSetOf
<1>5. ASSUME NEW i \in DOMAIN accepted[w]
      PROVE  nonceBase[w] + b >= accepted[w][i]
  <2>1. accepted[w][i] \in Nat
    BY <1>1
  <2>2. Behind(w, accepted[w][i])
    BY DEF NonceInv, WindowRemembers
  <2> QED
    BY <1>1, <1>2, <2>1, <2>2 DEF Behind
<1>6. Max(ToSetOf(accepted[w])) = nonceBase[w] + b
  <2>1. ToSetOf(accepted[w]) \subseteq Int
    BY <1>1 DEF ToSetOf
  <2>2. \A x \in ToSetOf(accepted[w]) : nonceBase[w] + b >= x
    BY <1>5 DEF ToSetOf
  <2> QED
    BY <1>4, <2>1, <2>2, GreatestIsMax
<1> QED
  BY <1>3, <1>6

\* A nonce within the window sets its bit and leaves the base.
LEMMA NearNonce ==
  ASSUME NonceInv, NEW w \in Wallets, NEW nonce \in 0..U64_MAX,
         ConsumeNonce(w, nonce), ~FarAhead(w, nonce)
  PROVE  /\ nonceBase'[w] = nonceBase[w]
         /\ nonce >= nonceBase[w] /\ nonce - nonceBase[w] < ATTESTATION_NONCE_BITMAP_BITS
         /\ nonce - nonceBase[w] \notin nonceBitmap[w]
         /\ nonceBitmap'[w] = nonceBitmap[w] \cup {nonce - nonceBase[w]}
         /\ accepted'[w] = Append(accepted[w], nonce)
<1>1. /\ WindowBase(w, nonce) = nonceBase[w]
      /\ WindowBits(w, nonce) = nonceBitmap[w]
  BY DEF WindowBase, WindowBits
<1>2. /\ nonceBase'[w] = nonceBase[w]
      /\ nonce >= nonceBase[w]
      /\ nonce - nonceBase[w] \notin nonceBitmap[w]
      /\ nonceBitmap'[w] = nonceBitmap[w] \cup {nonce - nonceBase[w]}
      /\ accepted'[w] = Append(accepted[w], nonce)
  BY <1>1 DEF ConsumeNonce, NonceFresh, NonceInv, NonceType
<1>3. nonce - nonceBase[w] < ATTESTATION_NONCE_BITMAP_BITS
  BY WindowBounds, WindowTypes DEF FarAhead, SaturatingAdd, NonceInv
<1> QED
  BY <1>2, <1>3

\* A nonce beyond the window becomes the base, and only the last u64 can have
\* been accepted as high as it.
LEMMA FarNonce ==
  ASSUME NonceInv, NEW w \in Wallets, NEW nonce \in 0..U64_MAX,
         ConsumeNonce(w, nonce), FarAhead(w, nonce)
  PROVE  /\ nonceBase'[w] = nonce
         /\ nonceBitmap'[w] = {0}
         /\ accepted'[w] = Append(accepted[w], nonce)
         /\ \A i \in DOMAIN accepted[w] :
              accepted[w][i] < nonce \/ (accepted[w][i] = nonce /\ nonce = U64_MAX)
<1>1. /\ WindowBase(w, nonce) = nonce
      /\ WindowBits(w, nonce) = {}
  BY DEF WindowBase, WindowBits
<1>2. /\ nonceBase'[w] = nonce
      /\ nonceBitmap'[w] = {nonce - nonce}
      /\ accepted'[w] = Append(accepted[w], nonce)
  BY <1>1 DEF ConsumeNonce, NonceInv, NonceType
<1>3. ASSUME NEW i \in DOMAIN accepted[w]
      PROVE  accepted[w][i] < nonce \/ (accepted[w][i] = nonce /\ nonce = U64_MAX)
  <2>1. Behind(w, accepted[w][i])
    BY DEF NonceInv, WindowRemembers
  <2>2. /\ accepted[w][i] \in Nat /\ accepted[w][i] <= U64_MAX
        /\ nonceBase[w] \in Nat
        /\ \A b \in nonceBitmap[w] : b \in Nat /\ b < ATTESTATION_NONCE_BITMAP_BITS
    BY WindowTypes DEF NonceInv
  <2>3. nonce >= SaturatingAdd(nonceBase[w], ATTESTATION_NONCE_BITMAP_BITS)
    BY DEF FarAhead
  <2> QED
    BY <2>1, <2>2, <2>3, WindowBounds DEF Behind, SaturatingAdd
<1>4. nonce - nonce = 0
  BY WindowBounds
<1> QED
  BY <1>2, <1>3, <1>4

\* Either way the types are kept.
LEMMA ConsumeNonceType ==
  ASSUME NonceInv, NEW w \in Wallets, NEW nonce \in 0..U64_MAX, ConsumeNonce(w, nonce)
  PROVE  NonceType'
<1> DEFINE base == WindowBase(w, nonce)
           bits == WindowBits(w, nonce) \cup {nonce - WindowBase(w, nonce)}
<1>1. base \in 0..U64_MAX
  BY DEF WindowBase, NonceInv, NonceType
<1>2. bits \subseteq 0..(ATTESTATION_NONCE_BITMAP_BITS - 1)
  <2>1. CASE FarAhead(w, nonce)
    BY <2>1, WindowBounds DEF WindowBase, WindowBits
  <2>2. CASE ~FarAhead(w, nonce)
    <3>1. nonceBitmap[w] \subseteq 0..(ATTESTATION_NONCE_BITMAP_BITS - 1)
      BY DEF NonceInv, NonceType
    <3>2. nonce - nonceBase[w] \in 0..(ATTESTATION_NONCE_BITMAP_BITS - 1)
      BY <2>2, NearNonce, WindowTypes, WindowBounds DEF NonceInv
    <3> QED
      BY <2>2, <3>1, <3>2 DEF WindowBase, WindowBits
  <2> QED
    BY <2>1, <2>2
<1>3. Append(accepted[w], nonce) \in Seq(0..U64_MAX)
  BY DEF NonceInv, NonceType
<1>4. /\ nonceBase' = [nonceBase EXCEPT ![w] = base]
      /\ nonceBitmap' = [nonceBitmap EXCEPT ![w] = bits]
      /\ accepted' = [accepted EXCEPT ![w] = Append(accepted[w], nonce)]
  BY DEF ConsumeNonce
<1> HIDE DEF base, bits
<1> QED
  BY <1>1, <1>2, <1>3, <1>4 DEF NonceInv, NonceType

\* What a sequence holds after one more element.
LEMMA Appended ==
  ASSUME NEW S, NEW s \in Seq(S), NEW x \in S
  PROVE  /\ DOMAIN Append(s, x) = DOMAIN s \cup {Len(s) + 1}
         /\ Len(s) + 1 \notin DOMAIN s
         /\ Append(s, x)[Len(s) + 1] = x
         /\ \A i \in DOMAIN s : Append(s, x)[i] = s[i]
         /\ Append(s, x) # << >>
OBVIOUS
\* A nonce within the window is remembered by its bit, which was not set.
LEMMA NearRemembered ==
  ASSUME NonceInv, NEW w \in Wallets, NEW nonce \in 0..U64_MAX,
         ConsumeNonce(w, nonce), ~FarAhead(w, nonce)
  PROVE  WindowRemembers(w)'
<1> DEFINE last == Len(accepted[w]) + 1
           bit  == nonce - nonceBase[w]
<1>1. /\ nonceBase'[w] = nonceBase[w] /\ nonce >= nonceBase[w]
      /\ bit \notin nonceBitmap[w] /\ nonceBitmap'[w] = nonceBitmap[w] \cup {bit}
      /\ accepted'[w] = Append(accepted[w], nonce)
  BY NearNonce
<1>2. /\ DOMAIN accepted'[w] = DOMAIN accepted[w] \cup {last}
      /\ last \notin DOMAIN accepted[w]
      /\ accepted'[w][last] = nonce
      /\ \A i \in DOMAIN accepted[w] : accepted'[w][i] = accepted[w][i]
  BY <1>1, Appended, WindowTypes DEF NonceInv
<1>3. /\ nonceBase[w] \in Nat /\ nonce \in Int /\ nonceBase[w] + bit = nonce
      /\ \A b \in nonceBitmap[w] : b \in Nat
      /\ bit \in Int
  BY WindowTypes, WindowBounds DEF NonceInv
<1>4. WindowRemembers(w)
  BY DEF NonceInv
<1> HIDE DEF last, bit
<1>5. ASSUME NEW i \in DOMAIN accepted'[w] PROVE BehindNext(w, accepted'[w][i])
  <2>1. CASE i = last
    BY <1>1, <1>2, <2>1 DEF BehindNext, bit
  <2>2. CASE i # last
    BY <1>1, <1>2, <1>4, <2>2 DEF Behind, BehindNext, WindowRemembers
  <2> QED
    BY <2>1, <2>2
<1>6. ASSUME NEW b \in nonceBitmap'[w]
      PROVE  \E i \in DOMAIN accepted'[w] : accepted'[w][i] = nonceBase'[w] + b
  <2>1. CASE b = bit
    BY <1>1, <1>2, <1>3, <2>1
  <2>2. CASE b # bit
    BY <1>1, <1>2, <1>4, <2>2 DEF WindowRemembers
  <2> QED
    BY <2>1, <2>2
<1>7. \E b \in nonceBitmap'[w] : \A c \in nonceBitmap'[w] : b >= c
  <2>1. CASE nonceBitmap[w] = {}
    BY <1>1, <1>3, <2>1
  <2>2. CASE nonceBitmap[w] # {}
    <3>1. PICK b \in nonceBitmap[w] : \A c \in nonceBitmap[w] : b >= c
      <4>1. accepted[w] # << >>
        BY <1>4, <2>2 DEF WindowRemembers
      <4> QED
        BY <1>4, <4>1 DEF WindowRemembers
    <3>2. CASE b >= bit
      BY <1>1, <3>1, <3>2
    <3>3. CASE bit > b
      BY <1>1, <1>3, <3>1, <3>3
    <3> QED
      BY <1>3, <3>2, <3>3
  <2> QED
    BY <2>1, <2>2
<1>8. ASSUME NEW i \in DOMAIN accepted[w] PROVE accepted[w][i] # nonce
  <2>1. Behind(w, accepted[w][i])
    BY <1>4 DEF WindowRemembers
  <2>2. ~(nonce < nonceBase[w])
    BY <1>1, <1>3
  <2>3. nonce - nonceBase[w] \notin nonceBitmap[w]
    BY <1>1 DEF bit
  <2> QED
    BY <2>1, <2>2, <2>3 DEF Behind
<1>9. ASSUME NEW i \in DOMAIN accepted'[w], NEW j \in DOMAIN accepted'[w],
             i # j, accepted'[w][i] = accepted'[w][j]
      PROVE  accepted'[w][i] = U64_MAX
  BY <1>2, <1>4, <1>8, <1>9 DEF WindowRemembers
<1> QED
  BY <1>5, <1>6, <1>7, <1>9 DEF WindowRemembers, Behind, BehindNext

\* A nonce beyond the window leaves all that was accepted behind the new base.
LEMMA FarRemembered ==
  ASSUME NonceInv, NEW w \in Wallets, NEW nonce \in 0..U64_MAX,
         ConsumeNonce(w, nonce), FarAhead(w, nonce)
  PROVE  WindowRemembers(w)'
<1> DEFINE last == Len(accepted[w]) + 1
<1>1. /\ nonceBase'[w] = nonce /\ nonceBitmap'[w] = {0}
      /\ accepted'[w] = Append(accepted[w], nonce)
      /\ \A i \in DOMAIN accepted[w] :
           accepted[w][i] < nonce \/ (accepted[w][i] = nonce /\ nonce = U64_MAX)
  BY FarNonce
<1>2. /\ DOMAIN accepted'[w] = DOMAIN accepted[w] \cup {last}
      /\ last \notin DOMAIN accepted[w]
      /\ accepted'[w][last] = nonce
      /\ \A i \in DOMAIN accepted[w] : accepted'[w][i] = accepted[w][i]
  BY <1>1, Appended, WindowTypes DEF NonceInv
<1>3. /\ nonce \in Nat /\ nonce - nonce = 0 /\ nonce + 0 = nonce
      /\ \A i \in DOMAIN accepted[w] : accepted[w][i] \in Nat
  BY WindowTypes, WindowBounds DEF NonceInv
<1>4. WindowRemembers(w)
  BY DEF NonceInv
<1> HIDE DEF last
<1>5. ASSUME NEW i \in DOMAIN accepted'[w] PROVE BehindNext(w, accepted'[w][i])
  BY <1>1, <1>2, <1>3 DEF BehindNext
<1>6. ASSUME NEW b \in nonceBitmap'[w]
      PROVE  \E i \in DOMAIN accepted'[w] : accepted'[w][i] = nonceBase'[w] + b
  BY <1>1, <1>2, <1>3
<1>7. \E b \in nonceBitmap'[w] : \A c \in nonceBitmap'[w] : b >= c
  BY <1>1
<1>8. ASSUME NEW i \in DOMAIN accepted'[w], NEW j \in DOMAIN accepted'[w],
             i # j, accepted'[w][i] = accepted'[w][j]
      PROVE  accepted'[w][i] = U64_MAX
  <2>1. CASE i # last /\ j # last
    BY <1>2, <1>4, <1>8, <2>1 DEF WindowRemembers
  <2>2. CASE i = last \/ j = last
    BY <1>1, <1>2, <1>3, <1>8, <2>2
  <2> QED
    BY <2>1, <2>2
<1> QED
  BY <1>5, <1>6, <1>7, <1>8 DEF WindowRemembers, Behind, BehindNext

\* A signature touches the window of its wallet only.
LEMMA SubmissionRemembered ==
  ASSUME NonceInv, SubmitStep
  PROVE  NonceInv'
<1>1. PICK a \in Attestations : SubmitAttestedMilestone(a)
  BY DEF SubmitStep
<1>2. a.wallet \in Wallets /\ a.nonce \in 0..U64_MAX
  <2>1. a \in MilestoneAttestation
    BY AttestationAssumption
  <2> QED
    BY <2>1 DEF MilestoneAttestation
<1>3. ConsumeNonce(a.wallet, a.nonce)
  BY <1>1 DEF SubmitAttestedMilestone
<1>4. NonceType'
  BY <1>2, <1>3, ConsumeNonceType
<1>5. ASSUME NEW w \in Wallets PROVE WindowRemembers(w)'
  <2>1. CASE w = a.wallet
    BY <1>2, <1>3, <2>1, NearRemembered, FarRemembered
  <2>2. CASE w # a.wallet
    <3>1. /\ nonceBase'[w] = nonceBase[w] /\ nonceBitmap'[w] = nonceBitmap[w]
          /\ accepted'[w] = accepted[w]
      BY <1>2, <1>3, <2>2 DEF ConsumeNonce, NonceInv, NonceType
    <3> QED
      BY <3>1 DEF NonceInv, WindowRemembers, Behind
  <2> QED
    BY <2>1, <2>2
<1> QED
  BY <1>4, <1>5 DEF NonceInv

\* What the window knows it knows throughout.
LEMMA NoncesAlways == Spec => []NonceInv
<1>1. Init => NonceInv
  <2> SUFFICES ASSUME Init PROVE NonceInv
    OBVIOUS
  <2>1. /\ nonceBase = [w \in Wallets |-> 0]
        /\ nonceBitmap = [w \in Wallets |-> {}]
        /\ accepted = [w \in Wallets |-> << >>]
    BY DEF Init, AttestationInit
  <2>2. NonceType
    BY <2>1, WindowBounds DEF NonceType
  <2>3. \A w \in Wallets : WindowRemembers(w)
    BY <2>1 DEF WindowRemembers
  <2> QED
    BY <2>2, <2>3 DEF NonceInv
<1>2. NonceInv /\ [Next]_vars => NonceInv'
  <2> SUFFICES ASSUME NonceInv, [Next]_vars PROVE NonceInv'
    OBVIOUS
  <2>1. CASE RegisterKeyStep
    BY <2>1 DEF RegisterKeyStep, RegisterAttestationKey, NonceInv, NonceType,
                WindowRemembers, Behind
  <2>2. CASE SubmitStep
    BY <2>2, SubmissionRemembered
  <2>3. CASE Unsigned
    BY <2>3 DEF Unsigned, NonceInv, NonceType, WindowRemembers, Behind
  <2> QED
    BY <2>1, <2>2, <2>3, SigningSteps
<1> QED
  BY <1>1, <1>2, PTL DEF Spec

\* submit_attested_milestone: no signature is used twice, whatever the order in
\* which relayers submit, and however far a nonce leaps; and a client that asks
\* for the nonce of a wallet is told the highest that was used.
THEOREM NoncesAreAcceptedOnce == Spec => []NonceAcceptedOnce
<1>1. NonceInv => NonceAcceptedOnce
  BY WindowAnswers
<1> QED
  BY <1>1, NoncesAlways, PTL

----
(***************************************************************************)
(* The rate limit: which steps matter are those that record, the clock and  *)
(* erasure.                                                                 *)
(***************************************************************************)
Unrated == UNCHANGED <<milestone, milestoneCounter, milestoneAttestors, playerCount,
                       windowStart, now, erasureCursor>>

\* The registry and its switches record nothing.
LEMMA RegistryLeavesRate ==
  ASSUME RegisterStep \/ RestoreStep \/ TransferStep \/ PauseStep \/ UnpauseStep
  PROVE  Unrated
<1>1. ASSUME RegisterStep PROVE Unrated
  BY <1>1 DEF RegisterStep, BatchRegisterValidators, Rest, attestationVars, milestones,
              Unrated
<1>2. ASSUME RestoreStep PROVE Unrated
  BY <1>2 DEF RestoreStep, RestoreValidator, Rest, attestationVars, milestones, Unrated
<1>3. ASSUME TransferStep PROVE Unrated
  BY <1>3 DEF TransferStep, TransferRecord, TransferMilestoneCount, Rest, Unrated
<1>4. ASSUME PauseStep PROVE Unrated
  BY <1>4 DEF PauseStep, PauseContract, PauseApproveMilestone, Pause, Rest,
              attestationVars, milestones, Unrated
<1>5. ASSUME UnpauseStep PROVE Unrated
  BY <1>5 DEF UnpauseStep, UnpauseContract, UnpauseApproveMilestone, Unpause, Rest,
              attestationVars, milestones, Unrated
<1> QED
  BY <1>1, <1>2, <1>3, <1>4, <1>5

\* Nor do settings, keys, and claims that stay pending or are pruned.
LEMMA SettingsLeaveRate ==
  ASSUME \/ AttestPendingStep \/ PruneStep \/ RegisterKeyStep
         \/ ThresholdStep \/ WindowStep \/ DiversityStep \/ WiringStep \/ StatusStep
         \/ OpenWindowStep \/ CloseWindowStep
  PROVE  Unrated
<1>1. ASSUME AttestPendingStep PROVE Unrated
  BY <1>1 DEF AttestPendingStep, AttestPending, Rest, validatorVars, milestones, Unrated
<1>2. ASSUME PruneStep PROVE Unrated
  BY <1>2 DEF PruneStep, PruneExpiredClaim, Rest, validatorVars, milestones, Unrated
<1>3. ASSUME RegisterKeyStep PROVE Unrated
  BY <1>3 DEF RegisterKeyStep, RegisterAttestationKey, Rest, validatorVars, milestones,
              Unrated
<1>4. ASSUME \/ ThresholdStep \/ WindowStep \/ DiversityStep \/ WiringStep \/ StatusStep
             \/ OpenWindowStep \/ CloseWindowStep
      PROVE  Unrated
  BY <1>4
     DEF ThresholdStep, WindowStep, DiversityStep, WiringStep, StatusStep, OpenWindowStep,
         CloseWindowStep, SetMilestoneThreshold, SetVotingWindowSecs, SetDiversityConfig,
         SetProgressContract, UpdateProgressContract, SetRegistrationContract,
         UpdateRegistrationContract, WriteWiringLink, PlayerStatusChange,
         OpenMigrationWindow, CloseMigrationWindow, Rest, validatorVars, milestones, Unrated
<1> QED
  BY <1>1, <1>2, <1>3, <1>4

\* Nor do disputes, revocation, the cascade and re-review.
LEMMA DisputesLeaveRate ==
  ASSUME \/ DisputeStep \/ ResolveStep \/ TallyStep \/ VoteStep \/ JuryStep \/ SeedDisputeStep
         \/ RevokeStep \/ BatchRevokeStep \/ ContinueStep \/ RereviewStep
  PROVE  Unrated
<1> USE DEF validatorVars, attestationVars, milestones, Undisputed, Unrated
<1>1. ASSUME DisputeStep PROVE Unrated
  BY <1>1 DEF DisputeStep, DisputeMilestone
<1>2. ASSUME ResolveStep \/ TallyStep PROVE Unrated
  BY <1>2 DEF ResolveStep, ResolveDispute, TallyStep, TallyDispute, CloseDispute
<1>3. ASSUME VoteStep PROVE Unrated
  BY <1>3 DEF VoteStep, CastDisputeVote
<1>4. ASSUME JuryStep PROVE Unrated
  BY <1>4 DEF JuryStep, SetJuryConfig
<1>5. ASSUME SeedDisputeStep PROVE Unrated
  BY <1>5 DEF SeedDisputeStep, AdminSeedDispute
<1>6. ASSUME RevokeStep PROVE Unrated
  BY <1>6 DEF RevokeStep, RevokeValidator, Revoke, RevokeRecords
<1>7. ASSUME BatchRevokeStep PROVE Unrated
  BY <1>7 DEF BatchRevokeStep, BatchRevokeValidators, Revoke, RevokeRecords
<1>8. ASSUME ContinueStep PROVE Unrated
  BY <1>8 DEF ContinueStep, ContinueRevocationCascade
<1>9. ASSUME RereviewStep PROVE Unrated
  BY <1>9 DEF RereviewStep, RereviewMilestone
<1> QED
  BY <1>1, <1>2, <1>3, <1>4, <1>5, <1>6, <1>7, <1>8, <1>9

----
(***************************************************************************)
(* The invariant.                                                           *)
(***************************************************************************)
\* The milestones w recorded for p, and those of its latest window.
Mine(w, p) ==
  {i \in Indexes : Record(p, i) # NONE /\ Record(p, i).validator = w
                     /\ AttestorsOf(<<p, i>>) # << >>}
InWindow(w, p) == {i \in Mine(w, p) : Record(p, i).approved_at >= windowStart[w][p]}

RateType ==
  /\ now \in Nat /\ now >= StartTime
  /\ DOMAIN milestone = Players /\ \A p \in Players : DOMAIN milestone[p] = Indexes
  /\ DOMAIN milestoneAttestors = Players
  /\ \A p \in Players : DOMAIN milestoneAttestors[p] = Indexes
  /\ milestoneCounter \in [Players -> Nat]
  /\ playerCount \in [Wallets -> [Players -> Nat]]
  /\ windowStart \in [Wallets -> [Players -> Nat]]
  /\ erasureCursor \in [Players -> Nat \cup {NONE}]

\* Beyond the counter nothing has attestors, so that a replayed record is nobody's.
NothingAhead(p) ==
  \A i \in Indexes : i > milestoneCounter[p] => AttestorsOf(<<p, i>>) = << >>

\* The stored count is at least that of the latest window, which began when the
\* clock was there, and whose end no milestone has passed.
Charged(w, p) ==
  /\ windowStart[w][p] <= now
  /\ \A i \in Mine(w, p) :
       /\ Record(p, i).approved_at \in Nat
       /\ Record(p, i).approved_at <= now
       /\ Record(p, i).approved_at < windowStart[w][p] + PLAYER_VALIDATOR_WINDOW_SECS
  /\ Cardinality(InWindow(w, p)) <= playerCount[w][p]
  /\ Cardinality(InWindow(w, p)) <= MAX_MILESTONES_PER_PLAYER_PER_VALIDATOR

RateInv ==
  /\ RateType
  /\ \A p \in Players : NotErased(p) => NothingAhead(p)
  /\ \A w \in Wallets, p \in Players : NotErased(p) => Charged(w, p)

\* The constants as numbers.
LEMMA RateBounds ==
  /\ MaxMilestones \in Nat
  /\ StartTime \in Nat
  /\ PLAYER_VALIDATOR_WINDOW_SECS \in Nat /\ PLAYER_VALIDATOR_WINDOW_SECS > 0
  /\ MAX_MILESTONES_PER_PLAYER_PER_VALIDATOR \in Nat
  /\ MAX_MILESTONES_PER_PLAYER_PER_VALIDATOR > 0
  /\ PURGE_PAGE_SIZE \in Nat /\ PURGE_PAGE_SIZE > 0
  /\ NONE \notin Nat
<1>1. /\ MaxMilestones \in Nat /\ PLAYER_VALIDATOR_WINDOW_SECS \in 1..StartTime
      /\ MAX_MILESTONES_PER_PLAYER_PER_VALIDATOR \in Nat \ {0}
  BY AttestationAssumption
<1>2. StartTime \in Nat \ {0} /\ NONE \notin Nat
  BY ValidatorAssumption
<1>3. PURGE_PAGE_SIZE \in Nat \ {0}
  BY VerificationAssumption
<1> QED
  BY <1>1, <1>2, <1>3

\* Sets of indexes are finite.
LEMMA IndexSetsAreFinite ==
  ASSUME NEW S \in SUBSET Indexes
  PROVE  IsFiniteSet(S) /\ Cardinality(S) \in Nat
<1>1. IsFiniteSet(Indexes)
  BY RateBounds, FS_Interval DEF Indexes
<1> QED
  BY <1>1, FS_Subset, FS_CardinalityType

\* The invariant says what the property does.
LEMMA RateInvSuffices == RateInv => RateIsWindowed
BY DEF RateInv, Charged, InWindow, Mine, RateIsWindowed

----
(***************************************************************************)
(* Recording.                                                               *)
(***************************************************************************)
\* What commit_approved_milestone does to the tables the rate is read from.
LEMMA CommitEffect ==
  ASSUME RateType, NEW w \in Wallets, NEW p \in Players, NEW e, NEW description,
         NEW attestors, CommitApprovedMilestone(w, p, e, description, attestors),
         now' = now, erasureCursor' = erasureCursor
  PROVE  /\ RateType'
         /\ NextIndex(p) \in Indexes
         /\ milestoneCounter'[p] = NextIndex(p)
         /\ \A q \in Players : q # p => milestoneCounter'[q] = milestoneCounter[q]
         /\ \A q \in Players, i \in Indexes : <<q, i>> # <<p, NextIndex(p)>> =>
              /\ milestone'[q][i] = milestone[q][i]
              /\ milestoneAttestors'[q][i] = milestoneAttestors[q][i]
         /\ milestone'[p][NextIndex(p)].validator = w
         /\ milestone'[p][NextIndex(p)].approved_at = now
         /\ CountInWindow(w, p) < MAX_MILESTONES_PER_PLAYER_PER_VALIDATOR
         /\ playerCount'[w][p] = CountInWindow(w, p) + 1
         /\ windowStart'[w][p] = IF CountInWindow(w, p) = 0 THEN now ELSE windowStart[w][p]
         /\ \A v \in Wallets, q \in Players : <<v, q>> # <<w, p>> =>
              /\ playerCount'[v][q] = playerCount[v][q]
              /\ windowStart'[v][q] = windowStart[v][q]
<1> DEFINE n == NextIndex(p)
           record == [validator |-> w, evidence |-> e, description |-> description,
                      approved_at |-> now]
<1>1. /\ n \in Indexes
      /\ milestone' = [milestone EXCEPT ![p][n] = record]
      /\ milestoneCounter' = [milestoneCounter EXCEPT ![p] = n]
      /\ milestoneAttestors' = [milestoneAttestors EXCEPT ![p][n] = attestors]
  BY DEF CommitApprovedMilestone
<1>2. /\ CountInWindow(w, p) < MAX_MILESTONES_PER_PLAYER_PER_VALIDATOR
      /\ playerCount' = [playerCount EXCEPT ![w][p] = CountInWindow(w, p) + 1]
      /\ windowStart' = IF CountInWindow(w, p) = 0
                        THEN [windowStart EXCEPT ![w][p] = now] ELSE windowStart
  BY DEF CommitApprovedMilestone, ChargeWindow
<1>3. CountInWindow(w, p) \in Nat
  BY DEF CountInWindow, RateType
<1>4. n \in Nat
  BY DEF NextIndex, RateType
<1>5. record.validator = w /\ record.approved_at = now
  OBVIOUS
<1> HIDE DEF n, record
<1>6. /\ DOMAIN milestone' = Players /\ \A q \in Players : DOMAIN milestone'[q] = Indexes
      /\ \A q \in Players, i \in Indexes : <<q, i>> # <<p, n>> =>
           milestone'[q][i] = milestone[q][i]
      /\ milestone'[p][n] = record
  BY <1>1 DEF RateType
<1>7. /\ DOMAIN milestoneAttestors' = Players
      /\ \A q \in Players : DOMAIN milestoneAttestors'[q] = Indexes
      /\ \A q \in Players, i \in Indexes : <<q, i>> # <<p, n>> =>
           milestoneAttestors'[q][i] = milestoneAttestors[q][i]
  BY <1>1 DEF RateType
<1>8. /\ milestoneCounter' \in [Players -> Nat] /\ milestoneCounter'[p] = n
      /\ \A q \in Players : q # p => milestoneCounter'[q] = milestoneCounter[q]
  BY <1>1, <1>4 DEF RateType
<1>9. /\ playerCount' \in [Wallets -> [Players -> Nat]]
      /\ playerCount'[w][p] = CountInWindow(w, p) + 1
      /\ \A v \in Wallets, q \in Players : <<v, q>> # <<w, p>> =>
           playerCount'[v][q] = playerCount[v][q]
  BY <1>2, <1>3 DEF RateType
<1>10. /\ windowStart' \in [Wallets -> [Players -> Nat]]
       /\ windowStart'[w][p] = IF CountInWindow(w, p) = 0 THEN now ELSE windowStart[w][p]
       /\ \A v \in Wallets, q \in Players : <<v, q>> # <<w, p>> =>
            windowStart'[v][q] = windowStart[v][q]
  BY <1>2 DEF RateType
<1>11. RateType'
  BY <1>6, <1>7, <1>8, <1>9, <1>10 DEF RateType
<1> QED
  BY <1>1, <1>2, <1>5, <1>6, <1>7, <1>8, <1>9, <1>10, <1>11 DEF n
\* A validator whose milestones for q and whose window are as before stays within
\* its allowance when time passes or the stored count grows.
LEMMA ChargedStays ==
  ASSUME RateType, RateType', NEW v \in Wallets, NEW q \in Players, Charged(v, q),
         now' >= now, windowStart'[v][q] = windowStart[v][q],
         playerCount'[v][q] >= playerCount[v][q], Mine(v, q)' = Mine(v, q),
         \A i \in Mine(v, q) : milestone'[q][i] = milestone[q][i]
  PROVE  Charged(v, q)'
<1>1. /\ now \in Nat /\ now' \in Nat
      /\ windowStart[v][q] \in Nat
      /\ playerCount[v][q] \in Nat /\ playerCount'[v][q] \in Nat
  BY DEF RateType
<1>2. InWindow(v, q)' = InWindow(v, q)
  BY DEF InWindow, Record
<1>3. Cardinality(InWindow(v, q)) \in Nat
  BY IndexSetsAreFinite DEF InWindow, Mine
<1>4. \A i \in Mine(v, q)' :
        /\ Record(q, i)'.approved_at \in Nat
        /\ Record(q, i)'.approved_at <= now'
        /\ Record(q, i)'.approved_at < windowStart'[v][q] + PLAYER_VALIDATOR_WINDOW_SECS
  <2> SUFFICES ASSUME NEW i \in Mine(v, q)
               PROVE  /\ Record(q, i)'.approved_at \in Nat
                      /\ Record(q, i)'.approved_at <= now'
                      /\ Record(q, i)'.approved_at
                           < windowStart'[v][q] + PLAYER_VALIDATOR_WINDOW_SECS
    OBVIOUS
  <2>1. Record(q, i)' = Record(q, i)
    BY DEF Record
  <2> QED
    BY <1>1, <2>1 DEF Charged
<1>5. windowStart'[v][q] <= now'
  BY <1>1 DEF Charged
<1>6. /\ Cardinality(InWindow(v, q)') <= playerCount'[v][q]
      /\ Cardinality(InWindow(v, q)') <= MAX_MILESTONES_PER_PLAYER_PER_VALIDATOR
  BY <1>1, <1>2, <1>3 DEF Charged
<1> QED
  BY <1>4, <1>5, <1>6 DEF Charged

\* What a commit puts among the milestones of a validator: the new one, and only
\* for the validator that commits.
LEMMA CommitMine ==
  ASSUME RateInv, NEW w \in Wallets, NEW p \in Players, NEW e, NEW description,
         NEW attestors, CommitApprovedMilestone(w, p, e, description, attestors),
         now' = now, erasureCursor' = erasureCursor,
         NEW v \in Wallets, NEW q \in Players, NotErased(q)
  PROVE  /\ Mine(v, q)' \subseteq Mine(v, q) \cup {NextIndex(p)}
         /\ <<v, q>> # <<w, p>> => Mine(v, q)' = Mine(v, q)
         /\ \A i \in Mine(v, q) : milestone'[q][i] = milestone[q][i]
         /\ q = p => NextIndex(p) \notin Mine(v, q)
<1> DEFINE n == NextIndex(p)
<1>1. /\ n \in Indexes
      /\ \A i \in Indexes : <<q, i>> # <<p, n>> =>
           /\ milestone'[q][i] = milestone[q][i]
           /\ milestoneAttestors'[q][i] = milestoneAttestors[q][i]
      /\ milestone'[p][n].validator = w
  BY CommitEffect DEF RateInv
<1>2. n > milestoneCounter[p]
  BY DEF NextIndex, RateInv, RateType
<1> HIDE DEF n
<1>3. q = p => n \notin Mine(v, q)
  BY <1>1, <1>2 DEF RateInv, NothingAhead, Mine
<1>4. ASSUME NEW i \in Indexes, <<q, i>> # <<p, n>>
      PROVE  i \in Mine(v, q)' <=> i \in Mine(v, q)
  BY <1>1, <1>4 DEF Mine, Record, AttestorsOf
<1>5. q = p /\ v # w => n \notin Mine(v, q)'
  BY <1>1 DEF Mine, Record
<1>6. Mine(v, q)' \subseteq Indexes /\ Mine(v, q) \subseteq Indexes
  BY DEF Mine
<1>7. Mine(v, q)' \subseteq Mine(v, q) \cup {n}
  BY <1>4, <1>6
<1>8. <<v, q>> # <<w, p>> => Mine(v, q)' = Mine(v, q)
  BY <1>3, <1>4, <1>5, <1>6
<1>9. \A i \in Mine(v, q) : milestone'[q][i] = milestone[q][i]
  BY <1>1, <1>3, <1>6
<1> QED
  BY <1>3, <1>7, <1>8, <1>9 DEF n
\* The committing validator: a window that is closed, or stored with a count of
\* 0, begins anew with this milestone alone; an open one had room for it.
LEMMA CommitCharged ==
  ASSUME RateInv, NEW w \in Wallets, NEW p \in Players, NEW e, NEW description,
         NEW attestors, CommitApprovedMilestone(w, p, e, description, attestors),
         now' = now, erasureCursor' = erasureCursor, NotErased(p)
  PROVE  Charged(w, p)'
<1> DEFINE n == NextIndex(p)
           start == windowStart[w][p]
           count == playerCount[w][p]
<1>1. /\ RateType /\ RateType' /\ Charged(w, p)
      /\ now \in Nat /\ start \in Nat /\ count \in Nat
  BY CommitEffect DEF RateInv, RateType
<1>2. /\ n \in Indexes
      /\ milestone'[p][n].approved_at = now
      /\ CountInWindow(w, p) < MAX_MILESTONES_PER_PLAYER_PER_VALIDATOR
      /\ playerCount'[w][p] = CountInWindow(w, p) + 1
      /\ windowStart'[w][p] = IF CountInWindow(w, p) = 0 THEN now ELSE start
  BY <1>1, CommitEffect
<1>3. /\ Mine(w, p)' \subseteq Mine(w, p) \cup {n}
      /\ \A i \in Mine(w, p) : milestone'[p][i] = milestone[p][i]
      /\ n \notin Mine(w, p)
  BY CommitMine
<1>4. \A i \in Mine(w, p) :
        /\ milestone'[p][i] = Record(p, i)
        /\ Record(p, i).approved_at \in Nat
        /\ Record(p, i).approved_at <= now
        /\ Record(p, i).approved_at < start + PLAYER_VALIDATOR_WINDOW_SECS
  BY <1>1, <1>3 DEF Charged, Record
<1>5. milestone'[p][n].approved_at = now
  BY <1>2
<1>6. /\ IsFiniteSet(InWindow(w, p)) /\ Cardinality(InWindow(w, p)) \in Nat
      /\ IsFiniteSet(InWindow(w, p)') /\ Cardinality(InWindow(w, p)') \in Nat
  <2>1. InWindow(w, p) \subseteq Indexes /\ InWindow(w, p)' \subseteq Indexes
    BY DEF InWindow, Mine
  <2> QED
    BY <2>1, IndexSetsAreFinite
<1>7. Cardinality(InWindow(w, p)) <= count
  BY <1>1 DEF Charged
<1>8. start <= now
  BY <1>1 DEF Charged
<1> HIDE DEF n, start, count
<1>9. CASE CountInWindow(w, p) = 0
  <2>1. windowStart'[w][p] = now /\ playerCount'[w][p] = 1
    BY <1>2, <1>9
  <2>2. ASSUME NEW i \in Mine(w, p) PROVE ~(Record(p, i).approved_at >= now)
    <3>1. CASE WindowOpen(w, p)
      <4>1. count = 0
        BY <1>9, <3>1 DEF CountInWindow, count
      <4>2. InWindow(w, p) = {}
        BY <1>6, <1>7, <4>1, FS_EmptySet
      <4>3. ~(Record(p, i).approved_at >= start)
        BY <4>2 DEF InWindow, start
      <4> QED
        BY <1>1, <1>4, <1>8, <4>3
    <3>2. CASE ~WindowOpen(w, p)
      <4>1. now >= start + PLAYER_VALIDATOR_WINDOW_SECS
        BY <1>1, <3>2, RateBounds DEF WindowOpen, start
      <4> QED
        BY <1>1, <1>4, <4>1, RateBounds
    <3> QED
      BY <3>1, <3>2
  <2>3. InWindow(w, p)' \subseteq {n}
    BY <1>3, <1>4, <2>1, <2>2 DEF InWindow, Record
  <2>4. Cardinality(InWindow(w, p)') <= 1
    <3>1. IsFiniteSet({n}) /\ Cardinality({n}) = 1
      BY FS_Singleton
    <3> QED
      BY <2>3, <3>1, FS_Subset
  <2>5. ASSUME NEW i \in Mine(w, p)'
        PROVE  /\ milestone'[p][i].approved_at \in Nat
               /\ milestone'[p][i].approved_at <= now'
               /\ milestone'[p][i].approved_at
                    < windowStart'[w][p] + PLAYER_VALIDATOR_WINDOW_SECS
    <3>1. milestone'[p][i].approved_at \in Nat /\ milestone'[p][i].approved_at <= now
      BY <1>1, <1>3, <1>4, <1>5
    <3> QED
      BY <1>1, <2>1, <3>1, RateBounds
  <2>6. /\ Cardinality(InWindow(w, p)') <= playerCount'[w][p]
        /\ Cardinality(InWindow(w, p)') <= MAX_MILESTONES_PER_PLAYER_PER_VALIDATOR
    BY <1>6, <2>1, <2>4, RateBounds
  <2>7. windowStart'[w][p] <= now'
    BY <1>1, <2>1
  <2> QED
    BY <2>5, <2>6, <2>7 DEF Charged, Record
<1>10. CASE CountInWindow(w, p) # 0
  <2>1. WindowOpen(w, p) /\ CountInWindow(w, p) = count
    BY <1>10 DEF CountInWindow, count
  <2>2. windowStart'[w][p] = start /\ playerCount'[w][p] = count + 1
    BY <1>2, <1>10, <2>1
  <2>3. now < start + PLAYER_VALIDATOR_WINDOW_SECS
    BY <2>1 DEF WindowOpen, start
  <2>4. InWindow(w, p)' \subseteq InWindow(w, p) \cup {n}
    BY <1>3, <1>4, <2>2 DEF InWindow, Record, start
  <2>5. Cardinality(InWindow(w, p)') <= Cardinality(InWindow(w, p)) + 1
    <3>1. /\ IsFiniteSet(InWindow(w, p) \cup {n})
          /\ Cardinality(InWindow(w, p) \cup {n}) <= Cardinality(InWindow(w, p)) + 1
      <4>1. /\ IsFiniteSet(InWindow(w, p) \cup {n})
            /\ \/ Cardinality(InWindow(w, p) \cup {n}) = Cardinality(InWindow(w, p))
               \/ Cardinality(InWindow(w, p) \cup {n}) = Cardinality(InWindow(w, p)) + 1
        BY <1>6, FS_AddElement
      <4> QED
        BY <1>6, <4>1
    <3>2. Cardinality(InWindow(w, p)') <= Cardinality(InWindow(w, p) \cup {n})
      BY <2>4, <3>1, FS_Subset
    <3>3. Cardinality(InWindow(w, p) \cup {n}) \in Nat
      BY <3>1, FS_CardinalityType
    <3> QED
      BY <1>6, <3>1, <3>2, <3>3
  <2>6. ASSUME NEW i \in Mine(w, p)'
        PROVE  /\ milestone'[p][i].approved_at \in Nat
               /\ milestone'[p][i].approved_at <= now'
               /\ milestone'[p][i].approved_at
                    < windowStart'[w][p] + PLAYER_VALIDATOR_WINDOW_SECS
    BY <1>1, <1>3, <1>4, <1>5, <2>2, <2>3
  <2>7. count < MAX_MILESTONES_PER_PLAYER_PER_VALIDATOR
    BY <1>2, <2>1
  <2>8. /\ Cardinality(InWindow(w, p)') <= playerCount'[w][p]
        /\ Cardinality(InWindow(w, p)') <= MAX_MILESTONES_PER_PLAYER_PER_VALIDATOR
    BY <1>1, <1>6, <1>7, <2>2, <2>5, <2>7, RateBounds
  <2>9. windowStart'[w][p] <= now'
    BY <1>8, <2>2
  <2> QED
    BY <2>6, <2>8, <2>9 DEF Charged, Record
<1> QED
  BY <1>9, <1>10
\* Every recorded milestone, for every validator and every player.
LEMMA CommitRate ==
  ASSUME RateInv, NEW w \in Wallets, NEW p \in Players, NEW e, NEW description,
         NEW attestors, CommitApprovedMilestone(w, p, e, description, attestors),
         now' = now, erasureCursor' = erasureCursor
  PROVE  RateInv'
<1>1. /\ RateType /\ RateType' /\ milestoneCounter'[p] = NextIndex(p)
      /\ \A q \in Players : q # p => milestoneCounter'[q] = milestoneCounter[q]
      /\ \A q \in Players, i \in Indexes : <<q, i>> # <<p, NextIndex(p)>> =>
           milestoneAttestors'[q][i] = milestoneAttestors[q][i]
      /\ \A v \in Wallets, q \in Players : <<v, q>> # <<w, p>> =>
           /\ playerCount'[v][q] = playerCount[v][q]
           /\ windowStart'[v][q] = windowStart[v][q]
  BY CommitEffect DEF RateInv
<1>2. \A q \in Players : NotErased(q)' <=> NotErased(q)
  BY DEF NotErased
<1>3. ASSUME NEW q \in Players, NotErased(q), NEW i \in Indexes, i > milestoneCounter'[q]
      PROVE  milestoneAttestors'[q][i] = << >>
  <2>1. milestoneCounter[q] \in Nat /\ NextIndex(p) = milestoneCounter[p] + 1
    BY <1>1 DEF RateType, NextIndex
  <2>2. i \in Int
    BY RateBounds DEF Indexes
  <2>3. i > milestoneCounter[q] /\ <<q, i>> # <<p, NextIndex(p)>>
    BY <1>1, <1>3, <2>1, <2>2
  <2>4. milestoneAttestors[q][i] = << >>
    BY <1>3, <2>3 DEF RateInv, NothingAhead, AttestorsOf
  <2> QED
    BY <1>1, <2>3, <2>4
<1>4. \A q \in Players : NotErased(q)' => NothingAhead(q)'
  BY <1>2, <1>3 DEF NothingAhead, AttestorsOf
<1>5. ASSUME NEW v \in Wallets, NEW q \in Players, NotErased(q)
      PROVE  Charged(v, q)'
  <2>1. CASE <<v, q>> = <<w, p>>
    BY <1>5, <2>1, CommitCharged
  <2>2. CASE <<v, q>> # <<w, p>>
    <3>1. /\ Mine(v, q)' = Mine(v, q)
          /\ \A i \in Mine(v, q) : milestone'[q][i] = milestone[q][i]
      BY <1>5, <2>2, CommitMine
    <3>2. playerCount'[v][q] >= playerCount[v][q]
      <4>1. playerCount[v][q] \in Nat
        BY <1>1 DEF RateType
      <4> QED
        BY <1>1, <2>2, <4>1
    <3>3. now' >= now
      BY <1>1 DEF RateType
    <3> QED
      BY <1>1, <1>5, <2>2, <3>1, <3>2, <3>3, ChargedStays DEF RateInv
  <2> QED
    BY <2>1, <2>2
<1> QED
  BY <1>1, <1>2, <1>4, <1>5 DEF RateInv

\* The three ways of recording a milestone with attestors.
LEMMA RecordingSteps ==
  ASSUME RateInv, ApproveStep \/ AttestCommitStep \/ SubmitStep
  PROVE  RateInv'
<1>1. CASE ApproveStep
  <2>1. PICK w \in Wallets, p \in Players, e \in Evidence, d \in Descriptions :
          ApproveMilestone(w, p, e, d) /\ Rest
    BY <1>1 DEF ApproveStep
  <2> QED
    BY <2>1, CommitRate DEF ApproveMilestone, Rest, validatorVars
<1>2. CASE AttestCommitStep
  <2>1. PICK w \in Wallets, p \in Players, e \in Evidence, d \in Descriptions :
          AttestCommit(w, p, e, d) /\ Rest
    BY <1>2 DEF AttestCommitStep
  <2> DEFINE new == WithVote(ClaimFor(<<p, e>>, d), w, d)
  <2>2. /\ CommitApprovedMilestone(w, p, e, new.description, new.voters)
        /\ now' = now /\ erasureCursor' = erasureCursor
    BY <2>1 DEF AttestCommit, Rest, validatorVars
  <2> HIDE DEF new
  <2> QED
    BY <2>2, CommitRate
<1>3. CASE SubmitStep
  <2>1. PICK a \in Attestations : SubmitAttestedMilestone(a) /\ Rest
    BY <1>3 DEF SubmitStep
  <2>2. a.wallet \in Wallets /\ a.player \in Players
    <3>1. a \in MilestoneAttestation
      BY AttestationAssumption
    <3> QED
      BY <3>1 DEF MilestoneAttestation
  <2>3. CommitApprovedMilestone(a.wallet, a.player, a.evidence, a.description, <<a.wallet>>)
    BY <2>1 DEF SubmitAttestedMilestone
  <2>4. now' = now /\ erasureCursor' = erasureCursor
    BY <2>1 DEF SubmitAttestedMilestone, Rest, validatorVars
  <2> QED
    BY <2>2, <2>3, <2>4, CommitRate
<1> QED
  BY <1>1, <1>2, <1>3

----
(***************************************************************************)
(* Replay, erasure and the clock.                                           *)
(***************************************************************************)
\* A replayed record has no attestors; it is counted but nobody's.
LEMMA SeedRate ==
  ASSUME RateInv, SeedMilestoneStep
  PROVE  RateInv'
<1>1. PICK p \in Players, m \in SeedMilestones : AdminSeedMilestone(p, m) /\ Rest
  BY DEF SeedMilestoneStep
<1> DEFINE n == NextIndex(p)
<1>2. m.validator \in Wallets
  <2>1. m \in Milestone
    BY AttestationAssumption
  <2> QED
    BY <2>1 DEF Milestone
<1>3. /\ n \in Indexes
      /\ milestone' = [milestone EXCEPT ![p][n] = m]
      /\ milestoneCounter' = [milestoneCounter EXCEPT ![p] = n]
      /\ playerCount' =
           [playerCount EXCEPT ![m.validator][p] = playerCount[m.validator][p] + 1]
      /\ milestoneAttestors' = milestoneAttestors /\ windowStart' = windowStart
      /\ now' = now /\ erasureCursor' = erasureCursor
  BY <1>1 DEF AdminSeedMilestone, Rest, validatorVars
<1>4. RateType /\ n \in Nat /\ n = milestoneCounter[p] + 1
  BY DEF RateInv, RateType, NextIndex
<1> HIDE DEF n
<1>5. RateType'
  <2>1. playerCount' \in [Wallets -> [Players -> Nat]]
    BY <1>2, <1>3, <1>4 DEF RateType
  <2>2. milestoneCounter' \in [Players -> Nat]
    BY <1>3, <1>4 DEF RateType
  <2>3. DOMAIN milestone' = Players /\ \A q \in Players : DOMAIN milestone'[q] = Indexes
    BY <1>3, <1>4 DEF RateType
  <2> QED
    BY <1>3, <1>4, <2>1, <2>2, <2>3 DEF RateType
<1>6. \A q \in Players : NotErased(q)' <=> NotErased(q)
  BY <1>3 DEF NotErased
<1>7. ASSUME NEW q \in Players, NotErased(q) PROVE NothingAhead(q)'
  <2>1. NothingAhead(q)
    BY <1>7 DEF RateInv
  <2>2. milestoneCounter'[q] \in Nat /\ milestoneCounter[q] \in Nat
        /\ milestoneCounter'[q] >= milestoneCounter[q]
    BY <1>3, <1>4 DEF RateType
  <2>3. \A i \in Indexes : i \in Int
    BY RateBounds DEF Indexes
  <2> QED
    BY <1>3, <2>1, <2>2, <2>3 DEF NothingAhead, AttestorsOf
<1>8. ASSUME NEW v \in Wallets, NEW q \in Players, NotErased(q) PROVE Charged(v, q)'
  <2>1. q = p => AttestorsOf(<<p, n>>) = << >>
    <3>1. n > milestoneCounter[p]
      BY <1>4 DEF RateType
    <3>2. q = p => NothingAhead(p)
      BY <1>8 DEF RateInv
    <3> QED
      BY <1>3, <3>1, <3>2 DEF NothingAhead
  <2>2. \A i \in Indexes : <<q, i>> # <<p, n>> => milestone'[q][i] = milestone[q][i]
    BY <1>3, <1>4 DEF RateType
  <2>3. ASSUME NEW i \in Indexes PROVE i \in Mine(v, q)' <=> i \in Mine(v, q)
    BY <1>3, <2>1, <2>2 DEF Mine, Record, AttestorsOf
  <2>4. Mine(v, q)' = Mine(v, q)
    BY <2>3 DEF Mine
  <2>5. \A i \in Mine(v, q) : milestone'[q][i] = milestone[q][i]
    BY <2>1, <2>2 DEF Mine
  <2>6. playerCount'[v][q] >= playerCount[v][q]
    BY <1>2, <1>3, <1>4 DEF RateType
  <2>7. now' >= now
    BY <1>3, <1>4 DEF RateType
  <2> QED
    BY <1>3, <1>4, <1>5, <1>8, <2>4, <2>5, <2>6, <2>7, ChargedStays DEF RateInv
<1> QED
  BY <1>5, <1>6, <1>7, <1>8 DEF RateInv

\* Time only passes.
LEMMA ClockRate ==
  ASSUME RateInv, ClockStep
  PROVE  RateInv'
<1>1. /\ now' = now + 1 /\ erasureCursor' = erasureCursor
      /\ UNCHANGED <<milestone, milestoneCounter, milestoneAttestors, playerCount, windowStart>>
  BY DEF ClockStep, ClockTick, Rest, attestationVars, milestones
<1>2. RateType /\ RateType' /\ now' >= now
  BY <1>1, RateBounds DEF RateInv, RateType
<1>3. \A q \in Players : NotErased(q)' <=> NotErased(q)
  BY <1>1 DEF NotErased
<1>4. \A q \in Players : NotErased(q) => NothingAhead(q)'
  BY <1>1 DEF RateInv, NothingAhead, AttestorsOf
<1>5. ASSUME NEW v \in Wallets, NEW q \in Players, NotErased(q) PROVE Charged(v, q)'
  <2>1. Mine(v, q)' = Mine(v, q)
    BY <1>1 DEF Mine, Record, AttestorsOf
  <2>2. playerCount'[v][q] >= playerCount[v][q]
    BY <1>1, <1>2 DEF RateType
  <2> QED
    BY <1>1, <1>2, <1>5, <2>1, <2>2, ChargedStays DEF RateInv
<1> QED
  BY <1>2, <1>3, <1>4, <1>5 DEF RateInv

\* An erasure concerns its player alone, who is not looked at any more.
LEMMA PurgeRate ==
  ASSUME RateInv, PurgeStep
  PROVE  RateInv'
<1>1. PICK p \in Players : PurgePlayerData(p)
  BY DEF PurgeStep
<1> DEFINE cursor == erasureCursor[p]
           end    == Least(cursor + PURGE_PAGE_SIZE, milestoneCounter[p])
           more   == end < milestoneCounter[p]
           rest   == [i \in Indexes |-> IF <<p, i>> \in Erased(p, cursor, end - 1) THEN NONE
                                       ELSE milestone[p][i]]
<1>2. /\ cursor # NONE
      /\ milestoneCounter' = [milestoneCounter EXCEPT ![p] =
           IF more THEN milestoneCounter[p] ELSE 0]
      /\ erasureCursor' = [erasureCursor EXCEPT ![p] = IF more THEN end ELSE NONE]
      /\ now' = now /\ milestoneAttestors' = milestoneAttestors
      /\ playerCount' = playerCount /\ windowStart' = windowStart
  BY <1>1 DEF PurgePlayerData, validatorVars
<1>3. milestone' = [milestone EXCEPT ![p] = rest] /\ DOMAIN rest = Indexes
  BY <1>1 DEF PurgePlayerData
<1>4. /\ RateType /\ milestoneCounter[p] \in Nat /\ cursor \in Nat
  BY <1>2 DEF RateInv, RateType
<1>5. end \in Nat /\ (more => end > 0)
  BY <1>4, RateBounds DEF Least
<1> HIDE DEF cursor, end, more, rest
<1>6. RateType'
  <2>1. milestoneCounter' \in [Players -> Nat]
    BY <1>2, <1>4 DEF RateType
  <2>2. erasureCursor' \in [Players -> Nat \cup {NONE}]
    BY <1>2, <1>4, <1>5 DEF RateType
  <2>3. DOMAIN milestone' = Players /\ \A q \in Players : DOMAIN milestone'[q] = Indexes
    BY <1>3, <1>4 DEF RateType
  <2> QED
    BY <1>2, <1>4, <2>1, <2>2, <2>3 DEF RateType
<1>7. ~NotErased(p)'
  BY <1>2, <1>4, <1>5, RateBounds DEF NotErased, RateType
<1>8. ASSUME NEW q \in Players, q # p
      PROVE  /\ NotErased(q)' <=> NotErased(q)
             /\ milestone'[q] = milestone[q]
             /\ milestoneCounter'[q] = milestoneCounter[q]
  BY <1>2, <1>3, <1>4, <1>8 DEF NotErased, RateType
<1>9. ASSUME NEW q \in Players, NotErased(q)' PROVE NothingAhead(q)'
  BY <1>2, <1>7, <1>8, <1>9 DEF RateInv, NothingAhead, AttestorsOf
<1>10. ASSUME NEW v \in Wallets, NEW q \in Players, NotErased(q)' PROVE Charged(v, q)'
  <2>1. NotErased(q) /\ milestone'[q] = milestone[q]
    BY <1>7, <1>8, <1>10
  <2>2. Mine(v, q)' = Mine(v, q)
    BY <1>2, <2>1 DEF Mine, Record, AttestorsOf
  <2>3. playerCount'[v][q] >= playerCount[v][q]
    BY <1>2, <1>4 DEF RateType
  <2>4. now' >= now
    BY <1>2, <1>4 DEF RateType
  <2> QED
    BY <1>2, <1>4, <1>6, <2>1, <2>2, <2>3, <2>4, ChargedStays DEF RateInv
<1> QED
  BY <1>6, <1>9, <1>10 DEF RateInv
\* Every other step leaves what the invariant reads.
LEMMA UnratedStep ==
  ASSUME RateInv, Unrated
  PROVE  RateInv'
<1>1. /\ UNCHANGED <<milestone, milestoneCounter, milestoneAttestors, playerCount,
                      windowStart>>
      /\ now' = now /\ erasureCursor' = erasureCursor
  BY DEF Unrated
<1>2. RateType /\ RateType' /\ now' >= now
  BY <1>1 DEF RateInv, RateType
<1>3. \A q \in Players : NotErased(q)' <=> NotErased(q)
  BY <1>1 DEF NotErased
<1>4. \A q \in Players : NotErased(q) => NothingAhead(q)'
  BY <1>1 DEF RateInv, NothingAhead, AttestorsOf
<1>5. ASSUME NEW v \in Wallets, NEW q \in Players, NotErased(q) PROVE Charged(v, q)'
  <2>1. Mine(v, q)' = Mine(v, q)
    BY <1>1 DEF Mine, Record, AttestorsOf
  <2>2. playerCount'[v][q] >= playerCount[v][q]
    BY <1>1, <1>2 DEF RateType
  <2> QED
    BY <1>1, <1>2, <1>5, <2>1, <2>2, ChargedStays DEF RateInv
<1> QED
  BY <1>2, <1>3, <1>4, <1>5 DEF RateInv

----
\* The allowance's invariant holds throughout.
LEMMA RateAlways == Spec => []RateInv
<1>1. Init => RateInv
  <2> SUFFICES ASSUME Init PROVE RateInv
    OBVIOUS
  <2>1. /\ now = StartTime
        /\ milestone = [p \in Players |-> [i \in Indexes |-> NONE]]
        /\ milestoneAttestors = [p \in Players |-> [i \in Indexes |-> << >>]]
        /\ milestoneCounter = [p \in Players |-> 0]
        /\ playerCount = [w \in Wallets |-> [p \in Players |-> 0]]
        /\ windowStart = [w \in Wallets |-> [p \in Players |-> 0]]
        /\ erasureCursor = [p \in Players |-> 0]
    BY DEF Init, AttestationInit, ValidatorInit
  <2>2. RateType
    BY <2>1, RateBounds DEF RateType
  <2>3. \A p \in Players : NothingAhead(p)
    BY <2>1 DEF NothingAhead, AttestorsOf
  <2>4. ASSUME NEW w \in Wallets, NEW p \in Players PROVE Charged(w, p)
    <3>1. Mine(w, p) = {} /\ InWindow(w, p) = {}
      BY <2>1 DEF Mine, InWindow, Record
    <3>2. Cardinality(InWindow(w, p)) = 0
      BY <3>1, FS_EmptySet
    <3> QED
      BY <2>1, <3>1, <3>2, RateBounds DEF Charged
  <2> QED
    BY <2>2, <2>3, <2>4 DEF RateInv
<1>2. RateInv /\ [Next]_vars => RateInv'
  <2> SUFFICES ASSUME RateInv, [Next]_vars PROVE RateInv'
    OBVIOUS
  <2>1. ASSUME Unrated PROVE RateInv'
    BY <2>1, UnratedStep
  <2>2. CASE UNCHANGED vars
    BY <2>1, <2>2 DEF vars, validatorVars, attestationVars, milestones, Unrated
  <2>3. CASE Next
    BY <2>1, <2>3, RegistryLeavesRate, SettingsLeaveRate, DisputesLeaveRate,
       RecordingSteps, SeedRate, ClockRate, PurgeRate DEF Next
  <2> QED
    BY <2>2, <2>3
<1> QED
  BY <1>1, <1>2, PTL DEF Spec

\* approve_milestone, attest_milestone and submit_attested_milestone: until a
\* player is erased no validator records more than its allowance for it in a
\* window, however the three are mixed and whatever is replayed in between, for
\* any number of validators and players and any length of the window.
THEOREM RateHolds == Spec => []RateIsWindowed
BY RateAlways, RateInvSuffices, PTL

----
(***************************************************************************)
(* The registry: which steps write it.                                      *)
(***************************************************************************)
\* A list and the set of what it lists.
LEMMA SetOfList ==
  ASSUME NEW S, NEW s \in Seq(S)
  PROVE  /\ ToSetOf(s) \subseteq S
         /\ \A x : x \in ToSetOf(s) <=> Contains(s, x)
         /\ DOMAIN s = 1..Len(s)
<1>1. DOMAIN s = 1..Len(s) /\ \A i \in 1..Len(s) : s[i] \in S
  OBVIOUS
<1> QED
  BY <1>1 DEF ToSetOf, Contains

\* Saying that a list repeats nothing either way round.
LEMMA DistinctIsNoRepeats ==
  ASSUME NEW S, NEW s \in Seq(S)
  PROVE  Distinct(s) <=> NoRepeats(s)
<1>1. DOMAIN s = 1..Len(s)
  OBVIOUS
<1> QED
  BY <1>1 DEF Distinct, NoRepeats

\* Two lists without repetitions and without a common entry, one after the other.
LEMMA ConcatDistinct ==
  ASSUME NEW S, NEW s \in Seq(S), NEW t \in Seq(S), Distinct(s), Distinct(t),
         \A x : ~(Contains(s, x) /\ Contains(t, x))
  PROVE  Distinct(s \o t)
<1>1. /\ Len(s) \in Nat /\ Len(t) \in Nat
      /\ s \o t \in Seq(S) /\ Len(s \o t) = Len(s) + Len(t)
      /\ \A i \in 1..Len(s) : (s \o t)[i] = s[i]
      /\ \A i \in 1..Len(t) : (s \o t)[Len(s) + i] = t[i]
  OBVIOUS
<1> DEFINE st == s \o t
<1>2. ASSUME NEW i \in 1..Len(st), NEW j \in 1..Len(st), st[i] = st[j] PROVE i = j
  <2> HIDE DEF st
  <2>1. /\ \A k \in 1..Len(s) : st[k] = s[k]
        /\ \A k \in 1..Len(t) : st[Len(s) + k] = t[k]
        /\ Len(st) = Len(s) + Len(t)
    BY <1>1 DEF st
  <2>2. \A k \in 1..Len(st) : k > Len(s) => k - Len(s) \in 1..Len(t) /\ st[k] = t[k - Len(s)]
    <3>1. PICK m \in Nat, n \in Nat : m = Len(s) /\ n = Len(t)
      BY <1>1
    <3>2. ASSUME NEW k \in 1..(m + n), k > m
          PROVE  k - m \in 1..n /\ k = m + (k - m)
      BY <3>1, <3>2
    <3> QED
      BY <2>1, <3>1, <3>2
  <2>3. CASE i <= Len(s) /\ j <= Len(s)
    BY <1>1, <1>2, <2>1, <2>3 DEF Distinct
  <2>4. CASE i > Len(s) /\ j > Len(s)
    <3>1. t[i - Len(s)] = t[j - Len(s)] /\ i - Len(s) \in 1..Len(t) /\ j - Len(s) \in 1..Len(t)
      BY <1>2, <2>2, <2>4
    <3> QED
      BY <1>1, <3>1 DEF Distinct
  <2>5. CASE i <= Len(s) /\ j > Len(s)
    <3>1. Contains(s, st[i]) /\ Contains(t, st[i])
      BY <1>1, <1>2, <2>1, <2>2, <2>5 DEF Contains
    <3> QED
      BY <3>1
  <2>6. CASE i > Len(s) /\ j <= Len(s)
    <3>1. Contains(s, st[j]) /\ Contains(t, st[j])
      BY <1>1, <1>2, <2>1, <2>2, <2>6 DEF Contains
    <3> QED
      BY <3>1
  <2> QED
    BY <1>1, <2>3, <2>4, <2>5, <2>6
<1> QED
  BY <1>2 DEF Distinct, st

\* A finite set as a list: every element once.
LEMMA SetToSeqLists ==
  ASSUME NEW S, IsFiniteSet(S)
  PROVE  /\ SetToSeq(S) \in Seq(S) /\ Len(SetToSeq(S)) = Cardinality(S)
         /\ Distinct(SetToSeq(S))
         /\ \A x : Contains(SetToSeq(S), x) <=> x \in S
<1> DEFINE n == Cardinality(S)
           q == SetToSeq(S)
<1>1. n \in Nat /\ ExistsBijection(1..n, S)
  BY FS_CardinalityType
<1>2. PICK f \in Bijection(1..n, S) : TRUE
  BY <1>1 DEF ExistsBijection
<1>3. f \in [1..n -> S] /\ IsInjective(f)
  BY <1>2 DEF Bijection, Injection, IsInjective
<1>4. q \in [1..n -> S] /\ IsInjective(q)
  BY <1>3 DEF SetToSeq
<1> HIDE DEF n, q
<1>5. q \in Seq(S) /\ Len(q) = n
  BY <1>1, <1>4, FunctionIsList
<1>6. q \in Injection(1..n, S)
  BY <1>4 DEF Injection, IsInjective
<1>7. Cardinality(1..n) = n /\ IsFiniteSet(1..n)
  BY <1>1, FS_Interval
<1>8. q \in Surjection(1..n, S)
  BY <1>6, <1>7, FS_Injection DEF n
<1>9. \A x : Contains(q, x) <=> x \in S
  <2>1. \A x \in S : \E i \in 1..n : q[i] = x
    BY <1>8 DEF Surjection
  <2> QED
    BY <1>4, <1>5, <2>1 DEF Contains
<1>10. Distinct(q)
  BY <1>4, <1>5 DEF Distinct, IsInjective
<1> QED
  BY <1>5, <1>9, <1>10 DEF n, q

Unregistering == UNCHANGED validatorVars

\* Registration, restoring, transfers, revocation, the switches and the clock write
\* the registry; everything else leaves it alone.
LEMMA RegistrySteps ==
  ASSUME [Next]_vars
  PROVE  \/ RegisterStep \/ RestoreStep \/ TransferStep \/ PauseStep \/ UnpauseStep
         \/ ClockStep \/ RevokeStep \/ BatchRevokeStep \/ Unregistering
<1>1. ASSUME UNCHANGED vars PROVE Unregistering
  BY <1>1 DEF vars, Unregistering
<1>2. ASSUME ApproveStep \/ AttestPendingStep \/ AttestCommitStep \/ PruneStep
      PROVE  Unregistering
  <2>1. ASSUME ApproveStep PROVE Unregistering
    BY <2>1 DEF ApproveStep, ApproveMilestone, Unregistering
  <2>2. ASSUME AttestPendingStep PROVE Unregistering
    BY <2>2 DEF AttestPendingStep, AttestPending, Unregistering
  <2>3. ASSUME AttestCommitStep PROVE Unregistering
    BY <2>3 DEF AttestCommitStep, AttestCommit, Unregistering
  <2>4. ASSUME PruneStep PROVE Unregistering
    BY <2>4 DEF PruneStep, PruneExpiredClaim, Unregistering
  <2> QED
    BY <1>2, <2>1, <2>2, <2>3, <2>4
<1>3. ASSUME RegisterKeyStep \/ SubmitStep \/ SeedMilestoneStep PROVE Unregistering
  BY <1>3 DEF RegisterKeyStep, RegisterAttestationKey, SubmitStep, SubmitAttestedMilestone,
              SeedMilestoneStep, AdminSeedMilestone, Unregistering
<1>4. ASSUME \/ ThresholdStep \/ WindowStep \/ DiversityStep \/ WiringStep \/ StatusStep
             \/ OpenWindowStep \/ CloseWindowStep
      PROVE  Unregistering
  BY <1>4 DEF ThresholdStep, WindowStep, DiversityStep, WiringStep, StatusStep, OpenWindowStep,
       CloseWindowStep, SetMilestoneThreshold, SetVotingWindowSecs, SetDiversityConfig,
       SetProgressContract, UpdateProgressContract, SetRegistrationContract,
       UpdateRegistrationContract, WriteWiringLink, PlayerStatusChange,
       OpenMigrationWindow, CloseMigrationWindow, Unregistering
<1>5. ASSUME \/ DisputeStep \/ ResolveStep \/ TallyStep \/ VoteStep \/ JuryStep
             \/ SeedDisputeStep
      PROVE  Unregistering
  BY <1>5 DEF DisputeStep, DisputeMilestone, ResolveStep, ResolveDispute, TallyStep,
       TallyDispute, CloseDispute, VoteStep, CastDisputeVote, JuryStep, SetJuryConfig,
       SeedDisputeStep, AdminSeedDispute, Unregistering
<1>6. ASSUME ContinueStep \/ RereviewStep \/ PurgeStep PROVE Unregistering
  BY <1>6 DEF ContinueStep, ContinueRevocationCascade, RereviewStep, RereviewMilestone,
              PurgeStep, PurgePlayerData, Unregistering
<1> QED
  BY <1>1, <1>2, <1>3, <1>4, <1>5, <1>6 DEF Next

----
(***************************************************************************)
(* What the vector is.                                                      *)
(***************************************************************************)
Active == {w \in Wallets : IsActiveValidator(w)}

\* The vector lists the active wallets once each, and the counters count it.
RegistryInv ==
  /\ TypeOKRegistry
  /\ Distinct(validatorVector)
  /\ \A w \in Wallets : Contains(validatorVector, w) <=> IsActiveValidator(w)
  /\ activeValidatorCount = Len(validatorVector)
  /\ totalValidatorCount = Len(validatorVector)

\* The constants as numbers and finite sets.
LEMMA RegistryBounds ==
  /\ IsFiniteSet(Wallets) /\ NONE \notin Nat /\ NONE \notin Wallets
  /\ NONE \notin Validator /\ NONE \notin RevocationRecord
  /\ MAX_VALIDATORS \in Nat /\ MAX_VALIDATORS > 0
  /\ StartTime \in Nat /\ StartTime > 0 /\ MaxTime \in Nat /\ StartTime <= MaxTime
  /\ AffiliationOf \in [Wallets -> Affiliations]
BY ValidatorAssumption

\* A registered wallet has a record.
LEMMA RegisteredRecord ==
  ASSUME TypeOKRegistry, NEW w \in Wallets
  PROVE  /\ Registered(w) => validator[w] \in Validator /\ validator[w].active \in BOOLEAN
         /\ IsActiveValidator(w) => Registered(w) /\ validator[w].active = TRUE
<1>1. validator[w] \in Validator \cup {NONE}
  BY DEF TypeOKRegistry
<1>2. validator[w] \in Validator => validator[w].active \in BOOLEAN
  BY DEF Validator
<1> QED
  BY <1>1, <1>2 DEF Registered, IsActiveValidator

\* The active wallets are finitely many, as many as the vector is long.
LEMMA CountedActive ==
  ASSUME RegistryInv
  PROVE  /\ IsFiniteSet(Active) /\ Cardinality(Active) = activeValidatorCount
         /\ activeValidatorCount \in Nat
<1>1. validatorVector \in Seq(Wallets) /\ activeValidatorCount \in 0..MAX_VALIDATORS
  BY DEF RegistryInv, TypeOKRegistry
<1>2. Active = {w \in Wallets : Contains(validatorVector, w)}
  BY DEF RegistryInv, Active
<1>3. Len(validatorVector) = Cardinality({w \in Wallets : Contains(validatorVector, w)})
  BY <1>1, DistinctLength DEF RegistryInv
<1>4. IsFiniteSet(Active)
  BY RegistryBounds, FS_Subset DEF Active
<1> QED
  BY <1>1, <1>2, <1>3, <1>4, RegistryBounds DEF RegistryInv

\* get_validators and the counters read it exactly.
LEMMA RegistryInvSuffices == RegistryInv => RegistryIsExact
<1> SUFFICES ASSUME RegistryInv PROVE RegistryIsExact
  OBVIOUS
<1>1. validatorVector \in Seq(Wallets)
  BY DEF RegistryInv, TypeOKRegistry
<1>2. NoRepeats(validatorVector)
  BY <1>1, DistinctIsNoRepeats DEF RegistryInv
<1>3. \A w \in Wallets : GetValidatorStatus(w) = "Active" <=> w \in ToSetOf(validatorVector)
  <2> SUFFICES ASSUME NEW w \in Wallets
               PROVE GetValidatorStatus(w) = "Active" <=> w \in ToSetOf(validatorVector)
    OBVIOUS
  <2>1. w \in ToSetOf(validatorVector) <=> IsActiveValidator(w)
    BY <1>1, SetOfList DEF RegistryInv
  <2>2. GetValidatorStatus(w) = "Active" <=> IsActiveValidator(w)
    BY DEF GetValidatorStatus, IsActiveValidator
  <2> QED
    BY <2>1, <2>2
<1> DEFINE all == SetToSeq(Wallets)
<1>4. all \in Seq(Wallets)
  BY RegistryBounds, SetToSeqLists
<1> HIDE DEF all
<1>5. DOMAIN all = 1..Len(all) /\ \A i \in DOMAIN all : all[i] \in Wallets
  BY <1>4
<1>6. \A i \in DOMAIN all : GetValidatorStatuses(all)[i] = GetValidatorStatus(all[i])
  BY DEF GetValidatorStatuses
<1>7. \A i \in DOMAIN all :
        GetValidatorStatuses(all)[i] = "Active" <=> all[i] \in ToSetOf(validatorVector)
  BY <1>3, <1>5, <1>6
<1> QED
  BY <1>2, <1>7 DEF RegistryInv, RegistryIsExact, all

\* The record a registration writes.
LEMMA NewRecord ==
  ASSUME NEW a \in Affiliations, NEW t \in Nat, NEW r,
         r = [affiliation |-> a, registered_at |-> t, active |-> TRUE]
  PROVE  r \in Validator /\ r.active = TRUE /\ r # NONE
<1>1. r \in Validator /\ r.active = TRUE
  BY DEF Validator
<1> QED
  BY <1>1, RegistryBounds, Zenon

\* The deployment's registrations.
LEMMA RegistryInitially == Init => RegistryInv
<1> SUFFICES ASSUME ValidatorInit PROVE RegistryInv
  BY DEF Init, AttestationInit
<1>1. /\ paused = {} /\ now = StartTime /\ revokedForCause = {} /\ transferred = {}
      /\ validatorVector = SetToSeq(Enlisted)
      /\ activeValidatorCount = Cardinality(Enlisted)
      /\ totalValidatorCount = Cardinality(Enlisted)
      /\ revocationRecord = [w \in Wallets |-> NONE]
      /\ validatorRegLastSent =
           [w \in Wallets |-> IF w \in Enlisted THEN StartTime - 1 ELSE NONE]
      /\ \A w \in Wallets : validator[w] =
           IF w \in Enlisted
           THEN [affiliation |-> AffiliationOf[w], registered_at |-> StartTime - 1,
                 active |-> TRUE]
           ELSE NONE
      /\ DOMAIN validator = Wallets
      /\ validator = [w \in Wallets |-> validator[w]]
  BY DEF ValidatorInit
<1>2. /\ Enlisted \subseteq Wallets /\ Cardinality(Enlisted) <= MAX_VALIDATORS
  BY ValidatorAssumption
<1>3. IsFiniteSet(Enlisted)
  BY <1>2, RegistryBounds, FS_Subset
<1>4. Cardinality(Enlisted) \in 0..MAX_VALIDATORS
  BY <1>2, <1>3, FS_CardinalityType, RegistryBounds
<1>5. /\ validatorVector \in Seq(Enlisted) /\ Len(validatorVector) = Cardinality(Enlisted)
      /\ Distinct(validatorVector)
      /\ \A x : Contains(validatorVector, x) <=> x \in Enlisted
  BY <1>1, <1>3, SetToSeqLists
<1>6. validatorVector \in Seq(Wallets)
  BY <1>2, <1>5
<1>7. \A w \in Enlisted :
        /\ validator[w] \in Validator /\ validator[w].active = TRUE /\ validator[w] # NONE
  <2> SUFFICES ASSUME NEW w \in Enlisted
               PROVE  /\ validator[w] \in Validator /\ validator[w].active = TRUE
                      /\ validator[w] # NONE
    OBVIOUS
  <2>1. validator[w] = [affiliation |-> AffiliationOf[w], registered_at |-> StartTime - 1,
                        active |-> TRUE]
    BY <1>1, <1>2
  <2>2. AffiliationOf[w] \in Affiliations /\ StartTime - 1 \in Nat
    BY <1>2, RegistryBounds
  <2> QED
    BY <2>1, <2>2, NewRecord, Zenon
<1>8. \A w \in Wallets \ Enlisted : validator[w] = NONE
  BY <1>1
<1>9. validator \in [Wallets -> Validator \cup {NONE}]
  <2>1. \A w \in Wallets : validator[w] \in Validator \cup {NONE}
    BY <1>7, <1>8
  <2>2. validator = [w \in Wallets |-> validator[w]]
    BY <1>1, Zenon
  <2> QED
    BY <2>1, <2>2, Zenon
<1>10. \A w \in Wallets : Contains(validatorVector, w) <=> IsActiveValidator(w)
  BY <1>5, <1>7, <1>8 DEF IsActiveValidator, Registered
<1>11. validatorRegLastSent \in [Wallets -> Times \cup {NONE}]
  BY <1>1, RegistryBounds DEF Times
<1>12. TypeOKRegistry
  BY <1>1, <1>4, <1>6, <1>9, <1>11, RegistryBounds DEF TypeOKRegistry
<1> QED
  BY <1>1, <1>5, <1>10, <1>12 DEF RegistryInv

\* A batch as a list.
LEMMA BatchIsList ==
  ASSUME NEW S, NEW ws \in Batches(S)
  PROVE  ws \in Seq(S) /\ Distinct(ws) /\ Len(ws) \in Nat /\ ToSetOf(ws) \subseteq S
<1>1. PICK n \in 1..MAX_BATCH : ws \in [1..n -> S]
  BY DEF Batches
<1>2. n \in Nat
  BY <1>1, ValidatorAssumption
<1>3. ws \in Seq(S) /\ Len(ws) = n
  BY <1>1, <1>2, FunctionIsList
<1>4. \A i, j \in DOMAIN ws : i # j => ws[i] # ws[j]
  BY DEF Batches
<1>5. DOMAIN ws = 1..Len(ws)
  BY <1>3
<1>6. Distinct(ws)
  BY <1>4, <1>5 DEF Distinct
<1> QED
  BY <1>2, <1>3, <1>6, SetOfList

\* register_validator and its batch.
LEMMA RegisterKeepsRegistry ==
  ASSUME RegistryInv, RegisterStep
  PROVE  RegistryInv'
<1>1. PICK ws \in Batches(Wallets) : BatchRegisterValidators(ws)
  BY DEF RegisterStep
<1> DEFINE new == ToSetOf(ws)
<1>2. /\ ws \in Seq(Wallets) /\ Distinct(ws) /\ Len(ws) \in Nat
      /\ new \subseteq Wallets /\ \A x : x \in new <=> Contains(ws, x)
  BY BatchIsList, SetOfList
<1>3. /\ Len(validatorVector) + Len(ws) <= MAX_VALIDATORS
      /\ \A w \in new : ~Registered(w)
      /\ validator' = [w \in Wallets |->
           IF w \in new
           THEN [affiliation |-> AffiliationOf[w], registered_at |-> now, active |-> TRUE]
           ELSE validator[w]]
      /\ validatorRegLastSent' = [w \in Wallets |->
           IF w \in new THEN now ELSE validatorRegLastSent[w]]
      /\ validatorVector' = validatorVector \o ws
      /\ activeValidatorCount' = activeValidatorCount + Len(ws)
      /\ totalValidatorCount' = totalValidatorCount + Len(ws)
      /\ UNCHANGED <<paused, revocationRecord, revokedForCause, now, transferred>>
  BY <1>1 DEF BatchRegisterValidators, ValidateValidatorInput, WriteValidators, CountBatch,
              revocations
<1> HIDE DEF new
<1>4. /\ validatorVector \in Seq(Wallets) /\ Distinct(validatorVector)
      /\ now \in Nat /\ now \in StartTime..MaxTime
      /\ validator \in [Wallets -> Validator \cup {NONE}]
      /\ \A w \in Wallets : Contains(validatorVector, w) <=> IsActiveValidator(w)
      /\ activeValidatorCount = Len(validatorVector)
      /\ totalValidatorCount = Len(validatorVector) /\ Len(validatorVector) \in Nat
  BY RegistryBounds DEF RegistryInv, TypeOKRegistry
<1>5. /\ validatorVector' \in Seq(Wallets)
      /\ Len(validatorVector') = Len(validatorVector) + Len(ws)
      /\ \A x : Contains(validatorVector', x) <=> Contains(validatorVector, x) \/ x \in new
  BY <1>2, <1>3, <1>4, ConcatEntries
<1>6. Distinct(validatorVector')
  <2>1. \A x : ~(Contains(validatorVector, x) /\ Contains(ws, x))
    BY <1>2, <1>3, <1>4 DEF IsActiveValidator
  <2> QED
    BY <1>2, <1>3, <1>4, <2>1, ConcatDistinct
<1>7. \A w \in new :
        /\ validator'[w] \in Validator /\ validator'[w].active = TRUE /\ validator'[w] # NONE
  <2> SUFFICES ASSUME NEW w \in new
               PROVE  /\ validator'[w] \in Validator /\ validator'[w].active = TRUE
                      /\ validator'[w] # NONE
    OBVIOUS
  <2>1. validator'[w] = [affiliation |-> AffiliationOf[w], registered_at |-> now,
                         active |-> TRUE]
    BY <1>2, <1>3
  <2>2. AffiliationOf[w] \in Affiliations
    BY <1>2, RegistryBounds
  <2> QED
    BY <1>4, <2>1, <2>2, NewRecord, Zenon
<1>8. \A w \in Wallets \ new : validator'[w] = validator[w]
  BY <1>3
<1>9. validator' \in [Wallets -> Validator \cup {NONE}]
  BY <1>2, <1>3, <1>4, <1>7, <1>8
<1>10. \A w \in Wallets : Contains(validatorVector', w) <=> IsActiveValidator(w)'
  BY <1>4, <1>5, <1>7, <1>8 DEF IsActiveValidator, Registered
<1>11. validatorRegLastSent' \in [Wallets -> Times \cup {NONE}]
  BY <1>3, <1>4, RegistryBounds DEF RegistryInv, TypeOKRegistry, Times
<1>12. TypeOKRegistry'
  BY <1>3, <1>4, <1>5, <1>9, <1>11, RegistryBounds DEF RegistryInv, TypeOKRegistry
<1> QED
  BY <1>3, <1>4, <1>5, <1>6, <1>10, <1>12 DEF RegistryInv

\* restore_validator.
LEMMA RestoreKeepsRegistry ==
  ASSUME RegistryInv, RestoreStep
  PROVE  RegistryInv'
<1>1. PICK w \in Wallets : RestoreValidator(w)
  BY DEF RestoreStep
<1>2. /\ Registered(w)
      /\ validator' = [validator EXCEPT ![w].active = TRUE]
      /\ revokedForCause' = revokedForCause \ {w}
      /\ UNCHANGED <<paused, validatorRegLastSent, revocationRecord, now, transferred>>
  BY <1>1 DEF RestoreValidator
<1>3. /\ validatorVector \in Seq(Wallets) /\ Distinct(validatorVector)
      /\ validator \in [Wallets -> Validator \cup {NONE}]
      /\ \A v \in Wallets : Contains(validatorVector, v) <=> IsActiveValidator(v)
      /\ activeValidatorCount = Len(validatorVector)
      /\ totalValidatorCount = Len(validatorVector) /\ Len(validatorVector) \in Nat
      /\ Len(validatorVector) <= MAX_VALIDATORS
  BY RegistryBounds DEF RegistryInv, TypeOKRegistry
<1>4. /\ validator'[w] \in Validator /\ validator'[w].active = TRUE /\ validator'[w] # NONE
      /\ \A v \in Wallets \ {w} : validator'[v] = validator[v]
      /\ validator' \in [Wallets -> Validator \cup {NONE}]
  <2>1. validator[w] \in Validator
    BY <1>2, RegisteredRecord DEF RegistryInv
  <2>2. [validator[w] EXCEPT !.active = TRUE] \in Validator
    BY <2>1 DEF Validator
  <2>3. validator'[w] = [validator[w] EXCEPT !.active = TRUE]
    BY <1>2, <1>3
  <2>4. validator'[w].active = TRUE
    BY <2>1, <2>3 DEF Validator
  <2> QED
    BY <1>2, <1>3, <2>2, <2>3, <2>4, RegistryBounds
<1>5. CASE validator[w].active
  <2>1. UNCHANGED <<validatorVector, activeValidatorCount, totalValidatorCount>>
    BY <1>1, <1>5 DEF RestoreValidator
  <2>2. \A v \in Wallets : Contains(validatorVector', v) <=> IsActiveValidator(v)'
    BY <1>2, <1>3, <1>4, <1>5, <2>1 DEF IsActiveValidator, Registered
  <2>3. TypeOKRegistry'
    BY <1>2, <1>4, <2>1 DEF RegistryInv, TypeOKRegistry
  <2> QED
    BY <1>3, <2>1, <2>2, <2>3 DEF RegistryInv
<1>6. CASE ~validator[w].active
  <2>1. ~Contains(validatorVector, w)
    BY <1>3, <1>6 DEF IsActiveValidator
  <2>2. w \notin ToSetOf(validatorVector)
    BY <1>3, <2>1, SetOfList
  <2>3. /\ validatorVector' = Append(validatorVector, w)
        /\ totalValidatorCount' = totalValidatorCount + 1
        /\ activeValidatorCount' = activeValidatorCount + 1
        /\ Len(validatorVector) < MAX_VALIDATORS
    BY <1>1, <1>6, <2>2 DEF RestoreValidator, Relist
  <2>4. /\ validatorVector' \in Seq(Wallets)
        /\ Len(validatorVector') = Len(validatorVector) + 1
        /\ \A x : Contains(validatorVector', x) <=> Contains(validatorVector, x) \/ x = w
        /\ Distinct(validatorVector')
    BY <1>3, <2>1, <2>3, AppendEntries, AppendDistinct
  <2>5. \A v \in Wallets : Contains(validatorVector', v) <=> IsActiveValidator(v)'
    BY <1>2, <1>3, <1>4, <2>4 DEF IsActiveValidator, Registered
  <2>6. TypeOKRegistry'
    BY <1>2, <1>3, <1>4, <2>3, <2>4, RegistryBounds DEF RegistryInv, TypeOKRegistry
  <2> QED
    BY <1>3, <2>3, <2>4, <2>5, <2>6 DEF RegistryInv
<1> QED
  BY <1>5, <1>6

\* transfer_validator_wallet: the record and its place in the vector move.
LEMMA TransferKeepsRegistry ==
  ASSUME RegistryInv, TransferStep
  PROVE  RegistryInv'
<1>1. PICK old \in Wallets, new \in Wallets : TransferRecord(old, new)
  BY DEF TransferStep
<1>2. /\ Registered(old) /\ ~Registered(new)
      /\ validator' = [validator EXCEPT ![new] = validator[old], ![old] = NONE]
      /\ validatorVector' = [i \in DOMAIN validatorVector |->
           IF validatorVector[i] = old THEN new ELSE validatorVector[i]]
      /\ transferred' = transferred \cup {old}
      /\ UNCHANGED <<paused, activeValidatorCount, totalValidatorCount,
                     validatorRegLastSent, revocationRecord, revokedForCause, now>>
  BY <1>1 DEF TransferRecord, revocations
<1>3. /\ validatorVector \in Seq(Wallets) /\ Distinct(validatorVector)
      /\ validator \in [Wallets -> Validator \cup {NONE}]
      /\ \A v \in Wallets : Contains(validatorVector, v) <=> IsActiveValidator(v)
      /\ activeValidatorCount = Len(validatorVector)
      /\ totalValidatorCount = Len(validatorVector) /\ Len(validatorVector) \in Nat
      /\ DOMAIN validatorVector = 1..Len(validatorVector)
  BY RegistryBounds DEF RegistryInv, TypeOKRegistry
<1>4. old # new
  BY <1>2
<1>5. /\ validator' \in [Wallets -> Validator \cup {NONE}]
      /\ validator'[old] = NONE /\ validator'[new] = validator[old]
      /\ \A v \in Wallets \ {old, new} : validator'[v] = validator[v]
  BY <1>2, <1>3, <1>4
<1>6. \A i \in 1..Len(validatorVector) :
        /\ validatorVector[i] \in Wallets /\ validatorVector[i] # new
        /\ validatorVector'[i] = IF validatorVector[i] = old THEN new ELSE validatorVector[i]
  <2>1. ~Contains(validatorVector, new)
    BY <1>2, <1>3 DEF IsActiveValidator
  <2> QED
    BY <1>2, <1>3, <2>1 DEF Contains
<1>7. validatorVector' \in Seq(Wallets) /\ Len(validatorVector') = Len(validatorVector)
  <2>1. validatorVector' \in [1..Len(validatorVector) -> Wallets]
    BY <1>2, <1>3
  <2> QED
    BY <1>3, <2>1, FunctionIsList
<1>8. Distinct(validatorVector')
  BY <1>3, <1>6, <1>7 DEF Distinct
<1>9. \A v \in Wallets : Contains(validatorVector', v) <=> IsActiveValidator(v)'
  <2> SUFFICES ASSUME NEW v \in Wallets
               PROVE  Contains(validatorVector', v) <=> IsActiveValidator(v)'
    OBVIOUS
  <2>1. CASE v = old
    BY <1>4, <1>5, <1>6, <1>7, <2>1 DEF Contains, IsActiveValidator, Registered
  <2>2. CASE v = new
    <3>1. Contains(validatorVector', new) <=> Contains(validatorVector, old)
      BY <1>6, <1>7 DEF Contains
    <3>2. Contains(validatorVector, old) <=> IsActiveValidator(old)
      BY <1>3
    <3>3. IsActiveValidator(new)' <=> IsActiveValidator(old)
      BY <1>5 DEF IsActiveValidator, Registered
    <3> QED
      BY <2>2, <3>1, <3>2, <3>3
  <2>3. CASE v # old /\ v # new
    <3>1. Contains(validatorVector', v) <=> Contains(validatorVector, v)
      BY <1>6, <1>7, <2>3 DEF Contains
    <3>2. IsActiveValidator(v)' <=> IsActiveValidator(v)
      BY <1>5, <2>3 DEF IsActiveValidator, Registered
    <3> QED
      BY <1>3, <3>1, <3>2
  <2> QED
    BY <2>1, <2>2, <2>3
<1>10. TypeOKRegistry'
  BY <1>2, <1>5, <1>7 DEF RegistryInv, TypeOKRegistry
<1> QED
  BY <1>2, <1>3, <1>7, <1>8, <1>9, <1>10 DEF RegistryInv

\* Revocation's part of the registry, for any set of wallets.
LEMMA RevocationKeepsRegistry ==
  ASSUME RegistryInv, NEW ws \in SUBSET Wallets, NEW severity \in RevocationSeverity,
         RevokeRecords(ws, severity)
  PROVE  /\ RegistryInv'
         /\ \A w \in Wallets : Registered(w)' <=> Registered(w)
         /\ \A w \in Wallets : IsActiveValidator(w)' <=> IsActiveValidator(w) /\ w \notin ws
<1>1. /\ \A w \in ws : Revocable(w, severity)
      /\ validator' = [w \in Wallets |->
           IF w \in ws THEN [validator[w] EXCEPT !.active = FALSE] ELSE validator[w]]
      /\ validatorVector' = Filter(validatorVector, Wallets \ ws)
      /\ activeValidatorCount' = activeValidatorCount - Cardinality(ActiveOf(ws))
      /\ totalValidatorCount' = totalValidatorCount - Cardinality(ActiveOf(ws))
      /\ revocationRecord' = [w \in Wallets |->
           IF w \in ws THEN Revoked(w, severity) ELSE revocationRecord[w]]
      /\ revokedForCause' = revokedForCause \cup (IF severity = ForCause THEN ws ELSE {})
      /\ UNCHANGED <<paused, validatorRegLastSent, now, transferred>>
  BY DEF RevokeRecords, Without, CountDown
<1>2. /\ validatorVector \in Seq(Wallets) /\ Distinct(validatorVector)
      /\ validator \in [Wallets -> Validator \cup {NONE}]
      /\ revocationRecord \in [Wallets -> RevocationRecord \cup {NONE}]
      /\ \A v \in Wallets : Contains(validatorVector, v) <=> IsActiveValidator(v)
      /\ activeValidatorCount = Len(validatorVector)
      /\ totalValidatorCount = Len(validatorVector) /\ Len(validatorVector) \in Nat
      /\ Len(validatorVector) <= MAX_VALIDATORS /\ now \in Nat
  BY RegistryBounds DEF RegistryInv, TypeOKRegistry
<1>3. \A w \in ws : Registered(w)
  BY <1>1 DEF Revocable
<1>4. \A w \in ws : /\ validator'[w] \in Validator /\ validator'[w].active = FALSE
                    /\ validator'[w] # NONE
  <2> SUFFICES ASSUME NEW w \in ws
               PROVE  /\ validator'[w] \in Validator /\ validator'[w].active = FALSE
                      /\ validator'[w] # NONE
    OBVIOUS
  <2>1. validator[w] \in Validator
    BY <1>3, RegisteredRecord DEF RegistryInv
  <2>2. validator'[w] = [validator[w] EXCEPT !.active = FALSE]
    BY <1>1
  <2>3. validator'[w] \in Validator /\ validator'[w].active = FALSE
    BY <2>1, <2>2 DEF Validator
  <2> QED
    BY <2>3, RegistryBounds, Zenon
<1>5. \A w \in Wallets \ ws : validator'[w] = validator[w]
  BY <1>1
<1>6. validator' \in [Wallets -> Validator \cup {NONE}]
  <2>1. \A w \in Wallets : validator'[w] \in Validator \cup {NONE}
    BY <1>2, <1>4, <1>5
  <2>2. validator' = [w \in Wallets |-> validator'[w]]
    BY <1>1, Zenon
  <2> QED
    BY <2>1, <2>2, Zenon
<1>7. /\ \A w \in Wallets : Registered(w)' <=> Registered(w)
      /\ \A w \in Wallets : IsActiveValidator(w)' <=> IsActiveValidator(w) /\ w \notin ws
  BY <1>3, <1>4, <1>5 DEF Registered, IsActiveValidator
<1>8. /\ validatorVector' \in Seq(Wallets) /\ Distinct(validatorVector')
      /\ \A x : Contains(validatorVector', x) <=> x \in Wallets \ ws /\ Contains(validatorVector, x)
  BY <1>1, <1>2, FilterType, FilterDistinct, FilterEntries
<1>9. \A w \in Wallets : Contains(validatorVector', w) <=> IsActiveValidator(w)'
  BY <1>2, <1>7, <1>8
<1>10. /\ Cardinality(ActiveOf(ws)) \in Nat
       /\ Len(validatorVector') = Len(validatorVector) - Cardinality(ActiveOf(ws))
  <2>1. IsFiniteSet(Active) /\ Cardinality(Active) = Len(validatorVector)
    BY <1>2, CountedActive
  <2>2. ActiveOf(ws) = Active \cap ws
    BY <1>3 DEF ActiveOf, Active, IsActiveValidator
  <2>3. {w \in Wallets : Contains(validatorVector', w)} = Active \ ws
    BY <1>7, <1>9 DEF Active
  <2>4. Len(validatorVector') = Cardinality(Active \ ws)
    BY <1>8, <2>3, DistinctLength
  <2>5. /\ Cardinality(Active \ ws) = Cardinality(Active) - Cardinality(Active \cap ws)
        /\ IsFiniteSet(Active \cap ws)
    BY <2>1, FS_Difference, FS_Intersection
  <2> QED
    BY <2>1, <2>2, <2>4, <2>5, FS_CardinalityType
<1>11. revocationRecord' \in [Wallets -> RevocationRecord \cup {NONE}]
  <2>1. ASSUME NEW w \in ws PROVE Revoked(w, severity) \in RevocationRecord
    <3>1. validator[w].active \in BOOLEAN
      BY <1>3, RegisteredRecord DEF RegistryInv
    <3>2. CASE validator[w].active
      BY <1>2, <3>2 DEF Revoked, RevocationRecord
    <3>3. CASE ~validator[w].active
      <4>1. revocationRecord[w] \in RevocationRecord
        BY <1>1, <1>2, <3>3 DEF Revocable
      <4>2. revocationRecord[w].revoked_at \in Nat
        BY <4>1 DEF RevocationRecord
      <4> QED
        BY <3>3, <4>2 DEF Revoked, RevocationRecord
    <3> QED
      BY <3>1, <3>2, <3>3
  <2>2. \A w \in Wallets : revocationRecord'[w] \in RevocationRecord \cup {NONE}
    BY <1>1, <1>2, <2>1
  <2>3. revocationRecord' = [w \in Wallets |-> revocationRecord'[w]]
    BY <1>1, Zenon
  <2> QED
    BY <2>2, <2>3, Zenon
<1>12. TypeOKRegistry'
  <2>1. revokedForCause' \subseteq Wallets
    BY <1>1 DEF RegistryInv, TypeOKRegistry
  <2>2. activeValidatorCount' \in 0..MAX_VALIDATORS /\ totalValidatorCount' \in 0..MAX_VALIDATORS
    BY <1>1, <1>2, <1>8, <1>10, RegistryBounds
  <2> QED
    BY <1>1, <1>6, <1>8, <1>11, <2>1, <2>2 DEF RegistryInv, TypeOKRegistry
<1>13. RegistryInv'
  BY <1>1, <1>2, <1>8, <1>9, <1>10, <1>12 DEF RegistryInv
<1> QED
  BY <1>7, <1>13

\* revoke_validator and its batch.
LEMMA RevokeKeepsRegistry ==
  ASSUME RegistryInv, RevokeStep \/ BatchRevokeStep
  PROVE  RegistryInv'
<1>1. PICK ws \in SUBSET Wallets, severity \in RevocationSeverity : RevokeRecords(ws, severity)
  <2>1. Suspects \subseteq Wallets /\ Severities \subseteq RevocationSeverity
    BY VerificationAssumption, ValidatorAssumption
  <2>2. CASE RevokeStep
    <3>1. PICK w \in Suspects, severity \in Severities : RevokeRecords(ToSetOf(<<w>>), severity)
      BY <2>2 DEF RevokeStep, RevokeValidator, Revoke
    <3>2. ToSetOf(<<w>>) \subseteq Wallets
      BY <2>1 DEF ToSetOf
    <3> QED
      BY <2>1, <3>1, <3>2
  <2>3. CASE BatchRevokeStep
    <3>1. PICK ws \in Batches(Suspects), severity \in Severities :
            RevokeRecords(ToSetOf(ws), severity)
      BY <2>3 DEF BatchRevokeStep, BatchRevokeValidators, Revoke
    <3>2. ToSetOf(ws) \subseteq Wallets
      BY <2>1, <3>1, BatchIsList
    <3> QED
      BY <2>1, <3>1, <3>2
  <2> QED
    BY <2>2, <2>3
<1> QED
  BY <1>1, RevocationKeepsRegistry

\* The admin's switches and the clock.
LEMMA SwitchesKeepRegistry ==
  ASSUME RegistryInv, PauseStep \/ UnpauseStep \/ ClockStep
  PROVE  RegistryInv'
<1>1. /\ UNCHANGED <<registry, revocationRecord, revokedForCause, transferred>>
      /\ paused' \subseteq Switches
      /\ now' \in StartTime..MaxTime
  <2>1. ASSUME PauseStep \/ UnpauseStep
        PROVE  /\ UNCHANGED <<registry, revocationRecord, revokedForCause, transferred, now>>
               /\ paused' \subseteq Switches
    BY <2>1 DEF PauseStep, UnpauseStep, PauseContract, PauseApproveMilestone,
                UnpauseContract, UnpauseApproveMilestone, Pause, Unpause, revocations,
                RegistryInv, TypeOKRegistry
  <2>2. ASSUME ClockStep
        PROVE  /\ UNCHANGED <<registry, revocationRecord, revokedForCause, transferred, paused>>
               /\ now < MaxTime /\ now' = now + 1
    BY <2>2 DEF ClockStep, ClockTick, revocations
  <2>3. now \in StartTime..MaxTime /\ paused \subseteq Switches
    BY DEF RegistryInv, TypeOKRegistry
  <2> QED
    BY <2>1, <2>2, <2>3, RegistryBounds
<1>2. UNCHANGED <<validator, validatorVector, activeValidatorCount, totalValidatorCount,
                  validatorRegLastSent>>
  BY <1>1 DEF registry
<1> QED
  BY <1>1, <1>2 DEF RegistryInv, TypeOKRegistry, IsActiveValidator, Registered

\* The registry's invariant is inductive.
LEMMA RegistryStep == RegistryInv /\ [Next]_vars => RegistryInv'
<1> SUFFICES ASSUME RegistryInv, [Next]_vars PROVE RegistryInv'
  OBVIOUS
<1>1. ASSUME Unregistering PROVE RegistryInv'
  <2>1. UNCHANGED <<paused, validator, validatorVector, activeValidatorCount,
                    totalValidatorCount, validatorRegLastSent, revocationRecord,
                    revokedForCause, now, transferred>>
    BY <1>1 DEF Unregistering, validatorVars, registry, revocations
  <2> QED
    BY <2>1 DEF RegistryInv, TypeOKRegistry, IsActiveValidator, Registered
<1> QED
  BY <1>1, RegistrySteps, RegisterKeepsRegistry, RestoreKeepsRegistry, TransferKeepsRegistry,
     RevokeKeepsRegistry, SwitchesKeepRegistry

\* The registry's invariant holds throughout.
LEMMA RegistryAlways == Spec => []RegistryInv
BY RegistryInitially, RegistryStep, PTL DEF Spec

\* get_validators lists the active validators, once each, and both counters agree
\* with it, through registration in batches, revocation, restoring and transfers.
THEOREM RegistryStaysExact == Spec => []RegistryIsExact
BY RegistryAlways, RegistryInvSuffices, PTL

----
(***************************************************************************)
(* Claims: the three copies of a vote.                                      *)
(***************************************************************************)
\* The claims, votes and refs, as one value.
Books == [claim : [ClaimKeys -> PendingMilestoneClaim \cup {NONE}],
          votes : SUBSET PendingMilestoneVote,
          refs  : [Wallets -> SUBSET PendingVoteRef]]

Opened(book, key) == book.claim[key] # NONE

\* w is among the voters of the round that key's claim is in.
VotesIn(book, key, round, w) ==
  /\ Opened(book, key) /\ book.claim[key].round = round
  /\ Contains(book.claim[key].voters, w)

VoteFor(key, round, w, text) == [key |-> key, round |-> round, wallet |-> w, text |-> text]
RefTo(key, round) == [key |-> key, round |-> round]

\* A vote is stored exactly for the voters of open claims, with the claim's text,
\* and so is a ref.
VotesAgree(book) ==
  \A key \in ClaimKeys, round \in Rounds, w \in Wallets, text \in Descriptions :
    VoteFor(key, round, w, text) \in book.votes
      <=> VotesIn(book, key, round, w) /\ text = book.claim[key].description
RefsAgree(book) ==
  \A key \in ClaimKeys, round \in Rounds, w \in Wallets :
    RefTo(key, round) \in book.refs[w] <=> VotesIn(book, key, round, w)

\* An open claim counts its voters and is short of its threshold; n is as high as
\* a threshold can be and V the wallets that can be voters.
GoodClaim(c, V, n) ==
  /\ c \in PendingMilestoneClaim
  /\ c.round \in Rounds
  /\ Distinct(c.voters) /\ c.vote_count = Len(c.voters)
  /\ c.vote_count < c.threshold /\ c.threshold <= n
  /\ \A w \in Wallets : Contains(c.voters, w) => w \in V

GoodBook(book, V, n) ==
  /\ book \in Books
  /\ VotesAgree(book) /\ RefsAgree(book)
  /\ \A key \in ClaimKeys : Opened(book, key) => GoodClaim(book.claim[key], V, n)

\* A claim's fields.
LEMMA ClaimFields ==
  ASSUME NEW c \in PendingMilestoneClaim
  PROVE  /\ c.description \in Descriptions /\ c.vote_count \in Nat /\ c.round \in Nat
         /\ c.created_at \in Nat /\ c.threshold \in Nat /\ c.threshold > 0
         /\ c.voters \in Seq(Wallets) /\ c # NONE
<1>1. NONE \notin PendingMilestoneClaim
  BY AttestationAssumption
<1> QED
  BY <1>1 DEF PendingMilestoneClaim

\* A vote and a ref are what their fields are.
LEMMA VoteFields ==
  /\ \A v \in PendingMilestoneVote :
       /\ v = VoteFor(v.key, v.round, v.wallet, v.text)
       /\ v.key \in ClaimKeys /\ v.round \in Rounds /\ v.wallet \in Wallets
       /\ v.text \in Descriptions
  /\ \A r \in PendingVoteRef :
       r = RefTo(r.key, r.round) /\ r.key \in ClaimKeys /\ r.round \in Rounds
BY DEF PendingMilestoneVote, PendingVoteRef, VoteFor, RefTo

\* More may vote, and thresholds may be higher.
LEMMA GoodBookLarger ==
  ASSUME NEW book, NEW V, NEW n \in Nat, GoodBook(book, V, n),
         NEW W, V \subseteq W, NEW m \in Nat, n <= m
  PROVE  GoodBook(book, W, m)
<1>1. ASSUME NEW c, GoodClaim(c, V, n) PROVE GoodClaim(c, W, m)
  BY <1>1, ClaimFields DEF GoodClaim
<1> QED
  BY <1>1 DEF GoodBook

\* The claims a wallet's refs lead to are those it is a voter of.
LEMMA VotedOnIs ==
  ASSUME NEW book, NEW V, NEW n \in Nat, GoodBook(book, V, n), NEW w \in Wallets
  PROVE  \A key \in ClaimKeys : key \in VotedOn(book, w)
           <=> Opened(book, key) /\ Contains(book.claim[key].voters, w)
<1> SUFFICES ASSUME NEW key \in ClaimKeys, Opened(book, key)
             PROVE  key \in VotedOn(book, w) <=> Contains(book.claim[key].voters, w)
  BY DEF VotedOn, Opened
<1> DEFINE c == book.claim[key]
<1>1. GoodClaim(c, V, n)
  BY DEF GoodBook
<1>2. c.voters \in Seq(Wallets) /\ c.round \in Rounds /\ c.vote_count = Len(c.voters)
  BY <1>1, ClaimFields DEF GoodClaim
<1>3. RefTo(key, c.round) \in book.refs[w] <=> Contains(c.voters, w)
  BY <1>2 DEF GoodBook, RefsAgree, VotesIn
<1>4. Contains(c.voters, w) => c.vote_count > 0
  BY <1>2 DEF Contains
<1> QED
  BY <1>3, <1>4 DEF VotedOn, Opened, RefTo

\* A vote taken back.
LEMMA RetractedClaim ==
  ASSUME NEW c, NEW V, NEW n \in Nat, GoodClaim(c, V, n), NEW w \in Wallets,
         Contains(c.voters, w)
  PROVE  /\ GoodClaim(Retracted(c, w), V \ {w}, n)
         /\ Retracted(c, w).round = c.round /\ Retracted(c, w).description = c.description
         /\ \A v \in Wallets : Contains(Retracted(c, w).voters, v) <=> Contains(c.voters, v) /\ v # w
<1> DEFINE rest == Filter(c.voters, Wallets \ {w})
           new == Retracted(c, w)
<1>1. /\ c \in PendingMilestoneClaim /\ c.voters \in Seq(Wallets) /\ c.vote_count \in Nat
      /\ c.threshold \in Nat
      /\ Distinct(c.voters) /\ c.vote_count = Len(c.voters)
  BY ClaimFields DEF GoodClaim
<1>2. /\ rest \in Seq(Wallets) /\ Distinct(rest)
      /\ \A x : Contains(rest, x) <=> x \in Wallets \ {w} /\ Contains(c.voters, x)
  BY <1>1, FilterType, FilterDistinct, FilterEntries
<1>3. Len(rest) = Len(c.voters) - 1
  <2> DEFINE all == {x \in Wallets : Contains(c.voters, x)}
  <2>1. IsFiniteSet(all) /\ Len(c.voters) = Cardinality(all)
    BY <1>1, DistinctLength
  <2>2. Len(rest) = Cardinality({x \in Wallets : Contains(rest, x)})
    BY <1>2, DistinctLength
  <2>3. {x \in Wallets : Contains(rest, x)} = all \ {w}
    BY <1>2
  <2>4. w \in all
    OBVIOUS
  <2> HIDE DEF all
  <2> QED
    BY <2>1, <2>2, <2>3, <2>4, FS_RemoveElement
<1>4. Len(rest) \in Nat /\ Len(rest) = c.vote_count - 1
  BY <1>1, <1>2, <1>3
<1> HIDE DEF rest
<1>5. new = [c EXCEPT !.vote_count = c.vote_count - 1, !.voters = rest]
  BY DEF Retracted, rest
<1>6. /\ new \in PendingMilestoneClaim /\ new.voters = rest
      /\ new.vote_count = c.vote_count - 1 /\ new.threshold = c.threshold
      /\ new.round = c.round /\ new.description = c.description
  BY <1>1, <1>2, <1>4, <1>5 DEF PendingMilestoneClaim
<1> HIDE DEF new
<1>7. GoodClaim(new, V \ {w}, n)
  BY <1>1, <1>2, <1>4, <1>6 DEF GoodClaim
<1>8. \A v \in Wallets : Contains(new.voters, v) <=> Contains(c.voters, v) /\ v # w
  BY <1>2, <1>6
<1> QED
  BY <1>6, <1>7, <1>8 DEF new

\* c stands for what key's claim is, as far as its round and voters go.
StandsFor(c, book, key) ==
  Opened(book, key) =>
    /\ c.round = book.claim[key].round
    /\ \A w \in Wallets : Contains(book.claim[key].voters, w) => Contains(c.voters, w)

Closed(book, key, c) ==
  [claim |-> [book.claim EXCEPT ![key] = NONE],
   votes |-> VotesWithout(book.votes, key, c),
   refs  |-> RefsWithout(book.refs, key, c)]

\* A book is its three parts.
LEMMA BookParts ==
  ASSUME NEW book \in Books
  PROVE  /\ book.claim \in [ClaimKeys -> PendingMilestoneClaim \cup {NONE}]
         /\ book.votes \in SUBSET PendingMilestoneVote
         /\ book.refs \in [Wallets -> SUBSET PendingVoteRef]
         /\ book = [claim |-> book.claim, votes |-> book.votes, refs |-> book.refs]
BY DEF Books

\* A claim goes with its votes and refs.
LEMMA ClosedBook ==
  ASSUME NEW book, NEW V, NEW n \in Nat, GoodBook(book, V, n), NEW key \in ClaimKeys,
         NEW c, c.voters \in Seq(Wallets), StandsFor(c, book, key)
  PROVE  GoodBook(Closed(book, key, c), V, n)
<1> DEFINE nb == Closed(book, key, c)
<1>1. /\ book \in Books /\ VotesAgree(book) /\ RefsAgree(book)
      /\ \A k \in ClaimKeys : Opened(book, k) => GoodClaim(book.claim[k], V, n)
  BY DEF GoodBook
<1>2. /\ book.claim \in [ClaimKeys -> PendingMilestoneClaim \cup {NONE}]
      /\ book.votes \in SUBSET PendingMilestoneVote
      /\ book.refs \in [Wallets -> SUBSET PendingVoteRef]
  BY <1>1, BookParts
<1>3. /\ nb.claim = [book.claim EXCEPT ![key] = NONE]
      /\ nb.votes = VotesWithout(book.votes, key, c)
      /\ nb.refs = RefsWithout(book.refs, key, c)
  BY DEF Closed
<1>4. nb \in Books
  <2>1. nb.claim \in [ClaimKeys -> PendingMilestoneClaim \cup {NONE}]
    BY <1>2, <1>3
  <2>2. nb.votes \in SUBSET PendingMilestoneVote
    BY <1>2, <1>3 DEF VotesWithout
  <2>3. nb.refs \in [Wallets -> SUBSET PendingVoteRef]
    BY <1>2, <1>3 DEF RefsWithout
  <2> QED
    BY <2>1, <2>2, <2>3 DEF Books, Closed
<1> HIDE DEF nb
<1>5. /\ nb.claim[key] = NONE
      /\ \A k \in ClaimKeys \ {key} : nb.claim[k] = book.claim[k]
  BY <1>2, <1>3
<1>6. \A x : x \in ToSetOf(c.voters) <=> Contains(c.voters, x)
  BY SetOfList
<1>7. VotesAgree(nb)
  <2> SUFFICES ASSUME NEW k \in ClaimKeys, NEW round \in Rounds, NEW w \in Wallets,
                      NEW text \in Descriptions
               PROVE  VoteFor(k, round, w, text) \in nb.votes
                        <=> VotesIn(nb, k, round, w) /\ text = nb.claim[k].description
    BY DEF VotesAgree
  <2>1. VoteFor(k, round, w, text) \in book.votes
          <=> VotesIn(book, k, round, w) /\ text = book.claim[k].description
    BY <1>1 DEF VotesAgree
  <2>2. VoteFor(k, round, w, text) \in nb.votes
          <=> /\ VoteFor(k, round, w, text) \in book.votes
              /\ ~(k = key /\ round = c.round /\ Contains(c.voters, w))
    BY <1>3, <1>6 DEF VotesWithout, VoteFor
  <2>3. CASE k = key
    BY <1>5, <2>1, <2>2, <2>3 DEF VotesIn, Opened, StandsFor
  <2>4. CASE k # key
    BY <1>5, <2>1, <2>2, <2>4 DEF VotesIn, Opened
  <2> QED
    BY <2>3, <2>4
<1>8. RefsAgree(nb)
  <2> SUFFICES ASSUME NEW k \in ClaimKeys, NEW round \in Rounds, NEW w \in Wallets
               PROVE  RefTo(k, round) \in nb.refs[w] <=> VotesIn(nb, k, round, w)
    BY DEF RefsAgree
  <2>1. RefTo(k, round) \in book.refs[w] <=> VotesIn(book, k, round, w)
    BY <1>1 DEF RefsAgree
  <2>2. RefTo(k, round) \in nb.refs[w]
          <=> /\ RefTo(k, round) \in book.refs[w]
              /\ ~(k = key /\ round = c.round /\ Contains(c.voters, w))
    BY <1>3, <1>6 DEF RefsWithout, RefTo
  <2>3. CASE k = key
    BY <1>5, <2>1, <2>2, <2>3 DEF VotesIn, Opened, StandsFor
  <2>4. CASE k # key
    BY <1>5, <2>1, <2>2, <2>4 DEF VotesIn, Opened
  <2> QED
    BY <2>3, <2>4
<1>9. \A k \in ClaimKeys : Opened(nb, k) => GoodClaim(nb.claim[k], V, n)
  BY <1>1, <1>5 DEF Opened
<1> QED
  BY <1>4, <1>7, <1>8, <1>9 DEF GoodBook, nb

\* invalidate_pending_votes_for_validator: the claims w voted on lose its vote or,
\* out of reach, go with all their votes; w has no vote left.
LEMMA InvalidatedBook ==
  ASSUME NEW book, NEW V, NEW n \in Nat, GoodBook(book, V, n), NEW wallet \in Wallets,
         NEW active
  PROVE  GoodBook(InvalidatePendingVotes(book, wallet, active), V \ {wallet}, n)
<1> DEFINE nb == InvalidatePendingVotes(book, wallet, active)
           hit == VotedOn(book, wallet)
           aborted == {key \in hit : book.claim[key].threshold > active}
<1>1. /\ book \in Books /\ VotesAgree(book) /\ RefsAgree(book)
      /\ \A k \in ClaimKeys : Opened(book, k) => GoodClaim(book.claim[k], V, n)
  BY DEF GoodBook
<1>2. /\ book.claim \in [ClaimKeys -> PendingMilestoneClaim \cup {NONE}]
      /\ book.votes \in SUBSET PendingMilestoneVote
      /\ book.refs \in [Wallets -> SUBSET PendingVoteRef]
  BY <1>1, BookParts
<1>3. \A k \in ClaimKeys : k \in hit
        <=> Opened(book, k) /\ Contains(book.claim[k].voters, wallet)
  BY VotedOnIs
<1>4. hit \subseteq ClaimKeys /\ aborted \subseteq hit
  BY DEF VotedOn
<1>5. /\ nb.claim = [key \in ClaimKeys |->
                       IF key \in aborted THEN NONE
                       ELSE IF key \in hit THEN Retracted(book.claim[key], wallet)
                       ELSE book.claim[key]]
      /\ nb.votes = {v \in book.votes :
           ~(\/ v.wallet = wallet /\ v.key \in hit /\ v.round = book.claim[v.key].round
             \/ /\ v.key \in aborted
                /\ v.round = book.claim[v.key].round
                /\ v.wallet \in ToSetOf(book.claim[v.key].voters))}
      /\ nb.refs = [v \in Wallets |->
           IF v = wallet THEN {}
           ELSE {r \in book.refs[v] :
                   ~(/\ r.key \in aborted
                     /\ r.round = book.claim[r.key].round
                     /\ v \in ToSetOf(book.claim[r.key].voters))}]
      /\ nb = [claim |-> nb.claim, votes |-> nb.votes, refs |-> nb.refs]
  BY DEF InvalidatePendingVotes
<1> HIDE DEF nb, hit, aborted
<1>6. \A k \in hit : /\ GoodClaim(book.claim[k], V, n)
                     /\ Contains(book.claim[k].voters, wallet)
                     /\ book.claim[k] \in PendingMilestoneClaim
  BY <1>1, <1>3, <1>4 DEF GoodClaim
<1>7. \A k \in hit :
        /\ GoodClaim(Retracted(book.claim[k], wallet), V \ {wallet}, n)
        /\ Retracted(book.claim[k], wallet).round = book.claim[k].round
        /\ Retracted(book.claim[k], wallet).description = book.claim[k].description
        /\ \A v \in Wallets : Contains(Retracted(book.claim[k], wallet).voters, v)
                                <=> Contains(book.claim[k].voters, v) /\ v # wallet
  <2> SUFFICES ASSUME NEW k \in hit
               PROVE  /\ GoodClaim(Retracted(book.claim[k], wallet), V \ {wallet}, n)
                      /\ Retracted(book.claim[k], wallet).round = book.claim[k].round
                      /\ Retracted(book.claim[k], wallet).description = book.claim[k].description
                      /\ \A v \in Wallets : Contains(Retracted(book.claim[k], wallet).voters, v)
                                <=> Contains(book.claim[k].voters, v) /\ v # wallet
    OBVIOUS
  <2> QED
    BY <1>6, RetractedClaim
<1>8. /\ \A k \in aborted : nb.claim[k] = NONE
      /\ \A k \in hit \ aborted : nb.claim[k] = Retracted(book.claim[k], wallet)
      /\ \A k \in ClaimKeys \ hit : nb.claim[k] = book.claim[k]
  BY <1>4, <1>5
<1>9. \A k \in hit : Retracted(book.claim[k], wallet) # NONE
  <2>1. \A k \in hit : Retracted(book.claim[k], wallet) \in PendingMilestoneClaim
    BY <1>7 DEF GoodClaim
  <2> QED
    BY <2>1, ClaimFields
<1>10. \A k \in ClaimKeys : Opened(nb, k) => GoodClaim(nb.claim[k], V \ {wallet}, n)
  <2> SUFFICES ASSUME NEW k \in ClaimKeys, Opened(nb, k)
               PROVE  GoodClaim(nb.claim[k], V \ {wallet}, n)
    OBVIOUS
  <2>1. CASE k \in hit
    BY <1>7, <1>8, <2>1 DEF Opened
  <2>2. CASE k \notin hit
    <3>1. /\ nb.claim[k] = book.claim[k] /\ GoodClaim(book.claim[k], V, n)
          /\ ~Contains(book.claim[k].voters, wallet)
      BY <1>1, <1>3, <1>8, <2>2 DEF Opened
    <3> QED
      BY <3>1 DEF GoodClaim
  <2> QED
    BY <2>1, <2>2
<1>11. \A k \in ClaimKeys : Opened(book, k) =>
         \A x : x \in ToSetOf(book.claim[k].voters) <=> Contains(book.claim[k].voters, x)
  <2> SUFFICES ASSUME NEW k \in ClaimKeys, Opened(book, k)
               PROVE  \A x : x \in ToSetOf(book.claim[k].voters)
                               <=> Contains(book.claim[k].voters, x)
    OBVIOUS
  <2>1. book.claim[k].voters \in Seq(Wallets)
    BY <1>1, ClaimFields DEF GoodClaim
  <2> QED
    BY <2>1, SetOfList
<1>12. \A k \in ClaimKeys, round \in Rounds, w \in Wallets :
         VotesIn(nb, k, round, w) <=> VotesIn(book, k, round, w) /\ k \notin aborted
                                        /\ w # wallet
  <2> SUFFICES ASSUME NEW k \in ClaimKeys, NEW round \in Rounds, NEW w \in Wallets
               PROVE  VotesIn(nb, k, round, w) <=>
                        VotesIn(book, k, round, w) /\ k \notin aborted /\ w # wallet
    OBVIOUS
  <2>1. CASE k \in aborted
    BY <1>8, <2>1 DEF VotesIn, Opened
  <2>2. CASE k \in hit \ aborted
    BY <1>3, <1>4, <1>7, <1>8, <1>9, <2>2 DEF VotesIn, Opened
  <2>3. CASE k \notin hit
    BY <1>3, <1>4, <1>8, <2>3 DEF VotesIn, Opened
  <2> QED
    BY <1>4, <2>1, <2>2, <2>3
<1>13. \A k \in ClaimKeys : Opened(book, k) /\ k \notin aborted =>
         nb.claim[k].description = book.claim[k].description
  BY <1>3, <1>7, <1>8
<1>14. VotesAgree(nb)
  <2> SUFFICES ASSUME NEW k \in ClaimKeys, NEW round \in Rounds, NEW w \in Wallets,
                      NEW text \in Descriptions
               PROVE  VoteFor(k, round, w, text) \in nb.votes
                        <=> VotesIn(nb, k, round, w) /\ text = nb.claim[k].description
    BY DEF VotesAgree
  <2> DEFINE v == VoteFor(k, round, w, text)
  <2>1. v \in book.votes <=> VotesIn(book, k, round, w) /\ text = book.claim[k].description
    BY <1>1 DEF VotesAgree
  <2>2. v.key = k /\ v.round = round /\ v.wallet = w
    BY DEF VoteFor
  <2>3. v \in nb.votes <=>
          /\ v \in book.votes
          /\ ~(w = wallet /\ k \in hit /\ round = book.claim[k].round)
          /\ ~(k \in aborted /\ round = book.claim[k].round /\ w \in ToSetOf(book.claim[k].voters))
    BY <1>5, <2>2
  <2> HIDE DEF v
  <2>4. VotesIn(nb, k, round, w) <=> VotesIn(book, k, round, w) /\ k \notin aborted
                                        /\ w # wallet
    BY <1>12
  <2>5. VotesIn(book, k, round, w) =>
          /\ round = book.claim[k].round /\ Opened(book, k)
          /\ w \in ToSetOf(book.claim[k].voters)
          /\ (w = wallet => k \in hit)
    BY <1>3, <1>11 DEF VotesIn
  <2>6. VotesIn(nb, k, round, w) => nb.claim[k].description = book.claim[k].description
    BY <1>13, <2>4, <2>5
  <2> QED
    BY <2>1, <2>3, <2>4, <2>5, <2>6 DEF v
<1>15. RefsAgree(nb)
  <2> SUFFICES ASSUME NEW k \in ClaimKeys, NEW round \in Rounds, NEW w \in Wallets
               PROVE  RefTo(k, round) \in nb.refs[w] <=> VotesIn(nb, k, round, w)
    BY DEF RefsAgree
  <2> DEFINE r == RefTo(k, round)
  <2>1. r \in book.refs[w] <=> VotesIn(book, k, round, w)
    BY <1>1 DEF RefsAgree
  <2>2. r.key = k /\ r.round = round
    BY DEF RefTo
  <2>3. r \in nb.refs[w] <=>
          /\ w # wallet /\ r \in book.refs[w]
          /\ ~(k \in aborted /\ round = book.claim[k].round /\ w \in ToSetOf(book.claim[k].voters))
    BY <1>5, <2>2
  <2> HIDE DEF r
  <2>4. VotesIn(nb, k, round, w) <=> VotesIn(book, k, round, w) /\ k \notin aborted
                                        /\ w # wallet
    BY <1>12
  <2>5. VotesIn(book, k, round, w) =>
          round = book.claim[k].round /\ w \in ToSetOf(book.claim[k].voters)
    BY <1>11 DEF VotesIn
  <2> QED
    BY <2>1, <2>3, <2>4, <2>5 DEF r
<1>16. nb \in Books
  <2>1. \A k \in ClaimKeys : nb.claim[k] \in PendingMilestoneClaim \cup {NONE}
    BY <1>10 DEF Opened, GoodClaim
  <2>2. nb.claim = [k \in ClaimKeys |-> nb.claim[k]]
    BY <1>5, Zenon
  <2>3. nb.claim \in [ClaimKeys -> PendingMilestoneClaim \cup {NONE}]
    BY <2>1, <2>2, Zenon
  <2>4. nb.votes \in SUBSET PendingMilestoneVote
    BY <1>2, <1>5
  <2>5. \A v \in Wallets : nb.refs[v] \in SUBSET PendingVoteRef
    BY <1>2, <1>5
  <2>6. nb.refs = [v \in Wallets |-> nb.refs[v]]
    BY <1>5, Zenon
  <2>7. nb.refs \in [Wallets -> SUBSET PendingVoteRef]
    BY <2>5, <2>6, Zenon
  <2>8. nb = [claim |-> nb.claim, votes |-> nb.votes, refs |-> nb.refs]
    BY <1>5, Zenon
  <2> QED
    BY <2>3, <2>4, <2>7, <2>8 DEF Books
<1> QED
  BY <1>10, <1>14, <1>15, <1>16 DEF GoodBook, nb

\* The wallets of s one after the other.
InTurn(start, s, count) ==
  LET book[i \in 0..Len(s)] ==
        IF i = 0 THEN start ELSE InvalidatePendingVotes(book[i - 1], s[i], count - i)
  IN  book[Len(s)]

\* The recursion behind it.
LEMMA InTurnIteration ==
  ASSUME NEW V, NEW n \in Nat, NEW start, GoodBook(start, V, n), NEW s \in Seq(Wallets),
         NEW count
  PROVE  \E f : /\ f[0] = start
                /\ \A i \in 1..Len(s) :
                     f[i] = InvalidatePendingVotes(f[i - 1], s[i], count - i)
                /\ InTurn(start, s, count) = f[Len(s)]
<1>1. PICK k \in Nat : k = Len(s)
  OBVIOUS
<1> DEFINE Good == {b \in Books : GoodBook(b, V, n)}
           Step(f) == [i \in 0..k |-> IF i = 0 THEN start
                                      ELSE InvalidatePendingVotes(f[i - 1], s[i], count - i)]
<1>2. start \in Good
  BY DEF GoodBook
<1>3. \A b \in Good, i \in 1..k : InvalidatePendingVotes(b, s[i], count - i) \in Good
  <2> SUFFICES ASSUME NEW b \in Good, NEW i \in 1..k
               PROVE  InvalidatePendingVotes(b, s[i], count - i) \in Good
    OBVIOUS
  <2>1. s[i] \in Wallets
    BY <1>1
  <2>2. GoodBook(InvalidatePendingVotes(b, s[i], count - i), V \ {s[i]}, n)
    BY <2>1, InvalidatedBook
  <2>3. GoodBook(InvalidatePendingVotes(b, s[i], count - i), V, n)
    BY <2>2, GoodBookLarger
  <2> QED
    BY <2>3 DEF GoodBook
<1> HIDE DEF Good
<1>4. \E f \in [0..k -> Good] : f = Step(f)
  <2> DEFINE G == [i \in 1..k |-> [b \in Good |-> InvalidatePendingVotes(b, s[i], count - i)]]
  <2>1. G \in [1..k -> [Good -> Good]]
    BY <1>3
  <2>2. \A i \in 1..k, b \in Good : G[i][b] = InvalidatePendingVotes(b, s[i], count - i)
    OBVIOUS
  <2> HIDE DEF G
  <2>3. PICK f \in [0..k -> Good] : Iterates(f, k, start, G)
    BY <1>2, <2>1, IterationExists
  <2>4. f[0] = start /\ \A i \in 1..k : f[i] = InvalidatePendingVotes(f[i - 1], s[i], count - i)
    BY <2>2, <2>3 DEF Iterates
  <2>5. f = Step(f)
    BY <2>4
  <2> QED
    BY <2>5
<1>5. PICK f : f = Step(f) /\ InTurn(start, s, count) = f[k]
  <2>1. \E f : f = Step(f)
    BY <1>4
  <2> DEFINE book == CHOOSE f : f = Step(f)
  <2>2. book = Step(book)
    <3> HIDE DEF Step
    <3> QED
      BY <2>1, Zenon
  <2>3. InTurn(start, s, count) = book[k]
    BY <1>1, Zenon DEF InTurn
  <2> HIDE DEF book
  <2> QED
    BY <2>2, <2>3, Zenon
<1>6. f[0] = start /\ \A i \in 1..k : f[i] = InvalidatePendingVotes(f[i - 1], s[i], count - i)
  <2>1. f = Step(f)
    BY <1>5, Zenon
  <2>2. f[0] = start
    BY <2>1
  <2>3. \A i \in 1..k : f[i] = InvalidatePendingVotes(f[i - 1], s[i], count - i)
    BY <2>1
  <2> QED
    BY <2>2, <2>3
<1> QED
  BY <1>1, <1>5, <1>6, Zenon

\* After it none of them has a vote.
LEMMA InTurnBook ==
  ASSUME NEW V, NEW n \in Nat, NEW start, GoodBook(start, V, n), NEW s \in Seq(Wallets),
         NEW count
  PROVE  GoodBook(InTurn(start, s, count), V \ ToSetOf(s), n)
<1>1. PICK f : /\ f[0] = start
               /\ \A i \in 1..Len(s) :
                    f[i] = InvalidatePendingVotes(f[i - 1], s[i], count - i)
               /\ InTurn(start, s, count) = f[Len(s)]
  BY InTurnIteration
<1> DEFINE Gone(i) == {s[j] : j \in 1..i}
           Good == {i \in Nat : i <= Len(s) => GoodBook(f[i], V \ Gone(i), n)}
<1>2. 0 \in Good
  <2>1. V \subseteq V \ Gone(0)
    OBVIOUS
  <2>2. GoodBook(start, V \ Gone(0), n)
    BY <2>1, GoodBookLarger
  <2> QED
    BY <1>1, <2>2
<1>3. ASSUME NEW i \in Nat, i \in Good PROVE i + 1 \in Good
  <2> SUFFICES ASSUME i + 1 <= Len(s) PROVE GoodBook(f[i + 1], V \ Gone(i + 1), n)
    OBVIOUS
  <2>1. GoodBook(f[i], V \ Gone(i), n)
    BY <1>3
  <2>2. i + 1 \in 1..Len(s) /\ (i + 1) - 1 = i /\ s[i + 1] \in Wallets
    OBVIOUS
  <2>3. f[i + 1] = InvalidatePendingVotes(f[i], s[i + 1], count - (i + 1))
    BY <1>1, <2>2
  <2>4. GoodBook(f[i + 1], (V \ Gone(i)) \ {s[i + 1]}, n)
    BY <2>1, <2>2, <2>3, InvalidatedBook
  <2>5. (V \ Gone(i)) \ {s[i + 1]} \subseteq V \ Gone(i + 1)
    OBVIOUS
  <2> HIDE DEF Gone
  <2> QED
    BY <2>4, <2>5, GoodBookLarger
<1>4. \A i \in Nat : i \in Good
  <2> HIDE DEF Good
  <2> QED
    BY <1>2, <1>3, InductionOnSet
<1>5. Len(s) \in Nat /\ Gone(Len(s)) = ToSetOf(s)
  BY DEF ToSetOf
<1>6. GoodBook(f[Len(s)], V \ Gone(Len(s)), n)
  <2> HIDE DEF Gone
  <2>1. \A i \in Nat : i <= Len(s) => GoodBook(f[i], V \ Gone(i), n)
    BY <1>4
  <2>2. Len(s) \in Nat /\ Len(s) <= Len(s)
    BY <1>5
  <2> QED
    BY <2>1, <2>2
<1> QED
  BY <1>1, <1>5, <1>6

----
(***************************************************************************)
(* The claims' invariant.                                                   *)
(***************************************************************************)
Enrolled == {w \in Wallets : Registered(w)}

\* A voter is active, or gave up the wallet it voted with; every threshold in use
\* was within reach of the validators there are.
ClaimInv ==
  /\ milestoneThreshold \in 1..MAX_VALIDATORS
  /\ milestoneThreshold = 1 \/ milestoneThreshold <= Cardinality(Enrolled)
  /\ GoodBook(ClaimBook, Active \cup transferred, Cardinality(Enrolled))

\* The registered wallets are finitely many, and the active ones among them.
LEMMA CountedEnrolled ==
  ASSUME TypeOKRegistry
  PROVE  /\ IsFiniteSet(Enrolled) /\ Cardinality(Enrolled) \in Nat
         /\ IsFiniteSet(Active) /\ Active \subseteq Enrolled
         /\ Cardinality(Active) <= Cardinality(Enrolled)
<1>1. IsFiniteSet(Enrolled)
  BY RegistryBounds, FS_Subset DEF Enrolled
<1>2. Active \subseteq Enrolled
  BY DEF Active, Enrolled, IsActiveValidator
<1> QED
  BY <1>1, <1>2, FS_Subset, FS_CardinalityType

\* Nothing is pending at first.
LEMMA ClaimsInitially == Init => ClaimInv
<1> SUFFICES ASSUME Init PROVE ClaimInv
  OBVIOUS
<1>1. /\ milestoneThreshold = 1
      /\ claim = [key \in ClaimKeys |-> NONE]
      /\ voteCast = {}
      /\ pendingVotes = [w \in Wallets |-> {}]
  BY DEF Init, AttestationInit
<1>2. milestoneThreshold \in 1..MAX_VALIDATORS
  BY <1>1, RegistryBounds
<1>3. /\ ClaimBook.claim = [key \in ClaimKeys |-> NONE] /\ ClaimBook.votes = {}
      /\ ClaimBook.refs = [w \in Wallets |-> {}]
      /\ ClaimBook = [claim |-> claim, votes |-> voteCast, refs |-> pendingVotes]
  BY <1>1 DEF ClaimBook
<1>4. ClaimBook \in Books
  BY <1>1, <1>3 DEF Books
<1>5. \A key \in ClaimKeys : ~Opened(ClaimBook, key)
  BY <1>3 DEF Opened
<1>6. VotesAgree(ClaimBook) /\ RefsAgree(ClaimBook)
  BY <1>3, <1>5 DEF VotesAgree, RefsAgree, VotesIn
<1>7. GoodBook(ClaimBook, Active \cup transferred, Cardinality(Enrolled))
  BY <1>4, <1>5, <1>6 DEF GoodBook
<1> QED
  BY <1>1, <1>2, <1>7 DEF ClaimInv

\* c is key's claim, or as empty as no claim.
Matches(c, book, key) ==
  IF Opened(book, key) THEN c = book.claim[key]
  ELSE c.voters = << >> /\ c.vote_count = 0

VotedBook(book, key, c, w, text) ==
  [claim |-> [book.claim EXCEPT ![key] = WithVote(c, w, text)],
   votes |-> book.votes \cup {VoteFor(key, c.round, w, text)},
   refs  |-> [book.refs EXCEPT ![w] = book.refs[w] \cup {RefTo(key, c.round)}]]

\* The voters of such a claim are the voters for key.
LEMMA MatchingVoters ==
  ASSUME NEW book, NEW V, NEW n \in Nat, GoodBook(book, V, n), NEW key \in ClaimKeys,
         NEW c \in PendingMilestoneClaim, Matches(c, book, key)
  PROVE  /\ Distinct(c.voters) /\ c.vote_count = Len(c.voters)
         /\ \A w \in Wallets, round \in Rounds :
              VotesIn(book, key, round, w) <=> c.round = round /\ Contains(c.voters, w)
         /\ \A w \in Wallets : Contains(c.voters, w) => w \in V
<1>1. CASE Opened(book, key)
  <2>1. c = book.claim[key] /\ GoodClaim(c, V, n)
    BY <1>1 DEF GoodBook, Matches
  <2> QED
    BY <1>1, <2>1 DEF GoodClaim, VotesIn
<1>2. CASE ~Opened(book, key)
  <2>1. c.voters = << >> /\ c.vote_count = 0
    BY <1>2 DEF Matches
  <2>2. Distinct(c.voters) /\ c.vote_count = Len(c.voters) /\ \A w : ~Contains(c.voters, w)
    BY <2>1 DEF Distinct, Contains
  <2> QED
    BY <1>2, <2>2 DEF VotesIn
<1> QED
  BY <1>1, <1>2

\* new is c with a vote of w for text.
OneMoreVote(new, c, w, text) ==
  /\ new \in PendingMilestoneClaim /\ new.voters = Append(c.voters, w)
  /\ Distinct(new.voters) /\ new.vote_count = c.vote_count + 1
  /\ new.vote_count = Len(new.voters)
  /\ new.round = c.round /\ new.threshold = c.threshold /\ new.description = text
  /\ \A x : Contains(new.voters, x) <=> Contains(c.voters, x) \/ x = w

\* The claim with one more vote.
LEMMA WithVoteClaim ==
  ASSUME NEW c \in PendingMilestoneClaim, NEW w \in Wallets, NEW text \in Descriptions,
         c.vote_count > 0 => text = c.description, Distinct(c.voters),
         ~Contains(c.voters, w), c.vote_count = Len(c.voters)
  PROVE  OneMoreVote(WithVote(c, w, text), c, w, text)
<1> DEFINE new == WithVote(c, w, text)
<1>1. /\ c.voters \in Seq(Wallets) /\ c.vote_count \in Nat /\ c.description \in Descriptions
  BY ClaimFields
<1>2. /\ Append(c.voters, w) \in Seq(Wallets) /\ Distinct(Append(c.voters, w))
      /\ Len(Append(c.voters, w)) = Len(c.voters) + 1
      /\ \A x : Contains(Append(c.voters, w), x) <=> Contains(c.voters, x) \/ x = w
  BY <1>1, AppendEntries, AppendDistinct
<1>3. (IF c.vote_count = 0 THEN text ELSE c.description) = text
  BY <1>1
<1>4. new = [c EXCEPT !.vote_count = c.vote_count + 1, !.voters = Append(c.voters, w),
                      !.description = text]
  BY <1>3 DEF WithVote
<1> HIDE DEF new
<1>5. /\ new \in PendingMilestoneClaim /\ new.voters = Append(c.voters, w)
      /\ new.vote_count = c.vote_count + 1
      /\ new.round = c.round /\ new.threshold = c.threshold /\ new.description = text
  <2> DEFINE list == Append(c.voters, w)
             count == c.vote_count + 1
  <2>1. list \in Seq(Wallets) /\ count \in Nat
    BY <1>1, <1>2
  <2>2. new = [c EXCEPT !.vote_count = count, !.voters = list, !.description = text]
    BY <1>4
  <2> HIDE DEF list, count
  <2>3. /\ new \in PendingMilestoneClaim /\ new.voters = list /\ new.vote_count = count
        /\ new.round = c.round /\ new.threshold = c.threshold /\ new.description = text
    BY <2>1, <2>2 DEF PendingMilestoneClaim
  <2> QED
    BY <2>3 DEF list, count
<1>6. /\ Distinct(new.voters) /\ new.vote_count = Len(new.voters)
      /\ \A x : Contains(new.voters, x) <=> Contains(c.voters, x) \/ x = w
  BY <1>1, <1>2, <1>5
<1> QED
  BY <1>5, <1>6 DEF OneMoreVote, new

\* attest_milestone short of the threshold.
LEMMA VotedBookIsGood ==
  ASSUME NEW book, NEW V, NEW n \in Nat, GoodBook(book, V, n), NEW key \in ClaimKeys,
         NEW c \in PendingMilestoneClaim, Matches(c, book, key), c.round \in Rounds,
         NEW w \in Wallets, w \in V, ~Contains(c.voters, w), NEW text \in Descriptions,
         c.vote_count > 0 => text = c.description, c.threshold <= n,
         ~ReachesThreshold(WithVote(c, w, text))
  PROVE  GoodBook(VotedBook(book, key, c, w, text), V, n)
<1> DEFINE nb == VotedBook(book, key, c, w, text)
           new == WithVote(c, w, text)
<1>1. /\ book \in Books /\ VotesAgree(book) /\ RefsAgree(book)
      /\ \A k \in ClaimKeys : Opened(book, k) => GoodClaim(book.claim[k], V, n)
  BY DEF GoodBook
<1>2. /\ book.claim \in [ClaimKeys -> PendingMilestoneClaim \cup {NONE}]
      /\ book.votes \in SUBSET PendingMilestoneVote
      /\ book.refs \in [Wallets -> SUBSET PendingVoteRef]
  BY <1>1, BookParts
<1>3. /\ Distinct(c.voters) /\ c.vote_count = Len(c.voters)
      /\ \A v \in Wallets, round \in Rounds :
           VotesIn(book, key, round, v) <=> c.round = round /\ Contains(c.voters, v)
      /\ \A v \in Wallets : Contains(c.voters, v) => v \in V
  BY MatchingVoters
<1>15. OneMoreVote(new, c, w, text) /\ new = WithVote(c, w, text)
  BY <1>3, WithVoteClaim
<1> HIDE DEF new
<1>4. /\ new \in PendingMilestoneClaim
      /\ Distinct(new.voters) /\ new.vote_count = c.vote_count + 1
      /\ new.vote_count = Len(new.voters)
      /\ new.round = c.round /\ new.threshold = c.threshold /\ new.description = text
      /\ \A x : Contains(new.voters, x) <=> Contains(c.voters, x) \/ x = w
  BY <1>15 DEF OneMoreVote
<1>5. new.vote_count < new.threshold
  <2>1. new.vote_count \in Nat /\ new.threshold \in Nat
    BY <1>4, ClaimFields
  <2> QED
    BY <1>15, <2>1 DEF ReachesThreshold
<1>6. GoodClaim(new, V, n)
  BY <1>3, <1>4, <1>5 DEF GoodClaim
<1>7. new # NONE
  BY <1>4, ClaimFields
<1>8. /\ nb.claim = [book.claim EXCEPT ![key] = new]
      /\ nb.votes = book.votes \cup {VoteFor(key, c.round, w, text)}
      /\ nb.refs = [book.refs EXCEPT ![w] = book.refs[w] \cup {RefTo(key, c.round)}]
      /\ nb = [claim |-> nb.claim, votes |-> nb.votes, refs |-> nb.refs]
  BY DEF VotedBook, new
<1> HIDE DEF nb
<1>9. /\ nb.claim[key] = new
      /\ \A k \in ClaimKeys \ {key} : nb.claim[k] = book.claim[k]
      /\ nb.claim \in [ClaimKeys -> PendingMilestoneClaim \cup {NONE}]
  BY <1>2, <1>4, <1>8
<1>10. nb \in Books
  <2>1. VoteFor(key, c.round, w, text) \in PendingMilestoneVote
    BY DEF VoteFor, PendingMilestoneVote
  <2>2. RefTo(key, c.round) \in PendingVoteRef
    BY DEF RefTo, PendingVoteRef
  <2>3. nb.votes \in SUBSET PendingMilestoneVote
    BY <1>2, <1>8, <2>1
  <2>4. nb.refs \in [Wallets -> SUBSET PendingVoteRef]
    BY <1>2, <1>8, <2>2
  <2> QED
    BY <1>8, <1>9, <2>3, <2>4 DEF Books
<1>11. /\ \A v \in Wallets, round \in Rounds : VotesIn(nb, key, round, v)
            <=> c.round = round /\ (Contains(c.voters, v) \/ v = w)
       /\ \A k \in ClaimKeys \ {key}, v \in Wallets, round \in Rounds :
            VotesIn(nb, k, round, v) <=> VotesIn(book, k, round, v)
  BY <1>4, <1>7, <1>9 DEF VotesIn, Opened
<1>12. VotesAgree(nb)
  <2> SUFFICES ASSUME NEW k \in ClaimKeys, NEW round \in Rounds, NEW v \in Wallets,
                      NEW t \in Descriptions
               PROVE  VoteFor(k, round, v, t) \in nb.votes
                        <=> VotesIn(nb, k, round, v) /\ t = nb.claim[k].description
    BY DEF VotesAgree
  <2>1. VoteFor(k, round, v, t) \in book.votes
          <=> VotesIn(book, k, round, v) /\ t = book.claim[k].description
    BY <1>1 DEF VotesAgree
  <2>2. VoteFor(k, round, v, t) \in nb.votes
          <=> \/ VoteFor(k, round, v, t) \in book.votes
              \/ k = key /\ round = c.round /\ v = w /\ t = text
    BY <1>8 DEF VoteFor
  <2>3. CASE k # key
    BY <1>9, <1>11, <2>1, <2>2, <2>3
  <2>4. CASE k = key
    <3>1. VotesIn(book, key, round, v) => book.claim[key].description = text
      <4> SUFFICES ASSUME VotesIn(book, key, round, v)
                   PROVE  book.claim[key].description = text
        OBVIOUS
      <4>1. Opened(book, key) /\ c = book.claim[key] /\ Contains(c.voters, v)
        BY DEF VotesIn, Matches
      <4>2. c.vote_count > 0
        BY <1>3, <4>1, ClaimFields DEF Contains
      <4> QED
        BY <4>1, <4>2
    <3>2. nb.claim[key].description = text
      BY <1>4, <1>9
    <3> QED
      BY <1>3, <1>11, <2>1, <2>2, <2>4, <3>1, <3>2
  <2> QED
    BY <2>3, <2>4
<1>13. RefsAgree(nb)
  <2> SUFFICES ASSUME NEW k \in ClaimKeys, NEW round \in Rounds, NEW v \in Wallets
               PROVE  RefTo(k, round) \in nb.refs[v] <=> VotesIn(nb, k, round, v)
    BY DEF RefsAgree
  <2>1. RefTo(k, round) \in book.refs[v] <=> VotesIn(book, k, round, v)
    BY <1>1 DEF RefsAgree
  <2>2. RefTo(k, round) \in nb.refs[v]
          <=> \/ RefTo(k, round) \in book.refs[v]
              \/ k = key /\ round = c.round /\ v = w
    BY <1>2, <1>8 DEF RefTo
  <2> QED
    BY <1>3, <1>11, <2>1, <2>2
<1>14. \A k \in ClaimKeys : Opened(nb, k) => GoodClaim(nb.claim[k], V, n)
  BY <1>1, <1>6, <1>9 DEF Opened
<1> QED
  BY <1>10, <1>12, <1>13, <1>14 DEF GoodBook, nb

----
(***************************************************************************)
(* What a vote meets.                                                       *)
(***************************************************************************)
\* The book once a round that has expired is over.
BookBefore(key) ==
  [claim |-> IF claim[key] # NONE /\ Expired(claim[key]) THEN [claim EXCEPT ![key] = NONE]
             ELSE claim,
   votes |-> VotesBefore(key), refs |-> RefsBefore(key)]

\* ClaimBook's parts.
LEMMA ClaimBookParts ==
  /\ ClaimBook.claim = claim /\ ClaimBook.votes = voteCast /\ ClaimBook.refs = pendingVotes
  /\ \A key : Opened(ClaimBook, key) <=> claim[key] # NONE
BY DEF ClaimBook, Opened

\* An expired claim is gone before its key is voted on.
LEMMA BookBeforeIsGood ==
  ASSUME NEW V, NEW n \in Nat, GoodBook(ClaimBook, V, n), NEW key \in ClaimKeys
  PROVE  GoodBook(BookBefore(key), V, n)
<1>1. CASE claim[key] # NONE /\ Expired(claim[key])
  <2>1. GoodClaim(claim[key], V, n)
    BY <1>1, ClaimBookParts DEF GoodBook
  <2>2. claim[key].voters \in Seq(Wallets)
    BY <2>1, ClaimFields DEF GoodClaim
  <2>3. StandsFor(claim[key], ClaimBook, key)
    BY ClaimBookParts DEF StandsFor
  <2>4. BookBefore(key) = Closed(ClaimBook, key, claim[key])
    BY <1>1, ClaimBookParts DEF BookBefore, Closed, VotesBefore, RefsBefore
  <2> QED
    BY <2>2, <2>3, <2>4, ClosedBook
<1>2. CASE ~(claim[key] # NONE /\ Expired(claim[key]))
  <2>1. BookBefore(key) = ClaimBook
    BY <1>2 DEF BookBefore, ClaimBook, VotesBefore, RefsBefore
  <2> QED
    BY <2>1
<1> QED
  BY <1>1, <1>2

\* A claim nobody has voted on.
NoVotesYet(d, r, t, k) ==
  [description |-> d, vote_count |-> 0, round |-> r, created_at |-> t,
   threshold |-> k, voters |-> << >>]

\* It is a claim.
LEMMA FreshRecord ==
  ASSUME NEW d \in Descriptions, NEW r \in Nat, NEW t \in Nat, NEW k \in Nat \ {0}
  PROVE  /\ NoVotesYet(d, r, t, k) \in PendingMilestoneClaim
         /\ NoVotesYet(d, r, t, k).voters = << >>
         /\ NoVotesYet(d, r, t, k).vote_count = 0
         /\ NoVotesYet(d, r, t, k).threshold = k
         /\ NoVotesYet(d, r, t, k).round = r
<1>1. << >> \in Seq(Wallets)
  OBVIOUS
<1> QED
  BY <1>1 DEF PendingMilestoneClaim, NoVotesYet

\* The claim a vote meets fits that book.
LEMMA ClaimForMatches ==
  ASSUME RegistryInv, ClaimInv, NEW key \in ClaimKeys, NEW description \in Descriptions,
         NEW c, c = ClaimFor(key, description)
  PROVE  /\ c \in PendingMilestoneClaim
         /\ Matches(c, BookBefore(key), key)
         /\ c.threshold = milestoneThreshold \/ c.threshold <= Cardinality(Enrolled)
         /\ claim[key] # NONE /\ ~Expired(claim[key]) => c = claim[key]
         /\ c = claim[key] \/ c.threshold = milestoneThreshold
<1> DEFINE n == Cardinality(Enrolled)
<1>1. now \in Nat /\ milestoneThreshold \in Nat \ {0}
  BY RegistryBounds DEF RegistryInv, TypeOKRegistry, ClaimInv
<1>2. << >> \in Seq(Wallets)
  OBVIOUS
<1>3. FreshClaim(description) \in PendingMilestoneClaim
  BY <1>1, <1>2 DEF FreshClaim, PendingMilestoneClaim
<1>4. claim \in [ClaimKeys -> PendingMilestoneClaim \cup {NONE}]
  BY ClaimBookParts, BookParts DEF ClaimInv, GoodBook
<1>5. NONE \notin PendingMilestoneClaim
  BY AttestationAssumption
<1>6. CASE claim[key] = NONE
  <2>1. c = FreshClaim(description)
    BY <1>6 DEF ClaimFor
  <2>2. ~Opened(BookBefore(key), key)
    BY <1>6 DEF BookBefore, Opened
  <2> QED
    BY <1>3, <1>6, <2>1, <2>2 DEF Matches, FreshClaim
<1>7. CASE claim[key] # NONE /\ Expired(claim[key])
  <2>1. c = [FreshClaim(description) EXCEPT !.round = claim[key].round + 1]
    BY <1>7 DEF ClaimFor
  <2>2. claim[key].round \in Nat
    BY <1>4, <1>7, ClaimFields
  <2> DEFINE r == claim[key].round + 1
  <2>5. r \in Nat /\ c = [FreshClaim(description) EXCEPT !.round = r]
    BY <2>1, <2>2
  <2> HIDE DEF r
  <2>6. c = NoVotesYet(description, r, now, milestoneThreshold)
    BY <2>5 DEF FreshClaim, NoVotesYet
  <2>7. /\ NoVotesYet(description, r, now, milestoneThreshold) \in PendingMilestoneClaim
        /\ NoVotesYet(description, r, now, milestoneThreshold).voters = << >>
        /\ NoVotesYet(description, r, now, milestoneThreshold).vote_count = 0
        /\ NoVotesYet(description, r, now, milestoneThreshold).threshold = milestoneThreshold
    BY <1>1, <2>5, FreshRecord
  <2>3. /\ c \in PendingMilestoneClaim /\ c.voters = << >> /\ c.vote_count = 0
        /\ c.threshold = milestoneThreshold
    BY <2>6, <2>7, Zenon
  <2>4. ~Opened(BookBefore(key), key)
    BY <1>4, <1>7 DEF BookBefore, Opened
  <2> QED
    BY <1>7, <2>3, <2>4 DEF Matches
<1>8. CASE claim[key] # NONE /\ ~Expired(claim[key])
  <2>1. c = claim[key]
    BY <1>8 DEF ClaimFor
  <2>2. Opened(BookBefore(key), key) /\ BookBefore(key).claim[key] = claim[key]
    BY <1>8 DEF BookBefore, Opened
  <2>3. c.threshold <= n
    BY <1>8, <2>1, ClaimBookParts DEF ClaimInv, GoodBook, GoodClaim
  <2> QED
    BY <1>4, <1>8, <2>1, <2>2, <2>3 DEF Matches
<1> QED
  BY <1>6, <1>7, <1>8

----
(***************************************************************************)
(* The steps that touch claims.                                             *)
(***************************************************************************)
\* A step leaves the claims and the threshold alone.
Claimless == UNCHANGED <<claim, voteCast, pendingVotes, milestoneThreshold>>

\* Only these touch the claims.
LEMMA ClaimSteps ==
  ASSUME [Next]_vars
  PROVE  \/ AttestPendingStep \/ AttestCommitStep \/ PruneStep \/ ThresholdStep
         \/ RevokeStep \/ BatchRevokeStep \/ Claimless
<1>1. ASSUME UNCHANGED vars PROVE Claimless
  BY <1>1 DEF vars, attestationVars, settings, claims, Claimless
<1>2. ASSUME \/ RegisterStep \/ RestoreStep \/ TransferStep \/ PauseStep \/ UnpauseStep
             \/ ClockStep
      PROVE  Claimless
  BY <1>2 DEF RegisterStep, RestoreStep, TransferStep, PauseStep, UnpauseStep, ClockStep,
       TransferMilestoneCount, attestationVars, settings, claims, Claimless
<1>3. ASSUME ApproveStep \/ RegisterKeyStep \/ SubmitStep \/ SeedMilestoneStep
      PROVE  Claimless
  BY <1>3 DEF ApproveStep, ApproveMilestone, RegisterKeyStep, RegisterAttestationKey,
       SubmitStep, SubmitAttestedMilestone, SeedMilestoneStep, AdminSeedMilestone,
       settings, claims, Claimless
<1>4. ASSUME \/ WindowStep \/ DiversityStep \/ WiringStep \/ StatusStep
             \/ OpenWindowStep \/ CloseWindowStep
      PROVE  Claimless
  BY <1>4 DEF WindowStep, DiversityStep, WiringStep, StatusStep, OpenWindowStep,
       CloseWindowStep, SetVotingWindowSecs, SetDiversityConfig,
       SetProgressContract, UpdateProgressContract, SetRegistrationContract,
       UpdateRegistrationContract, WriteWiringLink, PlayerStatusChange,
       OpenMigrationWindow, CloseMigrationWindow, claims, Claimless
<1>5. ASSUME \/ DisputeStep \/ ResolveStep \/ TallyStep \/ VoteStep \/ JuryStep
             \/ SeedDisputeStep
      PROVE  Claimless
  BY <1>5 DEF DisputeStep, DisputeMilestone, ResolveStep, ResolveDispute, TallyStep,
       TallyDispute, CloseDispute, VoteStep, CastDisputeVote, JuryStep, SetJuryConfig,
       SeedDisputeStep, AdminSeedDispute, attestationVars, settings, claims, Claimless
<1>6. ASSUME ContinueStep \/ RereviewStep \/ PurgeStep PROVE Claimless
  BY <1>6 DEF ContinueStep, ContinueRevocationCascade, RereviewStep, RereviewMilestone,
              PurgeStep, PurgePlayerData, attestationVars, settings, claims, Claimless
<1> QED
  BY <1>1, <1>2, <1>3, <1>4, <1>5, <1>6 DEF Next

\* Nobody leaves: the active stay active, or are transferred.
Staying ==
  /\ Active \cup transferred \subseteq Active' \cup transferred'
  /\ Cardinality(Enrolled) <= Cardinality(Enrolled)'

\* With more wallets, more are counted.
LEMMA EnrolledGrows ==
  ASSUME RegistryInv, RegistryInv', Enrolled \subseteq Enrolled'
  PROVE  Cardinality(Enrolled) <= Cardinality(Enrolled)'
<1>1. IsFiniteSet(Enrolled)'
  BY RegistryBounds, FS_Subset DEF Enrolled
<1> QED
  BY <1>1, FS_Subset

\* Every step but a revocation keeps them.
LEMMA RegistryGrows ==
  ASSUME RegistryInv, RegistryInv', [Next]_vars, ~RevokeStep, ~BatchRevokeStep
  PROVE  Staying
<1>1. ASSUME \A w \in Wallets : IsActiveValidator(w) => IsActiveValidator(w)',
             \A w \in Wallets : Registered(w) => Registered(w)',
             transferred \subseteq transferred'
      PROVE  Staying
  <2>1. Active \subseteq Active' /\ Enrolled \subseteq Enrolled'
    BY <1>1 DEF Active, Enrolled
  <2> QED
    BY <1>1, <2>1, EnrolledGrows DEF Staying
<1>2. CASE RegisterStep
  <2>1. PICK ws \in Batches(Wallets) : BatchRegisterValidators(ws)
    BY <1>2 DEF RegisterStep
  <2>2. /\ validator' = [w \in Wallets |->
             IF w \in ToSetOf(ws)
             THEN [affiliation |-> AffiliationOf[w], registered_at |-> now, active |-> TRUE]
             ELSE validator[w]]
        /\ \A w \in ToSetOf(ws) : ~Registered(w)
        /\ transferred' = transferred
    BY <2>1 DEF BatchRegisterValidators, WriteValidators, ValidateValidatorInput
  <2>3. \A w \in Wallets : Registered(w) => validator'[w] = validator[w]
    BY <2>2
  <2> QED
    BY <1>1, <2>2, <2>3 DEF Registered, IsActiveValidator
<1>3. CASE RestoreStep
  <2>1. PICK r \in Wallets : RestoreValidator(r)
    BY <1>3 DEF RestoreStep
  <2>2. /\ Registered(r) /\ validator' = [validator EXCEPT ![r].active = TRUE]
        /\ transferred' = transferred
    BY <2>1 DEF RestoreValidator
  <2>3. validator \in [Wallets -> Validator \cup {NONE}]
    BY DEF RegistryInv, TypeOKRegistry
  <2>4. validator[r] \in Validator
    BY <2>2, RegisteredRecord DEF RegistryInv
  <2>5. /\ validator'[r] \in Validator /\ validator'[r].active = TRUE
        /\ \A w \in Wallets \ {r} : validator'[w] = validator[w]
    BY <2>2, <2>3, <2>4 DEF Validator
  <2> QED
    BY <1>1, <2>2, <2>5, RegistryBounds DEF Registered, IsActiveValidator
<1>4. CASE TransferStep
  <2>1. PICK old \in Wallets, new \in Wallets : TransferRecord(old, new)
    BY <1>4 DEF TransferStep
  <2>2. /\ Registered(old) /\ ~Registered(new) /\ old # new
        /\ validator' = [validator EXCEPT ![new] = validator[old], ![old] = NONE]
        /\ transferred' = transferred \cup {old}
    BY <2>1 DEF TransferRecord
  <2>3. validator \in [Wallets -> Validator \cup {NONE}]
    BY DEF RegistryInv, TypeOKRegistry
  <2>4. /\ validator'[old] = NONE /\ validator'[new] = validator[old]
        /\ \A w \in Wallets \ {old, new} : validator'[w] = validator[w]
    BY <2>2, <2>3
  <2>5. Active \cup transferred \subseteq Active' \cup transferred'
    BY <2>2, <2>4 DEF Active, IsActiveValidator, Registered
  <2>6. Enrolled' = (Enrolled \ {old}) \cup {new} /\ old \in Enrolled /\ new \notin Enrolled
    BY <2>2, <2>4 DEF Enrolled, Registered
  <2>7. IsFiniteSet(Enrolled) /\ Cardinality(Enrolled) \in Nat
    BY CountedEnrolled DEF RegistryInv
  <2>8. /\ Cardinality(Enrolled \ {old}) = Cardinality(Enrolled) - 1
        /\ IsFiniteSet(Enrolled \ {old})
    BY <2>6, <2>7, FS_RemoveElement
  <2>10. Cardinality((Enrolled \ {old}) \cup {new}) = Cardinality(Enrolled \ {old}) + 1
    BY <2>6, <2>8, FS_AddElement
  <2>9. Cardinality(Enrolled)' = Cardinality(Enrolled)
    BY <2>6, <2>7, <2>8, <2>10
  <2> QED
    BY <2>5, <2>7, <2>9 DEF Staying
<1>5. CASE PauseStep \/ UnpauseStep \/ ClockStep \/ Unregistering
  <2>1. UNCHANGED <<validator, transferred>>
    <3>1. ASSUME PauseStep \/ UnpauseStep \/ ClockStep
          PROVE  UNCHANGED <<validator, transferred>>
      BY <3>1 DEF PauseStep, UnpauseStep, ClockStep, PauseContract, PauseApproveMilestone,
           UnpauseContract, UnpauseApproveMilestone, Pause, Unpause, ClockTick, registry
    <3>2. ASSUME Unregistering PROVE UNCHANGED <<validator, transferred>>
      BY <3>2 DEF Unregistering, validatorVars, registry
    <3> QED
      BY <1>5, <3>1, <3>2
  <2> QED
    BY <1>1, <2>1 DEF Registered, IsActiveValidator
<1> QED
  BY <1>2, <1>3, <1>4, <1>5, RegistrySteps

\* ClaimInv, from the book that a step leaves and the bounds of before.
LEMMA BookSuffices ==
  ASSUME RegistryInv, RegistryInv', ClaimInv, Staying,
         GoodBook(ClaimBook', Active \cup transferred, Cardinality(Enrolled)),
         UNCHANGED milestoneThreshold
  PROVE  ClaimInv'
<1>1. Cardinality(Enrolled) \in Nat /\ Cardinality(Enrolled)' \in Nat
  <2>1. Cardinality(Enrolled) \in Nat
    BY CountedEnrolled DEF RegistryInv
  <2>2. IsFiniteSet(Enrolled)'
    BY RegistryBounds, FS_Subset DEF Enrolled
  <2> QED
    BY <2>1, <2>2, FS_CardinalityType
<1> DEFINE V == Active \cup transferred
           n == Cardinality(Enrolled)
           W == (Active \cup transferred)'
           m == Cardinality(Enrolled)'
<1>2. V \subseteq W /\ n <= m /\ n \in Nat /\ m \in Nat /\ GoodBook(ClaimBook', V, n)
  BY <1>1 DEF Staying
<1>3. /\ milestoneThreshold' \in 1..MAX_VALIDATORS
      /\ milestoneThreshold' = 1 \/ milestoneThreshold' <= m
  <2>1. /\ milestoneThreshold \in 1..MAX_VALIDATORS
        /\ milestoneThreshold = 1 \/ milestoneThreshold <= n
    BY DEF ClaimInv
  <2> HIDE DEF m, n
  <2> QED
    BY <1>2, <2>1, RegistryBounds
<1> HIDE DEF V, n, W, m
<1>4. GoodBook(ClaimBook', W, m)
  BY <1>2, GoodBookLarger
<1> QED
  BY <1>3, <1>4 DEF ClaimInv, W, m

----
(***************************************************************************)
(* Each of them keeps the claims' invariant.                                *)
(***************************************************************************)
\* What the claims' steps rely on.
LEMMA BookFacts ==
  ASSUME RegistryInv, ClaimInv
  PROVE  /\ GoodBook(ClaimBook, Active \cup transferred, Cardinality(Enrolled))
         /\ Cardinality(Enrolled) \in Nat
         /\ ClaimBook = [claim |-> claim, votes |-> voteCast, refs |-> pendingVotes]
         /\ claim \in [ClaimKeys -> PendingMilestoneClaim \cup {NONE}]
         /\ voteCast \subseteq PendingMilestoneVote
         /\ pendingVotes \in [Wallets -> SUBSET PendingVoteRef]
<1>1. GoodBook(ClaimBook, Active \cup transferred, Cardinality(Enrolled))
  BY DEF ClaimInv
<1>2. Cardinality(Enrolled) \in Nat
  BY CountedEnrolled DEF RegistryInv
<1>3. ClaimBook \in Books
  BY <1>1 DEF GoodBook
<1> QED
  BY <1>1, <1>2, <1>3, BookParts, ClaimBookParts DEF ClaimBook

\* What BookBefore is, field by field.
LEMMA BookBeforeParts ==
  ASSUME NEW key \in ClaimKeys, RegistryInv, ClaimInv
  PROVE  /\ BookBefore(key).votes = VotesBefore(key)
         /\ BookBefore(key).refs = RefsBefore(key)
         /\ \A new : [BookBefore(key).claim EXCEPT ![key] = new] = [claim EXCEPT ![key] = new]
         /\ \A k \in ClaimKeys \ {key} : BookBefore(key).claim[k] = claim[k]
<1>1. claim \in [ClaimKeys -> PendingMilestoneClaim \cup {NONE}]
  BY BookFacts
<1>2. \A new : [[claim EXCEPT ![key] = NONE] EXCEPT ![key] = new] = [claim EXCEPT ![key] = new]
  BY <1>1
<1> QED
  BY <1>1, <1>2 DEF BookBefore

\* The refs of a wallet that name a live claim are all it has.
LEMMA RefsAreLive ==
  ASSUME RegistryInv, ClaimInv, NEW key \in ClaimKeys, NEW w \in Wallets,
         NEW c \in PendingMilestoneClaim, Matches(c, BookBefore(key), key), c.round \in Rounds
  PROVE  LiveRefs(w, key, c) = RefsBefore(key)[w]
<1> DEFINE V == Active \cup transferred
           n == Cardinality(Enrolled)
           b == BookBefore(key)
<1>1. GoodBook(ClaimBook, V, n) /\ n \in Nat
  BY BookFacts
<1>2. GoodBook(b, V, n)
  BY <1>1, BookBeforeIsGood
<1>3. /\ b.refs = RefsBefore(key) /\ \A k \in ClaimKeys \ {key} : b.claim[k] = claim[k]
  BY BookBeforeParts
<1>4. b \in Books /\ RefsAgree(b)
  BY <1>2 DEF GoodBook
<1>5. b.refs \in [Wallets -> SUBSET PendingVoteRef]
  BY <1>4, BookParts
<1> HIDE DEF b, V, n
<1>6. ASSUME NEW r \in b.refs[w]
      PROVE  IF r.key = key THEN r.round = c.round
             ELSE claim[r.key] # NONE /\ claim[r.key].round = r.round
  <2>1. r = RefTo(r.key, r.round) /\ r.key \in ClaimKeys /\ r.round \in Rounds
    BY <1>5, VoteFields
  <2>2. VotesIn(b, r.key, r.round, w)
    BY <1>4, <2>1 DEF RefsAgree
  <2>3. CASE r.key = key
    BY <2>2, <2>3 DEF VotesIn, Matches, b
  <2>4. CASE r.key # key
    BY <1>3, <2>1, <2>2, <2>4 DEF VotesIn, Opened
  <2> QED
    BY <2>3, <2>4
<1> QED
  BY <1>3, <1>6 DEF LiveRefs

\* A wallet with no vote stored for a round is not among its voters.
LEMMA NoVoteNoVoter ==
  ASSUME RegistryInv, ClaimInv, NEW key \in ClaimKeys, NEW w \in Wallets,
         NEW c \in PendingMilestoneClaim, Matches(c, BookBefore(key), key), c.round \in Rounds,
         ~\E v \in voteCast : v.key = key /\ v.round = c.round /\ v.wallet = w
  PROVE  ~Contains(c.voters, w)
<1> DEFINE V == Active \cup transferred
           n == Cardinality(Enrolled)
           b == BookBefore(key)
<1>1. GoodBook(ClaimBook, V, n) /\ n \in Nat
  BY BookFacts
<1>2. GoodBook(b, V, n)
  BY <1>1, BookBeforeIsGood
<1>3. b.votes = VotesBefore(key)
  BY BookBeforeParts
<1>4. VotesBefore(key) \subseteq voteCast
  BY DEF VotesBefore, VotesWithout
<1> HIDE DEF b, V, n
<1>5. SUFFICES ASSUME Contains(c.voters, w) PROVE FALSE
  OBVIOUS
<1>6. VotesIn(b, key, c.round, w)
  BY <1>1, <1>2, <1>5, MatchingVoters DEF b
<1>7. b.claim[key].description \in Descriptions
  <2>1. b.claim[key] \in PendingMilestoneClaim
    BY <1>2, <1>6 DEF VotesIn, GoodBook, GoodClaim
  <2> QED
    BY <2>1, ClaimFields
<1>8. VoteFor(key, c.round, w, b.claim[key].description) \in b.votes
  BY <1>2, <1>6, <1>7 DEF GoodBook, VotesAgree
<1> DEFINE v == VoteFor(key, c.round, w, b.claim[key].description)
<1>9. v \in voteCast /\ v.key = key /\ v.round = c.round /\ v.wallet = w
  BY <1>3, <1>4, <1>8 DEF VoteFor
<1> QED
  BY <1>9

\* What a vote that may be cast meets.
LEMMA VoteMeets ==
  ASSUME RegistryInv, ClaimInv, NEW key \in ClaimKeys, NEW w \in Wallets,
         NEW d \in Descriptions, NEW c, c = ClaimFor(key, d), MayAttest(w, key, c, d)
  PROVE  /\ c \in PendingMilestoneClaim /\ c.round \in Rounds
         /\ Matches(c, BookBefore(key), key)
         /\ ~Contains(c.voters, w)
         /\ LiveRefs(w, key, c) = RefsBefore(key)[w]
         /\ c.vote_count > 0 => d = c.description
         /\ IsActiveValidator(w)
<1>1. /\ c.round \in Rounds /\ (c.vote_count > 0 => d = c.description) /\ IsActiveValidator(w)
      /\ ~\E v \in voteCast : v.key = key /\ v.round = c.round /\ v.wallet = w
  BY DEF MayAttest
<1>2. c \in PendingMilestoneClaim /\ Matches(c, BookBefore(key), key)
  BY ClaimForMatches
<1>3. ~Contains(c.voters, w)
  BY <1>1, <1>2, NoVoteNoVoter
<1>4. LiveRefs(w, key, c) = RefsBefore(key)[w]
  BY <1>1, <1>2, RefsAreLive
<1> QED
  BY <1>1, <1>2, <1>3, <1>4

\* The threshold of a claim that stays pending is within reach.
LEMMA PendingThreshold ==
  ASSUME RegistryInv, ClaimInv, NEW c \in PendingMilestoneClaim, NEW w, NEW d,
         c.threshold = milestoneThreshold \/ c.threshold <= Cardinality(Enrolled),
         ~ReachesThreshold(WithVote(c, w, d))
  PROVE  c.threshold <= Cardinality(Enrolled)
<1>1. c.vote_count \in Nat /\ c.threshold \in Nat /\ c.threshold > 0
  BY ClaimFields
<1>2. WithVote(c, w, d).vote_count = c.vote_count + 1 /\ WithVote(c, w, d).threshold = c.threshold
  BY DEF WithVote, PendingMilestoneClaim
<1>3. c.threshold # 1
  BY <1>1, <1>2 DEF ReachesThreshold
<1>4. milestoneThreshold = 1 \/ milestoneThreshold <= Cardinality(Enrolled)
  BY DEF ClaimInv
<1> QED
  BY <1>3, <1>4

\* The registry is untouched by a vote.
LEMMA UnregisteringStays ==
  ASSUME RegistryInv, Unregistering
  PROVE  /\ Active' = Active /\ transferred' = transferred /\ Enrolled' = Enrolled
         /\ Staying
<1>1. UNCHANGED <<validator, transferred>>
  BY DEF Unregistering, validatorVars, registry
<1>2. /\ Active' = Active /\ transferred' = transferred /\ Enrolled' = Enrolled
  BY <1>1 DEF Active, Enrolled, IsActiveValidator, Registered
<1>3. Cardinality(Enrolled) \in Nat
  BY CountedEnrolled DEF RegistryInv
<1> QED
  BY <1>2, <1>3 DEF Staying

\* attest_milestone, short of the threshold.
LEMMA PendingKeepsClaims ==
  ASSUME RegistryInv, RegistryInv', ClaimInv, AttestPendingStep
  PROVE  ClaimInv'
<1>1. PICK w \in Wallets, p \in Players, e \in Evidence, d \in Descriptions :
        AttestPending(w, p, e, d)
  BY DEF AttestPendingStep
<1>2. PICK key \in ClaimKeys : key = <<p, e>>
  BY DEF ClaimKeys
<1>3. PICK c : c = ClaimFor(key, d)
  OBVIOUS
<1>4. /\ MayAttest(w, key, c, d)
      /\ ~ReachesThreshold(WithVote(c, w, d))
      /\ claim' = [claim EXCEPT ![key] = WithVote(c, w, d)]
      /\ voteCast' = VotesBefore(key) \cup {VoteFor(key, c.round, w, d)}
      /\ pendingVotes' =
           [RefsBefore(key) EXCEPT ![w] = LiveRefs(w, key, c) \cup {RefTo(key, c.round)}]
      /\ UNCHANGED <<validatorVars, settings>>
  BY <1>1, <1>2, <1>3, Zenon DEF AttestPending, VoteFor, RefTo
<1>5. /\ c \in PendingMilestoneClaim /\ c.round \in Rounds
      /\ Matches(c, BookBefore(key), key)
      /\ ~Contains(c.voters, w)
      /\ LiveRefs(w, key, c) = RefsBefore(key)[w]
      /\ c.vote_count > 0 => d = c.description
      /\ IsActiveValidator(w)
  BY <1>3, <1>4, VoteMeets
<1> DEFINE V == Active \cup transferred
           n == Cardinality(Enrolled)
           b == BookBefore(key)
<1>6. GoodBook(ClaimBook, V, n) /\ n \in Nat
  BY BookFacts
<1>7. GoodBook(b, V, n)
  BY <1>6, BookBeforeIsGood
<1>8. c.threshold <= n
  <2>1. c.threshold = milestoneThreshold \/ c.threshold <= n
    BY <1>3, ClaimForMatches
  <2> QED
    BY <1>4, <1>5, <2>1, PendingThreshold
<1>9. w \in V
  BY <1>5 DEF Active
<1>10. ClaimBook' = VotedBook(b, key, c, w, d)
  <2>1. /\ b.votes = VotesBefore(key) /\ b.refs = RefsBefore(key)
        /\ [b.claim EXCEPT ![key] = WithVote(c, w, d)] = [claim EXCEPT ![key] = WithVote(c, w, d)]
    BY BookBeforeParts
  <2> HIDE DEF b
  <2>2. pendingVotes' = [b.refs EXCEPT ![w] = b.refs[w] \cup {RefTo(key, c.round)}]
    BY <1>4, <1>5, <2>1, Zenon
  <2> QED
    BY <1>4, <2>1, <2>2, Zenon DEF ClaimBook, VotedBook
<1> HIDE DEF V, n, b
<1>11. GoodBook(VotedBook(b, key, c, w, d), V, n)
  <2>1. /\ GoodBook(b, V, n) /\ Matches(c, b, key) /\ c.threshold <= n
        /\ ~ReachesThreshold(WithVote(c, w, d)) /\ w \in V
    BY <1>4, <1>5, <1>7, <1>8, <1>9 DEF b
  <2> QED
    BY <1>5, <1>6, <2>1, VotedBookIsGood
<1>12. GoodBook(ClaimBook', Active \cup transferred, Cardinality(Enrolled))
  BY <1>10, <1>11 DEF V, n
<1>13. Staying /\ UNCHANGED milestoneThreshold
  BY <1>4, UnregisteringStays DEF Unregistering, settings
<1> QED
  BY <1>12, <1>13, BookSuffices

\* Closing key's claim, whichever the claim that stands for it.
LEMMA ClosingKeepsClaims ==
  ASSUME RegistryInv, RegistryInv', ClaimInv, Unregistering, UNCHANGED milestoneThreshold,
         NEW b, GoodBook(b, Active \cup transferred, Cardinality(Enrolled)),
         NEW key \in ClaimKeys, NEW c, c.voters \in Seq(Wallets), StandsFor(c, b, key),
         ClaimBook' = Closed(b, key, c)
  PROVE  ClaimInv'
<1>1. Cardinality(Enrolled) \in Nat
  BY BookFacts
<1>2. GoodBook(ClaimBook', Active \cup transferred, Cardinality(Enrolled))
  BY <1>1, ClosedBook
<1> QED
  BY <1>2, UnregisteringStays, BookSuffices

\* attest_milestone, crossing the threshold.
LEMMA CommitKeepsClaims ==
  ASSUME RegistryInv, RegistryInv', ClaimInv, AttestCommitStep
  PROVE  ClaimInv'
<1>1. PICK w \in Wallets, p \in Players, e \in Evidence, d \in Descriptions :
        AttestCommit(w, p, e, d)
  BY DEF AttestCommitStep
<1>2. PICK key \in ClaimKeys : key = <<p, e>>
  BY DEF ClaimKeys
<1>3. PICK c : c = ClaimFor(key, d)
  OBVIOUS
<1>14. PICK new : new = WithVote(c, w, d)
  OBVIOUS
<1>4. /\ MayAttest(w, key, c, d)
      /\ claim' = [claim EXCEPT ![key] = NONE]
      /\ voteCast' = VotesWithout(VotesBefore(key), key, new)
      /\ pendingVotes' =
           RefsWithout([RefsBefore(key) EXCEPT ![w] = LiveRefs(w, key, c)], key, new)
      /\ UNCHANGED <<validatorVars, settings>>
  BY <1>1, <1>2, <1>3, <1>14, Zenon DEF AttestCommit
<1>5. /\ c \in PendingMilestoneClaim /\ c.round \in Rounds
      /\ Matches(c, BookBefore(key), key)
      /\ ~Contains(c.voters, w)
      /\ LiveRefs(w, key, c) = RefsBefore(key)[w]
      /\ c.vote_count > 0 => d = c.description
  BY <1>3, <1>4, VoteMeets
<1> DEFINE V == Active \cup transferred
           n == Cardinality(Enrolled)
           b == BookBefore(key)
<1>6. GoodBook(ClaimBook, V, n) /\ n \in Nat
  BY BookFacts
<1>7. GoodBook(b, V, n)
  BY <1>6, BookBeforeIsGood
<1>8. /\ b.votes = VotesBefore(key) /\ b.refs = RefsBefore(key)
      /\ [b.claim EXCEPT ![key] = NONE] = [claim EXCEPT ![key] = NONE]
  BY BookBeforeParts
<1>9. b.refs \in [Wallets -> SUBSET PendingVoteRef]
  BY <1>7, BookParts DEF GoodBook
<1>10. ClaimBook' = Closed(b, key, new)
  <2> HIDE DEF b
  <2>1. [b.refs EXCEPT ![w] = b.refs[w]] = b.refs
    BY <1>9
  <2>2. pendingVotes' = RefsWithout(b.refs, key, new)
    BY <1>4, <1>5, <1>8, <2>1, Zenon
  <2> QED
    BY <1>4, <1>8, <2>2, Zenon DEF ClaimBook, Closed
<1>11. new.voters \in Seq(Wallets) /\ StandsFor(new, b, key)
  <2> HIDE DEF V, n
  <2>1. Distinct(c.voters) /\ c.vote_count = Len(c.voters)
    BY <1>5, <1>6, <1>7, MatchingVoters
  <2>2. OneMoreVote(new, c, w, d)
    BY <1>5, <1>14, <2>1, WithVoteClaim
  <2>3. new.voters \in Seq(Wallets)
    BY <2>2, ClaimFields DEF OneMoreVote
  <2>4. Opened(b, key) => c = b.claim[key]
    BY <1>5 DEF Matches
  <2> QED
    BY <2>2, <2>3, <2>4 DEF StandsFor, OneMoreVote
<1>12. Unregistering /\ UNCHANGED milestoneThreshold
  BY <1>4 DEF Unregistering, settings
<1> QED
  BY <1>7, <1>10, <1>11, <1>12, ClosingKeepsClaims

\* prune_expired_claim.
LEMMA PruneKeepsClaims ==
  ASSUME RegistryInv, RegistryInv', ClaimInv, PruneStep
  PROVE  ClaimInv'
<1>1. PICK p \in Players, e \in Evidence : PruneExpiredClaim(p, e)
  BY DEF PruneStep
<1>2. PICK key \in ClaimKeys : key = <<p, e>>
  BY DEF ClaimKeys
<1>3. PICK c : c = claim[key]
  OBVIOUS
<1>4. /\ c # NONE
      /\ voteCast' = VotesWithout(voteCast, key, c)
      /\ pendingVotes' = RefsWithout(pendingVotes, key, c)
      /\ claim' = [claim EXCEPT ![key] = NONE]
      /\ UNCHANGED <<validatorVars, settings>>
  BY <1>1, <1>2, <1>3, Zenon DEF PruneExpiredClaim
<1>5. GoodBook(ClaimBook, Active \cup transferred, Cardinality(Enrolled))
  BY BookFacts
<1>6. ClaimBook' = Closed(ClaimBook, key, c)
  BY <1>4, ClaimBookParts, Zenon DEF ClaimBook, Closed
<1>7. c.voters \in Seq(Wallets)
  BY <1>3, <1>4, BookFacts, ClaimFields
<1>8. StandsFor(c, ClaimBook, key)
  BY <1>3, ClaimBookParts DEF StandsFor
<1>9. Unregistering /\ UNCHANGED milestoneThreshold
  BY <1>4 DEF Unregistering, settings
<1> QED
  BY <1>5, <1>6, <1>7, <1>8, <1>9, ClosingKeepsClaims

\* set_milestone_threshold.
LEMMA ThresholdKeepsClaims ==
  ASSUME RegistryInv, RegistryInv', ClaimInv, ThresholdStep
  PROVE  ClaimInv'
<1>1. PICK k \in Thresholds : SetMilestoneThreshold(k)
  BY DEF ThresholdStep
<1>2. /\ k <= activeValidatorCount /\ milestoneThreshold' = k
      /\ UNCHANGED <<validatorVars, claim, voteCast, pendingVotes>>
  BY <1>1 DEF SetMilestoneThreshold, claims
<1>3. k \in 1..MAX_VALIDATORS
  BY AttestationAssumption
<1>4. k <= Cardinality(Enrolled)
  <2>1. Cardinality(Active) = activeValidatorCount /\ activeValidatorCount \in Nat
    BY CountedActive
  <2>2. Cardinality(Active) <= Cardinality(Enrolled) /\ Cardinality(Enrolled) \in Nat
    BY CountedEnrolled DEF RegistryInv
  <2> QED
    BY <1>2, <1>3, <2>1, <2>2, RegistryBounds
<1>5. Active' = Active /\ transferred' = transferred /\ Enrolled' = Enrolled
  BY <1>2, UnregisteringStays DEF Unregistering
<1>6. ClaimBook' = ClaimBook
  BY <1>2 DEF ClaimBook
<1> QED
  BY <1>2, <1>3, <1>4, <1>5, <1>6 DEF ClaimInv

\* revoke_one and its batches, for any list of wallets.
LEMMA RevokingKeepsClaims ==
  ASSUME RegistryInv, ClaimInv, NEW ws \in Seq(Wallets), NEW severity \in RevocationSeverity,
         NEW deferred, Revoke(ws, severity, deferred)
  PROVE  ClaimInv'
<1> DEFINE A == {w \in Wallets : IsActiveValidator(w)}
           actives == Filter(ws, A)
           V == Active \cup transferred
           n == Cardinality(Enrolled)
<1>1. /\ RevokeRecords(ToSetOf(ws), severity) /\ RetractVotes(ws)
      /\ UNCHANGED <<milestoneThreshold, transferred>>
  BY DEF Revoke, RevokeRecords, settings
<1>2. ToSetOf(ws) \subseteq Wallets
  BY SetOfList
<1>3. /\ RegistryInv'
      /\ \A w \in Wallets : Registered(w)' <=> Registered(w)
      /\ \A w \in Wallets : IsActiveValidator(w)' <=> IsActiveValidator(w) /\ w \notin ToSetOf(ws)
  BY <1>1, <1>2, RevocationKeepsRegistry
<1>4. Enrolled' = Enrolled /\ Active' = Active \ ToSetOf(ws)
  BY <1>3 DEF Enrolled, Active
<1>5. GoodBook(ClaimBook, V, n) /\ n \in Nat
  BY BookFacts
<1>6. actives \in Seq(Wallets) /\ \A x : Contains(actives, x) <=> x \in A /\ Contains(ws, x)
  BY FilterType, FilterEntries
<1>7. ToSetOf(actives) = A \cap ToSetOf(ws)
  <2> HIDE DEF actives, A
  <2>1. \A x : x \in ToSetOf(actives) <=> Contains(actives, x)
    BY <1>6, SetOfList
  <2>2. \A x : x \in ToSetOf(ws) <=> Contains(ws, x)
    BY SetOfList
  <2> QED
    BY <1>6, <2>1, <2>2
<1>8. V \ ToSetOf(actives) \subseteq (Active \cup transferred)'
  <2>1. A = Active
    BY DEF Active
  <2> HIDE DEF A, actives
  <2> QED
    BY <1>1, <1>4, <1>7, <2>1
<1>9. InvalidateInTurn(ws) = InTurn(ClaimBook, actives, activeValidatorCount)
  BY Zenon DEF InvalidateInTurn, InTurn
<1> HIDE DEF actives, A, V, n
<1>10. GoodBook(InTurn(ClaimBook, actives, activeValidatorCount), V \ ToSetOf(actives), n)
  BY <1>5, <1>6, InTurnBook
<1>11. ClaimBook' = InTurn(ClaimBook, actives, activeValidatorCount)
  <2> DEFINE book == InTurn(ClaimBook, actives, activeValidatorCount)
  <2>1. claim' = book.claim /\ voteCast' = book.votes /\ pendingVotes' = book.refs
    BY <1>1, <1>9, Zenon DEF RetractVotes
  <2>2. book \in Books
    BY <1>10 DEF GoodBook
  <2> HIDE DEF book
  <2>3. book = [claim |-> book.claim, votes |-> book.votes, refs |-> book.refs]
    BY <2>2, BookParts
  <2>4. ClaimBook' = [claim |-> claim', votes |-> voteCast', refs |-> pendingVotes']
    BY DEF ClaimBook
  <2>5. ClaimBook' = book
    BY <2>1, <2>3, <2>4, Zenon
  <2> QED
    BY <2>5 DEF book
<1>12. GoodBook(ClaimBook', (Active \cup transferred)', n)
  <2> DEFINE W == (Active \cup transferred)'
  <2>1. V \ ToSetOf(actives) \subseteq W
    BY <1>8
  <2> HIDE DEF W
  <2>2. n <= n
    BY <1>5
  <2>3. GoodBook(ClaimBook', W, n)
    BY <1>5, <1>10, <1>11, <2>1, <2>2, GoodBookLarger
  <2> QED
    BY <2>3 DEF W
<1> QED
  BY <1>1, <1>4, <1>12 DEF ClaimInv, n

\* revoke_validator and batch_revoke_validators.
LEMMA RevokeKeepsClaims ==
  ASSUME RegistryInv, ClaimInv, RevokeStep \/ BatchRevokeStep
  PROVE  ClaimInv'
<1>1. Suspects \subseteq Wallets /\ Severities \subseteq RevocationSeverity
  BY VerificationAssumption, ValidatorAssumption
<1>2. CASE RevokeStep
  <2>1. PICK w \in Suspects, severity \in Severities : Revoke(<<w>>, severity, FALSE)
    BY <1>2 DEF RevokeStep, RevokeValidator
  <2>2. <<w>> \in Seq(Wallets)
    BY <1>1
  <2> QED
    BY <1>1, <2>1, <2>2, RevokingKeepsClaims
<1>3. CASE BatchRevokeStep
  <2>1. PICK ws \in Batches(Suspects), severity \in Severities : Revoke(ws, severity, TRUE)
    BY <1>3 DEF BatchRevokeStep, BatchRevokeValidators
  <2>2. ws \in Seq(Suspects)
    BY <2>1, BatchIsList
  <2>3. ws \in Seq(Wallets)
    BY <1>1, <2>2
  <2> QED
    BY <1>1, <2>1, <2>3, RevokingKeepsClaims
<1> QED
  BY <1>2, <1>3

\* Both invariants together are inductive.
LEMMA ClaimStep == RegistryInv /\ ClaimInv /\ [Next]_vars => ClaimInv'
<1> SUFFICES ASSUME RegistryInv, ClaimInv, [Next]_vars PROVE ClaimInv'
  OBVIOUS
<1>1. RegistryInv'
  BY RegistryStep
<1>2. ASSUME Claimless, ~RevokeStep, ~BatchRevokeStep PROVE ClaimInv'
  <2>1. Staying
    BY <1>1, <1>2, RegistryGrows
  <2>2. ClaimBook' = ClaimBook /\ UNCHANGED milestoneThreshold
    BY <1>2 DEF Claimless, ClaimBook
  <2>3. GoodBook(ClaimBook', Active \cup transferred, Cardinality(Enrolled))
    BY <2>2, BookFacts
  <2> QED
    BY <1>1, <2>1, <2>2, <2>3, BookSuffices
<1> QED
  BY <1>1, <1>2, ClaimSteps, PendingKeepsClaims, CommitKeepsClaims, PruneKeepsClaims,
     ThresholdKeepsClaims, RevokeKeepsClaims

\* So they hold throughout.
LEMMA ClaimsAlways == Spec => [](RegistryInv /\ ClaimInv)
<1>1. RegistryInv /\ ClaimInv /\ [Next]_vars => (RegistryInv /\ ClaimInv)'
  BY RegistryStep, ClaimStep
<1> QED
  BY <1>1, RegistryInitially, ClaimsInitially, PTL DEF Spec

\* What the readers say of the claims follows.
LEMMA OpenClaimMatches ==
  ASSUME RegistryInv, ClaimInv, NEW key \in ClaimKeys, NEW c, c = claim[key], c # NONE
  PROVE  /\ c \in PendingMilestoneClaim /\ c.round \in Rounds
         /\ NoRepeats(c.voters) /\ c.vote_count = Len(c.voters) /\ c.vote_count < c.threshold
         /\ c.threshold <= Cardinality(Enrolled)
         /\ {v.wallet : v \in RoundVotes(key, c.round)} = ToSetOf(c.voters)
         /\ \A v \in RoundVotes(key, c.round) : v.text = c.description
         /\ \A w \in ToSetOf(c.voters) :
              [key |-> key, round |-> c.round] \in pendingVotes[w]
         /\ ToSetOf(c.voters) \subseteq Active \cup transferred
<1> DEFINE V == Active \cup transferred
           n == Cardinality(Enrolled)
<1>1. GoodBook(ClaimBook, V, n)
  BY BookFacts
<1> HIDE DEF V, n
<1>2. GoodClaim(c, V, n) /\ VotesAgree(ClaimBook) /\ RefsAgree(ClaimBook)
  BY <1>1, ClaimBookParts DEF GoodBook
<1>3. /\ c \in PendingMilestoneClaim /\ c.round \in Rounds /\ c.voters \in Seq(Wallets)
      /\ c.description \in Descriptions
      /\ Distinct(c.voters) /\ c.vote_count = Len(c.voters)
      /\ c.vote_count < c.threshold /\ c.threshold <= n
      /\ \A w \in Wallets : Contains(c.voters, w) => w \in V
  BY <1>2, ClaimFields DEF GoodClaim
<1>4. NoRepeats(c.voters)
  BY <1>3, DistinctIsNoRepeats
<1>5. ToSetOf(c.voters) \subseteq Wallets /\ \A x : x \in ToSetOf(c.voters) <=> Contains(c.voters, x)
  BY <1>3, SetOfList
<1>6. \A w \in Wallets : VotesIn(ClaimBook, key, c.round, w) <=> Contains(c.voters, w)
  BY ClaimBookParts DEF VotesIn
<1>7. \A v \in RoundVotes(key, c.round) :
        v.wallet \in Wallets /\ Contains(c.voters, v.wallet) /\ v.text = c.description
  <2> SUFFICES ASSUME NEW v \in voteCast, v.key = key, v.round = c.round
               PROVE  /\ v.wallet \in Wallets /\ Contains(c.voters, v.wallet)
                      /\ v.text = c.description
    BY DEF RoundVotes
  <2>1. /\ v = VoteFor(v.key, v.round, v.wallet, v.text) /\ v.wallet \in Wallets
        /\ v.text \in Descriptions
    BY BookFacts, VoteFields
  <2>2. VoteFor(key, c.round, v.wallet, v.text) \in ClaimBook.votes
    BY <2>1, ClaimBookParts
  <2>3. VotesIn(ClaimBook, key, c.round, v.wallet) /\ v.text = ClaimBook.claim[key].description
    BY <1>2, <1>3, <2>1, <2>2 DEF VotesAgree
  <2> QED
    BY <1>6, <2>1, <2>3, ClaimBookParts
<1>8. \A w \in Wallets : Contains(c.voters, w) =>
        \E v \in RoundVotes(key, c.round) : v.wallet = w
  <2> SUFFICES ASSUME NEW w \in Wallets, Contains(c.voters, w)
               PROVE  \E v \in RoundVotes(key, c.round) : v.wallet = w
    OBVIOUS
  <2> DEFINE v == VoteFor(key, c.round, w, c.description)
  <2>1. v \in voteCast
    BY <1>2, <1>3, <1>6, ClaimBookParts DEF VotesAgree
  <2>2. v.key = key /\ v.round = c.round /\ v.wallet = w
    BY DEF VoteFor
  <2> QED
    BY <2>1, <2>2 DEF RoundVotes
<1>9. {v.wallet : v \in RoundVotes(key, c.round)} = ToSetOf(c.voters)
  BY <1>5, <1>7, <1>8
<1>10. \A w \in ToSetOf(c.voters) : [key |-> key, round |-> c.round] \in pendingVotes[w]
  <2> SUFFICES ASSUME NEW w \in ToSetOf(c.voters) PROVE RefTo(key, c.round) \in pendingVotes[w]
    BY DEF RefTo
  <2> QED
    BY <1>2, <1>3, <1>5, <1>6, ClaimBookParts DEF RefsAgree
<1>11. ToSetOf(c.voters) \subseteq V
  BY <1>3, <1>5
<1> QED
  BY <1>3, <1>4, <1>7, <1>9, <1>10, <1>11 DEF V, n

\* An open claim out of reach has lost a validator that had not voted on it.
LEMMA UnreachableLost ==
  ASSUME RegistryInv, ClaimInv, NEW key \in ClaimKeys, NEW c, c = claim[key], c # NONE,
         ~(c.threshold <= activeValidatorCount)
  PROVE  \E w \in (Wallets \ ToSetOf(c.voters)) \cup transferred :
           Registered(w) /\ ~IsActiveValidator(w)
<1>1. /\ c \in PendingMilestoneClaim /\ c.threshold <= Cardinality(Enrolled)
      /\ ToSetOf(c.voters) \subseteq Active \cup transferred
  BY OpenClaimMatches
<1>2. c.threshold \in Nat
  BY <1>1, ClaimFields
<1>3. /\ IsFiniteSet(Active) /\ Cardinality(Active) = activeValidatorCount
      /\ activeValidatorCount \in Nat
  BY CountedActive
<1>4. Cardinality(Enrolled) \in Nat
  BY CountedEnrolled DEF RegistryInv
<1>5. ~(Enrolled \subseteq Active)
  <2> SUFFICES ASSUME Enrolled \subseteq Active PROVE FALSE
    OBVIOUS
  <2>1. Cardinality(Enrolled) <= Cardinality(Active)
    BY <1>3, FS_Subset
  <2> QED
    BY <1>1, <1>2, <1>3, <1>4, <2>1
<1>6. PICK w \in Enrolled : w \notin Active
  BY <1>5
<1>7. w \in Wallets /\ Registered(w) /\ ~IsActiveValidator(w)
  BY <1>6 DEF Enrolled, Active
<1>8. w \in (Wallets \ ToSetOf(c.voters)) \cup transferred
  BY <1>1, <1>6, <1>7
<1> QED
  BY <1>7, <1>8

\* The claims' invariant says what the property asks.
LEMMA ClaimInvSuffices ==
  ASSUME RegistryInv, ClaimInv
  PROVE  ClaimMatchesItsVotes
<1>1. ASSUME NEW key \in ClaimKeys, NEW c, c = claim[key], c # NONE
      PROVE  /\ \A w \in Wallets :
                  HasAttested(key[1], key[2], w) <=> ~Expired(c) /\ w \in ToSetOf(c.voters)
             /\ IsPendingClaimReachable(key[1], key[2]) <=> c.threshold <= activeValidatorCount
  <2>1. key = <<key[1], key[2]>>
    BY DEF ClaimKeys
  <2>2. claim[<<key[1], key[2]>>] = c
    BY <1>1, <2>1
  <2>3. {v.wallet : v \in RoundVotes(key, c.round)} = ToSetOf(c.voters)
    BY <1>1, OpenClaimMatches
  <2>4. \A w \in Wallets :
          HasAttested(key[1], key[2], w) <=> ~Expired(c) /\ w \in ToSetOf(c.voters)
    <3> SUFFICES ASSUME NEW w \in Wallets
                 PROVE  HasAttested(key[1], key[2], w)
                          <=> ~Expired(c) /\ w \in ToSetOf(c.voters)
      OBVIOUS
    <3>1. HasAttested(key[1], key[2], w)
            <=> ~Expired(c) /\ \E v \in RoundVotes(key, c.round) : v.wallet = w
      BY <1>1, <2>1, <2>2 DEF HasAttested
    <3> QED
      BY <2>3, <3>1
  <2>5. GetPendingClaim(key[1], key[2]) = c
    BY <2>2 DEF GetPendingClaim
  <2>6. IsPendingClaimReachable(key[1], key[2]) <=> c.threshold <= activeValidatorCount
    BY <1>1, <2>5 DEF IsPendingClaimReachable
  <2> QED
    BY <2>4, <2>6
<1>2. ASSUME NEW key \in ClaimKeys, NEW c, c = claim[key], c # NONE
      PROVE  /\ NoRepeats(c.voters)
             /\ c.vote_count = Len(c.voters) /\ c.vote_count < c.threshold
             /\ {v.wallet : v \in RoundVotes(key, c.round)} = ToSetOf(c.voters)
             /\ \A v \in RoundVotes(key, c.round) : v.text = c.description
             /\ \A w \in Wallets :
                  HasAttested(key[1], key[2], w) <=> ~Expired(c) /\ w \in ToSetOf(c.voters)
             /\ ~IsPendingClaimReachable(key[1], key[2]) =>
                  \E w \in (Wallets \ ToSetOf(c.voters)) \cup transferred :
                    Registered(w) /\ ~IsActiveValidator(w)
             /\ c.threshold = milestoneThreshold =>
                  IsPendingClaimReachable(key[1], key[2]) = GetMilestoneThresholdStatus.reachable
             /\ \A w \in ToSetOf(c.voters) :
                  [key |-> key, round |-> c.round] \in pendingVotes[w]
  <2>1. /\ \A w \in Wallets :
             HasAttested(key[1], key[2], w) <=> ~Expired(c) /\ w \in ToSetOf(c.voters)
        /\ IsPendingClaimReachable(key[1], key[2]) <=> c.threshold <= activeValidatorCount
    BY <1>1, <1>2
  <2>2. /\ c \in PendingMilestoneClaim
        /\ NoRepeats(c.voters) /\ c.vote_count = Len(c.voters) /\ c.vote_count < c.threshold
        /\ {v.wallet : v \in RoundVotes(key, c.round)} = ToSetOf(c.voters)
        /\ \A v \in RoundVotes(key, c.round) : v.text = c.description
        /\ \A w \in ToSetOf(c.voters) : [key |-> key, round |-> c.round] \in pendingVotes[w]
    BY <1>2, OpenClaimMatches
  <2>3. ~IsPendingClaimReachable(key[1], key[2]) =>
          \E w \in (Wallets \ ToSetOf(c.voters)) \cup transferred :
            Registered(w) /\ ~IsActiveValidator(w)
    BY <1>2, <2>1, UnreachableLost
  <2>4. c.threshold = milestoneThreshold =>
          IsPendingClaimReachable(key[1], key[2]) = GetMilestoneThresholdStatus.reachable
    <3> SUFFICES ASSUME c.threshold = milestoneThreshold
                 PROVE  IsPendingClaimReachable(key[1], key[2])
                          = GetMilestoneThresholdStatus.reachable
      OBVIOUS
    <3>1. GetMilestoneThresholdStatus.reachable = (activeValidatorCount >= milestoneThreshold)
      BY DEF GetMilestoneThresholdStatus
    <3>2. c.threshold \in Nat /\ activeValidatorCount \in Nat
      BY <2>2, ClaimFields, CountedActive
    <3>3. IsPendingClaimReachable(key[1], key[2])
            <=> activeValidatorCount >= milestoneThreshold
      BY <2>1, <3>2
    <3>4. IsPendingClaimReachable(key[1], key[2]) \in BOOLEAN
      BY DEF IsPendingClaimReachable
    <3>5. (activeValidatorCount >= milestoneThreshold) \in BOOLEAN
      BY <3>2
    <3> QED
      BY <3>1, <3>3, <3>4, <3>5, Zenon
  <2> QED
    BY <2>1, <2>2, <2>3, <2>4
<1> DEFINE V == Active \cup transferred
           n == Cardinality(Enrolled)
<1>3. /\ GoodBook(ClaimBook, V, n) /\ voteCast \subseteq PendingMilestoneVote
      /\ pendingVotes \in [Wallets -> SUBSET PendingVoteRef]
  BY BookFacts
<1> HIDE DEF V, n
<1>4. VotesAgree(ClaimBook) /\ RefsAgree(ClaimBook)
  BY <1>3 DEF GoodBook
<1>5. ASSUME NEW v \in voteCast PROVE claim[v.key] # NONE /\ claim[v.key].round = v.round
  <2>1. /\ v = VoteFor(v.key, v.round, v.wallet, v.text) /\ v.key \in ClaimKeys
        /\ v.round \in Rounds /\ v.wallet \in Wallets /\ v.text \in Descriptions
    BY <1>3, VoteFields
  <2>2. VotesIn(ClaimBook, v.key, v.round, v.wallet)
    BY <1>4, <2>1, ClaimBookParts DEF VotesAgree
  <2> QED
    BY <2>2, ClaimBookParts DEF VotesIn
<1>6. ASSUME NEW w \in Wallets, NEW r \in pendingVotes[w]
      PROVE  /\ claim[r.key] # NONE /\ claim[r.key].round = r.round
             /\ w \in ToSetOf(claim[r.key].voters)
  <2>1. r = RefTo(r.key, r.round) /\ r.key \in ClaimKeys /\ r.round \in Rounds
    BY <1>3, VoteFields
  <2>2. VotesIn(ClaimBook, r.key, r.round, w)
    BY <1>4, <2>1, ClaimBookParts DEF RefsAgree
  <2>3. claim[r.key] # NONE /\ claim[r.key].round = r.round /\ Contains(claim[r.key].voters, w)
    BY <2>2, ClaimBookParts DEF VotesIn
  <2>4. claim[r.key].voters \in Seq(Wallets)
    BY <2>1, <2>3, BookFacts, ClaimFields
  <2>5. w \in ToSetOf(claim[r.key].voters)
    BY <2>3, <2>4, SetOfList
  <2> QED
    BY <2>3, <2>5
<1> QED
  BY <1>2, <1>5, <1>6 DEF ClaimMatchesItsVotes

\* A pending claim counts exactly the votes cast in its round, and is out of reach only
\* because validators who had not voted on it were revoked, whatever the rounds that
\* expire and the validators that are revoked, restored or moved to another wallet.
THEOREM ClaimsMatchTheirVotes == Spec => []ClaimMatchesItsVotes
BY ClaimsAlways, ClaimInvSuffices, PTL

----
(***************************************************************************)
(* What backs a milestone.                                                  *)
(***************************************************************************)
\* The property for one player, and the quorum it speaks of.
Quorum(p, e, attestors) ==
  LET c == claim[<<p, e>>]
      k == Cardinality(ToSetOf(attestors))
  IN  \/ k >= milestoneThreshold
      \/ c # NONE /\ ~Expired(c) /\ k >= c.threshold

Backed(p) ==
  milestoneCounter'[p] = NextIndex(p) =>
    LET attestors == milestoneAttestors'[p][NextIndex(p)]
        e == milestone'[p][NextIndex(p)].evidence
        c == claim[<<p, e>>]
        k == Cardinality(ToSetOf(attestors))
    IN  migrationWindow # "open" =>
          /\ NoRepeats(attestors)
          /\ \E n \in {NextIndex(p)} :
               GetMilestoneWithStatus(p, n).validator_status' = "Active"
          /\ \A w \in ToSetOf(attestors) : IsActiveValidator(w) \/ w \in transferred
          /\ \/ k >= milestoneThreshold
             \/ c # NONE /\ ~Expired(c) /\ k >= c.threshold

\* Where no counter moves on, or all is being replayed, there is nothing to back.
LEMMA NothingRecorded ==
  ASSUME RateType, NEW p \in Players, milestoneCounter'[p] \in {milestoneCounter[p], 0}
  PROVE  Backed(p)
<1>1. milestoneCounter[p] \in Nat /\ NextIndex(p) = milestoneCounter[p] + 1
  BY DEF RateType, NextIndex
<1>2. milestoneCounter'[p] # NextIndex(p)
  BY <1>1
<1> QED
  BY <1>2 DEF Backed

\* A milestone committed with attestors who are a quorum is backed.
LEMMA CommitBacks ==
  ASSUME RateType, NEW w \in Wallets, NEW p \in Players, NEW e, NEW d,
         NEW attestors \in Seq(Wallets), CommitApprovedMilestone(w, p, e, d, attestors),
         Unregistering, erasureCursor' = erasureCursor, IsActiveValidator(w),
         Distinct(attestors),
         \A x \in ToSetOf(attestors) : IsActiveValidator(x) \/ x \in transferred,
         Quorum(p, e, attestors), NEW q \in Players
  PROVE  Backed(q)
<1>1. now' = now /\ validator' = validator /\ revokedForCause' = revokedForCause
  BY DEF Unregistering, validatorVars, registry, revocations
<1> DEFINE n == NextIndex(p)
           record == [validator |-> w, evidence |-> e, description |-> d, approved_at |-> now]
<1>2. /\ n \in Indexes
      /\ milestone' = [milestone EXCEPT ![p][n] = record]
      /\ milestoneAttestors' = [milestoneAttestors EXCEPT ![p][n] = attestors]
  BY DEF CommitApprovedMilestone
<1>3. record.validator = w /\ record.evidence = e
  OBVIOUS
<1> HIDE DEF n, record
<1>4. milestone'[p][n] = record /\ milestoneAttestors'[p][n] = attestors
  BY <1>2 DEF RateType
<1>5. CASE q # p
  <2>1. milestoneCounter'[q] = milestoneCounter[q]
    BY <1>1, <1>5, CommitEffect
  <2> QED
    BY <2>1, NothingRecorded
<1>6. CASE q = p
  <2>1. NoRepeats(attestors)
    BY DistinctIsNoRepeats
  <2>3. ASSUME NEW i \in {n} PROVE GetMilestoneWithStatus(p, i).validator_status' = "Active"
    <3>1. milestone'[p][i].validator = w
      BY <1>3, <1>4
    <3>2. GetMilestoneWithStatus(p, i).validator_status' = "Active"
      BY <1>1, <3>1
         DEF GetMilestoneWithStatus, GetMilestone, GetValidatorStatus, IsActiveValidator,
             Registered
    <3> QED
      BY <3>2
  <2>4. \E i \in {n} : GetMilestoneWithStatus(p, i).validator_status' = "Active"
    BY <2>3
  <2>5. milestone'[p][n].evidence = e
    BY <1>3, <1>4
  <2> QED
    BY <1>4, <1>6, <2>1, <2>4, <2>5 DEF Backed, Quorum, n
<1> QED
  BY <1>5, <1>6

\* A list of one wallet.
LEMMA Alone ==
  ASSUME NEW w \in Wallets
  PROVE  /\ <<w>> \in Seq(Wallets) /\ Distinct(<<w>>) /\ ToSetOf(<<w>>) = {w}
         /\ Cardinality(ToSetOf(<<w>>)) = 1
<1>1. <<w>> \in Seq(Wallets) /\ Len(<<w>>) = 1 /\ <<w>>[1] = w
  OBVIOUS
<1>2. ToSetOf(<<w>>) = {w}
  BY <1>1 DEF ToSetOf
<1>3. Cardinality({w}) = 1
  BY FS_Singleton
<1>4. Distinct(<<w>>)
  BY <1>1 DEF Distinct
<1> QED
  BY <1>1, <1>2, <1>3, <1>4

\* approve_milestone and submit_attested_milestone: while one is enough.
LEMMA AloneIsBacked ==
  ASSUME RateType, ClaimInv, NEW w \in Wallets, NEW p \in Players, NEW e, NEW d,
         CommitApprovedMilestone(w, p, e, d, <<w>>), milestoneThreshold <= 1,
         Unregistering, erasureCursor' = erasureCursor, IsActiveValidator(w),
         NEW q \in Players
  PROVE  Backed(q)
<1>1. Quorum(p, e, <<w>>)
  BY Alone, RegistryBounds DEF Quorum, ClaimInv
<1> QED
  BY <1>1, Alone, CommitBacks

\* attest_milestone: the voters, and the threshold their round began with.
LEMMA VotersAreQuorum ==
  ASSUME RateType, RegistryInv, ClaimInv, AttestCommitStep, NEW q \in Players
  PROVE  Backed(q)
<1>1. PICK w \in Wallets, p \in Players, e \in Evidence, d \in Descriptions :
        AttestCommit(w, p, e, d) /\ Rest
  BY DEF AttestCommitStep
<1>2. PICK key \in ClaimKeys : key = <<p, e>>
  BY DEF ClaimKeys
<1>3. PICK c : c = ClaimFor(key, d)
  OBVIOUS
<1>4. PICK new : new = WithVote(c, w, d)
  OBVIOUS
<1>5. /\ MayAttest(w, key, c, d) /\ ReachesThreshold(new)
      /\ CommitApprovedMilestone(w, p, e, new.description, new.voters)
      /\ UNCHANGED validatorVars /\ erasureCursor' = erasureCursor
  <2>1. UNCHANGED validatorVars /\ erasureCursor' = erasureCursor
    BY <1>1 DEF AttestCommit, Rest
  <2> QED
    BY <1>1, <1>2, <1>3, <1>4, <2>1, Zenon DEF AttestCommit
<1>6. /\ c \in PendingMilestoneClaim /\ c.round \in Rounds
      /\ Matches(c, BookBefore(key), key)
      /\ ~Contains(c.voters, w)
      /\ c.vote_count > 0 => d = c.description
      /\ IsActiveValidator(w)
  BY <1>3, <1>5, VoteMeets
<1> DEFINE V == Active \cup transferred
           n == Cardinality(Enrolled)
           b == BookBefore(key)
<1>7. GoodBook(b, V, n) /\ n \in Nat
  BY BookFacts, BookBeforeIsGood
<1>8. /\ Distinct(c.voters) /\ c.vote_count = Len(c.voters)
      /\ \A x \in Wallets : Contains(c.voters, x) => x \in V
  <2>1. PICK book, known, size : book = b /\ known = V /\ size = n
    OBVIOUS
  <2>2. GoodBook(book, known, size) /\ size \in Nat /\ Matches(c, book, key)
    BY <1>6, <1>7, <2>1
  <2>3. Distinct(c.voters) /\ c.vote_count = Len(c.voters)
    BY <1>6, <2>2, MatchingVoters
  <2>4. \A x \in Wallets : Contains(c.voters, x) => x \in known
    BY <1>6, <2>2, MatchingVoters
  <2> QED
    BY <2>1, <2>3, <2>4
<1>9. OneMoreVote(new, c, w, d)
  BY <1>4, <1>6, <1>8, WithVoteClaim
<1>10. /\ new.voters \in Seq(Wallets) /\ Distinct(new.voters)
       /\ new.vote_count = Len(new.voters) /\ new.threshold = c.threshold
       /\ new.vote_count \in Nat /\ new.threshold \in Nat
       /\ \A x : Contains(new.voters, x) <=> Contains(c.voters, x) \/ x = w
  BY <1>9, ClaimFields DEF OneMoreVote
<1>11. ToSetOf(new.voters) = {x \in Wallets : Contains(new.voters, x)}
  BY <1>10, SetOfList
<1>12. \A x \in ToSetOf(new.voters) : IsActiveValidator(x) \/ x \in transferred
  BY <1>6, <1>8, <1>10, <1>11 DEF Active
<1>13. Cardinality(ToSetOf(new.voters)) = new.vote_count
  BY <1>10, <1>11, DistinctLength
<1>14. Cardinality(ToSetOf(new.voters)) >= c.threshold
  BY <1>5, <1>10, <1>13 DEF ReachesThreshold
<1>15. Quorum(p, e, new.voters)
  <2>1. CASE claim[key] # NONE /\ ~Expired(claim[key])
    <3>1. c = claim[key]
      BY <1>3, <2>1 DEF ClaimFor
    <3> QED
      BY <1>2, <1>14, <2>1, <3>1 DEF Quorum
  <2>2. CASE ~(claim[key] # NONE /\ ~Expired(claim[key]))
    <3>1. c.threshold = milestoneThreshold
      BY <1>3, <2>2 DEF ClaimFor, FreshClaim
    <3> QED
      BY <1>14, <3>1 DEF Quorum
  <2> QED
    BY <2>1, <2>2
<1> QED
  BY <1>5, <1>6, <1>10, <1>12, <1>15, CommitBacks DEF Unregistering

\* A step of any kind leaves every milestone it records backed.
LEMMA StepBacks ==
  ASSUME RateInv, RegistryInv, ClaimInv, [Next]_vars, NEW q \in Players
  PROVE  Backed(q)
<1>1. RateType
  BY DEF RateInv
<1>2. CASE ApproveStep
  <2>1. PICK w \in Wallets, p \in Players, e \in Evidence, d \in Descriptions :
          ApproveMilestone(w, p, e, d) /\ Rest
    BY <1>2 DEF ApproveStep
  <2>2. /\ CommitApprovedMilestone(w, p, e, d, <<w>>) /\ milestoneThreshold <= 1
        /\ IsActiveValidator(w) /\ Unregistering /\ erasureCursor' = erasureCursor
    BY <2>1 DEF ApproveMilestone, Rest, Unregistering
  <2> QED
    BY <1>1, <2>2, AloneIsBacked
<1>3. CASE SubmitStep
  <2>1. PICK a \in Attestations : SubmitAttestedMilestone(a) /\ Rest
    BY <1>3 DEF SubmitStep
  <2>2. a.wallet \in Wallets /\ a.player \in Players
    <3>1. a \in MilestoneAttestation
      BY AttestationAssumption
    <3> QED
      BY <3>1 DEF MilestoneAttestation
  <2>3. /\ milestoneThreshold <= 1 /\ IsActiveValidator(a.wallet)
        /\ CommitApprovedMilestone(a.wallet, a.player, a.evidence, a.description, <<a.wallet>>)
        /\ Unregistering /\ erasureCursor' = erasureCursor
    BY <2>1 DEF SubmitAttestedMilestone, Rest, Unregistering
  <2> QED
    BY <1>1, <2>2, <2>3, AloneIsBacked
<1>4. CASE AttestCommitStep
  BY <1>1, <1>4, VotersAreQuorum
<1>5. CASE SeedMilestoneStep
  <2>1. migrationWindow = "open"
    BY <1>5 DEF SeedMilestoneStep, AdminSeedMilestone, RequireMigrationActive
  <2> QED
    BY <2>1 DEF Backed
<1>6. CASE PurgeStep
  <2>1. PICK p \in Players : PurgePlayerData(p)
    BY <1>6 DEF PurgeStep
  <2>2. milestoneCounter'[q] \in {milestoneCounter[q], 0}
    BY <1>1, <2>1 DEF PurgePlayerData, RateType
  <2> QED
    BY <1>1, <2>2, NothingRecorded
<1>7. ASSUME milestoneCounter' = milestoneCounter PROVE Backed(q)
  BY <1>1, <1>7, NothingRecorded
<1>8. CASE ClockStep
  <2>1. milestoneCounter' = milestoneCounter
    BY <1>8 DEF ClockStep, attestationVars, milestones
  <2> QED
    BY <1>7, <2>1
<1>9. CASE UNCHANGED vars
  BY <1>7, <1>9 DEF vars, attestationVars, milestones
<1>10. ASSUME Unrated PROVE Backed(q)
  BY <1>7, <1>10 DEF Unrated
<1> QED
  BY <1>2, <1>3, <1>4, <1>5, <1>6, <1>8, <1>9, <1>10, RegistryLeavesRate, SettingsLeaveRate,
     DisputesLeaveRate DEF Next

\* Every milestone that is recorded while no replay is under way carries the attestations
\* it needs, by different validators that are active at that moment or gave their wallet
\* up in a transfer, whatever the rounds, thresholds and revocations before it.
THEOREM QuorumsBackMilestones == Spec => QuorumBacksMilestone
<1>1. RateInv /\ RegistryInv /\ ClaimInv /\ [Next]_vars => [\A p \in Players : Backed(p)]_vars
  BY StepBacks
<1>2. Spec => [][\A p \in Players : Backed(p)]_vars
  BY <1>1, RateAlways, ClaimsAlways, PTL DEF Spec
<1> QED
  BY <1>2 DEF QuorumBacksMilestone, Backed

----
(***************************************************************************)
(* Types of the other keys.                                                 *)
(***************************************************************************)
\* What the admin and the other contracts set; the threshold has a bound of its own.
SettingsType ==
  /\ migrationWindow \in {"closed", "open", "sealed"}
  /\ playerActive \subseteq Players
  /\ votingWindow \in VotingWindows \cup {DEFAULT_VOTING_WINDOW_SECS}
  /\ diversityConfig \in DiversityConfigs \cup {NONE}
  /\ wiring \in [Peers -> WiringLink]

Unset == UNCHANGED <<migrationWindow, playerActive, votingWindow, diversityConfig, wiring>>

\* The steps that are not about settings leave them alone.
LEMMA OthersLeaveSettings ==
  ASSUME \/ RegisterStep \/ RestoreStep \/ TransferStep \/ PauseStep \/ UnpauseStep \/ ClockStep
         \/ ApproveStep \/ AttestPendingStep \/ AttestCommitStep \/ PruneStep
         \/ RegisterKeyStep \/ SubmitStep \/ ThresholdStep \/ SeedMilestoneStep
  PROVE  Unset
<1>1. ASSUME RegisterStep \/ RestoreStep PROVE Unset
  BY <1>1 DEF RegisterStep, RestoreStep, attestationVars, settings, Unset
<1>2. ASSUME TransferStep PROVE Unset
  BY <1>2 DEF TransferStep, TransferMilestoneCount, settings, Unset
<1>3. ASSUME PauseStep \/ UnpauseStep \/ ClockStep PROVE Unset
  BY <1>3 DEF PauseStep, UnpauseStep, ClockStep, attestationVars, settings, Unset
<1>4. ASSUME ApproveStep \/ SubmitStep \/ SeedMilestoneStep PROVE Unset
  BY <1>4 DEF ApproveStep, ApproveMilestone, SubmitStep, SubmitAttestedMilestone,
              SeedMilestoneStep, AdminSeedMilestone, settings, Unset
<1>5. ASSUME AttestPendingStep \/ AttestCommitStep PROVE Unset
  <2>1. ASSUME AttestPendingStep PROVE Unset
    BY <2>1 DEF AttestPendingStep, AttestPending, settings, Unset
  <2>2. ASSUME AttestCommitStep PROVE Unset
    BY <2>2 DEF AttestCommitStep, AttestCommit, settings, Unset
  <2> QED
    BY <1>5, <2>1, <2>2
<1>6. ASSUME PruneStep PROVE Unset
  BY <1>6 DEF PruneStep, PruneExpiredClaim, settings, Unset
<1>7. ASSUME RegisterKeyStep \/ ThresholdStep PROVE Unset
  BY <1>7 DEF RegisterKeyStep, RegisterAttestationKey, ThresholdStep, SetMilestoneThreshold,
              settings, Unset
<1> QED
  BY <1>1, <1>2, <1>3, <1>4, <1>5, <1>6, <1>7

\* Nor do disputes, revocations and what follows them touch settings.
LEMMA DisputesLeaveSettings ==
  ASSUME \/ DisputeStep \/ ResolveStep \/ TallyStep \/ VoteStep \/ JuryStep \/ SeedDisputeStep
         \/ RevokeStep \/ BatchRevokeStep \/ ContinueStep \/ RereviewStep \/ PurgeStep
  PROVE  Unset
<1>1. ASSUME DisputeStep \/ JuryStep \/ SeedDisputeStep PROVE Unset
  BY <1>1 DEF DisputeStep, DisputeMilestone, JuryStep, SetJuryConfig, SeedDisputeStep,
              AdminSeedDispute, attestationVars, settings, Unset
<1>2. ASSUME ResolveStep \/ TallyStep PROVE Unset
  BY <1>2 DEF ResolveStep, ResolveDispute, TallyStep, TallyDispute, CloseDispute,
              attestationVars, settings, Unset
<1>3. ASSUME VoteStep PROVE Unset
  BY <1>3, Zenon DEF VoteStep, CastDisputeVote, attestationVars, settings, Unset
<1>4. ASSUME RevokeStep \/ BatchRevokeStep PROVE Unset
  BY <1>4 DEF RevokeStep, RevokeValidator, BatchRevokeStep, BatchRevokeValidators, Revoke,
              settings, Unset
<1>5. ASSUME ContinueStep \/ RereviewStep PROVE Unset
  BY <1>5 DEF ContinueStep, ContinueRevocationCascade, RereviewStep, RereviewMilestone,
              attestationVars, settings, Unset
<1>6. ASSUME PurgeStep PROVE Unset
  BY <1>6, Zenon DEF PurgeStep, PurgePlayerData, settings, Unset
<1> QED
  BY <1>1, <1>2, <1>3, <1>4, <1>5, <1>6

\* Settings hold values of their types.
LEMMA SettingsStep == SettingsType /\ [Next]_vars => SettingsType'
<1> SUFFICES ASSUME SettingsType, [Next]_vars PROVE SettingsType'
  OBVIOUS
<1>1. ASSUME Unset PROVE SettingsType'
  BY <1>1 DEF Unset, SettingsType
<1>2. ASSUME UNCHANGED vars PROVE Unset
  BY <1>2 DEF vars, attestationVars, settings, Unset
<1>3. ASSUME WindowStep PROVE SettingsType'
  BY <1>3 DEF WindowStep, SetVotingWindowSecs, SettingsType
<1>4. ASSUME DiversityStep PROVE SettingsType'
  BY <1>4 DEF DiversityStep, SetDiversityConfig, SettingsType
<1>5. ASSUME StatusStep PROVE SettingsType'
  <2>1. PICK p \in Players : PlayerStatusChange(p)
    BY <1>5, AttestationAssumption DEF StatusStep
  <2> QED
    BY <2>1 DEF PlayerStatusChange, SettingsType
<1>6. ASSUME OpenWindowStep \/ CloseWindowStep PROVE SettingsType'
  BY <1>6 DEF OpenWindowStep, OpenMigrationWindow, CloseWindowStep, CloseMigrationWindow,
              SettingsType
<1>7. ASSUME WiringStep PROVE SettingsType'
  <2>1. \A peer \in Peers : wiring[peer].epoch \in 0..MaxEpoch /\ wiring[peer].set \in BOOLEAN
    BY DEF SettingsType, WiringLink
  <2>2. PICK peer \in Peers, set \in BOOLEAN : WriteWiringLink(peer, set)
    BY <1>7, <2>1 DEF WiringStep, SetProgressContract, UpdateProgressContract, Peers,
                      SetRegistrationContract, UpdateRegistrationContract
  <2>3. MaxEpoch \in Nat
    BY AttestationAssumption
  <2>4. wiring[peer].epoch + 1 \in 0..MaxEpoch
    BY <2>1, <2>2, <2>3 DEF WriteWiringLink
  <2>5. wiring' = [wiring EXCEPT ![peer] = [epoch |-> wiring[peer].epoch + 1, set |-> set]]
    BY <2>2 DEF WriteWiringLink
  <2>6. [epoch |-> wiring[peer].epoch + 1, set |-> set] \in WiringLink
    BY <2>4 DEF WiringLink
  <2>7. wiring' \in [Peers -> WiringLink]
    BY <2>5, <2>6 DEF SettingsType
  <2> QED
    BY <2>2, <2>7 DEF WriteWiringLink, SettingsType
<1> QED
  BY <1>1, <1>2, <1>3, <1>4, <1>5, <1>6, <1>7, OthersLeaveSettings, DisputesLeaveSettings
     DEF Next

\* At first all is closed and wired, or left to be wired.
LEMMA SettingsInitially == Init => SettingsType
<1> SUFFICES ASSUME Init PROVE SettingsType
  OBVIOUS
<1>1. MaxEpoch \in Nat /\ MaxEpoch > 0
  BY AttestationAssumption
<1>2. PICK missing : wiring = [peer \in Peers |-> IF peer \in missing
                                                 THEN [epoch |-> 0, set |-> FALSE]
                                                 ELSE [epoch |-> 1, set |-> TRUE]]
  BY DEF Init, AttestationInit
<1>3. [epoch |-> 0, set |-> FALSE] \in WiringLink /\ [epoch |-> 1, set |-> TRUE] \in WiringLink
  BY <1>1 DEF WiringLink
<1>4. wiring \in [Peers -> WiringLink]
  BY <1>2, <1>3
<1> QED
  BY <1>4 DEF Init, AttestationInit, SettingsType

\* Settings keep their types throughout.
LEMMA SettingsAlways == Spec => []SettingsType
BY SettingsInitially, SettingsStep, PTL DEF Spec

----
\* What commits, replays, transfers and erases moves the milestones; all else
\* leaves them alone.
Unmarked == UNCHANGED milestones

\* The registry and its switches record nothing.
LEMMA RegistryLeavesMilestones ==
  ASSUME RegisterStep \/ RestoreStep \/ PauseStep \/ UnpauseStep \/ ClockStep
  PROVE  Unmarked
BY DEF RegisterStep, RestoreStep, PauseStep, UnpauseStep, ClockStep, attestationVars, Unmarked

\* Nor do settings, keys, and claims that stay pending or are pruned.
LEMMA SettingsLeaveMilestones ==
  ASSUME \/ AttestPendingStep \/ PruneStep \/ RegisterKeyStep
         \/ ThresholdStep \/ WindowStep \/ DiversityStep \/ WiringStep \/ StatusStep
         \/ OpenWindowStep \/ CloseWindowStep
  PROVE  Unmarked
<1>1. ASSUME AttestPendingStep PROVE Unmarked
  BY <1>1 DEF AttestPendingStep, AttestPending, Unmarked
<1>2. ASSUME PruneStep PROVE Unmarked
  BY <1>2 DEF PruneStep, PruneExpiredClaim, Unmarked
<1>3. ASSUME \/ RegisterKeyStep \/ ThresholdStep \/ WindowStep \/ DiversityStep
             \/ WiringStep \/ StatusStep \/ OpenWindowStep \/ CloseWindowStep
      PROVE  Unmarked
  BY <1>3
     DEF RegisterKeyStep, RegisterAttestationKey,
         ThresholdStep, WindowStep, DiversityStep, WiringStep, StatusStep, OpenWindowStep,
         CloseWindowStep, SetMilestoneThreshold, SetVotingWindowSecs, SetDiversityConfig,
         SetProgressContract, UpdateProgressContract, SetRegistrationContract,
         UpdateRegistrationContract, WriteWiringLink, PlayerStatusChange,
         OpenMigrationWindow, CloseMigrationWindow, Unmarked
<1> QED
  BY <1>1, <1>2, <1>3

\* Nor do disputes, revocations, sweeps and re-reviews.
LEMMA DisputesLeaveMilestones ==
  ASSUME \/ DisputeStep \/ ResolveStep \/ TallyStep \/ VoteStep \/ JuryStep \/ SeedDisputeStep
         \/ RevokeStep \/ BatchRevokeStep \/ ContinueStep \/ RereviewStep
  PROVE  Unmarked
<1>1. ASSUME DisputeStep \/ JuryStep \/ SeedDisputeStep PROVE Unmarked
  BY <1>1 DEF DisputeStep, DisputeMilestone, JuryStep, SetJuryConfig, SeedDisputeStep,
              AdminSeedDispute, attestationVars, Unmarked
<1>2. ASSUME ResolveStep \/ TallyStep PROVE Unmarked
  BY <1>2 DEF ResolveStep, ResolveDispute, TallyStep, TallyDispute, CloseDispute,
              attestationVars, Unmarked
<1>3. ASSUME VoteStep PROVE Unmarked
  BY <1>3, Zenon DEF VoteStep, CastDisputeVote, attestationVars, Unmarked
<1>4. ASSUME RevokeStep \/ BatchRevokeStep PROVE Unmarked
  BY <1>4 DEF RevokeStep, RevokeValidator, BatchRevokeStep, BatchRevokeValidators, Revoke,
              Unmarked
<1>5. ASSUME ContinueStep \/ RereviewStep PROVE Unmarked
  BY <1>5 DEF ContinueStep, ContinueRevocationCascade, RereviewStep, RereviewMilestone,
              attestationVars, Unmarked
<1> QED
  BY <1>1, <1>2, <1>3, <1>4, <1>5

\* The steps that write milestones and what is counted about them.
LEMMA MilestoneSteps ==
  ASSUME [Next]_vars
  PROVE  \/ ApproveStep \/ AttestCommitStep \/ SubmitStep \/ SeedMilestoneStep
         \/ TransferStep \/ PurgeStep \/ Unmarked
<1>1. ASSUME UNCHANGED vars PROVE Unmarked
  BY <1>1 DEF vars, attestationVars, Unmarked
<1> QED
  BY <1>1, RegistryLeavesMilestones, SettingsLeaveMilestones, DisputesLeaveMilestones DEF Next

\* The bounds of indexes and slots.
LEMMA MilestoneBounds ==
  /\ MaxMilestones \in Nat
  /\ MAX_GLOBAL_MILESTONE_INDEX \in Nat /\ MAX_GLOBAL_MILESTONE_INDEX > 0
  /\ NONE \notin Milestone /\ NONE \notin MilestoneRef
  /\ DiversityConfigs \subseteq DiversityConfig
  /\ MAX_LEVEL \in Nat
BY AttestationAssumption DEF MAX_LEVEL

----
\* The ring buffer's head stays below twice its capacity.
LEMMA PushTypes ==
  ASSUME TypeOKMilestones, NEW ref \in MilestoneRef, PushGlobalMilestone(ref)
  PROVE  /\ globalSlot' \in [0..(MAX_GLOBAL_MILESTONE_INDEX - 1) -> MilestoneRef \cup {NONE}]
         /\ writeHead' \in 0..(2 * MAX_GLOBAL_MILESTONE_INDEX - 1)
<1>1. PICK cap \in Nat : cap = MAX_GLOBAL_MILESTONE_INDEX /\ cap > 0
  BY MilestoneBounds
<1>2. PICK slot : slot = writeHead % cap
  OBVIOUS
<1>3. writeHead \in Nat /\ writeHead <= 2 * cap - 1
  BY <1>1 DEF TypeOKMilestones
<1>4. slot \in 0..(cap - 1) /\ (slot + 1) % cap \in 0..(cap - 1)
  BY <1>1, <1>2, <1>3
<1>5. /\ globalSlot' = [globalSlot EXCEPT ![slot] = ref]
      /\ writeHead' = IF writeHead >= cap - 1 THEN cap + ((slot + 1) % cap) ELSE writeHead + 1
  BY <1>1, <1>2, Zenon DEF PushGlobalMilestone
<1>6. writeHead' \in 0..(2 * cap - 1)
  BY <1>1, <1>3, <1>4, <1>5
<1>7. globalSlot' \in [0..(cap - 1) -> MilestoneRef \cup {NONE}]
  BY <1>1, <1>4, <1>5 DEF TypeOKMilestones
<1> QED
  BY <1>1, <1>6, <1>7

\* The tallies of a validator.
LEMMA TotalsTypes ==
  ASSUME TypeOKMilestones, NEW w \in Wallets, NEW p \in Players, BumpTotals(w, p)
  PROVE  /\ validatorMilestoneCount' \in [Wallets -> Nat] /\ totalMilestoneCount' \in Nat
         /\ validatorPlayers' \in [Wallets -> Seq(Players)]
<1>1. totalMilestoneCount' \in Nat
  BY DEF BumpTotals, BumpTotalMilestoneCount, ReadTotalMilestoneCount, TypeOKMilestones
<1>2. validatorMilestoneCount' \in [Wallets -> Nat]
  BY DEF BumpTotals, TypeOKMilestones
<1>3. Append(validatorPlayers[w], p) \in Seq(Players)
  BY DEF TypeOKMilestones
<1>4. validatorPlayers' \in [Wallets -> Seq(Players)]
  BY <1>3 DEF BumpTotals, TypeOKMilestones
<1> QED
  BY <1>1, <1>2, <1>4

\* An entry of the history.
RecordOf(ref, w, attestors, affiliation, config, wired) ==
  [ref |-> ref, validator |-> w, attestors |-> attestors, affiliation |-> affiliation,
   config |-> config, wired |-> wired]

\* The history with one more entry.
LEMMA RecordedTypes ==
  ASSUME TypeOKMilestones, NEW ref \in MilestoneRef, NEW w \in Wallets,
         NEW attestors \in Seq(Wallets), NEW affiliation \in Affiliations \cup {NONE},
         NEW config \in DiversityConfig \cup {NONE},
         NEW wired \in BOOLEAN,
         recorded' = Append(recorded, RecordOf(ref, w, attestors, affiliation, config, wired))
  PROVE  recorded' \in Seq([ref : MilestoneRef, validator : Wallets, attestors : Seq(Wallets),
                            affiliation : Affiliations \cup {NONE},
                            config : DiversityConfig \cup {NONE}, wired : BOOLEAN])
<1> DEFINE R == [ref : MilestoneRef, validator : Wallets, attestors : Seq(Wallets),
                 affiliation : Affiliations \cup {NONE},
                 config : DiversityConfig \cup {NONE}, wired : BOOLEAN]
<1>1. RecordOf(ref, w, attestors, affiliation, config, wired) \in R
  BY DEF RecordOf
<1>2. recorded \in Seq(R)
  BY DEF TypeOKMilestones
<1> HIDE DEF R
<1>3. recorded' \in Seq(R)
  BY <1>1, <1>2
<1> QED
  BY <1>3 DEF R

\* commit_approved_milestone writes values of the types of its keys.
LEMMA CommitTypes ==
  ASSUME TypeOKMilestones, SettingsType, TypeOKRegistry, NEW w \in Wallets, Registered(w),
         NEW p \in Players, NEW e \in Evidence, NEW d \in Descriptions,
         NEW attestors \in Seq(Wallets), CommitApprovedMilestone(w, p, e, d, attestors)
  PROVE  TypeOKMilestones'
<1>1. PICK n : n = NextIndex(p)
  OBVIOUS
<1>2. PICK ref : ref = <<p, n>>
  OBVIOUS
<1> DEFINE new == [validator |-> w, evidence |-> e, description |-> d, approved_at |-> now]
<1>3. /\ n \in Indexes
      /\ ChargeWindow(w, p)
      /\ milestone' = [milestone EXCEPT ![p][n] = new]
      /\ milestoneCounter' = [milestoneCounter EXCEPT ![p] = n]
      /\ milestoneAttestors' = [milestoneAttestors EXCEPT ![p][n] = attestors]
      /\ evidenceUsed' = [evidenceUsed EXCEPT ![e] = ref]
      /\ ListForAll(w, attestors, ref)
      /\ BumpTotals(w, p)
      /\ AdvanceLevel(w, p)
      /\ PushGlobalMilestone(ref)
      /\ recorded' = Append(recorded,
           RecordOf(ref, w, attestors, validator[w].affiliation,
                    GetDiversityConfig, Wired("progress")))
  BY <1>1, <1>2, Zenon DEF CommitApprovedMilestone, RecordOf
<1>4. ref \in MilestoneRef /\ n \in 0..MaxMilestones
  BY <1>2, <1>3, MilestoneBounds DEF MilestoneRef, Indexes
<1>5. now \in Nat
  BY RegistryBounds DEF TypeOKRegistry
<1>6. new \in Milestone
  BY <1>5 DEF Milestone
<1> HIDE DEF new
<1>7. milestone' \in [Players -> [Indexes -> Milestone \cup {NONE}]]
  BY <1>3, <1>6 DEF TypeOKMilestones
<1>8. milestoneCounter' \in [Players -> 0..MaxMilestones]
  BY <1>3, <1>4 DEF TypeOKMilestones
<1>9. milestoneAttestors' \in [Players -> [Indexes -> Seq(Wallets)]]
  BY <1>3 DEF TypeOKMilestones
<1>10. evidenceUsed' \in [Evidence -> MilestoneRef \cup {NONE}]
  BY <1>3, <1>4 DEF TypeOKMilestones
<1>11. validatorMilestones' \in [Wallets -> Seq(MilestoneRef)]
  <2>1. \A v \in Wallets : /\ validatorMilestones[v] \in Seq(MilestoneRef)
                           /\ Append(validatorMilestones[v], ref) \in Seq(MilestoneRef)
    BY <1>4 DEF TypeOKMilestones
  <2> QED
    BY <1>3, <2>1 DEF ListForAll
<1>12. playerCount' \in [Wallets -> [Players -> Nat]]
  <2>1. CountInWindow(w, p) + 1 \in Nat
    BY DEF CountInWindow, TypeOKMilestones
  <2> QED
    BY <1>3, <2>1 DEF ChargeWindow, TypeOKMilestones
<1>13. windowStart' \in [Wallets -> [Players -> Nat]]
  BY <1>3, <1>5 DEF ChargeWindow, TypeOKMilestones
<1>14. playerAffiliations' \in [Players -> SUBSET Affiliations]
  <2>1. validator[w].affiliation \in Affiliations
    BY RegisteredRecord DEF Validator
  <2>2. AffiliationsWith(w, p) \in SUBSET Affiliations
    BY <2>1 DEF AffiliationsWith, TypeOKMilestones
  <2> QED
    BY <1>3, <2>2 DEF AdvanceLevel, TypeOKMilestones
<1>15. playerLevel' \in [Players -> 0..MAX_LEVEL]
  <2>1. Least(playerLevel[p] + 1, MAX_LEVEL) \in 0..MAX_LEVEL
    BY MilestoneBounds DEF Least, TypeOKMilestones
  <2> QED
    BY <1>3, <2>1 DEF AdvanceLevel, TypeOKMilestones
<1>16. GetDiversityConfig \in DiversityConfig \cup {NONE} /\ Wired("progress") \in BOOLEAN
  BY MilestoneBounds DEF GetDiversityConfig, SettingsType, Wired
<1>18. PICK affiliation \in Affiliations \cup {NONE} : affiliation = validator[w].affiliation
  BY RegisteredRecord DEF Validator
<1>17. recorded' \in Seq([ref : MilestoneRef, validator : Wallets, attestors : Seq(Wallets),
                          affiliation : Affiliations \cup {NONE},
                          config : DiversityConfig \cup {NONE}, wired : BOOLEAN])
  BY <1>3, <1>4, <1>16, <1>18, RecordedTypes
<1> QED
  BY <1>3, <1>4, <1>7, <1>8, <1>9, <1>10, <1>11, <1>12, <1>13, <1>14, <1>15, <1>17,
     PushTypes, TotalsTypes DEF TypeOKMilestones

----
\* A milestone is committed by an active validator, for a list of validators it is
\* on, each of them active or a wallet that was given up.
Committing(w, p, e, d, attestors) ==
  /\ CommitApprovedMilestone(w, p, e, d, attestors)
  /\ IsActiveValidator(w) /\ Contains(attestors, w) /\ Distinct(attestors)
  /\ \A x : Contains(attestors, x) => IsActiveValidator(x) \/ x \in transferred
  /\ Unregistering /\ Rest

\* The three ways to a milestone are one kind of step.
LEMMA CommitSteps ==
  ASSUME RegistryInv, ClaimInv, ApproveStep \/ AttestCommitStep \/ SubmitStep
  PROVE  \E w \in Wallets, p \in Players, e \in Evidence, d \in Descriptions,
            attestors \in Seq(Wallets) : Committing(w, p, e, d, attestors)
<1>1. ASSUME NEW w \in Wallets, NEW p \in Players, NEW e \in Evidence, NEW d \in Descriptions,
             IsActiveValidator(w), CommitApprovedMilestone(w, p, e, d, <<w>>),
             Unregistering, Rest
      PROVE  <<w>> \in Seq(Wallets) /\ Committing(w, p, e, d, <<w>>)
  <2>1. /\ <<w>> \in Seq(Wallets) /\ Distinct(<<w>>)
        /\ \A x : Contains(<<w>>, x) <=> x = w
    BY Alone, SetOfList
  <2> QED
    BY <1>1, <2>1 DEF Committing
<1>2. CASE ApproveStep
  <2>1. PICK w \in Wallets, p \in Players, e \in Evidence, d \in Descriptions :
          ApproveMilestone(w, p, e, d) /\ Rest
    BY <1>2 DEF ApproveStep
  <2>2. /\ IsActiveValidator(w) /\ CommitApprovedMilestone(w, p, e, d, <<w>>)
        /\ Unregistering
    BY <2>1 DEF ApproveMilestone, Unregistering
  <2> QED
    BY <1>1, <2>1, <2>2
<1>3. CASE SubmitStep
  <2>1. PICK a \in Attestations : SubmitAttestedMilestone(a) /\ Rest
    BY <1>3 DEF SubmitStep
  <2>2. /\ a.wallet \in Wallets /\ a.player \in Players /\ a.evidence \in Evidence
        /\ a.description \in Descriptions
    BY AttestationAssumption DEF MilestoneAttestation
  <2>3. /\ IsActiveValidator(a.wallet)
        /\ CommitApprovedMilestone(a.wallet, a.player, a.evidence, a.description, <<a.wallet>>)
        /\ Unregistering
    BY <2>1 DEF SubmitAttestedMilestone, Unregistering
  <2> QED
    BY <1>1, <2>1, <2>2, <2>3
<1>4. CASE AttestCommitStep
  <2>1. PICK w \in Wallets, p \in Players, e \in Evidence, d \in Descriptions :
          AttestCommit(w, p, e, d) /\ Rest
    BY <1>4 DEF AttestCommitStep
  <2>2. PICK key \in ClaimKeys : key = <<p, e>>
    BY DEF ClaimKeys
  <2>3. PICK c : c = ClaimFor(key, d)
    OBVIOUS
  <2>4. PICK new : new = WithVote(c, w, d)
    OBVIOUS
  <2>5. /\ MayAttest(w, key, c, d)
        /\ CommitApprovedMilestone(w, p, e, new.description, new.voters)
    BY <2>1, <2>2, <2>3, <2>4, Zenon DEF AttestCommit
  <2>6. Unregistering
    BY <2>1 DEF AttestCommit, Unregistering
  <2>7. /\ c \in PendingMilestoneClaim /\ c.round \in Rounds
        /\ Matches(c, BookBefore(key), key)
        /\ ~Contains(c.voters, w)
        /\ c.vote_count > 0 => d = c.description
        /\ IsActiveValidator(w)
    BY <2>3, <2>5, VoteMeets
  <2> DEFINE V == Active \cup transferred
             n == Cardinality(Enrolled)
             b == BookBefore(key)
  <2>8. GoodBook(b, V, n) /\ n \in Nat
    BY BookFacts, BookBeforeIsGood
  <2>9. /\ Distinct(c.voters) /\ c.vote_count = Len(c.voters)
        /\ \A x \in Wallets : Contains(c.voters, x) => x \in V
    <3> HIDE DEF V, n, b
    <3> QED
      BY <2>7, <2>8, MatchingVoters DEF b
  <2>10. OneMoreVote(new, c, w, d)
    BY <2>4, <2>7, <2>9, WithVoteClaim
  <2>11. /\ new.voters \in Seq(Wallets) /\ Distinct(new.voters) /\ new.description = d
         /\ \A x : Contains(new.voters, x) <=> Contains(c.voters, x) \/ x = w
    BY <2>10, ClaimFields DEF OneMoreVote
  <2>12. \A x : Contains(new.voters, x) => x \in Wallets
    BY <2>11, SetOfList
  <2>13. \A x : Contains(new.voters, x) => IsActiveValidator(x) \/ x \in transferred
    BY <2>7, <2>9, <2>11, <2>12 DEF Active
  <2>14. Committing(w, p, e, d, new.voters)
    BY <2>1, <2>5, <2>6, <2>7, <2>11, <2>13 DEF Committing
  <2> QED
    BY <2>11, <2>14
<1> QED
  BY <1>2, <1>3, <1>4

----
\* admin_seed_milestone, a transfer and an erasure keep the types.
LEMMA SeedTypes ==
  ASSUME TypeOKMilestones, SettingsType, SeedMilestoneStep
  PROVE  TypeOKMilestones'
<1>1. PICK p \in Players, m \in SeedMilestones : AdminSeedMilestone(p, m)
  BY DEF SeedMilestoneStep
<1>2. m \in Milestone /\ m.validator \in Wallets /\ m.evidence \in Evidence
  BY <1>1, AttestationAssumption DEF Milestone
<1>3. PICK n : n = NextIndex(p)
  OBVIOUS
<1>4. PICK ref : ref = <<p, n>>
  OBVIOUS
<1>5. PICK w \in Wallets : w = m.validator
  BY <1>2
<1>6. /\ n \in Indexes
      /\ milestone' = [milestone EXCEPT ![p][n] = m]
      /\ milestoneCounter' = [milestoneCounter EXCEPT ![p] = n]
      /\ evidenceUsed' = [evidenceUsed EXCEPT ![m.evidence] = ref]
      /\ validatorMilestones' =
           IF ref \in ToSetOf(validatorMilestones[w]) THEN validatorMilestones
           ELSE [validatorMilestones EXCEPT ![w] = Append(@, ref)]
      /\ playerCount' = [playerCount EXCEPT ![w][p] = @ + 1]
      /\ BumpTotals(w, p)
      /\ PushGlobalMilestone(ref)
      /\ recorded' = Append(recorded, RecordOf(ref, w, << >>, NONE, NONE, Wired("progress")))
      /\ UNCHANGED <<milestoneAttestors, windowStart, standing>>
  BY <1>1, <1>3, <1>4, <1>5, Zenon DEF AdminSeedMilestone, RecordOf
<1>7. ref \in MilestoneRef /\ n \in 0..MaxMilestones
  BY <1>4, <1>6, MilestoneBounds DEF MilestoneRef, Indexes
<1>8. milestone' \in [Players -> [Indexes -> Milestone \cup {NONE}]]
  BY <1>2, <1>6 DEF TypeOKMilestones
<1>9. milestoneCounter' \in [Players -> 0..MaxMilestones]
  BY <1>6, <1>7 DEF TypeOKMilestones
<1>10. evidenceUsed' \in [Evidence -> MilestoneRef \cup {NONE}]
  BY <1>2, <1>6, <1>7 DEF TypeOKMilestones
<1>11. validatorMilestones' \in [Wallets -> Seq(MilestoneRef)]
  <2>1. Append(validatorMilestones[w], ref) \in Seq(MilestoneRef)
    BY <1>7 DEF TypeOKMilestones
  <2> QED
    BY <1>6, <2>1 DEF TypeOKMilestones
<1>12. playerCount' \in [Wallets -> [Players -> Nat]]
  BY <1>6 DEF TypeOKMilestones
<1>13. << >> \in Seq(Wallets) /\ Wired("progress") \in BOOLEAN
  BY DEF Wired
<1>14. recorded' \in Seq([ref : MilestoneRef, validator : Wallets, attestors : Seq(Wallets),
                          affiliation : Affiliations \cup {NONE},
                          config : DiversityConfig \cup {NONE}, wired : BOOLEAN])
  BY <1>6, <1>7, <1>13, RecordedTypes
<1>15. UNCHANGED <<milestoneAttestors, windowStart, playerAffiliations, playerLevel>>
  BY <1>6 DEF standing
<1> QED
  BY <1>6, <1>7, <1>8, <1>9, <1>10, <1>11, <1>12, <1>14, <1>15, PushTypes, TotalsTypes
     DEF TypeOKMilestones

\* A transfer moves lists and counts.
LEMMA TransferTypes ==
  ASSUME TypeOKMilestones, TransferStep
  PROVE  TypeOKMilestones'
<1>1. PICK v, w \in Wallets : TransferMilestoneCount(v, w)
  BY DEF TransferStep
<1>2. validatorMilestoneCount' \in [Wallets -> Nat]
  BY <1>1 DEF TransferMilestoneCount, TypeOKMilestones
<1>3. UNCHANGED <<milestone, milestoneCounter, milestoneAttestors, evidenceUsed,
                  validatorMilestones, playerCount, windowStart, globalSlot, writeHead,
                  validatorPlayers, totalMilestoneCount, playerAffiliations, playerLevel,
                  recorded>>
  BY <1>1 DEF TransferMilestoneCount, standing
<1> QED
  BY <1>2, <1>3 DEF TypeOKMilestones

\* What an erasure call does to the milestones of its player.
LEMMA PurgeEffect ==
  ASSUME NEW p \in Players, PurgePlayerData(p)
  PROVE  \E gone \in SUBSET MilestoneRef :
           /\ \A ref \in gone : ref[1] = p
           /\ milestone' = [milestone EXCEPT ![p] =
                [i \in Indexes |-> IF <<p, i>> \in gone THEN NONE ELSE milestone[p][i]]]
           /\ dispute' = [ref \in MilestoneRef |-> [round \in DisputeRounds |->
                IF ref \in gone /\ round \in ErasedRounds(ref) THEN NONE
                ELSE dispute[ref][round]]]
           /\ disputeRound' = [ref \in MilestoneRef |->
                IF ref \in gone THEN NONE ELSE disputeRound[ref]]
<1>1. PICK cursor : cursor = erasureCursor[p]
  OBVIOUS
<1>2. PICK total : total = milestoneCounter[p]
  OBVIOUS
<1>3. PICK end : end = Least(cursor + PURGE_PAGE_SIZE, total)
  OBVIOUS
<1>4. PICK gone : gone = Erased(p, cursor, end - 1)
  OBVIOUS
<1>5. /\ milestone' = [milestone EXCEPT ![p] =
           [i \in Indexes |-> IF <<p, i>> \in gone THEN NONE ELSE milestone[p][i]]]
      /\ dispute' = [ref \in MilestoneRef |-> [round \in DisputeRounds |->
           IF ref \in gone /\ round \in ErasedRounds(ref) THEN NONE
           ELSE dispute[ref][round]]]
      /\ disputeRound' = [ref \in MilestoneRef |->
           IF ref \in gone THEN NONE ELSE disputeRound[ref]]
  BY <1>1, <1>2, <1>3, <1>4, Zenon DEF PurgePlayerData
<1>6. gone \in SUBSET MilestoneRef /\ \A ref \in gone : ref[1] = p
  BY <1>4 DEF Erased, MilestoneRef
<1> QED
  BY <1>5, <1>6, Zenon

\* An erasure empties keys.
LEMMA PurgeTypes ==
  ASSUME TypeOKMilestones, PurgeStep
  PROVE  TypeOKMilestones'
<1>1. PICK p \in Players : PurgePlayerData(p)
  BY DEF PurgeStep
<1>2. PICK gone \in SUBSET MilestoneRef :
        milestone' = [milestone EXCEPT ![p] =
           [i \in Indexes |-> IF <<p, i>> \in gone THEN NONE ELSE milestone[p][i]]]
  BY <1>1, PurgeEffect
<1>3. milestone' \in [Players -> [Indexes -> Milestone \cup {NONE}]]
  BY <1>2 DEF TypeOKMilestones
<1>4. PICK done : milestoneCounter' = [milestoneCounter EXCEPT ![p] = IF done = 1 THEN @ ELSE 0]
  <2>1. PICK cursor : cursor = erasureCursor[p]
    OBVIOUS
  <2>2. PICK end : end = Least(cursor + PURGE_PAGE_SIZE, milestoneCounter[p])
    OBVIOUS
  <2>3. milestoneCounter' = [milestoneCounter EXCEPT ![p] =
          IF end < milestoneCounter[p] THEN @ ELSE 0]
    BY <1>1, <2>1, <2>2, Zenon DEF PurgePlayerData
  <2> QED
    BY <2>3
<1>5. milestoneCounter' \in [Players -> 0..MaxMilestones]
  BY <1>4, MilestoneBounds DEF TypeOKMilestones
<1>6. playerAffiliations' \in [Players -> SUBSET Affiliations]
  <2>1. playerAffiliations' =
          [playerAffiliations EXCEPT ![p] = IF erasureCursor[p] = 0 THEN {} ELSE @]
    BY <1>1, Zenon DEF PurgePlayerData
  <2> QED
    BY <2>1 DEF TypeOKMilestones
<1>7. UNCHANGED <<milestoneAttestors, evidenceUsed, validatorMilestones, playerCount, windowStart,
                  globalSlot, writeHead, validatorMilestoneCount, validatorPlayers,
                  totalMilestoneCount, playerLevel, recorded>>
  BY <1>1, Zenon DEF PurgePlayerData, tallies
<1> QED
  BY <1>3, <1>5, <1>6, <1>7 DEF TypeOKMilestones

\* Every key about milestones holds values of its type, after every step.
LEMMA MilestonesStep ==
  RegistryInv /\ ClaimInv /\ SettingsType /\ TypeOKMilestones /\ [Next]_vars
    => TypeOKMilestones'
<1> SUFFICES ASSUME RegistryInv, ClaimInv, SettingsType, TypeOKMilestones, [Next]_vars
             PROVE  TypeOKMilestones'
  OBVIOUS
<1>1. ASSUME Unmarked PROVE TypeOKMilestones'
  BY <1>1 DEF Unmarked, milestones, tallies, standing, TypeOKMilestones
<1>2. ASSUME ApproveStep \/ AttestCommitStep \/ SubmitStep PROVE TypeOKMilestones'
  <2>1. PICK w \in Wallets, p \in Players, e \in Evidence, d \in Descriptions,
             attestors \in Seq(Wallets) : Committing(w, p, e, d, attestors)
    BY <1>2, CommitSteps
  <2> QED
    BY <2>1, CommitTypes DEF Committing, RegistryInv, IsActiveValidator
<1> QED
  BY <1>1, <1>2, SeedTypes, TransferTypes, PurgeTypes, MilestoneSteps

\* Nothing is recorded at first.
LEMMA MilestonesInitially == Init => TypeOKMilestones
<1> SUFFICES ASSUME Init PROVE TypeOKMilestones
  OBVIOUS
<1>1. 0 \in 0..(2 * MAX_GLOBAL_MILESTONE_INDEX - 1) /\ 0 \in 0..MaxMilestones /\ 0 \in 0..MAX_LEVEL
  BY MilestoneBounds
<1> QED
  BY <1>1 DEF Init, AttestationInit, TypeOKMilestones

\* Milestones keep their types throughout, with the invariants they rest on.
LEMMA MilestonesAlways == Spec => [](RegistryInv /\ ClaimInv /\ SettingsType /\ TypeOKMilestones)
<1>1. Spec => [](SettingsType /\ RegistryInv /\ ClaimInv)
  BY SettingsAlways, ClaimsAlways, PTL
<1> QED
  BY <1>1, MilestonesInitially, MilestonesStep, PTL DEF Spec

----
\* Nothing about disputes changes.
Unfiled == UNCHANGED disputeVars

\* Disputes move by what files, closes and votes, by dismissals and by erasures.
LEMMA DisputeSteps ==
  ASSUME [Next]_vars
  PROVE  \/ DisputeStep \/ ResolveStep \/ TallyStep \/ VoteStep \/ JuryStep \/ SeedDisputeStep
         \/ RevokeStep \/ BatchRevokeStep \/ PurgeStep \/ Unfiled
<1>1. ASSUME UNCHANGED vars PROVE Unfiled
  BY <1>1 DEF vars, Unfiled
<1>2. ASSUME Rest PROVE Unfiled
  BY <1>2 DEF Rest, Unfiled
<1>3. ASSUME \/ RegisterStep \/ RestoreStep \/ TransferStep \/ PauseStep \/ UnpauseStep
             \/ ClockStep \/ ApproveStep \/ AttestPendingStep \/ AttestCommitStep \/ PruneStep
             \/ RegisterKeyStep \/ SubmitStep \/ ThresholdStep \/ WindowStep \/ DiversityStep
             \/ StatusStep \/ WiringStep \/ OpenWindowStep \/ CloseWindowStep
             \/ SeedMilestoneStep
      PROVE  Rest
  BY <1>3 DEF RegisterStep, RestoreStep, TransferStep, PauseStep, UnpauseStep,
       ClockStep, ApproveStep, AttestPendingStep, AttestCommitStep, PruneStep,
       RegisterKeyStep, SubmitStep, ThresholdStep, WindowStep, DiversityStep,
       StatusStep, WiringStep, OpenWindowStep, CloseWindowStep, SeedMilestoneStep
<1>4. ASSUME ContinueStep \/ RereviewStep PROVE Unfiled
  BY <1>4 DEF ContinueStep, ContinueRevocationCascade, RereviewStep, RereviewMilestone, Unfiled
<1> QED
  BY <1>1, <1>2, <1>3, <1>4 DEF Next

\* The bounds of rounds.
LEMMA DisputeBounds ==
  /\ MAX_DISPUTE_ROUNDS \in Nat /\ MAX_DISPUTE_ROUNDS > 0 /\ 0 \in DisputeRounds
  /\ NONE \notin MilestoneDispute /\ NONE \notin Nat /\ NONE \notin DisputeRounds
  /\ \A round \in DisputeRounds : round \in Nat
BY DisputeAssumption, RegistryBounds DEF DisputeRounds

\* The votes are finitely many, so that they can be counted.
DisputeType == TypeOKDisputes /\ IsFiniteSet(disputeVote)

\* A dispute's fields.
LEMMA DisputeFields ==
  ASSUME NEW d \in MilestoneDispute
  PROVE  /\ d.disputed_at \in Nat /\ d.resolved \in BOOLEAN /\ d.upheld \in BOOLEAN
         /\ d.resolved_at \in Nat /\ d.jury_required \in BOOLEAN /\ d.quorum \in Nat
         /\ d.voting_deadline \in Nat /\ d.votes_for \in Nat /\ d.votes_against \in Nat
         /\ d.approver_affiliation \in Affiliations /\ d # NONE
BY DisputeBounds DEF MilestoneDispute

\* The dispute get_dispute finds.
LEMMA LatestDispute ==
  ASSUME TypeOKDisputes, NEW ref \in MilestoneRef, Disputed(ref)
  PROVE  /\ disputeRound[ref] \in DisputeRounds
         /\ GetDispute(ref) = dispute[ref][disputeRound[ref]]
         /\ GetDispute(ref) \in MilestoneDispute
<1>1. disputeRound[ref] \in DisputeRounds
  BY DEF Disputed, HasDispute, TypeOKDisputes
<1> QED
  BY <1>1 DEF Disputed, GetDispute, TypeOKDisputes

\* The list of a player's disputed milestones, with one more.
LEMMA ListedDispute ==
  ASSUME TypeOKDisputes, NEW p \in Players, NEW i \in Indexes
  PROVE  PlayerDisputesWith(p, i) \in Seq(Indexes)
<1>1. playerDisputes[p] \in Seq(Indexes) \cup {NONE}
  BY DEF TypeOKDisputes
<1>2. CASE playerDisputes[p] = NONE
  BY <1>2 DEF PlayerDisputesWith
<1>3. CASE playerDisputes[p] # NONE
  BY <1>1, <1>3 DEF PlayerDisputesWith
<1> QED
  BY <1>2, <1>3

\* What is filed is a dispute.
LEMMA FiledType ==
  ASSUME TypeOKRegistry, TypeOKMilestones, TypeOKDisputes, NEW ref \in MilestoneRef,
         NEW impact \in Nat, MilestoneAt(ref) # NONE, Registered(MilestoneAt(ref).validator)
  PROVE  /\ Filed(ref, impact) \in MilestoneDispute
         /\ Filed(ref, impact).votes_for = 0 /\ Filed(ref, impact).votes_against = 0
         /\ ~Filed(ref, impact).resolved /\ ~Filed(ref, impact).upheld
<1>1. PICK w : w = MilestoneAt(ref).validator
  OBVIOUS
<1>2. ref[1] \in Players /\ ref[2] \in Indexes
  BY DEF MilestoneRef
<1>3. w \in Wallets
  BY <1>1, <1>2 DEF MilestoneAt, TypeOKMilestones, Milestone
<1>4. validator[w].affiliation \in Affiliations
  BY <1>1, <1>3, RegisteredRecord DEF Validator
<1>5. /\ juryConfig.impact_threshold \in Nat /\ juryConfig.quorum \in Nat
      /\ juryConfig.voting_window_secs \in Nat
  BY DisputeAssumption DEF TypeOKDisputes, JuryConfig
<1>6. now \in Nat
  BY RegistryBounds DEF TypeOKRegistry
<1>7. PICK jury \in BOOLEAN : jury = (impact >= juryConfig.impact_threshold)
  <2>1. (impact >= juryConfig.impact_threshold) \in BOOLEAN
    BY <1>5
  <2> QED
    BY <2>1, Zenon
<1>8. PICK deadline \in Nat :
        deadline = IF jury THEN now + juryConfig.voting_window_secs ELSE 0
  BY <1>5, <1>6
<1>9. Filed(ref, impact) =
        [disputed_at |-> now, resolved |-> FALSE, upheld |-> FALSE, resolved_at |-> 0,
         jury_required |-> jury, quorum |-> juryConfig.quorum, voting_deadline |-> deadline,
         votes_for |-> 0, votes_against |-> 0,
         approver_affiliation |-> validator[w].affiliation]
  BY <1>1, <1>7, <1>8, Zenon DEF Filed
<1> QED
  BY <1>4, <1>5, <1>6, <1>9 DEF MilestoneDispute

----
\* The next round is a round.
LEMMA NextRoundType ==
  ASSUME TypeOKDisputes, NEW ref \in MilestoneRef, MayReopen(ref)
  PROVE  NextRound(ref) \in DisputeRounds
<1>1. disputeRound[ref] \in DisputeRounds \cup {NONE}
  BY DEF TypeOKDisputes
<1> QED
  BY <1>1, DisputeBounds DEF MayReopen, NextRound, HasDispute, DisputeRounds

\* dispute_milestone.
LEMMA FilingTypes ==
  ASSUME TypeOKRegistry, TypeOKMilestones, DisputeType, DisputeStep
  PROVE  DisputeType'
<1>1. PICK p \in Players, i \in Indexes, impact \in Nat : DisputeMilestone(p, i, impact)
  BY DisputeAssumption DEF DisputeStep
<1>2. PICK ref \in MilestoneRef : ref = <<p, i>>
  BY DEF MilestoneRef
<1>3. PICK n : n = NextRound(ref)
  OBVIOUS
<1>4. PICK d : d = Filed(ref, impact)
  OBVIOUS
<1>5. /\ MilestoneAt(ref) # NONE /\ MayReopen(ref)
      /\ Registered(MilestoneAt(ref).validator)
      /\ dispute' = [dispute EXCEPT ![ref][n] = d]
      /\ disputeRound' = [disputeRound EXCEPT ![ref] = n]
      /\ playerDisputes' = [playerDisputes EXCEPT ![p] = PlayerDisputesWith(p, i)]
      /\ activeDisputesCount' = activeDisputesCount + 1
      /\ playerOpenDisputeCount' = [playerOpenDisputeCount EXCEPT ![p] = @ + 1]
      /\ openDisputeIndex' = Append(openDisputeIndex, [ref |-> ref, round |-> n])
      /\ UNCHANGED <<juryConfig, disputeVote, disputeVoteCount>>
  BY <1>1, <1>2, <1>3, <1>4, Zenon DEF DisputeMilestone, ballots
<1>6. n \in DisputeRounds /\ d \in MilestoneDispute
  BY <1>3, <1>4, <1>5, NextRoundType, FiledType DEF DisputeType
<1>7. dispute' \in [MilestoneRef -> [DisputeRounds -> MilestoneDispute \cup {NONE}]]
  BY <1>5, <1>6 DEF DisputeType, TypeOKDisputes
<1>8. disputeRound' \in [MilestoneRef -> DisputeRounds \cup {NONE}]
  BY <1>5, <1>6 DEF DisputeType, TypeOKDisputes
<1>9. playerDisputes' \in [Players -> Seq(Indexes) \cup {NONE}]
  BY <1>5, ListedDispute DEF DisputeType, TypeOKDisputes
<1>10. activeDisputesCount' \in Nat /\ playerOpenDisputeCount' \in [Players -> Nat]
  BY <1>5 DEF DisputeType, TypeOKDisputes
<1>11. [ref |-> ref, round |-> n] \in DisputeEntry
  BY <1>6 DEF DisputeEntry
<1>12. openDisputeIndex' \in Seq(DisputeEntry)
  BY <1>5, <1>11 DEF DisputeType, TypeOKDisputes
<1> QED
  BY <1>5, <1>7, <1>8, <1>9, <1>10, <1>12 DEF DisputeType, TypeOKDisputes

\* A verdict on a dispute.
ClosedDispute(d, upheld) == [d EXCEPT !.resolved = TRUE, !.upheld = upheld, !.resolved_at = now]

\* A closed dispute is a record of a dispute.
LEMMA ClosedDisputeType ==
  ASSUME NEW d \in MilestoneDispute, NEW upheld \in BOOLEAN, now \in Nat
  PROVE  /\ ClosedDispute(d, upheld) \in MilestoneDispute
         /\ ClosedDispute(d, upheld).votes_for = d.votes_for
         /\ ClosedDispute(d, upheld).votes_against = d.votes_against
         /\ ClosedDispute(d, upheld).jury_required = d.jury_required
         /\ ClosedDispute(d, upheld).quorum = d.quorum
         /\ ClosedDispute(d, upheld).resolved /\ ClosedDispute(d, upheld).upheld = upheld
BY DEF ClosedDispute, MilestoneDispute

\* The two ways to close a dispute.
LEMMA ClosingSteps ==
  ASSUME TypeOKDisputes, ResolveStep \/ TallyStep
  PROVE  \E ref \in MilestoneRef, upheld \in BOOLEAN :
           /\ Disputed(ref) /\ ~GetDispute(ref).resolved
           /\ GetDispute(ref).jury_required =>
                MayTally(GetDispute(ref)) /\ upheld = Verdict(GetDispute(ref))
           /\ CloseDispute(ref, upheld) /\ Undisputed
<1>1. CASE ResolveStep
  BY <1>1 DEF ResolveStep, ResolveDispute
<1>2. CASE TallyStep
  <2>1. PICK ref \in MilestoneRef : TallyDispute(ref) /\ Undisputed
    BY <1>2 DEF TallyStep
  <2>2. Verdict(GetDispute(ref)) \in BOOLEAN
    BY DEF Verdict
  <2>3. /\ Disputed(ref) /\ ~GetDispute(ref).resolved /\ MayTally(GetDispute(ref))
        /\ CloseDispute(ref, Verdict(GetDispute(ref)))
    BY <2>1 DEF TallyDispute
  <2> QED
    BY <2>1, <2>2, <2>3, Zenon
<1> QED
  BY <1>1, <1>2

\* What closing changes.
LEMMA ClosingEffect ==
  ASSUME TypeOKDisputes, NEW ref \in MilestoneRef, NEW upheld \in BOOLEAN,
         CloseDispute(ref, upheld)
  PROVE  \E round : /\ round = disputeRound[ref]
           /\ dispute' = [dispute EXCEPT ![ref][round] = ClosedDispute(@, upheld)]
           /\ CountClosed(ref[1])
           /\ openDisputeIndex' =
                Filter(openDisputeIndex, DisputeEntry \ {[ref |-> ref, round |-> round]})
           /\ UNCHANGED <<juryConfig, disputeRound, playerDisputes, disputeVote,
                          disputeVoteCount>>
<1>1. PICK round : round = disputeRound[ref]
  OBVIOUS
<1>2. /\ dispute' = [dispute EXCEPT ![ref][round] = ClosedDispute(@, upheld)]
      /\ CountClosed(ref[1])
      /\ openDisputeIndex' =
           Filter(openDisputeIndex, DisputeEntry \ {[ref |-> ref, round |-> round]})
      /\ UNCHANGED <<juryConfig, disputeRound, playerDisputes, disputeVote,
                     disputeVoteCount>>
  BY <1>1, Zenon DEF CloseDispute, ClosedDispute, ballots
<1> QED
  BY <1>1, <1>2, Zenon

\* A resolution or a tally closes a dispute.
LEMMA ClosingTypes ==
  ASSUME TypeOKRegistry, DisputeType, ResolveStep \/ TallyStep
  PROVE  DisputeType'
<1>1. PICK ref \in MilestoneRef, upheld \in BOOLEAN :
        Disputed(ref) /\ CloseDispute(ref, upheld)
  BY ClosingSteps DEF DisputeType
<1>2. PICK round : /\ round = disputeRound[ref]
           /\ dispute' = [dispute EXCEPT ![ref][round] = ClosedDispute(@, upheld)]
           /\ CountClosed(ref[1])
           /\ openDisputeIndex' =
                Filter(openDisputeIndex, DisputeEntry \ {[ref |-> ref, round |-> round]})
           /\ UNCHANGED <<juryConfig, disputeRound, playerDisputes, disputeVote,
                          disputeVoteCount>>
  BY <1>1, ClosingEffect DEF DisputeType
<1>3. round \in DisputeRounds /\ dispute[ref][round] \in MilestoneDispute
  BY <1>1, <1>2, LatestDispute DEF DisputeType
<1>4. now \in Nat
  BY RegistryBounds DEF TypeOKRegistry
<1>5. ClosedDispute(dispute[ref][round], upheld) \in MilestoneDispute
  BY <1>3, <1>4, ClosedDisputeType
<1>6. dispute' \in [MilestoneRef -> [DisputeRounds -> MilestoneDispute \cup {NONE}]]
  BY <1>2, <1>3, <1>5 DEF DisputeType, TypeOKDisputes
<1>7. activeDisputesCount' \in Nat /\ playerOpenDisputeCount' \in [Players -> Nat]
  <2>1. activeDisputesCount \in Nat /\ playerOpenDisputeCount \in [Players -> Nat]
    BY DEF DisputeType, TypeOKDisputes
  <2>2. ref[1] \in Players
    BY DEF MilestoneRef
  <2>3. PICK k \in Nat : k = IF playerOpenDisputeCount[ref[1]] > 0
                            THEN playerOpenDisputeCount[ref[1]] - 1 ELSE 0
    BY <2>1, <2>2
  <2>4. playerOpenDisputeCount' = [playerOpenDisputeCount EXCEPT ![ref[1]] = k]
    BY <1>2, <2>3, Zenon DEF CountClosed
  <2>5. activeDisputesCount' \in Nat
    BY <1>2, <2>1 DEF CountClosed
  <2> QED
    BY <2>1, <2>4, <2>5
<1>8. openDisputeIndex' \in Seq(DisputeEntry)
  BY <1>2, FilterType DEF DisputeType, TypeOKDisputes
<1> QED
  BY <1>2, <1>6, <1>7, <1>8 DEF DisputeType, TypeOKDisputes

----
\* A difference that does not go below 0.
Less(n, k) == IF k > n THEN 0 ELSE n - k

VoteOf(ref, round, w, so) == [ref |-> ref, round |-> round, wallet |-> w, for_upheld |-> so]

\* A juror's vote.
LEMMA VotingEffect ==
  ASSUME TypeOKDisputes, VoteStep
  PROVE  \E w \in Wallets, ref \in MilestoneRef, so \in BOOLEAN, round \in DisputeRounds,
            d \in MilestoneDispute :
           /\ round = disputeRound[ref] /\ d = dispute[ref][round] /\ ~d.resolved
           /\ Eligible(w, ref, d) /\ ~HasVoted(w, ref, round)
           /\ disputeVote' = disputeVote \cup {VoteOf(ref, round, w, so)}
           /\ dispute' = [dispute EXCEPT ![ref][round] = CountVote(d, so)]
           /\ disputeVoteCount' = [disputeVoteCount EXCEPT ![ref][round] = @ + 1]
           /\ UNCHANGED <<validatorVars, attestationVars, juryConfig, disputeRound, openness>>
           /\ Undisputed
<1>1. PICK w \in Wallets, ref \in MilestoneRef, so \in BOOLEAN :
        CastDisputeVote(w, ref, so) /\ Undisputed
  BY DEF VoteStep
<1>2. PICK round : round = disputeRound[ref]
  OBVIOUS
<1>3. PICK d : d = GetDispute(ref)
  OBVIOUS
<1>4. /\ Disputed(ref) /\ ~d.resolved /\ Eligible(w, ref, d) /\ ~HasVoted(w, ref, round)
      /\ disputeVote' = disputeVote \cup {VoteOf(ref, round, w, so)}
      /\ dispute' = [dispute EXCEPT ![ref][round] = CountVote(d, so)]
      /\ disputeVoteCount' = [disputeVoteCount EXCEPT ![ref][round] = @ + 1]
      /\ UNCHANGED <<validatorVars, attestationVars, juryConfig, disputeRound, openness>>
  BY <1>1, <1>2, <1>3, Zenon DEF CastDisputeVote, VoteOf
<1>5. round \in DisputeRounds /\ d = dispute[ref][round] /\ d \in MilestoneDispute
  BY <1>2, <1>3, <1>4, LatestDispute
<1> QED
  BY <1>1, <1>2, <1>4, <1>5, Zenon

\* A vote counted is a record of a dispute.
LEMMA CountVoteType ==
  ASSUME NEW d \in MilestoneDispute, NEW so \in BOOLEAN
  PROVE  /\ CountVote(d, so) \in MilestoneDispute
         /\ CountVote(d, so).votes_for = d.votes_for + (IF so THEN 1 ELSE 0)
         /\ CountVote(d, so).votes_against = d.votes_against + (IF so THEN 0 ELSE 1)
         /\ CountVote(d, so).resolved = d.resolved
         /\ CountVote(d, so).upheld = d.upheld
BY DEF CountVote, MilestoneDispute

\* A vote on a dispute.
LEMMA VotingTypes ==
  ASSUME DisputeType, VoteStep
  PROVE  DisputeType'
<1>1. PICK w \in Wallets, ref \in MilestoneRef, so \in BOOLEAN, round \in DisputeRounds,
           d \in MilestoneDispute :
           /\ disputeVote' = disputeVote \cup {VoteOf(ref, round, w, so)}
           /\ dispute' = [dispute EXCEPT ![ref][round] = CountVote(d, so)]
           /\ disputeVoteCount' = [disputeVoteCount EXCEPT ![ref][round] = @ + 1]
           /\ UNCHANGED <<juryConfig, disputeRound, openness>>
  BY VotingEffect DEF DisputeType
<1>2. VoteOf(ref, round, w, so) \in DisputeVote
  BY DEF VoteOf, DisputeVote
<1>3. disputeVote' \subseteq DisputeVote /\ IsFiniteSet(disputeVote')
  BY <1>1, <1>2, FS_AddElement DEF DisputeType, TypeOKDisputes
<1>4. CountVote(d, so) \in MilestoneDispute
  BY CountVoteType
<1>5. dispute' \in [MilestoneRef -> [DisputeRounds -> MilestoneDispute \cup {NONE}]]
  BY <1>1, <1>4 DEF DisputeType, TypeOKDisputes
<1>6. disputeVoteCount' \in [MilestoneRef -> [DisputeRounds -> Nat]]
  BY <1>1 DEF DisputeType, TypeOKDisputes
<1> QED
  BY <1>1, <1>3, <1>5, <1>6 DEF DisputeType, TypeOKDisputes, openness

----
\* What a dismissal takes out of one round.
RemovedFrom(ws, ref, round) == {v \in OpenVotesOf(ws) : v.ref = ref /\ v.round = round}

\* The round has a dispute that is open, as far as its record says.
Counted(ref, round) == dispute[ref][round] # NONE /\ ~dispute[ref][round].resolved

\* remove_dispute_votes_for_validator, for each round.
LEMMA RemovalEffect ==
  ASSUME NEW ws, RemoveDisputeVotes(ws)
  PROVE  /\ disputeVote' = disputeVote \ OpenVotesOf(ws)
         /\ dispute' = [ref \in MilestoneRef |-> [round \in DisputeRounds |->
              IF Counted(ref, round)
              THEN TallyWithout(dispute[ref][round], RemovedFrom(ws, ref, round))
              ELSE dispute[ref][round]]]
         /\ disputeVoteCount' = [ref \in MilestoneRef |-> [round \in DisputeRounds |->
              IF Counted(ref, round)
              THEN Less(disputeVoteCount[ref][round], Cardinality(RemovedFrom(ws, ref, round)))
              ELSE disputeVoteCount[ref][round]]]
BY Zenon DEF RemoveDisputeVotes, Counted, RemovedFrom, Less

\* A tally without some votes is a record of a dispute.
LEMMA TallyWithoutIs ==
  ASSUME NEW d \in MilestoneDispute, NEW removed, IsFiniteSet(removed), NEW t,
         t = TallyWithout(d, removed)
  PROVE  /\ t \in MilestoneDispute
         /\ t.votes_for = Less(d.votes_for, Cardinality({v \in removed : v.for_upheld = TRUE}))
         /\ t.votes_against =
              Less(d.votes_against, Cardinality({v \in removed : v.for_upheld = FALSE}))
         /\ t.resolved = d.resolved /\ t.upheld = d.upheld
         /\ t.jury_required = d.jury_required /\ t.quorum = d.quorum
<1>1. PICK a \in Nat : a = Cardinality({v \in removed : v.for_upheld = TRUE})
  BY FS_Subset, FS_CardinalityType
<1>2. PICK b \in Nat : b = Cardinality({v \in removed : v.for_upheld = FALSE})
  BY FS_Subset, FS_CardinalityType
<1>3. d.votes_for \in Nat /\ d.votes_against \in Nat
  BY DisputeFields
<1>4. t = [d EXCEPT !.votes_for = Less(d.votes_for, a), !.votes_against = Less(d.votes_against, b)]
  <2>1. t = [d EXCEPT !.votes_for = IF Cardinality({v \in removed : v.for_upheld = TRUE}) > @
                        THEN 0 ELSE @ - Cardinality({v \in removed : v.for_upheld = TRUE}),
                      !.votes_against = IF Cardinality({v \in removed : v.for_upheld = FALSE}) > @
                        THEN 0 ELSE @ - Cardinality({v \in removed : v.for_upheld = FALSE})]
    BY DEF TallyWithout
  <2> QED
    BY <1>1, <1>2, <2>1 DEF Less, MilestoneDispute
<1>5. Less(d.votes_for, a) \in Nat /\ Less(d.votes_against, b) \in Nat
  BY <1>3 DEF Less
<1>6. /\ t \in MilestoneDispute
      /\ t.votes_for = Less(d.votes_for, a) /\ t.votes_against = Less(d.votes_against, b)
      /\ t.resolved = d.resolved /\ t.upheld = d.upheld
      /\ t.jury_required = d.jury_required /\ t.quorum = d.quorum
  BY <1>4, <1>5 DEF MilestoneDispute
<1> QED
  BY <1>1, <1>2, <1>6

\* Votes taken out of open disputes.
LEMMA RemovalTypes ==
  ASSUME DisputeType, NEW ws, RemoveDisputeVotes(ws),
         UNCHANGED <<juryConfig, disputeRound, openness>>
  PROVE  DisputeType'
<1>1. OpenVotesOf(ws) \subseteq disputeVote
  BY DEF OpenVotesOf
<1>2. \A ref, round : IsFiniteSet(RemovedFrom(ws, ref, round))
                      /\ Cardinality(RemovedFrom(ws, ref, round)) \in Nat
  <2> TAKE ref, round
  <2>1. RemovedFrom(ws, ref, round) \subseteq disputeVote
    BY <1>1 DEF RemovedFrom
  <2> QED
    BY <2>1, FS_Subset, FS_CardinalityType DEF DisputeType
<1>3. disputeVote' \subseteq DisputeVote /\ IsFiniteSet(disputeVote')
  BY <1>1, RemovalEffect, FS_Subset DEF DisputeType, TypeOKDisputes
<1>4. \A ref \in MilestoneRef, round \in DisputeRounds :
        (IF Counted(ref, round)
         THEN TallyWithout(dispute[ref][round], RemovedFrom(ws, ref, round))
         ELSE dispute[ref][round]) \in MilestoneDispute \cup {NONE}
  <2> TAKE ref \in MilestoneRef, round \in DisputeRounds
  <2>1. dispute[ref][round] \in MilestoneDispute \cup {NONE}
    BY DEF DisputeType, TypeOKDisputes
  <2>2. CASE Counted(ref, round)
    <3>1. dispute[ref][round] \in MilestoneDispute
      BY <2>1, <2>2 DEF Counted
    <3>2. TallyWithout(dispute[ref][round], RemovedFrom(ws, ref, round)) \in MilestoneDispute
      BY <1>2, <3>1, TallyWithoutIs
    <3> QED
      BY <2>2, <3>2
  <2>3. CASE ~Counted(ref, round)
    BY <2>1, <2>3
  <2> QED
    BY <2>2, <2>3
<1>5. dispute' \in [MilestoneRef -> [DisputeRounds -> MilestoneDispute \cup {NONE}]]
  BY <1>4, RemovalEffect
<1>6. \A ref \in MilestoneRef, round \in DisputeRounds :
        /\ disputeVoteCount[ref][round] \in Nat
        /\ Less(disputeVoteCount[ref][round], Cardinality(RemovedFrom(ws, ref, round))) \in Nat
  BY <1>2 DEF Less, DisputeType, TypeOKDisputes
<1>7. disputeVoteCount' \in [MilestoneRef -> [DisputeRounds -> Nat]]
  BY <1>6, RemovalEffect
<1> QED
  BY <1>3, <1>5, <1>7 DEF DisputeType, TypeOKDisputes, openness

\* A revocation, of whatever severity and number.
LEMMA RevocationSteps ==
  ASSUME RevokeStep \/ BatchRevokeStep
  PROVE  \E ws \in Seq(Wallets), severity \in RevocationSeverity, deferred \in BOOLEAN :
           Revoke(ws, severity, deferred)
<1>1. Severities \subseteq RevocationSeverity /\ Suspects \subseteq Wallets
  BY ValidatorAssumption, VerificationAssumption
<1>2. CASE RevokeStep
  <2>1. PICK w \in Wallets, severity \in RevocationSeverity : Revoke(<<w>>, severity, FALSE)
    BY <1>1, <1>2 DEF RevokeStep, RevokeValidator
  <2>2. <<w>> \in Seq(Wallets)
    OBVIOUS
  <2> QED
    BY <2>1, <2>2, Zenon
<1>3. CASE BatchRevokeStep
  <2>1. PICK ws \in Batches(Suspects), severity \in RevocationSeverity :
          Revoke(ws, severity, TRUE)
    BY <1>1, <1>3 DEF BatchRevokeStep, BatchRevokeValidators
  <2>2. ws \in Seq(Wallets)
    BY <1>1, BatchIsList
  <2> QED
    BY <2>1, <2>2, Zenon
<1> QED
  BY <1>2, <1>3

\* A dismissal takes the votes of the dismissed out.
LEMMA DismissalTypes ==
  ASSUME DisputeType, RevokeStep \/ BatchRevokeStep
  PROVE  DisputeType'
<1>1. PICK ws \in Seq(Wallets), severity \in RevocationSeverity, deferred \in BOOLEAN :
        Revoke(ws, severity, deferred)
  BY RevocationSteps
<1>2. /\ DismissedVotesGo(ToSetOf(ws), severity)
      /\ UNCHANGED <<juryConfig, disputeRound, openness>>
  BY <1>1 DEF Revoke
<1>3. CASE severity = ForCause
  BY <1>2, <1>3, RemovalTypes DEF DismissedVotesGo
<1>4. CASE severity # ForCause
  BY <1>2, <1>4 DEF DismissedVotesGo, ballots, openness, DisputeType, TypeOKDisputes
<1> QED
  BY <1>3, <1>4

----
\* admin_seed_dispute of a record with this ref and round.
ReplayedDispute(ref, round, d, opens) ==
  /\ [ref |-> ref, round |-> round, d |-> d] \in SeedDisputes
  /\ opens = (~d.resolved /\ [ref |-> ref, round |-> round] \notin ToSetOf(openDisputeIndex))
  /\ dispute[ref][round] = NONE
  /\ \A r \in DisputeRounds : dispute[ref][r] # NONE =>
       [ref |-> ref, round |-> r, d |-> dispute[ref][r]] \in SeedDisputes
  /\ dispute' = [dispute EXCEPT ![ref][round] = d]
  /\ disputeRound' =
       IF HasDispute(ref) /\ round < disputeRound[ref] THEN disputeRound
       ELSE [disputeRound EXCEPT ![ref] = round]
  /\ playerDisputes' =
       [playerDisputes EXCEPT ![ref[1]] = PlayerDisputesWith(ref[1], ref[2])]
  /\ openDisputeIndex' =
       IF opens THEN Append(openDisputeIndex, [ref |-> ref, round |-> round])
       ELSE openDisputeIndex
  /\ activeDisputesCount' = activeDisputesCount + (IF opens THEN 1 ELSE 0)
  /\ playerOpenDisputeCount' =
       [playerOpenDisputeCount EXCEPT ![ref[1]] = @ + (IF opens THEN 1 ELSE 0)]
  /\ UNCHANGED <<validatorVars, attestationVars, juryConfig, disputeVote, disputeVoteCount>>
  /\ Undisputed

\* What a replay of a dispute writes.
LEMMA SeedDisputeEffect ==
  ASSUME SeedDisputeStep
  PROVE  \E ref \in MilestoneRef, round \in DisputeRounds, d \in MilestoneDispute,
            opens \in BOOLEAN : ReplayedDispute(ref, round, d, opens)
<1>1. PICK s \in SeedDisputes : AdminSeedDispute(s.ref, s.round, s.d) /\ Undisputed
  BY DEF SeedDisputeStep
<1>2. s \in [ref : MilestoneRef, round : DisputeRounds, d : MilestoneDispute]
  BY DisputeAssumption
<1>3. PICK ref \in MilestoneRef, round \in DisputeRounds, d \in MilestoneDispute :
        ref = s.ref /\ round = s.round /\ d = s.d /\ s = [ref |-> ref, round |-> round, d |-> d]
  BY <1>2
<1>4. AdminSeedDispute(ref, round, d) /\ [ref |-> ref, round |-> round, d |-> d] \in SeedDisputes
  BY <1>1, <1>3
<1>5. PICK opens \in BOOLEAN :
        opens = (~d.resolved /\ [ref |-> ref, round |-> round] \notin ToSetOf(openDisputeIndex))
  <2>1. d.resolved \in BOOLEAN
    BY DisputeFields
  <2>2. (~d.resolved /\ [ref |-> ref, round |-> round] \notin ToSetOf(openDisputeIndex))
          \in BOOLEAN
    BY <2>1, Zenon
  <2> QED
    BY <2>2, Zenon
<1>6. /\ dispute[ref][round] = NONE
      /\ \A r \in DisputeRounds : dispute[ref][r] # NONE =>
           [ref |-> ref, round |-> r, d |-> dispute[ref][r]] \in SeedDisputes
      /\ dispute' = [dispute EXCEPT ![ref][round] = d]
      /\ disputeRound' =
           IF HasDispute(ref) /\ round < disputeRound[ref] THEN disputeRound
           ELSE [disputeRound EXCEPT ![ref] = round]
      /\ playerDisputes' =
           [playerDisputes EXCEPT ![ref[1]] = PlayerDisputesWith(ref[1], ref[2])]
      /\ openDisputeIndex' =
           IF opens THEN Append(openDisputeIndex, [ref |-> ref, round |-> round])
           ELSE openDisputeIndex
      /\ activeDisputesCount' = activeDisputesCount + (IF opens THEN 1 ELSE 0)
      /\ playerOpenDisputeCount' =
           [playerOpenDisputeCount EXCEPT ![ref[1]] = @ + (IF opens THEN 1 ELSE 0)]
      /\ UNCHANGED <<validatorVars, attestationVars, juryConfig, disputeVote, disputeVoteCount>>
  BY <1>4, <1>5, Zenon DEF AdminSeedDispute, ballots
<1>7. ReplayedDispute(ref, round, d, opens)
  BY <1>1, <1>4, <1>5, <1>6, Zenon DEF ReplayedDispute
<1> QED
  BY <1>7

\* A replayed dispute.
LEMMA SeedDisputeTypes ==
  ASSUME DisputeType, SeedDisputeStep
  PROVE  DisputeType'
<1>1. PICK ref \in MilestoneRef, round \in DisputeRounds, d \in MilestoneDispute,
           opens \in BOOLEAN : ReplayedDispute(ref, round, d, opens)
  BY SeedDisputeEffect
<1>2. ref[1] \in Players /\ ref[2] \in Indexes
  BY DEF MilestoneRef
<1>3. dispute' \in [MilestoneRef -> [DisputeRounds -> MilestoneDispute \cup {NONE}]]
  BY <1>1 DEF ReplayedDispute, DisputeType, TypeOKDisputes
<1>4. disputeRound' \in [MilestoneRef -> DisputeRounds \cup {NONE}]
  BY <1>1 DEF ReplayedDispute, DisputeType, TypeOKDisputes
<1>5. playerDisputes' \in [Players -> Seq(Indexes) \cup {NONE}]
  BY <1>1, <1>2, ListedDispute DEF ReplayedDispute, DisputeType, TypeOKDisputes
<1>6. activeDisputesCount' \in Nat /\ playerOpenDisputeCount' \in [Players -> Nat]
  <2>1. activeDisputesCount \in Nat /\ playerOpenDisputeCount \in [Players -> Nat]
    BY DEF DisputeType, TypeOKDisputes
  <2>2. PICK one \in Nat : one = IF opens THEN 1 ELSE 0
    OBVIOUS
  <2>3. /\ activeDisputesCount' = activeDisputesCount + one
        /\ playerOpenDisputeCount' = [playerOpenDisputeCount EXCEPT ![ref[1]] = @ + one]
    BY <1>1, <2>2, Zenon DEF ReplayedDispute
  <2> QED
    BY <1>2, <2>1, <2>3
<1>7. [ref |-> ref, round |-> round] \in DisputeEntry
  BY DEF DisputeEntry
<1>8. openDisputeIndex' \in Seq(DisputeEntry)
  BY <1>1, <1>7 DEF ReplayedDispute, DisputeType, TypeOKDisputes
<1> QED
  BY <1>1, <1>3, <1>4, <1>5, <1>6, <1>8 DEF ReplayedDispute, DisputeType, TypeOKDisputes

\* An erasure of a player's disputes.
LEMMA ErasureTypes ==
  ASSUME DisputeType, PurgeStep
  PROVE  DisputeType'
<1>1. PICK p \in Players : PurgePlayerData(p)
  BY DEF PurgeStep
<1>2. PICK gone \in SUBSET MilestoneRef :
           /\ dispute' = [ref \in MilestoneRef |-> [round \in DisputeRounds |->
                IF ref \in gone /\ round \in ErasedRounds(ref) THEN NONE
                ELSE dispute[ref][round]]]
           /\ disputeRound' = [ref \in MilestoneRef |->
                IF ref \in gone THEN NONE ELSE disputeRound[ref]]
  BY <1>1, PurgeEffect
<1>3. dispute' \in [MilestoneRef -> [DisputeRounds -> MilestoneDispute \cup {NONE}]]
  BY <1>2 DEF DisputeType, TypeOKDisputes
<1>4. disputeRound' \in [MilestoneRef -> DisputeRounds \cup {NONE}]
  BY <1>2 DEF DisputeType, TypeOKDisputes
<1>5. playerDisputes' \in [Players -> Seq(Indexes) \cup {NONE}]
  <2>1. playerDisputes' = [playerDisputes EXCEPT ![p] = IF erasureCursor[p] = 0 THEN NONE ELSE @]
    BY <1>1, Zenon DEF PurgePlayerData
  <2> QED
    BY <2>1 DEF DisputeType, TypeOKDisputes
<1>6. UNCHANGED <<juryConfig, activeDisputesCount, playerOpenDisputeCount, openDisputeIndex,
                  ballots>>
  BY <1>1, Zenon DEF PurgePlayerData
<1> QED
  BY <1>3, <1>4, <1>5, <1>6 DEF DisputeType, TypeOKDisputes, ballots

\* Every key about disputes holds values of its type, after every step.
LEMMA DisputesStep ==
  TypeOKRegistry /\ TypeOKMilestones /\ DisputeType /\ [Next]_vars => DisputeType'
<1> SUFFICES ASSUME TypeOKRegistry, TypeOKMilestones, DisputeType, [Next]_vars
             PROVE  DisputeType'
  OBVIOUS
<1>1. ASSUME Unfiled PROVE DisputeType'
  BY <1>1 DEF Unfiled, disputeVars, rounds, openness, ballots, DisputeType, TypeOKDisputes
<1>2. ASSUME JuryStep PROVE DisputeType'
  BY <1>2 DEF JuryStep, SetJuryConfig, rounds, openness, ballots, DisputeType, TypeOKDisputes
<1> QED
  BY <1>1, <1>2, DisputeSteps, FilingTypes, ClosingTypes, VotingTypes, SeedDisputeTypes,
     DismissalTypes, ErasureTypes

\* There is no dispute at first.
LEMMA DisputesInitially == Init => DisputeType
BY FS_EmptySet DEF Init, DisputeInit, DisputeType, TypeOKDisputes

\* Disputes keep their types throughout.
LEMMA DisputesAlways == Spec => []DisputeType
<1>1. Spec => [](TypeOKRegistry /\ TypeOKMilestones)
  <2>1. RegistryInv => TypeOKRegistry
    BY DEF RegistryInv
  <2> QED
    BY <2>1, MilestonesAlways, PTL
<1> QED
  BY <1>1, DisputesInitially, DisputesStep, PTL DEF Spec

----
\* Nothing about cascades and flags changes.
Unswept == UNCHANGED flags

\* Flags move by revocations, sweeps and re-reviews.
LEMMA FlagSteps ==
  ASSUME [Next]_vars
  PROVE  RevokeStep \/ BatchRevokeStep \/ ContinueStep \/ RereviewStep \/ Unswept
<1>1. ASSUME UNCHANGED vars PROVE Unswept
  BY <1>1 DEF vars, Unswept
<1>2. ASSUME Rest \/ Undisputed PROVE Unswept
  BY <1>2 DEF Rest, Undisputed, Unswept
<1>3. ASSUME \/ RegisterStep \/ RestoreStep \/ TransferStep \/ PauseStep \/ UnpauseStep
             \/ ClockStep \/ ApproveStep \/ AttestPendingStep \/ AttestCommitStep \/ PruneStep
             \/ RegisterKeyStep \/ SubmitStep \/ ThresholdStep \/ WindowStep \/ DiversityStep
             \/ StatusStep \/ WiringStep \/ OpenWindowStep \/ CloseWindowStep
             \/ SeedMilestoneStep
      PROVE  Rest
  BY <1>3 DEF RegisterStep, RestoreStep, TransferStep, PauseStep, UnpauseStep,
       ClockStep, ApproveStep, AttestPendingStep, AttestCommitStep, PruneStep,
       RegisterKeyStep, SubmitStep, ThresholdStep, WindowStep, DiversityStep,
       StatusStep, WiringStep, OpenWindowStep, CloseWindowStep, SeedMilestoneStep
<1>4. ASSUME \/ DisputeStep \/ ResolveStep \/ TallyStep \/ VoteStep \/ JuryStep
             \/ SeedDisputeStep
      PROVE  Undisputed
  BY <1>4 DEF DisputeStep, ResolveStep, TallyStep, VoteStep, JuryStep, SeedDisputeStep
<1>5. ASSUME PurgeStep PROVE Unswept
  BY <1>5, Zenon DEF PurgeStep, PurgePlayerData, Unswept
<1> QED
  BY <1>1, <1>2, <1>3, <1>4, <1>5 DEF Next

\* Sizes are numbers.
LEMMA FlagBounds ==
  /\ CASCADE_LIMIT \in Nat /\ CASCADE_LIMIT > 0
  /\ MILESTONE_FLAG_PAGE_SIZE \in Nat /\ MILESTONE_FLAG_PAGE_SIZE > 0
  /\ MaxPages \in Nat /\ MaxPages > 0
BY VerificationAssumption

\* The flag types, without the cursor of erasures.
FlagType ==
  /\ cascadeCursor \in [Wallets -> Nat \cup {NONE}]
  /\ flagPage \in [Wallets -> [PageIndexes -> Seq(MilestoneRef)]]
  /\ flagCount \in [Wallets -> Nat]
  /\ swept \in [Wallets -> SUBSET MilestoneRef]
  /\ cleared \in [Wallets -> SUBSET MilestoneRef]
  /\ pageHistory \in [Wallets -> SUBSET {"paged", "reviewed"}]

----
\* A slice of a wallet's milestones from where a sweep takes up; the sweep stops at its
\* end, or is done.
LEMMA SliceIs ==
  ASSUME TypeOKMilestones, NEW w \in Wallets, NEW start \in Nat
  PROVE  /\ Slice(w, start) \in Seq(MilestoneRef)
         /\ start <= Len(validatorMilestones[w]) =>
              /\ start + Len(Slice(w, start)) <= Len(validatorMilestones[w])
              /\ \A i \in 1..Len(Slice(w, start)) :
                   Slice(w, start)[i] = validatorMilestones[w][start + i]
         /\ StopsAt(w, start) =
              IF start + Len(Slice(w, start)) >= Len(validatorMilestones[w]) THEN NONE
              ELSE start + Len(Slice(w, start))
<1>1. PICK list : list = validatorMilestones[w]
  OBVIOUS
<1>2. PICK n \in Nat : n = Len(list)
  BY <1>1 DEF TypeOKMilestones
<1>3. PICK stop : stop = Least(start + CASCADE_LIMIT, n)
  OBVIOUS
<1>4. stop \in Nat /\ stop <= n
  BY <1>2, <1>3, FlagBounds DEF Least
<1>5. PICK s : s = Slice(w, start)
  OBVIOUS
<1>6. s = SubSeq(list, start + 1, stop)
  BY <1>1, <1>2, <1>3, <1>5, Zenon DEF Slice
<1>7. list \in Seq(MilestoneRef)
  BY <1>1 DEF TypeOKMilestones
<1>8. /\ s \in Seq(MilestoneRef)
      /\ Len(s) = IF start + 1 <= stop THEN stop - start ELSE 0
      /\ \A i \in 1..(stop - start) : s[i] = list[start + i]
  <2>1. \A i \in (start + 1)..stop : list[i] \in MilestoneRef
    BY <1>2, <1>4, <1>7
  <2>2. /\ s \in Seq(MilestoneRef)
        /\ Len(s) = IF start + 1 <= stop THEN stop - (start + 1) + 1 ELSE 0
        /\ \A i \in 1..(stop - (start + 1) + 1) : s[i] = list[(start + 1) + i - 1]
    BY <1>4, <1>6, <2>1, SubSeqProperties
  <2>3. stop - (start + 1) + 1 = stop - start
    BY <1>4
  <2>4. \A i \in 1..(stop - start) : s[i] = list[start + i]
    <3> TAKE i \in 1..(stop - start)
    <3>1. (start + 1) + i - 1 = start + i
      BY <1>4
    <3> QED
      BY <2>2, <2>3, <3>1
  <2> QED
    BY <2>2, <2>3, <2>4
<1>9. start <= n => /\ start + Len(s) <= n
                    /\ \A i \in 1..Len(s) : s[i] = list[start + i]
  BY <1>2, <1>4, <1>8
<1>10. StopsAt(w, start) = IF start + Len(s) >= n THEN NONE ELSE start + Len(s)
  BY <1>1, <1>2, <1>5, Zenon DEF StopsAt
<1> QED
  BY <1>1, <1>2, <1>5, <1>8, <1>9, <1>10

\* A sweep stops at a place or is done.
LEMMA StopsAtType ==
  ASSUME TypeOKMilestones, NEW w \in Wallets, NEW start \in Nat
  PROVE  StopsAt(w, start) \in Nat \cup {NONE}
<1>1. Len(Slice(w, start)) \in Nat
  BY SliceIs
<1> QED
  BY <1>1, SliceIs

\* The flags of a wallet, with where the next goes.
FlagBook == [pages : [PageIndexes -> Seq(MilestoneRef)], count : Nat, at : Nat]

\* A book is its three parts.
LEMMA FlagBookIs ==
  ASSUME NEW pages \in [PageIndexes -> Seq(MilestoneRef)], NEW count \in Nat, NEW at \in Nat
  PROVE  [pages |-> pages, count |-> count, at |-> at] \in FlagBook
BY DEF FlagBook

\* One more flag keeps the book in order.
LEMMA PutFlagType ==
  ASSUME NEW book \in FlagBook, NEW ref \in MilestoneRef
  PROVE  PutFlag(book, ref) \in FlagBook
<1>1. book.pages \in [PageIndexes -> Seq(MilestoneRef)] /\ book.count \in Nat /\ book.at \in Nat
  BY DEF FlagBook
<1>2. <<ref>> \in Seq(MilestoneRef)
  OBVIOUS
<1>3. \A page, new : (page \in PageIndexes => new \in Seq(MilestoneRef)) =>
        [book.pages EXCEPT ![page] = new] \in [PageIndexes -> Seq(MilestoneRef)]
  BY <1>1
<1>4. PICK pages, count, at : /\ pages = book.pages /\ count = book.count /\ at = book.at
                              /\ book = [pages |-> pages, count |-> count, at |-> at]
  BY DEF FlagBook
<1>5. PICK full \in BOOLEAN : full <=> ~(Len(pages[at]) < MILESTONE_FLAG_PAGE_SIZE)
  OBVIOUS
<1>6. CASE ~full
  <2>1. PutFlag(book, ref) =
          [book EXCEPT !.pages[at] = Append(@, ref), !.count = @ + 1]
    BY <1>4, <1>5, <1>6, Zenon DEF PutFlag
  <2>2. PutFlag(book, ref) = [pages |-> [pages EXCEPT ![at] = Append(pages[at], ref)],
                              count |-> count + 1, at |-> at]
    BY <1>4, <2>1
  <2>3. at \in PageIndexes => Append(pages[at], ref) \in Seq(MilestoneRef)
    BY <1>1, <1>4
  <2>4. [pages EXCEPT ![at] = Append(pages[at], ref)] \in [PageIndexes -> Seq(MilestoneRef)]
    BY <1>3, <1>4, <2>3
  <2>5. count + 1 \in Nat /\ at \in Nat
    BY <1>1, <1>4
  <2> QED
    BY <2>2, <2>4, <2>5, FlagBookIs
<1>7. CASE full
  <2>1. PutFlag(book, ref) =
          [book EXCEPT !.pages[at + 1] = <<ref>>, !.count = @ + 1, !.at = @ + 1]
    BY <1>4, <1>5, <1>7, Zenon DEF PutFlag
  <2>2. PutFlag(book, ref) = [pages |-> [pages EXCEPT ![at + 1] = <<ref>>],
                              count |-> count + 1, at |-> at + 1]
    BY <1>4, <2>1
  <2>3. [pages EXCEPT ![at + 1] = <<ref>>] \in [PageIndexes -> Seq(MilestoneRef)]
    BY <1>2, <1>3, <1>4
  <2>4. count + 1 \in Nat /\ at + 1 \in Nat
    BY <1>1, <1>4
  <2> QED
    BY <2>2, <2>3, <2>4, FlagBookIs
<1> QED
  BY <1>6, <1>7

\* Division by a page's length.
LEMMA Division ==
  ASSUME NEW N \in Nat \ {0}, NEW k \in Nat
  PROVE  \E q \in Nat, r \in 0..(N - 1) : q = k \div N /\ k = N * q + r
OBVIOUS

\* A sweep puts its flags one after the other.
LEMMA SweptIteration ==
  ASSUME TypeOKMilestones, FlagType, NEW w \in Wallets, NEW start \in Nat
  PROVE  /\ ToFlag(w, start) \in Seq(MilestoneRef)
         /\ \E f \in [0..Len(ToFlag(w, start)) -> FlagBook] :
              /\ f[0] = [pages |-> flagPage[w], count |-> flagCount[w],
                         at |-> flagCount[w] \div MILESTONE_FLAG_PAGE_SIZE]
              /\ \A i \in 1..Len(ToFlag(w, start)) :
                   f[i] = PutFlag(f[i - 1], ToFlag(w, start)[i])
              /\ Swept(w, start) = f[Len(ToFlag(w, start))]
<1>1. ToFlag(w, start) \in Seq(MilestoneRef)
  BY SliceIs, FilterType DEF ToFlag
<1>2. PICK refs \in Seq(MilestoneRef) : refs = ToFlag(w, start)
  BY <1>1
<1>3. PICK k \in Nat : k = Len(refs)
  OBVIOUS
<1>4. PICK first : first = [pages |-> flagPage[w], count |-> flagCount[w],
                            at |-> flagCount[w] \div MILESTONE_FLAG_PAGE_SIZE]
  OBVIOUS
<1>5. first \in FlagBook
  <2>1. flagCount[w] \in Nat /\ flagPage[w] \in [PageIndexes -> Seq(MilestoneRef)]
    BY DEF FlagType
  <2>2. flagCount[w] \div MILESTONE_FLAG_PAGE_SIZE \in Nat
    <3>1. PICK size, n : size = MILESTONE_FLAG_PAGE_SIZE /\ n = flagCount[w]
      OBVIOUS
    <3>2. size \in Nat \ {0} /\ n \in Nat
      BY <2>1, <3>1, FlagBounds
    <3>3. n \div size \in Nat
      BY <3>2, Division
    <3> QED
      BY <3>1, <3>3, Zenon
  <2> QED
    BY <1>4, <2>1, <2>2 DEF FlagBook
<1> DEFINE Step(f) == [i \in 0..k |-> IF i = 0 THEN first ELSE PutFlag(f[i - 1], refs[i])]
           G == [i \in 1..k |-> [b \in FlagBook |-> PutFlag(b, refs[i])]]
<1>6. G \in [1..k -> [FlagBook -> FlagBook]]
  BY <1>3, PutFlagType
<1>7. \A i \in 1..k, b \in FlagBook : G[i][b] = PutFlag(b, refs[i])
  OBVIOUS
<1> HIDE DEF G
<1>8. PICK g \in [0..k -> FlagBook] : Iterates(g, k, first, G)
  BY <1>5, <1>6, IterationExists
<1>9. g = Step(g)
  <2>1. g[0] = first /\ \A i \in 1..k : g[i] = PutFlag(g[i - 1], refs[i])
    BY <1>7, <1>8 DEF Iterates
  <2> QED
    BY <2>1
<1> DEFINE book == CHOOSE f : f = Step(f)
<1>10. book = Step(book)
  <2> HIDE DEF Step
  <2> QED
    BY <1>9, Zenon
<1>11. Swept(w, start) = book[k]
  BY <1>2, <1>3, <1>4, Zenon DEF Swept
<1> HIDE DEF book
<1>12. /\ book[0] = first /\ \A i \in 1..k : book[i] = PutFlag(book[i - 1], refs[i])
       /\ DOMAIN book = 0..k
  <2>1. book[0] = first
    BY <1>10
  <2>2. \A i \in 1..k : book[i] = PutFlag(book[i - 1], refs[i])
    BY <1>10
  <2>3. DOMAIN book = 0..k
    BY <1>10
  <2> QED
    BY <2>1, <2>2, <2>3
<1>13. book \in [0..k -> FlagBook]
  <2> DEFINE Good == {i \in Nat : i <= k => book[i] \in FlagBook}
  <2>1. 0 \in Good
    BY <1>5, <1>12
  <2>2. ASSUME NEW i \in Nat, i \in Good PROVE i + 1 \in Good
    <3> SUFFICES ASSUME i + 1 <= k PROVE book[i + 1] \in FlagBook
      OBVIOUS
    <3>1. book[i] \in FlagBook
      BY <2>2
    <3>2. book[i + 1] = PutFlag(book[i], refs[i + 1]) /\ refs[i + 1] \in MilestoneRef
      BY <1>3, <1>12
    <3> QED
      BY <3>1, <3>2, PutFlagType
  <2>3. Nat \subseteq Good
    <3> HIDE DEF Good
    <3> QED
      BY <2>1, <2>2, InductionOnSet
  <2>4. \A i \in 0..k : book[i] \in FlagBook
    BY <2>3
  <2>5. book = [i \in 0..k |-> book[i]]
    BY <1>10
  <2> QED
    BY <2>4, <2>5, Zenon
<1> QED
  BY <1>1, <1>2, <1>3, <1>4, <1>11, <1>12, <1>13, Zenon

\* A sweep leaves a book.
LEMMA SweptType ==
  ASSUME TypeOKMilestones, FlagType, NEW w \in Wallets, NEW start \in Nat
  PROVE  Swept(w, start) \in FlagBook
<1>1. PICK refs \in Seq(MilestoneRef) : refs = ToFlag(w, start)
  BY SweptIteration
<1>2. PICK f \in [0..Len(refs) -> FlagBook] : Swept(w, start) = f[Len(refs)]
  BY <1>1, SweptIteration
<1> QED
  BY <1>1, <1>2

----
\* Sweeps keep the types.
LEMMA SweepTypes ==
  ASSUME FlagType, TypeOKMilestones,
         NEW some, some \subseteq Wallets, NEW start \in [some -> Nat],
         NEW ws, ws \subseteq some, NEW marked, NEW dismissed,
         RunSweeps(ws, start, marked), RecordSweeps(ws, start, dismissed)
  PROVE  FlagType'
<1>1. ASSUME NEW w \in ws
      PROVE  /\ Swept(w, start[w]).pages \in [PageIndexes -> Seq(MilestoneRef)]
             /\ Swept(w, start[w]).count \in Nat
             /\ StopsAt(w, start[w]) \in Nat \cup {NONE}
             /\ ToSetOf(Slice(w, start[w])) \subseteq MilestoneRef
  <2>1. w \in Wallets /\ start[w] \in Nat
    OBVIOUS
  <2>2. PICK book \in FlagBook : book = Swept(w, start[w])
    BY <2>1, SweptType
  <2>3. book.pages \in [PageIndexes -> Seq(MilestoneRef)] /\ book.count \in Nat
    BY DEF FlagBook
  <2>4. StopsAt(w, start[w]) \in Nat \cup {NONE}
    BY <2>1, StopsAtType
  <2>5. PICK slice \in Seq(MilestoneRef) : slice = Slice(w, start[w])
    BY <2>1, SliceIs
  <2>6. ToSetOf(slice) \subseteq MilestoneRef
    BY DEF ToSetOf
  <2> QED
    BY <2>2, <2>3, <2>4, <2>5, <2>6
<1>2. flagPage' \in [Wallets -> [PageIndexes -> Seq(MilestoneRef)]]
  <2>1. flagPage' = [w \in Wallets |-> IF w \in ws THEN Swept(w, start[w]).pages ELSE flagPage[w]]
    BY Zenon DEF RunSweeps
  <2>2. flagPage \in [Wallets -> [PageIndexes -> Seq(MilestoneRef)]]
    BY DEF FlagType
  <2>3. \A w \in Wallets : (IF w \in ws THEN Swept(w, start[w]).pages ELSE flagPage[w])
                             \in [PageIndexes -> Seq(MilestoneRef)]
    BY <1>1, <2>2
  <2> QED
    BY <2>1, <2>3, Zenon
<1>3. flagCount' \in [Wallets -> Nat]
  <2>1. flagCount' = [w \in Wallets |-> IF w \in ws THEN Swept(w, start[w]).count
                                        ELSE flagCount[w]]
    BY Zenon DEF RunSweeps
  <2>2. flagCount \in [Wallets -> Nat]
    BY DEF FlagType
  <2>3. \A w \in Wallets : (IF w \in ws THEN Swept(w, start[w]).count ELSE flagCount[w]) \in Nat
    BY <1>1, <2>2
  <2> QED
    BY <2>1, <2>3, Zenon
<1>4. cascadeCursor' \in [Wallets -> Nat \cup {NONE}]
  <2>1. cascadeCursor' = [w \in Wallets |-> IF w \in ws THEN StopsAt(w, start[w])
                                            ELSE IF w \in marked THEN 0 ELSE cascadeCursor[w]]
    BY Zenon DEF RunSweeps
  <2>2. cascadeCursor \in [Wallets -> Nat \cup {NONE}]
    BY DEF FlagType
  <2>3. \A w \in Wallets : (IF w \in ws THEN StopsAt(w, start[w])
                            ELSE IF w \in marked THEN 0 ELSE cascadeCursor[w]) \in Nat \cup {NONE}
    BY <1>1, <2>2
  <2> QED
    BY <2>1, <2>3, Zenon
<1>5. swept' \in [Wallets -> SUBSET MilestoneRef]
  <2>1. swept' = [w \in Wallets |-> (IF w \in dismissed THEN {} ELSE swept[w])
                   \cup (IF w \in ws THEN ToSetOf(Slice(w, start[w])) ELSE {})]
    BY Zenon DEF RecordSweeps
  <2>2. swept \in [Wallets -> SUBSET MilestoneRef]
    BY DEF FlagType
  <2>3. \A w \in Wallets : ((IF w \in dismissed THEN {} ELSE swept[w])
                   \cup (IF w \in ws THEN ToSetOf(Slice(w, start[w])) ELSE {}))
                     \in SUBSET MilestoneRef
    BY <1>1, <2>2
  <2> QED
    BY <2>1, <2>3, Zenon
<1>6. cleared' \in [Wallets -> SUBSET MilestoneRef]
  <2>1. cleared' = [w \in Wallets |->
          IF w \in dismissed THEN {}
          ELSE IF w \in ws THEN cleared[w] \ ToSetOf(Slice(w, start[w])) ELSE cleared[w]]
    BY Zenon DEF RecordSweeps
  <2>2. cleared \in [Wallets -> SUBSET MilestoneRef]
    BY DEF FlagType
  <2>3. \A w \in Wallets : (IF w \in dismissed THEN {}
          ELSE IF w \in ws THEN cleared[w] \ ToSetOf(Slice(w, start[w])) ELSE cleared[w])
            \in SUBSET MilestoneRef
    BY <2>2
  <2> QED
    BY <2>1, <2>3, Zenon
<1>7. pageHistory' \in [Wallets -> SUBSET {"paged", "reviewed"}]
  <2>1. pageHistory' = [w \in Wallets |->
          IF flagCount'[w] > MILESTONE_FLAG_PAGE_SIZE THEN pageHistory[w] \cup {"paged"}
          ELSE pageHistory[w]]
    BY Zenon DEF RecordSweeps
  <2>2. pageHistory \in [Wallets -> SUBSET {"paged", "reviewed"}]
    BY DEF FlagType
  <2>3. \A w \in Wallets :
          /\ pageHistory[w] \cup {"paged"} \in SUBSET {"paged", "reviewed"}
          /\ pageHistory[w] \in SUBSET {"paged", "reviewed"}
    BY <2>2
  <2> QED
    BY <2>1, <2>3
<1> QED
  BY <1>2, <1>3, <1>4, <1>5, <1>6, <1>7 DEF FlagType

\* Where a sweep takes up is a place in a list.
LEMMA TakeUpType ==
  ASSUME FlagType, NEW w \in Wallets
  PROVE  TakeUp(w) \in Nat
BY DEF TakeUp, FlagType

\* What a revocation sweeps, and from where.
LEMMA CascadeSweeps ==
  ASSUME FlagType, NEW ws, ws \subseteq Wallets, NEW severity, NEW deferred,
         Cascade(ws, severity, deferred)
  PROVE  \E start \in [ws -> Nat], sub \in SUBSET ws : \E marked, dismissed :
           RunSweeps(sub, start, marked) /\ RecordSweeps(sub, start, dismissed)
<1>1. PICK fresh : fresh = {w \in ws : validator[w].active}
  OBVIOUS
<1>2. PICK sub : sub = (IF severity # ForCause THEN {}
                        ELSE IF deferred THEN ws \ fresh ELSE ws)
  OBVIOUS
<1>3. PICK marked : marked = (IF severity = ForCause /\ deferred THEN fresh ELSE {})
  OBVIOUS
<1>4. PICK start : start = [w \in ws |-> IF w \in fresh THEN 0 ELSE TakeUp(w)]
  OBVIOUS
<1>5. PICK dismissed : dismissed = (IF severity = ForCause THEN {w \in ws : start[w] = 0} ELSE {})
  OBVIOUS
<1>6. RunSweeps(sub, start, marked) /\ RecordSweeps(sub, start, dismissed)
  BY <1>1, <1>2, <1>3, <1>4, <1>5, Zenon DEF Cascade
<1>7. sub \subseteq ws
  BY <1>2
<1>8. start \in [ws -> Nat]
  BY <1>4, TakeUpType
<1> QED
  BY <1>6, <1>7, <1>8, Zenon

\* Revocations keep the types of flags.
LEMMA CascadeTypes ==
  ASSUME FlagType, TypeOKMilestones, RevokeStep \/ BatchRevokeStep
  PROVE  FlagType'
<1>1. PICK list \in Seq(Wallets), severity \in RevocationSeverity, deferred \in BOOLEAN :
        Revoke(list, severity, deferred)
  BY RevocationSteps
<1>2. PICK ws : ws = ToSetOf(list)
  OBVIOUS
<1>3. ws \subseteq Wallets
  BY <1>2 DEF ToSetOf
<1>4. Cascade(ws, severity, deferred)
  BY <1>1, <1>2, Zenon DEF Revoke
<1>5. PICK start \in [ws -> Nat], sub \in SUBSET ws : \E marked, dismissed :
        RunSweeps(sub, start, marked) /\ RecordSweeps(sub, start, dismissed)
  BY <1>3, <1>4, CascadeSweeps
<1>6. PICK marked, dismissed :
        RunSweeps(sub, start, marked) /\ RecordSweeps(sub, start, dismissed)
  BY <1>5
<1> QED
  BY <1>3, <1>6, SweepTypes

\* So does a sweep that takes up where the last one stopped.
LEMMA ContinuationTypes ==
  ASSUME FlagType, TypeOKMilestones, ContinueStep
  PROVE  FlagType'
<1>1. PICK w \in Wallets : ContinueRevocationCascade(w)
  BY DEF ContinueStep
<1>2. PICK start : start = [v \in {w} |-> TakeUp(v)]
  OBVIOUS
<1>3. start \in [{w} -> Nat]
  BY <1>2, TakeUpType
<1>4. RunSweeps({w}, start, {}) /\ RecordSweeps({w}, start, {})
  BY <1>1, <1>2, Zenon DEF ContinueRevocationCascade
<1>5. {w} \subseteq Wallets
  OBVIOUS
<1> QED
  BY <1>3, <1>4, <1>5, SweepTypes

\* A re-review takes a flag off a page.
LEMMA RereviewTypes ==
  ASSUME FlagType, RereviewStep
  PROVE  FlagType'
<1>1. PICK v \in Wallets, ref \in MilestoneRef : RereviewMilestone(v, ref)
  BY DEF RereviewStep
<1>2. PICK w : w = FirstHolder(ref)
  OBVIOUS
<1>3. PICK page : page = FirstPage(w, ref)
  OBVIOUS
<1>4. /\ flagPage' = [flagPage EXCEPT ![w][page] = Filter(@, MilestoneRef \ {ref})]
      /\ flagCount' = CountLess(w)
      /\ cleared' = [cleared EXCEPT ![w] = @ \cup ({ref} \cap swept[w])]
      /\ pageHistory' = [pageHistory EXCEPT ![w] = @ \cup {"reviewed"}]
      /\ UNCHANGED <<cascadeCursor, swept>>
  BY <1>1, <1>2, <1>3, Zenon DEF RereviewMilestone
<1>5. flagPage' \in [Wallets -> [PageIndexes -> Seq(MilestoneRef)]]
  <2>1. PICK rest : rest = Filter(flagPage[w][page], MilestoneRef \ {ref})
    OBVIOUS
  <2>2. flagPage' = [flagPage EXCEPT ![w] = [flagPage[w] EXCEPT ![page] = rest]]
    BY <1>4, <2>1
  <2>3. flagPage \in [Wallets -> [PageIndexes -> Seq(MilestoneRef)]]
    BY DEF FlagType
  <2>4. ASSUME w \in Wallets
        PROVE  [flagPage[w] EXCEPT ![page] = rest] \in [PageIndexes -> Seq(MilestoneRef)]
    <3>1. page \in PageIndexes => rest \in Seq(MilestoneRef)
      BY <2>1, <2>3, <2>4, FilterType
    <3> QED
      BY <2>3, <2>4, <3>1
  <2> QED
    BY <2>2, <2>3, <2>4
<1>6. flagCount' \in [Wallets -> Nat]
  <2>1. PICK n : n = IF flagCount[w] > 0 THEN flagCount[w] - 1 ELSE 0
    OBVIOUS
  <2>2. flagCount' = [flagCount EXCEPT ![w] = n]
    BY <1>4, <2>1, Zenon DEF CountLess
  <2>3. w \in Wallets => n \in Nat
    BY <2>1 DEF FlagType
  <2> QED
    BY <2>2, <2>3 DEF FlagType
<1>7. cleared' \in [Wallets -> SUBSET MilestoneRef]
  BY <1>4 DEF FlagType
<1>8. pageHistory' \in [Wallets -> SUBSET {"paged", "reviewed"}]
  BY <1>4 DEF FlagType
<1> QED
  BY <1>4, <1>5, <1>6, <1>7, <1>8 DEF FlagType

\* Flags, cursors and what the cascades have visited hold values of their types.
LEMMA FlagsAlways == Spec => []FlagType
<1>1. Init => FlagType
  BY DEF Init, FlagType
<1>2. FlagType /\ TypeOKMilestones /\ [Next]_vars => FlagType'
  <2> SUFFICES ASSUME FlagType, TypeOKMilestones, [Next]_vars PROVE FlagType'
    OBVIOUS
  <2>1. ASSUME Unswept PROVE FlagType'
    BY <2>1 DEF Unswept, flags, FlagType
  <2> QED
    BY <2>1, FlagSteps, CascadeTypes, ContinuationTypes, RereviewTypes
<1> QED
  BY <1>1, <1>2, MilestonesAlways, PTL DEF Spec

----
(***************************************************************************)
(* Every key holds a value of its type.                                     *)
(***************************************************************************)
\* What the parts' invariants say of types, put together.
LEMMA TypesTogether ==
  ASSUME RegistryInv, ClaimInv, SettingsType, TypeOKMilestones, DisputeType, FlagType,
         KeysAreOneToOne, NonceInv, RateInv
  PROVE  TypeOK
<1>1. TypeOKRegistry
  BY DEF RegistryInv
<1>2. TypeOKClaims
  <2>1. /\ claim \in [ClaimKeys -> PendingMilestoneClaim \cup {NONE}]
        /\ voteCast \subseteq PendingMilestoneVote
        /\ pendingVotes \in [Wallets -> SUBSET PendingVoteRef]
        /\ milestoneThreshold \in 1..MAX_VALIDATORS
    <3>1. ClaimBook \in Books /\ milestoneThreshold \in 1..MAX_VALIDATORS
      BY Zenon DEF ClaimInv, GoodBook
    <3>2. \A S, T : S \in SUBSET T => S \subseteq T
      OBVIOUS
    <3> QED
      BY <3>1, <3>2, BookParts, ClaimBookParts, Zenon
  <2>2. /\ attestationKey \in [Wallets -> Keys \cup {NONE}]
        /\ attestationKeyOwner \in [Keys -> Wallets \cup {NONE}]
    BY DEF KeysAreOneToOne
  <2>3. /\ nonceBase \in [Wallets -> 0..U64_MAX]
        /\ nonceBitmap \in [Wallets -> SUBSET (0..(ATTESTATION_NONCE_BITMAP_BITS - 1))]
        /\ accepted \in [Wallets -> Seq(0..U64_MAX)]
    BY DEF NonceInv, NonceType
  <2> QED
    BY <2>1, <2>2, <2>3 DEF SettingsType, TypeOKClaims
<1>3. TypeOKDisputes
  BY DEF DisputeType
<1>4. TypeOKFlags
  BY DEF FlagType, RateInv, RateType, TypeOKFlags
<1> QED
  BY <1>1, <1>2, <1>3, <1>4 DEF TypeOK

\* The types of all keys: every counter, cursor, page and list of the contract
\* holds a value of its type, through every interleaving of its operations.
THEOREM TypesHold == Spec => []TypeOK
BY RegistryAlways, ClaimsAlways, SettingsAlways, MilestonesAlways, DisputesAlways,
   FlagsAlways, KeysNameOneWallet, NoncesAlways, RateAlways, TypesTogether, PTL

----
(***************************************************************************)
(* The cascade of a dismissal.                                              *)
(***************************************************************************)
\* The list of a validator has all it attested.
Listed(w) ==
  \A ref \in MilestoneRef :
    Contains(AttestorsOf(ref), w) => Contains(validatorMilestones[w], ref)

\* What lies before the cursor was visited.
SweptTo(w) ==
  cascadeCursor[w] # NONE =>
    /\ cascadeCursor[w] <= Len(validatorMilestones[w])
    /\ \A i \in 1..cascadeCursor[w] : validatorMilestones[w][i] \in swept[w]

AllSwept(w) ==
  \A ref \in MilestoneRef : Contains(AttestorsOf(ref), w) => ref \in swept[w]

\* A wallet that was revoked is registered, or has given its record away.
MarksStay(w) ==
  w \notin transferred /\ revocationRecord[w] # NONE => Registered(w)

CascadeInv ==
  \A w \in Wallets :
    /\ Listed(w) /\ SweptTo(w) /\ MarksStay(w)
    /\ w \notin transferred /\ Dismissed(w) /\ cascadeCursor[w] = NONE => AllSwept(w)

\* What the invariant reads.
Uncascaded == UNCHANGED <<validator, revocationRecord, transferred, milestoneAttestors,
                          validatorMilestones, cascadeCursor, swept>>

\* The steps that change it.
LEMMA CascadeSteps ==
  ASSUME [Next]_vars
  PROVE  \/ ApproveStep \/ AttestCommitStep \/ SubmitStep \/ SeedMilestoneStep
         \/ RegisterStep \/ RestoreStep \/ TransferStep
         \/ RevokeStep \/ BatchRevokeStep \/ ContinueStep
         \/ Uncascaded
<1>1. ASSUME PauseStep \/ UnpauseStep \/ ClockStep PROVE Uncascaded
  BY <1>1 DEF PauseStep, UnpauseStep, ClockStep, PauseContract, PauseApproveMilestone, Pause,
              UnpauseContract, UnpauseApproveMilestone, Unpause, ClockTick, Rest,
              attestationVars, milestones, registry, revocations, flags, Uncascaded
<1>2. ASSUME Unregistering PROVE UNCHANGED <<validator, revocationRecord, transferred>>
  BY <1>2 DEF Unregistering, validatorVars, registry, revocations
<1>3. ASSUME Unmarked \/ PurgeStep PROVE UNCHANGED <<milestoneAttestors, validatorMilestones>>
  <2>1. CASE Unmarked
    BY <2>1 DEF Unmarked, milestones
  <2>2. CASE PurgeStep
    BY <2>2, Zenon DEF PurgeStep, PurgePlayerData
  <2> QED
    BY <1>3, <2>1, <2>2
<1>4. ASSUME RereviewStep \/ Unswept PROVE UNCHANGED <<cascadeCursor, swept>>
  <2>1. CASE RereviewStep
    BY <2>1, Zenon DEF RereviewStep, RereviewMilestone
  <2>2. CASE Unswept
    BY <2>2 DEF Unswept, flags
  <2> QED
    BY <1>4, <2>1, <2>2
<1> QED
  BY <1>1, <1>2, <1>3, <1>4, RegistrySteps, MilestoneSteps, FlagSteps DEF Uncascaded

\* Steps that leave these keys alone leave the cascade's promise alone.
LEMMA CascadeFrame ==
  ASSUME CascadeInv, Uncascaded
  PROVE  CascadeInv'
BY DEF CascadeInv, Uncascaded, Listed, SweptTo, AllSwept, MarksStay, AttestorsOf, Dismissed,
       Registered

----
\* A sweep of w from a place it may start at.
Sweeping(w, start) ==
  /\ start = 0 \/ cascadeCursor[w] = start
  /\ cascadeCursor'[w] = StopsAt(w, start)
  /\ ToSetOf(Slice(w, start)) \subseteq swept'[w]
  /\ start # 0 => swept[w] \subseteq swept'[w]

\* It leaves nothing out before where it stops.
LEMMA SweepReaches ==
  ASSUME TypeOKMilestones, NEW w \in Wallets, NEW start \in Nat,
         SweptTo(w), Sweeping(w, start), UNCHANGED <<validatorMilestones, milestoneAttestors>>
  PROVE  /\ SweptTo(w)'
         /\ cascadeCursor'[w] = NONE =>
              \A i \in 1..Len(validatorMilestones[w]) : validatorMilestones[w][i] \in swept'[w]
<1>1. PICK list \in Seq(MilestoneRef) : list = validatorMilestones[w]
  BY DEF TypeOKMilestones
<1>2. PICK s \in Seq(MilestoneRef) : s = Slice(w, start)
  BY SliceIs
<1>3. PICK n \in Nat : n = Len(list)
  OBVIOUS
<1>4. PICK k \in Nat : k = Len(s)
  OBVIOUS
<1>5. NONE \notin Nat
  BY RegistryBounds
<1>6. start <= n /\ \A i \in 1..start : list[i] \in swept'[w]
  <2>1. CASE start = 0
    BY <2>1
  <2>2. CASE start # 0
    <3>1. cascadeCursor[w] = start /\ swept[w] \subseteq swept'[w]
      BY <2>2 DEF Sweeping
    <3>2. cascadeCursor[w] # NONE
      BY <1>5, <3>1
    <3>3. start <= Len(list) /\ \A i \in 1..start : list[i] \in swept[w]
      BY <1>1, <3>1, <3>2 DEF SweptTo
    <3> QED
      BY <1>3, <3>1, <3>3
  <2> QED
    BY <2>1, <2>2
<1>7. start + k <= n /\ \A i \in 1..k : s[i] = list[start + i]
  BY <1>1, <1>2, <1>3, <1>4, <1>6, SliceIs
<1>8. \A i \in 1..k : s[i] \in swept'[w]
  BY <1>2, <1>4, SetOfList DEF Sweeping, Contains
<1>9. \A i \in 1..(start + k) : list[i] \in swept'[w]
  <2> TAKE i \in 1..(start + k)
  <2>1. CASE i <= start
    BY <1>6, <2>1
  <2>2. CASE ~(i <= start)
    <3>1. i - start \in 1..k /\ start + (i - start) = i
      BY <1>4, <2>2
    <3> QED
      BY <1>7, <1>8, <3>1
  <2> QED
    BY <2>1, <2>2
<1>10. cascadeCursor'[w] = IF start + k >= n THEN NONE ELSE start + k
  BY <1>1, <1>2, <1>3, <1>4, SliceIs DEF Sweeping
<1>11. validatorMilestones'[w] = list
  BY <1>1
<1>12. CASE start + k >= n
  <2>1. start + k = n
    BY <1>3, <1>4, <1>7, <1>12
  <2> QED
    BY <1>1, <1>3, <1>9, <1>10, <1>12, <2>1 DEF SweptTo
<1>13. CASE ~(start + k >= n)
  <2>1. cascadeCursor'[w] = start + k /\ start + k \in Nat
    BY <1>4, <1>10, <1>13
  <2>2. cascadeCursor'[w] # NONE
    BY <1>5, <2>1
  <2> QED
    BY <1>3, <1>7, <1>9, <1>11, <2>1, <2>2 DEF SweptTo
<1> QED
  BY <1>12, <1>13

\* Once it is done with the list it has visited all that was attested.
LEMMA SweepFinishes ==
  ASSUME TypeOKMilestones, CascadeInv, NEW w \in Wallets, NEW start \in Nat,
         Sweeping(w, start), UNCHANGED <<validatorMilestones, milestoneAttestors>>
  PROVE  /\ Listed(w)' /\ SweptTo(w)'
         /\ cascadeCursor'[w] = NONE => AllSwept(w)'
<1>1. Listed(w) /\ SweptTo(w)
  BY DEF CascadeInv
<1>2. Listed(w)'
  BY <1>1 DEF Listed, AttestorsOf
<1>3. SweptTo(w)'
  BY <1>1, SweepReaches
<1>4. ASSUME cascadeCursor'[w] = NONE, NEW ref \in MilestoneRef,
             Contains(AttestorsOf(ref), w)'
      PROVE  ref \in swept'[w]
  <2>1. Contains(AttestorsOf(ref), w)
    BY <1>4 DEF AttestorsOf
  <2>2. Contains(validatorMilestones[w], ref)
    BY <1>1, <2>1 DEF Listed
  <2>3. \A i \in 1..Len(validatorMilestones[w]) : validatorMilestones[w][i] \in swept'[w]
    BY <1>1, <1>4, SweepReaches
  <2> QED
    BY <2>2, <2>3 DEF Contains
<1> QED
  BY <1>2, <1>3, <1>4 DEF AllSwept

----
\* What a revocation does to the cascade of a wallet.
LEMMA CascadeEffect ==
  ASSUME FlagType, NEW ws, ws \subseteq Wallets, NEW severity, NEW deferred \in BOOLEAN,
         Cascade(ws, severity, deferred), NEW w \in Wallets
  PROVE  IF w \in ws /\ severity = ForCause
         THEN cascadeCursor'[w] = 0 \/ \E start \in Nat : Sweeping(w, start)
         ELSE cascadeCursor'[w] = cascadeCursor[w] /\ swept'[w] = swept[w]
<1>1. PICK fresh : fresh = {v \in ws : validator[v].active}
  OBVIOUS
<1>2. PICK sub : sub = (IF severity # ForCause THEN {}
                        ELSE IF deferred THEN ws \ fresh ELSE ws)
  OBVIOUS
<1>3. PICK marked : marked = (IF severity = ForCause /\ deferred THEN fresh ELSE {})
  OBVIOUS
<1>4. PICK start : start = [v \in ws |-> IF v \in fresh THEN 0 ELSE TakeUp(v)]
  OBVIOUS
<1>5. PICK dismissed : dismissed = (IF severity = ForCause THEN {v \in ws : start[v] = 0} ELSE {})
  OBVIOUS
<1>6. RunSweeps(sub, start, marked) /\ RecordSweeps(sub, start, dismissed)
  BY <1>1, <1>2, <1>3, <1>4, <1>5, Zenon DEF Cascade
<1>7. /\ cascadeCursor'[w] = IF w \in sub THEN StopsAt(w, start[w])
                             ELSE IF w \in marked THEN 0 ELSE cascadeCursor[w]
      /\ swept'[w] = (IF w \in dismissed THEN {} ELSE swept[w])
                       \cup (IF w \in sub THEN ToSetOf(Slice(w, start[w])) ELSE {})
  <2>1. cascadeCursor' = [v \in Wallets |-> IF v \in sub THEN StopsAt(v, start[v])
                            ELSE IF v \in marked THEN 0 ELSE cascadeCursor[v]]
    BY <1>6, Zenon DEF RunSweeps
  <2>2. swept' = [v \in Wallets |-> (IF v \in dismissed THEN {} ELSE swept[v])
                       \cup (IF v \in sub THEN ToSetOf(Slice(v, start[v])) ELSE {})]
    BY <1>6, Zenon DEF RecordSweeps
  <2> QED
    BY <2>1, <2>2, Zenon
<1>8. CASE w \in ws /\ severity = ForCause
  <2>1. CASE w \in sub
    <3>1. PICK s : s = start[w]
      OBVIOUS
    <3>2. s \in Nat /\ (s = 0 \/ cascadeCursor[w] = s)
      BY <1>4, <1>8, <3>1, TakeUpType DEF TakeUp
    <3>3. s # 0 => w \notin dismissed
      BY <1>5, <3>1
    <3>4. /\ cascadeCursor'[w] = StopsAt(w, s)
          /\ swept'[w] = (IF w \in dismissed THEN {} ELSE swept[w]) \cup ToSetOf(Slice(w, s))
      BY <1>7, <2>1, <3>1, Zenon
    <3>5. Sweeping(w, s)
      BY <3>2, <3>3, <3>4 DEF Sweeping
    <3> QED
      BY <1>8, <3>2, <3>5
  <2>2. CASE w \notin sub
    BY <1>2, <1>3, <1>7, <1>8, <2>2
  <2> QED
    BY <2>1, <2>2
<1>9. CASE ~(w \in ws /\ severity = ForCause)
  <2>1. w \notin sub /\ w \notin marked /\ w \notin dismissed
    BY <1>1, <1>2, <1>3, <1>5, <1>9
  <2> QED
    BY <1>7, <1>9, <2>1
<1> QED
  BY <1>8, <1>9

\* A revocation leaves no dismissed validator's milestones behind.
LEMMA RevocationCascades ==
  ASSUME CascadeInv, FlagType, TypeOKMilestones, RegistryInv, RevokeStep \/ BatchRevokeStep
  PROVE  CascadeInv'
<1>1. PICK list \in Seq(Wallets), severity \in RevocationSeverity, deferred \in BOOLEAN :
        Revoke(list, severity, deferred)
  BY RevocationSteps
<1>2. PICK ws : ws = ToSetOf(list)
  OBVIOUS
<1>3. ws \subseteq Wallets
  BY <1>2 DEF ToSetOf
<1>4. Cascade(ws, severity, deferred) /\ RevokeRecords(ws, severity)
  BY <1>1, <1>2, Zenon DEF Revoke
<1>5. UNCHANGED <<validatorMilestones, milestoneAttestors, transferred>>
  BY <1>1, <1>4, Zenon DEF Revoke, RevokeRecords, milestones
<1>6. /\ \A w \in ws : Registered(w)
      /\ \A w \in Wallets :
           /\ w \in ws => /\ validator'[w] = [validator[w] EXCEPT !.active = FALSE]
                          /\ revocationRecord'[w] = Revoked(w, severity)
           /\ w \notin ws => /\ validator'[w] = validator[w]
                             /\ revocationRecord'[w] = revocationRecord[w]
  BY <1>4, Zenon DEF RevokeRecords, Revocable
<1>7. \A w \in ws : validator'[w] # NONE
  <2> TAKE w \in ws
  <2>1. w \in Wallets /\ validator[w] \in Validator
    BY <1>3, <1>6 DEF Registered, RegistryInv, TypeOKRegistry
  <2>2. [validator[w] EXCEPT !.active = FALSE] \in Validator
    BY <2>1 DEF Validator
  <2> QED
    BY <1>6, <2>1, <2>2, RegistryBounds
<1> SUFFICES ASSUME NEW w \in Wallets
             PROVE  /\ Listed(w)' /\ SweptTo(w)' /\ MarksStay(w)'
                    /\ (w \notin transferred /\ Dismissed(w) /\ cascadeCursor[w] = NONE
                         => AllSwept(w))'
  BY DEF CascadeInv
<1>8. Listed(w)'
  BY <1>5 DEF CascadeInv, Listed, AttestorsOf
<1>9. MarksStay(w)'
  BY <1>5, <1>6, <1>7 DEF CascadeInv, MarksStay, Registered
<1>10. CASE w \in ws /\ severity = ForCause
  <2>1. cascadeCursor'[w] = 0 \/ \E start \in Nat : Sweeping(w, start)
    BY <1>3, <1>4, <1>10, CascadeEffect
  <2>2. CASE cascadeCursor'[w] = 0
    <3>1. SweptTo(w)'
      BY <2>2, <1>5 DEF SweptTo, TypeOKMilestones
    <3>2. cascadeCursor'[w] # NONE
      BY <2>2, RegistryBounds
    <3> QED
      BY <1>8, <1>9, <3>1, <3>2
  <2>3. CASE \E start \in Nat : Sweeping(w, start)
    <3>1. PICK start \in Nat : Sweeping(w, start)
      BY <2>3
    <3>2. SweptTo(w)' /\ (cascadeCursor'[w] = NONE => AllSwept(w)')
      BY <1>5, <3>1, SweepFinishes
    <3> QED
      BY <1>8, <1>9, <3>2
  <2> QED
    BY <2>1, <2>2, <2>3
<1>11. CASE ~(w \in ws /\ severity = ForCause)
  <2>1. cascadeCursor'[w] = cascadeCursor[w] /\ swept'[w] = swept[w]
    BY <1>3, <1>4, <1>11, CascadeEffect
  <2>2. SweptTo(w)'
    BY <1>5, <2>1 DEF CascadeInv, SweptTo
  <2>3. AllSwept(w) => AllSwept(w)'
    BY <1>5, <2>1 DEF AllSwept, AttestorsOf
  <2>4. CASE w \in ws
    <3>1. revocationRecord'[w].severity # ForCause
      <4>1. revocationRecord'[w] = Revoked(w, severity) /\ severity # ForCause
        BY <1>6, <1>11, <2>4
      <4>2. Revoked(w, severity).severity = severity
        BY DEF Revoked
      <4> QED
        BY <4>1, <4>2
    <3> QED
      BY <1>8, <1>9, <2>2, <3>1 DEF Dismissed
  <2>5. CASE w \notin ws
    <3>1. Dismissed(w)' => Dismissed(w)
      BY <1>6, <2>5 DEF Dismissed, Registered
    <3> QED
      BY <1>5, <1>8, <1>9, <2>1, <2>2, <2>3, <3>1 DEF CascadeInv
  <2> QED
    BY <2>4, <2>5
<1> QED
  BY <1>10, <1>11

\* The admin's continuation takes up where the last sweep stopped.
LEMMA ContinuationCascades ==
  ASSUME CascadeInv, FlagType, TypeOKMilestones, ContinueStep
  PROVE  CascadeInv'
<1>1. PICK v \in Wallets : ContinueRevocationCascade(v)
  BY DEF ContinueStep
<1>2. PICK start : start = [x \in {v} |-> TakeUp(x)]
  OBVIOUS
<1>3. RunSweeps({v}, start, {}) /\ RecordSweeps({v}, start, {})
  BY <1>1, <1>2, Zenon DEF ContinueRevocationCascade
<1>4. UNCHANGED <<validator, revocationRecord, transferred, milestoneAttestors,
                  validatorMilestones>>
  BY <1>1 DEF ContinueRevocationCascade, validatorVars, registry, revocations,
              attestationVars, milestones
<1>5. \A w \in Wallets :
        /\ cascadeCursor'[w] = IF w \in {v} THEN StopsAt(w, start[w])
                               ELSE IF w \in {} THEN 0 ELSE cascadeCursor[w]
        /\ swept'[w] = (IF w \in {} THEN {} ELSE swept[w])
                       \cup (IF w \in {v} THEN ToSetOf(Slice(w, start[w])) ELSE {})
  <2>1. cascadeCursor' = [w \in Wallets |-> IF w \in {v} THEN StopsAt(w, start[w])
                            ELSE IF w \in {} THEN 0 ELSE cascadeCursor[w]]
    BY <1>3, Zenon DEF RunSweeps
  <2>2. swept' = [w \in Wallets |-> (IF w \in {} THEN {} ELSE swept[w])
                       \cup (IF w \in {v} THEN ToSetOf(Slice(w, start[w])) ELSE {})]
    BY <1>3, Zenon DEF RecordSweeps
  <2> QED
    BY <2>1, <2>2, Zenon
<1>6. PICK s \in Nat : s = TakeUp(v)
  BY TakeUpType
<1>7. start[v] = s
  BY <1>2, <1>6
<1>8. Sweeping(v, s)
  <2>1. s = 0 \/ cascadeCursor[v] = s
    BY <1>6 DEF TakeUp
  <2>2. cascadeCursor'[v] = StopsAt(v, s) /\ swept'[v] = swept[v] \cup ToSetOf(Slice(v, s))
    BY <1>5, <1>7
  <2> QED
    BY <2>1, <2>2 DEF Sweeping
<1>9. Listed(v)' /\ SweptTo(v)' /\ (cascadeCursor'[v] = NONE => AllSwept(v)')
  BY <1>4, <1>8, SweepFinishes
<1>10. ASSUME NEW w \in Wallets
       PROVE  MarksStay(w)'
  BY <1>4 DEF CascadeInv, MarksStay, Registered
<1>11. ASSUME NEW w \in Wallets, w # v
       PROVE  /\ Listed(w)' /\ SweptTo(w)'
              /\ (w \notin transferred /\ Dismissed(w) /\ cascadeCursor[w] = NONE
                    => AllSwept(w))'
  <2>1. cascadeCursor'[w] = cascadeCursor[w] /\ swept'[w] = swept[w]
    BY <1>5, <1>11
  <2> QED
    BY <1>4, <2>1 DEF CascadeInv, Listed, SweptTo, AllSwept, AttestorsOf, Dismissed, Registered
<1> QED
  BY <1>9, <1>10, <1>11 DEF CascadeInv

----
\* What registration, restoring and transfers mean for who is dismissed: nobody
\* becomes it.
LEMMA NobodyBecomesDismissed ==
  ASSUME RegistryInv, CascadeInv, RegisterStep \/ RestoreStep \/ TransferStep, NEW w \in Wallets
  PROVE  /\ MarksStay(w)'
         /\ Dismissed(w)' /\ w \notin transferred' => Dismissed(w) /\ w \notin transferred
<1>1. MarksStay(w)
  BY DEF CascadeInv
<1>2. validator \in [Wallets -> Validator \cup {NONE}]
  BY DEF RegistryInv, TypeOKRegistry
<1>3. CASE RegisterStep
  <2>1. PICK ws \in Batches(Wallets) : BatchRegisterValidators(ws)
    BY <1>3 DEF RegisterStep
  <2>2. /\ validator' = [v \in Wallets |->
             IF v \in ToSetOf(ws)
             THEN [affiliation |-> AffiliationOf[v], registered_at |-> now, active |-> TRUE]
             ELSE validator[v]]
        /\ transferred' = transferred /\ revocationRecord' = revocationRecord
    BY <2>1 DEF BatchRegisterValidators, WriteValidators, revocations
  <2>3. CASE w \in ToSetOf(ws)
    <3>1. AffiliationOf[w] \in Affiliations /\ now \in Nat
      BY RegistryBounds DEF RegistryInv, TypeOKRegistry
    <3>2. validator'[w].active = TRUE /\ validator'[w] # NONE
      BY <2>2, <2>3, <3>1, NewRecord
    <3> QED
      BY <3>2 DEF MarksStay, Dismissed, Registered
  <2>4. CASE w \notin ToSetOf(ws)
    <3>1. validator'[w] = validator[w]
      BY <2>2, <2>4
    <3> QED
      BY <1>1, <2>2, <3>1 DEF MarksStay, Dismissed, Registered
  <2> QED
    BY <2>3, <2>4
<1>4. CASE RestoreStep
  <2>1. PICK r \in Wallets : RestoreValidator(r)
    BY <1>4 DEF RestoreStep
  <2>2. /\ Registered(r) /\ validator' = [validator EXCEPT ![r].active = TRUE]
        /\ transferred' = transferred /\ revocationRecord' = revocationRecord
    BY <2>1 DEF RestoreValidator
  <2>3. validator[r] \in Validator
    BY <2>2, RegisteredRecord DEF RegistryInv
  <2>4. /\ validator'[r] \in Validator /\ validator'[r].active = TRUE
        /\ \A v \in Wallets \ {r} : validator'[v] = validator[v]
    BY <1>2, <2>2, <2>3 DEF Validator
  <2>5. CASE w = r
    <3>1. validator'[w] # NONE /\ validator'[w].active = TRUE
      BY <2>4, <2>5, RegistryBounds
    <3> QED
      BY <3>1 DEF MarksStay, Dismissed, Registered
  <2>6. CASE w # r
    <3>1. validator'[w] = validator[w]
      BY <2>4, <2>6
    <3> QED
      BY <1>1, <2>2, <3>1 DEF MarksStay, Dismissed, Registered
  <2> QED
    BY <2>5, <2>6
<1>5. CASE TransferStep
  <2>1. PICK old \in Wallets, new \in Wallets : TransferRecord(old, new)
    BY <1>5 DEF TransferStep
  <2>2. /\ Registered(old) /\ ~Registered(new) /\ old # new
        /\ validator' = [validator EXCEPT ![new] = validator[old], ![old] = NONE]
        /\ transferred' = transferred \cup {old} /\ revocationRecord' = revocationRecord
    BY <2>1 DEF TransferRecord, revocations
  <2>3. /\ validator'[old] = NONE /\ validator'[new] = validator[old]
        /\ \A v \in Wallets \ {old, new} : validator'[v] = validator[v]
    BY <1>2, <2>2
  <2>4. CASE w = old
    BY <2>2, <2>4 DEF MarksStay
  <2>5. CASE w = new
    <3>1. w \in transferred \/ revocationRecord[w] = NONE
      BY <1>1, <2>2, <2>5 DEF MarksStay
    <3>2. validator'[w] # NONE
      BY <2>2, <2>3, <2>5 DEF Registered
    <3> QED
      BY <2>2, <3>1, <3>2 DEF MarksStay, Dismissed, Registered
  <2>6. CASE w # old /\ w # new
    <3>1. validator'[w] = validator[w]
      BY <2>3, <2>6
    <3> QED
      BY <1>1, <2>2, <2>6, <3>1 DEF MarksStay, Dismissed, Registered
  <2> QED
    BY <2>4, <2>5, <2>6
<1> QED
  BY <1>3, <1>4, <1>5

\* The steps of the registry dismiss nobody.
LEMMA RegistryCascades ==
  ASSUME RegistryInv, CascadeInv, RegisterStep \/ RestoreStep \/ TransferStep
  PROVE  CascadeInv'
<1>1. UNCHANGED <<validatorMilestones, milestoneAttestors, cascadeCursor, swept>>
  <2>1. CASE RegisterStep \/ RestoreStep
    BY <2>1 DEF RegisterStep, RestoreStep, Rest, attestationVars, milestones, flags
  <2>2. CASE TransferStep
    BY <2>2 DEF TransferStep, TransferMilestoneCount, Rest, flags
  <2> QED
    BY <2>1, <2>2
<1> SUFFICES ASSUME NEW w \in Wallets
             PROVE  /\ Listed(w)' /\ SweptTo(w)' /\ MarksStay(w)'
                    /\ (w \notin transferred /\ Dismissed(w) /\ cascadeCursor[w] = NONE
                         => AllSwept(w))'
  BY DEF CascadeInv
<1>2. Listed(w)' /\ SweptTo(w)' /\ (AllSwept(w) => AllSwept(w)')
  BY <1>1 DEF CascadeInv, Listed, SweptTo, AllSwept, AttestorsOf
<1> QED
  BY <1>1, <1>2, NobodyBecomesDismissed DEF CascadeInv

----
\* The list of w grows at its end, if at all.
Grown(w, ref) ==
  \/ validatorMilestones'[w] = validatorMilestones[w]
  \/ validatorMilestones'[w] = Append(validatorMilestones[w], ref)

\* A list that grew at its end still has its places.
LEMMA GrownStays ==
  ASSUME TypeOKMilestones, NEW w \in Wallets, NEW ref \in MilestoneRef, Grown(w, ref),
         SweptTo(w), UNCHANGED <<cascadeCursor, swept>>,
         cascadeCursor \in [Wallets -> Nat \cup {NONE}]
  PROVE  /\ SweptTo(w)'
         /\ \A r : Contains(validatorMilestones[w], r) => Contains(validatorMilestones'[w], r)
<1>1. PICK list \in Seq(MilestoneRef) : list = validatorMilestones[w]
  BY DEF TypeOKMilestones
<1>2. CASE validatorMilestones'[w] = list
  BY <1>1, <1>2 DEF SweptTo
<1>3. CASE validatorMilestones'[w] = Append(list, ref)
  <2>1. PICK n \in Nat : n = Len(list)
    OBVIOUS
  <2>2. PICK next : next = Append(list, ref)
    OBVIOUS
  <2>3. Len(next) = n + 1 /\ \A i \in 1..n : next[i] = list[i]
    BY <2>1, <2>2, AppendProperties
  <2>4. SweptTo(w)'
    <3>1. CASE cascadeCursor[w] = NONE
      BY <3>1 DEF SweptTo
    <3>2. CASE cascadeCursor[w] # NONE
      <4>1. PICK c \in Nat : c = cascadeCursor[w]
        BY <3>2
      <4>2. c <= n /\ \A i \in 1..c : list[i] \in swept[w]
        BY <1>1, <2>1, <3>2, <4>1 DEF SweptTo
      <4>3. c <= Len(next) /\ \A i \in 1..c : next[i] \in swept[w]
        BY <2>3, <4>2
      <4> QED
        BY <1>3, <2>2, <4>1, <4>3 DEF SweptTo
    <3> QED
      BY <3>1, <3>2
  <2> QED
    BY <1>1, <1>3, <2>4, AppendEntries
<1> QED
  BY <1>1, <1>2, <1>3 DEF Grown

\* A commit lists the milestone for each of its attestors, none of them dismissed.
LEMMA CommitCascades ==
  ASSUME RegistryInv, ClaimInv, TypeOKMilestones, FlagType, CascadeInv,
         ApproveStep \/ AttestCommitStep \/ SubmitStep
  PROVE  CascadeInv'
<1>1. PICK by \in Wallets, p \in Players, e \in Evidence, d \in Descriptions,
           attestors \in Seq(Wallets) : Committing(by, p, e, d, attestors)
  BY CommitSteps
<1>2. PICK n : n = NextIndex(p)
  OBVIOUS
<1>3. PICK new : new = <<p, n>>
  OBVIOUS
<1>4. /\ n \in Indexes
      /\ milestoneAttestors' = [milestoneAttestors EXCEPT ![p][n] = attestors]
      /\ ListForAll(by, attestors, new)
  BY <1>1, <1>2, <1>3, Zenon DEF Committing, CommitApprovedMilestone
<1>5. /\ UNCHANGED <<validator, revocationRecord, transferred, cascadeCursor, swept>>
      /\ \A x : Contains(attestors, x) => IsActiveValidator(x) \/ x \in transferred
  BY <1>1 DEF Committing, Unregistering, Rest, validatorVars, registry, revocations, flags
<1>6. new \in MilestoneRef
  BY <1>3, <1>4 DEF MilestoneRef
<1>7. \A ref \in MilestoneRef :
        AttestorsOf(ref)' = IF ref = new THEN attestors ELSE AttestorsOf(ref)
  <2> TAKE ref \in MilestoneRef
  <2>1. PICK q \in Players, i \in Indexes : ref = <<q, i>>
    BY DEF MilestoneRef
  <2>2. AttestorsOf(ref)' = milestoneAttestors'[q][i] /\ AttestorsOf(ref) = milestoneAttestors[q][i]
    BY <2>1 DEF AttestorsOf
  <2>3. milestoneAttestors'[q][i] = IF q = p /\ i = n THEN attestors ELSE milestoneAttestors[q][i]
    BY <1>4 DEF TypeOKMilestones
  <2>4. ref = new <=> q = p /\ i = n
    BY <1>3, <2>1
  <2> QED
    BY <2>2, <2>3, <2>4
<1> SUFFICES ASSUME NEW w \in Wallets
             PROVE  /\ Listed(w)' /\ SweptTo(w)' /\ MarksStay(w)'
                    /\ (w \notin transferred /\ Dismissed(w) /\ cascadeCursor[w] = NONE
                         => AllSwept(w))'
  BY DEF CascadeInv
<1>8. /\ Listed(w) /\ SweptTo(w) /\ MarksStay(w)
      /\ w \notin transferred /\ Dismissed(w) /\ cascadeCursor[w] = NONE => AllSwept(w)
  BY DEF CascadeInv
<1>9. /\ Contains(attestors, w) => validatorMilestones'[w] = Append(validatorMilestones[w], new)
      /\ Grown(w, new)
  <2>1. Contains(attestors, w) <=> w \in ToSetOf(attestors)
    BY SetOfList
  <2> QED
    BY <1>4, <2>1 DEF ListForAll, Grown
<1>10. /\ SweptTo(w)'
       /\ \A r : Contains(validatorMilestones[w], r) => Contains(validatorMilestones'[w], r)
  BY <1>5, <1>6, <1>8, <1>9, GrownStays DEF FlagType
<1>11. Listed(w)'
  <2> SUFFICES ASSUME NEW ref \in MilestoneRef, Contains(AttestorsOf(ref)', w)
               PROVE  Contains(validatorMilestones'[w], ref)
    BY DEF Listed
  <2>1. CASE ref = new
    <3>1. validatorMilestones'[w] = Append(validatorMilestones[w], new)
      BY <1>7, <1>9, <2>1
    <3>2. validatorMilestones[w] \in Seq(MilestoneRef)
      BY DEF TypeOKMilestones
    <3> QED
      BY <1>6, <2>1, <3>1, <3>2, AppendEntries
  <2>2. CASE ref # new
    BY <1>7, <1>8, <1>10, <2>2 DEF Listed
  <2> QED
    BY <2>1, <2>2
<1>12. MarksStay(w)'
  BY <1>5, <1>8 DEF MarksStay, Registered
<1>13. ASSUME w \notin transferred, Dismissed(w), AllSwept(w)
       PROVE  AllSwept(w)'
  <2>1. ~Contains(attestors, w)
    BY <1>5, <1>13 DEF Dismissed, IsActiveValidator
  <2> QED
    BY <1>5, <1>7, <1>13, <2>1 DEF AllSwept
<1>14. Dismissed(w)' => Dismissed(w)
  BY <1>5 DEF Dismissed, Registered
<1> QED
  BY <1>5, <1>8, <1>10, <1>11, <1>12, <1>13, <1>14

\* A replayed milestone has no attestors.
LEMMA SeedCascades ==
  ASSUME TypeOKMilestones, FlagType, CascadeInv, SeedMilestoneStep
  PROVE  CascadeInv'
<1>1. PICK p \in Players, m \in SeedMilestones : AdminSeedMilestone(p, m) /\ Rest
  BY DEF SeedMilestoneStep
<1>2. PICK new : new = <<p, NextIndex(p)>>
  OBVIOUS
<1>3. /\ NextIndex(p) \in Indexes
      /\ validatorMilestones' =
           IF new \in ToSetOf(validatorMilestones[m.validator]) THEN validatorMilestones
           ELSE [validatorMilestones EXCEPT ![m.validator] = Append(@, new)]
  BY <1>1, <1>2, Zenon DEF AdminSeedMilestone
<1>4. UNCHANGED <<validator, revocationRecord, transferred, milestoneAttestors,
                  cascadeCursor, swept>>
  BY <1>1 DEF AdminSeedMilestone, Rest, validatorVars, registry, revocations, flags
<1>5. new \in MilestoneRef
  BY <1>2, <1>3 DEF MilestoneRef
<1> SUFFICES ASSUME NEW w \in Wallets
             PROVE  /\ Listed(w)' /\ SweptTo(w)' /\ MarksStay(w)'
                    /\ (w \notin transferred /\ Dismissed(w) /\ cascadeCursor[w] = NONE
                         => AllSwept(w))'
  BY DEF CascadeInv
<1>6. /\ Listed(w) /\ SweptTo(w) /\ MarksStay(w)
      /\ w \notin transferred /\ Dismissed(w) /\ cascadeCursor[w] = NONE => AllSwept(w)
  BY DEF CascadeInv
<1>7. Grown(w, new)
  BY <1>3 DEF Grown, TypeOKMilestones
<1>8. /\ SweptTo(w)'
      /\ \A r : Contains(validatorMilestones[w], r) => Contains(validatorMilestones'[w], r)
  BY <1>4, <1>5, <1>6, <1>7, GrownStays DEF FlagType
<1>9. \A ref : AttestorsOf(ref)' = AttestorsOf(ref)
  BY <1>4 DEF AttestorsOf
<1>10. Listed(w)' /\ (AllSwept(w) => AllSwept(w)')
  BY <1>4, <1>6, <1>8, <1>9 DEF Listed, AllSwept
<1>11. MarksStay(w)' /\ (Dismissed(w)' => Dismissed(w))
  BY <1>4, <1>6 DEF MarksStay, Dismissed, Registered
<1> QED
  BY <1>4, <1>6, <1>8, <1>10, <1>11

----
\* The invariant of cascades holds throughout.
LEMMA CascadeAlways == Spec => []CascadeInv
<1>1. Init => CascadeInv
  <2> SUFFICES ASSUME Init PROVE CascadeInv
    OBVIOUS
  <2>1. /\ milestoneAttestors = [p \in Players |-> [i \in Indexes |-> << >>]]
        /\ cascadeCursor = [w \in Wallets |-> NONE]
        /\ revocationRecord = [w \in Wallets |-> NONE]
    BY DEF Init, AttestationInit, ValidatorInit
  <2>2. \A ref \in MilestoneRef : \A w : ~Contains(AttestorsOf(ref), w)
    BY <2>1 DEF AttestorsOf, MilestoneRef, Contains
  <2> QED
    BY <2>1, <2>2 DEF CascadeInv, Listed, SweptTo, MarksStay, Dismissed
<1>2. RegistryInv /\ ClaimInv /\ TypeOKMilestones /\ FlagType /\ CascadeInv /\ [Next]_vars
        => CascadeInv'
  <2> SUFFICES ASSUME RegistryInv, ClaimInv, TypeOKMilestones, FlagType, CascadeInv, [Next]_vars
               PROVE  CascadeInv'
    OBVIOUS
  <2> QED
    BY CascadeSteps, CommitCascades, SeedCascades, RegistryCascades, RevocationCascades,
       ContinuationCascades, CascadeFrame
<1> QED
  BY <1>1, <1>2, MilestonesAlways, FlagsAlways, PTL DEF Spec

\* run_cascade_sweep: whether a dismissal sweeps at once, marks its cascade for
\* later or takes one up after a restoration, and wherever the admin's calls cut
\* it, no milestone the dismissed validator attested is passed over.
THEOREM CascadesReachEveryApproval == Spec => []CascadeReachesEveryApproval
<1>1. CascadeInv /\ TypeOKMilestones => CascadeReachesEveryApproval
  <2> SUFFICES ASSUME CascadeInv, TypeOKMilestones, NEW w \in Wallets \ transferred, Dismissed(w),
                      cascadeCursor[w] = NONE, NEW ref \in MilestoneRef,
                      w \in ToSetOf(AttestorsOf(ref))
               PROVE  ref \in swept[w]
    BY DEF CascadeReachesEveryApproval
  <2>1. AllSwept(w)
    BY DEF CascadeInv
  <2>2. AttestorsOf(ref) \in Seq(Wallets)
    BY DEF AttestorsOf, MilestoneRef, TypeOKMilestones
  <2>3. Contains(AttestorsOf(ref), w)
    BY <2>2, SetOfList
  <2> QED
    BY <2>1, <2>3 DEF AllSwept
<1> QED
  BY <1>1, CascadeAlways, MilestonesAlways, PTL
====
