--------------------------- MODULE AttesterSigners ---------------------------
(***************************************************************************)
(* The two signers of the attester (signer.rs, signer/kms.rs, the signing  *)
(* half of service.rs): connecting, the order of the pair, the check       *)
(* against the settings, and the two signatures of a request.  The key     *)
(* behind an ARN and its state may change between any two calls to KMS.    *)
(***************************************************************************)
EXTENDS Naturals, Sequences, Functions

CONSTANTS Arns, Keys, Digests, Settings

\* Key k has address k; the settings name ARNs and expected keys.
Assumption == Keys \subseteq Nat /\ Settings \subseteq [arns : Seq(Arns), expected : Seq(Keys)]

VARIABLES pc,        \* "down", "describe", "key", "pair", "expected", "ready", "sign" or "refused"
          cli,       \* the settings of this start
          arns,      \* the ARN of each signer
          keys,      \* the key pinned for each signer
          digest,    \* the digest being signed
          sigs,      \* the signatures on it so far
          kms,       \* the key behind each ARN, and whether it is an enabled signing key
          steady,    \* KMS has not changed since this start
          requests   \* the last pair of signatures that went into a request

vars == <<pc, cli, arns, keys, digest, sigs, kms, steady, requests>>
Kms == <<kms, steady>>

\* A signature as the contract reads it; `odd`: the parity its s needs to recover the key.
Signatures == [key : Keys, digest : Digests \X {"digest", "message"}, s : {"low", "high"},
               odd : BOOLEAN, parity : BOOLEAN]

TypeOK ==
  /\ pc \in {"down", "describe", "key", "pair", "expected", "ready", "sign", "refused"}
  /\ keys \in Seq(Keys) /\ Len(keys) <= 2 /\ arns \in Seq(Arns) /\ Len(arns) \in {0, 2}
  /\ sigs \in Seq(Signatures) /\ Len(sigs) <= 1
  /\ requests \in Seq(Signatures) /\ Len(requests) \in {0, 2}
  /\ pc \in {"pair", "expected", "ready", "sign"} => Len(keys) = 2
  /\ kms \in [Arns -> [key : Keys, fit : BOOLEAN]] /\ steady \in BOOLEAN

Init ==
  /\ pc = "down" /\ cli \in Settings /\ arns = <<>> /\ keys = <<>>
  /\ digest \in Digests /\ sigs = <<>> /\ requests = <<>> /\ steady = TRUE
  /\ kms \in [Arns -> [key : Keys, fit : {TRUE}]]

----------------------------------------------------------------------------
(* Connecting. *)

\* KmsConfig::from_cli, and the count of expected keys in TryFrom<Cli>.
from_cli(c) == Len(c.arns) = 2 /\ c.arns[1] # c.arns[2] /\ Len(c.expected) = 2

Launch(c) ==
  /\ pc \in {"down", "refused"} /\ from_cli(c)
  /\ pc' = "describe" /\ cli' = c /\ arns' = c.arns /\ keys' = <<>> /\ steady' = TRUE
  /\ UNCHANGED <<digest, sigs, kms, requests>>

Arn == arns[Len(keys) + 1]

\* KmsSigner::connect, DescribeKey.
check_key_metadata ==
  /\ pc = "describe" /\ pc' = IF kms[Arn].fit THEN "key" ELSE "refused"
  /\ UNCHANGED <<cli, arns, keys, digest, sigs, Kms, requests>>

\* KmsSigner::connect, GetPublicKey: the key is pinned, and the second signer is next.  Its
\* state is not looked at again: KMS may answer for a key that was disabled meanwhile.
public_key_from_response ==
  /\ pc = "key"
  /\ \/ keys' = Append(keys, kms[Arn].key)
        /\ pc' = IF Len(keys') = 2 THEN "pair" ELSE "describe"
     \/ ~ kms[Arn].fit /\ pc' = "refused" /\ UNCHANGED keys
  /\ UNCHANGED <<cli, arns, digest, sigs, Kms, requests>>

Swapped(pair) == <<pair[2], pair[1]>>

\* The keys are ordered and the signers are not.
MutSignerPair ==
  /\ pc = "pair"
  /\ pc' = IF keys[1] = keys[2] THEN "refused" ELSE "expected"
  /\ keys' = IF keys[2] < keys[1] THEN Swapped(keys) ELSE keys
  /\ UNCHANGED <<cli, arns, digest, sigs, Kms, requests>>

\* The pair stays in the order of the settings.
MutOrder ==
  /\ pc = "pair"
  /\ pc' = IF keys[1] = keys[2] THEN "refused" ELSE "expected"
  /\ UNCHANGED <<cli, arns, keys, digest, sigs, Kms, requests>>

\* SignerPair::new: signers and keys are swapped together.
SignerPair ==
  /\ pc = "pair"
  /\ pc' = IF keys[1] = keys[2] THEN "refused" ELSE "expected"
  /\ \/ keys[2] < keys[1] /\ keys' = Swapped(keys) /\ arns' = Swapped(arns)
     \/ keys[2] >= keys[1] /\ UNCHANGED <<keys, arns>>
  /\ UNCHANGED <<cli, digest, sigs, Kms, requests>>

\* One expected key is enough.
MutMatches == \E i \in 1 .. 2 : keys[i] \in Range(cli.expected)

\* The keys must be in the order of the settings.
MutMatchesInOrder == keys = cli.expected

Matches ==
  cli.expected[1] # cli.expected[2] /\ \A i \in 1 .. 2 : keys[i] \in Range(cli.expected)

check_expected ==
  /\ pc = "expected" /\ pc' = IF Matches THEN "ready" ELSE "refused"
  /\ UNCHANGED <<cli, arns, keys, digest, sigs, Kms, requests>>

----------------------------------------------------------------------------
(* Signing. *)

\* KMS hashes what it gets.
MutSignRequest(d) == <<d, "message">>

sign_request(d) == <<d, "digest">>

Answer(arn, message, s, odd, reduced) ==
  [arn |-> arn, reduced |-> reduced,
   sig |-> [key |-> kms[arn].key, digest |-> message, s |-> s, odd |-> odd, parity |-> FALSE]]

\* What KMS may answer: its signature on what was asked, in either form of s.
Answers(arn, message) ==
  {Answer(b, message, s, odd, reduced) :
     b \in {c \in Arns : kms[c].fit /\ kms[arn].fit}, s \in {"low", "high"},
     odd \in BOOLEAN, reduced \in BOOLEAN}

\* The parity is found before s is normalized.
MutRecoverable(sig) ==
  IF sig.s = "high" THEN [sig EXCEPT !.s = "low", !.odd = ~ sig.odd, !.parity = sig.odd]
  ELSE [sig EXCEPT !.parity = sig.odd]

\* normalize_s, then trial_recovery_from_prehash: negating s turns the parity over.
recoverable(sig) ==
  LET low == IF sig.s = "high" THEN [sig EXCEPT !.s = "low", !.odd = ~ sig.odd] ELSE sig
  IN  [low EXCEPT !.parity = low.odd]

\* The pinned key is not looked at again.
MutAccepts(answer, i) == answer.arn = arns[i] /\ ~ answer.reduced

\* signature_from_response and signature_from_der: verified with the pinned key.
accepts(answer, i) ==
  /\ answer.arn = arns[i]
  /\ answer.sig.key = keys[i] /\ answer.sig.digest = <<digest, "digest">>
  /\ ~ answer.reduced

Begin(d) ==
  /\ pc = "ready" /\ pc' = "sign" /\ digest' = d /\ sigs' = <<>>
  /\ UNCHANGED <<cli, arns, keys, Kms, requests>>

\* A failed second signature leaves the first in place.
MutSignDigest ==
  /\ pc = "sign"
  /\ LET i == Len(sigs) + 1 IN
     \/ \E answer \in Answers(arns[i], sign_request(digest)) :
          LET both == Append(sigs, recoverable(answer.sig)) IN
          /\ accepts(answer, i)
          /\ sigs' = IF i = 2 THEN <<>> ELSE both
          /\ requests' = IF i = 2 THEN both ELSE requests
          /\ pc' = IF i = 2 THEN "ready" ELSE "sign"
     \/ pc' = "ready" /\ requests' = sigs /\ sigs' = <<>>
  /\ UNCHANGED <<cli, arns, keys, digest, Kms>>

\* sign: one signer after the other, and no partial result; a call to KMS may fail.
sign_digest ==
  /\ pc = "sign"
  /\ LET i == Len(sigs) + 1 IN
     \/ \E answer \in Answers(arns[i], sign_request(digest)) :
          LET both == Append(sigs, recoverable(answer.sig)) IN
          /\ accepts(answer, i)
          /\ sigs' = IF i = 2 THEN <<>> ELSE both
          /\ requests' = IF i = 2 THEN both ELSE requests
          /\ pc' = IF i = 2 THEN "ready" ELSE "sign"
     \/ pc' = "ready" /\ sigs' = <<>> /\ UNCHANGED requests
  /\ UNCHANGED <<cli, arns, keys, digest, Kms>>

Stop ==
  /\ pc # "down" /\ pc' = "down" /\ sigs' = <<>> /\ keys' = <<>> /\ arns' = <<>>
  /\ requests' = <<>> /\ UNCHANGED <<cli, digest, Kms>>

\* A key is disabled or enabled again, or another one answers for its ARN.
KmsChanges ==
  /\ \E a \in Arns, k \in Keys, fit \in BOOLEAN : kms' = [kms EXCEPT ![a] = [key |-> k, fit |-> fit]]
  /\ steady' = FALSE
  /\ UNCHANGED <<pc, cli, arns, keys, digest, sigs, requests>>

Next ==
  \/ \E c \in Settings : Launch(c)
  \/ check_key_metadata \/ public_key_from_response \/ SignerPair \/ check_expected
  \/ \E d \in Digests : Begin(d)
  \/ sign_digest \/ Stop \/ KmsChanges

Spec == Init /\ [][Next]_vars

----------------------------------------------------------------------------
(* Properties. *)

\* The contract recovers a signer only from the right parity, and takes only the low s.
Recovers(sig) == sig.s = "low" /\ sig.parity = sig.odd

\* A request has both signatures or it is not made: each on the digest of one request,
\* recoverable, by exactly the two expected keys and in ascending order of address,
\* whatever the order of the settings and whatever KMS answers for an ARN after its key was
\* pinned, also between the two signatures (SignerPair::new, signature_from_der, sign).
RequestsAreAccepted ==
  requests # <<>> =>
    /\ Len(requests) = 2
    /\ requests[1].key < requests[2].key
    /\ {requests[1].key, requests[2].key} = Range(cli.expected)
    /\ requests[1].digest = requests[2].digest /\ requests[1].digest[2] = "digest"
    /\ \A i \in 1 .. 2 : Recovers(requests[i])

\* A start with two ARNs that hold the expected keys is not refused while KMS stays as it
\* is, in whichever order either pair of settings was written (check_expected).
RightKeysStart ==
  (pc = "refused" /\ steady) =>
    \/ cli.expected[1] = cli.expected[2]
    \/ {kms[a].key : a \in Range(cli.arns)} # Range(cli.expected)
    \/ \E a \in Range(cli.arns) : ~ kms[a].fit

\* A running attester can sign as long as KMS has the keys of its start: some answer of
\* KMS to the next call is accepted, so an order or a form of the settings that passes
\* the checks cannot leave an attester that signs nothing.
ReadyCanSign ==
  (pc = "sign" /\ steady) =>
    LET i == Len(sigs) + 1
    IN  \E answer \in Answers(arns[i], sign_request(digest)) : accepts(answer, i)

\* All of it: what a request carries, what a start is refused for, and that a started
\* attester can sign.
SignersAreRight == TypeOK /\ RequestsAreAccepted /\ RightKeysStart /\ ReadyCanSign

=============================================================================
