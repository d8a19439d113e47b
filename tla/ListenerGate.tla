----------------------------- MODULE ListenerGate -----------------------------
(***************************************************************************)
(* One run of the earlier attester up to its submission (withdrawal-       *)
(* listener-attester: listener/mod.rs run_once, stages B3 to B7): the note *)
(* is checked, Circle is asked to prepare its withdrawal, the answer is    *)
(* compared with the note, the batch is signed, and the signatures are     *)
(* checked before anything is sent.  Circle may answer anything, and the   *)
(* signer may be any implementation of its port.  What happens to a        *)
(* submission is module SubmitWithdraw, the evidence is BurnEvidence.      *)
(*                                                                         *)
(* Amounts are numbers of the widths the code parses them to.  A decimal   *)
(* string that does not parse is a number above MaxU128.                   *)
(***************************************************************************)
EXTENDS Naturals, Sequences, Functions, TLC

CONSTANTS Notes,        \* DiscoveryRecords
          Configs,      \* ListenerConfigs
          Responses,    \* what Circle may answer to prepare-withdrawal
          Keys,         \* the signer's keys, as addresses
          Claims,       \* what another signer may return for a batch
          Faucet,       \* the faucet's id
          MaxU64, MaxU128

\* A note as it was found; sender says how metadata.sender reads.
DiscoveryRecord ==
  [tag : STRING, public : BOOLEAN, payload : {"decodes", "fails"}, sender : STRING,
   dest_domain : Nat, dest_recipient : STRING, amount : 0 .. MaxU64]

ListenerConfig ==
  [burn_tag : STRING, miden_domain : Nat, max_withdrawal_fee : 0 .. MaxU64,
   allowlist : SUBSET (Nat \ {0})]

\* The fields of BurnIntent, TransferSpec and StructuredHookData the gate looks at.
BurnIntent ==
  [value : Nat, max_fee : Nat, destination_domain : Nat, destination_recipient : STRING,
   destination_caller : STRING, remote_domain : Nat, remote_depositor : STRING,
   remote_token : STRING, forwards : BOOLEAN]

PreparedBatch == [intents : Seq(BurnIntent), hash : STRING]

\* A signature with the address it is claimed for: what it signs and its v.
Signature65 == [claimed : Nat \ {0}, signer : Nat \ {0}, digest : STRING, v : {"evm", "raw"}]

Assumption ==
  /\ MaxU64 \in Nat /\ MaxU128 \in Nat /\ MaxU64 < MaxU128
  /\ Notes \subseteq DiscoveryRecord /\ Configs \subseteq ListenerConfig
  /\ Keys \in Seq(Nat \ {0}) /\ Responses \subseteq Seq(PreparedBatch)
  /\ Claims \subseteq Seq(Signature65)

VARIABLES note, cfg, pc,
          response,     \* PrepareWithdrawalResponse
          claims,       \* (Address, Signature65) of the batch
          signed,       \* every batch some key has signed
          refusal       \* the RunError, or "none"

vars == <<note, cfg, pc, response, claims, signed, refusal>>

TypeOK ==
  /\ note \in Notes /\ cfg \in Configs
  /\ pc \in {"discover", "prepare", "validate", "sign", "quorum", "evidence", "authorize",
             "submit", "refused"}
  /\ response \in Responses \cup {<<>>}
  /\ signed \subseteq UNION {Range(r) : r \in Responses}
  /\ pc = "refused" <=> refusal # "none"
  /\ pc \in {"evidence", "authorize", "submit"} => Len(claims) = 2

Init ==
  /\ note \in Notes /\ cfg \in Configs
  /\ pc = "discover" /\ response = <<>> /\ claims = <<>> /\ signed = {} /\ refusal = "none"

Refuse(reason) == pc' = "refused" /\ refusal' = reason
Proceed(stage) == pc' = stage /\ refusal' = refusal

----------------------------------------------------------------------------
(* B3 and B4: the note, and the request. *)

read_sender(sender) == sender \notin {"absent", "zero", "malformed"}

validate_discovery(n, c) ==
  /\ n.tag = c.burn_tag /\ n.public
  /\ n.payload = "decodes" /\ read_sender(n.sender)

Discover ==
  /\ pc = "discover"
  /\ \/ ~ validate_discovery(note, cfg) /\ Refuse("discovery")
     \/ validate_discovery(note, cfg) /\ Proceed("prepare")
  /\ UNCHANGED <<note, cfg, response, claims, signed>>

\* PrepareBurnIntentInput::validate.
build_prepare_request(n, c) == c.miden_domain >= 1 /\ c.miden_domain # n.dest_domain

\* The request is built and answered, or one of the two fails.
Prepare ==
  /\ pc = "prepare"
  /\ \/ ~ build_prepare_request(note, cfg) /\ Refuse("schema") /\ UNCHANGED response
     \/ build_prepare_request(note, cfg) /\ Refuse("circle") /\ UNCHANGED response
     \/ /\ build_prepare_request(note, cfg)
        /\ \E r \in Responses : response' = r
        /\ Proceed("validate")
  /\ UNCHANGED <<note, cfg, claims, signed>>

----------------------------------------------------------------------------
(* B5: validate_returned. *)

Least(a, b) == IF a <= b THEN a ELSE b

\* A fee at the limit is refused.
MutCheckMaxFee(intent, n, c) == intent.max_fee < Least(c.max_withdrawal_fee, n.amount)

check_max_fee(intent, n, c) ==
  intent.max_fee <= MaxU128 /\ intent.max_fee <= Least(c.max_withdrawal_fee, n.amount)

check_hook_data(intent, n, c) ==
  /\ intent.remote_domain = c.miden_domain
  /\ intent.remote_depositor = n.sender
  /\ intent.remote_token = Faucet
  /\ ~ intent.forwards

amount_matches(intent, n) ==
  /\ intent.value <= MaxU128 /\ intent.value > 0
  /\ intent.value + intent.max_fee <= MaxU128
  /\ intent.value + intent.max_fee = n.amount

check_spec(intent, n, c) ==
  /\ amount_matches(intent, n)
  /\ intent.destination_domain = n.dest_domain
  /\ intent.destination_recipient = n.dest_recipient
  /\ intent.destination_caller = "zero"
  /\ check_hook_data(intent, n, c)

check_intent(intent, n, c) == check_max_fee(intent, n, c) /\ check_spec(intent, n, c)

decode_digest(hash) == hash \notin {"missing", "malformed"}

validate_returned(r, n, c) ==
  /\ r # <<>>
  /\ \A b \in Range(r) :
       /\ b.intents # <<>>
       /\ \A i \in Range(b.intents) : check_intent(i, n, c)
       /\ decode_digest(b.hash)

\* Only batches are counted.
MutValidate ==
  /\ pc = "validate"
  /\ \/ ~ validate_returned(response, note, cfg) /\ Refuse("validation")
     \/ validate_returned(response, note, cfg) /\ Len(response) # 1 /\ Refuse("batch_cardinality")
     \/ validate_returned(response, note, cfg) /\ Len(response) = 1 /\ Proceed("sign")
  /\ UNCHANGED <<note, cfg, response, claims, signed>>

\* Every intent of every batch is the burn's; then one batch, then one intent.
Validate ==
  /\ pc = "validate"
  /\ \/ ~ validate_returned(response, note, cfg) /\ Refuse("validation")
     \/ /\ validate_returned(response, note, cfg)
        /\ \/ Len(response) # 1 /\ Refuse("batch_cardinality")
           \/ /\ Len(response) = 1
              /\ \/ Len(response[1].intents) # 1 /\ Refuse("intent_cardinality")
                 \/ Len(response[1].intents) = 1 /\ Proceed("sign")
  /\ UNCHANGED <<note, cfg, response, claims, signed>>

----------------------------------------------------------------------------
(* B6: the signatures. *)

\* A signature of key over a digest, claimed for that key's address.
Signed(key, digest) == [claimed |-> key, signer |-> key, digest |-> digest, v |-> "evm"]

NoSigner == 0

\* Over another digest, or with another v, it recovers no address that matters.
recover_address(digest, sig) ==
  IF sig.digest = digest /\ sig.v = "evm" THEN sig.signer ELSE NoSigner

\* LocalKeyQuorumSigner: every key signs, sorted by address, repeats kept.
sign_batches(keys, digest) ==
  LET sorted == SortSeq(keys, LAMBDA a, b : a < b)
  IN  [n \in DOMAIN keys |-> Signed(sorted[n], digest)]

\* The signer's own, another implementation's, or an error.
Sign ==
  /\ pc = "sign"
  /\ \/ claims' = sign_batches(Keys, response[1].hash) /\ Proceed("quorum")
     \/ claims' \in Claims /\ Proceed("quorum")
     \/ Refuse("sign") /\ UNCHANGED claims
     \/ Refuse("signer_cardinality") /\ UNCHANGED claims
  /\ signed' = signed \cup {response[1]}
  /\ UNCHANGED <<note, cfg, response>>

\* MIN_SIGNATURE_THRESHOLD signatures, each its claimed signer's, ascending.
assemble_quorum(digest, sigs) ==
  /\ Len(sigs) = 2
  /\ \A n \in DOMAIN sigs : recover_address(digest, sigs[n]) = sigs[n].claimed
  /\ \A n, k \in DOMAIN sigs : n # k => sigs[n].claimed # sigs[k].claimed
  /\ \A n \in DOMAIN sigs : n > 1 => sigs[n - 1].claimed < sigs[n].claimed

Quorum ==
  /\ pc = "quorum"
  /\ \/ ~ assemble_quorum(response[1].hash, claims) /\ Refuse("quorum")
     \/ assemble_quorum(response[1].hash, claims) /\ Proceed("evidence")
  /\ UNCHANGED <<note, cfg, response, claims, signed>>

----------------------------------------------------------------------------
(* B7: the evidence and the gate before the submission. *)

Evidence ==
  /\ pc = "evidence"
  /\ Refuse("evidence") \/ Proceed("authorize")
  /\ UNCHANGED <<note, cfg, response, claims, signed>>

\* WithdrawBatch::new and WithdrawRequest::new, for one intent in one batch.
build_withdraw_batch(intents, sigs) == Len(intents) \in 1 .. 10 /\ Len(sigs) >= 2

\* An empty allowlist lets every signer pass.
MutAuthorizeSubmission(digest, sigs, c) ==
  \/ c.allowlist = {}
  \/ \A n \in DOMAIN sigs : recover_address(digest, sigs[n]) \in c.allowlist

authorize_submission(digest, sigs, c) ==
  /\ c.allowlist # {}
  /\ \A n \in DOMAIN sigs :
       /\ recover_address(digest, sigs[n]) # NoSigner
       /\ recover_address(digest, sigs[n]) \in c.allowlist

Authorize ==
  /\ pc = "authorize"
  /\ build_withdraw_batch(response[1].intents, claims)
  /\ \/ ~ authorize_submission(response[1].hash, claims, cfg) /\ Refuse("submit_gate")
     \/ authorize_submission(response[1].hash, claims, cfg) /\ Proceed("submit")
  /\ UNCHANGED <<note, cfg, response, claims, signed>>

Next == Discover \/ Prepare \/ Validate \/ Sign \/ Quorum \/ Evidence \/ Authorize

Spec == Init /\ [][Next]_vars

----------------------------------------------------------------------------
(* Properties. *)

\* The intent pays the burn: what arrives and what is kept as a fee add up to the
\* burned amount as numbers of any width, within the configured fee, for the
\* recipient and the depositor of the note.
Pays(intent) ==
  /\ intent.value > 0 /\ intent.value + intent.max_fee = note.amount
  /\ intent.max_fee <= cfg.max_withdrawal_fee
  /\ intent.destination_domain = note.dest_domain
  /\ intent.destination_recipient = note.dest_recipient
  /\ intent.remote_depositor = note.sender /\ ~ intent.forwards

\* Whatever Circle returns, every batch a key has signed holds one intent, which
\* pays the burn of this run: no signature exists that releases it twice.
SignedReleasesOnce ==
  \A b \in signed : Len(b.intents) = 1 /\ Pays(b.intents[1])

\* Two signatures by two registered attesters in ascending order over the digest of
\* the batch, as the verifier on the source chain asks.
VerifiesOnChain(sigs, digest) ==
  /\ Len(sigs) = 2
  /\ \A n \in 1 .. 2 : sigs[n].signer \in cfg.allowlist /\ sigs[n].digest = digest
  /\ sigs[1].signer < sigs[2].signer

\* Whatever the signer returns, what run_once hands to submit_withdraw is accepted by
\* the source chain's verifier.
SubmittedVerifies == pc = "submit" => VerifiesOnChain(claims, response[1].hash)

\* The gates refuse nothing else: a valid note, an answer that pays it with any fee
\* up to the limit, and two registered signers named rightly are only stopped by a
\* failing call.
GoodRunsPass ==
  (/\ pc = "refused" /\ refusal \notin {"circle", "sign", "signer_cardinality", "evidence"}
   /\ validate_discovery(note, cfg) /\ build_prepare_request(note, cfg)) =>
    \/ ~ \E b \in Range(response) :
           /\ Len(response) = 1 /\ Len(b.intents) = 1 /\ decode_digest(b.hash)
           /\ b.intents[1].destination_caller = "zero" /\ b.intents[1].remote_token = Faucet
           /\ b.intents[1].remote_domain = cfg.miden_domain
           /\ Pays(b.intents[1])
    \/ /\ refusal \in {"quorum", "submit_gate"}
       /\ \/ ~ VerifiesOnChain(claims, response[1].hash)
          \/ \E n \in DOMAIN claims : claims[n].claimed # claims[n].signer \/ claims[n].v # "evm"

\* All of it: what is signed, what is sent, and what is refused.
GateIsExact == TypeOK /\ SignedReleasesOnce /\ SubmittedVerifies /\ GoodRunsPass

=============================================================================
