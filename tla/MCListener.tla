------------------------------ MODULE MCListener -------------------------------
(***************************************************************************)
(* The earlier attester (withdrawal-listener-attester): submission with    *)
(* its ledger (SubmitWithdraw), the opening of the ledger                  *)
(* (ListenerStartup), the gate before it signs (ListenerGate), the         *)
(* evidence of a burn (BurnEvidence), from an honest and from a faulty     *)
(* node, and the permits of its Circle client (CircleClient).  The models  *)
(* share no variable, so a property of one holds of all their              *)
(* interleavings when it holds where the others rest: part says which one  *)
(* moves.                                                                  *)
(***************************************************************************)
EXTENDS SubmitWithdraw, SequencesExt

VARIABLES part,
          file, proc, memory, claimed,
          note, cfg, pc, response, claims, signed, refusal,
          chain, reads, at, result, sawSpent,
          perHost, global, task, grants

starting == <<file, proc, memory, claimed>>
gate == <<note, cfg, pc, response, claims, signed, refusal>>
evidence == <<chain, reads, at, result, sawSpent>>
sending == <<perHost, global, task, grants>>

-----------------------------------------------------------------------------
(* Submission: two burns, one of them in two spellings of its hex. *)

MCTx(b, spelling) == [burn |-> b, spelling |-> spelling]

\* Each burn alone, both together, and one burn twice in two spellings.
MCRequests ==
  {<<MCTx("a", "lower")>>, <<MCTx("b", "lower")>>,
   <<MCTx("a", "upper"), MCTx("b", "lower")>>, <<MCTx("a", "lower"), MCTx("a", "upper")>>}

Symmetry == Permutations(Listeners)

-----------------------------------------------------------------------------
(* Two processes; all settings with a file, and the usable ones with other paths. *)

StartSettings ==
  {c \in [scheme : {"https", "http", "ftp", "unparsable"}, host : BOOLEAN, token : BOOLEAN,
          header : BOOLEAN, legal : BOOLEAN, path : {"file", "reserved", "memory_uri"}] :
     \/ c.path = "file" /\ (c.legal \/ c.token)
     \/ c.scheme = "https" /\ c.host /\ ~ c.token /\ c.legal /\ ~ c.header}

Startup == INSTANCE ListenerStartup WITH Procs <- {"p1", "p2"}, Settings <- StartSettings

-----------------------------------------------------------------------------
(* A valid note and one variant per reason to refuse; answers of Circle with any *)
(* amounts, with any single wrong field, and with more batches or intents.      *)

U64 == 5
U128 == 7

Note == [tag |-> "burn", public |-> TRUE, payload |-> "decodes", sender |-> "alice",
         dest_domain |-> 1, dest_recipient |-> "bob", amount |-> 3]

GateNotes ==
  {[Note EXCEPT !.amount = a] : a \in {0, 1, U64}}
  \cup {Note, [Note EXCEPT !.tag = "other"], [Note EXCEPT !.public = FALSE],
        [Note EXCEPT !.payload = "fails"], [Note EXCEPT !.dest_domain = 7]}
  \cup {[Note EXCEPT !.sender = s] : s \in {"absent", "zero", "malformed", "carol"}}

Config == [burn_tag |-> "burn", miden_domain |-> 7, max_withdrawal_fee |-> 2,
           allowlist |-> {1, 2, 3}]

GateConfigs ==
  {Config, [Config EXCEPT !.miden_domain = 0], [Config EXCEPT !.max_withdrawal_fee = U64],
   [Config EXCEPT !.allowlist = {}], [Config EXCEPT !.allowlist = {1, 3}]}

Intent == [value |-> 2, max_fee |-> 1, destination_domain |-> 1, destination_recipient |-> "bob",
           destination_caller |-> "zero", remote_domain |-> 7, remote_depositor |-> "alice",
           remote_token |-> "faucet", forwards |-> FALSE]

Intents ==
  {[Intent EXCEPT !.value = v, !.max_fee = f] : v, f \in 0 .. U128 + 1}
  \cup {[Intent EXCEPT !.destination_domain = 2], [Intent EXCEPT !.destination_recipient = "eve"],
        [Intent EXCEPT !.destination_caller = "eve"], [Intent EXCEPT !.remote_domain = 8],
        [Intent EXCEPT !.remote_depositor = "carol"], [Intent EXCEPT !.remote_token = "other"],
        [Intent EXCEPT !.forwards = TRUE]}

Batch(intents) == [intents |-> intents, hash |-> "d1"]

Answers ==
  {<<Batch(<<i>>)>> : i \in Intents}
  \cup {<<>>, <<Batch(<<>>)>>, <<Batch(<<Intent, Intent>>)>>, <<Batch(<<Intent>>), Batch(<<Intent>>)>>}
  \cup {<<[intents |-> <<Intent>>, hash |-> h]>> : h \in {"missing", "malformed"}}

Sig(k) == [claimed |-> k, signer |-> k, digest |-> "d1", v |-> "evm"]

Sigs == [claimed : 1 .. 3, signer : 1 .. 3, digest : {"d1", "d2"}, v : {"evm"}]
        \cup [claimed : {1}, signer : {1}, digest : {"d1"}, v : {"raw"}]

GateClaims == BoundedSeq(Sigs, 2) \cup {<<Sig(1), Sig(2), Sig(3)>>}

Gate == INSTANCE ListenerGate WITH
  Notes <- GateNotes, Configs <- GateConfigs, Responses <- Answers, Keys <- <<3, 1>>,
  Claims <- GateClaims, Faucet <- "faucet", MaxU64 <- U64, MaxU128 <- U128

-----------------------------------------------------------------------------
(* A chain that makes one note and burns it, read from an honest and from a faulty node. *)

Honest == INSTANCE BurnEvidence WITH
  TxIds <- {"x1", "x2", "x3"}, Faucet <- "faucet", OtherAccount <- "other", NoteId <- "note",
  OtherNote <- "othernote", MaxBlock <- 4, MaxRows <- 4, Faulty <- FALSE, pc <- at

Faulty == INSTANCE BurnEvidence WITH
  TxIds <- {"x1", "x2"}, Faucet <- "faucet", OtherAccount <- "other", NoteId <- "note",
  OtherNote <- "othernote", MaxBlock <- 2, MaxRows <- 3, Faulty <- TRUE, pc <- at

-----------------------------------------------------------------------------
(* Three tasks, two of them on one host; the second ceiling binds across hosts.  Bodies *)
(* are empty here: their reading is in MCListenerRecovery.                              *)

Client == INSTANCE CircleClient WITH
  Tasks <- {"t1", "t2", "t3"}, Hosts <- {"h1", "h2"},
  HostOf <- [t1 |-> "h1", t2 |-> "h1", t3 |-> "h2"], Window <- 2, PerHost <- 2, Global <- 3,
  MaxBytes <- 1, Sizes <- {0}, MaxAttempts <- 1, BaseDelay <- 3, MaxShift <- 1, MaxU64 <- 10,
  Requests <- 2

ASSUME ListenerAssumption == Startup!Assumption /\ Gate!Assumption

-----------------------------------------------------------------------------

\* A part that does not move rests in one of its initial states.
ListenerInit ==
  /\ part \in {"submission", "startup", "gate", "honest", "faulty", "client"}
  /\ Init /\ Honest!Init /\ Client!Init
  /\ Startup!Init /\ (part # "startup" => file.version = 0)
  /\ Gate!Init /\ (part # "gate" => note = Note /\ cfg = Config)

ListenerNext ==
  \/ part = "submission" /\ Next /\ UNCHANGED <<part, starting, gate, evidence, sending>>
  \/ part = "startup" /\ Startup!Next /\ UNCHANGED <<part, vars, gate, evidence, sending>>
  \/ part = "gate" /\ Gate!Next /\ UNCHANGED <<part, vars, starting, evidence, sending>>
  \/ part = "honest" /\ Honest!Next /\ UNCHANGED <<part, vars, starting, gate, sending>>
  \/ part = "faulty" /\ Faulty!Next /\ UNCHANGED <<part, vars, starting, gate, sending>>
  \/ part = "client" /\ Client!Next /\ UNCHANGED <<part, vars, starting, gate, evidence>>

ListenerSpec ==
  ListenerInit /\ [][ListenerNext]_<<part, vars, starting, gate, evidence, sending>>

-----------------------------------------------------------------------------
(* Properties of the parts; those of submission have their own names. *)

\* Over every stop, restart and settings file, opening the ledger is safe: a burn is claimed once,
\* as no ledger that opens forgets a claim or takes a row it cannot read for none; a ledger that
\* opened has its table and its stamp, also when two processes made the file at once; and a process
\* that runs with a token sends it, and only over https (open, read_record, validate).
OpeningIsSafe == part = "startup" => Startup!OpeningIsSafe

\* Whatever Circle and the signer return, every batch a key has signed holds one intent, which pays
\* the burn of this run, and what run_once hands to submit_withdraw is accepted by the source
\* chain's verifier.  And the gates refuse nothing else: a valid note, an answer that pays it with
\* any fee up to the limit, and two registered signers are only stopped by a failing call.
GateIsExact == part = "gate" => Gate!GateIsExact

\* From an honest node, with the chain moving between the reads, assemble_evidence never finds a
\* contradiction, and a package names the transaction that burned the note.  From a faulty one its
\* conclusion does not depend on the order of the rows, nor on how often one is repeated, and rows
\* that are added to the true one cannot make the package name another transaction (linkage).
EvidenceIsTrue ==
  /\ part = "honest" => Honest!TypeOK /\ Honest!HonestReadsAgree
  /\ part = "faulty" => Faulty!TypeOK /\ Faulty!OrderDoesNotMatter /\ Faulty!TrueRowPrevails

\* Whichever tasks race for a slot, no window of one RATE_WINDOW ever holds more permits for a
\* host, or overall, than acquire's two ceilings.
CeilingsHold == part = "client" => Client!TypeOK /\ Client!CeilingsHold

=============================================================================
