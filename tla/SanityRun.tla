------------------------------ MODULE SanityRun -------------------------------
(***************************************************************************)
(* Runs of the sanity gate (sanity/mod.rs, checks.rs, evidence.rs and the  *)
(* sanity_e2e binary): one after the other against a faucet that others    *)
(* use too, or each on a fresh faucet of its own.  The admin family is     *)
(* SanityAdmin; here it is one step.                                       *)
(***************************************************************************)
EXTENDS SanityDriver

CONSTANTS Configs,        \* the command lines
          Deployed,       \* the states a deployed faucet may be in
          FreshFaucet,    \* what deploy_fresh_faucet deploys
          MaxRuns,        \* bound: runs
          MaxOthers,      \* bound: mints and burns by other users
          OtherAmounts

Assumption ==
  /\ MaxRuns \in 1 .. 2
  /\ Configs \subseteq [existing : BOOLEAN, local : BOOLEAN, key : BOOLEAN, logs : BOOLEAN]

VARIABLES pc, cfg, run,
          todo,
          led,       \* rows and what they look at: passed and failed
          mine,      \* the notes this run submitted
          base,      \* token_supply before the negatives
          room,      \* the amount that exceeds the cap as it was read
          others     \* moves of other users so far

vars == <<driver_vars, pc, cfg, run, todo, led, mine, base, room, others>>
run_vars == <<cfg, run>>

\* The harness creates its wallets anew in every run.
Recipient == <<"recipient1", "recipient2">>[run]
Holder == <<"holder1", "holder2">>[run]

TypeOK ==
  /\ pc \in {"idle", "setup", "running", "reported", "failed"} /\ cfg \in Configs
  /\ run \in 0 .. MaxRuns /\ others \in 0 .. MaxOthers
  /\ led.passed \cap led.failed = {} /\ \A n \in mine \cup flight : n.id \in 1 .. sent
  /\ base \in Nat /\ room \in Nat /\ faucet.supply \in 0 .. faucet.max
  /\ wait # NoNote => wait \in mine /\ pc = "running"

Init ==
  /\ faucet \in Deployed /\ flight = {} /\ paid = {} /\ sent = 0 /\ wait = NoNote /\ before = 0
  /\ pc = "idle" /\ cfg \in Configs /\ run = 0 /\ todo = <<>> /\ mine = {} /\ base = 0 /\ room = 0
  /\ led = [passed |-> {}, failed |-> {}] /\ others = 0

----------------------------------------------------------------------------
(* The steps of a run. *)

mint_and_assert(amount, salt, row) ==
  <<commit(mint_note_for("mint", Recipient, amount, salt), row),
    Step("receive", mint_note_for("mint", Recipient, amount, salt), row, "none")>>

negatives_suite ==
  <<Step("base", NoNote, "none", "none"),
    probe(mint_note_for("other", Recipient, MINT_ROUND_UNITS, "wrong"), "NEG-WRONG-ATTESTER", "disallowed"),
    probe(mint_note_for("forged", Recipient, MINT_ROUND_UNITS, "forged"), "NEG-FORGED-SIG", "signature"),
    probe(mint_note_for("mint", Recipient, MINT_ROUND_UNITS, "round"), "NEG-REPLAY", "replay"),
    Step("room", NoNote, "none", "none"),
    Step("overcap", mint_note_for("mint", Recipient, 0, "overcap"), "NEG-OVER-CAP", "cap"),
    Step("supply", NoNote, "NEG-NO-SUPPLY-MOVE", "none")>>

fund_and_burn ==
  <<commit(mint_note_for("mint", Holder, BURN_UNITS, "holder"), "none"),
    Step("collect", mint_note_for("mint", Holder, BURN_UNITS, "holder"), "BURN-FUND", "none"),
    commit(burn_note(BURN_UNITS), "BURN-AMOUNT")>>

burn_and_assert ==
  fund_and_burn \o <<Step("discover", NoNote, "BURN-DISCOVER", "none"),
                     Step("evidence", NoNote, "BURN-EVIDENCE", "none")>>

When(condition, steps) == IF condition THEN steps ELSE <<>>

run_sanity ==
  When(~ cfg.existing, <<commit(set_attester(TRUE), "none")>>)
  \o mint_and_assert(MINT_ROUND_UNITS, "round", "MINT-ROUND")
  \o mint_and_assert(MINT_NONROUND_UNITS, "nonround", "MINT-NONROUND")
  \o negatives_suite \o burn_and_assert
  \o When(~ cfg.existing, <<Step("admin", NoNote, "ADMIN", "none")>>)
  \o When(cfg.logs, <<Step("logs", NoNote, "NODE-LOGS-CLEAN", "none")>>)

----------------------------------------------------------------------------
(* Starting a run. *)

\* Any node will do.
MutDecideRunMode(c) == TRUE

\* A faucet is deployed, and its admin surface used, on a local node only.
decide_run_mode(c) == ~ c.existing => c.local

\* A run against a deployed faucet needs a key.
Launch(c) ==
  /\ pc \in {"idle", "reported", "failed"} /\ run < MaxRuns
  /\ decide_run_mode(c) /\ (c.existing => c.key)
  /\ pc' = "setup" /\ cfg' = c /\ run' = run + 1
  /\ mine' = {} /\ led' = [passed |-> {}, failed |-> {}] /\ todo' = <<>>
  /\ UNCHANGED <<driver_vars, base, room, others>>

Ready == pc' = "running" /\ todo' = run_sanity /\ UNCHANGED <<led, mine, base, room, others, run_vars>>

deploy_fresh_faucet ==
  /\ pc = "setup" /\ ~ cfg.existing
  /\ faucet' = FreshFaucet /\ flight' = {} /\ UNCHANGED <<paid, sent, wait, before>>
  /\ Ready

\* The faucet is known to the node, and its identifier is derived from its own id.
resolve_deployed_mint_config ==
  /\ pc = "setup" /\ cfg.existing /\ faucet.identifier = "own"
  /\ UNCHANGED driver_vars /\ Ready

----------------------------------------------------------------------------
(* Running. *)

NextIs(kind) == pc = "running" /\ wait = NoNote /\ todo # <<>> /\ Head(todo).do = kind

\* The rows of a step, each with what it looks at.
Recorded(row, holds) ==
  led' = IF row = "none" THEN led
         ELSE [passed |-> led.passed \cup {<<row, a>> : a \in {b \in DOMAIN holds : holds[b]}},
               failed |-> led.failed \cup {<<row, a>> : a \in {b \in DOMAIN holds : ~ holds[b]}}]

Advance ==
  /\ todo' = Tail(todo) /\ UNCHANGED <<pc, mine, base, room, others, run_vars>>

\* An infrastructure failure ends the run without a report.
Fail ==
  /\ pc' = "failed" /\ todo' = <<>> /\ UNCHANGED <<led, base, room, others, run_vars>>

EmitNote ==
  /\ NextIs("commit") /\ emit(Head(todo).note)
  /\ mine' = mine \cup {wait'} /\ UNCHANGED <<pc, todo, led, base, room, others, run_vars>>

EmitFails == NextIs("commit") /\ emit_fails(Head(todo).note) /\ UNCHANGED mine /\ Fail

\* The same read of the account shows the supply and the nonce.
Commits ==
  /\ pc = "running" /\ committed /\ Advance
  /\ Recorded(Head(todo).row,
              IF wait.op = "mint"
              THEN [supply |-> faucet.supply = before + wait.amount, nonce |-> wait.salt \in faucet.nonces]
              ELSE [supply |-> TRUE])

\* The driver polls as long as its note is on chain.
MutTimesOut == pc = "running" /\ wait \notin flight /\ timed_out /\ UNCHANGED mine /\ Fail

TimesOut == pc = "running" /\ timed_out /\ UNCHANGED mine /\ Fail

Probe ==
  /\ NextIs("probe") /\ UNCHANGED driver_vars /\ Advance
  /\ \E v \in Verdicts(Head(todo).note) : Recorded(Head(todo).row, [gate |-> v = Head(todo).expect])

Receive ==
  /\ NextIs("receive") /\ UNCHANGED driver_vars /\ Advance
  /\ \E found \in BOOLEAN :
       /\ found => wait_for_target_note(Head(todo).note.by, Head(todo).note.amount)
       /\ Recorded(Head(todo).row, [dest |-> found])

Collect ==
  /\ NextIs("collect") /\ target_consume(Head(todo).note.by, Head(todo).note.amount)
  /\ Advance /\ Recorded(Head(todo).row, [fund |-> TRUE])

ReadBase ==
  /\ NextIs("base") /\ base' = faucet.supply /\ todo' = Tail(todo)
  /\ UNCHANGED <<driver_vars, pc, led, mine, room, others, run_vars>>

\* An amount that just fits.
MutReadRoom ==
  /\ NextIs("room") /\ room' = Max({0, faucet.max - faucet.supply}) /\ todo' = Tail(todo)
  /\ UNCHANGED <<driver_vars, pc, led, mine, base, others, run_vars>>

ReadRoom ==
  /\ NextIs("room") /\ room' = Max({0, faucet.max - faucet.supply}) + 1 /\ todo' = Tail(todo)
  /\ UNCHANGED <<driver_vars, pc, led, mine, base, others, run_vars>>

OverCap ==
  /\ NextIs("overcap") /\ UNCHANGED driver_vars /\ Advance
  /\ \E v \in Verdicts([Head(todo).note EXCEPT !.amount = room]) :
       Recorded(Head(todo).row, [gate |-> v = "cap"])

NoSupplyMove ==
  /\ NextIs("supply") /\ UNCHANGED driver_vars /\ Advance
  /\ Recorded(Head(todo).row, [supply |-> faucet.supply = base])

\* The note was emitted by a committed transaction; a failed read fails the row.
syncnotes_discovers ==
  /\ NextIs("discover") /\ UNCHANGED driver_vars /\ Advance
  /\ \E found \in BOOLEAN : Recorded(Head(todo).row, [tag |-> found])

BurnNotes == {n \in mine : n.op = "burn"}

\* A note on chain is evidence enough.
MutAssertBurnEvidence ==
  /\ NextIs("evidence") /\ UNCHANGED driver_vars /\ Advance
  /\ \E found \in BOOLEAN : Recorded(Head(todo).row, [packet |-> found])

\* The packet needs the block of the nullifier and the faucet's transaction that has it.
assert_burn_evidence ==
  /\ NextIs("evidence") /\ UNCHANGED driver_vars /\ Advance
  /\ \E found \in BOOLEAN :
       /\ found => \A n \in BurnNotes : note_spent(n)
       /\ Recorded(Head(todo).row, [packet |-> found])

\* admin_suite returns with its rows.
AdminSuite ==
  /\ NextIs("admin") /\ UNCHANGED driver_vars /\ Advance
  /\ \E passed \in BOOLEAN : Recorded(Head(todo).row, [suite |-> passed])

\* Every service's log is there, is not empty and has no line that is not expected.
log_check ==
  /\ NextIs("logs") /\ UNCHANGED driver_vars /\ Advance
  /\ \E clean \in BOOLEAN : Recorded(Head(todo).row, [clean |-> clean])

\* A read of any other step fails, or setting up does.
StepFails ==
  /\ pc = "setup" \/ \E kind \in {"probe", "collect", "base", "room", "overcap", "supply", "admin"} :
                        NextIs(kind)
  /\ UNCHANGED <<driver_vars, mine>> /\ Fail

all_passed == led.failed = {}

Report ==
  /\ pc = "running" /\ todo = <<>> /\ pc' = "reported"
  /\ UNCHANGED <<driver_vars, todo, led, mine, base, room, others, cfg, run>>

----------------------------------------------------------------------------
(* The rest of the world. *)

\* Others mint and burn, with nonces of their own.
Others ==
  /\ pc = "running" /\ cfg.existing /\ others < MaxOthers /\ others' = others + 1
  /\ \E k \in OtherAmounts :
       faucet' \in {[faucet EXCEPT !.supply = s] :
                      s \in {faucet.supply + k, faucet.supply - k} \cap 0 .. faucet.max}
  /\ UNCHANGED <<flight, paid, sent, wait, before, pc, todo, led, mine, base, room, run_vars>>

Builder == NtxBuilder /\ UNCHANGED <<pc, todo, led, mine, base, room, others, run_vars>>

Driver ==
  \/ deploy_fresh_faucet \/ resolve_deployed_mint_config
  \/ EmitNote \/ EmitFails \/ Commits \/ TimesOut
  \/ Probe \/ Receive \/ Collect \/ ReadBase \/ ReadRoom \/ OverCap \/ NoSupplyMove
  \/ syncnotes_discovers \/ assert_burn_evidence \/ AdminSuite \/ log_check
  \/ StepFails \/ Report

Next == (\E c \in Configs : Launch(c)) \/ Driver \/ Others \/ Builder

Spec == Init /\ [][Next]_vars

\* The driver's waits are bounded; the node need never consume a note.
FairSpec == Spec /\ WF_vars(Driver)

----------------------------------------------------------------------------
(* Properties. *)

\* A report without a failed row is true of its own notes: every one of them was consumed by
\* the faucet, also when others' mints and burns move the supply just as its own would, and
\* when notes of an earlier run are consumed meanwhile.
ReportIsTrue == pc = "reported" /\ all_passed => \A n \in mine : note_spent(n)

\* On a fresh faucet that works no check on the supply, a nonce or a gate fails: what fails
\* there is a read, a bounded wait, the admin family or the logs.
GoodFaucetPasses ==
  ~ cfg.existing =>
    \A f \in led.failed : f[2] \in {"dest", "tag", "packet", "suite", "clean"}

\* No note that changes a policy goes to a faucet that was there before the run or that is on
\* a remote node, and the admin family does not run against one ("it NEVER mutates the
\* deployed faucet").
DeployedIsUntouched ==
  pc \in {"running", "reported"} /\ (cfg.existing \/ ~ cfg.local) =>
    /\ \A n \in mine : n.op \notin PolicyOps
    /\ \A f \in led.passed \cup led.failed : f[1] # "ADMIN"

\* A run that has begun ends, whether or not the node ever consumes its notes (the bounded
\* waits of commit_via_ntx).
RunsEnd == (pc = "setup") ~> (pc \in {"reported", "failed"})

=============================================================================
