----------------------------- MODULE SanityAdmin ------------------------------
(***************************************************************************)
(* The admin family of the sanity gate and the restore that always follows *)
(* it (admin.rs, admin_restore.rs), on a faucet nobody else uses.  A check *)
(* that fails leaves the rest of the checks out, and its note may still be *)
(* on chain.  Ownership is reconciled in cycles that read, plan and act;   *)
(* the policy is restored from one read.                                   *)
(***************************************************************************)
EXTENDS SanityDriver

CONSTANTS RAISED_MAX_SUPPLY,
          MAX_OWNERSHIP_RECONCILE_ATTEMPTS

ASSUME AdminAssumption == MAX_OWNERSHIP_RECONCILE_ATTEMPTS \in Nat \ {0}

VARIABLES pc,
          orig,      \* min_burn and max_supply before the suite
          todo,      \* the steps left in the checks, the ownership action or the policy restore
          attempt,   \* the cycle of reconcile_ownership
          ok,        \* no policy restore has failed
          led,       \* the rows recorded: passed and failed
          stray      \* notes of the checks that were on chain unconsumed when the restore began

vars == <<driver_vars, pc, orig, todo, attempt, ok, led, stray>>

Pause == Note("pause", "pauser", "none", 0, "none")
Unpause == Note("unpause", "pauser", "none", 0, "none")

----------------------------------------------------------------------------
(* admin_checks, family by family. *)

PauseChecks ==
  <<commit(Pause, "PAUSE"),
    probe(mint_note_for("mint", "recipient", MINT_ROUND_UNITS, "paused"), "PAUSE-MINT", "paused"),
    probe(burn_note(BURN_UNITS), "PAUSE-BURN", "paused"),
    commit(Unpause, "UNPAUSE"),
    commit(mint_note_for("mint", "recipient", MINT_ROUND_UNITS, "unpause"), "UNPAUSE-MINT"),
    Step("receive", mint_note_for("mint", "recipient", MINT_ROUND_UNITS, "unpause"),
         "UNPAUSE-MINT-DEST", "none")>>

AttesterChecks ==
  <<commit(set_attester(FALSE), "ATTESTER-DISABLE"),
    probe(mint_note_for("mint", "recipient", MINT_ROUND_UNITS, "disabled"),
          "ATTESTER-ROTATED-OUT", "disallowed"),
    commit(set_attester(TRUE), "ATTESTER-REENABLE")>>

MinBurnChecks ==
  <<commit(min_burn_config_note(RAISED_MIN_BURN), "MINBURN-RAISE"),
    probe(burn_note(BURN_UNITS), "MINBURN-REJECT", "below_min"),
    commit(min_burn_config_note(LOWERED_MIN_BURN), "MINBURN-LOWER"),
    commit(mint_note_for("mint", "holder", BURN_UNITS, "holder2"), "none"),
    Step("collect", mint_note_for("mint", "holder", BURN_UNITS, "holder2"), "BURN-OK-FUND", "none"),
    commit(burn_note(BURN_UNITS), "BURN-OK-AMOUNT")>>

\* Amounts of the steps marked "supply" count from the supply of the moment.
MutMaxSupplyChecks ==
  <<commit(max_supply_config_note(RAISED_MAX_SUPPLY), "MAXSUPPLY-RAISE"),
    Step("commit", max_supply_config_note(BURN_UNITS * 2), "none", "supply"),
    probe(mint_note_for("mint", "recipient", BURN_UNITS * 2, "cap"), "MAXSUPPLY-ENFORCE", "cap"),
    Step("probe", max_supply_config_note(-1), "MAXSUPPLY-BELOW-SUPPLY", "below_supply")>>

MaxSupplyChecks ==
  <<commit(max_supply_config_note(RAISED_MAX_SUPPLY), "MAXSUPPLY-RAISE"),
    Step("commit", max_supply_config_note(BURN_UNITS), "none", "supply"),
    probe(mint_note_for("mint", "recipient", BURN_UNITS * 2, "cap"), "MAXSUPPLY-ENFORCE", "cap"),
    Step("probe", max_supply_config_note(-1), "MAXSUPPLY-BELOW-SUPPLY", "below_supply")>>

\* The gate's expected error is the one from before the setters had a role of their own.
OwnerChecks ==
  <<probe([set_attester(TRUE) EXCEPT !.by = "holder", !.who = "other"], "OWNER-GATE", "not_owner"),
    commit(transfer_ownership("owner", "ephemeral"), "OWNER-TRANSFER"),
    commit(accept_ownership("ephemeral"), "OWNER-ACCEPT")>>

admin_checks == PauseChecks \o AttesterChecks \o MinBurnChecks \o MaxSupplyChecks \o OwnerChecks

TypeOK ==
  /\ pc \in {"start", "checks", "observe", "owner", "policy", "restore", "done"}
  /\ orig \in [min : Nat, max : Nat] /\ attempt \in 0 .. MAX_OWNERSHIP_RECONCILE_ATTEMPTS
  /\ Len(todo) <= Len(admin_checks) /\ ok \in BOOLEAN
  /\ led.passed \cap led.failed = {} /\ Cardinality(stray) <= 1
  /\ \A n \in flight \cup stray : n.id \in 1 .. sent
  /\ faucet.supply \in 0 .. faucet.max
  /\ faucet.owner \in {"owner", "ephemeral"} /\ faucet.nominee \in {"none", "owner", "ephemeral"}

Init ==
  /\ faucet \in [owner : {"owner"}, nominee : {"none"}, paused : {FALSE}, attesters : {{"mint"}},
                 min : {LOWERED_MIN_BURN, BURN_UNITS},
                 max : {RAISED_MAX_SUPPLY - 1}, supply : {MINT_NONROUND_UNITS}, nonces : {{}}]
  /\ flight = {} /\ paid = {} /\ sent = 0 /\ wait = NoNote /\ before = 0
  /\ pc = "start" /\ orig = [min |-> 0, max |-> 0] /\ todo = <<>> /\ attempt = 0 /\ ok = TRUE
  /\ led = [passed |-> {}, failed |-> {}] /\ stray = {}

----------------------------------------------------------------------------
(* Running steps.  What follows a step that succeeds or fails depends on the phase. *)

record(row, pass) ==
  led' = IF row = "none" THEN led
         ELSE IF pass THEN [led EXCEPT !.passed = @ \cup {row}]
         ELSE [led EXCEPT !.failed = @ \cup {row}]

\* The supply rises by exactly the minted amount.
Holds(s) == s.note.op = "mint" => faucet.supply = before + s.note.amount

\* The note of the next step; only the checks have amounts that count from the supply.
Built(s) ==
  IF s.note.op = "max_supply" /\ s.expect \in {"supply", "below_supply"}
  THEN [s.note EXCEPT !.amount = Max({0, @ + faucet.supply})] ELSE s.note

\* The rest of the checks is left out.
Abandon ==
  /\ pc' = "observe" /\ todo' = <<>> /\ attempt' = 0 /\ stray' = flight'
  /\ UNCHANGED <<orig, ok>>

\* The last check hands over to the restore as well.
Done(s, pass) ==
  \/ /\ pc = "checks" /\ record(s.row, pass) /\ UNCHANGED <<orig, attempt, ok>>
     /\ todo' = Tail(todo)
     /\ IF Len(todo) = 1 THEN pc' = "observe" /\ stray' = flight' ELSE UNCHANGED <<pc, stray>>
  \/ /\ pc = "owner" /\ todo' = Tail(todo) /\ UNCHANGED <<orig, ok, led, stray>>
     /\ IF Len(todo) = 1 THEN pc' = "observe" /\ attempt' = attempt + 1
        ELSE UNCHANGED <<pc, attempt>>
  \/ /\ pc = "restore" /\ todo' = Tail(todo)
     /\ UNCHANGED <<pc, orig, attempt, ok, led, stray>>

\* A failed policy restore is passed over.
MutFailed(s) ==
  \/ /\ pc = "checks" /\ Abandon
     /\ IF s.row = "OWNER-ACCEPT" THEN record(s.row, FALSE) ELSE UNCHANGED led
  \/ /\ pc = "owner" /\ pc' = "observe" /\ todo' = <<>> /\ attempt' = attempt + 1
     /\ UNCHANGED <<orig, ok, led, stray>>
  \/ /\ pc = "restore" /\ todo' = Tail(todo)
     /\ UNCHANGED <<pc, orig, attempt, ok, led, stray>>

\* A failed accept is recorded and ends the checks all the same; a failed ownership action is
\* observed anew, without its second half; a failed policy restore goes on with the next.
Failed(s) ==
  \/ /\ pc = "checks" /\ Abandon
     /\ IF s.row = "OWNER-ACCEPT" THEN record(s.row, FALSE) ELSE UNCHANGED led
  \/ /\ pc = "owner" /\ pc' = "observe" /\ todo' = <<>> /\ attempt' = attempt + 1
     /\ UNCHANGED <<orig, ok, led, stray>>
  \/ /\ pc = "restore" /\ todo' = Tail(todo) /\ ok' = FALSE
     /\ UNCHANGED <<pc, orig, attempt, led, stray>>

NextIs(kind) == todo # <<>> /\ Head(todo).do = kind

EmitNote ==
  /\ NextIs("commit") /\ emit(Built(Head(todo)))
  /\ UNCHANGED <<pc, orig, todo, attempt, ok, led, stray>>

EmitFails == NextIs("commit") /\ emit_fails(Built(Head(todo))) /\ Failed(Head(todo))

Commits == committed /\ Done(Head(todo), Holds(Head(todo)))

\* The notes of the ownership restore are waited for without a deadline.
MutTimesOut == pc # "owner" /\ timed_out /\ Failed(Head(todo))

TimesOut == timed_out /\ Failed(Head(todo))

\* A rejection by another gate than the expected one, or none, fails the row.
record_rejection ==
  /\ NextIs("probe") /\ wait = NoNote
  /\ \E v \in Verdicts(Built(Head(todo))) : Done(Head(todo), v = Head(todo).expect)
  /\ UNCHANGED driver_vars

\* The recipient's note is found, or the wait for it is over, which only fails the row.
Receive ==
  /\ NextIs("receive") /\ wait = NoNote
  /\ \E found \in BOOLEAN :
       /\ found => wait_for_target_note(Head(todo).note.by, Head(todo).note.amount)
       /\ Done(Head(todo), found)
  /\ UNCHANGED driver_vars

Collect ==
  /\ NextIs("collect") /\ target_consume(Head(todo).note.by, Head(todo).note.amount)
  /\ Done(Head(todo), TRUE)

\* Any other read of a step fails.
StepFails ==
  /\ pc = "checks" /\ wait = NoNote /\ Head(todo).do \in {"probe", "collect"}
  /\ UNCHANGED driver_vars /\ Failed(Head(todo))

----------------------------------------------------------------------------
(* admin_suite and restore_faucet. *)

admin_suite ==
  /\ pc = "start" /\ pc' = "checks" /\ todo' = admin_checks
  /\ orig' = [min |-> faucet.min, max |-> faucet.max]
  /\ UNCHANGED <<driver_vars, attempt, ok, led, stray>>

\* Without a snapshot nothing is done.
SnapshotFails ==
  /\ pc = "start" /\ pc' = "done"
  /\ UNCHANGED <<driver_vars, orig, todo, attempt, ok, led, stray>>

\* A nomination is left to lapse.
MutPlanOwnershipRestore == IF faucet.owner = "ephemeral" THEN "TransferBack" ELSE "None"

plan_ownership_restore ==
  CASE faucet.owner = "ephemeral" -> "TransferBack"
    [] faucet.owner = "owner" /\ faucet.nominee = "ephemeral" -> "CancelNomination"
    [] faucet.owner = "owner" /\ faucet.nominee # "ephemeral" -> "None"
    [] OTHER -> "UnexpectedOwner"

restore_ownership ==
  <<commit(transfer_ownership("ephemeral", "owner"), "none"),
    commit(accept_ownership("owner"), "none")>>
cancel_nomination == <<commit(transfer_ownership("owner", "owner"), "none")>>

OwnershipOps == [TransferBack |-> restore_ownership, CancelNomination |-> cancel_nomination]

\* One cycle: read, plan, and act unless this is the last one, which only verifies.
reconcile_ownership ==
  /\ pc = "observe" /\ UNCHANGED <<driver_vars, orig, attempt, ok, stray>>
  /\ \/ /\ \/ plan_ownership_restore \notin DOMAIN OwnershipOps
           \/ attempt = MAX_OWNERSHIP_RECONCILE_ATTEMPTS
        /\ record("OWNER-RESTORE", plan_ownership_restore = "None")
        /\ pc' = "policy" /\ UNCHANGED todo
     \/ /\ plan_ownership_restore \in DOMAIN OwnershipOps
        /\ attempt < MAX_OWNERSHIP_RECONCILE_ATTEMPTS
        /\ todo' = OwnershipOps[plan_ownership_restore]
        /\ pc' = "owner" /\ UNCHANGED led

ObserveFails ==
  /\ pc = "observe" /\ pc' = "policy" /\ record("OWNER-RESTORE", FALSE)
  /\ UNCHANGED <<driver_vars, orig, todo, attempt, ok, stray>>

When(condition, note) == IF condition THEN <<commit(note, "none")>> ELSE <<>>

\* What differs from the snapshot in one read of the account.
restore_faucet ==
  /\ pc = "policy" /\ pc' = "restore"
  /\ todo' = When(faucet.paused, Unpause)
             \o When("mint" \notin faucet.attesters, set_attester(TRUE))
             \o When(faucet.min # orig.min, min_burn_config_note(orig.min))
             \o When(faucet.max # Max({orig.max, faucet.supply}),
                     max_supply_config_note(Max({orig.max, faucet.supply})))
  /\ UNCHANGED <<driver_vars, orig, attempt, ok, led, stray>>

PolicyReadFails ==
  /\ pc = "policy" /\ pc' = "done" /\ record("RESTORE", FALSE)
  /\ UNCHANGED <<driver_vars, orig, todo, attempt, ok, stray>>

RestoreEnds ==
  /\ pc = "restore" /\ todo = <<>> /\ pc' = "done" /\ record("POLICY-RESTORE", ok)
  /\ UNCHANGED <<driver_vars, orig, todo, attempt, ok, stray>>

----------------------------------------------------------------------------
Suite ==
  \/ admin_suite \/ SnapshotFails
  \/ EmitNote \/ EmitFails \/ Commits \/ TimesOut
  \/ record_rejection \/ Receive \/ Collect \/ StepFails
  \/ reconcile_ownership \/ ObserveFails
  \/ restore_faucet \/ PolicyReadFails \/ RestoreEnds

Builder == NtxBuilder /\ UNCHANGED <<pc, orig, todo, attempt, ok, led, stray>>

Next == Suite \/ Builder

Spec == Init /\ [][Next]_vars

\* Every wait of the suite is bounded; the node need never consume a note.
FairSpec == Spec /\ WF_vars(Suite)

----------------------------------------------------------------------------
(* Properties. *)

\* Where nothing but the accept was given up on chain, a passed ADMIN-OWNER-RESTORE stays true
\* for good: the ephemeral wallet neither owns the faucet nor can it come to, however late the
\* accept, the cancel and the transfer back of failed cycles are consumed ("the ephemeral
\* wallet retains no control").
OwnerRowIsTrue ==
  "OWNER-RESTORE" \in led.passed /\ (\A n \in stray : n.op # "transfer")
    => faucet.owner = "owner" /\ faucet.nominee # "ephemeral"

Restored ==
  /\ faucet.owner = "owner" /\ faucet.nominee # "ephemeral"
  /\ ~ faucet.paused /\ "mint" \in faucet.attesters
  /\ faucet.min = orig.min /\ faucet.max = orig.max

RestoreRows == {"OWNER-RESTORE", "POLICY-RESTORE", "RESTORE"}

\* When the suite has returned and none of the checks' notes was given up on chain, a faucet
\* that is not back at its snapshot has a failed row that says so, wherever the checks
\* stopped and whichever restore step failed ("failures are RECORDED as surfaced findings").
FailuresSurface ==
  pc = "done" /\ sent > 0 /\ (\A n \in stray : n.op = "accept") /\ ~ Restored
    => led.failed \cap RestoreRows # {}

\* On a faucet that works, every rejection is the one its check expects, with amounts on
\* either side of the limits that the checks move.  The gate of the setters is known to
\* report another error than the suite still expects.
RejectionsAreExpected ==
  led.failed \subseteq RestoreRows \cup {"OWNER-GATE", "OWNER-ACCEPT", "UNPAUSE-MINT-DEST"}

\* Whatever fails, and if no note is ever consumed, the suite returns: the cycles are bounded
\* and a check that fails goes to the restore (reconcile_ownership's attempts).
SuiteReturns == <>(pc = "done")

=============================================================================
