------------------------------- MODULE MCSanity --------------------------------
(***************************************************************************)
(* The sanity gate of xusdc-validation: the admin family (SanityAdmin) and *)
(* the run around it (SanityRun), which takes the family as one step.      *)
(* Each drives a faucet of its own, so a property of one holds where the   *)
(* other rests: part says which one moves.                                 *)
(*                                                                         *)
(* The admin family with two original minima; amounts are scaled down and  *)
(* keep their order, four ownership cycles are the code's.  Up to two runs *)
(* and one move of other users, by the amounts the checks use themselves,  *)
(* against a fresh faucet and against deployed ones: in order, close to    *)
(* its cap, paused, and with a foreign identifier.                         *)
(***************************************************************************)
EXTENDS SanityAdmin

VARIABLES part,
          target, pending, bought, emitted, awaited, earlier, stage, steps, rows,
          cfg, run, mine, base, room, others

running == <<target, pending, bought, emitted, awaited, earlier, stage, steps, rows,
             cfg, run, mine, base, room, others>>

Faucet(attesters, paused, supply, max, identifier) ==
  [owner |-> "owner", nominee |-> "none", paused |-> paused, attesters |-> attesters,
   min |-> 1, max |-> max, supply |-> supply, nonces |-> {}, identifier |-> identifier]

InOrder == Faucet({"mint"}, FALSE, 3, 40, "own")

MCDeployed ==
  {InOrder, Faucet({"mint"}, FALSE, 3, 9, "own"), Faucet({"mint"}, TRUE, 3, 40, "own"),
   Faucet({"mint"}, FALSE, 3, 40, "foreign")}

FreshAndLocal == [existing |-> FALSE, local |-> TRUE, key |-> FALSE, logs |-> TRUE]

MCConfigs ==
  {FreshAndLocal,
   [existing |-> FALSE, local |-> FALSE, key |-> FALSE, logs |-> FALSE],
   [existing |-> TRUE, local |-> FALSE, key |-> TRUE, logs |-> FALSE],
   [existing |-> TRUE, local |-> FALSE, key |-> FALSE, logs |-> FALSE]}

Runs == INSTANCE SanityRun WITH
  Configs <- MCConfigs, Deployed <- MCDeployed, FreshFaucet <- Faucet({}, FALSE, 0, 20, "own"),
  MaxRuns <- 2, MaxOthers <- 1, OtherAmounts <- {2, 4},
  faucet <- target, flight <- pending, paid <- bought, sent <- emitted, wait <- awaited,
  before <- earlier, pc <- stage, todo <- steps, led <- rows

ASSUME RunsAssumption == Runs!Assumption

\* A part that does not move rests in one of its initial states.
SanityInit ==
  /\ part \in {"admin", "run"}
  /\ Init /\ (part # "admin" => faucet.min = BURN_UNITS)
  /\ Runs!Init /\ (part # "run" => target = InOrder /\ cfg = FreshAndLocal)

SanityNext ==
  \/ part = "admin" /\ Next /\ UNCHANGED <<part, running>>
  \/ part = "run" /\ Runs!Next /\ UNCHANGED <<part, vars>>

\* The fairness of each part, for the behaviours in which it moves.
SanityFairness ==
  WF_vars(part = "admin" /\ Suite) /\ WF_running(part = "run" /\ Runs!Driver)

SanitySpec == SanityInit /\ [][SanityNext]_<<part, vars, running>> /\ SanityFairness

-----------------------------------------------------------------------------
(* Properties of the runs, and of the suite where it moves. *)

\* The rows of the admin family are true, with any step failing and notes consumed late: a passed
\* ownership restore stays true for good, a faucet that is not back at its snapshot has a failed
\* row that says so, and on a faucet that works every rejection is the one its check expects
\* (reconcile_ownership, restore_faucet).
AdminRowsAreTrue ==
  part = "admin" =>
    /\ TypeOK
    /\ OwnerRowIsTrue
    /\ FailuresSurface
    /\ RejectionsAreExpected

\* A report is true of the run's own notes: without a failed row every one of them was consumed by
\* the faucet, also when others' mints and burns move the supply just as its own would 
\* (assert_burn_evidence); on a fresh faucet that works no check of the supply, a nonce or a gate
\* fails; and no note that changes a policy goes to a deployed or a remote faucet (decide_run_mode).
ReportsAreTrue ==
  part = "run" =>
    /\ Runs!TypeOK
    /\ Runs!ReportIsTrue
    /\ Runs!GoodFaucetPasses
    /\ Runs!DeployedIsUntouched

\* Whatever fails, and if no note is ever consumed, the admin suite returns, as its cycles are
\* bounded and a check that fails goes to the restore, and a run that has begun ends
\* (reconcile_ownership's attempts, the bounded waits of commit_via_ntx).
RunsEnd ==
  /\ part = "admin" => SuiteReturns
  /\ part = "run" => Runs!RunsEnd

=============================================================================
