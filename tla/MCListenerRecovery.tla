-------------------------- MODULE MCListenerRecovery ---------------------------
(***************************************************************************)
(* What the earlier attester does when Circle does not simply accept:      *)
(* retries, conflicts and their polls (SubmitWithdraw, where another       *)
(* deployment may submit the same burn), and the retries, the waits and    *)
(* the bodies of its Circle client (CircleClient).  The two share no       *)
(* variable, so a property of one holds of all their interleavings when it *)
(* holds where the other rests: part says which one moves.                 *)
(*                                                                         *)
(* Two burns, requested alone and together; two tasks that share one       *)
(* permit, and a backoff that saturates.                                   *)
(***************************************************************************)
EXTENDS SubmitWithdraw

VARIABLES part, perHost, global, task, grants

sending == <<perHost, global, task, grants>>

MCTx(b, spelling) == [burn |-> b, spelling |-> spelling]

MCRequests ==
  {<<MCTx("a", "lower")>>, <<MCTx("b", "lower")>>,
   <<MCTx("a", "upper"), MCTx("b", "lower")>>, <<MCTx("a", "lower"), MCTx("a", "upper")>>}

Tasks == {"t1", "t2"}

Client == INSTANCE CircleClient WITH
  Hosts <- {"h1", "h2"}, HostOf <- [t1 |-> "h1", t2 |-> "h1"], Window <- 3, PerHost <- 0,
  Global <- 1, MaxBytes <- 2, Sizes <- {0, 1, 3}, MaxAttempts <- 4, BaseDelay <- 3, MaxShift <- 2,
  MaxU64 <- 10, Requests <- 1

RecoveryInit == part \in {"submission", "client"} /\ Init /\ Client!Init

RecoveryNext ==
  \/ part = "submission" /\ Next /\ UNCHANGED <<part, sending>>
  \/ part = "client" /\ Client!Next /\ UNCHANGED <<part, vars>>

\* The fairness of each part, for the behaviours in which it moves.
RecoveryFairness ==
  /\ \A l \in Listeners : WF_vars(part = "submission" /\ Work(l))
  /\ WF_sending(part = "client" /\ Client!Tick)
  /\ \A t \in Tasks : WF_sending(part = "client" /\ Client!Work(t))

RecoverySpec == RecoveryInit /\ [][RecoveryNext]_<<part, vars, sending>> /\ RecoveryFairness

-----------------------------------------------------------------------------
(* Properties of the client; those of submission have their own names. *)

\* What the client holds and waits for stays within its settings: a body that is handed up is the
\* whole body and within the ceiling (collect_bounded), and the wait between attempts never
\* shrinks, also where the doubling passes the width of the counter (backoff_for).
ClientKeepsBounds ==
  part = "client" => Client!TypeOK /\ Client!BodyIsWhole /\ Client!BackoffGrows

\* Whatever Circle answers, a run of the listener ends, as retries and polls are bounded and every
\* request times out (submit_withdraw); and a task that waits for a permit is served: one that
\* wakes and finds its slot taken waits again, but not for ever (acquire, execute).
WorkEnds ==
  /\ RunsEnd
  /\ part = "client" => Client!RequestsEnd

=============================================================================
