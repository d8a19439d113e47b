--------------------------- MODULE MCAttesterQueues ----------------------------
(***************************************************************************)
(* The two places of the running light attester where one waits for        *)
(* another: the turn at Circle (CircleTurns) and the inbox of the admin    *)
(* socket (AdminQueue).  They share no variable, so a property of one      *)
(* holds of all their interleavings when it holds where the other rests:   *)
(* part says which one moves.                                              *)
(*                                                                         *)
(* Two callers and bodies below, at and above the limit; two operators     *)
(* that ask for the holds, an inbox of one, one command per checkpoint.    *)
(***************************************************************************)
EXTENDS CircleTurns

VARIABLES part, conn, queue, att, job, hold, listener, shutdown

admin == <<conn, queue, att, job, hold, listener, shutdown>>

Admin == INSTANCE AdminQueue WITH
  Clients <- {"c1", "c2"}, Ops <- {"holds"}, MaxConnections <- 2, QueueSize <- 1,
  PerCheckpoint <- 1, MaxSteps <- 1, MaxSeq <- 1

QueuesInit == part \in {"turns", "admin"} /\ Init /\ Admin!Init

QueuesNext ==
  \/ part = "turns" /\ Next /\ UNCHANGED <<part, admin>>
  \/ part = "admin" /\ Admin!Next /\ UNCHANGED <<part, vars>>

\* The fairness of each part, for the behaviours in which it moves.
QueuesFairness ==
  /\ WF_vars(part = "turns" /\ Tick)
  /\ WF_vars(part = "turns" /\ \E c \in Callers : Dispatch(c) \/ Answered(c))
  /\ WF_admin(part = "admin" /\ Admin!Attester)
  /\ WF_admin(part = "admin" /\ Admin!Clock)
  /\ WF_admin(part = "admin" /\ (Admin!BeginClose \/ Admin!EndClose))
  /\ \A c \in {"c1", "c2"} : WF_admin(part = "admin" /\ Admin!Served(c))

QueuesSpec == QueuesInit /\ [][QueuesNext]_<<part, vars, admin>> /\ QueuesFairness

-----------------------------------------------------------------------------

\* No wait of the attester is for ever.  A caller of Circle gets its turn or stops waiting, also
\* when others call and stop waiting without end (send).  Whatever operators keep sending, a
\* checkpoint and a pause come to their end (admin_checkpoint), a command that was admitted gets an
\* answer, if only that its outcome is unknown (dispatch), and a stop that was asked for, or that a
\* diverged chain forces, is carried out by attester and listener (service.rs, run).
WaitsEnd ==
  /\ part = "turns" => EveryCallerServed
  /\ part = "admin" => Admin!CyclesGoOn
  /\ part = "admin" => Admin!AdmittedAreAnswered
  /\ part = "admin" => Admin!ShutdownEnds

=============================================================================
