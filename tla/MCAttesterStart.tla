--------------------------- MODULE MCAttesterStart -----------------------------
(***************************************************************************)
(* What stands around the light attester's cycle: how its store is opened  *)
(* (AttesterStartup), its admin socket bound (AdminSocket), and its        *)
(* operators' commands run (AdminQueue).  The models share no variable, so *)
(* a property of one holds of all their interleavings when it holds where  *)
(* the others rest: part says which one moves.                             *)
(***************************************************************************)
EXTENDS AttesterStartup, TLC

CONSTANTS p1, p2, f1, f2, Operators

VARIABLES part,
          path, at, held, alone,
          conn, queue, att, job, hold, listener, shutdown

socket == <<path, at, held, alone>>
admin == <<conn, queue, att, job, hold, listener, shutdown>>

(***************************************************************************)
(* Two processes on one file.  The settings: the right ones, the same with *)
(* no limit policy, another faucet, a mistyped anchor, an anchor after the *)
(* deployment, a block of another chain, a zero interval, and the command. *)
(***************************************************************************)
MCChains == {"main", "fork", "other"}

\* Two chains that part after block 0, and one that shares nothing with them.
MCCommitments ==
  [c \in MCChains |-> [n \in 0 .. 1 |-> CASE c = "other" -> <<"o0", "o1">>[n + 1]
                                         [] n = 0 -> "b0"
                                         [] c = "main" -> "m1"
                                         [] OTHER -> "f1"]]

Right == [command |-> "run", faucet |-> f1,
          anchor |-> Block("main", 0), deployment |-> 0, limit |-> TRUE, zero |-> FALSE]

MCSettings ==
  {Right,
   [Right EXCEPT !.limit = FALSE],
   [Right EXCEPT !.faucet = f2],
   [Right EXCEPT !.anchor.commitment = "typo"],
   [Right EXCEPT !.anchor = Block("main", 1)],
   [Right EXCEPT !.anchor = Block("other", 0)],
   [Right EXCEPT !.zero = TRUE],
   [Right EXCEPT !.command = "release-holds"]}

\* Three processes on one path.
Socket == INSTANCE AdminSocket WITH Processes <- {"p1", "p2", "p3"}, pc <- at, lock <- held

\* Two operators, an inbox of one, one command per checkpoint.
Admin == INSTANCE AdminQueue WITH
  Clients <- Operators, Ops <- {"holds", "release"}, MaxConnections <- 2, QueueSize <- 1,
  PerCheckpoint <- 1, MaxSteps <- 1, MaxSeq <- 2

ASSUME PartsAssumption == Socket!Assumption /\ Admin!Assumption

-----------------------------------------------------------------------------

\* A part that does not move rests in one of its initial states.
StartInit ==
  /\ part \in {"store", "socket", "admin"}
  /\ Socket!Init /\ (part # "socket" => path = "absent")
  /\ Admin!Init
  /\ Init /\ (part # "store" => file = Absent /\ node = [chain |-> "main", faucets |-> {}])

StartNext ==
  \/ part = "store" /\ Next /\ UNCHANGED <<part, socket, admin>>
  \/ part = "socket" /\ Socket!Next /\ UNCHANGED <<part, vars, admin>>
  \/ part = "admin" /\ Admin!Next /\ UNCHANGED <<part, vars, socket>>

StartSpec == StartInit /\ [][StartNext]_<<part, vars, socket, admin>>

Symmetry == Permutations(Procs) \cup Permutations(Operators)

-----------------------------------------------------------------------------
(* Properties of the parts; those of the store have their own names. *)

\* An attester that started by itself is the one the path leads to as long as it serves (bind), and
\* what it serves there stays within its limits: no more connections are open and no more commands
\* wait than there is room for, and a connection has an answer exactly when it was answered.
AdminIsServed ==
  /\ part = "socket" => Socket!AdminIsServed
  /\ part = "admin" => Admin!AdminIsServed

\* Whatever a crash, a failed start or a stop left behind, the next start succeeds when no other
\* process runs meanwhile: only a file that is not a socket stops it (remove_stale_socket).
LeftoversDoNotBlock == Socket!LeftoversDoNotBlock

\* An operator knows what became of a release, and it lifts the hold that was shown (handle_admin).
ReleasesAreExact == Admin!ReleasesAreExact

=============================================================================
