------------------------------ MODULE AdminQueue ------------------------------
(***************************************************************************)
(* The admin socket of the light attester (admin.rs, admin/client.rs,      *)
(* attester.rs, service.rs): connections that each carry one request, the  *)
(* bounded inbox between the listener and the attester, the checkpoints    *)
(* and pauses at which the attester takes commands, their deadlines, and   *)
(* how the two stop.  One hold stands for all: a release names the event   *)
(* sequence its operator saw, and the cycle may hold again.                *)
(***************************************************************************)
EXTENDS Naturals, Sequences, FiniteSets

CONSTANTS Clients,
          Ops,             \* the requests operators send: "holds", "release"
          MaxConnections,  \* MAX_CONNECTIONS
          QueueSize,       \* the inbox's capacity
          PerCheckpoint,   \* ADMIN_COMMANDS_PER_CHECKPOINT
          MaxSteps,        \* bound on the steps of a cycle
          MaxSeq           \* bound on the hold's event sequence

\* Nobody is no operator's name.
Assumption ==
  /\ IsFiniteSet(Clients) /\ "nobody" \notin Clients /\ Ops \subseteq {"holds", "release"}
  /\ {MaxConnections, QueueSize, PerCheckpoint, MaxSteps} \subseteq Nat /\ MaxSeq \in Nat \ {0}

VARIABLES conn,      \* each client's connection and its request
          queue,     \* the inbox
          att,       \* the attester: where it is, commands taken here, steps left
          job,       \* the command it is running
          hold,      \* the hold in the store
          listener, shutdown

vars == <<conn, queue, att, job, hold, listener, shutdown>>

Answers == {"none", "page", "released", "invalid_input", "queue_full", "unavailable",
            "reply_timeout", "stopping", "hold_not_found", "hold_changed", "circle_check_required",
            "store_failed", "lost"}

NoJob == [by |-> "nobody", op |-> "none", seq |-> 0, told |-> "none"]

\* told is "none" while the listener keeps the receiver of the reply; a timed-out or cut
\* connection leaves its command with nobody to tell.
Commands == [by : Clients, op : Ops, seq : 0 .. MaxSeq, told : {"none", "nobody"}]

\* seen: the event sequence of the last page; unsure: since then the reply to a release
\* timed out or was lost; expired: the deadline has passed.
Idle(seen, unsure) == [st |-> "idle", op |-> "none", seq |-> 0, answer |-> "none",
                       expired |-> FALSE, seen |-> seen, unsure |-> unsure]

Open == {c \in Clients : conn[c].st \in {"reading", "waiting"}}

TypeOK ==
  /\ \A c \in Clients :
       /\ conn[c].st \in {"idle", "backlog", "reading", "waiting", "answered"}
       /\ conn[c].answer \in Answers /\ (conn[c].st = "answered") = (conn[c].answer # "none")
       /\ conn[c].seen \in 0 .. MaxSeq /\ conn[c].unsure \in BOOLEAN
  /\ queue \in Seq(Commands) /\ Len(queue) <= QueueSize
  /\ Cardinality(Open) <= MaxConnections
  /\ att.pc \in {"checkpoint", "step", "pause", "stopped", "failed"}
  /\ att.count \in 0 .. PerCheckpoint /\ att.left \in 0 .. MaxSteps /\ att.woken \in BOOLEAN
  /\ job \in Commands \cup {NoJob}
  /\ hold \in [held : BOOLEAN, seq : 1 .. MaxSeq]
  /\ listener \in {"serving", "closing", "stopped"} /\ shutdown \in BOOLEAN

Init ==
  /\ conn = [c \in Clients |-> Idle(0, FALSE)] /\ queue = <<>> /\ job = NoJob
  /\ att = [pc |-> "checkpoint", count |-> 0, left |-> MaxSteps, woken |-> FALSE]
  /\ hold = [held |-> TRUE, seq |-> 1]
  /\ listener = "serving" /\ shutdown = FALSE

----------------------------------------------------------------------------
(* Answers. *)

Answer(r, a) == [Idle(r.seen, r.unsure) EXCEPT !.st = "answered", !.answer = a]

\* The page with the hold's revision, 0 when nothing is held.
AnswerPage(r) == [Answer(r, "page") EXCEPT !.seq = IF hold.held THEN hold.seq ELSE 0]

\* The listener drops the receivers of these clients' replies.
Told(cmd, cs) == IF cmd.by \in cs THEN [cmd EXCEPT !.told = "nobody"] ELSE cmd

\* A connection that waits for a reply is left waiting.
MutEndAll(cs, a) ==
  LET ended == {c \in cs : conn[c].st # "waiting"}
  IN  /\ conn' = [c \in Clients |-> IF c \in ended THEN Answer(conn[c], a) ELSE conn[c]]
      /\ UNCHANGED <<queue, job>>

\* These connections end with an answer; their commands stay where they are.
EndAll(cs, a) ==
  /\ conn' = [c \in Clients |->
                IF c \notin cs THEN conn[c]
                ELSE [Answer(conn[c], a) EXCEPT !.unsure = @ \/ conn[c].op = "release"]]
  /\ queue' = [n \in DOMAIN queue |-> Told(queue[n], cs)]
  /\ job' = Told(job, cs)

----------------------------------------------------------------------------
(* The operator's client. *)

\* A list, or a release of the revision the last list showed.
Connect(c) ==
  /\ conn[c].st = "idle" /\ listener = "serving"
  /\ \E op \in Ops :
       /\ op = "release" => conn[c].seen > 0
       /\ conn' = [conn EXCEPT ![c].st = "backlog", ![c].op = op,
                               ![c].seq = IF op = "release" THEN conn[c].seen ELSE 0]
  /\ UNCHANGED <<queue, att, job, hold, listener, shutdown>>

\* exchange reads its one reply, or loses it; nothing is sent again.
Receive(c) ==
  /\ conn[c].st = "answered"
  /\ conn' = [conn EXCEPT ![c] = IF conn[c].answer = "page" THEN Idle(conn[c].seq, FALSE)
                                 ELSE Idle(conn[c].seen, conn[c].unsure)]
  /\ UNCHANGED <<queue, att, job, hold, listener, shutdown>>

Disconnect(c) ==
  /\ conn[c].st = "answered" /\ conn' = [conn EXCEPT ![c] = Idle(conn[c].seen, conn[c].unsure)]
  /\ UNCHANGED <<queue, att, job, hold, listener, shutdown>>

----------------------------------------------------------------------------
(* The listener. *)

Accept(c) ==
  /\ listener = "serving" /\ ~ shutdown
  /\ conn[c].st = "backlog" /\ Cardinality(Open) < MaxConnections
  /\ conn' = [conn EXCEPT ![c].st = "reading"]
  /\ UNCHANGED <<queue, att, job, hold, listener, shutdown>>

\* Too slow, too long or not a request.
ReadFails(c) ==
  /\ conn[c].st = "reading"
  /\ conn' = [conn EXCEPT ![c] = Answer(@, "invalid_input")]
  /\ UNCHANGED <<queue, att, job, hold, listener, shutdown>>

\* handle and dispatch: refused at once, or queued with a deadline.
dispatch(c) ==
  /\ conn[c].st = "reading" /\ listener # "stopped"
  /\ \/ /\ listener # "serving"
        /\ conn' = [conn EXCEPT ![c] = Answer(@, "stopping")] /\ UNCHANGED queue
     \/ /\ listener = "serving" /\ att.pc = "stopped"
        /\ conn' = [conn EXCEPT ![c] = Answer(@, "unavailable")] /\ UNCHANGED queue
     \/ /\ listener = "serving" /\ att.pc # "stopped" /\ Len(queue) = QueueSize
        /\ conn' = [conn EXCEPT ![c] = Answer(@, "queue_full")] /\ UNCHANGED queue
     \/ /\ listener = "serving" /\ att.pc # "stopped" /\ Len(queue) < QueueSize
        /\ conn' = [conn EXCEPT ![c].st = "waiting"]
        /\ queue' = Append(queue, [by |-> c, op |-> conn[c].op, seq |-> conn[c].seq,
                                   told |-> "none"])
  /\ UNCHANGED <<att, job, hold, listener, shutdown>>

\* COMMAND_WAIT passes; the waiting task need not have run yet.
Expire(c) ==
  /\ conn[c].st = "waiting" /\ ~ conn[c].expired
  /\ conn' = [conn EXCEPT ![c].expired = TRUE]
  /\ UNCHANGED <<queue, att, job, hold, listener, shutdown>>

\* The reply timed out, or CONNECTION_WAIT cut the connection.
TimesOut(c) ==
  /\ conn[c].st = "waiting" /\ conn[c].expired
  /\ \E a \in {"reply_timeout", "lost"} : EndAll({c}, a)
  /\ UNCHANGED <<att, hold, listener, shutdown>>

Shutdown ==
  /\ ~ shutdown /\ shutdown' = TRUE
  /\ UNCHANGED <<conn, queue, att, job, hold, listener>>

\* The socket goes, and with it the connections nobody accepted.
BeginClose ==
  /\ listener = "serving" /\ shutdown
  /\ listener' = "closing"
  /\ EndAll({c \in Clients : conn[c].st = "backlog"}, "lost")
  /\ UNCHANGED <<att, hold, shutdown>>

\* Every connection ended, or CLEANUP_WAIT passed and the rest is dropped.
EndClose ==
  /\ listener = "closing" /\ listener' = "stopped"
  /\ EndAll(Open, "lost")
  /\ UNCHANGED <<att, hold, shutdown>>

----------------------------------------------------------------------------
(* The attester. *)

abandoned(cmd) == cmd.told # "none" \/ conn[cmd.by].expired

\* An abandoned command is answered and runs all the same.
MutTake ==
  LET cmd == Head(queue)
  IN  /\ queue # <<>> /\ job = NoJob /\ queue' = Tail(queue)
      /\ job' = [cmd EXCEPT !.told = IF abandoned(cmd) THEN "nobody" ELSE "none"]
      /\ conn' = IF abandoned(cmd) /\ cmd.told = "none"
                 THEN [conn EXCEPT ![cmd.by] = Answer(@, "unavailable")] ELSE conn

\* Takes the oldest command; one that is abandoned is dropped with its sender.
Take ==
  LET cmd == Head(queue)
  IN  /\ queue # <<>> /\ job = NoJob /\ queue' = Tail(queue)
      /\ \/ ~ abandoned(cmd) /\ job' = cmd /\ UNCHANGED conn
         \/ /\ abandoned(cmd) /\ UNCHANGED job
            /\ conn' = IF cmd.told = "none"
                       THEN [conn EXCEPT ![cmd.by] = Answer(@, "unavailable")] ELSE conn

\* Commands are taken while there are any.
MutCheckpoint ==
  /\ att.pc = "checkpoint" /\ ~ shutdown
  /\ Take
  /\ UNCHANGED <<att, hold, listener, shutdown>>

AdminCheckpoint ==
  /\ att.pc = "checkpoint" /\ ~ shutdown /\ att.count < PerCheckpoint
  /\ Take /\ att' = [att EXCEPT !.count = @ + 1]
  /\ UNCHANGED <<hold, listener, shutdown>>

\* The loop over the inbox looks at shutdown only between commands.
MutLeaveCheckpoint ==
  /\ att.pc = "checkpoint" /\ job = NoJob
  /\ queue = <<>> \/ att.count = PerCheckpoint
  /\ att' = [att EXCEPT !.pc = "step", !.count = 0]
  /\ UNCHANGED <<conn, queue, job, hold, listener, shutdown>>

LeaveCheckpoint ==
  /\ att.pc = "checkpoint" /\ job = NoJob
  /\ shutdown \/ queue = <<>> \/ att.count = PerCheckpoint
  /\ att' = [att EXCEPT !.pc = "step", !.count = 0]
  /\ UNCHANGED <<conn, queue, job, hold, listener, shutdown>>

\* During the pause, after shutdown and the next cycle have been looked at.
TakeInPause ==
  /\ att.pc = "pause" /\ ~ shutdown /\ ~ att.woken
  /\ Take
  /\ UNCHANGED <<att, hold, listener, shutdown>>

\* release_checked: the hold as it was seen, or nothing.
release_checked(cmd) ==
  /\ hold.held /\ hold.seq = cmd.seq
  /\ hold' = [hold EXCEPT !.held = FALSE]

\* The event sequence is not looked at.
MutHandleAdmin ==
  /\ job # NoJob
  /\ LET Reply(a) == conn' = IF job.told = "none"
                             THEN [conn EXCEPT ![job.by] = Answer(@, a)] ELSE conn
     IN  \/ /\ job.op = "holds" /\ UNCHANGED hold
            /\ conn' = IF job.told = "none"
                       THEN [conn EXCEPT ![job.by] = AnswerPage(@)] ELSE conn
         \/ job.op = "release" /\ hold.held /\ hold' = [hold EXCEPT !.held = FALSE] /\ Reply("released")
         \/ job.op = "release" /\ ~ hold.held /\ UNCHANGED hold /\ Reply("hold_not_found")
  /\ job' = NoJob
  /\ UNCHANGED <<queue, att, listener, shutdown>>

\* The command's store operation and its reply, which may find nobody waiting.
handle_admin ==
  /\ job # NoJob
  /\ LET Reply(a) == conn' = IF job.told = "none"
                             THEN [conn EXCEPT ![job.by] = Answer(@, a)] ELSE conn
     IN  \/ /\ job.op = "holds" /\ UNCHANGED hold
            /\ conn' = IF job.told = "none"
                       THEN [conn EXCEPT ![job.by] = AnswerPage(@)] ELSE conn
         \/ job.op = "release" /\ release_checked(job) /\ Reply("released")
         \/ job.op = "release" /\ ~ hold.held /\ UNCHANGED hold /\ Reply("hold_not_found")
         \/ /\ job.op = "release" /\ hold.held /\ hold.seq # job.seq
            /\ UNCHANGED hold /\ Reply("hold_changed")
         \/ /\ job.op = "release" /\ UNCHANGED hold
            /\ \E a \in {"circle_check_required", "store_failed"} : Reply(a)
  /\ job' = NoJob
  /\ UNCHANGED <<queue, att, listener, shutdown>>

\* A block, burn or submission, which may hold again; then the next one or the pause.
Step ==
  /\ att.pc = "step" /\ job = NoJob
  /\ \/ UNCHANGED hold
     \/ ~ hold.held /\ hold.seq < MaxSeq /\ hold' = [held |-> TRUE, seq |-> hold.seq + 1]
  /\ \/ att.left > 1 /\ att' = [att EXCEPT !.pc = "checkpoint", !.left = @ - 1]
     \/ att' = [att EXCEPT !.pc = "pause", !.left = MaxSteps, !.woken = FALSE]
  /\ UNCHANGED <<conn, queue, job, listener, shutdown>>

\* The chain diverged: run ends with an error, which stops the listener; the inbox
\* stays until the listener is done.
Diverges ==
  /\ att.pc = "step" /\ job = NoJob
  /\ att' = [att EXCEPT !.pc = "failed"] /\ shutdown' = TRUE
  /\ UNCHANGED <<conn, queue, job, hold, listener>>

Clock ==
  /\ att.pc = "pause" /\ ~ att.woken /\ att' = [att EXCEPT !.woken = TRUE]
  /\ UNCHANGED <<conn, queue, job, hold, listener, shutdown>>

NextCycle ==
  /\ att.pc = "pause" /\ job = NoJob /\ att.woken /\ ~ shutdown
  /\ att' = [att EXCEPT !.pc = "checkpoint"]
  /\ UNCHANGED <<conn, queue, job, hold, listener, shutdown>>

\* The inbox is closed, and every command in it unanswered.
StopRun ==
  /\ att.pc = "pause" /\ job = NoJob /\ shutdown
  /\ att' = [att EXCEPT !.pc = "stopped"] /\ queue' = <<>>
  /\ LET dropped == {queue[n].by : n \in {k \in DOMAIN queue : queue[k].told = "none"}}
     IN  conn' = [c \in Clients |-> IF c \in dropped THEN Answer(conn[c], "unavailable") ELSE conn[c]]
  /\ UNCHANGED <<job, hold, listener, shutdown>>

----------------------------------------------------------------------------

Attester ==
  \/ AdminCheckpoint \/ LeaveCheckpoint \/ TakeInPause \/ handle_admin \/ Step \/ Diverges
  \/ NextCycle \/ StopRun

Served(c) == dispatch(c) \/ ReadFails(c) \/ Expire(c) \/ TimesOut(c)

Next ==
  \/ Shutdown \/ BeginClose \/ EndClose \/ Clock \/ Attester
  \/ \E c \in Clients :
       Connect(c) \/ Receive(c) \/ Disconnect(c) \/ Accept(c) \/ Served(c)

Spec == Init /\ [][Next]_vars

\* The runtime runs every task, and time passes.
FairSpec ==
  /\ Spec
  /\ WF_vars(Attester) /\ WF_vars(Clock) /\ WF_vars(BeginClose \/ EndClose)
  /\ \A c \in Clients : WF_vars(Served(c))

----------------------------------------------------------------------------
(* Properties. *)

\* What is served stays within its limits: no more connections are open and no more commands wait
\* than there is room for, and a connection has an answer exactly when it was answered (dispatch).
AdminIsServed == TypeOK

\* An operator knows what became of a release.  Only a timeout or a lost reply leaves its
\* outcome open, and the next page its operator reads settles it: a command whose operator
\* was told anything else, or has read a page since, never lifts the hold; "released" is said
\* by the step that lifts it; and that step lifts the revision the operator was shown, also
\* when the hold was lifted and put again while the command waited in the inbox.
ReleasesAreExact ==
  [][/\ (hold.held /\ ~ hold'.held) =>
          /\ \/ job.told = "nobody" /\ conn[job.by].unsure
             \/ job.told = "none" /\ conn'[job.by].answer = "released"
          /\ job.seq = hold.seq
     /\ \A c \in Clients :
          (conn'[c].answer = "released" /\ conn[c].answer # "released") => hold.held /\ ~ hold'.held]_vars

\* Whatever operators keep sending, a checkpoint and a pause come to their end, so admin
\* traffic cannot hold up the cycle.
CyclesGoOn ==
  /\ att.pc = "checkpoint" ~> att.pc = "step"
  /\ att.pc = "pause" ~> att.pc # "pause"

\* A command that was admitted gets an answer, if only that its outcome is unknown.
AdmittedAreAnswered == \A c \in Clients : conn[c].st = "waiting" ~> conn[c].st = "answered"

\* A stop that was asked for, or that a diverged chain forces, is carried out by both,
\* with requests waiting and connections open.
ShutdownEnds == shutdown ~> att.pc \in {"stopped", "failed"} /\ listener = "stopped"

=============================================================================
