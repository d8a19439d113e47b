--------------------------- MODULE BridgeSupervisor ---------------------------
(***************************************************************************)
(* The bridge process (usdcx-bridge/src/supervisor.rs with                 *)
(* usdcx-telemetry/src/shutdown.rs): it starts the attester, then the      *)
(* relayer on a thread of its own, runs both, and stops them together on a *)
(* signal or when either one ends, within a deadline.                      *)
(*                                                                         *)
(* A service is opaque here: it ends well, with an error or with a panic,  *)
(* by itself or because it saw the shutdown, or it never ends.  The        *)
(* supervising thread learns that a service ended only when it is polled,  *)
(* so a signal may arrive between the two.                                 *)
(***************************************************************************)
EXTENDS Naturals

VARIABLES main,       \* where the main task is
          attester,   \* the attester: not started, starting, idle, running or how it ended
          relayer,    \* the relayer's thread
          ready,      \* the oneshot channel: open, sent or dropped
          shutdown,   \* the cancellation token
          signal,     \* whether SIGTERM or SIGINT arrived
          deadline,   \* the sleep of stop_within: off, running or over
          joined,     \* the result of stop_peer_on_exit for each service
          status      \* how the process ended

vars == <<main, attester, relayer, ready, shutdown, signal, deadline, joined, status>>

Services == {"attester", "relayer"}
Ended == {"ok", "err", "panic"}

TypeOK ==
  /\ main \in {"StartAttester", "StartRelayer", "Supervise", "Returned"}
  /\ attester \in {"Starting", "Passed", "Running"} \cup Ended
  /\ relayer \in {"None", "Starting", "Running"} \cup Ended
  /\ ready \in {"open", "sent", "dropped"}
  /\ shutdown \in {"no", "requested"}
  /\ signal \in {"no", "arrived"}
  /\ deadline \in {"off", "running", "over"}
  /\ joined \in [Services -> {"pending", "ok", "err"}]
  /\ status \in {"none", "success", "failure", "killed"}

Init ==
  /\ main = "StartAttester" /\ attester = "Starting" /\ relayer = "None"
  /\ ready = "open" /\ shutdown = "no" /\ signal = "no" /\ deadline = "off"
  /\ joined = [s \in Services |-> "pending"] /\ status = "none"

Alive == status = "none"

-----------------------------------------------------------------------------
(* Signals and the deadline *)

\* The handler's task sees the first signal and cancels the token.
Signal ==
  /\ Alive /\ signal = "no"
  /\ signal' = "arrived"
  /\ UNCHANGED <<main, attester, relayer, ready, shutdown, deadline, joined, status>>

CancelOnSignal ==
  /\ Alive /\ signal = "arrived" /\ shutdown = "no"
  /\ shutdown' = "requested"
  /\ UNCHANGED <<main, attester, relayer, ready, signal, deadline, joined, status>>

\* Mutant: startup runs outside stop_within.
DeadlineStartsLate ==
  /\ Alive /\ shutdown = "requested" /\ deadline = "off" /\ main = "Supervise"
  /\ deadline' = "running"
  /\ UNCHANGED <<main, attester, relayer, ready, shutdown, signal, joined, status>>

\* stop_within: the sleep begins once the token is cancelled.
DeadlineStarts ==
  /\ Alive /\ shutdown = "requested" /\ deadline = "off"
  /\ deadline' = "running"
  /\ UNCHANGED <<main, attester, relayer, ready, shutdown, signal, joined, status>>

\* The sleep ends first: the process exits with a failure and takes its threads with it.
DeadlinePasses ==
  /\ Alive /\ deadline = "running"
  /\ deadline' = "over" /\ status' = "killed"
  /\ UNCHANGED <<main, attester, relayer, ready, shutdown, signal, joined>>

-----------------------------------------------------------------------------
(* Startup *)

StartAttesterPasses ==
  /\ Alive /\ main = "StartAttester"
  /\ attester' = "Passed" /\ relayer' = "Starting" /\ main' = "StartRelayer"
  /\ UNCHANGED <<ready, shutdown, signal, deadline, joined, status>>

StartAttesterFails ==
  /\ Alive /\ main = "StartAttester"
  /\ attester' = "err"
  /\ main' = "Returned" /\ status' = "failure"
  /\ UNCHANGED <<relayer, ready, shutdown, signal, deadline, joined>>

RelayerPasses ==
  /\ Alive /\ relayer = "Starting"
  /\ relayer' = "Running" /\ ready' = "sent"
  /\ UNCHANGED <<main, attester, shutdown, signal, deadline, joined, status>>

\* An error or a panic drops the sender.
RelayerFails(outcome) ==
  /\ Alive /\ relayer = "Starting" /\ outcome # "ok"
  /\ relayer' = outcome /\ ready' = "dropped"
  /\ UNCHANGED <<main, attester, shutdown, signal, deadline, joined, status>>

\* Both passed: stop_within is left, and supervise starts another one with a new sleep.
StartDone ==
  /\ Alive /\ main = "StartRelayer" /\ ready = "sent"
  /\ main' = "Supervise" /\ attester' = "Running" /\ deadline' = "off"
  /\ UNCHANGED <<relayer, ready, shutdown, signal, joined, status>>

\* The relayer's thread is awaited for its error.
StartFails ==
  /\ Alive /\ main = "StartRelayer" /\ ready = "dropped" /\ relayer \in Ended
  /\ main' = "Returned" /\ status' = "failure"
  /\ UNCHANGED <<attester, relayer, ready, shutdown, signal, deadline, joined>>

-----------------------------------------------------------------------------
(* Supervision *)

AttesterEnds(outcome) ==
  /\ Alive /\ attester = "Running"
  /\ attester' = outcome
  /\ UNCHANGED <<main, relayer, ready, shutdown, signal, deadline, joined, status>>

RelayerEnds(outcome) ==
  /\ Alive /\ relayer = "Running"
  /\ relayer' = outcome
  /\ UNCHANGED <<main, attester, ready, shutdown, signal, deadline, joined, status>>

Outcome(s) == IF s = "attester" THEN attester ELSE relayer

\* Mutant: a service that ends by itself is taken for a clean stop.
StopPeerOnExitLenient(s) ==
  /\ Alive /\ main = "Supervise" /\ joined[s] = "pending" /\ Outcome(s) \in Ended
  /\ shutdown' = "requested"
  /\ joined' = [joined EXCEPT ![s] = IF Outcome(s) = "ok" THEN "ok" ELSE "err"]
  /\ UNCHANGED <<main, attester, relayer, ready, signal, deadline, status>>

\* Mutant: the peer of a service that ends by itself goes on.
StopPeerOnExitAlone(s) ==
  /\ Alive /\ main = "Supervise" /\ joined[s] = "pending" /\ Outcome(s) \in Ended
  /\ shutdown' = shutdown
  /\ joined' = [joined EXCEPT ![s] =
                  IF Outcome(s) = "ok" /\ shutdown = "requested" THEN "ok" ELSE "err"]
  /\ UNCHANGED <<main, attester, relayer, ready, signal, deadline, status>>

\* Ending before shutdown was requested requests it, and is an error.
StopPeerOnExit(s) ==
  /\ Alive /\ main = "Supervise" /\ joined[s] = "pending" /\ Outcome(s) \in Ended
  /\ shutdown' = "requested"
  /\ joined' = [joined EXCEPT ![s] =
                  IF Outcome(s) = "ok" /\ shutdown = "requested" THEN "ok" ELSE "err"]
  /\ UNCHANGED <<main, attester, relayer, ready, signal, deadline, status>>

BothJoined == \A s \in Services : joined[s] # "pending"

SuperviseDone ==
  /\ Alive /\ main = "Supervise" /\ BothJoined
  /\ main' = "Returned"
  /\ status' = IF \A s \in Services : joined[s] # "err" THEN "success" ELSE "failure"
  /\ UNCHANGED <<attester, relayer, ready, shutdown, signal, deadline, joined>>

-----------------------------------------------------------------------------
(* The specification *)

Timing == CancelOnSignal \/ DeadlineStarts \/ DeadlinePasses

Startup ==
  \/ StartAttesterPasses \/ StartAttesterFails \/ RelayerPasses
  \/ \E o \in Ended : RelayerFails(o)
  \/ StartDone \/ StartFails

Supervision ==
  \/ \E o \in Ended : AttesterEnds(o) \/ RelayerEnds(o)
  \/ \E s \in Services : StopPeerOnExit(s)
  \/ SuperviseDone

Next == Signal \/ Timing \/ Startup \/ Supervision

Spec == Init /\ [][Next]_vars

\* The runtime polls what is ready, and sleeps end.  Neither a service nor its startup need end.
Fairness ==
  /\ WF_vars(CancelOnSignal) /\ WF_vars(DeadlineStarts) /\ WF_vars(DeadlinePasses)
  /\ WF_vars(StartDone) /\ WF_vars(StartFails)
  /\ \A s \in Services : WF_vars(StopPeerOnExit(s))
  /\ WF_vars(SuperviseDone)

FairSpec == Spec /\ Fairness

-----------------------------------------------------------------------------
(* Properties *)

\* The process reports success only when a signal asked it to stop and both services ended
\* well: one that ends by itself, fails or panics is never reported as a clean shutdown.
SuccessIsClean ==
  status = "success" => signal = "arrived" /\ attester = "ok" /\ relayer = "ok"

\* main never returns while a service still runs: only the deadline ends a service early.
NoServiceLeftBehind ==
  status \in {"success", "failure"} =>
    attester # "Running" /\ relayer \notin {"Starting", "Running"}

\* A requested shutdown ends the process, also when a service or its startup hangs; and so does
\* the end of one service, also when its peer never stops (stop_peer_on_exit, the deadline).
ProcessEnds ==
  (\/ shutdown = "requested"
   \/ main = "Supervise" /\ \E s \in Services : Outcome(s) \in Ended) ~> status # "none"

=============================================================================
