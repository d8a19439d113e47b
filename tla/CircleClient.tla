----------------------------- MODULE CircleClient -----------------------------
(***************************************************************************)
(* The earlier attester's Circle client (withdrawal-listener-attester:     *)
(* circle/client.rs, circle/rate.rs, circle/retry.rs, circle/transport.rs):*)
(* the sliding-window rate governor every request passes, the bounded read *)
(* of a response, and the backoff between attempts.  Tasks share one       *)
(* governor, whose windows are guarded by a mutex: an acquisition is one   *)
(* step.                                                                   *)
(*                                                                         *)
(* A time stamp is kept as its age in ticks, up to Window, so that time    *)
(* has no bound.  Time may pass at any step: a task may be late.           *)
(***************************************************************************)
EXTENDS Naturals, Sequences, SequencesExt

CONSTANTS Tasks, Hosts,
          HostOf,         \* the host a task calls
          Window,         \* RATE_WINDOW in ticks
          PerHost,        \* qps_per_ip, as configured
          Global,         \* qps_global, as configured
          MaxBytes,       \* max_response_bytes
          Sizes,          \* lengths of the bodies a peer may send
          MaxAttempts,    \* RetryPolicy.max_attempts
          BaseDelay,      \* RetryPolicy.base_delay_ms
          MaxShift,       \* MAX_BACKOFF_SHIFT
          MaxU64,         \* the largest u64
          Requests        \* bound on the requests of a task

VARIABLES perHost,        \* GovernorState.per_host, ages
          global,         \* GovernorState.global, ages
          task,           \* what each task is doing
          grants          \* every permit granted in the last Window, by its age

vars == <<perHost, global, task, grants>>

Results == {"none", "ok", "server_error", "too_large", "transport"}

IdleTask == [pc |-> "idle", left |-> Requests, timer |-> 0, attempt |-> 0, delay |-> 0,
             size |-> 0, buf |-> 0, result |-> "none"]

TypeOK ==
  /\ perHost \in [Hosts -> Seq(0 .. Window)] /\ global \in Seq(0 .. Window)
  /\ grants \in Seq([host : Hosts, age : 0 .. Window - 1])
  /\ \A t \in Tasks :
       /\ task[t].pc \in {"idle", "acquire", "sent", "read", "settle"}
       /\ task[t].left \in 0 .. Requests /\ task[t].timer \in 0 .. Window
       /\ task[t].attempt \in 0 .. MaxAttempts /\ task[t].delay \in 0 .. MaxU64
       /\ task[t].size \in Sizes \cup {0} /\ task[t].buf \in 0 .. MaxBytes
       /\ task[t].result \in Results

Init ==
  /\ perHost = [h \in Hosts |-> <<>>] /\ global = <<>> /\ grants = <<>>
  /\ task = [t \in Tasks |-> IdleTask]

Set(t, r) == task' = [task EXCEPT ![t] = r]

Older(age) == IF age < Window THEN age + 1 ELSE age

Tick ==
  /\ perHost' = [h \in Hosts |-> [n \in DOMAIN perHost[h] |-> Older(perHost[h][n])]]
  /\ global' = [n \in DOMAIN global |-> Older(global[n])]
  /\ grants' = SelectSeq([n \in DOMAIN grants |-> [grants[n] EXCEPT !.age = @ + 1]],
                         LAMBDA g : g.age < Window)
  /\ task' = [t \in Tasks |-> [task[t] EXCEPT !.timer = IF @ > 0 THEN @ - 1 ELSE 0]]

----------------------------------------------------------------------------
(* RateGovernor. *)

\* A ceiling of 0 counts as 1.
Ceiling(qps) == IF qps = 0 THEN 1 ELSE qps

\* The window still counts at the age it leaves it.
MutPrune(window) == SelectSeq(window, LAMBDA age : age + 1 < Window)

prune(window) == SelectSeq(window, LAMBDA age : age < Window)

\* 0 where there is room, else the time until the oldest leaves the window.
window_wait(window, limit) == IF Len(window) < limit THEN 0 ELSE Window - window[1]

\* One pass of acquire's loop: take the slot in both windows, or sleep.
acquire(t) ==
  /\ task[t].pc = "acquire" /\ task[t].timer = 0
  /\ LET h == HostOf[t]
         hostWindow == prune(perHost[h])
         globalWindow == prune(global)
         hostWait == window_wait(hostWindow, Ceiling(PerHost))
         globalWait == window_wait(globalWindow, Ceiling(Global))
         wait == IF hostWait > globalWait THEN hostWait ELSE globalWait
     IN  /\ \/ /\ wait = 0
               /\ perHost' = [perHost EXCEPT ![h] = Append(hostWindow, 0)]
               /\ global' = Append(globalWindow, 0)
               /\ grants' = Append(grants, [host |-> h, age |-> 0])
               /\ Set(t, [task[t] EXCEPT !.pc = "sent"])
            \/ /\ wait > 0
               /\ perHost' = [perHost EXCEPT ![h] = hostWindow]
               /\ global' = globalWindow
               /\ Set(t, [task[t] EXCEPT !.timer = wait])
               /\ UNCHANGED grants

----------------------------------------------------------------------------
(* execute, with_backoff. *)

Start(t) ==
  /\ task[t].pc = "idle" /\ task[t].left > 0
  /\ Set(t, [IdleTask EXCEPT !.pc = "acquire", !.left = task[t].left - 1, !.attempt = 1])
  /\ UNCHANGED <<perHost, global, grants>>

End(t, r) == Set(t, [task[t] EXCEPT !.pc = "settle", !.result = r])

\* The connection fails, a redirect was followed, or a response begins.  Its
\* Content-Length is checked where there is one, and need not be true.
Respond(t) ==
  /\ task[t].pc = "sent"
  /\ \/ End(t, "transport")
     \/ End(t, "too_large")
     \/ \E size \in Sizes : Set(t, [task[t] EXCEPT !.pc = "read", !.size = size, !.buf = 0])
  /\ UNCHANGED <<perHost, global, grants>>

\* A chunk is kept before it is counted.
MutChunk(t) ==
  /\ task[t].pc = "read" /\ task[t].buf < task[t].size
  /\ \E n \in 1 .. task[t].size - task[t].buf :
       \/ task[t].buf <= MaxBytes /\ Set(t, [task[t] EXCEPT !.buf = @ + n])
       \/ task[t].buf > MaxBytes /\ End(t, "too_large")
  /\ UNCHANGED <<perHost, global, grants>>

\* collect_bounded counts a chunk before it keeps it.
Chunk(t) ==
  /\ task[t].pc = "read" /\ task[t].buf < task[t].size
  /\ \E n \in 1 .. task[t].size - task[t].buf :
       \/ task[t].buf + n <= MaxBytes /\ Set(t, [task[t] EXCEPT !.buf = @ + n])
       \/ task[t].buf + n > MaxBytes /\ End(t, "too_large")
  /\ UNCHANGED <<perHost, global, grants>>

\* A body that breaks off counts as ended.
MutReadFails(t) ==
  /\ task[t].pc = "read"
  /\ End(t, "ok")
  /\ UNCHANGED <<perHost, global, grants>>

ReadFails(t) ==
  /\ task[t].pc = "read"
  /\ End(t, "transport")
  /\ UNCHANGED <<perHost, global, grants>>

EndOfBody(t) ==
  /\ task[t].pc = "read" /\ task[t].buf = task[t].size
  /\ \E r \in {"ok", "server_error"} : End(t, r)
  /\ UNCHANGED <<perHost, global, grants>>

\* The multiplication wraps.
MutBackoffFor(attempt) ==
  (BaseDelay * 2 ^ (IF attempt - 1 > MaxShift THEN MaxShift ELSE attempt - 1)) % (MaxU64 + 1)

\* base * 2^(attempt-1); the shift and the product saturate.
backoff_for(attempt) ==
  LET shift == IF attempt - 1 > MaxShift THEN MaxShift ELSE attempt - 1
      product == BaseDelay * 2 ^ shift
  IN  IF product > MaxU64 THEN MaxU64 ELSE product

\* A server error is tried again for ever.
MutRetry(t) ==
  /\ task[t].pc = "settle" /\ task[t].result = "server_error"
  /\ Set(t, [task[t] EXCEPT !.pc = "acquire", !.delay = backoff_for(task[t].attempt)])
  /\ UNCHANGED <<perHost, global, grants>>

\* The sleep of backoff_for is part of the step: the next attempt comes later.
Retry(t) ==
  /\ task[t].pc = "settle" /\ task[t].result = "server_error" /\ task[t].attempt < MaxAttempts
  /\ Set(t, [task[t] EXCEPT !.pc = "acquire", !.attempt = @ + 1, !.result = "none",
                            !.delay = backoff_for(task[t].attempt)])
  /\ UNCHANGED <<perHost, global, grants>>

Return(t) ==
  /\ task[t].pc = "settle"
  /\ task[t].result # "server_error" \/ task[t].attempt = MaxAttempts
  /\ Set(t, [IdleTask EXCEPT !.left = task[t].left])
  /\ UNCHANGED <<perHost, global, grants>>

Work(t) ==
  \/ Start(t) \/ acquire(t) \/ Respond(t) \/ Chunk(t) \/ ReadFails(t) \/ EndOfBody(t)
  \/ Retry(t) \/ Return(t)

Next == Tick \/ \E t \in Tasks : Work(t)

Spec == Init /\ [][Next]_vars

\* Time passes, the runtime runs every task, and a request ends by its timeout.
FairSpec == Spec /\ WF_vars(Tick) /\ \A t \in Tasks : WF_vars(Work(t))

----------------------------------------------------------------------------
(* Properties. *)

\* Whichever tasks race for a slot, no window of one RATE_WINDOW ever holds more
\* permits for a host, or overall, than acquire's two ceilings.
CeilingsHold ==
  /\ \A h \in Hosts : Len(SelectSeq(grants, LAMBDA g : g.host = h)) <= Ceiling(PerHost)
  /\ Len(grants) <= Ceiling(Global)

\* A body collect_bounded hands up is the whole body, and one that is within the
\* ceiling; no more than the ceiling is ever held.
BodyIsWhole ==
  \A t \in Tasks :
    /\ task[t].buf <= MaxBytes
    /\ (task[t].pc = "settle" /\ task[t].result \in {"ok", "server_error"}) =>
         task[t].buf = task[t].size

\* From attempt to attempt the wait never shrinks and never falls under the base delay,
\* however many attempts are configured; a task that tries again has waited that long.
BackoffGrows ==
  /\ \A a, b \in 1 .. MaxAttempts :
       a <= b => BaseDelay <= backoff_for(a) /\ backoff_for(a) <= backoff_for(b)
  /\ \A t \in Tasks : (task[t].pc = "acquire" /\ task[t].attempt > 1) => task[t].delay >= BaseDelay

\* A caller that waits for a permit is served: a task that wakes and finds its
\* slot taken waits again, but not for ever, and retries are bounded.
RequestsEnd == \A t \in Tasks : task[t].pc = "acquire" ~> task[t].pc = "idle"

=============================================================================
