----------------------------- MODULE CircleTurns ------------------------------
(***************************************************************************)
(* The light attester's client for Circle (circle.rs): callers take turns  *)
(* to send, a gap apart, and read the reply chunk by chunk.  A caller may  *)
(* be dropped at any await.  The lock is fair and its queue's head holds   *)
(* it; times are counted in ticks, up to the gap.                          *)
(***************************************************************************)
EXTENDS Integers, Sequences

CONSTANTS Callers,
          REQUEST_GAP,               \* in ticks
          MAX_RESPONSE_BODY_BYTES,
          Lengths,                   \* of the bodies Circle sends
          Chunks                     \* sizes of the pieces they arrive in

ASSUME GapAssumption == REQUEST_GAP \in Nat \ {0}
ASSUME BodyAssumption ==
  /\ MAX_RESPONSE_BODY_BYTES \in Nat /\ Lengths \subseteq Nat /\ Chunks \subseteq Nat \ {0}

VARIABLES phase,        \* of each caller
          lock,         \* callers in the order they asked for it
          left,         \* ticks until next_dispatch
          started,      \* ticks since a request last went out
          ended,        \* ticks since an attempt last ended with a result
          reply,        \* the reply being read: its status, length and the bytes read
          result        \* what each caller's last call returned

vars == <<phase, lock, left, started, ended, reply, result>>

Statuses == {"ok", "too_many", "other"}
NoReply == [status |-> "none", length |-> 0, read |-> 0]
Replies == [status : Statuses, length : Lengths, read : Nat]

\* A body is what was read of the length that was sent.
Result(kind, body) == [kind |-> kind, body |-> body]

TypeOK ==
  /\ phase \in [Callers -> {"idle", "waiting", "sending", "reading"}]
  /\ lock \in Seq(Callers)
  /\ left \in 0 .. REQUEST_GAP /\ started \in 0 .. REQUEST_GAP /\ ended \in 0 .. REQUEST_GAP
  /\ reply \in Replies \cup {NoReply}
  /\ \A i, j \in DOMAIN lock : lock[i] = lock[j] => i = j
  /\ \A c \in Callers : phase[c] # "idle" <=> c \in {lock[i] : i \in DOMAIN lock}
  /\ \A i \in DOMAIN lock : phase[lock[i]] \in {"sending", "reading"} => i = 1

Init ==
  /\ phase = [c \in Callers |-> "idle"] /\ lock = <<>>
  /\ left = 0 /\ started = REQUEST_GAP /\ ended = REQUEST_GAP
  /\ reply = NoReply /\ result = [c \in Callers |-> Result("none", NoReply)]

Turn(c, ph) == lock # <<>> /\ Head(lock) = c /\ phase[c] = ph

Call(c) ==
  /\ phase[c] = "idle"
  /\ phase' = [phase EXCEPT ![c] = "waiting"] /\ lock' = Append(lock, c)
  /\ UNCHANGED <<left, started, ended, reply, result>>

\* The gap is counted from the answer alone.
MutDispatch(c) ==
  /\ Turn(c, "waiting") /\ left = 0
  /\ phase' = [phase EXCEPT ![c] = "sending"]
  /\ started' = 0 /\ UNCHANGED <<lock, left, ended, reply, result>>

Dispatch(c) ==
  /\ Turn(c, "waiting") /\ left = 0
  /\ phase' = [phase EXCEPT ![c] = "sending"] /\ left' = REQUEST_GAP
  /\ started' = 0 /\ UNCHANGED <<lock, ended, reply, result>>

\* The head of Circle's answer.
Respond(c) ==
  /\ Turn(c, "sending") /\ phase' = [phase EXCEPT ![c] = "reading"]
  /\ \E s \in Statuses, n \in Lengths : reply' = [status |-> s, length |-> n, read |-> 0]
  /\ UNCHANGED <<lock, left, started, ended, result>>

Return(c, kind, body) ==
  /\ result' = [result EXCEPT ![c] = Result(kind, body)]
  /\ phase' = [phase EXCEPT ![c] = "idle"] /\ lock' = Tail(lock)
  /\ left' = REQUEST_GAP /\ ended' = 0 /\ reply' = NoReply /\ UNCHANGED started

\* Nothing came back.
Transport(c) == Turn(c, "sending") /\ Return(c, "Transport", NoReply)

Chunk(c) ==
  /\ Turn(c, "reading")
  /\ \E k \in Chunks :
       /\ reply.read + k <= reply.length /\ reply.read + k <= MAX_RESPONSE_BODY_BYTES
       /\ reply' = [reply EXCEPT !.read = @ + k]
  /\ UNCHANGED <<phase, lock, left, started, ended, result>>

\* A rate limit is known by its status, also where the body cannot be read.
Failed(c, kind) ==
  Return(c, IF reply.status = "too_many" THEN "RateLimited" ELSE kind, NoReply)

BodyTooLarge(c) ==
  /\ Turn(c, "reading")
  /\ \E k \in Chunks :
       reply.read + k <= reply.length /\ reply.read + k > MAX_RESPONSE_BODY_BYTES
  /\ Failed(c, "BodyTooLarge")

\* The connection ends early, or the request's timeout is over.
ReadFails(c) == Turn(c, "reading") /\ Failed(c, "Transport")

read_reply(c) ==
  /\ Turn(c, "reading") /\ reply.read = reply.length
  /\ Return(c, IF reply.status = "too_many" THEN "RateLimited" ELSE "Ok", reply)

\* The lock's queue is left as it was but for this caller.
Leaves(c) ==
  \E i \in DOMAIN lock :
    lock[i] = c /\ lock' = SubSeq(lock, 1, i - 1) \o SubSeq(lock, i + 1, Len(lock))

\* A caller that gives up counts as one that has sent.
MutDrop(c) ==
  /\ phase[c] # "idle" /\ phase' = [phase EXCEPT ![c] = "idle"]
  /\ Leaves(c)
  /\ reply' = (IF phase[c] = "reading" THEN NoReply ELSE reply)
  /\ left' = REQUEST_GAP /\ UNCHANGED <<started, ended, result>>

\* The caller's future is dropped, and with it its turn or its place in the queue.
Drop(c) ==
  /\ phase[c] # "idle" /\ phase' = [phase EXCEPT ![c] = "idle"]
  /\ Leaves(c)
  /\ reply' = (IF phase[c] = "reading" THEN NoReply ELSE reply)
  /\ UNCHANGED <<left, started, ended, result>>

Later(t) == IF t = REQUEST_GAP THEN t ELSE t + 1

Tick ==
  /\ left' = (IF left = 0 THEN 0 ELSE left - 1)
  /\ started' = Later(started) /\ ended' = Later(ended)
  /\ UNCHANGED <<phase, lock, reply, result>>

Answered(c) == Respond(c) \/ Transport(c) \/ Chunk(c) \/ BodyTooLarge(c) \/ ReadFails(c) \/ read_reply(c)

Next ==
  \/ \E c \in Callers : Call(c) \/ Dispatch(c) \/ Answered(c) \/ Drop(c)
  \/ Tick

Spec == Init /\ [][Next]_vars

\* Time passes, a caller whose turn it is sends, and a request ends by its timeout.
FairSpec ==
  /\ Spec /\ WF_vars(Tick)
  /\ WF_vars(\E c \in Callers : Dispatch(c) \/ Answered(c))

----------------------------------------------------------------------------
(* Properties. *)

\* Whoever sends, and however many callers were dropped while they waited for an answer: a
\* request goes out a gap after the one before and after the last result (send's next_dispatch).
RequestsAreApart ==
  [][\A c \in Callers : phase[c] = "waiting" /\ phase'[c] = "sending"
        => started = REQUEST_GAP /\ ended = REQUEST_GAP]_vars

\* One request is out at a time, though callers that hold the lock, or wait for it, are dropped at
\* any await (send keeps the lock until the reply is read).
OneAtATime ==
  \A c, d \in Callers :
    phase[c] \in {"sending", "reading"} /\ phase[d] \in {"sending", "reading"} => c = d

\* A reply that a caller gets is all that Circle sent and within the limit, in whatever pieces
\* it arrived (read_reply).
RepliesAreWhole ==
  \A c \in Callers : result[c].kind = "Ok" =>
    result[c].body.read = result[c].body.length /\ result[c].body.length <= MAX_RESPONSE_BODY_BYTES

\* A caller that waits gets its turn or stops waiting, also when others call and stop waiting
\* without end: "A caller that stops waiting before its request goes out takes no turn."
EveryCallerServed == \A c \in Callers : phase[c] = "waiting" ~> phase[c] # "waiting"

=============================================================================
