---------------------------- MODULE SubmitWithdraw ----------------------------
(***************************************************************************)
(* The earlier attester's submission (withdrawal-listener-attester:        *)
(* submit.rs, circle/retry.rs, withdrawal_api.rs, listener/mod.rs): the    *)
(* claim, the one POST with its bounded retries, the recovery of a 409 by  *)
(* polling, the record of the answer burn by burn, and the listener's own  *)
(* poll after a 201.  Several listeners share one ledger file.             *)
(*                                                                         *)
(* A step is the code between two awaits or two ledger transactions, and   *)
(* a listener may stop at each of them.  A request whose sender stopped or *)
(* timed out may still reach Circle.                                       *)
(*                                                                         *)
(* Environment: Circle and the operator.  What is assumed of Circle: a     *)
(* POST creates one withdrawal for each of its burns or none, and none     *)
(* while a burn of it has a withdrawal that has neither expired nor        *)
(* failed; an answer 400, 409 or 5xx means that POST created nothing; the  *)
(* withdrawal a 201 names for a burn is that burn's; a reported status is  *)
(* the withdrawal's.  Everything else in an answer may be wrong: the burns *)
(* it echoes, the withdrawal a 409 names, its shape.  A deployment with a  *)
(* ledger of its own may submit a burn too, at most MaxElsewhere times.    *)
(* What is assumed of the operator: they record about a burn what Circle   *)
(* shows them.                                                             *)
(***************************************************************************)
EXTENDS IdempotencyLedger, FiniteSets, Functions

CONSTANTS Listeners,     \* processes on the one ledger
          Requests,      \* requests a caller may submit: sequences of burn ids
          Foreign,       \* a burn of someone else
          MaxAttempts,   \* RetryPolicy.max_attempts
          MaxPolls,      \* PollPolicy.max_attempts
          MaxElsewhere   \* bound on the withdrawals other deployments make

ASSUME BoundsAssumption == MaxAttempts \in Nat \ {0} /\ MaxPolls \in Nat \ {0}

\* A request has one to five burns (WithdrawRequest), and its burns are keys of the ledger.
ASSUME RequestsAssumption ==
  /\ Foreign \notin Burns
  /\ \A request \in Requests :
       [n \in DOMAIN request |-> BurnKey(request[n])] \in Seq(Burns) \ {<<>>}

VARIABLES run,           \* what each listener is doing
          outcome,       \* what its last run reported
          circle,        \* Circle's withdrawals: id -> burn and status
          late           \* requests under way whose sender no longer listens

vars == <<ledger, run, outcome, circle, late>>

WithdrawalStatusKind == {"created", "finalized", "failed", "expired"}

NoWithdrawal == [burn |-> Foreign, status |-> "none", by |-> "none"]

Reply == [kind : {"created"}, statuses : Seq([burn : Burns \cup {Foreign}, id : WithdrawalIds])
                                           \ {<<>>}]
           \cup [kind : {"conflict"}, burn : Burns \cup {Foreign}, id : WithdrawalIds \cup {NoId}]
           \cup [kind : {"http"}, status : {400, 422, 500}]
           \cup [kind : {"transport", "malformed"}]

\* What a run reports; "crashed" where the process stopped before it did.
Outcomes == {"none", "duplicate", "already_submitted", "submitted", "withdrawn", "expired",
             "recovered", "reconciliation", "echo_mismatch", "rejected", "circle_error",
             "ledger_error", "crashed"}

IdleRun == [pc |-> "idle", keys |-> <<>>, attempt |-> 0, reply |-> [kind |-> "transport"],
            writes |-> <<>>, then |-> "none", polls |-> 0]

\* A record of the answer that is still to be written.
Write == [key : Burns, to : SubmissionStatus, id : WithdrawalIds \cup {NoId}]

Run == [pc : {"idle", "send", "wait", "read", "recover", "write", "confirm"},
        keys : Seq(Burns), attempt : 0 .. MaxAttempts, reply : Reply, writes : Seq(Write),
        then : Outcomes \cup {"confirm"}, polls : 0 .. MaxPolls]

TypeOK ==
  /\ LedgerTypeOK
  /\ run \in [Listeners -> Run]
  /\ outcome \in [Listeners -> Outcomes]
  /\ circle \in [WithdrawalIds -> [burn : Burns \cup {Foreign},
                                   status : WithdrawalStatusKind \cup {"none"},
                                   by : {"us", "other", "none"}]]
  /\ late \subseteq SUBSET Burns

Init ==
  /\ LedgerInit
  /\ run = [l \in Listeners |-> IdleRun]
  /\ outcome = [l \in Listeners |-> "none"]
  /\ circle = [i \in WithdrawalIds |-> NoWithdrawal]
  /\ late = {}

Goto(l, next) == run' = [run EXCEPT ![l] = next]

Finish(l, o) ==
  /\ run' = [run EXCEPT ![l] = IdleRun]
  /\ outcome' = [outcome EXCEPT ![l] = o]

----------------------------------------------------------------------------
(* Circle and the wire. *)

Withdrawals(b) == {i \in WithdrawalIds : circle[i].burn = b /\ circle[i].status # "none"}

Ours(b) == {i \in Withdrawals(b) : circle[i].by = "us"}

Active(b) == {i \in Withdrawals(b) : circle[i].status \in {"created", "finalized"}}

FreeIds == {i \in WithdrawalIds : circle[i] = NoWithdrawal}

\* The ids a POST of these burns would give out, each a new one.
Assignments(keys) ==
  {a \in [keys -> {i \in FreeIds : Cardinality({j \in FreeIds : j < i}) < Cardinality(keys)}] :
     IsInjective(a)}

\* Circle takes a POST: every burn of it gets a withdrawal.
Creates(a, by) ==
  circle' = [i \in WithdrawalIds |->
               IF \E b \in DOMAIN a : a[b] = i
               THEN [burn |-> CHOOSE b \in DOMAIN a : a[b] = i, status |-> "created", by |-> by]
               ELSE circle[i]]

\* The statuses of a 201: one for each burn in any order, or one of them echoing
\* a wrong burn.
Echoes(n, a) ==
  {s \in [1 .. n -> {[burn |-> b, id |-> a[b]] : b \in DOMAIN a}] : IsInjective(s)}

Statuses(n, a) ==
  Echoes(n, a)
    \cup {[s EXCEPT ![1].burn = f] : s \in Echoes(n, a), f \in DOMAIN a \cup {Foreign}}

CircleTakes(l) ==
  /\ run[l].pc = "wait"
  /\ LET keys == Range(run[l].keys) IN
     /\ \A b \in keys : Active(b) = {}
     /\ \E a \in Assignments(keys) :
          /\ Creates(a, "us")
          /\ \E r \in [kind : {"created"}, statuses : Statuses(Len(run[l].keys), a)]
                        \cup {[kind |-> "malformed"]} :
               Goto(l, [run[l] EXCEPT !.pc = "read", !.reply = r])
  /\ UNCHANGED <<ledger, outcome, late>>

\* 409 for a burn with an active withdrawal; what its body says may be wrong.
CircleConflicts(l) ==
  /\ run[l].pc = "wait"
  /\ \E b \in Range(run[l].keys) : Active(b) # {}
  /\ \E b \in Range(run[l].keys) \cup {Foreign}, i \in WithdrawalIds \cup {NoId} :
       /\ i # NoId => circle[i] # NoWithdrawal
       /\ Goto(l, [run[l] EXCEPT !.pc = "read",
                                 !.reply = [kind |-> "conflict", burn |-> b, id |-> i]])
  /\ UNCHANGED <<ledger, outcome, circle, late>>

\* 400, 5xx, any other status, or an answer that is too large or unreadable.
CircleRefuses(l) ==
  /\ run[l].pc = "wait"
  /\ \E r \in [kind : {"http"}, status : {400, 422, 500}] \cup {[kind |-> "malformed"]} :
       Goto(l, [run[l] EXCEPT !.pc = "read", !.reply = r])
  /\ UNCHANGED <<ledger, outcome, circle, late>>

\* No status at all: the connection failed or the reply was lost.  The request
\* may be under way still.
NoAnswer(l) ==
  /\ run[l].pc \in {"wait", "read"}
  /\ run[l].pc = "wait" \/ run[l].reply.kind # "transport"
  /\ late' = IF run[l].pc = "wait" THEN late \cup {Range(run[l].keys)} ELSE late
  /\ Goto(l, [run[l] EXCEPT !.pc = "read", !.reply = [kind |-> "transport"]])
  /\ UNCHANGED <<ledger, outcome, circle>>

LateArrival ==
  /\ \E keys \in late :
       /\ late' = late \ {keys}
       /\ \/ UNCHANGED circle
          \/ /\ \A b \in keys : Active(b) = {}
             /\ \E a \in Assignments(keys) : Creates(a, "us")
  /\ UNCHANGED <<ledger, run, outcome>>

Elsewhere ==
  /\ Cardinality({i \in WithdrawalIds : circle[i].by = "other"}) < MaxElsewhere
  /\ \E b \in Burns : Active(b) = {} /\ \E a \in Assignments({b}) : Creates(a, "other")
  /\ UNCHANGED <<ledger, run, outcome, late>>

CircleSettles ==
  /\ \E i \in WithdrawalIds, s \in {"finalized", "failed", "expired"} :
       circle[i].status = "created" /\ circle' = [circle EXCEPT ![i].status = s]
  /\ UNCHANGED <<ledger, run, outcome, late>>

----------------------------------------------------------------------------
(* submit_withdraw. *)

Blocked(k, id) == [key |-> k, to |-> "reconciliation_required", id |-> id]

mark_all_reconciliation(keys) == [n \in DOMAIN keys |-> Blocked(keys[n], NoId)]

position_of(keys, echoed) == CHOOSE n \in DOMAIN keys : keys[n] = echoed

block_others(keys, at) ==
  LET all == mark_all_reconciliation(keys)
  IN  SubSeq(all, 1, at - 1) \o SubSeq(all, at + 1, Len(all))

block_binding_id_to(keys, at, id) == <<Blocked(keys[at], id)>> \o block_others(keys, at)

\* Record these, then report: each record is a transaction of its own.
Settle(l, writes, then) ==
  Goto(l, [run[l] EXCEPT !.pc = "write", !.writes = writes, !.then = then])

\* Steps 1 and 2: no burn twice in the request, and the claim.
Submit(l) ==
  /\ run[l].pc = "idle"
  /\ \E request \in Requests :
       LET keys == [n \in DOMAIN request |-> BurnKey(request[n])] IN
       \/ /\ ~IsInjective(keys)
          /\ Finish(l, "duplicate")
          /\ UNCHANGED ledger
       \/ /\ IsInjective(keys)
          /\ ~Claimable(Range(keys))
          /\ Finish(l, "already_submitted")
          /\ UNCHANGED ledger
       \/ /\ IsInjective(keys)
          /\ claim_burns(Range(keys))
          /\ Goto(l, [IdleRun EXCEPT !.pc = "send", !.keys = keys])
          /\ outcome' = [outcome EXCEPT ![l] = "none"]
  /\ UNCHANGED <<circle, late>>

\* The attempts are not counted.
MutSend(l) ==
  /\ run[l].pc = "send"
  /\ Goto(l, [run[l] EXCEPT !.pc = "wait"])
  /\ UNCHANGED <<ledger, outcome, circle, late>>

\* Step 3: one attempt of with_backoff.
Send(l) ==
  /\ run[l].pc = "send"
  /\ Goto(l, [run[l] EXCEPT !.pc = "wait", !.attempt = @ + 1])
  /\ UNCHANGED <<ledger, outcome, circle, late>>

\* A request without an answer is sent again.
MutIsRetryable(r) == r.kind = "transport" \/ (r.kind = "http" /\ r.status = 500)

is_retryable(r) == r.kind = "http" /\ r.status = 500

Retry(l) ==
  /\ run[l].pc = "read"
  /\ is_retryable(run[l].reply) /\ run[l].attempt < MaxAttempts
  /\ Goto(l, [run[l] EXCEPT !.pc = "send"])
  /\ UNCHANGED <<ledger, outcome, circle, late>>

\* The statuses are bound to the burns by position.
MutSettleCreated(l) ==
  LET keys == run[l].keys
      statuses == run[l].reply.statuses
  IN  Settle(l, [n \in DOMAIN keys |->
                   [key |-> keys[n], to |-> "submitted", id |-> statuses[n].id]],
             IF Len(keys) = 1 THEN "confirm" ELSE "submitted")

\* The statuses are bound to the burns by what they echo, never by position.
settle_created(l) ==
  LET keys == run[l].keys
      statuses == run[l].reply.statuses
      Echoed == {statuses[n].burn : n \in DOMAIN statuses}
      Find(b) == statuses[CHOOSE n \in DOMAIN statuses : statuses[n].burn = b]
  IN  IF Echoed = Range(keys)
      THEN Settle(l, [n \in DOMAIN keys |->
                        [key |-> keys[n], to |-> "submitted", id |-> Find(keys[n]).id]],
                  IF Len(keys) = 1 THEN "confirm" ELSE "submitted")
      ELSE Settle(l, mark_all_reconciliation(keys), "echo_mismatch")

Created(l) ==
  /\ run[l].pc = "read" /\ run[l].reply.kind = "created"
  /\ settle_created(l)
  /\ UNCHANGED <<ledger, outcome, circle, late>>

\* The start of recover_conflict: what a 409 that names no withdrawal of ours says.
Conflict(l) ==
  /\ run[l].pc = "read" /\ run[l].reply.kind = "conflict"
  /\ LET keys == run[l].keys
         conflict == run[l].reply
     IN  \/ /\ conflict.burn \notin Range(keys)
            /\ Settle(l, mark_all_reconciliation(keys), "echo_mismatch")
         \/ /\ conflict.burn \in Range(keys) /\ conflict.id = NoId
            /\ Settle(l, mark_all_reconciliation(keys), "reconciliation")
         \/ /\ conflict.burn \in Range(keys) /\ conflict.id # NoId
            /\ Goto(l, [run[l] EXCEPT !.pc = "recover"])
  /\ UNCHANGED <<ledger, outcome, circle, late>>

\* Whatever failed, the burns may be claimed again.
MutSettleFailure(l) ==
  LET keys == run[l].keys
  IN  Settle(l, [n \in DOMAIN keys |-> [key |-> keys[n], to |-> "failed", id |-> NoId]],
             "rejected")

settle_failure(l) ==
  LET keys == run[l].keys
      rejected == run[l].reply.kind = "http" /\ run[l].reply.status = 400
  IN  IF rejected
      THEN Settle(l, [n \in DOMAIN keys |-> [key |-> keys[n], to |-> "failed", id |-> NoId]],
                  "rejected")
      ELSE Settle(l, mark_all_reconciliation(keys), "circle_error")

Failure(l) ==
  /\ run[l].pc = "read" /\ run[l].reply.kind \in {"http", "transport", "malformed"}
  /\ ~is_retryable(run[l].reply) \/ run[l].attempt = MaxAttempts
  /\ settle_failure(l)
  /\ UNCHANGED <<ledger, outcome, circle, late>>

\* One record of the answer.  A record the ledger refuses ends the run there.
WriteNext(l) ==
  /\ run[l].pc = "write"
  /\ LET w == Head(run[l].writes)
         rest == Tail(run[l].writes)
     IN  \/ /\ record_transition(w.key, w.to, w.id)
            /\ \/ /\ rest # <<>>
                  /\ Goto(l, [run[l] EXCEPT !.writes = rest])
                  /\ UNCHANGED outcome
               \/ /\ rest = <<>> /\ run[l].then = "confirm"
                  /\ Goto(l, [run[l] EXCEPT !.pc = "confirm", !.writes = rest])
                  /\ UNCHANGED outcome
               \/ /\ rest = <<>> /\ run[l].then # "confirm"
                  /\ Finish(l, run[l].then)
         \/ /\ ~Recordable(w.key, w.to)
            /\ Finish(l, "ledger_error")
            /\ UNCHANGED ledger
  /\ UNCHANGED <<circle, late>>

\* SQLite fails a claim or a record, which is rolled back.
LedgerFails(l) ==
  /\ run[l].pc \in {"idle", "write"}
  /\ Finish(l, "ledger_error")
  /\ UNCHANGED <<ledger, circle, late>>

----------------------------------------------------------------------------
(* poll_status, for a 409 and after a 201. *)

\* One GET.  What it shows is the withdrawal's status, for its burn or, wrongly,
\* for another one.
Polled(id) == [burn : {circle[id].burn, Foreign}, status : {circle[id].status}]

Settled(kind) == kind \in {"finalized", "failed", "expired"}

\* Not settled yet, and polls left.
PollAgain(l) ==
  /\ run[l].pc \in {"recover", "confirm"}
  /\ run[l].polls + 1 < MaxPolls
  /\ LET id == IF run[l].pc = "recover" THEN run[l].reply.id ELSE run[l].reply.statuses[1].id
     IN  ~Settled(circle[id].status)
  /\ Goto(l, [run[l] EXCEPT !.polls = @ + 1])
  /\ UNCHANGED <<ledger, outcome, circle, late>>

\* The rest of recover_conflict: the answer is about the burn the 409 named.
Recover(l) ==
  /\ run[l].pc = "recover"
  /\ LET keys == run[l].keys
         burn == run[l].reply.burn
         at == position_of(keys, burn)
         id == run[l].reply.id
     IN  \E status \in Polled(id) :
           /\ Settled(status.status)
           /\ \/ /\ status.burn # burn
                 /\ Settle(l, block_binding_id_to(keys, at, id), "echo_mismatch")
              \/ /\ status.burn = burn /\ status.status = "finalized"
                 /\ Settle(l, <<[key |-> burn, to |-> "finalized", id |-> id]>>
                                \o block_others(keys, at), "recovered")
              \/ /\ status.burn = burn /\ status.status # "finalized"
                 /\ Settle(l, block_binding_id_to(keys, at, id), "recovered")
  /\ UNCHANGED <<ledger, outcome, circle, late>>

\* settle: what a run reports after its 201.
Confirm(l) ==
  /\ run[l].pc = "confirm"
  /\ LET id == run[l].reply.statuses[1].id
         burn == run[l].keys[1]
     IN  \E status \in Polled(id) :
           /\ Settled(status.status)
           /\ \/ /\ status.burn # burn
                 /\ Finish(l, "echo_mismatch")
              \/ /\ status.burn = burn /\ status.status = "finalized"
                 /\ Settle(l, <<[key |-> burn, to |-> "finalized", id |-> id]>>, "withdrawn")
                 /\ UNCHANGED outcome
              \/ /\ status.burn = burn /\ status.status # "finalized"
                 /\ Finish(l, IF status.status = "expired" THEN "expired" ELSE "withdrawn")
  /\ UNCHANGED <<ledger, circle, late>>

\* A 404, an unreadable answer, another id, no answer, or no polls left.
PollFails(l) ==
  /\ \/ /\ run[l].pc = "recover"
        /\ LET at == position_of(run[l].keys, run[l].reply.burn)
           IN  Settle(l, block_binding_id_to(run[l].keys, at, run[l].reply.id), "circle_error")
        /\ UNCHANGED outcome
     \/ /\ run[l].pc = "confirm"
        /\ Finish(l, "circle_error")
  /\ UNCHANGED <<ledger, circle, late>>

----------------------------------------------------------------------------
(* The process stops, and the operator. *)

Crash(l) ==
  /\ run[l].pc # "idle"
  /\ late' = IF run[l].pc = "wait" THEN late \cup {Range(run[l].keys)} ELSE late
  /\ Finish(l, "crashed")
  /\ UNCHANGED <<ledger, circle>>

\* The recorders that are public are the operator's: a burn is taken as blocked,
\* or as what Circle shows of it.
Operator(k) ==
  /\ \/ record_transition(k, "reconciliation_required", NoId)
     \/ \E i \in Withdrawals(k) : record_transition(k, "submitted", i)
     \/ \E i \in Withdrawals(k) :
          circle[i].status = "finalized" /\ record_transition(k, "finalized", i)
  /\ UNCHANGED <<run, outcome, circle, late>>

Work(l) ==
  \/ Send(l) \/ NoAnswer(l) \/ Retry(l) \/ Created(l) \/ Conflict(l) \/ Failure(l)
  \/ WriteNext(l) \/ PollAgain(l) \/ Recover(l) \/ Confirm(l) \/ PollFails(l)

Next ==
  \/ \E l \in Listeners :
       \/ Submit(l) \/ Work(l) \/ LedgerFails(l) \/ Crash(l)
       \/ CircleTakes(l) \/ CircleConflicts(l) \/ CircleRefuses(l)
  \/ LateArrival \/ Elsewhere \/ CircleSettles
  \/ \E k \in Burns : Operator(k)

Spec == Init /\ [][Next]_vars

\* The runtime runs a listener's task, and every request it makes ends after
\* DEFAULT_REQUEST_TIMEOUT at the latest.
FairSpec == Spec /\ \A l \in Listeners : WF_vars(Work(l))

----------------------------------------------------------------------------
(* Properties. *)

Owns(l, b) == run[l].pc # "idle" /\ b \in Range(run[l].keys)

\* However listeners, stops, lost replies and late requests interleave, a burn
\* gets at most one withdrawal of theirs at Circle, even after the first one
\* expired or failed and Circle would take another: submit_withdraw claims before
\* it sends and a claim is released only by a 400.
OneWithdrawalPerBurn == \A b \in Burns : \A i, j \in Ours(b) : i = j

\* A burn that may be claimed again is one the listeners put nothing to Circle
\* for: they created no withdrawal of it, none is under way, and none of them is
\* at work on it but to record (settle_failure records failed for a 400 only).
FailedIsUnsent ==
  \A b \in Burns :
    ledger[b].status = "failed" =>
      /\ Ours(b) = {}
      /\ \A keys \in late : b \notin keys
      /\ \A l \in Listeners : Owns(l, b) => run[l].pc = "write"

\* A row that says submitted or finalized carries the id of that burn's own
\* withdrawal, and finalized only where Circle finalized it: recover_conflict and
\* settle bind an answer to the one burn it names.
SettledRowsAreTrue ==
  \A b \in Burns :
    /\ ledger[b].status \in {"submitted", "finalized"} => ledger[b].id \in Withdrawals(b)
    /\ ledger[b].status = "finalized" => circle[ledger[b].id].status = "finalized"

\* A run that ends by itself leaves none of its burns pending, but for one that
\* another listener has claimed since, and leaves them blocked unless Circle
\* answered 400: only a stop or a ledger error can strand a claim.
EndedRunsSettle ==
  [][\A l \in Listeners :
       (run[l].pc # "idle" /\ run'[l].pc = "idle"
          /\ outcome'[l] \notin {"crashed", "ledger_error"}) =>
            \A b \in Range(run[l].keys) :
              /\ ledger'[b].status = "pending" => outcome'[l] = "rejected"
              /\ ledger'[b].status = "failed" => outcome'[l] = "rejected"]_vars

Names(r, b, id) ==
  \/ r.kind = "conflict" /\ r.burn = b /\ r.id = id
  \/ r.kind = "created" /\ [burn |-> b, id |-> id] \in Range(r.statuses)

\* An id on record is never erased, and one is recorded for a burn only where
\* Circle named it for that burn or it is that burn's own: a conflict about one
\* burn says nothing about its neighbours.
IdsAreEvidence ==
  [][\A b \in Burns :
       ledger'[b].id # ledger[b].id =>
         /\ ledger'[b].id # NoId
         /\ \/ ledger'[b].id \in Withdrawals(b)
            \/ \E l \in Listeners : Owns(l, b) /\ Names(run[l].reply, b, ledger'[b].id)]_vars

\* Every run ends: retries and polls are bounded and every request times out.
RunsEnd == \A l \in Listeners : run[l].pc # "idle" ~> run[l].pc = "idle"

----------------------------------------------------------------------------
(* The inductive invariant behind them, of plain values: a run r, the ledger's rows g,  *)
(* Circle's withdrawals c and the requests t that are still under way.                  *)

\* Circle's withdrawal i is of burn b.
IsOf(c, i, b) == i \in WithdrawalIds /\ c[i].burn = b /\ c[i].status # "none"

\* Something for the burn has left these listeners and may exist, or come to exist, at Circle.
Sent(c, t, b) ==
  \/ \E i \in WithdrawalIds : IsOf(c, i, b) /\ c[i].by = "us"
  \/ \E keys \in t : b \in keys

\* The burns a run may still send or record.
Holds(r, b) ==
  \/ r.pc \in {"send", "wait", "read", "recover", "confirm"} /\ b \in Range(r.keys)
  \/ r.pc = "write" /\ \E n \in DOMAIN r.writes : r.writes[n].key = b

\* Every request of the run so far is known to have made nothing.
Unsent(r) == r.pc \in {"send", "wait"} \/ (r.pc = "read" /\ r.reply.kind = "http")

Blocks(row) == row.status \in {"submitted", "finalized", "reconciliation_required"}

\* Where a run is, and what it has in hand there.
PlaceOK(r) ==
  /\ r.pc # "idle" => r.keys # <<>> /\ IsInjective(r.keys)
  /\ r.pc = "send" => r.attempt < MaxAttempts
  /\ r.pc = "recover" => /\ r.reply.kind = "conflict" /\ r.reply.id # NoId
                         /\ r.reply.burn \in Range(r.keys)
  /\ (r.pc = "confirm" \/ (r.pc = "write" /\ r.then = "confirm")) =>
       r.reply.kind = "created" /\ Len(r.keys) = 1
  /\ r.pc = "write" =>
       /\ r.writes # <<>>
       /\ \A n, m \in DOMAIN r.writes : r.writes[n].key = r.writes[m].key => n = m
       /\ \A n \in DOMAIN r.writes : r.writes[n].key \in Range(r.keys)

\* A record to be written is true of Circle; that a burn was rejected is written only of one
\* that was never sent.
WriteOK(r, w, c, t) ==
  \/ w.to = "submitted" /\ r.then # "rejected" /\ IsOf(c, w.id, w.key)
  \/ w.to = "finalized" /\ r.then # "rejected" /\ IsOf(c, w.id, w.key)
       /\ c[w.id].status = "finalized"
  \/ w.to = "reconciliation_required" /\ r.then # "rejected"
       /\ (w.id = NoId \/ Names(r.reply, w.key, w.id))
  \/ w.to = "failed" /\ r.then = "rejected" /\ w.id = NoId /\ ~ Sent(c, t, w.key)

RunOK(r, g, c, t) ==
  /\ PlaceOK(r)
  /\ \A b \in Burns : Holds(r, b) => blocks_resubmission(g[b].status)
  /\ Unsent(r) => \A b \in Range(r.keys) : ~ Sent(c, t, b)
  /\ (r.pc = "read" /\ r.reply.kind = "created"
        /\ {r.reply.statuses[n].burn : n \in DOMAIN r.reply.statuses} = Range(r.keys)) =>
       \A n \in DOMAIN r.reply.statuses :
         IsOf(c, r.reply.statuses[n].id, r.reply.statuses[n].burn)
  /\ r.pc = "write" => \A n \in DOMAIN r.writes : WriteOK(r, r.writes[n], c, t)
  /\ (r.pc = "confirm" \/ (r.pc = "write" /\ r.then # "rejected")) =>
       \A b \in Range(r.keys) :
         Blocks(g[b]) \/ (r.pc = "write" /\ \E n \in DOMAIN r.writes : r.writes[n].key = b)

\* A burn that was sent is not claimable, and was sent once: it has one withdrawal or is in
\* one request under way.
SentOnce(g, c, t) ==
  \A b \in Burns :
    /\ Sent(c, t, b) => blocks_resubmission(g[b].status)
    /\ \A i, j \in WithdrawalIds :
         (IsOf(c, i, b) /\ IsOf(c, j, b) /\ c[i].by = "us" /\ c[j].by = "us") => i = j
    /\ \A keys \in t : b \in keys =>
         /\ \A i \in WithdrawalIds : IsOf(c, i, b) => c[i].by # "us"
         /\ \A others \in t : b \in others => others = keys

RowsTrue(g, c) ==
  \A b \in Burns :
    /\ g[b].status \in {"submitted", "finalized"} => IsOf(c, g[b].id, b)
    /\ g[b].status = "finalized" => c[g[b].id].status = "finalized"

\* What every state of the submission has: each run fits the ledger and Circle, no burn is in
\* two runs' hands, what was sent was sent once, and settled rows are true.
SubmitInv ==
  /\ TypeOK
  /\ \A l \in Listeners : RunOK(run[l], ledger, circle, late)
  /\ \A l, m \in Listeners : \A b \in Burns : Holds(run[l], b) /\ Holds(run[m], b) => l = m
  /\ SentOnce(ledger, circle, late)
  /\ RowsTrue(ledger, circle)

=============================================================================
