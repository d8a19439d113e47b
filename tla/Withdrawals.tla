----------------------------- MODULE Withdrawals -----------------------------
(***************************************************************************)
(* The light attester's withdrawal lifecycle (xusdc-light-attester:        *)
(* attester.rs, submission.rs, store.rs): the cycle that recovers, submits *)
(* and polls withdrawals, Circle on the other side of an unreliable wire,  *)
(* and the operator who releases holds through the admin socket or, while  *)
(* the process is stopped, with the offline command.                       *)
(*                                                                         *)
(* One task runs the cycle.  It gives way to admin commands only at        *)
(* admin_checkpoint and between cycles, so a step here is the code between *)
(* two awaits: pick an item, send a request, read and save its reply.      *)
(* The process may stop at every one of these points, and a store error    *)
(* may abort the cycle at every one that writes.                           *)
(*                                                                         *)
(* Circle, the operator and discovery are environment.  What is assumed of *)
(* Circle: a reply that rejects a request's only send means it was not     *)
(* accepted, a reported status is the withdrawal's status, a withdrawal    *)
(* that expired or failed is never paid, and a conflict names a withdrawal *)
(* of the burn that has not expired.  Replies that are lost, malformed,    *)
(* unexpected, or that identify another withdrawal may come at any time,   *)
(* and a request whose reply was lost may reach Circle later.  What is     *)
(* assumed of the operator: they confirm that Circle did not accept a      *)
(* request only when it was not accepted and is not under way.             *)
(*                                                                         *)
(* MaxFaults bounds the unhelpful replies, stops, aborted cycles, expiries *)
(* and failures of a behaviour.  A second authorization of a burn follows  *)
(* at least one of them, so it bounds the authorizations too.              *)
(***************************************************************************)
EXTENDS AttesterStore, FiniteSets

CONSTANTS MaxFaults,   \* bound on faults, see above
          Policies     \* whether a start sets --withdrawal-limit-*: of {"on", "off"}

ASSUME MaxFaultsAssumption == MaxFaults \in Nat
ASSUME PoliciesAssumption == Policies \subseteq {"on", "off"}

VARIABLES circle,     \* what became of each authorization at Circle
          phase,      \* where the process is: stopped, between cycles, or a phase
          step,       \* what the phase waits for
          todo,       \* the items each phase has left
          snap,       \* the submissions as snapshot_submissions read them
          note,       \* the item in hand, 0 without one
          saved,      \* its SavedSubmission, once there is one
          attempt,    \* SubmissionAttempt
          traffic,    \* rate_limited: whether this cycle may still call Circle
          policy,     \* whether the withdrawal-limit settings are configured
          cmd,        \* the release command an operator may send or send again
          faults      \* faults so far

processVars == <<phase, step, todo, snap, note, saved, attempt, traffic, policy>>
vars == <<storeVars, circle, processVars, cmd, faults>>

Auths == 1 .. MaxFaults + 1

\* "wire": sent, and neither accepted nor lost for good.
CircleStates == {"none", "wire", "live", "finalized", "expired", "failed"}

CyclePhases == {"Recover", "Submit", "Poll"}

NoTodo == [p \in CyclePhases |-> {}]

NoSnap == [n \in Notes |-> NoSubmission]

\* --circle-not-accepted: what the operator states about a signed withdrawal.
Claims == {"unchecked", "not_accepted"}

NoCmd == [note |-> 0, rev |-> 0, auth |-> 0, claim |-> "unchecked"]

TypeOK ==
  /\ StoreTypeOK
  /\ circle \in [Notes -> [Auths -> CircleStates]]
  /\ phase \in {"Stopped", "Idle"} \cup CyclePhases
  /\ step \in {"Next", "Prepare", "Send", "Reply"}
  /\ todo \in [CyclePhases -> SUBSET Notes]
  /\ snap \in [Notes -> SavedSubmission]
  /\ note \in Notes \cup {0}
  /\ saved \in SavedSubmission
  /\ attempt \in Attempts
  /\ traffic \in {"open", "limited"}
  /\ policy \in {"on", "off"}
  /\ cmd \in [note : Notes \cup {0}, rev : Nat, auth : Nat, claim : Claims]
  /\ faults \in 0 .. MaxFaults

Init ==
  /\ StoreInit
  /\ circle = [n \in Notes |-> [a \in Auths |-> "none"]]
  /\ phase = "Stopped" /\ step = "Next"
  /\ todo = NoTodo /\ snap = NoSnap
  /\ note = 0 /\ saved = NoSubmission /\ attempt = "Prepare"
  /\ traffic = "open" /\ policy = "off"
  /\ cmd = NoCmd
  /\ faults = 0

Fault == faults < MaxFaults /\ faults' = faults + 1

-----------------------------------------------------------------------------
(* The process *)

\* Control returns to p with nothing in hand and no work left from this cycle.
RestAt(p) ==
  /\ phase' = p /\ step' = "Next"
  /\ todo' = NoTodo /\ snap' = NoSnap
  /\ note' = 0 /\ saved' = NoSubmission /\ attempt' = "Prepare"
  /\ traffic' = "open"

\* The item in hand is done; the phase goes on to its next one.
ItemDone ==
  /\ step' = "Next" /\ note' = 0 /\ saved' = NoSubmission /\ attempt' = "Prepare"
  /\ UNCHANGED <<phase, todo, snap, policy>>

\* Attester::start: the store must open and validate, and waiting burns need the settings.
Start(p) ==
  /\ phase = "Stopped"
  /\ ValidateStore
  /\ p = "on" \/ Waiting = {}
  /\ phase' = "Idle" /\ policy' = p
  /\ UNCHANGED <<storeVars, circle, step, todo, snap, note, saved, attempt, traffic, cmd, faults>>

\* A stop between cycles, a diverged chain, or a crash anywhere.
Exit ==
  /\ phase # "Stopped"
  /\ Fault
  /\ RestAt("Stopped") /\ policy' = "off"
  /\ UNCHANGED <<storeVars, circle, cmd>>

\* A store error aborts the cycle; the next one runs after the pause.
CycleFails ==
  /\ phase \in CyclePhases /\ step # "Send"
  /\ Fault
  /\ RestAt("Idle")
  /\ UNCHANGED <<storeVars, circle, policy, cmd>>

\* Discovery done, the cycle snapshots its work.  `visible` are the burns deep enough;
\* after a chain read failure there are none.
TakeSnapshot(visible) ==
  /\ phase = "Idle"
  /\ phase' = "Recover"
  /\ snap' = sub
  /\ todo' = [p \in CyclePhases |->
                CASE p = "Recover" -> WithStatus("Submitting")
                  [] p = "Submit"  -> Eligible \cap visible
                  [] p = "Poll"    -> WithStatus("Submitted")]
  /\ UNCHANGED <<storeVars, circle, step, note, saved, attempt, traffic, policy, cmd>>

\* A cycle; one that does not see every burn counts as a fault.
StartCycle(visible) ==
  /\ TakeSnapshot(visible)
  /\ IF visible = known THEN faults' = faults ELSE Fault

\* Recovery and polling go by note ID, submission by the order of withdrawal.
IsNext(n) ==
  /\ n \in todo[phase]
  /\ \A m \in todo[phase] \ {n} : IF phase = "Submit" THEN Before(n, m) ELSE n < m

\* Mutants: only the burn's own retry is looked at; a waiter also waits for itself.
LimitAllowsOutOfTurn(n) == limit[n] \in {"None", "Due"}
LimitAllowsNoRetry(n) == \A w \in Waiting : Before(n, w)

\* limit_allows without its write: no waiter is ahead, and a waiter's own retry is due.
LimitAllows(n) == \A w \in Waiting : Before(n, w) \/ (w = n /\ limit[n] = "Due")

\* Mutant: a phase leaves its unfinished items to the next cycle.
PhaseEndsKeepingItems ==
  /\ phase \in CyclePhases /\ step = "Next"
  /\ traffic = "limited" \/ todo[phase] = {}
  /\ phase' = [Recover |-> "Submit", Submit |-> "Poll", Poll |-> "Idle"][phase]
  /\ IF phase = "Poll" THEN snap' = NoSnap /\ traffic' = "open" ELSE UNCHANGED <<snap, traffic>>
  /\ UNCHANGED <<storeVars, circle, step, todo, note, saved, attempt, policy, cmd, faults>>

\* A phase ends when it has no item left, on a 429, and submission also on a limit wait.
PhaseEnds ==
  /\ phase \in CyclePhases /\ step = "Next"
  /\ \/ todo[phase] = {}
     \/ traffic = "limited"
     \/ phase = "Submit" /\ \E n \in todo[phase] : IsNext(n) /\ ~LimitAllows(n)
  /\ CASE phase = "Recover" -> phase' = "Submit"
       [] phase = "Submit"  -> phase' = "Poll"
       [] phase = "Poll"    -> phase' = "Idle"
  /\ todo' = [todo EXCEPT ![phase] = {}]
  /\ IF phase = "Poll" THEN snap' = NoSnap /\ traffic' = "open" ELSE UNCHANGED <<snap, traffic>>
  /\ UNCHANGED <<storeVars, circle, step, note, saved, attempt, policy, cmd, faults>>

\* submit_withdrawals takes up a burn: its due retry is moved on, then it is prepared.
PickBurn(n) ==
  /\ phase = "Submit" /\ step = "Next"
  /\ IsNext(n) /\ traffic = "open" /\ LimitAllows(n)
  /\ AdvanceLimitRetry(n)
  /\ step' = "Prepare" /\ note' = n
  /\ todo' = [todo EXCEPT ![phase] = @ \ {n}]
  /\ UNCHANGED <<known, hold, sub, signed, rev, circle, phase, snap, saved, attempt,
                 traffic, policy, cmd, faults>>

\* advance_submissions takes up a saved request: a resend needs the limit's leave, a GET does not.
PickSaved(n) ==
  /\ phase \in {"Recover", "Poll"} /\ step = "Next"
  /\ IsNext(n) /\ traffic = "open"
  /\ todo' = [todo EXCEPT ![phase] = @ \ {n}]
  /\ IF snap[n].id = 0 /\ ~LimitAllows(n)
       THEN UNCHANGED <<limit, step, note, saved, attempt>>
       ELSE /\ IF snap[n].id = 0 THEN AdvanceLimitRetry(n) ELSE limit' = limit
            /\ step' = "Send" /\ note' = n /\ saved' = snap[n] /\ attempt' = "Recovery"
  /\ UNCHANGED <<known, hold, sub, signed, rev, circle, phase, snap, traffic, policy,
                 cmd, faults>>

-----------------------------------------------------------------------------
(* attempt_withdrawal and withdraw: prepare, verify, sign, save *)

Preparing == step = "Prepare"

\* Prepared, verified and signed: the request is saved before it is sent.
PrepareSigned ==
  /\ Preparing
  /\ IF CanSave(note)
       THEN /\ SaveSubmission(note)
            /\ step' = "Send" /\ saved' = NewSubmission(note) /\ attempt' = "First"
            /\ UNCHANGED <<phase, todo, snap, note, traffic, policy>>
       ELSE RestAt("Idle") /\ UNCHANGED <<storeVars, policy>>
  /\ UNCHANGED <<circle, cmd, faults>>

\* A prepare 400 that is not a withdrawal-limit rejection, or a burn below its fee cap.
PrepareHeld(reason) ==
  /\ Preparing
  /\ Fault
  /\ HoldBurn(note, reason)
  /\ ItemDone
  /\ UNCHANGED <<circle, traffic, cmd>>

\* A prepare 400 with the configured message prefix.
PrepareLimit ==
  /\ Preparing /\ policy = "on"
  /\ Fault
  /\ IF CanRecordLimitRejection(note, "Prepare", NoSubmission)
       THEN RecordLimitRejection(note, "Prepare") /\ ItemDone /\ traffic' = traffic
       ELSE RestAt("Idle") /\ UNCHANGED <<storeVars, policy>>
  /\ UNCHANGED <<circle, cmd>>

\* Every other failure before the request is saved; a 429 also ends Circle traffic.
PrepareFails(after) ==
  /\ Preparing
  /\ Fault
  /\ ItemDone
  /\ traffic' = after
  /\ UNCHANGED <<storeVars, circle, cmd>>

-----------------------------------------------------------------------------
(* advance_submission: send a saved request, read the reply, save the outcome *)

\* POST while Circle's ID is unknown, GET once it is known.
Send ==
  /\ step = "Send"
  /\ step' = "Reply"
  /\ circle' = IF saved.id = 0 /\ circle[note][saved.auth] = "none"
                 THEN [circle EXCEPT ![note][saved.auth] = "wire"] ELSE circle
  /\ UNCHANGED <<storeVars, phase, todo, snap, note, saved, attempt, traffic, policy, cmd, faults>>

Replying == step = "Reply"

\* save_outcome, after which the cycle goes on with its next item.
SaveOutcome(outcome, after) ==
  IF sub[note].status # "None"
    THEN UpdateSubmissionOutcome(note, outcome) /\ ItemDone /\ traffic' = after
    ELSE RestAt("Idle") /\ UNCHANGED <<storeVars, policy>>

\* Mutant: a failed withdrawal is taken for an expired one.
StatusOfRetryingFailed(reported) ==
  IF reported = "live" THEN "Submitted"
  ELSE IF reported = "finalized" THEN "Finalized" ELSE "Expired"

\* What read_response makes of the status Circle reports.
StatusOf(reported) ==
  CASE reported = "live"      -> "Submitted"
    [] reported = "finalized" -> "Finalized"
    [] reported = "expired"   -> "Expired"
    [] reported = "failed"    -> "Failed"

\* What Circle has of an authorization once it took the request that carries it.
Taken(c) == IF c = "wire" THEN "live" ELSE c

\* 201 to a POST or 200 to a GET, identifying the saved withdrawal.
ReplyStatus ==
  /\ Replying
  /\ LET id == IF saved.id = 0 THEN saved.auth ELSE saved.id
         reported == Taken(circle[note][id])
     IN /\ circle' = [circle EXCEPT ![note][id] = reported]
        /\ SaveOutcome([saved EXCEPT !.status = StatusOf(reported), !.id = id,
                                     !.outcome = reported], traffic)
  /\ UNCHANGED <<cmd, faults>>

\* The same, with a status word the attester does not know: the ID is kept, the status too.
ReplyUnknownStatus ==
  /\ Replying
  /\ Fault
  /\ LET id == IF saved.id = 0 THEN saved.auth ELSE saved.id
     IN /\ circle' = [circle EXCEPT ![note][id] = Taken(@)]
        /\ SaveOutcome([saved EXCEPT !.id = id, !.outcome = "unknown_status"], traffic)
  /\ UNCHANGED cmd

\* 409 to a POST naming a withdrawal of the burn: the ID is saved, then checked with GET.
ReplyConflict(id) ==
  /\ Replying /\ saved.id = 0
  /\ circle[note][id] \in {"live", "finalized", "failed"}
  /\ IF sub[note].status # "None"
       THEN LET found == [saved EXCEPT !.id = id, !.outcome = "conflict"]
            IN /\ UpdateSubmissionOutcome(note, found)
               /\ step' = "Send" /\ saved' = found
               /\ UNCHANGED <<phase, todo, snap, note, attempt, traffic, policy>>
       ELSE RestAt("Idle") /\ UNCHANGED <<storeVars, policy>>
  /\ UNCHANGED <<circle, cmd, faults>>

\* Circle rejected this send.  The rejection of the only send there was is the request's end.
CircleRejects ==
  /\ Fault
  /\ IF attempt = "First"
       THEN /\ circle[note][saved.auth] = "wire"
            /\ circle' = [circle EXCEPT ![note][saved.auth] = "none"]
       ELSE circle' = circle

\* 400 to a POST with the configured message prefix.
ReplyLimit ==
  /\ Replying /\ saved.id = 0 /\ policy = "on"
  /\ CircleRejects
  /\ IF CanRecordLimitRejection(note, attempt, saved)
       THEN RecordLimitRejection(note, attempt) /\ ItemDone /\ traffic' = traffic
       ELSE RestAt("Idle") /\ UNCHANGED <<storeVars, policy>>
  /\ UNCHANGED cmd

\* Any other 400 to a POST, and every 400 without the withdrawal-limit settings.
ReplyRejected ==
  /\ Replying /\ saved.id = 0
  /\ CircleRejects
  /\ SaveOutcome([saved EXCEPT !.status = "Held", !.outcome = "rejected"], traffic)
  /\ UNCHANGED cmd

\* No reply, a malformed one, another status or another withdrawal's: nothing is concluded.
ReplyUnclear(outcome) ==
  /\ Replying
  /\ Fault
  /\ SaveOutcome([saved EXCEPT !.outcome = outcome],
                 IF outcome = "rate_limited" THEN "limited" ELSE traffic)
  /\ UNCHANGED <<circle, cmd>>

-----------------------------------------------------------------------------
(* Circle *)

CircleAccepts(n, a) ==
  /\ circle[n][a] = "wire"
  /\ circle' = [circle EXCEPT ![n][a] = "live"]
  /\ UNCHANGED <<storeVars, processVars, cmd, faults>>

\* A request whose reply is no longer awaited never arrives.
CircleMisses(n, a) ==
  /\ circle[n][a] = "wire"
  /\ ~(Replying /\ note = n)
  /\ circle' = [circle EXCEPT ![n][a] = "none"]
  /\ UNCHANGED <<storeVars, processVars, cmd, faults>>

CircleFinalizes(n, a) ==
  /\ circle[n][a] = "live"
  /\ circle' = [circle EXCEPT ![n][a] = "finalized"]
  /\ UNCHANGED <<storeVars, processVars, cmd, faults>>

CircleGivesUp(n, a, end) ==
  /\ circle[n][a] = "live"
  /\ Fault
  /\ circle' = [circle EXCEPT ![n][a] = end]
  /\ UNCHANGED <<storeVars, processVars, cmd>>

-----------------------------------------------------------------------------
(* The operator, the clock and discovery *)

\* admin_checkpoint: between cycles and before each item.
AtCheckpoint ==
  \/ phase = "Idle"
  \/ phase \in CyclePhases /\ step = "Next" /\ todo[phase] # {}

OnHold(n) == HeldBurn(n) \/ HeldWithdrawal(n)

\* What an operator finds at Circle before releasing a signed withdrawal.
NotAccepted(n) == sub[n].auth \in Auths /\ circle[n][sub[n].auth] = "none"

\* The operator lists a hold, checks Circle if it is a signed withdrawal, and writes a command.
OperatorSelects(n, claim) ==
  /\ AtCheckpoint
  /\ OnHold(n)
  /\ claim = "not_accepted" => ~HeldBurn(n) /\ NotAccepted(n)
  /\ cmd' = [note |-> n, rev |-> rev[n], auth |-> IF HeldBurn(n) THEN 0 ELSE sub[n].auth,
             claim |-> claim]
  /\ UNCHANGED <<storeVars, circle, processVars, faults>>

\* Mutant: a signed withdrawal is released without the operator's statement about Circle.
AdminReleaseUnchecked ==
  /\ AtCheckpoint
  /\ cmd.note # 0
  /\ OnHold(cmd.note)
  /\ cmd.rev = rev[cmd.note]
  /\ ReleaseHold({cmd.note})
  /\ UNCHANGED <<circle, processVars, cmd, faults>>

\* release_checked: the listed revision must still be the latest.
AdminRelease ==
  /\ AtCheckpoint
  /\ cmd.note # 0
  /\ OnHold(cmd.note)
  /\ cmd.rev = rev[cmd.note]
  /\ HeldBurn(cmd.note) \/ cmd.claim = "not_accepted"
  /\ ReleaseHold({cmd.note})
  /\ UNCHANGED <<circle, processVars, cmd, faults>>

\* release_holds on a stopped store: every named note is releasable, or nothing is released.
OfflineRelease(S) ==
  /\ phase = "Stopped"
  /\ S # {}
  /\ \A n \in S : OnHold(n)
  /\ \A n \in S : ~HeldBurn(n) => NotAccepted(n)
  /\ ReleaseHold(S)
  /\ UNCHANGED <<circle, processVars, cmd, faults>>

\* A saved retry time is reached.
RetryDue(n) ==
  /\ limit[n] = "Later"
  /\ limit' = [limit EXCEPT ![n] = "Due"]
  /\ UNCHANGED <<known, hold, sub, signed, rev, circle, processVars, cmd, faults>>

\* Discovery finds a burn consumed, before the cycle takes its snapshot.
BurnFound(n) ==
  /\ phase = "Idle"
  /\ n \notin known
  /\ known' = known \cup {n}
  /\ UNCHANGED <<hold, limit, sub, signed, rev, circle, processVars, cmd, faults>>

-----------------------------------------------------------------------------

Attester ==
  \/ \E p \in Policies : Start(p)
  \/ \E visible \in SUBSET known : StartCycle(visible)
  \/ PhaseEnds
  \/ \E n \in Notes : PickBurn(n) \/ PickSaved(n)
  \/ Send

Prepare ==
  \/ PrepareSigned
  \/ \E reason \in {"PrepareRejected", "TooSmallToForward"} : PrepareHeld(reason)
  \/ PrepareLimit
  \/ \E after \in {"open", "limited"} : PrepareFails(after)

Reply ==
  \/ ReplyStatus
  \/ ReplyUnknownStatus
  \/ \E id \in Auths : ReplyConflict(id)
  \/ ReplyLimit
  \/ ReplyRejected
  \/ \E outcome \in {"lost", "unexpected", "rate_limited"} : ReplyUnclear(outcome)

Circle ==
  \E n \in Notes, a \in Auths :
    \/ CircleAccepts(n, a)
    \/ CircleMisses(n, a)
    \/ CircleFinalizes(n, a)
    \/ \E end \in {"expired", "failed"} : CircleGivesUp(n, a, end)

Operator ==
  \/ \E n \in Notes, claim \in Claims : OperatorSelects(n, claim)
  \/ AdminRelease
  \/ \E S \in SUBSET Notes : OfflineRelease(S)

Next ==
  \/ Attester
  \/ Exit
  \/ CycleFails
  \/ Prepare
  \/ Reply
  \/ Circle
  \/ Operator
  \/ \E n \in Notes : RetryDue(n) \/ BurnFound(n)

Spec == Init /\ [][Next]_vars

\* The runtime polls the task until it is done, Circle answers and processes what it accepted,
\* the service is restarted, and clocks advance.  Faults are never fair.
Fairness ==
  /\ WF_vars(Attester)
  /\ WF_vars(PrepareSigned)
  /\ WF_vars(ReplyStatus)
  /\ \A n \in Notes : WF_vars(RetryDue(n))
  /\ \A n \in Notes, a \in Auths : WF_vars(CircleFinalizes(n, a))

FairSpec == Spec /\ Fairness

-----------------------------------------------------------------------------
(* Properties *)

\* An authorization Circle holds, or may still come to hold, that is not dead.
AtCircle == {"wire", "live", "finalized", "failed"}

\* No burn is paid twice: of all the requests ever signed for a burn, at most one is under way
\* to Circle, pending there, paid or failed.  save_submission, record_limit_rejection and
\* release_hold are the places where a burn becomes free for another signature.
AtMostOnePayout ==
  \A n \in Notes : \A a, b \in Auths :
    circle[n][a] \in AtCircle /\ circle[n][b] \in AtCircle => a = b

\* The store never loses a request that could pay: whatever Circle has or may get for a burn is
\* the burn's saved submission, it was saved before it was sent, and it is not recorded expired.
AcceptedIsSaved ==
  \A n \in Notes : \A a \in Auths :
    circle[n][a] \in AtCircle => sub[n].auth = a /\ sub[n].status # "Expired"

\* What the store says Circle answered is true of Circle: a recorded ID belongs to the saved
\* request, and the final statuses are Circle's.
RecordIsTrue ==
  \A n \in Notes :
    /\ sub[n].id # 0 => sub[n].id = sub[n].auth /\ circle[n][sub[n].id] \notin {"none", "wire"}
    /\ sub[n].status = "Finalized" => circle[n][sub[n].id] = "finalized"
    /\ sub[n].status = "Expired" => circle[n][sub[n].id] = "expired"
    /\ sub[n].status = "Failed" => circle[n][sub[n].id] = "failed"

\* Whatever the cycle is about to write finds the row it was read from: the lists taken by
\* snapshot_submissions and ready_burns stay current while admin commands run between the items,
\* so no transaction of a cycle ends in CONFLICT.
AnswersAreRecordable ==
  /\ \A n \in todo["Recover"] \cup todo["Poll"] : sub[n] = snap[n]
  /\ todo["Submit"] \subseteq Eligible
  /\ step = "Prepare" => note \in Eligible
  /\ step \in {"Send", "Reply"} =>
       /\ sub[note].auth = saved.auth /\ sub[note].id = saved.id
       /\ sub[note].status = saved.status /\ saved.status \in {"Submitting", "Submitted"}
       /\ hold[note] = "None"

\* A store the attester wrote can be opened again after a stop at any point: no waiting burn is
\* held, unconsumed or past its wait, and every status past Submitting has its Circle ID.
StoreOpens == ValidateStore

\* A burn waiting for Circle's withdrawal limit stops new prepares and new POSTs behind it,
\* uncertain resends included, across restarts.
LimitQueueKept ==
  (step = "Prepare" \/ (step \in {"Send", "Reply"} /\ saved.id = 0)) =>
    \A w \in Waiting : w = note \/ Before(note, w)

\* What waits for Circle's withdrawal limit is kept, in its order and across restarts: nothing is
\* prepared or posted past a waiting burn that comes first (limit_allows), and whatever holds,
\* releases and rejections wrote the queue, the next start can open the store (validate_store).
WaitsAreKept == LimitQueueKept /\ StoreOpens

\* Every change to a hold writes a history row: while a note's latest row is the one an operator
\* listed, its hold is the hold they saw, and what they confirmed about it still holds.
ListedHoldIsCurrent ==
  cmd.note # 0 /\ cmd.rev = rev[cmd.note] =>
    /\ OnHold(cmd.note)
    /\ IF HeldBurn(cmd.note) THEN cmd.auth = 0 ELSE cmd.auth = sub[cmd.note].auth
    /\ cmd.claim = "not_accepted" => NotAccepted(cmd.note)

\* A known Circle ID stays with its request: a step that changes or drops it replaces the whole
\* request, which only a newly signed one for an expired withdrawal does.
IdKept ==
  [][\A n \in Notes :
       sub[n].id # 0 /\ sub'[n].id # sub[n].id =>
         /\ sub[n].status = "Expired"
         /\ sub'[n].auth = signed'[n] /\ sub'[n].auth > sub[n].auth]_vars

\* Where the process is and what it has in hand agree: no work survives a cycle, the item in hand
\* is on no list, the lists hold what their phase is for, and a POST that waits for its reply has
\* left.  advance_submission relies on it for every conclusion it draws from a reply.
ControlOK ==
  /\ phase \notin CyclePhases => step = "Next" /\ \A p \in CyclePhases : todo[p] = {}
  /\ phase \in {"Submit", "Poll"} => todo["Recover"] = {}
  /\ phase = "Poll" => todo["Submit"] = {}
  /\ step # "Next" => note \in Notes /\ \A p \in CyclePhases : note \notin todo[p]
  /\ \A n \in todo["Recover"] : sub[n].status = "Submitting"
  /\ \A n \in todo["Poll"] : sub[n].status = "Submitted"
  /\ step = "Reply" /\ saved.id = 0 => circle[note][saved.auth] # "none"

\* What a burn's saved submission s, hold h and number of signatures g, Circle's record c of its
\* authorizations and the faults f so far have in common.  The row carries the latest request
\* signed; only a burn without one or with an expired one is held; Circle has nothing that was
\* never signed; every signature after the first answers a fault (an expiry, a limit rejection of
\* a first send, a rejection that was released); and the row is true of Circle.
RowOK(s, h, g, c, f) ==
  /\ s.status = "None" => s = NoSubmission
  /\ s.status # "None" => s.auth = g /\ g # 0
  /\ s.status = "Held" => s.id = 0
  /\ s.status \in {"Submitted", "Finalized", "Expired", "Failed"} => s.id # 0
  /\ h # "None" => s.status \in {"None", "Expired"}
  /\ g <= f + 1
  /\ s.status \in {"None", "Expired", "Held"} => g <= f
  /\ \A a \in Auths : a > g => c[a] = "none"
  /\ \A a \in Auths : c[a] = "expired" /\ a = g => g <= f
  /\ \A a \in Auths : c[a] \in AtCircle => s.auth = a /\ s.status # "Expired"
  /\ s.id # 0 => s.id = s.auth /\ c[s.id] \notin {"none", "wire"}
  /\ s.status = "Finalized" => c[s.id] = "finalized"
  /\ s.status = "Expired" => c[s.id] = "expired"
  /\ s.status = "Failed" => c[s.id] = "failed"

Row(n) == RowOK(sub[n], hold[n], signed[n], circle[n], faults)

\* A command never names a history row that is still to be written.
CmdRevOK == cmd.note # 0 => cmd.rev <= rev[cmd.note]

\* The inductive invariant behind the safety properties.
IInv ==
  /\ TypeOK
  /\ ControlOK
  /\ AnswersAreRecordable
  /\ CmdRevOK
  /\ ListedHoldIsCurrent
  /\ \A n \in Notes : Row(n)

\* The authorizations of a burn that Circle has in one of the given states.
CountAt(n, states) == Cardinality({a \in Auths : circle[n][a] \in states})

Payout == INSTANCE BurnPayout WITH
  open   <- [n \in Notes |-> CountAt(n, {"wire", "live"})],
  paid   <- [n \in Notes |-> CountAt(n, {"finalized"})],
  failed <- [n \in Notes |-> CountAt(n, {"failed"})]

\* The cycle, with its crashes, retries, limit waits and releases, implements the promise of
\* BurnPayout: one attempt at a time, none after a payout or a failure.
ImplementsPayout == Payout!Spec

\* A burn is settled: paid, failed, or waiting for an operator.
Settled(n) == hold[n] # "None" \/ sub[n].status \in {"Finalized", "Failed", "Held"}

\* Once faults stop, every burn found is settled and stays so, limit waits included.
EveryBurnSettles == \A n \in Notes : n \in known ~> []Settled(n)

=============================================================================
