------------------------- MODULE WithdrawalsProofs -------------------------
(*****************************************************************************)
(* The withdrawal lifecycle keeps its safety properties, for every set of    *)
(* burns, every creation order, every fault bound and either setting of the  *)
(* withdrawal limit.  IInv is shown kept one action at a time, and the       *)
(* theorems are drawn from it.                                               *)
(*                                                                           *)
(* One burn's row: lemmas about plain values, that RowOK is kept, and about  *)
(* the store's transactions, that they keep the types and touch only the     *)
(* rows they are about.                                                      *)
(*                                                                           *)
(* Steps on the item in hand (read a reply, save the outcome) and their      *)
(* frame: they leave the other burns' rows, the work lists and the hold an   *)
(* operator listed as they were, so that it is enough that the row of the    *)
(* burn in hand stays true of Circle.                                        *)
(*                                                                           *)
(* Aborted cycles, conflicts, sends and prepares.  The decisive step is      *)
(* PrepareSigned: a request is signed only for a burn of which Circle has    *)
(* nothing that could pay.                                                   *)
(*                                                                           *)
(* The course of a cycle, Circle, the operator, the clock and discovery.     *)
(*****************************************************************************)
EXTENDS Withdrawals, TLAPS

\* Time, and a second try, for a leaf on a loaded machine; one that names a prover uses that one.
USE SMTT(20), ZenonT(20), SMTT(30)

-----------------------------------------------------------------------------
(* One burn's row *)

\* The request a row carries is one of the authorizations the fault bound allows.
LEMMA RowAuth ==
  ASSUME NEW s \in SavedSubmission, NEW h, NEW g \in Nat, NEW c, NEW f \in 0 .. MaxFaults,
         RowOK(s, h, g, c, f), s.status # "None"
  PROVE  s.auth = g /\ g \in Auths
BY MaxFaultsAssumption DEF RowOK, Auths, SavedSubmission

\* More faults leave a row true.
LEMMA RowFaults ==
  ASSUME NEW s \in SavedSubmission, NEW h, NEW g \in Nat, NEW c, NEW f \in 0 .. MaxFaults,
         NEW k \in 0 .. MaxFaults, f <= k, RowOK(s, h, g, c, f)
  PROVE  RowOK(s, h, g, c, k)
BY MaxFaultsAssumption DEF RowOK, SavedSubmission

\* Nothing that could pay is at Circle for a burn that is free for a new signature, and saving
\* the newly signed request keeps the row true (save_submission).
LEMMA RowSave ==
  ASSUME NEW s \in SavedSubmission, NEW h, NEW g \in Nat, NEW c \in [Auths -> CircleStates],
         NEW f \in 0 .. MaxFaults, RowOK(s, h, g, c, f), h = "None",
         s.status \in {"None", "Expired"},
         NEW u \in SavedSubmission,
         u.auth = g + 1, u.status = "Submitting", u.id = 0
  PROVE  RowOK(u, h, g + 1, c, f)
<1>1. \A a \in Auths : c[a] \notin AtCircle
  BY MaxFaultsAssumption DEF RowOK, Auths, NoSubmission
<1>2. \A a \in Auths : a > g => c[a] = "none"
  BY DEF RowOK
<1>3. g <= f
  BY DEF RowOK
<1>4. \A a \in Auths : a \in Int
  BY MaxFaultsAssumption DEF Auths
<1>5. QED
  BY <1>1, <1>2, <1>3, <1>4 DEF RowOK

\* A hold on a burn that is free for a new signature, and its release (hold_burn, release_hold).
LEMMA RowHold ==
  ASSUME NEW s \in SavedSubmission, NEW h, NEW g \in Nat, NEW c, NEW f \in 0 .. MaxFaults,
         RowOK(s, h, g, c, f), s.status \in {"None", "Expired"}, NEW k
  PROVE  RowOK(s, k, g, c, f)
BY DEF RowOK

\* A send of the saved request (send_saved_request).
LEMMA RowSend ==
  ASSUME NEW s \in SavedSubmission, NEW h, NEW g \in Nat, NEW c \in [Auths -> CircleStates],
         NEW f \in 0 .. MaxFaults, RowOK(s, h, g, c, f),
         s.status \in {"Submitting", "Submitted"}, s.id = 0
  PROVE  RowOK(s, h, g, [c EXCEPT ![s.auth] = "wire"], f)
<1>1. s.auth = g /\ g \in Auths
  BY RowAuth
<1>2. \A a \in Auths : [c EXCEPT ![s.auth] = "wire"][a] = IF a = g THEN "wire" ELSE c[a]
  BY <1>1
<1>3. \A a \in Auths : a \in Int
  BY MaxFaultsAssumption DEF Auths
<1>4. QED
  BY <1>1, <1>2, <1>3 DEF RowOK, AtCircle

\* Circle's records after one authorization's record changes.
LEMMA RecordAt ==
  ASSUME NEW c \in [Auths -> CircleStates], NEW g \in Auths, NEW v \in CircleStates
  PROVE  /\ [c EXCEPT ![g] = v] \in [Auths -> CircleStates]
         /\ \A a \in Auths : [c EXCEPT ![g] = v][a] = IF a = g THEN v ELSE c[a]
         /\ \A a \in Auths : a \in Int
BY MaxFaultsAssumption DEF Auths

\* An answer that tells the state of the saved request: read_response accepts it, the status is
\* the reported one or, for a word it does not know, the old one.
LEMMA RowAnswer ==
  ASSUME NEW s \in SavedSubmission, NEW h, NEW g \in Nat, NEW c \in [Auths -> CircleStates],
         NEW f \in 0 .. MaxFaults, NEW k \in 0 .. MaxFaults, f <= k, RowOK(s, h, g, c, f),
         h = "None", s.status \in {"Submitting", "Submitted"}, c[g] # "none",
         NEW u \in SavedSubmission, u.auth = s.auth, u.id = g,
         u.status \in {s.status, StatusOf(Taken(c[g]))}
  PROVE  RowOK(u, h, g, [c EXCEPT ![g] = Taken(c[g])], k)
<1> DEFINE v == Taken(c[g])
           d == [c EXCEPT ![g] = v]
<1>1. s.auth = g /\ g \in Auths
  BY RowAuth
<1>2. v \in {"live", "finalized", "expired", "failed"} /\ v = (IF c[g] = "wire" THEN "live" ELSE c[g])
  BY <1>1 DEF Taken, CircleStates
<1>3. \A a \in Auths : d[a] = (IF a = g THEN v ELSE c[a]) /\ a \in Int
  BY <1>1, <1>2, RecordAt DEF CircleStates
<1>4. u.status = s.status \/ u.status = StatusOf(v)
  BY Zenon
<1> HIDE DEF d, v
<1>5. /\ StatusOf(v) \in {"Submitted", "Finalized", "Expired", "Failed"}
      /\ StatusOf(v) = "Finalized" => v = "finalized"
      /\ StatusOf(v) = "Expired" => v = "expired"
      /\ StatusOf(v) = "Failed" => v = "failed"
      /\ v = "expired" => StatusOf(v) = "Expired"
  BY <1>2, Zenon DEF StatusOf
<1>6. RowOK(u, h, g, d, k)
  <2>1. \A a \in Auths : d[a] \in AtCircle => u.auth = a /\ u.status # "Expired"
    BY <1>1, <1>2, <1>3, <1>4, <1>5 DEF RowOK, AtCircle
  <2>2. g <= k + 1 /\ (c[g] = "expired" => g <= k)
    BY <1>1 DEF RowOK
  <2>3. v = "expired" => g <= k
    BY <1>2, <2>2, Zenon
  <2>4. \A a \in Auths : a > g => d[a] = "none"
    BY <1>1, <1>3 DEF RowOK
  <2>5. d[g] = v
    BY <1>1, <1>3, Zenon
  <2>6. u.status # "None" /\ u.status # "Held" /\ g # 0
    BY <1>1, <1>4, <1>5, Zenon DEF RowOK
  <2>7. s.status \notin {"Finalized", "Expired", "Failed"}
    OBVIOUS
  <2>8. QED
    BY <1>1, <1>2, <1>3, <1>4, <1>5, <2>1, <2>2, <2>3, <2>4, <2>5, <2>6, <2>7, Zenon DEF RowOK
<1>7. QED
  BY <1>6, Zenon DEF d, v

\* A reply that concludes nothing, or a conflict that names the saved request: the status stays,
\* and an ID is only added for a withdrawal Circle has (read_conflict).
LEMMA RowNoConclusion ==
  ASSUME NEW s \in SavedSubmission, NEW h, NEW g \in Nat, NEW c \in [Auths -> CircleStates],
         NEW f \in 0 .. MaxFaults, NEW k \in 0 .. MaxFaults, f <= k, RowOK(s, h, g, c, f),
         s.status \in {"Submitting", "Submitted"},
         NEW u \in SavedSubmission, u.auth = s.auth, u.status = s.status,
         u.id = s.id \/ (u.id = g /\ c[g] \notin {"none", "wire"})
  PROVE  RowOK(u, h, g, c, k)
<1>1. s.auth = g /\ g \in Auths
  BY RowAuth
<1>2. RowOK(s, h, g, c, k)
  BY RowFaults
<1>3. QED
  BY <1>1, <1>2 DEF RowOK

\* A rejected POST is kept as a held withdrawal without an ID (read_response).
LEMMA RowRejected ==
  ASSUME NEW s \in SavedSubmission, NEW h, NEW g \in Nat, NEW c \in [Auths -> CircleStates],
         NEW f \in 0 .. MaxFaults, f + 1 \in 0 .. MaxFaults, RowOK(s, h, g, c, f),
         h = "None", s.status \in {"Submitting", "Submitted"}, s.id = 0,
         NEW u \in SavedSubmission, u.auth = s.auth, u.status = "Held", u.id = 0
  PROVE  /\ RowOK(u, h, g, c, f + 1)
         /\ RowOK(u, h, g, [c EXCEPT ![g] = "none"], f + 1)
<1>1. s.auth = g /\ g \in Auths
  BY RowAuth, Zenon
<1>2. \A a \in Auths : [c EXCEPT ![g] = "none"][a] = (IF a = g THEN "none" ELSE c[a]) /\ a \in Int
  BY <1>1, RecordAt DEF CircleStates
<1>3. RowOK(u, h, g, c, f + 1)
  BY <1>1 DEF RowOK, AtCircle
<1>4. QED
  BY <1>1, <1>2, <1>3 DEF RowOK, AtCircle

\* A burn whose latest request Circle does not have may lose that request: the rejection of its
\* only send, or the release of a held withdrawal (record_limit_rejection, release_hold).
LEMMA RowDropped ==
  ASSUME NEW s \in SavedSubmission, NEW h, NEW g \in Nat, NEW c \in [Auths -> CircleStates],
         NEW f \in 0 .. MaxFaults, RowOK(s, h, g, c, f), h = "None", g <= f,
         s.status # "None", c[g] = "none"
  PROVE  RowOK(NoSubmission, h, g, c, f)
<1>1. s.auth = g /\ g \in Auths
  BY RowAuth
<1>2. \A a \in Auths : c[a] \notin AtCircle
  BY <1>1 DEF RowOK, AtCircle
<1>3. QED
  BY <1>1, <1>2 DEF RowOK, NoSubmission

\* What Circle does with a request it has or may get keeps the row true.
LEMMA RowCircle ==
  ASSUME NEW s \in SavedSubmission, NEW h, NEW g \in Nat, NEW c \in [Auths -> CircleStates],
         NEW f \in 0 .. MaxFaults, NEW k \in 0 .. MaxFaults, RowOK(s, h, g, c, f),
         NEW b \in Auths, NEW v \in CircleStates,
         \/ f = k /\ c[b] = "wire" /\ v \in {"live", "none"}
         \/ f = k /\ c[b] = "live" /\ v = "finalized"
         \/ k = f + 1 /\ c[b] = "live" /\ v \in {"expired", "failed"}
  PROVE  RowOK(s, h, g, [c EXCEPT ![b] = v], k)
<1> DEFINE d == [c EXCEPT ![b] = v]
<1>1. \A a \in Auths : d[a] = (IF a = b THEN v ELSE c[a]) /\ a \in Int
  BY RecordAt
<1> HIDE DEF d
<1>2. s.auth = b /\ s.status # "Expired"
  BY Zenon DEF RowOK, AtCircle
<1>3. s.status # "None" /\ b = g
  BY <1>1, <1>2, MaxFaultsAssumption DEF RowOK, NoSubmission, Auths
<1>4. RowOK(s, h, g, c, k)
  BY RowFaults
<1>5. s.status \notin {"Finalized", "Expired", "Failed"}
  BY <1>2, <1>3, Zenon DEF RowOK
<1>6. v = "expired" => g <= k
  BY Zenon DEF RowOK
<1>7. s.id # 0 => c[b] = "live" /\ v # "none"
  BY <1>2, Zenon DEF RowOK
<1>8. \A a \in Auths : d[a] \in AtCircle => s.auth = a /\ s.status # "Expired"
  BY <1>1, <1>2, <1>4, Zenon DEF RowOK
<1>9. RowOK(s, h, g, d, k)
  BY <1>1, <1>2, <1>3, <1>4, <1>5, <1>6, <1>7, <1>8 DEF RowOK
<1>10. QED
  BY <1>9, Zenon DEF d

-----------------------------------------------------------------------------
(* Types *)

\* The variables of the running process, apart from the store.
ControlTypeOK ==
  /\ phase \in {"Stopped", "Idle"} \cup CyclePhases
  /\ step \in {"Next", "Prepare", "Send", "Reply"}
  /\ todo \in [CyclePhases -> SUBSET Notes]
  /\ snap \in [Notes -> SavedSubmission]
  /\ note \in Notes \cup {0}
  /\ saved \in SavedSubmission
  /\ attempt \in Attempts
  /\ traffic \in {"open", "limited"}
  /\ policy \in {"on", "off"}

EnvTypeOK ==
  /\ circle \in [Notes -> [Auths -> CircleStates]]
  /\ cmd \in [note : Notes \cup {0}, rev : Nat, auth : Nat, claim : Claims]
  /\ faults \in 0 .. MaxFaults

LEMMA TypeParts == TypeOK <=> StoreTypeOK /\ ControlTypeOK /\ EnvTypeOK
BY DEF TypeOK, ControlTypeOK, EnvTypeOK

LEMMA TypePartsPrimed == TypeOK' <=> StoreTypeOK' /\ ControlTypeOK' /\ EnvTypeOK'
BY DEF TypeOK, ControlTypeOK, EnvTypeOK

LEMMA NoSubmissionType == NoSubmission \in SavedSubmission
BY DEF NoSubmission, SavedSubmission, Statuses, Outcomes

LEMMA NoSnapType == NoSnap \in [Notes -> SavedSubmission]
BY NoSubmissionType DEF NoSnap

LEMMA NoTodoType == NoTodo \in [CyclePhases -> SUBSET Notes]
BY DEF NoTodo

LEMMA StoreUnchanged == StoreTypeOK /\ UNCHANGED storeVars => StoreTypeOK'
BY DEF StoreTypeOK, storeVars

LEMMA ControlUnchanged == ControlTypeOK /\ UNCHANGED processVars => ControlTypeOK'
BY DEF ControlTypeOK, processVars

LEMMA EnvUnchanged == EnvTypeOK /\ UNCHANGED <<circle, cmd, faults>> => EnvTypeOK'
BY DEF EnvTypeOK

LEMMA RestAtType ==
  ASSUME ControlTypeOK, NEW p \in {"Stopped", "Idle"}, RestAt(p),
         policy' \in {policy, "off"}
  PROVE  ControlTypeOK'
BY NoSubmissionType, NoSnapType, NoTodoType, Zenon DEF ControlTypeOK, RestAt, Attempts

LEMMA ItemDoneType ==
  ASSUME ControlTypeOK, ItemDone, traffic' \in {"open", "limited"}
  PROVE  ControlTypeOK'
BY NoSubmissionType DEF ControlTypeOK, ItemDone, Attempts

LEMMA RecordEventType ==
  ASSUME NEW n \in Notes, rev \in [Notes -> Nat], RecordEvent(n)
  PROVE  rev' \in [Notes -> Nat] /\ rev'[n] = rev[n] + 1
         /\ \A m \in Notes : m # n => rev'[m] = rev[m]
BY DEF RecordEvent

LEMMA FaultType ==
  ASSUME EnvTypeOK, Fault
  PROVE  faults' = faults + 1 /\ faults' \in 0 .. MaxFaults /\ faults + 1 \in 0 .. MaxFaults
BY MaxFaultsAssumption DEF EnvTypeOK, Fault


-----------------------------------------------------------------------------
(* Store transactions *)

\* A transaction about n touches no other note's row and forgets no burn.
StoreKeptBut(n) ==
  /\ known' = known
  /\ \A m \in Notes : m # n => /\ sub'[m] = sub[m] /\ hold'[m] = hold[m]
                               /\ signed'[m] = signed[m] /\ rev'[m] = rev[m]

LEMMA SaveSubmissionStep ==
  ASSUME NEW n \in Notes, StoreTypeOK, SaveSubmission(n)
  PROVE  /\ StoreTypeOK' /\ StoreKeptBut(n)
         /\ NewSubmission(n) \in SavedSubmission
         /\ sub'[n] = NewSubmission(n) /\ hold'[n] = hold[n]
         /\ signed'[n] = signed[n] + 1 /\ rev'[n] = rev[n] + 1
<1>1. NewSubmission(n) \in SavedSubmission
  BY DEF StoreTypeOK, NewSubmission, SavedSubmission, Statuses, Outcomes
<1>2. rev' \in [Notes -> Nat] /\ rev'[n] = rev[n] + 1 /\ \A m \in Notes : m # n => rev'[m] = rev[m]
  BY RecordEventType, Zenon DEF StoreTypeOK, SaveSubmission
<1>3. sub' \in [Notes -> SavedSubmission] /\ sub'[n] = NewSubmission(n)
      /\ \A m \in Notes : m # n => sub'[m] = sub[m]
  BY <1>1, Zenon DEF StoreTypeOK, SaveSubmission
<1>4. signed' \in [Notes -> Nat] /\ signed'[n] = signed[n] + 1
      /\ \A m \in Notes : m # n => signed'[m] = signed[m]
  BY DEF StoreTypeOK, SaveSubmission
<1>5. UNCHANGED <<known, hold, limit>>
  BY DEF SaveSubmission
<1>6. QED
  BY <1>1, <1>2, <1>3, <1>4, <1>5 DEF StoreTypeOK, StoreKeptBut

LEMMA UpdateStep ==
  ASSUME NEW n \in Notes, NEW v \in SavedSubmission, StoreTypeOK, UpdateSubmissionOutcome(n, v)
  PROVE  /\ StoreTypeOK' /\ StoreKeptBut(n)
         /\ sub'[n] \in SavedSubmission
         /\ sub'[n].auth = sub[n].auth /\ sub'[n].status = v.status /\ sub'[n].id = v.id
         /\ hold'[n] = hold[n] /\ signed'[n] = signed[n] /\ rev'[n] >= rev[n]
<1> DEFINE u == [v EXCEPT !.auth = sub[n].auth]
<1>1. u \in SavedSubmission /\ u.auth = sub[n].auth /\ u.status = v.status /\ u.id = v.id
  BY Zenon DEF StoreTypeOK, SavedSubmission
<1>2. sub' = [sub EXCEPT ![n] = u]
  BY DEF UpdateSubmissionOutcome
<1> HIDE DEF u
<1>3. rev' \in [Notes -> Nat] /\ rev'[n] >= rev[n] /\ \A m \in Notes : m # n => rev'[m] = rev[m]
  BY RecordEventType DEF StoreTypeOK, UpdateSubmissionOutcome
<1>4. limit' \in [Notes -> Retries]
  BY DEF StoreTypeOK, UpdateSubmissionOutcome, Retries
<1>5. UNCHANGED <<known, hold, signed>>
  BY DEF UpdateSubmissionOutcome
<1>6. QED
  BY Zenon, <1>1, <1>2, <1>3, <1>4, <1>5 DEF StoreTypeOK, StoreKeptBut

LEMMA HoldBurnStep ==
  ASSUME NEW n \in Notes, NEW reason \in BurnHoldReasons, StoreTypeOK, HoldBurn(n, reason)
  PROVE  /\ StoreTypeOK' /\ StoreKeptBut(n)
         /\ sub'[n] = sub[n] /\ hold'[n] = reason /\ signed'[n] = signed[n]
         /\ rev'[n] = rev[n] + 1
<1>1. rev' \in [Notes -> Nat] /\ rev'[n] = rev[n] + 1 /\ \A m \in Notes : m # n => rev'[m] = rev[m]
  BY RecordEventType DEF StoreTypeOK, HoldBurn
<1>2. limit' \in [Notes -> Retries]
  BY DEF StoreTypeOK, HoldBurn, Retries
<1>3. QED
  BY <1>1, <1>2 DEF StoreTypeOK, HoldBurn, StoreKeptBut

LEMMA LimitRejectionStep ==
  ASSUME NEW n \in Notes, NEW kind, StoreTypeOK, RecordLimitRejection(n, kind)
  PROVE  /\ StoreTypeOK' /\ StoreKeptBut(n)
         /\ sub'[n] = IF kind = "First" THEN NoSubmission ELSE sub[n]
         /\ hold'[n] = hold[n] /\ signed'[n] = signed[n] /\ rev'[n] = rev[n] + 1
<1>1. rev' \in [Notes -> Nat] /\ rev'[n] = rev[n] + 1 /\ \A m \in Notes : m # n => rev'[m] = rev[m]
  BY RecordEventType, Zenon DEF StoreTypeOK, RecordLimitRejection
<1>2. limit' \in [Notes -> Retries]
  BY DEF StoreTypeOK, RecordLimitRejection, Retries
<1>3. QED
  BY <1>1, <1>2, NoSubmissionType, Zenon DEF StoreTypeOK, RecordLimitRejection, StoreKeptBut

LEMMA AdvanceLimitStep ==
  ASSUME NEW n \in Notes, StoreTypeOK, AdvanceLimitRetry(n) \/ limit' = limit,
         UNCHANGED <<known, hold, sub, signed, rev>>
  PROVE  StoreTypeOK'
<1>1. limit' \in [Notes -> Retries]
  BY DEF StoreTypeOK, AdvanceLimitRetry, Retries
<1>2. QED
  BY <1>1 DEF StoreTypeOK

LEMMA ReleaseStep ==
  ASSUME NEW S \in SUBSET Notes, StoreTypeOK, ReleaseHold(S)
  PROVE  /\ StoreTypeOK' /\ known' = known
         /\ \A n \in Notes :
              /\ signed'[n] = signed[n]
              /\ n \notin S => sub'[n] = sub[n] /\ hold'[n] = hold[n] /\ rev'[n] = rev[n]
              /\ n \in S => /\ hold'[n] = "None" /\ rev'[n] = rev[n] + 1
                            /\ sub'[n] = IF HeldBurn(n) THEN sub[n] ELSE NoSubmission
<1>1. rev' \in [Notes -> Nat]
  BY DEF StoreTypeOK, ReleaseHold
<1>2. hold' \in [Notes -> BurnHoldReasons]
  BY Zenon DEF StoreTypeOK, ReleaseHold, BurnHoldReasons
<1>3. sub' \in [Notes -> SavedSubmission]
  BY NoSubmissionType DEF StoreTypeOK, ReleaseHold
<1>4. QED
  BY <1>1, <1>2, <1>3 DEF StoreTypeOK, ReleaseHold

-----------------------------------------------------------------------------
(* Steps on the item in hand *)

\* Hand says what the reply to the request in hand may rely on.
Hand ==
  /\ step = "Reply" /\ saved.id = 0 => circle[note][saved.auth] # "none"
  /\ step \in {"Send", "Reply"} =>
       /\ sub[note].auth = saved.auth /\ sub[note].id = saved.id
       /\ sub[note].status = saved.status /\ saved.status \in {"Submitting", "Submitted"}
       /\ hold[note] = "None"

\* The item in hand is not on hold, so a command listed for it is out of date.
LEMMA HandNotListed ==
  ASSUME IInv, step # "Next"
  PROVE  note \in Notes /\ (cmd.note = note => cmd.rev < rev[note])
<1>1. note \in Notes /\ note # 0
  BY NotesAssumption, Zenon DEF IInv, ControlOK
<1>2. ~OnHold(note)
  BY <1>1 DEF IInv, AnswersAreRecordable, TypeOK, OnHold, HeldBurn, HeldWithdrawal, Eligible
<1>3. rev[note] \in Nat /\ cmd.rev \in Nat
  BY <1>1 DEF IInv, TypeOK, StoreTypeOK
<1>4. QED
  BY <1>1, <1>2, <1>3 DEF IInv, CmdRevOK, ListedHoldIsCurrent

\* A step that only touches the row of the item in hand keeps every other row.
LEMMA OtherRows ==
  ASSUME IInv, TypeOK', NEW n \in Notes, StoreKeptBut(n),
         \A m \in Notes : m # n => circle'[m] = circle[m],
         faults' >= faults, Row(n)'
  PROVE  \A m \in Notes : Row(m)'
<1> SUFFICES ASSUME NEW m \in Notes, m # n PROVE Row(m)'
  BY Zenon
<1>1. Row(m) /\ sub[m] \in SavedSubmission /\ signed[m] \in Nat
      /\ faults \in 0 .. MaxFaults /\ faults' \in 0 .. MaxFaults /\ faults <= faults'
  BY MaxFaultsAssumption DEF IInv, TypeOK, StoreTypeOK
<1>2. RowOK(sub[m], hold[m], signed[m], circle[m], faults')
  BY <1>1, RowFaults DEF Row
<1>3. QED
  BY <1>2 DEF Row, StoreKeptBut

\* The same for the hold an operator listed.
LEMMA ListedKept ==
  ASSUME IInv, TypeOK', NEW n \in Notes, StoreKeptBut(n),
         \A m \in Notes : m # n => circle'[m] = circle[m],
         cmd' = cmd, cmd.note = n => cmd.rev < rev'[n]
  PROVE  CmdRevOK' /\ ListedHoldIsCurrent'
<1>1. cmd.note \in Notes \cup {0} /\ cmd.rev \in Nat /\ rev'[n] \in Nat
  BY DEF IInv, TypeOK, StoreTypeOK
<1>2. CASE cmd.note = n
  BY <1>1, <1>2 DEF CmdRevOK, ListedHoldIsCurrent
<1>3. CASE cmd.note = 0
  BY <1>1, <1>3, Zenon DEF CmdRevOK, ListedHoldIsCurrent
<1>4. CASE cmd.note \in Notes /\ cmd.note # n
  BY <1>4 DEF IInv, CmdRevOK, ListedHoldIsCurrent, StoreKeptBut, OnHold, HeldBurn,
              HeldWithdrawal, NotAccepted
<1>5. QED
  BY <1>1, <1>2, <1>3, <1>4, Zenon

\* A step on the item in hand that keeps its row true keeps the whole invariant.
LEMMA HandStep ==
  ASSUME IInv, TypeOK', step # "Next", NEW n \in Notes, n = note, StoreKeptBut(n),
         \A m \in Notes : m # n => circle'[m] = circle[m],
         rev'[n] >= rev[n], faults' >= faults, cmd' = cmd, Row(n)', Hand',
         (todo' = todo /\ snap' = snap) \/ todo' = NoTodo,
         IF phase' \in CyclePhases THEN phase' = phase ELSE step' = "Next" /\ todo' = NoTodo,
         step' \in {"Next", "Send", "Reply"}, step' # "Next" => note' = n
  PROVE  IInv'
<1>1. cmd.note = n => cmd.rev < rev[n]
  BY HandNotListed
<1>2. \A m \in Notes : Row(m)'
  BY OtherRows, Zenon
<1>3. cmd.rev \in Nat /\ rev[n] \in Nat /\ rev'[n] \in Nat
  BY DEF IInv, TypeOK, StoreTypeOK
<1>4. CmdRevOK' /\ ListedHoldIsCurrent'
  BY <1>1, <1>3, ListedKept
<1>5. \A p \in CyclePhases : n \notin todo[p] /\ todo[p] \subseteq Notes
  BY DEF IInv, ControlOK, TypeOK
<1>6. \A p \in CyclePhases : todo'[p] = todo[p] \/ todo'[p] = {}
  BY DEF NoTodo
<1>7. ControlOK'
  <2>1. \A p \in CyclePhases : \A m \in todo'[p] : m # n /\ sub'[m] = sub[m]
    BY <1>5, <1>6 DEF StoreKeptBut
  <2>2. phase' \notin CyclePhases => step' = "Next" /\ \A p \in CyclePhases : todo'[p] = {}
    BY Zenon DEF NoTodo
  <2>3. step' # "Next" => note' \in Notes /\ \A p \in CyclePhases : note' \notin todo'[p]
    BY <1>1, <1>5, <1>6, Zenon
  <2>4. \A m \in todo'["Recover"] : sub'[m].status = "Submitting"
    BY <1>6, <2>1 DEF IInv, ControlOK, CyclePhases
  <2>5. \A m \in todo'["Poll"] : sub'[m].status = "Submitted"
    BY <1>6, <2>1 DEF IInv, ControlOK, CyclePhases
  <2>6. /\ phase' \in {"Submit", "Poll"} => todo'["Recover"] = {}
        /\ phase' = "Poll" => todo'["Submit"] = {}
    BY <1>6, Zenon DEF IInv, ControlOK, CyclePhases
  <2>7. QED
    BY <2>2, <2>3, <2>4, <2>5, <2>6, Zenon DEF ControlOK, Hand
<1>8. AnswersAreRecordable'
  <2>1. CASE todo' = NoTodo
    BY <2>1, Zenon DEF AnswersAreRecordable, Hand, NoTodo, CyclePhases
  <2>2. CASE todo' = todo /\ snap' = snap
    <3>1. \A p \in CyclePhases : \A m \in todo[p] :
             sub'[m] = sub[m] /\ hold'[m] = hold[m] /\ known' = known
      BY <1>5, Zenon DEF StoreKeptBut
    <3>2. \A m \in todo["Recover"] \cup todo["Poll"] : sub'[m] = snap[m]
      BY <3>1, Zenon DEF IInv, AnswersAreRecordable, CyclePhases
    <3>3. todo["Submit"] \subseteq Eligible'
      BY <3>1 DEF IInv, AnswersAreRecordable, CyclePhases, Eligible
    <3>4. QED
      BY <2>2, <3>2, <3>3, Zenon DEF AnswersAreRecordable, Hand
  <2>3. QED
    BY <2>1, <2>2, Zenon
<1>9. QED
  BY <1>2, <1>4, <1>7, <1>8 DEF IInv


\* What holds of the burn in hand while its request is sent and answered.
LEMMA HandFacts ==
  ASSUME IInv, step \in {"Send", "Reply"}, NEW n, n = note
  PROVE  /\ n \in Notes /\ phase \in CyclePhases
         /\ sub[n] \in SavedSubmission /\ signed[n] \in Nat /\ saved \in SavedSubmission
         /\ circle \in [Notes -> [Auths -> CircleStates]] /\ faults \in 0 .. MaxFaults
         /\ RowOK(sub[n], hold[n], signed[n], circle[n], faults)
         /\ hold[n] = "None" /\ sub[n].status \in {"Submitting", "Submitted"}
         /\ sub[n].auth = signed[n] /\ saved.auth = signed[n] /\ signed[n] \in Auths
         /\ saved.id = sub[n].id /\ saved.status = sub[n].status
         /\ saved.id # 0 => saved.id = signed[n]
         /\ step = "Reply" => circle[n][signed[n]] # "none"
<1>1. n \in Notes /\ phase \in CyclePhases
  BY Zenon DEF IInv, ControlOK
<1>2. /\ sub[n] \in SavedSubmission /\ signed[n] \in Nat /\ saved \in SavedSubmission
      /\ circle \in [Notes -> [Auths -> CircleStates]] /\ faults \in 0 .. MaxFaults
  BY <1>1, Zenon DEF IInv, TypeOK, StoreTypeOK
<1>3. RowOK(sub[n], hold[n], signed[n], circle[n], faults)
  BY <1>1, Zenon DEF IInv, Row
<1>4. /\ hold[n] = "None" /\ sub[n].status \in {"Submitting", "Submitted"}
      /\ saved.auth = sub[n].auth /\ saved.id = sub[n].id /\ saved.status = sub[n].status
  BY DEF IInv, AnswersAreRecordable
<1>5. sub[n].auth = signed[n] /\ signed[n] \in Auths
  BY <1>2, <1>3, <1>4, RowAuth, Zenon
<1>6. saved.id # 0 => saved.id = signed[n] /\ circle[n][signed[n]] # "none"
  BY <1>3, <1>4, <1>5 DEF RowOK
<1>7. step = "Reply" /\ saved.id = 0 => circle[n][signed[n]] # "none"
  BY <1>4, <1>5 DEF IInv, ControlOK
<1>8. QED
  BY <1>1, <1>2, <1>3, <1>4, <1>5, <1>6, <1>7, Zenon

\* save_outcome always finds the row of the request in hand.
LEMMA SaveOutcomeStep ==
  ASSUME IInv, Replying, NEW n, n = note, NEW v \in SavedSubmission,
         NEW after \in {"open", "limited"}, SaveOutcome(v, after)
  PROVE  /\ StoreTypeOK' /\ ControlTypeOK' /\ StoreKeptBut(n)
         /\ sub'[n] \in SavedSubmission
         /\ sub'[n].auth = sub[n].auth /\ sub'[n].status = v.status /\ sub'[n].id = v.id
         /\ hold'[n] = hold[n] /\ signed'[n] = signed[n] /\ rev'[n] >= rev[n]
         /\ step' = "Next" /\ UNCHANGED <<phase, todo, snap>>
<1>1. n \in Notes /\ sub[n].status # "None"
  BY HandFacts, Zenon DEF Replying
<1>2. UpdateSubmissionOutcome(n, v) /\ ItemDone /\ traffic' = after
  BY <1>1, Zenon DEF SaveOutcome
<1>3. StoreTypeOK /\ ControlTypeOK
  BY TypeParts, Zenon DEF IInv
<1>4. ControlTypeOK'
  BY <1>2, <1>3, ItemDoneType, Zenon
<1>5. step' = "Next" /\ UNCHANGED <<phase, todo, snap>>
  BY <1>2 DEF ItemDone
<1>6. QED
  BY <1>1, <1>2, <1>3, <1>4, <1>5, UpdateStep

\* Saving the outcome v for note n leaves a row that is true of Circle's record c.
SavesTruth(n, v, c, f) ==
  \A u \in SavedSubmission :
    u.auth = sub[n].auth /\ u.status = v.status /\ u.id = v.id
      => RowOK(u, hold[n], signed[n], c, f)

\* A reply that is saved and ends the item: it is enough that its row is true.
LEMMA ReplySaved ==
  ASSUME IInv, Replying, NEW n, n = note, NEW v \in SavedSubmission,
         NEW after \in {"open", "limited"}, SaveOutcome(v, after),
         NEW c \in [Auths -> CircleStates], circle' = [circle EXCEPT ![n] = c],
         faults' \in 0 .. MaxFaults, faults' >= faults, cmd' = cmd,
         SavesTruth(n, v, c, faults')
  PROVE  IInv'
<1>1. n \in Notes /\ phase \in CyclePhases /\ circle \in [Notes -> [Auths -> CircleStates]]
  BY HandFacts DEF Replying
<1>2. /\ StoreTypeOK' /\ ControlTypeOK' /\ StoreKeptBut(n)
      /\ sub'[n] \in SavedSubmission
      /\ sub'[n].auth = sub[n].auth /\ sub'[n].status = v.status /\ sub'[n].id = v.id
      /\ hold'[n] = hold[n] /\ signed'[n] = signed[n] /\ rev'[n] >= rev[n]
      /\ step' = "Next" /\ UNCHANGED <<phase, todo, snap>>
  BY SaveOutcomeStep
<1>3. /\ circle' \in [Notes -> [Auths -> CircleStates]] /\ circle'[n] = c
      /\ \A m \in Notes : m # n => circle'[m] = circle[m]
  BY <1>1, Zenon
<1>4. TypeOK'
  <2>1. EnvTypeOK'
    BY <1>3, Zenon DEF IInv, TypeOK, EnvTypeOK
  <2>2. QED
    BY <1>2, <2>1, TypePartsPrimed
<1>5. Row(n)'
  <2>1. RowOK(sub'[n], hold[n], signed[n], c, faults')
    BY <1>2, Zenon DEF SavesTruth
  <2>2. QED
    BY <1>2, <1>3, <2>1 DEF Row
<1>6. Hand'
  BY <1>2 DEF Hand
<1>7. QED
  BY <1>1, <1>2, <1>3, <1>4, <1>5, <1>6, HandStep DEF Replying


-----------------------------------------------------------------------------
(* Replies *)

\* Circle takes a request to be the one it has or gets, and reports how it stands.
LEMMA TakenType ==
  ASSUME NEW c \in CircleStates, c # "none"
  PROVE  /\ Taken(c) \in {"live", "finalized", "expired", "failed"}
         /\ Taken(c) \in CircleStates /\ Taken(c) \in Outcomes
         /\ StatusOf(Taken(c)) \in Statuses
<1>1. Taken(c) \in {"live", "finalized", "expired", "failed"}
  BY DEF Taken, CircleStates
<1>2. QED
  BY <1>1 DEF CircleStates, Outcomes, StatusOf, Statuses

LEMMA ReplyStatusInv == IInv /\ ReplyStatus => IInv'
<1> SUFFICES ASSUME IInv, ReplyStatus PROVE IInv'
  BY Zenon
<1>1. Replying /\ step = "Reply"
  BY DEF ReplyStatus, Replying
<1>2. PICK n, g, c : n = note /\ g = signed[note] /\ c = circle[note]
  BY Zenon
<1> DEFINE reported == Taken(c[g])
           v == [saved EXCEPT !.status = StatusOf(reported), !.id = g, !.outcome = reported]
           d == [c EXCEPT ![g] = reported]
<1>3. /\ n \in Notes /\ sub[n] \in SavedSubmission /\ g \in Nat /\ saved \in SavedSubmission
      /\ circle \in [Notes -> [Auths -> CircleStates]] /\ faults \in 0 .. MaxFaults
      /\ RowOK(sub[n], hold[n], g, c, faults)
      /\ hold[n] = "None" /\ sub[n].status \in {"Submitting", "Submitted"}
      /\ sub[n].auth = g /\ saved.auth = g /\ g \in Auths
      /\ saved.id # 0 => saved.id = g
      /\ c[g] # "none" /\ c \in [Auths -> CircleStates]
  BY <1>1, <1>2, HandFacts, Zenon
<1>4. (IF saved.id = 0 THEN saved.auth ELSE saved.id) = g
  BY <1>3
<1>5. /\ circle' = [circle EXCEPT ![note][g] = reported]
      /\ SaveOutcome(v, traffic) /\ cmd' = cmd /\ faults' = faults
  BY Zenon, <1>2, <1>4 DEF ReplyStatus
<1>6. /\ reported \in CircleStates /\ reported \in Outcomes
      /\ StatusOf(reported) \in Statuses
  BY <1>3, TakenType
<1>7. v \in SavedSubmission /\ v.status = StatusOf(reported) /\ v.id = g
  BY Zenon, <1>3, <1>6 DEF SavedSubmission
<1>8. d \in [Auths -> CircleStates] /\ circle' = [circle EXCEPT ![n] = d]
  BY <1>2, <1>3, <1>5, <1>6, Zenon
<1>9. faults <= faults /\ faults' \in 0 .. MaxFaults /\ faults' >= faults
  BY <1>3, <1>5, MaxFaultsAssumption
<1>10. ASSUME NEW u \in SavedSubmission,
              u.auth = sub[n].auth, u.status = StatusOf(Taken(c[g])), u.id = g
       PROVE  RowOK(u, hold[n], g, [c EXCEPT ![g] = Taken(c[g])], faults)
  BY Zenon, <1>3, <1>9, <1>10, RowAnswer
<1>11. traffic \in {"open", "limited"}
  BY Zenon DEF IInv, TypeOK
<1>12. SavesTruth(n, v, d, faults')
  BY <1>2, <1>5, <1>7, <1>10, Zenon DEF SavesTruth
<1> HIDE DEF v, d
<1>13. QED
  BY Zenon, <1>1, <1>2, <1>5, <1>7, <1>8, <1>9, <1>11, <1>12, ReplySaved

LEMMA ReplyUnknownStatusInv == IInv /\ ReplyUnknownStatus => IInv'
<1> SUFFICES ASSUME IInv, ReplyUnknownStatus PROVE IInv'
  OBVIOUS
<1>1. Replying /\ step = "Reply"
  BY DEF ReplyUnknownStatus, Replying
<1>2. PICK n, g, c : n = note /\ g = signed[note] /\ c = circle[note]
  BY Zenon
<1> DEFINE v == [saved EXCEPT !.id = g, !.outcome = "unknown_status"]
           d == [c EXCEPT ![g] = Taken(c[g])]
<1>3. /\ n \in Notes /\ sub[n] \in SavedSubmission /\ g \in Nat /\ saved \in SavedSubmission
      /\ circle \in [Notes -> [Auths -> CircleStates]] /\ faults \in 0 .. MaxFaults
      /\ RowOK(sub[n], hold[n], g, c, faults)
      /\ hold[n] = "None" /\ sub[n].status \in {"Submitting", "Submitted"}
      /\ sub[n].auth = g /\ saved.auth = g /\ g \in Auths /\ saved.status = sub[n].status
      /\ saved.id # 0 => saved.id = g
      /\ c[g] # "none" /\ c \in [Auths -> CircleStates]
  BY <1>1, <1>2, HandFacts, Zenon
<1>4. (IF saved.id = 0 THEN saved.auth ELSE saved.id) = g
  BY <1>3
<1>5. /\ circle' = [circle EXCEPT ![note][g] = Taken(@)]
      /\ SaveOutcome(v, traffic) /\ cmd' = cmd /\ Fault
  BY Zenon, <1>2, <1>4 DEF ReplyUnknownStatus
<1>6. Taken(c[g]) \in CircleStates
  BY <1>3, TakenType
<1>7. v \in SavedSubmission /\ v.status = sub[n].status /\ v.id = g
  BY Zenon, <1>3 DEF SavedSubmission, Outcomes
<1>8. d \in [Auths -> CircleStates] /\ circle' = [circle EXCEPT ![n] = d]
  BY <1>2, <1>3, <1>5, <1>6, Zenon
<1>9. faults <= faults' /\ faults' \in 0 .. MaxFaults /\ faults' >= faults
  BY <1>3, <1>5, MaxFaultsAssumption DEF Fault
<1>10. ASSUME NEW u \in SavedSubmission,
              u.auth = sub[n].auth, u.status = sub[n].status, u.id = g
       PROVE  RowOK(u, hold[n], g, [c EXCEPT ![g] = Taken(c[g])], faults')
  BY Zenon, <1>3, <1>9, <1>10, RowAnswer
<1>11. traffic \in {"open", "limited"}
  BY Zenon DEF IInv, TypeOK
<1>12. SavesTruth(n, v, d, faults')
  BY <1>2, <1>7, <1>10, Zenon DEF SavesTruth
<1> HIDE DEF v, d
<1>13. QED
  BY Zenon, <1>1, <1>2, <1>5, <1>7, <1>8, <1>9, <1>11, <1>12, ReplySaved

LEMMA ReplyUnclearInv ==
  ASSUME IInv, NEW outcome \in {"lost", "unexpected", "rate_limited"}, ReplyUnclear(outcome)
  PROVE  IInv'
<1>1. Replying /\ step = "Reply"
  BY DEF ReplyUnclear, Replying
<1>2. PICK n, g, c : n = note /\ g = signed[note] /\ c = circle[note]
  BY Zenon
<1> DEFINE v == [saved EXCEPT !.outcome = outcome]
           after == IF outcome = "rate_limited" THEN "limited" ELSE traffic
<1>3. /\ n \in Notes /\ sub[n] \in SavedSubmission /\ g \in Nat /\ saved \in SavedSubmission
      /\ circle \in [Notes -> [Auths -> CircleStates]] /\ faults \in 0 .. MaxFaults
      /\ RowOK(sub[n], hold[n], g, c, faults)
      /\ sub[n].status \in {"Submitting", "Submitted"}
      /\ saved.status = sub[n].status /\ saved.id = sub[n].id /\ c \in [Auths -> CircleStates]
  BY <1>1, <1>2, HandFacts
<1>5. SaveOutcome(v, after) /\ circle' = circle /\ cmd' = cmd /\ Fault
  BY DEF ReplyUnclear
<1>6. circle' = [circle EXCEPT ![n] = c]
  BY <1>2, <1>3, <1>5
<1>7. v \in SavedSubmission /\ v.status = sub[n].status /\ v.id = sub[n].id
  BY <1>3 DEF SavedSubmission, Outcomes
<1>9. faults <= faults' /\ faults' \in 0 .. MaxFaults /\ faults' >= faults
  BY <1>3, <1>5, MaxFaultsAssumption DEF Fault
<1>10. ASSUME NEW u \in SavedSubmission,
              u.auth = sub[n].auth, u.status = sub[n].status, u.id = sub[n].id
       PROVE  RowOK(u, hold[n], g, c, faults')
  BY <1>3, <1>9, <1>10, RowNoConclusion, Zenon
<1>11. after \in {"open", "limited"}
  BY DEF IInv, TypeOK
<1>12. SavesTruth(n, v, c, faults')
  BY <1>2, <1>7, <1>10 DEF SavesTruth
<1> HIDE DEF v, after
<1>13. QED
  BY Zenon, <1>1, <1>2, <1>3, <1>5, <1>6, <1>7, <1>9, <1>11, <1>12, ReplySaved

\* What a rejection does at Circle: it withdraws the request in hand if that was its only send.
LEMMA RejectsAt ==
  ASSUME NEW n \in Notes, n = note, NEW g \in Auths, saved.auth = g,
         circle \in [Notes -> [Auths -> CircleStates]], CircleRejects
  PROVE  \E d \in [Auths -> CircleStates] :
           /\ circle' = [circle EXCEPT ![n] = d]
           /\ \/ attempt = "First" /\ circle[n][g] = "wire" /\ d = [circle[n] EXCEPT ![g] = "none"]
              \/ attempt # "First" /\ d = circle[n]
<1>1. CASE attempt = "First"
  <2>1. [circle[n] EXCEPT ![g] = "none"] \in [Auths -> CircleStates]
    BY Zenon DEF CircleStates
  <2>2. circle[n][g] = "wire" /\ circle' = [circle EXCEPT ![n] = [circle[n] EXCEPT ![g] = "none"]]
    BY <1>1, Zenon DEF CircleRejects
  <2>3. QED
    BY Zenon, <1>1, <2>1, <2>2
<1>2. CASE attempt # "First"
  <2>1. circle' = [circle EXCEPT ![n] = circle[n]]
    BY <1>2 DEF CircleRejects
  <2>2. QED
    BY Zenon, <1>2, <2>1
<1>3. QED
  BY <1>1, <1>2

LEMMA ReplyRejectedInv == IInv /\ ReplyRejected => IInv'
<1> SUFFICES ASSUME IInv, ReplyRejected PROVE IInv'
  OBVIOUS
<1>1. Replying /\ step = "Reply" /\ saved.id = 0
  BY Zenon DEF ReplyRejected, Replying
<1>2. PICK n, g, c : n = note /\ g = signed[note] /\ c = circle[note]
  OBVIOUS
<1> DEFINE v == [saved EXCEPT !.status = "Held", !.outcome = "rejected"]
<1>3. /\ n \in Notes /\ sub[n] \in SavedSubmission /\ g \in Nat /\ saved \in SavedSubmission
      /\ circle \in [Notes -> [Auths -> CircleStates]] /\ faults \in 0 .. MaxFaults
      /\ RowOK(sub[n], hold[n], g, c, faults)
      /\ hold[n] = "None" /\ sub[n].status \in {"Submitting", "Submitted"}
      /\ saved.auth = g /\ g \in Auths /\ sub[n].id = 0 /\ c \in [Auths -> CircleStates]
  BY <1>1, <1>2, HandFacts
<1>4. SaveOutcome(v, traffic) /\ CircleRejects /\ cmd' = cmd /\ Fault
  BY DEF ReplyRejected, CircleRejects
<1>5. PICK d \in [Auths -> CircleStates] :
        circle' = [circle EXCEPT ![n] = d] /\ (d = c \/ d = [c EXCEPT ![g] = "none"])
  BY <1>2, <1>3, <1>4, RejectsAt
<1>6. v \in SavedSubmission /\ v.status = "Held" /\ v.id = 0
  BY Zenon, <1>1, <1>3 DEF SavedSubmission, Outcomes, Statuses
<1>7. faults' = faults + 1 /\ faults' \in 0 .. MaxFaults /\ faults' >= faults
      /\ faults + 1 \in 0 .. MaxFaults
  BY <1>3, <1>4, MaxFaultsAssumption DEF Fault
<1>8. ASSUME NEW u \in SavedSubmission, u.auth = sub[n].auth, u.status = "Held", u.id = 0
      PROVE  RowOK(u, hold[n], g, d, faults + 1)
  <2>1. /\ RowOK(u, hold[n], g, c, faults + 1)
        /\ RowOK(u, hold[n], g, [c EXCEPT ![g] = "none"], faults + 1)
    BY Zenon, <1>3, <1>7, <1>8, RowRejected
  <2>2. QED
    BY <1>5, <2>1, Zenon
<1>9. traffic \in {"open", "limited"}
  BY Zenon DEF IInv, TypeOK
<1>10. SavesTruth(n, v, d, faults')
  BY <1>2, <1>6, <1>7, <1>8, Zenon DEF SavesTruth
<1> HIDE DEF v
<1>11. QED
  BY Zenon, <1>1, <1>2, <1>4, <1>5, <1>6, <1>7, <1>9, <1>10, ReplySaved


\* After a limit rejection the request is gone if that was its only send, and stays otherwise.
LEMMA ReplyLimitInv == IInv /\ ReplyLimit => IInv'
<1> SUFFICES ASSUME IInv, ReplyLimit PROVE IInv'
  OBVIOUS
<1>1. Replying /\ step = "Reply" /\ saved.id = 0
  BY Zenon DEF ReplyLimit, Replying
<1>2. PICK n, g, c : n = note /\ g = signed[note] /\ c = circle[note]
  OBVIOUS
<1>3. /\ n \in Notes /\ sub[n] \in SavedSubmission /\ g \in Nat /\ saved \in SavedSubmission
      /\ circle \in [Notes -> [Auths -> CircleStates]] /\ faults \in 0 .. MaxFaults
      /\ RowOK(sub[n], hold[n], g, c, faults) /\ phase \in CyclePhases
      /\ hold[n] = "None" /\ sub[n].status \in {"Submitting", "Submitted"}
      /\ sub[n].auth = g /\ saved.auth = g /\ g \in Auths /\ sub[n].id = 0
      /\ c \in [Auths -> CircleStates]
  BY <1>1, <1>2, HandFacts, Zenon
<1>4. CircleRejects /\ cmd' = cmd /\ Fault
  BY Zenon DEF ReplyLimit, CircleRejects
<1>5. PICK d \in [Auths -> CircleStates] :
        /\ circle' = [circle EXCEPT ![n] = d]
        /\ \/ attempt = "First" /\ c[g] = "wire" /\ d = [c EXCEPT ![g] = "none"]
           \/ attempt # "First" /\ d = c
  BY <1>2, <1>3, <1>4, RejectsAt
<1>6. StoreTypeOK /\ ControlTypeOK /\ EnvTypeOK
  BY TypeParts, Zenon DEF IInv
<1>7. faults' = faults + 1 /\ faults' \in 0 .. MaxFaults /\ faults' >= faults
      /\ faults + 1 \in 0 .. MaxFaults /\ faults <= faults + 1
  BY <1>4, <1>6, FaultType, MaxFaultsAssumption DEF EnvTypeOK
<1>8. /\ circle' \in [Notes -> [Auths -> CircleStates]] /\ circle'[n] = d
      /\ \A m \in Notes : m # n => circle'[m] = circle[m]
  BY <1>3, <1>5, Zenon
<1>9. EnvTypeOK'
  BY <1>4, <1>6, <1>7, <1>8, Zenon DEF EnvTypeOK
<1>10. RowOK(sub[n], hold[n], g, c, faults + 1)
  BY <1>3, <1>7, RowFaults, Zenon
<1>11. RowOK(sub[n], hold[n], g, d, faults + 1)
  <2>1. c[g] = "wire" => RowOK(sub[n], hold[n], g, [c EXCEPT ![g] = "none"], faults + 1)
    BY Zenon, <1>3, <1>7, <1>10, RowCircle DEF CircleStates
  <2>2. QED
    BY <1>5, <1>10, <2>1, Zenon
<1>12. CASE CanRecordLimitRejection(n, attempt, saved)
  <2>1. RecordLimitRejection(n, attempt) /\ ItemDone /\ traffic' = traffic
    BY <1>2, <1>12, Zenon DEF ReplyLimit
  <2>2. /\ StoreTypeOK' /\ StoreKeptBut(n)
        /\ sub'[n] = (IF attempt = "First" THEN NoSubmission ELSE sub[n])
        /\ hold'[n] = hold[n] /\ signed'[n] = g /\ rev'[n] = rev[n] + 1
    BY <1>2, <1>3, <1>6, <2>1, LimitRejectionStep, Zenon
  <2>3. ControlTypeOK'
    BY <1>6, <2>1, ItemDoneType, Zenon DEF ControlTypeOK
  <2>4. step' = "Next" /\ UNCHANGED <<phase, todo, snap>>
    BY <2>1, Zenon DEF ItemDone
  <2>5. Row(n)'
    <3>1. CASE attempt = "First"
      <4>1. d[g] = "none" /\ RowOK(sub[n], hold[n], g, d, faults + 1)
        BY <1>3, <1>5, <1>11, <3>1, Zenon
      <4>2. g <= faults + 1
        BY <1>3, Zenon DEF RowOK
      <4>3. RowOK(NoSubmission, hold[n], g, d, faults + 1)
        BY <1>3, <1>7, <4>1, <4>2, RowDropped, Zenon
      <4>4. QED
        BY <1>7, <1>8, <2>2, <3>1, <4>3, Zenon DEF Row
    <3>2. CASE attempt # "First"
      BY <1>5, <1>7, <1>8, <1>11, <2>2, <3>2, Zenon DEF Row
    <3>3. QED
      BY <3>1, <3>2, Zenon
  <2>6. rev'[n] >= rev[n]
    BY <1>3, <1>6, <2>2 DEF StoreTypeOK
  <2>7. QED
    BY <1>1, <1>2, <1>3, <1>4, <1>7, <1>8, <1>9, <2>2, <2>3, <2>4, <2>5, <2>6,
       TypePartsPrimed, HandStep, Zenon DEF Hand
<1>13. CASE ~CanRecordLimitRejection(n, attempt, saved)
  <2>1. RestAt("Idle") /\ UNCHANGED <<storeVars, policy>>
    BY <1>2, <1>13 DEF ReplyLimit
  <2>2. StoreTypeOK' /\ ControlTypeOK'
    BY <1>6, <2>1, StoreUnchanged, RestAtType
  <2>3. StoreKeptBut(n) /\ sub' = sub /\ hold' = hold /\ signed' = signed /\ rev' = rev
    BY <2>1 DEF storeVars, StoreKeptBut
  <2>4. step' = "Next" /\ todo' = NoTodo /\ phase' \notin CyclePhases
    BY <2>1, Zenon DEF RestAt, CyclePhases
  <2>5. Row(n)'
    BY <1>2, <1>7, <1>8, <1>11, <2>3, Zenon DEF Row
  <2>6. rev'[n] >= rev[n]
    BY <1>3, <1>6, <2>3 DEF StoreTypeOK
  <2>7. QED
    BY <1>1, <1>2, <1>3, <1>4, <1>7, <1>8, <1>9, <2>2, <2>3, <2>4, <2>5, <2>6,
       TypePartsPrimed, HandStep, Zenon DEF Hand
<1>14. QED
  BY <1>12, <1>13, Zenon

-----------------------------------------------------------------------------
(* Aborted cycles, conflicts, sends and prepares *)

\* An aborted cycle or a stop leaves the store and Circle as they were and drops the work lists.
LEMMA AbortInv ==
  ASSUME IInv, NEW p \in {"Stopped", "Idle"}, RestAt(p), policy' \in {policy, "off"},
         UNCHANGED <<storeVars, circle, cmd>>, faults' \in 0 .. MaxFaults, faults' >= faults
  PROVE  IInv'
<1>1. StoreTypeOK /\ ControlTypeOK /\ EnvTypeOK
  BY TypeParts DEF IInv
<1>2. StoreTypeOK' /\ ControlTypeOK' /\ EnvTypeOK'
  BY <1>1, StoreUnchanged, RestAtType, Zenon DEF EnvTypeOK
<1>3. TypeOK'
  BY <1>2, TypePartsPrimed, Zenon
<1>4. \A m \in Notes : Row(m)'
  <2> SUFFICES ASSUME NEW m \in Notes PROVE Row(m)'
    BY Zenon
  <2>1. sub[m] \in SavedSubmission /\ signed[m] \in Nat /\ faults \in 0 .. MaxFaults
        /\ faults <= faults' /\ RowOK(sub[m], hold[m], signed[m], circle[m], faults)
    BY <1>1, MaxFaultsAssumption, Zenon DEF IInv, Row, StoreTypeOK, EnvTypeOK
  <2>2. RowOK(sub[m], hold[m], signed[m], circle[m], faults')
    BY <2>1, RowFaults, Zenon
  <2>3. QED
    BY <2>2, Zenon DEF Row, storeVars
<1>5. ControlOK' /\ AnswersAreRecordable'
  BY Zenon DEF RestAt, NoTodo, CyclePhases, ControlOK, AnswersAreRecordable
<1>6. CmdRevOK' /\ ListedHoldIsCurrent'
  BY DEF IInv, CmdRevOK, ListedHoldIsCurrent, OnHold, HeldBurn, HeldWithdrawal, NotAccepted,
         storeVars
<1>7. QED
  BY <1>3, <1>4, <1>5, <1>6 DEF IInv

-----------------------------------------------------------------------------
(* Conflicts, sends and prepares *)

\* A conflict can only name the saved request: Circle has no other of the burn that is not dead.
LEMMA ReplyConflictInv ==
  ASSUME IInv, NEW id \in Auths, ReplyConflict(id)
  PROVE  IInv'
<1>1. Replying /\ step = "Reply" /\ saved.id = 0 /\ UNCHANGED <<circle, cmd, faults>>
  BY Zenon DEF ReplyConflict, Replying
<1>2. PICK n, g, c : n = note /\ g = signed[note] /\ c = circle[note]
  BY Zenon
<1> DEFINE found == [saved EXCEPT !.id = id, !.outcome = "conflict"]
<1>3. /\ n \in Notes /\ sub[n] \in SavedSubmission /\ g \in Nat /\ saved \in SavedSubmission
      /\ faults \in 0 .. MaxFaults /\ RowOK(sub[n], hold[n], g, c, faults)
      /\ phase \in CyclePhases
      /\ hold[n] = "None" /\ sub[n].status \in {"Submitting", "Submitted"}
      /\ sub[n].auth = g /\ saved.auth = g /\ saved.status = sub[n].status
      /\ c \in [Auths -> CircleStates]
  BY <1>1, <1>2, HandFacts, Zenon
<1>4. c[id] \in {"live", "finalized", "failed"}
  BY <1>2, Zenon DEF ReplyConflict
<1>5. id = g
  BY <1>3, <1>4, Zenon DEF RowOK, AtCircle
<1>6. /\ UpdateSubmissionOutcome(n, found) /\ step' = "Send" /\ saved' = found
      /\ UNCHANGED <<phase, todo, snap, note, attempt, traffic, policy>>
  BY <1>2, <1>3, Zenon DEF ReplyConflict
<1>7. /\ found \in SavedSubmission /\ found.auth = g /\ found.id = g
      /\ found.status = sub[n].status
  BY Zenon, <1>3, <1>5 DEF SavedSubmission, Outcomes
<1> HIDE DEF found
<1>8. StoreTypeOK /\ ControlTypeOK /\ EnvTypeOK
  BY TypeParts, Zenon DEF IInv
<1>9. /\ StoreTypeOK' /\ StoreKeptBut(n) /\ sub'[n] \in SavedSubmission
      /\ sub'[n].auth = g /\ sub'[n].status = sub[n].status /\ sub'[n].id = g
      /\ hold'[n] = hold[n] /\ signed'[n] = g /\ rev'[n] >= rev[n]
  BY <1>2, <1>3, <1>6, <1>7, <1>8, UpdateStep, Zenon
<1>10. ControlTypeOK' /\ EnvTypeOK'
  BY <1>1, <1>6, <1>7, <1>8, Zenon DEF ControlTypeOK, EnvTypeOK
<1>11. TypeOK'
  BY <1>9, <1>10, TypePartsPrimed, Zenon
<1>12. faults <= faults
  BY <1>3, MaxFaultsAssumption
<1>13. RowOK(sub'[n], hold[n], g, c, faults)
  BY <1>3, <1>4, <1>5, <1>9, <1>12, RowNoConclusion
<1>14. Row(n)'
  BY <1>1, <1>2, <1>9, <1>13, Zenon DEF Row
<1>15. Hand'
  BY Zenon, <1>2, <1>3, <1>6, <1>7, <1>9 DEF Hand
<1>16. faults' >= faults /\ \A m \in Notes : m # n => circle'[m] = circle[m]
  BY <1>1, <1>12
<1>17. QED
  BY <1>1, <1>2, <1>3, <1>6, <1>9, <1>11, <1>14, <1>15, <1>16, HandStep, Zenon

LEMMA SendInv == IInv /\ Send => IInv'
<1> SUFFICES ASSUME IInv, Send PROVE IInv'
  OBVIOUS
<1>1. /\ step = "Send" /\ step' = "Reply"
      /\ UNCHANGED <<storeVars, phase, todo, snap, note, saved, attempt, traffic, policy, cmd, faults>>
  BY Zenon DEF Send
<1>2. PICK n, g, c : n = note /\ g = signed[note] /\ c = circle[note]
  OBVIOUS
<1>3. /\ n \in Notes /\ sub[n] \in SavedSubmission /\ g \in Nat /\ saved \in SavedSubmission
      /\ faults \in 0 .. MaxFaults /\ RowOK(sub[n], hold[n], g, c, faults)
      /\ phase \in CyclePhases /\ circle \in [Notes -> [Auths -> CircleStates]]
      /\ hold[n] = "None" /\ sub[n].status \in {"Submitting", "Submitted"}
      /\ sub[n].auth = g /\ saved.auth = g /\ saved.status = sub[n].status
      /\ saved.id = sub[n].id /\ g \in Auths /\ c \in [Auths -> CircleStates]
  BY <1>1, <1>2, HandFacts, Zenon
<1>4. \E d \in [Auths -> CircleStates] :
        /\ circle' = [circle EXCEPT ![n] = d]
        /\ RowOK(sub[n], hold[n], g, d, faults)
        /\ saved.id = 0 => d[g] # "none"
  <2>1. CASE saved.id = 0 /\ c[g] = "none"
    <3>1. [c EXCEPT ![g] = "wire"] \in [Auths -> CircleStates] /\ [c EXCEPT ![g] = "wire"][g] = "wire"
      BY <1>3 DEF CircleStates
    <3>2. RowOK(sub[n], hold[n], g, [c EXCEPT ![g] = "wire"], faults)
      BY Zenon, <1>3, <2>1, RowSend
    <3>3. circle' = [circle EXCEPT ![n] = [c EXCEPT ![g] = "wire"]]
      BY <1>2, <1>3, <2>1, Zenon DEF Send
    <3>4. QED
      BY Zenon, <3>1, <3>2, <3>3
  <2>2. CASE ~(saved.id = 0 /\ c[g] = "none")
    <3>1. circle' = [circle EXCEPT ![n] = c]
      BY Zenon, <1>2, <1>3, <2>2 DEF Send
    <3>2. QED
      BY Zenon, <1>3, <2>2, <3>1
  <2>3. QED
    BY <2>1, <2>2
<1>5. PICK d \in [Auths -> CircleStates] :
        /\ circle' = [circle EXCEPT ![n] = d]
        /\ RowOK(sub[n], hold[n], g, d, faults)
        /\ saved.id = 0 => d[g] # "none"
  BY Zenon, <1>4
<1>6. /\ circle' \in [Notes -> [Auths -> CircleStates]] /\ circle'[n] = d
      /\ \A m \in Notes : m # n => circle'[m] = circle[m]
  BY <1>3, <1>5, Zenon
<1>7. StoreKeptBut(n) /\ sub' = sub /\ hold' = hold /\ signed' = signed /\ rev' = rev
  BY <1>1, Zenon DEF storeVars, StoreKeptBut
<1>8. StoreTypeOK /\ ControlTypeOK /\ EnvTypeOK
  BY TypeParts, Zenon DEF IInv
<1>9. StoreTypeOK'
  BY <1>1, <1>8, StoreUnchanged, Zenon
<1>10. ControlTypeOK' /\ EnvTypeOK'
  BY <1>1, <1>6, <1>8, Zenon DEF ControlTypeOK, EnvTypeOK
<1>11. TypeOK'
  BY <1>9, <1>10, TypePartsPrimed, Zenon
<1>12. Row(n)'
  BY <1>1, <1>2, <1>5, <1>6, <1>7, Zenon DEF Row
<1>13. Hand'
  BY <1>1, <1>2, <1>3, <1>5, <1>6, <1>7, Zenon DEF Hand
<1>14. rev'[n] >= rev[n] /\ faults' >= faults
  BY <1>1, <1>3, <1>7, <1>8, MaxFaultsAssumption DEF StoreTypeOK
<1>15. QED
  BY Zenon, <1>1, <1>2, <1>3, <1>6, <1>7, <1>11, <1>12, <1>13, <1>14, HandStep


\* What holds of the burn in hand while it is prepared.
LEMMA PrepareFacts ==
  ASSUME IInv, Preparing, NEW n, n = note
  PROVE  /\ n \in Notes /\ phase \in CyclePhases /\ step = "Prepare"
         /\ sub[n] \in SavedSubmission /\ signed[n] \in Nat
         /\ circle[n] \in [Auths -> CircleStates] /\ faults \in 0 .. MaxFaults
         /\ RowOK(sub[n], hold[n], signed[n], circle[n], faults)
         /\ n \in known /\ hold[n] = "None" /\ sub[n].status \in {"None", "Expired"}
<1>1. step = "Prepare" /\ n \in Notes /\ phase \in CyclePhases
  BY DEF IInv, ControlOK, Preparing
<1>2. /\ sub[n] \in SavedSubmission /\ signed[n] \in Nat
      /\ circle[n] \in [Auths -> CircleStates] /\ faults \in 0 .. MaxFaults
  BY <1>1 DEF IInv, TypeOK, StoreTypeOK
<1>3. RowOK(sub[n], hold[n], signed[n], circle[n], faults)
  BY <1>1, Zenon DEF IInv, Row
<1>4. n \in known /\ hold[n] = "None" /\ sub[n].status \in {"None", "Expired"}
  BY <1>1 DEF IInv, AnswersAreRecordable, Eligible
<1>5. QED
  BY <1>1, <1>2, <1>3, <1>4, Zenon

\* A prepare that ends without a saved request keeps the invariant if the burn's row stays true.
LEMMA PrepareEnds ==
  ASSUME IInv, Preparing, NEW n, n = note, ItemDone, traffic' \in {"open", "limited"},
         StoreTypeOK', StoreKeptBut(n), rev'[n] >= rev[n],
         UNCHANGED <<circle, cmd>>, Fault,
         RowOK(sub'[n], hold'[n], signed'[n], circle[n], faults)
  PROVE  IInv'
<1>1. /\ n \in Notes /\ phase \in CyclePhases /\ step = "Prepare"
      /\ faults \in 0 .. MaxFaults
  BY PrepareFacts
<1>2. StoreTypeOK /\ ControlTypeOK /\ EnvTypeOK
  BY TypeParts, Zenon DEF IInv
<1>3. faults' \in 0 .. MaxFaults /\ faults' >= faults /\ faults <= faults'
  BY <1>1, MaxFaultsAssumption DEF Fault
<1>4. ControlTypeOK' /\ EnvTypeOK'
  BY <1>2, <1>3, ItemDoneType, Zenon DEF EnvTypeOK
<1>5. TypeOK'
  BY Zenon, <1>4, TypePartsPrimed
<1>6. sub'[n] \in SavedSubmission /\ signed'[n] \in Nat
  BY <1>1 DEF StoreTypeOK
<1>7. RowOK(sub'[n], hold'[n], signed'[n], circle[n], faults')
  BY <1>1, <1>3, <1>6, RowFaults, Zenon
<1>8. Row(n)'
  BY <1>7 DEF Row
<1>9. step' = "Next" /\ UNCHANGED <<phase, todo, snap>>
  BY DEF ItemDone
<1>10. QED
  BY <1>1, <1>3, <1>5, <1>8, <1>9, HandStep, Zenon DEF Hand

LEMMA PrepareHeldInv ==
  ASSUME IInv, NEW reason \in {"PrepareRejected", "TooSmallToForward"}, PrepareHeld(reason)
  PROVE  IInv'
<1>1. PICK n : n = note
  OBVIOUS
<1>2. /\ Preparing /\ Fault /\ HoldBurn(n, reason) /\ ItemDone
      /\ UNCHANGED <<circle, traffic, cmd>>
  BY <1>1, Zenon DEF PrepareHeld
<1>3. /\ n \in Notes /\ sub[n] \in SavedSubmission /\ signed[n] \in Nat
      /\ faults \in 0 .. MaxFaults /\ sub[n].status \in {"None", "Expired"}
      /\ RowOK(sub[n], hold[n], signed[n], circle[n], faults)
  BY <1>1, <1>2, PrepareFacts
<1>4. StoreTypeOK /\ traffic \in {"open", "limited"}
  BY DEF IInv, TypeOK
<1>5. /\ StoreTypeOK' /\ StoreKeptBut(n)
      /\ sub'[n] = sub[n] /\ hold'[n] = reason /\ signed'[n] = signed[n]
      /\ rev'[n] = rev[n] + 1
  BY <1>2, <1>3, <1>4, HoldBurnStep DEF BurnHoldReasons
<1>6. RowOK(sub'[n], hold'[n], signed'[n], circle[n], faults)
  BY <1>3, <1>5, RowHold
<1>7. rev'[n] >= rev[n]
  BY <1>3, <1>4, <1>5 DEF StoreTypeOK
<1>8. QED
  BY <1>1, <1>2, <1>4, <1>5, <1>6, <1>7, PrepareEnds

LEMMA PrepareFailsInv ==
  ASSUME IInv, NEW after \in {"open", "limited"}, PrepareFails(after)
  PROVE  IInv'
<1>1. PICK n : n = note
  OBVIOUS
<1>2. Preparing /\ Fault /\ ItemDone /\ traffic' = after /\ UNCHANGED <<storeVars, circle, cmd>>
  BY Zenon DEF PrepareFails
<1>3. n \in Notes /\ RowOK(sub[n], hold[n], signed[n], circle[n], faults)
  BY <1>1, <1>2, PrepareFacts
<1>4. StoreTypeOK'
  BY <1>2, StoreUnchanged DEF IInv, TypeOK
<1>5. /\ StoreKeptBut(n) /\ sub'[n] = sub[n] /\ hold'[n] = hold[n] /\ signed'[n] = signed[n]
      /\ rev'[n] = rev[n]
  BY <1>2, Zenon DEF storeVars, StoreKeptBut
<1>6. rev'[n] >= rev[n]
  <2>1. rev'[n] \in Nat
    BY <1>3, <1>4, Zenon DEF StoreTypeOK
  <2> QED
    BY <1>5, <2>1
<1>7. QED
  BY <1>1, <1>2, <1>3, <1>4, <1>5, <1>6, PrepareEnds, Zenon

LEMMA PrepareLimitInv == IInv /\ PrepareLimit => IInv'
<1> SUFFICES ASSUME IInv, PrepareLimit PROVE IInv'
  OBVIOUS
<1>1. PICK n : n = note
  BY Zenon
<1>2. Preparing /\ Fault /\ UNCHANGED <<circle, cmd>>
  BY Zenon DEF PrepareLimit
<1>3. /\ n \in Notes /\ n \in known /\ hold[n] = "None" /\ faults \in 0 .. MaxFaults
      /\ RowOK(sub[n], hold[n], signed[n], circle[n], faults)
  BY <1>1, <1>2, PrepareFacts, Zenon
<1>4. RecordLimitRejection(n, "Prepare") /\ ItemDone /\ traffic' = traffic
  BY <1>1, <1>3, Zenon DEF PrepareLimit, CanRecordLimitRejection
<1>5. StoreTypeOK /\ traffic \in {"open", "limited"}
  BY Zenon DEF IInv, TypeOK
<1>6. /\ StoreTypeOK' /\ StoreKeptBut(n) /\ sub'[n] = sub[n]
      /\ hold'[n] = hold[n] /\ signed'[n] = signed[n] /\ rev'[n] = rev[n] + 1
  <2>1. /\ StoreTypeOK' /\ StoreKeptBut(n)
        /\ sub'[n] = IF "Prepare" = "First" THEN NoSubmission ELSE sub[n]
        /\ hold'[n] = hold[n] /\ signed'[n] = signed[n] /\ rev'[n] = rev[n] + 1
    BY <1>3, <1>4, <1>5, LimitRejectionStep, Zenon
  <2> QED
    BY <2>1, Zenon
<1>7. rev'[n] >= rev[n]
  BY <1>3, <1>5, <1>6 DEF StoreTypeOK
<1>8. QED
  BY <1>1, <1>2, <1>3, <1>4, <1>5, <1>6, <1>7, PrepareEnds, Zenon

\* A new request is signed only for a burn of which Circle has nothing that could pay.
LEMMA PrepareSignedInv == IInv /\ PrepareSigned => IInv'
<1> SUFFICES ASSUME IInv, PrepareSigned PROVE IInv'
  BY Zenon
<1>1. PICK n, u : n = note /\ u = NewSubmission(note)
  BY Zenon
<1>2. Preparing /\ UNCHANGED <<circle, cmd, faults>>
  BY Zenon DEF PrepareSigned
<1>3. /\ n \in Notes /\ phase \in CyclePhases /\ step = "Prepare"
      /\ sub[n] \in SavedSubmission /\ signed[n] \in Nat
      /\ circle[n] \in [Auths -> CircleStates] /\ faults \in 0 .. MaxFaults
      /\ RowOK(sub[n], hold[n], signed[n], circle[n], faults)
      /\ hold[n] = "None" /\ sub[n].status \in {"None", "Expired"}
  BY <1>1, <1>2, PrepareFacts, Zenon
<1>4. CanSave(n)
  BY <1>3 DEF CanSave, RowOK
<1>5. /\ SaveSubmission(n) /\ step' = "Send" /\ saved' = u /\ attempt' = "First"
      /\ UNCHANGED <<phase, todo, snap, note, traffic, policy>>
  BY <1>1, <1>4 DEF PrepareSigned
<1>6. StoreTypeOK /\ ControlTypeOK /\ EnvTypeOK
  BY TypeParts DEF IInv
<1>7. /\ StoreTypeOK' /\ StoreKeptBut(n) /\ u \in SavedSubmission
      /\ sub'[n] = u /\ hold'[n] = hold[n]
      /\ signed'[n] = signed[n] + 1 /\ rev'[n] = rev[n] + 1
  BY Zenon, <1>1, <1>3, <1>5, <1>6, SaveSubmissionStep
<1>8. u.auth = signed[n] + 1 /\ u.status = "Submitting" /\ u.id = 0
  BY <1>1 DEF NewSubmission
<1>9. RowOK(u, hold[n], signed[n] + 1, circle[n], faults)
  BY Zenon, <1>3, <1>7, <1>8, RowSave
<1>10. Row(n)'
  BY <1>2, <1>7, <1>9, Zenon DEF Row
<1>11. ControlTypeOK' /\ EnvTypeOK'
  BY <1>2, <1>5, <1>6, <1>7, Zenon DEF ControlTypeOK, EnvTypeOK, Attempts
<1>12. TypeOK'
  BY <1>7, <1>11, TypePartsPrimed, Zenon
<1>13. Hand'
  BY <1>1, <1>3, <1>5, <1>7, <1>8, ZenonT(30) DEF Hand
<1>14. rev'[n] >= rev[n] /\ faults' >= faults
  BY <1>2, <1>3, <1>6, <1>7, MaxFaultsAssumption DEF StoreTypeOK
<1>15. QED
  BY Zenon, <1>1, <1>2, <1>3, <1>5, <1>7, <1>10, <1>12, <1>13, <1>14, HandStep

-----------------------------------------------------------------------------
(* The course of a cycle *)

\* Steps that leave rows, holds, history and Circle alone.
LEMMA QuietRows ==
  ASSUME IInv, UNCHANGED <<hold, sub, signed, rev, circle, cmd, faults>>
  PROVE  CmdRevOK' /\ ListedHoldIsCurrent' /\ \A n \in Notes : Row(n)'
<1>1. \A n \in Notes : Row(n)'
  BY Zenon DEF IInv, Row
<1>2. CmdRevOK' /\ ListedHoldIsCurrent'
  BY Zenon DEF IInv, CmdRevOK, ListedHoldIsCurrent, OnHold, HeldBurn, HeldWithdrawal, NotAccepted
<1>3. QED
  BY <1>1, <1>2, Zenon

LEMMA StartInv ==
  ASSUME IInv, NEW p \in Policies, Start(p)
  PROVE  IInv'
<1>1. /\ UNCHANGED <<storeVars, circle, step, todo, snap, note, saved, attempt, traffic, cmd, faults>>
      /\ phase = "Stopped" /\ phase' = "Idle" /\ policy' \in {"on", "off"}
  BY PoliciesAssumption DEF Start
<1>2. UNCHANGED <<known, hold, sub, signed, rev>>
  BY <1>1 DEF storeVars
<1>3. StoreTypeOK /\ ControlTypeOK /\ EnvTypeOK
  BY TypeParts DEF IInv
<1>4. StoreTypeOK' /\ ControlTypeOK' /\ EnvTypeOK'
  BY <1>1, <1>3, StoreUnchanged, EnvUnchanged DEF ControlTypeOK
<1>5. phase \notin CyclePhases /\ phase' \notin CyclePhases
  BY <1>1 DEF CyclePhases
<1>6. ControlOK'
  BY <1>1, <1>2, <1>5, Zenon DEF IInv, ControlOK
<1>7. AnswersAreRecordable'
  BY <1>1, <1>2, Zenon DEF IInv, AnswersAreRecordable, Eligible
<1>8. QED
  BY <1>1, <1>2, <1>4, <1>6, <1>7, TypePartsPrimed, QuietRows DEF IInv

LEMMA ExitInv == IInv /\ Exit => IInv'
<1> SUFFICES ASSUME IInv, Exit PROVE IInv'
  OBVIOUS
<1>1. Fault /\ RestAt("Stopped") /\ policy' = "off" /\ UNCHANGED <<storeVars, circle, cmd>>
  BY DEF Exit
<1>2. faults' \in 0 .. MaxFaults /\ faults' >= faults
  BY <1>1, MaxFaultsAssumption DEF IInv, TypeOK, Fault
<1>3. QED
  BY <1>1, <1>2, AbortInv, Zenon

LEMMA CycleFailsInv == IInv /\ CycleFails => IInv'
<1> SUFFICES ASSUME IInv, CycleFails PROVE IInv'
  OBVIOUS
<1>1. Fault /\ RestAt("Idle") /\ UNCHANGED <<storeVars, circle, policy, cmd>>
  BY DEF CycleFails
<1>2. faults' \in 0 .. MaxFaults /\ faults' >= faults
  BY <1>1, MaxFaultsAssumption DEF IInv, TypeOK, Fault
<1>3. QED
  BY <1>1, <1>2, AbortInv

LEMMA PhaseEndsInv == IInv /\ PhaseEnds => IInv'
<1> SUFFICES ASSUME IInv, PhaseEnds PROVE IInv'
  OBVIOUS
<1>1. /\ phase \in CyclePhases /\ step = "Next" /\ todo' = [todo EXCEPT ![phase] = {}]
      /\ UNCHANGED <<storeVars, circle, step, note, saved, attempt, policy, cmd, faults>>
  BY DEF PhaseEnds
<1>2. phase' \in CyclePhases \/ (phase = "Poll" /\ phase' = "Idle")
  BY Zenon, <1>1 DEF PhaseEnds, CyclePhases
<1>3. /\ snap' \in {snap, NoSnap} /\ traffic' \in {traffic, "open"}
      /\ phase # "Poll" => snap' = snap
  BY DEF PhaseEnds
<1>4. UNCHANGED <<known, hold, sub, signed, rev>>
  BY <1>1 DEF storeVars
<1>5. StoreTypeOK /\ ControlTypeOK /\ EnvTypeOK
  BY TypeParts DEF IInv
<1>6. StoreTypeOK' /\ ControlTypeOK' /\ EnvTypeOK'
  BY <1>1, <1>2, <1>3, <1>5, NoSnapType, StoreUnchanged, EnvUnchanged DEF ControlTypeOK
<1>7. \A p \in CyclePhases : todo'[p] = IF p = phase THEN {} ELSE todo[p]
  BY <1>1, <1>5, Zenon DEF ControlTypeOK
<1>8. phase' = "Idle" => \A p \in CyclePhases : todo'[p] = {}
  BY <1>2, <1>7 DEF IInv, ControlOK, CyclePhases
<1>9. ControlOK'
  <2>1. CASE phase = "Recover"
    <3>1. phase' = "Submit"
      BY <2>1, Zenon DEF PhaseEnds
    <3>2. QED
      BY <1>1, <1>4, <1>7, <2>1, <3>1 DEF IInv, ControlOK, CyclePhases
  <2>2. CASE phase = "Submit"
    <3>1. phase' = "Poll"
      BY <2>2, Zenon DEF PhaseEnds
    <3>2. QED
      BY <1>1, <1>4, <1>7, <2>2, <3>1, Zenon DEF IInv, ControlOK, CyclePhases
  <2>3. CASE phase = "Poll"
    <3>1. phase' = "Idle"
      BY <2>3 DEF PhaseEnds
    <3>2. QED
      BY <1>1, <1>8, <3>1, Zenon DEF ControlOK, CyclePhases
  <2>4. QED
    BY <1>1, <2>1, <2>2, <2>3, Zenon DEF CyclePhases
<1>10. AnswersAreRecordable'
  <2>1. CASE phase = "Poll"
    <3>1. phase' = "Idle"
      BY <2>1 DEF PhaseEnds
    <3>2. QED
      BY <1>1, <1>8, <3>1, Zenon DEF AnswersAreRecordable, CyclePhases
  <2>2. CASE phase # "Poll"
    BY <1>1, <1>3, <1>4, <1>7, <2>2 DEF IInv, AnswersAreRecordable, CyclePhases, Eligible
  <2>3. QED
    BY <2>1, <2>2
<1>11. QED
  BY <1>1, <1>4, <1>6, <1>9, <1>10, TypePartsPrimed, QuietRows DEF IInv



\* A snapshot lists what the store has now, whatever burns it may see.
LEMMA SnapshotInv ==
  ASSUME IInv, NEW visible, TakeSnapshot(visible), faults' = faults \/ Fault
  PROVE  IInv'
<1>1. /\ phase = "Idle" /\ phase' = "Recover" /\ snap' = sub
      /\ UNCHANGED <<storeVars, circle, step, note, saved, attempt, traffic, policy, cmd>>
      /\ faults' = faults \/ Fault
  BY DEF TakeSnapshot
<1>2. /\ DOMAIN todo' = CyclePhases /\ todo'["Recover"] = WithStatus("Submitting")
      /\ todo'["Submit"] = Eligible \cap visible /\ todo'["Poll"] = WithStatus("Submitted")
  BY DEF TakeSnapshot, CyclePhases
<1>3. StoreTypeOK /\ ControlTypeOK /\ EnvTypeOK
  BY TypeParts DEF IInv
<1>4. UNCHANGED <<known, hold, sub, signed, rev>>
  BY <1>1 DEF storeVars
<1>5. todo' \in [CyclePhases -> SUBSET Notes]
  <2>1. WithStatus("Submitting") \subseteq Notes /\ WithStatus("Submitted") \subseteq Notes
        /\ Eligible \cap visible \subseteq Notes
    BY <1>3 DEF WithStatus, Eligible, StoreTypeOK
  <2>2. todo' = [p \in CyclePhases |-> CASE p = "Recover" -> WithStatus("Submitting")
                                          [] p = "Submit"  -> Eligible \cap visible
                                          [] p = "Poll"    -> WithStatus("Submitted")]
    BY DEF TakeSnapshot
  <2>3. QED
    BY <2>1, <2>2 DEF CyclePhases
<1>6. faults' \in 0 .. MaxFaults /\ faults' >= faults
  BY <1>1, <1>3, MaxFaultsAssumption DEF EnvTypeOK, Fault
<1>7. StoreTypeOK' /\ ControlTypeOK' /\ EnvTypeOK'
  <2>1. StoreTypeOK'
    BY <1>1, <1>3, StoreUnchanged
  <2>2. ControlTypeOK'
    BY <1>1, <1>3, <1>5 DEF ControlTypeOK, StoreTypeOK, CyclePhases
  <2>3. EnvTypeOK'
    BY <1>1, <1>3, <1>6, Zenon DEF EnvTypeOK
  <2>4. QED
    BY <2>1, <2>2, <2>3
<1>8. step = "Next"
  BY <1>1, Zenon DEF IInv, ControlOK, CyclePhases
<1>9. ControlOK'
  BY <1>1, <1>2, <1>4, <1>8, Zenon DEF ControlOK, WithStatus, CyclePhases
<1>10. AnswersAreRecordable'
  BY <1>1, <1>2, <1>4, <1>8 DEF AnswersAreRecordable, Eligible
<1>11. \A m \in Notes : Row(m)'
  <2> SUFFICES ASSUME NEW m \in Notes PROVE Row(m)'
    BY Zenon
  <2>1. sub[m] \in SavedSubmission /\ signed[m] \in Nat /\ faults \in 0 .. MaxFaults
        /\ faults <= faults' /\ RowOK(sub[m], hold[m], signed[m], circle[m], faults)
    BY <1>3, <1>6, MaxFaultsAssumption, Zenon DEF IInv, Row, StoreTypeOK, EnvTypeOK
  <2>2. RowOK(sub[m], hold[m], signed[m], circle[m], faults')
    BY <1>6, <2>1, RowFaults, Zenon
  <2>3. QED
    BY <1>1, <1>4, <2>2 DEF Row
<1>12. CmdRevOK' /\ ListedHoldIsCurrent'
  BY <1>1, <1>4, Zenon DEF IInv, CmdRevOK, ListedHoldIsCurrent, OnHold, HeldBurn, HeldWithdrawal,
                    NotAccepted
<1>13. QED
  BY <1>7, <1>9, <1>10, <1>11, <1>12, TypePartsPrimed, Zenon DEF IInv

LEMMA StartCycleInv ==
  ASSUME IInv, NEW visible \in SUBSET known, StartCycle(visible)
  PROVE  IInv'
<1>1. TakeSnapshot(visible) /\ (faults' = faults \/ Fault)
  BY Zenon DEF StartCycle
<1> QED
  BY <1>1, SnapshotInv

LEMMA PickBurnInv ==
  ASSUME IInv, NEW n \in Notes, PickBurn(n)
  PROVE  IInv'
<1>1. /\ phase = "Submit" /\ step = "Next" /\ n \in todo["Submit"] /\ AdvanceLimitRetry(n)
      /\ step' = "Prepare" /\ note' = n /\ todo' = [todo EXCEPT !["Submit"] = @ \ {n}]
      /\ UNCHANGED <<known, hold, sub, signed, rev, circle, phase, snap, saved, attempt,
                     traffic, policy, cmd, faults>>
  BY DEF PickBurn, IsNext
<1>2. StoreTypeOK /\ ControlTypeOK /\ EnvTypeOK
  BY TypeParts, Zenon DEF IInv
<1>3. \A p \in CyclePhases : todo'[p] = IF p = "Submit" THEN todo[p] \ {n} ELSE todo[p]
  BY <1>1, <1>2, Zenon DEF ControlTypeOK
<1>4. todo' \in [CyclePhases -> SUBSET Notes]
  BY <1>1, <1>2 DEF ControlTypeOK
<1>5. StoreTypeOK' /\ ControlTypeOK' /\ EnvTypeOK'
  <2>1. StoreTypeOK'
    BY <1>1, <1>2, AdvanceLimitStep, Zenon
  <2>2. ControlTypeOK' /\ EnvTypeOK'
    BY <1>1, <1>2, <1>4, ZenonT(30) DEF ControlTypeOK, EnvTypeOK
  <2>3. QED
    BY <2>1, <2>2
<1>6. \A p \in CyclePhases : n \notin todo'[p]
  BY <1>1, <1>3 DEF IInv, ControlOK, AnswersAreRecordable, Eligible, CyclePhases
<1>7. ControlOK'
  BY <1>1, <1>3, <1>6, ZenonT(30) DEF IInv, ControlOK, CyclePhases
<1>8. AnswersAreRecordable'
  BY <1>1, <1>3 DEF IInv, AnswersAreRecordable, CyclePhases, Eligible
<1>9. QED
  BY <1>1, <1>5, <1>7, <1>8, TypePartsPrimed, QuietRows, Zenon DEF IInv

LEMMA PickSavedInv ==
  ASSUME IInv, NEW n \in Notes, PickSaved(n)
  PROVE  IInv'
<1>1. /\ phase \in {"Recover", "Poll"} /\ step = "Next" /\ n \in todo[phase]
      /\ todo' = [todo EXCEPT ![phase] = @ \ {n}]
      /\ AdvanceLimitRetry(n) \/ limit' = limit
      /\ \/ UNCHANGED <<step, note, saved, attempt>>
         \/ step' = "Send" /\ note' = n /\ saved' = snap[n] /\ attempt' = "Recovery"
      /\ UNCHANGED <<known, hold, sub, signed, rev, circle, phase, snap, traffic, policy,
                     cmd, faults>>
  BY DEF PickSaved, IsNext
<1>2. StoreTypeOK /\ ControlTypeOK /\ EnvTypeOK
  BY TypeParts, Zenon DEF IInv
<1>3. \A p \in CyclePhases : todo'[p] = IF p = phase THEN todo[p] \ {n} ELSE todo[p]
  BY Zenon, <1>1, <1>2 DEF ControlTypeOK
<1>4. todo' \in [CyclePhases -> SUBSET Notes]
  BY <1>1, <1>2 DEF ControlTypeOK, CyclePhases
<1>5. StoreTypeOK' /\ ControlTypeOK' /\ EnvTypeOK'
  <2>1. StoreTypeOK'
    BY <1>1, <1>2, AdvanceLimitStep
  <2>2. ControlTypeOK' /\ EnvTypeOK'
    BY <1>1, <1>2, <1>4 DEF ControlTypeOK, EnvTypeOK, Attempts
  <2>3. QED
    BY <2>1, <2>2, Zenon
<1>6. /\ sub[n] = snap[n] /\ sub[n].status \in {"Submitting", "Submitted"}
      /\ Row(n) /\ hold[n] = "None"
  <2>1. sub[n] = snap[n] /\ sub[n].status \in {"Submitting", "Submitted"} /\ Row(n)
    BY <1>1, ZenonT(30) DEF IInv, ControlOK, AnswersAreRecordable
  <2>2. QED
    BY <2>1, Zenon DEF Row, RowOK
<1>7. \A p \in CyclePhases : n \notin todo'[p]
  BY <1>1, <1>3, <1>6 DEF IInv, ControlOK, AnswersAreRecordable, Eligible, CyclePhases
<1>8. ControlOK'
  BY <1>1, <1>3, <1>7 DEF IInv, ControlOK, CyclePhases
<1>9. AnswersAreRecordable'
  BY <1>1, <1>3, <1>6 DEF IInv, AnswersAreRecordable, CyclePhases, Eligible
<1>10. QED
  BY <1>1, <1>5, <1>8, <1>9, TypePartsPrimed, QuietRows, ZenonT(30) DEF IInv


-----------------------------------------------------------------------------
(* Circle, the operator, the clock and discovery *)

LEMMA CircleStepInv ==
  ASSUME IInv, NEW n \in Notes, NEW a \in Auths, NEW v \in CircleStates,
         circle[n][a] \in {"wire", "live"}, circle' = [circle EXCEPT ![n][a] = v],
         v = "none" => ~(Replying /\ note = n),
         \/ faults' = faults /\ circle[n][a] = "wire" /\ v \in {"live", "none"}
         \/ faults' = faults /\ circle[n][a] = "live" /\ v = "finalized"
         \/ Fault /\ circle[n][a] = "live" /\ v \in {"expired", "failed"},
         UNCHANGED <<storeVars, processVars, cmd>>
  PROVE  IInv'
<1>1. StoreTypeOK /\ ControlTypeOK /\ EnvTypeOK
  BY TypeParts, Zenon DEF IInv
<1>2. UNCHANGED <<known, hold, sub, signed, rev>> /\ StoreKeptBut(n)
  BY Zenon DEF storeVars, StoreKeptBut
<1>3. UNCHANGED <<phase, step, todo, snap, note, saved>>
  BY Zenon DEF processVars
<1>4. circle \in [Notes -> [Auths -> CircleStates]] /\ faults \in 0 .. MaxFaults
  BY <1>1, Zenon DEF EnvTypeOK
<1>5. /\ circle' \in [Notes -> [Auths -> CircleStates]]
      /\ circle'[n] = [circle[n] EXCEPT ![a] = v]
      /\ \A m \in Notes : m # n => circle'[m] = circle[m]
      /\ \A m \in Notes, b \in Auths : circle'[m][b] = IF m = n /\ b = a THEN v ELSE circle[m][b]
  BY <1>4, Zenon
<1>6. faults' \in 0 .. MaxFaults /\ faults' >= faults
  BY <1>4, MaxFaultsAssumption DEF Fault
<1>7. TypeOK'
  <2>1. StoreTypeOK' /\ ControlTypeOK'
    BY <1>1, StoreUnchanged, ControlUnchanged, Zenon
  <2>2. EnvTypeOK'
    BY <1>1, <1>5, <1>6, Zenon DEF EnvTypeOK
  <2>3. QED
    BY <2>1, <2>2, TypePartsPrimed, Zenon
<1>8. Row(n)'
  <2>1. /\ sub[n] \in SavedSubmission /\ signed[n] \in Nat /\ circle[n] \in [Auths -> CircleStates]
        /\ RowOK(sub[n], hold[n], signed[n], circle[n], faults)
    BY <1>1, <1>4, Zenon DEF IInv, Row, StoreTypeOK
  <2>2. RowOK(sub[n], hold[n], signed[n], [circle[n] EXCEPT ![a] = v], faults')
    BY Zenon, <1>4, <1>6, <2>1, RowCircle DEF Fault
  <2>3. QED
    BY <1>2, <1>5, <2>2, Zenon DEF Row
<1>9. \A m \in Notes : Row(m)'
  BY <1>2, <1>5, <1>6, <1>7, <1>8, OtherRows
<1>10. ControlOK'
  <2>1. step = "Reply" /\ saved.id = 0 => circle'[note][saved.auth] # "none"
    <3>1. SUFFICES ASSUME step = "Reply", saved.id = 0 PROVE circle'[note][saved.auth] # "none"
      BY Zenon
    <3>2. note \in Notes /\ saved.auth \in Auths /\ circle[note][saved.auth] # "none"
      BY <3>1, HandFacts, Zenon DEF IInv, ControlOK
    <3>3. QED
      BY <1>5, <3>1, <3>2, Zenon DEF Replying
  <2>2. QED
    BY <1>2, <1>3, <2>1, Zenon DEF IInv, ControlOK
<1>11. AnswersAreRecordable'
  BY <1>2, <1>3, Zenon DEF IInv, AnswersAreRecordable, Eligible
<1>12. CmdRevOK' /\ ListedHoldIsCurrent'
  <2>1. cmd.note \in Notes \cup {0}
    BY <1>1, Zenon DEF EnvTypeOK
  <2>2. \A m \in Notes : NotAccepted(m) => NotAccepted(m)'
    BY <1>2, <1>5 DEF NotAccepted
  <2>3. CmdRevOK'
    BY <1>2, Zenon DEF IInv, CmdRevOK
  <2>4. ListedHoldIsCurrent'
    BY <1>2, <2>1, <2>2, Zenon DEF IInv, ListedHoldIsCurrent, OnHold, HeldBurn, HeldWithdrawal
  <2>5. QED
    BY <2>3, <2>4, Zenon
<1>13. QED
  BY <1>7, <1>9, <1>10, <1>11, <1>12, Zenon DEF IInv

LEMMA CircleInv == IInv /\ Circle => IInv'
<1> SUFFICES ASSUME IInv, NEW n \in Notes, NEW a \in Auths,
                    \/ CircleAccepts(n, a) \/ CircleMisses(n, a) \/ CircleFinalizes(n, a)
                    \/ \E end \in {"expired", "failed"} : CircleGivesUp(n, a, end)
             PROVE  IInv'
  BY DEF Circle
<1>1. CASE CircleAccepts(n, a)
  BY Zenon, <1>1, CircleStepInv DEF CircleAccepts, CircleStates
<1>2. CASE CircleMisses(n, a)
  BY Zenon, <1>2, CircleStepInv DEF CircleMisses, CircleStates
<1>3. CASE CircleFinalizes(n, a)
  BY Zenon, <1>3, CircleStepInv DEF CircleFinalizes, CircleStates
<1>4. ASSUME NEW end \in {"expired", "failed"}, CircleGivesUp(n, a, end) PROVE IInv'
  BY Zenon, <1>4, CircleStepInv DEF CircleGivesUp, CircleStates
<1>5. QED
  BY <1>1, <1>2, <1>3, <1>4


\* A release of holds, each a held burn or a withdrawal Circle does not have, while no request is
\* in hand.  Nothing on a work list is on hold, so the lists stay current.
LEMMA ReleaseInv ==
  ASSUME IInv, NEW S \in SUBSET Notes, ReleaseHold(S), step = "Next",
         \A n \in S : OnHold(n) /\ (~HeldBurn(n) => NotAccepted(n)),
         UNCHANGED <<circle, processVars, cmd, faults>>
  PROVE  IInv'
<1>1. StoreTypeOK /\ ControlTypeOK /\ EnvTypeOK
  BY TypeParts, Zenon DEF IInv
<1>2. /\ StoreTypeOK' /\ known' = known
      /\ \A n \in Notes :
           /\ signed'[n] = signed[n]
           /\ n \notin S => sub'[n] = sub[n] /\ hold'[n] = hold[n] /\ rev'[n] = rev[n]
           /\ n \in S => /\ hold'[n] = "None" /\ rev'[n] = rev[n] + 1
                         /\ sub'[n] = IF HeldBurn(n) THEN sub[n] ELSE NoSubmission
  BY <1>1, ReleaseStep, Zenon
<1>3. TypeOK'
  BY <1>1, <1>2, ControlUnchanged, EnvUnchanged, TypePartsPrimed, Zenon
<1>4. UNCHANGED <<phase, step, todo, snap, note, saved>>
  BY DEF processVars
<1>5. \A n \in Notes : Row(n)'
  <2> SUFFICES ASSUME NEW n \in Notes PROVE Row(n)'
    BY Zenon
  <2>1. /\ sub[n] \in SavedSubmission /\ signed[n] \in Nat /\ circle[n] \in [Auths -> CircleStates]
        /\ faults \in 0 .. MaxFaults /\ RowOK(sub[n], hold[n], signed[n], circle[n], faults)
    BY <1>1, Zenon DEF IInv, Row, StoreTypeOK, EnvTypeOK
  <2>2. CASE n \notin S
    BY <1>2, <2>1, <2>2, Zenon DEF Row
  <2>3. CASE n \in S /\ HeldBurn(n)
    <3>1. sub[n].status \in {"None", "Expired"}
      BY <2>1, <2>3, Zenon DEF RowOK, HeldBurn
    <3>2. RowOK(sub[n], "None", signed[n], circle[n], faults)
      BY <2>1, <3>1, RowHold, Zenon
    <3>3. QED
      BY <1>2, <2>3, <3>2, Zenon DEF Row
  <2>4. CASE n \in S /\ ~HeldBurn(n)
    <3>1. sub[n].status = "Held" /\ hold[n] = "None" /\ NotAccepted(n)
      BY <2>4, Zenon DEF OnHold, HeldWithdrawal, HeldBurn
    <3>2. sub[n].auth = signed[n] /\ circle[n][signed[n]] = "none" /\ signed[n] <= faults
      BY <2>1, <3>1, Zenon DEF RowOK, NotAccepted
    <3>3. RowOK(NoSubmission, "None", signed[n], circle[n], faults)
      BY <2>1, <3>1, <3>2, RowDropped, Zenon
    <3>4. QED
      BY <1>2, <2>4, <3>3, Zenon DEF Row
  <2>5. QED
    BY <2>2, <2>3, <2>4, Zenon
<1>6. \A p \in CyclePhases : \A n \in todo[p] : n \in Notes /\ n \notin S
  <2> SUFFICES ASSUME NEW p \in CyclePhases, NEW n \in todo[p] PROVE n \in Notes /\ ~OnHold(n)
    BY Zenon
  <2>1. n \in Notes /\ Row(n)
    BY <1>1, Zenon DEF IInv, ControlTypeOK
  <2>2. p \in {"Recover", "Poll"} => sub[n].status \in {"Submitting", "Submitted"}
    BY DEF IInv, ControlOK
  <2>3. p = "Submit" => hold[n] = "None" /\ sub[n].status \in {"None", "Expired"}
    BY ZenonT(30) DEF IInv, AnswersAreRecordable, Eligible
  <2>4. QED
    BY <2>1, <2>2, <2>3, Zenon DEF Row, RowOK, OnHold, HeldBurn, HeldWithdrawal, CyclePhases
<1>7. ControlOK'
  BY <1>2, <1>4, <1>6 DEF IInv, ControlOK, CyclePhases
<1>8. AnswersAreRecordable'
  <2>1. \A p \in CyclePhases : \A n \in todo[p] : sub'[n] = sub[n] /\ hold'[n] = hold[n]
    BY <1>2, <1>6, Zenon
  <2>2. QED
    BY <1>2, <1>4, <2>1 DEF IInv, AnswersAreRecordable, Eligible, CyclePhases
<1>9. CmdRevOK' /\ ListedHoldIsCurrent'
  <2>1. cmd.note \in Notes \cup {0} /\ cmd.rev \in Nat /\ \A n \in Notes : rev[n] \in Nat
    BY <1>1, Zenon DEF EnvTypeOK, StoreTypeOK
  <2>2. CASE cmd.note = 0
    BY <2>2, Zenon DEF CmdRevOK, ListedHoldIsCurrent
  <2>3. CASE cmd.note \in S
    <3>1. cmd.rev <= rev[cmd.note] /\ rev'[cmd.note] = rev[cmd.note] + 1
      BY Zenon, <1>2, <2>3, NotesAssumption DEF IInv, CmdRevOK
    <3>2. cmd.rev < rev'[cmd.note]
      BY <2>1, <2>3, <3>1
    <3>3. QED
      BY <2>1, <2>3, <3>1, <3>2 DEF CmdRevOK, ListedHoldIsCurrent
  <2>4. CASE cmd.note \in Notes \ S
    BY <1>2, <2>4 DEF IInv, CmdRevOK, ListedHoldIsCurrent, OnHold, HeldBurn, HeldWithdrawal,
                      NotAccepted
  <2>5. QED
    BY <2>1, <2>2, <2>3, <2>4, Zenon
<1>10. QED
  BY <1>3, <1>5, <1>7, <1>8, <1>9 DEF IInv

LEMMA AdminReleaseInv == IInv /\ AdminRelease => IInv'
<1> SUFFICES ASSUME IInv, AdminRelease PROVE IInv'
  OBVIOUS
<1>1. /\ cmd.note \in Notes /\ cmd.rev = rev[cmd.note] /\ OnHold(cmd.note)
      /\ HeldBurn(cmd.note) \/ cmd.claim = "not_accepted"
      /\ ReleaseHold({cmd.note}) /\ UNCHANGED <<circle, processVars, cmd, faults>>
  BY DEF AdminRelease, IInv, TypeOK
<1>2. step = "Next"
  BY Zenon DEF AdminRelease, AtCheckpoint, IInv, ControlOK, CyclePhases
<1>3. ~HeldBurn(cmd.note) => NotAccepted(cmd.note)
  BY <1>1, Zenon DEF AdminRelease, IInv, ListedHoldIsCurrent
<1>4. QED
  BY <1>1, <1>2, <1>3, ReleaseInv, Zenon

LEMMA OfflineReleaseInv ==
  ASSUME IInv, NEW S \in SUBSET Notes, OfflineRelease(S)
  PROVE  IInv'
<1>1. step = "Next"
  BY ZenonT(30) DEF OfflineRelease, IInv, ControlOK, CyclePhases
<1>2. QED
  BY <1>1, ReleaseInv DEF OfflineRelease

LEMMA OperatorSelectsInv ==
  ASSUME IInv, NEW n \in Notes, NEW claim \in Claims, OperatorSelects(n, claim)
  PROVE  IInv'
<1>1. StoreTypeOK /\ ControlTypeOK /\ EnvTypeOK
  BY TypeParts, Zenon DEF IInv
<1> DEFINE c == [note |-> n, rev |-> rev[n], auth |-> IF HeldBurn(n) THEN 0 ELSE sub[n].auth,
                 claim |-> claim]
<1>2. /\ cmd' = c /\ OnHold(n) /\ (claim = "not_accepted" => NotAccepted(n))
      /\ UNCHANGED <<storeVars, circle, processVars, faults>>
  BY Zenon DEF OperatorSelects
<1>3. /\ c.note = n /\ c.rev = rev[n] /\ c.claim = claim
      /\ c.auth = IF HeldBurn(n) THEN 0 ELSE sub[n].auth
  BY Zenon
<1>4. c \in [note : Notes \cup {0}, rev : Nat, auth : Nat, claim : Claims]
  <2>1. rev[n] \in Nat /\ sub[n].auth \in Nat
    BY <1>1, Zenon DEF StoreTypeOK, SavedSubmission
  <2>2. QED
    BY <2>1, Zenon
<1> HIDE DEF c
<1>5. UNCHANGED <<known, hold, sub, signed, rev, phase, step, todo, snap, note, saved>>
  BY <1>2, Zenon DEF storeVars, processVars
<1>6. TypeOK'
  <2>1. EnvTypeOK'
    BY <1>1, <1>2, <1>4, Zenon DEF EnvTypeOK
  <2>2. QED
    BY <1>1, <1>2, <2>1, StoreUnchanged, ControlUnchanged, TypePartsPrimed, Zenon
<1>7. ControlOK'
  BY <1>2, <1>5, Zenon DEF IInv, ControlOK
<1>8. AnswersAreRecordable'
  BY <1>5, ZenonT(30) DEF IInv, AnswersAreRecordable, Eligible
<1>9. \A m \in Notes : Row(m)'
  BY <1>2, <1>5 DEF IInv, Row
<1>10. CmdRevOK'
  BY <1>1, <1>2, <1>3, <1>5 DEF CmdRevOK, StoreTypeOK
<1>11. ListedHoldIsCurrent'
  BY <1>2, <1>3, <1>5, Zenon DEF ListedHoldIsCurrent, OnHold, HeldBurn, HeldWithdrawal, NotAccepted
<1>12. QED
  BY <1>6, <1>7, <1>8, <1>9, <1>10, <1>11, Zenon DEF IInv


LEMMA RetryDueInv ==
  ASSUME IInv, NEW n \in Notes, RetryDue(n)
  PROVE  IInv'
<1>1. /\ limit' = [limit EXCEPT ![n] = "Due"]
      /\ UNCHANGED <<known, hold, sub, signed, rev, circle, processVars, cmd, faults>>
  BY DEF RetryDue
<1>2. UNCHANGED <<phase, step, todo, snap, note, saved>>
  BY <1>1, Zenon DEF processVars
<1>3. StoreTypeOK /\ ControlTypeOK /\ EnvTypeOK
  BY TypeParts DEF IInv
<1>4. limit' \in [Notes -> Retries]
  BY <1>1, <1>3, Zenon DEF StoreTypeOK, Retries
<1>5. StoreTypeOK'
  BY <1>1, <1>3, <1>4, Zenon DEF StoreTypeOK
<1>6. TypeOK'
  BY <1>1, <1>3, <1>5, ControlUnchanged, EnvUnchanged, TypePartsPrimed, Zenon
<1>7. ControlOK'
  BY <1>1, <1>2, Zenon DEF IInv, ControlOK
<1>8. AnswersAreRecordable'
  BY <1>1, <1>2, Zenon DEF IInv, AnswersAreRecordable, Eligible
<1>9. QED
  BY <1>1, <1>6, <1>7, <1>8, QuietRows, Zenon DEF IInv

\* Between cycles nothing depends on which burns are known.
LEMMA KnownInv ==
  ASSUME IInv, phase = "Idle", known' \subseteq Notes,
         UNCHANGED <<hold, limit, sub, signed, rev, circle, processVars, cmd, faults>>
  PROVE  IInv'
<1>1. UNCHANGED <<phase, step, todo, snap, note, saved>>
  BY Zenon DEF processVars
<1>2. StoreTypeOK /\ ControlTypeOK /\ EnvTypeOK
  BY TypeParts DEF IInv
<1>3. StoreTypeOK'
  BY <1>2, Zenon DEF StoreTypeOK
<1>4. TypeOK'
  BY <1>2, <1>3, ControlUnchanged, EnvUnchanged, TypePartsPrimed, Zenon
<1>5. ControlOK'
  BY <1>1, Zenon DEF IInv, ControlOK
<1>6. AnswersAreRecordable'
  <2>1. step = "Next" /\ \A p \in CyclePhases : todo[p] = {}
    BY Zenon DEF IInv, ControlOK, CyclePhases
  <2> QED
    BY <1>1, <2>1, Zenon DEF AnswersAreRecordable, CyclePhases
<1> QED
  BY <1>4, <1>5, <1>6, QuietRows, Zenon DEF IInv

LEMMA BurnFoundInv ==
  ASSUME IInv, NEW n \in Notes, BurnFound(n)
  PROVE  IInv'
<1>1. /\ phase = "Idle" /\ known' = known \cup {n}
      /\ UNCHANGED <<hold, limit, sub, signed, rev, circle, processVars, cmd, faults>>
  BY DEF BurnFound
<1>2. known' \subseteq Notes
  BY <1>1 DEF IInv, TypeOK, StoreTypeOK
<1> QED
  BY <1>1, <1>2, KnownInv

-----------------------------------------------------------------------------
(* The theorems *)

LEMMA InitInv == Init => IInv
<1> SUFFICES ASSUME Init PROVE IInv
  BY Zenon
<1>1. StoreTypeOK
  BY NoSubmissionType, Zenon DEF Init, StoreInit, StoreTypeOK, BurnHoldReasons, Retries
<1>2. ControlTypeOK
  BY NoSubmissionType, NoSnapType, NoTodoType, Zenon DEF Init, ControlTypeOK, Attempts
<1>3. EnvTypeOK
  BY MaxFaultsAssumption DEF Init, EnvTypeOK, CircleStates, NoCmd, Claims
<1>4. ControlOK /\ AnswersAreRecordable
  BY Zenon DEF Init, ControlOK, AnswersAreRecordable, NoTodo, CyclePhases
<1>5. CmdRevOK /\ ListedHoldIsCurrent
  BY Zenon DEF Init, NoCmd, CmdRevOK, ListedHoldIsCurrent
<1>6. \A n \in Notes : Row(n)
  <2> SUFFICES ASSUME NEW n \in Notes PROVE Row(n)
    BY Zenon
  <2>1. sub[n] = NoSubmission /\ hold[n] = "None" /\ signed[n] = 0 /\ faults = 0
    BY DEF Init, StoreInit
  <2>2. \A a \in Auths : circle[n][a] = "none"
    BY Zenon DEF Init
  <2>3. NoSubmission.status = "None" /\ NoSubmission.id = 0
    BY Zenon DEF NoSubmission
  <2>4. RowOK(sub[n], hold[n], signed[n], circle[n], faults)
    BY <2>1, <2>2, <2>3 DEF RowOK, AtCircle
  <2>5. QED
    BY <2>4 DEF Row
<1>7. QED
  BY <1>1, <1>2, <1>3, <1>4, <1>5, <1>6, TypeParts, Zenon DEF IInv

LEMMA NextInv == IInv /\ [Next]_vars => IInv'
<1> SUFFICES ASSUME IInv, [Next]_vars PROVE IInv'
  OBVIOUS
<1>1. CASE Attester
  BY <1>1, StartInv, StartCycleInv, PhaseEndsInv, PickBurnInv, PickSavedInv, SendInv DEF Attester
<1>2. CASE Exit
  BY <1>2, ExitInv
<1>3. CASE CycleFails
  BY <1>3, CycleFailsInv, Zenon
<1>4. CASE Prepare
  BY <1>4, PrepareSignedInv, PrepareHeldInv, PrepareLimitInv, PrepareFailsInv, Zenon DEF Prepare
<1>5. CASE Reply
  BY <1>5, ReplyStatusInv, ReplyUnknownStatusInv, ReplyConflictInv, ReplyLimitInv,
     ReplyRejectedInv, ReplyUnclearInv, Zenon DEF Reply
<1>6. CASE Circle
  BY <1>6, CircleInv
<1>7. CASE Operator
  BY <1>7, OperatorSelectsInv, AdminReleaseInv, OfflineReleaseInv, Zenon DEF Operator
<1>8. CASE \E n \in Notes : RetryDue(n) \/ BurnFound(n)
  BY <1>8, RetryDueInv, BurnFoundInv, Zenon
<1>9. CASE UNCHANGED vars
  <2>1. UNCHANGED <<storeVars, circle, processVars, cmd, faults>>
    BY <1>9, Zenon DEF vars
  <2>2. UNCHANGED <<known, hold, sub, signed, rev, phase, step, todo, snap, note, saved>>
    BY <2>1, Zenon DEF storeVars, processVars
  <2>3. TypeOK'
    BY <2>1, TypeParts, StoreUnchanged, ControlUnchanged, EnvUnchanged, TypePartsPrimed, Zenon
       DEF IInv
  <2>4. ControlOK'
    BY <2>1, <2>2, ZenonT(30) DEF IInv, ControlOK
  <2>5. AnswersAreRecordable'
    BY <2>2 DEF IInv, AnswersAreRecordable, Eligible
  <2>6. QED
    BY <2>1, <2>2, <2>3, <2>4, <2>5, QuietRows, Zenon DEF IInv
<1>10. QED
  BY <1>1, <1>2, <1>3, <1>4, <1>5, <1>6, <1>7, <1>8, <1>9, Zenon DEF Next

\* The inductive invariant holds of every reachable state.
THEOREM Invariance == Spec => []IInv
<1>1. QED
  BY InitInv, NextInv, PTL DEF Spec

\* Every variable of the attester, its store and Circle keeps its type, fault bound included.
THEOREM TypeCorrectness == Spec => []TypeOK
<1>1. IInv => TypeOK
  BY DEF IInv
<1>2. QED
  BY <1>1, Invariance, PTL

\* Whatever Circle has or may get for a burn is the burn's saved submission.
THEOREM SavedBeforeSent == Spec => []AcceptedIsSaved
<1>1. IInv => AcceptedIsSaved
  BY DEF IInv, Row, RowOK, AcceptedIsSaved
<1>2. QED
  BY <1>1, Invariance, PTL

\* No burn is paid twice, whatever crashes, lost replies, limit waits and releases happen.
THEOREM NoDoublePayout == Spec => []AtMostOnePayout
<1>1. AcceptedIsSaved => AtMostOnePayout
  BY DEF AcceptedIsSaved, AtMostOnePayout
<1>2. QED
  BY <1>1, SavedBeforeSent, PTL

\* What the store records of Circle's answers is true of Circle.
THEOREM StoreIsTruthful == Spec => []RecordIsTrue
<1>1. IInv => RecordIsTrue
  BY Zenon DEF IInv, Row, RowOK, RecordIsTrue
<1>2. QED
  BY <1>1, Invariance, PTL

\* Admin commands between the items of a cycle never make its work lists or the request in hand
\* stale, so no transaction of a cycle is refused.
THEOREM WorkListsStayCurrent == Spec => []AnswersAreRecordable
<1>1. IInv => AnswersAreRecordable
  BY DEF IInv
<1>2. QED
  BY <1>1, Invariance, PTL

\* An old release command never meets a newer hold: an unchanged revision means the listed hold.
THEOREM RevisionGuardsHold == Spec => []ListedHoldIsCurrent
<1>1. IInv => ListedHoldIsCurrent
  BY DEF IInv
<1>2. QED
  BY <1>1, Invariance, PTL

\* What validate_store asks of a note's row: its wait, and that a submission is of a burn.
WaitOK(n) ==
  /\ limit[n] # "None" =>
       n \in known /\ hold[n] = "None" /\ sub[n].status \in {"None", "Submitting", "Expired"}
  /\ sub[n].status # "None" => n \in known

WaitsOK == \A n \in Notes : WaitOK(n)

\* A transaction on one note concerns that note's row alone.
LEMMA OneRow ==
  ASSUME IInv, WaitsOK, NEW m \in Notes, known' = known,
         \A n \in Notes \ {m} : limit'[n] = limit[n] /\ hold'[n] = hold[n] /\ sub'[n] = sub[n],
         WaitOK(m)'
  PROVE  WaitsOK'
  BY DEF WaitsOK, WaitOK

LEMMA UpdateWaits ==
  ASSUME IInv, WaitsOK, NEW m \in Notes, sub[m].status # "None",
         NEW outcome \in SavedSubmission, UpdateSubmissionOutcome(m, outcome)
  PROVE  WaitsOK'
<1>1. /\ limit \in [Notes -> Retries] /\ sub \in [Notes -> SavedSubmission]
      /\ hold \in [Notes -> BurnHoldReasons]
  BY TypeParts DEF IInv, StoreTypeOK
<1>2. sub'[m].status = outcome.status /\ \A n \in Notes \ {m} : sub'[n] = sub[n]
  BY <1>1, Zenon DEF UpdateSubmissionOutcome, SavedSubmission
<1>3. /\ outcome.status \in EndsLimitWait => limit'[m] = "None"
      /\ outcome.status \notin EndsLimitWait => limit'[m] = limit[m]
      /\ \A n \in Notes \ {m} : limit'[n] = limit[n]
  BY <1>1, Zenon DEF UpdateSubmissionOutcome
<1>4. outcome.status \in EndsLimitWait \/ outcome.status \in {"None", "Submitting", "Expired"}
  BY DEF SavedSubmission, Statuses, EndsLimitWait
<1>5. UNCHANGED <<known, hold>> /\ m \in known
  BY Zenon DEF UpdateSubmissionOutcome, WaitsOK, WaitOK
<1>6. WaitOK(m)'
  BY <1>2, <1>3, <1>4, <1>5, Zenon DEF WaitsOK, WaitOK
<1> QED
  BY <1>2, <1>3, <1>5, <1>6, OneRow, Zenon

LEMMA ReleaseWaits ==
  ASSUME IInv, WaitsOK, NEW S \in SUBSET Notes, ReleaseHold(S)
  PROVE  WaitsOK'
<1>1. \A n \in Notes : /\ hold'[n] = hold[n] \/ hold'[n] = "None"
                       /\ sub'[n] = sub[n] \/ sub'[n].status = "None"
  BY DEF ReleaseHold, NoSubmission
<1>2. UNCHANGED <<known, limit>>
  BY DEF ReleaseHold
<1> QED
  BY <1>1, <1>2, Zenon DEF WaitsOK, WaitOK

LEMMA AdvanceWaits ==
  ASSUME IInv, WaitsOK, NEW n \in Notes, UNCHANGED <<known, hold, sub>>,
         AdvanceLimitRetry(n) \/ limit' = limit \/ RetryDue(n)
  PROVE  WaitsOK'
<1>1. limit \in [Notes -> Retries]
  BY TypeParts DEF IInv, StoreTypeOK
<1>2. \A m \in Notes : limit'[m] # "None" => limit[m] # "None"
  BY <1>1 DEF AdvanceLimitRetry, RetryDue
<1> QED
  BY <1>2, Zenon DEF WaitsOK, WaitOK

LEMMA RejectionWaits ==
  ASSUME IInv, WaitsOK, NEW m \in Notes, NEW a, m \in known, hold[m] = "None",
         RecordLimitRejection(m, a), sub[m].status \in {"None", "Submitting", "Expired"}
  PROVE  WaitsOK'
<1>1. limit \in [Notes -> Retries] /\ sub \in [Notes -> SavedSubmission]
  BY TypeParts, Zenon DEF IInv, StoreTypeOK
<1>2. /\ sub'[m].status = sub[m].status \/ sub'[m].status = "None"
      /\ \A n \in Notes \ {m} : sub'[n] = sub[n] /\ limit'[n] = limit[n]
      /\ UNCHANGED <<known, hold>>
  BY <1>1, Zenon DEF RecordLimitRejection, NoSubmission
<1>3. WaitOK(m)'
  BY <1>2 DEF WaitOK
<1> QED
  BY <1>2, <1>3, OneRow, Zenon

LEMMA SaveOutcomeWaits ==
  ASSUME IInv, WaitsOK, Replying, NEW v \in SavedSubmission, NEW after, SaveOutcome(v, after)
  PROVE  WaitsOK'
<1>1. PICK n : n = note
  BY Zenon
<1>2. n \in Notes /\ sub[n].status # "None"
  BY <1>1, HandFacts, Zenon DEF Replying
<1>3. UpdateSubmissionOutcome(n, v)
  BY <1>1, <1>2 DEF SaveOutcome
<1> QED
  BY <1>2, <1>3, UpdateWaits

LEMMA ReplyWaits ==
  ASSUME IInv, WaitsOK, Reply PROVE WaitsOK'
<1>1. Replying /\ step = "Reply"
  BY Zenon DEF Reply, ReplyStatus, ReplyUnknownStatus, ReplyConflict, ReplyLimit, ReplyRejected,
         ReplyUnclear, Replying
<1>2. PICK n, g : n = note /\ g = signed[note]
  BY Zenon
<1>3. /\ n \in Notes /\ g \in Nat /\ saved \in SavedSubmission /\ sub[n] \in SavedSubmission
      /\ circle[n] \in [Auths -> CircleStates] /\ g \in Auths /\ circle[n][g] # "none"
      /\ hold[n] = "None" /\ sub[n].status \in {"Submitting", "Submitted"}
      /\ saved.auth = g /\ (saved.id # 0 => saved.id = g) /\ saved.id = sub[n].id
      /\ (IF saved.id = 0 THEN saved.auth ELSE saved.id) = g
      /\ saved.status \in Statuses /\ saved.outcome \in Outcomes
  BY <1>1, <1>2, HandFacts, Zenon DEF SavedSubmission
<1>4. n \in known
  BY <1>3, Zenon DEF WaitsOK, WaitOK
<1>5. ASSUME NEW st \in Statuses, NEW id \in Nat, NEW o \in Outcomes
      PROVE  /\ [saved EXCEPT !.status = st, !.id = id, !.outcome = o] \in SavedSubmission
             /\ [saved EXCEPT !.id = id, !.outcome = o] \in SavedSubmission
             /\ [saved EXCEPT !.status = st, !.outcome = o] \in SavedSubmission
             /\ [saved EXCEPT !.outcome = o] \in SavedSubmission
  BY Zenon, <1>3, <1>5 DEF SavedSubmission
<1>6. CASE ReplyStatus
  <2> DEFINE reported == Taken(circle[n][g])
             v == [saved EXCEPT !.status = StatusOf(reported), !.id = g, !.outcome = reported]
  <2>1. SaveOutcome(v, traffic)
    BY Zenon, <1>2, <1>3, <1>6 DEF ReplyStatus
  <2>2. StatusOf(reported) \in Statuses /\ reported \in Outcomes
    BY <1>3, TakenType
  <2>3. v \in SavedSubmission
    BY Zenon, <1>3, <1>5, <2>2
  <2> HIDE DEF v
  <2> QED
    BY <1>1, <2>1, <2>3, SaveOutcomeWaits
<1>7. CASE ReplyUnknownStatus
  <2> DEFINE v == [saved EXCEPT !.id = g, !.outcome = "unknown_status"]
  <2>1. SaveOutcome(v, traffic)
    BY Zenon, <1>2, <1>3, <1>7 DEF ReplyUnknownStatus
  <2>2. "unknown_status" \in Outcomes /\ "Held" \in Statuses
    BY DEF Outcomes, Statuses
  <2>3. v \in SavedSubmission
    BY Zenon, <1>3, <1>5, <2>2
  <2> HIDE DEF v
  <2> QED
    BY <1>1, <2>1, <2>3, SaveOutcomeWaits
<1>8. ASSUME NEW id \in Auths, ReplyConflict(id) PROVE WaitsOK'
  <2> DEFINE v == [saved EXCEPT !.id = id, !.outcome = "conflict"]
  <2>1. UpdateSubmissionOutcome(n, v) /\ sub[n].status # "None"
    BY <1>2, <1>3, <1>8, Zenon DEF ReplyConflict
  <2>2. "conflict" \in Outcomes /\ "Held" \in Statuses /\ id \in Nat
    BY MaxFaultsAssumption DEF Outcomes, Statuses, Auths
  <2>3. v \in SavedSubmission
    BY Zenon, <1>3, <1>5, <2>2
  <2> HIDE DEF v
  <2> QED
    BY <1>3, <2>1, <2>3, UpdateWaits, Zenon
<1>9. CASE ReplyLimit
  <2>1. CASE CanRecordLimitRejection(note, attempt, saved)
    <3>1. RecordLimitRejection(n, attempt) /\ saved.id = 0
      BY <1>2, <1>9, <2>1, Zenon DEF ReplyLimit
    <3>2. sub[n].status \in {"None", "Submitting", "Expired"}
      BY <1>3, <3>1, ZenonT(30) DEF IInv, Row, RowOK
    <3> QED
      BY <1>3, <1>4, <3>1, <3>2, RejectionWaits, Zenon
  <2>2. CASE ~CanRecordLimitRejection(note, attempt, saved)
    BY <1>9, <2>2 DEF ReplyLimit, storeVars, WaitsOK, WaitOK
  <2> QED
    BY <2>1, <2>2, Zenon
<1>10. CASE ReplyRejected
  <2> DEFINE v == [saved EXCEPT !.status = "Held", !.outcome = "rejected"]
  <2>1. SaveOutcome(v, traffic)
    BY Zenon, <1>10 DEF ReplyRejected
  <2>2. "rejected" \in Outcomes /\ "Held" \in Statuses
    BY Zenon DEF Outcomes, Statuses
  <2>3. v \in SavedSubmission
    BY Zenon, <1>3, <1>5, <2>2
  <2> HIDE DEF v
  <2> QED
    BY <1>1, <2>1, <2>3, SaveOutcomeWaits
<1>11. ASSUME NEW o \in {"lost", "unexpected", "rate_limited"}, ReplyUnclear(o) PROVE WaitsOK'
  <2> DEFINE v == [saved EXCEPT !.outcome = o]
  <2>1. SaveOutcome(v, IF o = "rate_limited" THEN "limited" ELSE traffic)
    BY Zenon, <1>11 DEF ReplyUnclear
  <2>2. o \in Outcomes /\ "Held" \in Statuses
    BY Zenon DEF Outcomes, Statuses
  <2>3. v \in SavedSubmission
    BY Zenon, <1>3, <1>5, <2>2
  <2> HIDE DEF v
  <2> QED
    BY <1>1, <2>1, <2>3, SaveOutcomeWaits, Zenon
<1> QED
  BY <1>6, <1>7, <1>8, <1>9, <1>10, <1>11, Zenon DEF Reply

LEMMA PrepareWaits ==
  ASSUME IInv, WaitsOK, Prepare PROVE WaitsOK'
<1>1. PICK n : n = note
  BY ZenonT(30)
<1>2. n \in Notes /\ n \in known /\ hold[n] = "None" /\ sub[n].status \in {"None", "Expired"}
  BY <1>1 DEF Prepare, PrepareSigned, PrepareHeld, PrepareLimit, PrepareFails, Preparing, IInv,
              ControlOK, AnswersAreRecordable, Eligible
<1>3. /\ limit \in [Notes -> Retries] /\ sub \in [Notes -> SavedSubmission]
      /\ hold \in [Notes -> BurnHoldReasons]
  BY TypeParts, Zenon DEF IInv, StoreTypeOK
<1>4. CASE UNCHANGED storeVars
  BY <1>4, Zenon DEF storeVars, WaitsOK, WaitOK
<1>5. CASE SaveSubmission(n)
  <2>1. /\ sub'[n].status = "Submitting" /\ \A m \in Notes \ {n} : sub'[m] = sub[m]
        /\ UNCHANGED <<known, hold, limit>>
    BY <1>2, <1>3, <1>5, Zenon DEF SaveSubmission, NewSubmission
  <2> QED
    BY <1>2, <2>1, Zenon DEF WaitsOK, WaitOK
<1>6. ASSUME NEW reason, HoldBurn(n, reason) PROVE WaitsOK'
  <2>1. /\ limit'[n] = "None" /\ \A m \in Notes \ {n} : limit'[m] = limit[m] /\ hold'[m] = hold[m]
        /\ UNCHANGED <<known, sub>>
    BY <1>2, <1>3, <1>6, Zenon DEF HoldBurn
  <2> QED
    BY <1>2, <2>1, Zenon DEF WaitsOK, WaitOK
<1>7. CASE RecordLimitRejection(n, "Prepare")
  BY <1>2, <1>7, RejectionWaits, Zenon
<1> QED
  BY <1>1, <1>4, <1>5, <1>6, <1>7, Zenon DEF Prepare, PrepareSigned, PrepareHeld, PrepareLimit,
     PrepareFails

LEMMA WaitsStep == IInv /\ WaitsOK /\ [Next]_vars => WaitsOK'
<1> SUFFICES ASSUME IInv, WaitsOK, [Next]_vars PROVE WaitsOK'
  BY Zenon
<1>1. CASE UNCHANGED storeVars
  BY <1>1, Zenon DEF storeVars, WaitsOK, WaitOK
<1>2. CASE Attester
  BY <1>1, <1>2, AdvanceWaits, Zenon
     DEF Attester, Start, StartCycle, TakeSnapshot, PhaseEnds, PickBurn, PickSaved, Send
<1>3. CASE Exit \/ CycleFails \/ Circle
  BY <1>1, <1>3 DEF Exit, CycleFails, Circle, CircleAccepts, CircleMisses, CircleFinalizes,
     CircleGivesUp
<1>4. CASE Operator
  <2>1. CASE AdminRelease
    <3>1. {cmd.note} \in SUBSET Notes /\ ReleaseHold({cmd.note})
      BY <2>1, Zenon DEF AdminRelease, IInv, TypeOK
    <3> QED
      BY <3>1, ReleaseWaits
  <2>2. ASSUME NEW S \in SUBSET Notes, OfflineRelease(S) PROVE WaitsOK'
    BY <2>2, ReleaseWaits, Zenon DEF OfflineRelease
  <2> QED
    BY <1>1, <1>4, <2>1, <2>2, Zenon DEF Operator, OperatorSelects
<1>5. ASSUME NEW n \in Notes, RetryDue(n) PROVE WaitsOK'
  BY <1>5, AdvanceWaits, Zenon DEF RetryDue
<1>6. ASSUME NEW n \in Notes, BurnFound(n) PROVE WaitsOK'
  BY <1>6 DEF BurnFound, WaitsOK, WaitOK
<1> QED
  BY <1>1, <1>2, <1>3, <1>4, <1>5, <1>6, PrepareWaits, ReplyWaits, Zenon DEF Next, vars

\* A store the attester wrote can be opened again after a stop at any point (validate_store).
THEOREM StoreReopens == Spec => []StoreOpens
<1>1. Init => WaitsOK
  <2> SUFFICES ASSUME Init, NEW n \in Notes PROVE limit[n] = "None" /\ sub[n].status = "None"
    BY Zenon DEF WaitsOK, WaitOK
  <2>1. limit = [m \in Notes |-> "None"] /\ sub = [m \in Notes |-> NoSubmission]
    BY ZenonT(30) DEF Init, StoreInit
  <2> QED
    BY <2>1, Zenon DEF NoSubmission
<1>2. IInv /\ WaitsOK => StoreOpens
  BY DEF IInv, Row, RowOK, WaitsOK, WaitOK, StoreOpens, ValidateStore, Waiting
<1> QED
  BY <1>1, <1>2, WaitsStep, Invariance, PTL DEF Spec

\* Moving a retry time makes nobody wait who did not.
LEMMA AdvanceWaiting ==
  ASSUME IInv, NEW n \in Notes, AdvanceLimitRetry(n) \/ limit' = limit \/ RetryDue(n)
  PROVE  Waiting' \subseteq Waiting
<1>1. limit \in [Notes -> Retries]
  BY TypeParts DEF IInv, StoreTypeOK
<1> QED
  BY <1>1 DEF Waiting, AdvanceLimitRetry, RetryDue

LEMMA QueueStep == IInv /\ LimitQueueKept /\ [Next]_vars => LimitQueueKept'
<1> SUFFICES ASSUME IInv, LimitQueueKept, [Next]_vars PROVE LimitQueueKept'
  OBVIOUS
<1>1. CASE step' = "Next"
  BY <1>1, Zenon DEF LimitQueueKept
<1>2. CASE UNCHANGED <<limit, step, note, saved>>
  BY <1>2 DEF LimitQueueKept, Waiting
<1>3. ASSUME NEW n \in Notes, PickBurn(n) PROVE LimitQueueKept'
  <2>1. Waiting' \subseteq Waiting /\ note' = n
    BY <1>3, AdvanceWaiting, Zenon DEF PickBurn
  <2>2. \A w \in Waiting : w = n \/ Before(n, w)
    BY <1>3, Zenon DEF PickBurn, LimitAllows
  <2> QED
    BY <2>1, <2>2, Zenon DEF LimitQueueKept, Before
<1>4. ASSUME NEW n \in Notes, PickSaved(n) PROVE LimitQueueKept'
  <2>1. CASE snap[n].id = 0 /\ ~LimitAllows(n)
    BY <1>2, <1>4, <2>1, Zenon DEF PickSaved
  <2>2. CASE snap[n].id = 0 /\ LimitAllows(n)
    <3>1. Waiting' \subseteq Waiting /\ note' = n
      BY <1>4, <2>2, AdvanceWaiting, Zenon DEF PickSaved
    <3>2. \A w \in Waiting : w = n \/ Before(n, w)
      BY <2>2, Zenon DEF LimitAllows
    <3> QED
      BY <3>1, <3>2 DEF LimitQueueKept, Before
  <2>3. CASE snap[n].id # 0
    BY <1>4, <2>3, Zenon DEF PickSaved, LimitQueueKept
  <2> QED
    BY <2>1, <2>2, <2>3, Zenon
<1>5. CASE Send
  BY <1>5, Zenon DEF Send, storeVars, LimitQueueKept, Waiting, Before
<1>6. CASE Attester
  BY <1>1, <1>2, <1>3, <1>4, <1>5, <1>6, ZenonT(30) DEF Attester, Start, StartCycle, TakeSnapshot,
     PhaseEnds,
     storeVars
<1>7. CASE Exit \/ CycleFails \/ Circle
  BY <1>1, <1>2, <1>7 DEF Exit, CycleFails, RestAt, Circle, CircleAccepts, CircleMisses,
                          CircleFinalizes, CircleGivesUp, storeVars, processVars
<1>8. CASE Prepare
  <2>1. CASE PrepareSigned /\ CanSave(note)
    BY <2>1 DEF PrepareSigned, SaveSubmission, LimitQueueKept, Preparing, Waiting, Before
  <2> QED
    BY <1>1, <1>8, <2>1, Zenon DEF Prepare, PrepareSigned, PrepareHeld, PrepareLimit, PrepareFails,
                            ItemDone, RestAt
<1>9. CASE Reply
  <2>1. ASSUME NEW id \in Auths, ReplyConflict(id) PROVE LimitQueueKept'
    <3>1. CASE sub[note].status # "None"
      <4>1. saved' = [saved EXCEPT !.id = id, !.outcome = "conflict"] /\ id # 0 /\ saved \in SavedSubmission
        BY <2>1, <3>1, MaxFaultsAssumption DEF ReplyConflict, Auths, IInv, TypeOK
      <4>2. saved'.id # 0
        BY <4>1 DEF SavedSubmission
      <4>3. step' = "Send"
        BY <2>1, <3>1 DEF ReplyConflict
      <4> QED
        BY <4>2, <4>3, Zenon DEF LimitQueueKept
    <3>2. CASE sub[note].status = "None"
      BY <1>1, <2>1, <3>2, Zenon DEF ReplyConflict, RestAt
    <3> QED
      BY <3>1, <3>2, Zenon
  <2> QED
    BY <1>1, <1>9, <2>1, Zenon DEF Reply, ReplyStatus, ReplyUnknownStatus, ReplyLimit,
       ReplyRejected,
                            ReplyUnclear, SaveOutcome, ItemDone, RestAt
<1>10. CASE Operator
  BY <1>2, <1>10, Zenon DEF Operator, OperatorSelects, AdminRelease, OfflineRelease, ReleaseHold,
     storeVars,
                     processVars
<1>11. ASSUME NEW n \in Notes, RetryDue(n) PROVE LimitQueueKept'
  <2>1. Waiting' \subseteq Waiting /\ UNCHANGED <<step, note, saved>>
    BY <1>11, AdvanceWaiting, Zenon DEF RetryDue, processVars
  <2> QED
    BY <2>1, Zenon DEF LimitQueueKept, Before
<1>12. ASSUME NEW n \in Notes, BurnFound(n) PROVE LimitQueueKept'
  BY <1>2, <1>12 DEF BurnFound, processVars
<1>13. CASE UNCHANGED vars
  BY <1>2, <1>13 DEF vars, storeVars, processVars
<1> QED
  BY <1>6, <1>7, <1>8, <1>9, <1>10, <1>11, <1>12, <1>13, Zenon DEF Next

\* While a burn waits for Circle's limit nothing behind it in the order of withdrawal is
\* prepared or sent, uncertain resends included (limit_allows).
THEOREM QueueIsKept == Spec => []LimitQueueKept
<1>1. Init => LimitQueueKept
  BY DEF Init, LimitQueueKept
<1> QED
  BY <1>1, QueueStep, Invariance, PTL DEF Spec

\* The queue of burns that wait for Circle's limit keeps its order, and whatever holds, releases
\* and rejections wrote it, the next start opens the store (limit_allows, validate_store).
THEOREM QueueSurvivesRestarts == Spec => []WaitsAreKept
<1>1. LimitQueueKept /\ StoreOpens => WaitsAreKept
  BY DEF WaitsAreKept
<1> QED
  BY <1>1, QueueIsKept, StoreReopens, PTL

-----------------------------------------------------------------------------
(* Circle's IDs *)

IdStays(n) ==
  sub[n].id # 0 /\ sub'[n].id # sub[n].id =>
    /\ sub[n].status = "Expired"
    /\ sub'[n].auth = signed'[n] /\ sub'[n].auth > sub[n].auth

\* An outcome carries the ID the row has, or finds it without one.
LEMMA UpdateIds ==
  ASSUME IInv, NEW m \in Notes, NEW v \in SavedSubmission, UpdateSubmissionOutcome(m, v),
         sub[m].id # 0 => v.id = sub[m].id
  PROVE  \A n \in Notes : IdStays(n)
<1>1. sub \in [Notes -> SavedSubmission]
  BY TypeParts DEF IInv, StoreTypeOK
<1>2. sub'[m].id = v.id /\ \A n \in Notes \ {m} : sub'[n] = sub[n]
  BY <1>1 DEF UpdateSubmissionOutcome, SavedSubmission
<1> QED
  BY <1>2, Zenon DEF IdStays

LEMMA ReplyIds ==
  ASSUME IInv, Reply PROVE \A n \in Notes : IdStays(n)
<1>1. Replying /\ step = "Reply"
  BY Zenon DEF Reply, ReplyStatus, ReplyUnknownStatus, ReplyConflict, ReplyLimit, ReplyRejected,
         ReplyUnclear, Replying
<1>2. PICK m, g : m = note /\ g = signed[note]
  BY Zenon
<1>3. /\ m \in Notes /\ g \in Nat /\ saved \in SavedSubmission /\ sub[m] \in SavedSubmission
      /\ circle[m] \in [Auths -> CircleStates] /\ g \in Auths /\ circle[m][g] # "none"
      /\ sub[m].status \in {"Submitting", "Submitted"}
      /\ saved.auth = g /\ (saved.id # 0 => saved.id = g) /\ saved.id = sub[m].id
      /\ (IF saved.id = 0 THEN saved.auth ELSE saved.id) = g
      /\ saved.status \in Statuses /\ saved.outcome \in Outcomes
  BY <1>1, <1>2, HandFacts, Zenon DEF SavedSubmission
<1>4. ASSUME NEW st \in Statuses, NEW id \in Nat, NEW o \in Outcomes
      PROVE  /\ [saved EXCEPT !.status = st, !.id = id, !.outcome = o] \in SavedSubmission
             /\ [saved EXCEPT !.id = id, !.outcome = o] \in SavedSubmission
             /\ [saved EXCEPT !.status = st, !.outcome = o] \in SavedSubmission
             /\ [saved EXCEPT !.outcome = o] \in SavedSubmission
  BY Zenon, <1>3, <1>4 DEF SavedSubmission
<1>5. ASSUME NEW v \in SavedSubmission, NEW after, SaveOutcome(v, after), v.id \in {g, saved.id}
      PROVE  \A n \in Notes : IdStays(n)
  <2>1. UpdateSubmissionOutcome(m, v)
    BY <1>2, <1>3, <1>5, Zenon DEF SaveOutcome
  <2> QED
    BY <1>3, <1>5, <2>1, UpdateIds, Zenon
<1>6. CASE ReplyStatus
  <2> DEFINE reported == Taken(circle[m][g])
             v == [saved EXCEPT !.status = StatusOf(reported), !.id = g, !.outcome = reported]
  <2>1. SaveOutcome(v, traffic)
    BY Zenon, <1>2, <1>3, <1>6 DEF ReplyStatus
  <2>2. StatusOf(reported) \in Statuses /\ reported \in Outcomes
    BY <1>3, TakenType, Zenon
  <2>3. v \in SavedSubmission
    BY Zenon, <1>3, <1>4, <2>2
  <2>4. v.id = g
    BY <1>3, Zenon DEF SavedSubmission
  <2> HIDE DEF v
  <2> QED
    BY <2>1, <2>3, <2>4, <1>5, Zenon
<1>7. CASE ReplyUnknownStatus
  <2> DEFINE v == [saved EXCEPT !.id = g, !.outcome = "unknown_status"]
  <2>1. SaveOutcome(v, traffic)
    BY Zenon, <1>2, <1>3, <1>7 DEF ReplyUnknownStatus
  <2>2. "unknown_status" \in Outcomes /\ "Held" \in Statuses
    BY DEF Outcomes, Statuses
  <2>3. v \in SavedSubmission
    BY Zenon, <1>3, <1>4, <2>2
  <2>4. v.id = g
    BY <1>3, Zenon DEF SavedSubmission
  <2> HIDE DEF v
  <2> QED
    BY <2>1, <2>3, <2>4, <1>5
<1>8. ASSUME NEW id \in Auths, ReplyConflict(id) PROVE \A n \in Notes : IdStays(n)
  <2> DEFINE v == [saved EXCEPT !.id = id, !.outcome = "conflict"]
  <2>1. UpdateSubmissionOutcome(m, v) /\ sub[m].id = 0
    BY <1>2, <1>3, <1>8 DEF ReplyConflict
  <2>2. "conflict" \in Outcomes /\ "Held" \in Statuses /\ id \in Nat
    BY MaxFaultsAssumption DEF Outcomes, Statuses, Auths
  <2>3. v \in SavedSubmission
    BY Zenon, <1>3, <1>4, <2>2
  <2> HIDE DEF v
  <2> QED
    BY <1>3, <2>1, <2>3, UpdateIds, Zenon
<1>9. CASE ReplyLimit
  <2>1. sub[m].id = 0 /\ saved.id = 0
    BY <1>3, <1>9, Zenon DEF ReplyLimit
  <2>2. \A n \in Notes \ {m} : sub'[n] = sub[n]
    <3>1. sub \in [Notes -> SavedSubmission]
      BY TypeParts, Zenon DEF IInv, StoreTypeOK
    <3> QED
      BY <1>2, <1>9, <3>1, Zenon DEF ReplyLimit, RecordLimitRejection, storeVars
  <2> QED
    BY <2>1, <2>2, Zenon DEF IdStays
<1>10. CASE ReplyRejected
  <2> DEFINE v == [saved EXCEPT !.status = "Held", !.outcome = "rejected"]
  <2>1. SaveOutcome(v, traffic)
    BY Zenon, <1>10 DEF ReplyRejected
  <2>2. "rejected" \in Outcomes /\ "Held" \in Statuses
    BY DEF Outcomes, Statuses
  <2>3. v \in SavedSubmission
    BY Zenon, <1>3, <1>4, <2>2
  <2>4. v.id = saved.id
    BY <1>3, Zenon DEF SavedSubmission
  <2> HIDE DEF v
  <2> QED
    BY <2>1, <2>3, <2>4, <1>5, Zenon
<1>11. ASSUME NEW o \in {"lost", "unexpected", "rate_limited"}, ReplyUnclear(o)
       PROVE  \A n \in Notes : IdStays(n)
  <2> DEFINE v == [saved EXCEPT !.outcome = o]
  <2>1. SaveOutcome(v, IF o = "rate_limited" THEN "limited" ELSE traffic)
    BY Zenon, <1>11 DEF ReplyUnclear
  <2>2. o \in Outcomes /\ "Held" \in Statuses
    BY DEF Outcomes, Statuses
  <2>3. v \in SavedSubmission
    BY Zenon, <1>3, <1>4, <2>2
  <2>4. v.id = saved.id
    BY <1>3 DEF SavedSubmission
  <2> HIDE DEF v
  <2> QED
    BY <2>1, <2>3, <2>4, <1>5, Zenon
<1> QED
  BY <1>6, <1>7, <1>8, <1>9, <1>10, <1>11, Zenon DEF Reply

LEMMA PrepareIds ==
  ASSUME IInv, Prepare PROVE \A n \in Notes : IdStays(n)
<1>1. PICK m : m = note
  BY Zenon
<1>2. m \in Notes /\ sub[m].status \in {"None", "Expired"}
  BY <1>1, Zenon DEF Prepare, PrepareSigned, PrepareHeld, PrepareLimit, PrepareFails, Preparing,
     IInv,
              ControlOK, AnswersAreRecordable, Eligible
<1>3. /\ sub \in [Notes -> SavedSubmission] /\ signed \in [Notes -> Nat]
  BY TypeParts, Zenon DEF IInv, StoreTypeOK
<1>4. CASE UNCHANGED sub
  BY <1>4, ZenonT(30) DEF IdStays
<1>5. CASE SaveSubmission(m)
  <2>1. /\ sub'[m].auth = signed[m] + 1 /\ signed'[m] = signed[m] + 1
        /\ \A n \in Notes \ {m} : sub'[n] = sub[n]
    BY <1>2, <1>3, <1>5, ZenonT(30) DEF SaveSubmission, NewSubmission
  <2>2. sub[m].id # 0 => sub[m].status = "Expired" /\ sub[m].auth = signed[m]
    <3>1. RowOK(sub[m], hold[m], signed[m], circle[m], faults)
      BY <1>2, Zenon DEF IInv, Row
    <3> QED
      BY <1>2, <3>1 DEF RowOK, NoSubmission
  <2>3. signed[m] \in Nat
    BY <1>2, <1>3
  <2> QED
    BY <2>1, <2>2, <2>3 DEF IdStays
<1> QED
  BY <1>1, <1>4, <1>5 DEF Prepare, PrepareSigned, PrepareHeld, HoldBurn, PrepareLimit,
     RecordLimitRejection, PrepareFails, storeVars

LEMMA ReleaseIds ==
  ASSUME IInv, NEW S \in SUBSET Notes, \A n \in S : OnHold(n), ReleaseHold(S)
  PROVE  \A n \in Notes : IdStays(n)
<1>1. \A n \in Notes : sub'[n] = sub[n] \/ (n \in S /\ ~HeldBurn(n))
  BY DEF ReleaseHold
<1>2. \A n \in S : ~HeldBurn(n) => sub[n].id = 0
  BY DEF OnHold, HeldWithdrawal
<1> QED
  BY <1>1, <1>2, ZenonT(30) DEF IdStays

\* A known Circle ID leaves its row only with an expired request, for a newly signed one
\* (update_submission_outcome, save_submission).
THEOREM IdsAreKept == Spec => IdKept
<1>1. IInv /\ [Next]_vars => [\A n \in Notes : IdStays(n)]_vars
  <2> SUFFICES ASSUME IInv, Next PROVE \A n \in Notes : IdStays(n)
    OBVIOUS
  <2>1. CASE UNCHANGED sub
    BY <2>1, Zenon DEF IdStays
  <2>2. CASE AdminRelease
    <3>1. {cmd.note} \in SUBSET Notes /\ (\A n \in {cmd.note} : OnHold(n)) /\ ReleaseHold({cmd.note})
      BY <2>2 DEF AdminRelease, IInv, TypeOK
    <3> QED
      BY <3>1, ReleaseIds, Zenon
  <2>3. ASSUME NEW S \in SUBSET Notes, OfflineRelease(S) PROVE \A n \in Notes : IdStays(n)
    BY <2>3, ReleaseIds DEF OfflineRelease
  <2>4. CASE Attester \/ Exit \/ CycleFails \/ Circle \/ \E n \in Notes : RetryDue(n) \/ BurnFound(n)
    <3>1. UNCHANGED sub
      BY <2>4, Zenon DEF Attester, Start, StartCycle, TakeSnapshot, PhaseEnds, PickBurn, PickSaved,
         Send, storeVars,
         Exit, CycleFails, Circle, CircleAccepts, CircleMisses, CircleFinalizes, CircleGivesUp,
         RetryDue, BurnFound
    <3> QED
      BY <2>1, <3>1, Zenon
  <2> QED
    BY <2>1, <2>2, <2>3, <2>4, PrepareIds, ReplyIds, Zenon DEF Next, Operator, OperatorSelects,
       storeVars
<1> QED
  BY <1>1, Invariance, PTL DEF Spec, IdKept, IdStays

-----------------------------------------------------------------------------
(* The cycle implements the payout promise *)

\* What one step may do to an authorization at Circle.
Moves == {<<"none", "wire">>, <<"wire", "live">>, <<"wire", "none">>, <<"live", "finalized">>,
          <<"live", "expired">>, <<"live", "failed">>}

Moved(n, a, v) ==
  circle' = [circle EXCEPT ![n][a] = v] /\ <<circle[n][a], v>> \in Moves

INSTANCE FiniteSetTheorems

\* Counting over Circle's record of one burn, of which one authorization at most is at Circle.
CountOf(c, states) == Cardinality({a \in Auths : c[a] \in states})

LEMMA CountNone ==
  ASSUME NEW c, NEW states, \A a \in Auths : c[a] \notin states
  PROVE  CountOf(c, states) = 0
<1>1. {a \in Auths : c[a] \in states} = {}
  OBVIOUS
<1> QED
  BY <1>1, FS_EmptySet DEF CountOf

LEMMA CountOne ==
  ASSUME NEW c, NEW states, NEW g \in Auths, c[g] \in states,
         \A a \in Auths \ {g} : c[a] \notin states
  PROVE  CountOf(c, states) = 1
<1>1. {a \in Auths : c[a] \in states} = {g}
  OBVIOUS
<1> QED
  BY <1>1, FS_Singleton DEF CountOf

\* The counts of a record whose authorization g alone may be at Circle.
LEMMA CountsAt ==
  ASSUME NEW c \in [Auths -> CircleStates], NEW g \in Auths,
         \A a \in Auths \ {g} : c[a] \notin AtCircle
  PROVE  /\ CountOf(c, {"wire", "live"}) = IF c[g] \in {"wire", "live"} THEN 1 ELSE 0
         /\ CountOf(c, {"finalized"}) = IF c[g] = "finalized" THEN 1 ELSE 0
         /\ CountOf(c, {"failed"}) = IF c[g] = "failed" THEN 1 ELSE 0
<1>1. \A a \in Auths \ {g} : c[a] \notin {"wire", "live"} /\ c[a] \notin {"finalized"}
                             /\ c[a] \notin {"failed"}
  BY Zenon DEF AtCircle
<1>2. CountOf(c, {"wire", "live"}) = IF c[g] \in {"wire", "live"} THEN 1 ELSE 0
  BY <1>1, CountNone, CountOne, Zenon
<1>3. CountOf(c, {"finalized"}) = IF c[g] = "finalized" THEN 1 ELSE 0
  BY <1>1, CountNone, CountOne, Zenon
<1>4. CountOf(c, {"failed"}) = IF c[g] = "failed" THEN 1 ELSE 0
  BY <1>1, CountNone, CountOne, Zenon
<1> QED
  BY <1>2, <1>3, <1>4

Open == [n \in Notes |-> CountAt(n, {"wire", "live"})]
Paid == [n \in Notes |-> CountAt(n, {"finalized"})]
Fails == [n \in Notes |-> CountAt(n, {"failed"})]

\* A move of the one authorization of a burn is a step of the promise.
LEMMA MovePromised ==
  ASSUME IInv, NEW n \in Notes, NEW g \in Auths, NEW v, Moved(n, g, v),
         \A a \in Auths \ {g} : circle[n][a] \notin AtCircle
  PROVE  [Payout!Next]_(Payout!vars)
<1>1. circle \in [Notes -> [Auths -> CircleStates]]
  BY DEF IInv, TypeOK
<1>2. v \in CircleStates
  BY Zenon DEF Moved, Moves, CircleStates
<1>3. circle' \in [Notes -> [Auths -> CircleStates]]
  BY <1>1, <1>2, Zenon DEF Moved
<1>4. /\ circle'[n][g] = v /\ \A a \in Auths \ {g} : circle'[n][a] = circle[n][a]
      /\ \A m \in Notes \ {n} : circle'[m] = circle[m]
  BY <1>1, Zenon DEF Moved
<1>5. circle[n] \in [Auths -> CircleStates] /\ circle'[n] \in [Auths -> CircleStates]
  BY <1>1, <1>3, Zenon
<1>6. /\ CountOf(circle[n], {"wire", "live"}) = IF circle[n][g] \in {"wire", "live"} THEN 1 ELSE 0
      /\ CountOf(circle[n], {"finalized"}) = IF circle[n][g] = "finalized" THEN 1 ELSE 0
      /\ CountOf(circle[n], {"failed"}) = IF circle[n][g] = "failed" THEN 1 ELSE 0
  BY <1>5, CountsAt, Zenon
<1>7. /\ CountOf(circle'[n], {"wire", "live"}) = IF v \in {"wire", "live"} THEN 1 ELSE 0
      /\ CountOf(circle'[n], {"finalized"}) = IF v = "finalized" THEN 1 ELSE 0
      /\ CountOf(circle'[n], {"failed"}) = IF v = "failed" THEN 1 ELSE 0
  <2>1. \A a \in Auths \ {g} : circle'[n][a] \notin AtCircle
    BY <1>4, Zenon
  <2> QED
    BY <2>1, <1>4, <1>5, CountsAt, ZenonT(30)
<1>8. /\ Open = [m \in Notes |-> CountOf(circle[m], {"wire", "live"})]
      /\ Paid = [m \in Notes |-> CountOf(circle[m], {"finalized"})]
      /\ Fails = [m \in Notes |-> CountOf(circle[m], {"failed"})]
      /\ Open' = [m \in Notes |-> CountOf(circle'[m], {"wire", "live"})]
      /\ Paid' = [m \in Notes |-> CountOf(circle'[m], {"finalized"})]
      /\ Fails' = [m \in Notes |-> CountOf(circle'[m], {"failed"})]
  BY Zenon DEF Open, Paid, Fails, CountAt, CountOf
<1>9. /\ Open' = [Open EXCEPT ![n] = CountOf(circle'[n], {"wire", "live"})]
      /\ Paid' = [Paid EXCEPT ![n] = CountOf(circle'[n], {"finalized"})]
      /\ Fails' = [Fails EXCEPT ![n] = CountOf(circle'[n], {"failed"})]
  BY <1>4, <1>8, ZenonT(30)
<1>10. /\ Open[n] = CountOf(circle[n], {"wire", "live"})
       /\ Paid[n] = CountOf(circle[n], {"finalized"})
       /\ Fails[n] = CountOf(circle[n], {"failed"})
  BY <1>8
<1>11. /\ CountOf(circle'[n], {"wire", "live"}) = Open[n] => Open' = Open
       /\ CountOf(circle'[n], {"finalized"}) = Paid[n] => Paid' = Paid
       /\ CountOf(circle'[n], {"failed"}) = Fails[n] => Fails' = Fails
  <2>1. CountOf(circle'[n], {"wire", "live"}) = Open[n] => Open' = Open
    BY <1>8, <1>9
  <2>2. CountOf(circle'[n], {"finalized"}) = Paid[n] => Paid' = Paid
    BY <1>8, <1>9, Zenon
  <2>3. CountOf(circle'[n], {"failed"}) = Fails[n] => Fails' = Fails
    BY <1>8, <1>9, Zenon
  <2> QED
    BY <2>1, <2>2, <2>3
<1>12. CASE circle[n][g] = "none" /\ v = "wire"
  <2>1. Open[n] = 0 /\ Paid[n] = 0 /\ Fails[n] = 0
    BY <1>6, <1>10, <1>12, ZenonT(30)
  <2>2. Open' = [Open EXCEPT ![n] = 1] /\ Paid' = Paid /\ Fails' = Fails
    <3>1. CountOf(circle'[n], {"wire", "live"}) = 1
      BY <1>7, <1>12
    <3>2. CountOf(circle'[n], {"finalized"}) = Paid[n] /\ CountOf(circle'[n], {"failed"}) = Fails[n]
      BY <1>6, <1>7, <1>10, <1>12
    <3> QED
      BY <1>9, <1>11, <3>1, <3>2, ZenonT(30)
  <2>3. Payout!Authorize(n)
    BY <2>1, <2>2, Zenon DEF Payout!Authorize, Open, Paid, Fails
  <2> QED
    BY <2>3, Zenon DEF Payout!Next
<1>13. CASE circle[n][g] = "wire" /\ v = "live"
  <2>1. Open' = Open /\ Paid' = Paid /\ Fails' = Fails
    <3>1. CountOf(circle'[n], {"wire", "live"}) = Open[n]
      BY <1>6, <1>7, <1>10, <1>13, Zenon
    <3>2. CountOf(circle'[n], {"finalized"}) = Paid[n] /\ CountOf(circle'[n], {"failed"}) = Fails[n]
      BY <1>6, <1>7, <1>10, <1>13, Zenon
    <3> QED
      BY <1>11, <3>1, <3>2, Zenon
  <2> QED
    BY <2>1, Zenon DEF Payout!vars, Open, Paid, Fails
<1>14. CASE (circle[n][g] = "wire" /\ v = "none") \/ (circle[n][g] = "live" /\ v = "expired")
  <2>1. Open[n] = 1
    BY <1>6, <1>10, <1>14, Zenon
  <2>2. Open' = [Open EXCEPT ![n] = 0] /\ Paid' = Paid /\ Fails' = Fails
    <3>1. CountOf(circle'[n], {"wire", "live"}) = 0
      BY <1>7, <1>14
    <3>2. CountOf(circle'[n], {"finalized"}) = Paid[n] /\ CountOf(circle'[n], {"failed"}) = Fails[n]
      BY <1>6, <1>7, <1>10, <1>14, Zenon
    <3> QED
      BY <1>9, <1>11, <3>1, <3>2, ZenonT(30)
  <2>3. Payout!Lapse(n)
    BY <2>1, <2>2, Zenon DEF Payout!Lapse, Open, Paid, Fails
  <2> QED
    BY <2>3, Zenon DEF Payout!Next
<1>15. CASE circle[n][g] = "live" /\ v = "finalized"
  <2>1. Open[n] = 1 /\ Paid[n] = 0
    BY <1>6, <1>10, <1>15, Zenon
  <2>2. Open' = [Open EXCEPT ![n] = 0] /\ Paid' = [Paid EXCEPT ![n] = Paid[n] + 1] /\ Fails' = Fails
    <3>1. CountOf(circle'[n], {"wire", "live"}) = 0 /\ CountOf(circle'[n], {"finalized"}) = Paid[n] + 1
      <4>1. CountOf(circle'[n], {"wire", "live"}) = 0 /\ CountOf(circle'[n], {"finalized"}) = 1
        BY <1>7, <1>15, ZenonT(30)
      <4> QED
        BY <2>1, <4>1
    <3>2. CountOf(circle'[n], {"failed"}) = Fails[n]
      BY <1>6, <1>7, <1>10, <1>15
    <3>3. Fails' = Fails
      BY <1>11, <3>2, ZenonT(30)
    <3> QED
      BY <1>9, <3>1, <3>3, ZenonT(30)
  <2>3. Payout!Pay(n)
    BY <2>1, <2>2 DEF Payout!Pay, Open, Paid, Fails
  <2> QED
    BY <2>3, Zenon DEF Payout!Next
<1>16. CASE circle[n][g] = "live" /\ v = "failed"
  <2>1. Open[n] = 1 /\ Fails[n] = 0
    BY <1>6, <1>10, <1>16, ZenonT(30)
  <2>2. Open' = [Open EXCEPT ![n] = 0] /\ Fails' = [Fails EXCEPT ![n] = Fails[n] + 1] /\ Paid' = Paid
    <3>1. CountOf(circle'[n], {"wire", "live"}) = 0 /\ CountOf(circle'[n], {"failed"}) = Fails[n] + 1
      <4>1. CountOf(circle'[n], {"wire", "live"}) = 0 /\ CountOf(circle'[n], {"failed"}) = 1
        BY <1>7, <1>16, ZenonT(30)
      <4> QED
        BY <2>1, <4>1
    <3>2. CountOf(circle'[n], {"finalized"}) = Paid[n]
      BY <1>6, <1>7, <1>10, <1>16
    <3>3. Paid' = Paid
      BY <1>11, <3>2, Zenon
    <3> QED
      BY <1>9, <3>1, <3>3, ZenonT(30)
  <2>3. Payout!Fail(n)
    BY <2>1, <2>2, Zenon DEF Payout!Fail, Open, Paid, Fails
  <2> QED
    BY <2>3, Zenon DEF Payout!Next
<1> QED
  BY <1>12, <1>13, <1>14, <1>15, <1>16, ZenonT(30) DEF Moved, Moves

LEMMA OthersAreNot ==
  ASSUME IInv, NEW n \in Notes, NEW g \in Auths,
         circle[n][g] \in AtCircle \/ g = sub[n].auth
  PROVE  \A a \in Auths \ {g} : circle[n][a] \notin AtCircle
<1>1. \A a \in Auths : circle[n][a] \in AtCircle => sub[n].auth = a
  BY DEF IInv, Row, RowOK
<1> QED
  BY <1>1, ZenonT(30)

\* The answer to a request leaves Circle's record as it is, or shows that it was taken.
LEMMA TakenMoves ==
  ASSUME IInv, NEW n \in Notes, NEW g \in Auths,
         circle' = [circle EXCEPT ![n][g] = Taken(circle[n][g])]
  PROVE  circle' = circle \/ Moved(n, g, "live")
<1>1. circle \in [Notes -> [Auths -> CircleStates]]
  BY DEF IInv, TypeOK
<1>2. CASE circle[n][g] = "wire"
  BY <1>2, Zenon DEF Moved, Moves, Taken
<1>3. CASE circle[n][g] # "wire"
  BY <1>1, <1>3, Zenon DEF Taken
<1> QED
  BY <1>2, <1>3, ZenonT(30)

LEMMA ReplyMoves ==
  ASSUME IInv, Reply
  PROVE  circle' = circle \/ \E n \in Notes, g \in Auths, v \in CircleStates :
                               Moved(n, g, v) /\ g = sub[n].auth
<1>1. Replying /\ step = "Reply"
  BY Zenon DEF Reply, ReplyStatus, ReplyUnknownStatus, ReplyConflict, ReplyLimit, ReplyRejected,
         ReplyUnclear, Replying
<1>2. PICK n, g : n = note /\ g = signed[note]
  BY Zenon
<1>3. /\ n \in Notes /\ g \in Auths /\ g = saved.auth /\ g = sub[n].auth
      /\ (IF saved.id = 0 THEN saved.auth ELSE saved.id) = g
  BY <1>1, <1>2, HandFacts, ZenonT(30) DEF IInv, AnswersAreRecordable
<1>4. CASE ReplyStatus \/ ReplyUnknownStatus
  <2>1. circle' = [circle EXCEPT ![n][g] = Taken(circle[n][g])]
    BY Zenon, <1>2, <1>3, <1>4 DEF ReplyStatus, ReplyUnknownStatus
  <2>2. circle' = circle \/ Moved(n, g, "live")
    BY <1>3, <2>1, TakenMoves, ZenonT(30)
  <2> QED
    BY <1>3, <2>2 DEF CircleStates
<1>5. CASE ReplyLimit \/ ReplyRejected
  <2>1. circle' = circle \/ Moved(n, g, "none")
    BY <1>2, <1>3, <1>5 DEF ReplyLimit, ReplyRejected, CircleRejects, Moved, Moves
  <2> QED
    BY <1>3, <2>1 DEF CircleStates
<1>6. CASE (\E id \in Auths : ReplyConflict(id))
           \/ \E o \in {"lost", "unexpected", "rate_limited"} : ReplyUnclear(o)
  BY <1>6, Zenon DEF ReplyConflict, ReplyUnclear
<1> QED
  BY <1>4, <1>5, <1>6, ZenonT(30) DEF Reply

LEMMA CircleStep ==
  ASSUME IInv, Next
  PROVE  circle' = circle \/ \E n \in Notes, g \in Auths, v \in CircleStates :
           Moved(n, g, v) /\ (circle[n][g] \in AtCircle \/ g = sub[n].auth)
<1>1. CASE Send
  <2>1. PICK n, g : n = note /\ g = signed[note]
    BY Zenon
  <2>2. n \in Notes /\ g \in Auths /\ g = saved.auth /\ g = sub[n].auth
    BY <1>1, <2>1, HandFacts, ZenonT(30) DEF Send, IInv, AnswersAreRecordable
  <2>3. circle' = circle \/ Moved(n, g, "wire")
    BY <1>1, <2>1, <2>2, Zenon DEF Send, Moved, Moves
  <2> QED
    BY <2>2, <2>3, Zenon DEF CircleStates
<1>2. CASE Reply
  BY <1>2, ReplyMoves, Zenon
<1>3. ASSUME NEW n \in Notes, NEW a \in Auths, CircleAccepts(n, a) \/ CircleMisses(n, a)
        \/ CircleFinalizes(n, a) \/ \E end \in {"expired", "failed"} : CircleGivesUp(n, a, end)
      PROVE  \E v \in CircleStates : Moved(n, a, v) /\ circle[n][a] \in AtCircle
  <2>1. CASE CircleAccepts(n, a)
    BY <2>1 DEF CircleAccepts, Moved, Moves, AtCircle, CircleStates
  <2>2. CASE CircleMisses(n, a)
    BY <2>2, Zenon DEF CircleMisses, Moved, Moves, AtCircle, CircleStates
  <2>3. CASE CircleFinalizes(n, a)
    BY <2>3 DEF CircleFinalizes, Moved, Moves, AtCircle, CircleStates
  <2>4. ASSUME NEW end \in {"expired", "failed"}, CircleGivesUp(n, a, end)
        PROVE  Moved(n, a, end) /\ circle[n][a] \in AtCircle /\ end \in CircleStates
    BY <2>4, Zenon DEF CircleGivesUp, Moved, Moves, AtCircle, CircleStates
  <2> QED
    BY <1>3, <2>1, <2>2, <2>3, <2>4, ZenonT(30)
<1>4. CASE Circle
  BY <1>3, <1>4, Zenon DEF Circle
<1>5. CASE UNCHANGED circle
  BY <1>5, Zenon
<1>6. CASE Attester /\ ~Send
  BY <1>6, ZenonT(30) DEF Attester, Start, StartCycle, TakeSnapshot, PhaseEnds, PickBurn, PickSaved
<1>7. CASE Exit \/ CycleFails \/ Prepare \/ Operator
           \/ \E n \in Notes : RetryDue(n) \/ BurnFound(n)
  BY <1>7 DEF Exit, CycleFails, Prepare, PrepareSigned, PrepareHeld, PrepareLimit, PrepareFails,
     Operator, OperatorSelects, AdminRelease, OfflineRelease, RetryDue, BurnFound
<1> QED
  BY <1>1, <1>2, <1>4, <1>6, <1>7, ZenonT(30) DEF Next

\* The cycle, with its crashes, retries, limit waits and releases, puts a burn to Circle once at
\* a time and never again once it was paid or failed (BurnPayout).
THEOREM KeepsThePayoutPromise == Spec => ImplementsPayout
<1>1. Init => Payout!Init
  <2> SUFFICES ASSUME Init PROVE Payout!Init
    BY Zenon
  <2>1. ASSUME NEW n \in Notes, NEW states, "none" \notin states PROVE CountAt(n, states) = 0
    <3>1. circle[n] = [a \in Auths |-> "none"]
      BY Zenon DEF Init
    <3>2. CountOf(circle[n], states) = 0
      BY <2>1, <3>1, CountNone
    <3> QED
      BY <3>2, Zenon DEF CountAt, CountOf
  <2> QED
    BY <2>1 DEF Payout!Init
<1>2. IInv /\ [Next]_vars => [Payout!Next]_(Payout!vars)
  <2> SUFFICES ASSUME IInv, [Next]_vars PROVE [Payout!Next]_(Payout!vars)
    BY Zenon
  <2>1. CASE circle' = circle
    BY <2>1, Zenon DEF Payout!vars, CountAt
  <2>2. ASSUME NEW n \in Notes, NEW g \in Auths, NEW v \in CircleStates, Moved(n, g, v),
               circle[n][g] \in AtCircle \/ g = sub[n].auth
        PROVE  [Payout!Next]_(Payout!vars)
    BY <2>2, OthersAreNot, MovePromised, Zenon
  <2>3. CASE Next
    BY <2>1, <2>2, <2>3, CircleStep, Zenon
  <2>4. CASE UNCHANGED vars
    BY <2>1, <2>4 DEF vars
  <2> QED
    BY <2>3, <2>4, Zenon
<1> QED
  BY <1>1, <1>2, Invariance, PTL DEF Spec, ImplementsPayout, Payout!Spec

=============================================================================
