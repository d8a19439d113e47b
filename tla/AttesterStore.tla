---------------------------- MODULE AttesterStore ----------------------------
(***************************************************************************)
(* The light attester's SQLite store (xusdc-light-attester/src/store.rs):  *)
(* the rows kept for every consumed burn, and one operator per store       *)
(* transaction.  A transaction is atomic: it commits whole or leaves the   *)
(* store as it was, so each operator describes the primed store variables  *)
(* of one commit and the condition under which the code refuses it.        *)
(*                                                                         *)
(* Abstractions.  A signed request (endpoint, body, transfer spec hash) is *)
(* the number of the authorization it carries: 1 for the first request     *)
(* signed for a burn, 2 for the next one.  Circle's withdrawal ID is the   *)
(* number of the authorization Circle assigned it to.  The columns         *)
(* last_http_status, last_response and last_error together with the        *)
(* reported Circle status are one word, the outcome.  The history table is *)
(* kept per note as its latest sequence number; sequence numbers of        *)
(* different notes are never compared.  A saved retry time is either still *)
(* to come ("Later") or reached ("Due").                                   *)
(***************************************************************************)
EXTENDS Integers

CONSTANTS Notes,     \* note IDs, as numbers in the order of their stored bytes
          Created    \* the creation block of each note

ASSUME NotesAssumption == Notes \subseteq Nat \ {0} /\ Created \in [Notes -> Nat]

VARIABLES known,     \* notes of the burns table with a consumption block
          hold,      \* burns.hold_reason
          limit,     \* burns.withdrawal_limit_retry_at
          sub,       \* the submissions row of a note, NoSubmission without one
          signed,    \* how many AUTHORIZED events a note has
          rev        \* the latest submission_events.seq of a note, 0 without one

storeVars == <<known, hold, limit, sub, signed, rev>>

Statuses == {"None", "Submitting", "Submitted", "Finalized", "Expired", "Failed", "Held"}

BurnHoldReasons == {"None", "PrepareRejected", "TooSmallToForward"}

Retries == {"None", "Later", "Due"}

Outcomes == {"None", "lost", "unexpected", "rate_limited", "conflict", "rejected",
             "unknown_status", "live", "finalized", "expired", "failed"}

SavedSubmission == [auth : Nat, status : Statuses, id : Nat, outcome : Outcomes]

NoSubmission == [auth |-> 0, status |-> "None", id |-> 0, outcome |-> "None"]

StoreTypeOK ==
  /\ known \subseteq Notes
  /\ hold \in [Notes -> BurnHoldReasons]
  /\ limit \in [Notes -> Retries]
  /\ sub \in [Notes -> SavedSubmission]
  /\ signed \in [Notes -> Nat]
  /\ rev \in [Notes -> Nat]

StoreInit ==
  /\ known = {}
  /\ hold = [n \in Notes |-> "None"]
  /\ limit = [n \in Notes |-> "None"]
  /\ sub = [n \in Notes |-> NoSubmission]
  /\ signed = [n \in Notes |-> 0]
  /\ rev = [n \in Notes |-> 0]

-----------------------------------------------------------------------------
(* Reads *)

\* The order burns are withdrawn in: creation block, then note ID.
Before(m, n) ==
  \/ Created[m] < Created[n]
  \/ Created[m] = Created[n] /\ m < n

Waiting == {n \in Notes : limit[n] # "None"}

\* Fresh work: consumed, not held, and no submission other than an expired one.
Eligible == {n \in known : hold[n] = "None" /\ sub[n].status \in {"None", "Expired"}}

WithStatus(status) == {n \in Notes : sub[n].status = status}

HeldBurn(n) == hold[n] # "None"

\* Mutant: a release looks at the missing Circle ID only.
HeldWithdrawalAnyStatus(n) == sub[n].status # "None" /\ sub[n].id = 0

\* A held withdrawal an operator may release: rejected over HTTP, no Circle ID.
HeldWithdrawal(n) == sub[n].status = "Held" /\ sub[n].id = 0

\* The checks of an existing store that its own history could break.
ValidateStore ==
  /\ \A n \in Waiting : /\ n \in known
                        /\ hold[n] = "None"
                        /\ sub[n].status \in {"None", "Submitting", "Expired"}
  /\ \A n \in Notes : sub[n].status # "None" => n \in known
  /\ \A n \in Notes :
       sub[n].status \in {"Submitted", "Finalized", "Expired", "Failed"} => sub[n].id # 0

-----------------------------------------------------------------------------
(* Transactions *)

\* A note's history grows by one row.
RecordEvent(n) == rev' = [rev EXCEPT ![n] = @ + 1]

\* Only a confirmed expired withdrawal may be replaced by a fresh request.
CanSave(n) ==
  \/ sub[n].status = "None"
  \/ sub[n].status = "Expired" /\ sub[n].id # 0

\* The row a newly signed request is saved as.
NewSubmission(n) ==
  [auth |-> signed[n] + 1, status |-> "Submitting", id |-> 0, outcome |-> "None"]

SaveSubmission(n) ==
  /\ sub' = [sub EXCEPT ![n] = NewSubmission(n)]
  /\ signed' = [signed EXCEPT ![n] = @ + 1]
  /\ RecordEvent(n)
  /\ UNCHANGED <<known, hold, limit>>

\* The outcome repeats the latest one recorded since the authorization.
RepeatsLatestOutcome(n, saved) == sub[n] = [saved EXCEPT !.auth = sub[n].auth]

\* Statuses that end a note's wait for the withdrawal limit.
EndsLimitWait == {"Submitted", "Finalized", "Failed", "Held"}

\* The row is found by note ID alone; its request is left as it is.
UpdateSubmissionOutcome(n, saved) ==
  /\ sub' = [sub EXCEPT ![n] = [saved EXCEPT !.auth = sub[n].auth]]
  /\ limit' = IF saved.status \in EndsLimitWait THEN [limit EXCEPT ![n] = "None"] ELSE limit
  /\ IF RepeatsLatestOutcome(n, saved) THEN rev' = rev ELSE RecordEvent(n)
  /\ UNCHANGED <<known, hold, signed>>

\* Mutant: a held burn keeps its retry time.
HoldBurnKeepingRetry(n, reason) ==
  /\ hold' = [hold EXCEPT ![n] = reason]
  /\ RecordEvent(n)
  /\ UNCHANGED <<known, limit, sub, signed>>

HoldBurn(n, reason) ==
  /\ hold' = [hold EXCEPT ![n] = reason]
  /\ limit' = [limit EXCEPT ![n] = "None"]
  /\ RecordEvent(n)
  /\ UNCHANGED <<known, sub, signed>>

\* A due retry is moved on before the attempt it allows.
AdvanceLimitRetry(n) ==
  limit' = IF limit[n] = "Due" THEN [limit EXCEPT ![n] = "Later"] ELSE limit

\* What the rejected attempt was: a prepare, a request's first send or a resend.
Attempts == {"Prepare", "First", "Recovery"}

CanRecordLimitRejection(n, attempt, saved) ==
  /\ n \in known
  /\ hold[n] = "None"
  /\ attempt # "Prepare" => sub[n].status = "Submitting" /\ sub[n].id = 0
                            /\ sub[n].auth = saved.auth

\* Mutant: the rejection of a resend deletes the request too.
RecordLimitRejectionOfAny(n, attempt) ==
  /\ limit' = [limit EXCEPT ![n] = "Later"]
  /\ sub' = IF attempt # "Prepare" THEN [sub EXCEPT ![n] = NoSubmission] ELSE sub
  /\ RecordEvent(n)
  /\ UNCHANGED <<known, hold, signed>>

RecordLimitRejection(n, attempt) ==
  /\ limit' = [limit EXCEPT ![n] = "Later"]
  /\ sub' = IF attempt = "First" THEN [sub EXCEPT ![n] = NoSubmission] ELSE sub
  /\ RecordEvent(n)
  /\ UNCHANGED <<known, hold, signed>>

\* A held burn is released before a held withdrawal; the latter's request is deleted.
ReleaseHold(S) ==
  /\ hold' = [n \in Notes |-> IF n \in S THEN "None" ELSE hold[n]]
  /\ sub' = [n \in Notes |-> IF n \in S /\ ~HeldBurn(n) THEN NoSubmission ELSE sub[n]]
  /\ rev' = [n \in Notes |-> IF n \in S THEN rev[n] + 1 ELSE rev[n]]
  /\ UNCHANGED <<known, limit, signed>>

=============================================================================
