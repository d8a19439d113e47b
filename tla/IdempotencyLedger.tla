-------------------------- MODULE IdempotencyLedger ---------------------------
(***************************************************************************)
(* The earlier attester's submission ledger                                *)
(* (withdrawal-listener-attester: idempotency/record.rs,                   *)
(* idempotency/store.rs): one SQLite row per burn, the edges its status    *)
(* may take, the claim that decides whether a burn is submitted, and the   *)
(* recorders.  Every operation is one immediate transaction, so each is    *)
(* one step on the ledger, and a claim covers a whole request.             *)
(***************************************************************************)
EXTENDS Naturals, Sequences

CONSTANTS Burns,          \* burn keys
          WithdrawalIds,  \* Circle's withdrawal ids
          NoId            \* withdrawal_id is NULL

ASSUME NoIdAssumption == NoId \notin WithdrawalIds

VARIABLE ledger           \* the rows, "none" where a burn has no row

SubmissionStatus ==
  {"pending", "submitted", "finalized", "reconciliation_required", "failed"}

SubmissionRecord ==
  [status : SubmissionStatus \cup {"none"}, id : WithdrawalIds \cup {NoId}]

NoRecord == [status |-> "none", id |-> NoId]

LedgerTypeOK == ledger \in [Burns -> SubmissionRecord]

\* A burn id is compared as hex: its key is the lowercase form of any spelling.
BurnKey(tx) == tx.burn

blocks_resubmission(s) == s \notin {"none", "failed"}

can_transition_to(from, to) ==
  <<from, to>> \in
    ({"pending"} \X {"submitted", "reconciliation_required", "failed", "finalized"})
      \cup ({"submitted"} \X {"finalized", "reconciliation_required"})
      \cup {<<"failed", "pending">>}

\* A write without a withdrawal id keeps the one on record.
apply_transition(row, to, id) ==
  [status |-> to, id |-> IF id = NoId THEN row.id ELSE id]

Claimable(keys) == \A k \in keys : ~blocks_resubmission(ledger[k].status)

\* claim_burns that answers Claimed: all the rows, or none of them.
claim_burns(keys) ==
  /\ Claimable(keys)
  /\ ledger' = [k \in Burns |-> IF k \in keys
                                THEN apply_transition(ledger[k], "pending", NoId)
                                ELSE ledger[k]]

\* The edge check every recorder runs inside its transaction.
Recordable(k, to) ==
  ledger[k].status # "none" /\ can_transition_to(ledger[k].status, to)

record_transition(k, to, id) ==
  /\ Recordable(k, to)
  /\ ledger' = [ledger EXCEPT ![k] = apply_transition(@, to, id)]

LedgerInit == ledger = [k \in Burns |-> NoRecord]

=============================================================================
