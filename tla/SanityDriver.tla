----------------------------- MODULE SanityDriver -----------------------------
(***************************************************************************)
(* What the sanity gate's checks stand on (driver.rs, mintburn.rs): the    *)
(* faucet account, the notes addressed to it, and the driver that emits a  *)
(* note and polls until the node's transaction builder has consumed it.    *)
(* An emitted note that the faucet refuses stays, and one that was given   *)
(* up may still be consumed at any later time.                             *)
(***************************************************************************)
EXTENDS Integers, FiniteSets, FiniteSetsExt, Sequences, SequencesExt

CONSTANTS BURN_UNITS, MINT_ROUND_UNITS, MINT_NONROUND_UNITS

RAISED_MIN_BURN == BURN_UNITS + 1
LOWERED_MIN_BURN == 1

ASSUME UnitsAssumption ==
  /\ BURN_UNITS > LOWERED_MIN_BURN
  /\ MINT_ROUND_UNITS > BURN_UNITS /\ MINT_NONROUND_UNITS > BURN_UNITS

VARIABLES faucet,   \* the node's committed view of the faucet
          flight,   \* notes on chain that the faucet has not consumed
          paid,     \* recipients and amounts of the payment notes minted and not collected
          sent,     \* notes submitted so far: their serial numbers
          wait,     \* the note whose effect is being polled for
          before    \* token_supply as it was read before that note

driver_vars == <<faucet, flight, paid, sent, wait, before>>

\* Who signed or is meant by a note stands in "who", a mint's recipient in "by"; its nonce is the
\* base vector's with the salt in one byte, the same in every run.
Note(op, by, who, amount, salt) ==
  [op |-> op, by |-> by, who |-> who, amount |-> amount, salt |-> salt, id |-> 0]

NoNote == Note("none", "none", "none", 0, "none")

mint_note_for(attester, recipient, amount, salt) == Note("mint", recipient, attester, amount, salt)
burn_note(amount) == Note("burn", "holder", "none", amount, "none")
set_attester(enabled) ==
  Note(IF enabled THEN "enable" ELSE "disable", "owner", "mint", 0, "none")
min_burn_config_note(amount) == Note("min_burn", "owner", "none", amount, "none")
max_supply_config_note(amount) == Note("max_supply", "owner", "none", amount, "none")
transfer_ownership(from, to) == Note("transfer", from, to, 0, "none")
accept_ownership(by) == Note("accept", by, "none", 0, "none")

PolicyOps == {"pause", "unpause", "enable", "disable", "min_burn", "max_supply",
              "transfer", "accept"}

\* A check's steps: what is done with a note, and the row and the rejection that are expected.
Step(kind, note, row, expect) == [do |-> kind, note |-> note, row |-> row, expect |-> expect]

commit(note, row) == Step("commit", note, row, "none")
probe(note, row, gate) == Step("probe", note, row, gate)

----------------------------------------------------------------------------
(* The faucet. *)

\* The gates a note fails at: it is consumed only where there is none.
Gates(n) ==
  {g \in {"paused", "disallowed", "signature", "replay", "cap", "below_min", "below_supply",
          "role", "not_owner", "not_nominated"} :
     \/ g = "paused" /\ n.op \in {"mint", "burn"} /\ faucet.paused
     \/ g = "disallowed" /\ n.op = "mint" /\ n.who \notin faucet.attesters \cup {"forged"}
     \/ g = "signature" /\ n.op = "mint" /\ n.who = "forged"
     \/ g = "replay" /\ n.op = "mint" /\ n.salt \in faucet.nonces
     \/ g = "cap" /\ n.op = "mint" /\ faucet.supply + n.amount > faucet.max
     \/ g = "below_min" /\ n.op = "burn" /\ n.amount < faucet.min
     \/ g = "below_supply" /\ n.op = "max_supply" /\ n.amount < faucet.supply
     \/ /\ g = "role"
        /\ \/ n.op \in {"enable", "disable", "min_burn", "max_supply"} /\ n.by # "owner"
           \/ n.op \in {"pause", "unpause"} /\ n.by # "pauser"
     \/ g = "not_owner" /\ n.op = "transfer" /\ n.by # faucet.owner
     \/ g = "not_nominated" /\ n.op = "accept" /\ n.by # faucet.nominee}

\* An owner that nominates itself takes the nomination back.
Effect(n) ==
  CASE n.op = "mint" -> [faucet EXCEPT !.supply = @ + n.amount, !.nonces = @ \cup {n.salt}]
    [] n.op = "burn" -> [faucet EXCEPT !.supply = @ - n.amount]
    [] n.op \in {"pause", "unpause"} -> [faucet EXCEPT !.paused = n.op = "pause"]
    [] n.op = "enable" -> [faucet EXCEPT !.attesters = @ \cup {n.who}]
    [] n.op = "disable" -> [faucet EXCEPT !.attesters = @ \ {n.who}]
    [] n.op = "min_burn" -> [faucet EXCEPT !.min = n.amount]
    [] n.op = "max_supply" -> [faucet EXCEPT !.max = n.amount]
    [] n.op = "transfer" -> [faucet EXCEPT !.nominee = IF n.who = faucet.owner THEN "none" ELSE n.who]
    [] n.op = "accept" -> [faucet EXCEPT !.owner = n.by, !.nominee = "none"]

MintNotes == {n \in flight : n.op = "mint"}

NtxBuilder ==
  /\ \E n \in flight : Gates(n) = {} /\ faucet' = Effect(n) /\ flight' = flight \ {n}
                    /\ paid' = paid \cup {<<m.by, m.amount>> : m \in {n} \cap MintNotes}
  /\ UNCHANGED <<sent, wait, before>>

----------------------------------------------------------------------------
(* The driver. *)

Stamped(n) == [n EXCEPT !.id = sent + 1]

emit(n) ==
  /\ wait = NoNote
  /\ sent' = sent + 1 /\ wait' = Stamped(n) /\ before' = faucet.supply
  /\ flight' = flight \cup {Stamped(n)}
  /\ UNCHANGED <<faucet, paid>>

\* The submission fails, or it is discarded or not seen to commit: the note may be on chain.
emit_fails(n) ==
  /\ wait = NoNote
  /\ sent' = sent + 1 /\ flight' \in {flight, flight \cup {Stamped(n)}}
  /\ UNCHANGED <<faucet, paid, wait, before>>

\* What the caller of commit_via_ntx looks for in the account.
ready(n) ==
  CASE n.op = "mint" -> faucet.supply >= before + n.amount
    [] n.op = "burn" -> faucet.supply = Max({0, before - n.amount})
    [] n.op \in {"pause", "unpause"} -> faucet.paused = (n.op = "pause")
    [] n.op \in {"enable", "disable"} -> (n.who \in faucet.attesters) = (n.op = "enable")
    [] n.op = "min_burn" -> faucet.min = n.amount
    [] n.op = "max_supply" -> faucet.max = n.amount

\* The note's nullifier is on chain.
note_spent(n) == n \notin flight

commit_via_ntx == wait.op \notin {"none", "transfer", "accept"} /\ ready(wait)
commit_via_ntx_consumed == wait.op \in {"transfer", "accept"} /\ note_spent(wait)

committed ==
  /\ commit_via_ntx \/ commit_via_ntx_consumed
  /\ wait' = NoNote /\ UNCHANGED <<faucet, flight, paid, sent, before>>

\* A poll fails, or the bounded wait is over.
timed_out ==
  /\ wait # NoNote /\ wait' = NoNote
  /\ UNCHANGED <<faucet, flight, paid, sent, before>>

\* A consumable payment note of exactly the amount; an earlier one will do.
wait_for_target_note(target, amount) == <<target, amount>> \in paid

target_consume(target, amount) ==
  /\ wait = NoNote /\ wait_for_target_note(target, amount)
  /\ paid' = paid \ {<<target, amount>>}
  /\ UNCHANGED <<faucet, flight, sent, wait, before>>

\* The outcome of consuming a note in a local execution that is not submitted.
Verdicts(n) == IF Gates(n) = {} THEN {"accepted"} ELSE Gates(n)

=============================================================================
