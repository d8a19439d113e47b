--------------------------- MODULE DepositCourier ----------------------------
(***************************************************************************)
(* What the relayer promises about the deposits Circle attests, whatever   *)
(* happens to pages, transactions and the process: a deposit counts as     *)
(* handled only once its mint note is on chain, so that forgetting how far *)
(* it got costs work and never a deposit.  The faucet mints each once.     *)
(***************************************************************************)
EXTENDS Naturals

CONSTANT Entries

VARIABLES deposits,    \* attested deposits, numbered in the order of the feed
          delivered,   \* deposits with a mint note on chain
          minted,      \* deposits the faucet minted
          handled      \* every deposit up to this one needs no further work

vars == <<deposits, delivered, minted, handled>>

Init == deposits = {} /\ delivered = {} /\ minted = {} /\ handled = 0

\* A deposit appears above everything handled.
Attest(i) ==
  /\ i > handled
  /\ deposits' = deposits \cup {i}
  /\ UNCHANGED <<delivered, minted, handled>>

\* One transaction delivers a page of deposits.
Deliver(S) ==
  /\ delivered' = delivered \cup S
  /\ UNCHANGED <<deposits, minted, handled>>

Mint(i) ==
  /\ i \in delivered \ minted
  /\ minted' = minted \cup {i}
  /\ UNCHANGED <<deposits, delivered, handled>>

Handle(h) ==
  /\ h > handled
  /\ \A d \in deposits : d <= h => d \in delivered
  /\ handled' = h
  /\ UNCHANGED <<deposits, delivered, minted>>

Forget ==
  /\ handled' = 0
  /\ UNCHANGED <<deposits, delivered, minted>>

Next ==
  \/ \E i \in Entries : Attest(i) \/ Mint(i) \/ Handle(i)
  \/ \E S \in SUBSET deposits : Deliver(S)
  \/ Forget

Spec == Init /\ [][Next]_vars

=============================================================================
