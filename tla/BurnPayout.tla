----------------------------- MODULE BurnPayout ------------------------------
(***************************************************************************)
(* What the attester promises about a burn, whatever happens to processes, *)
(* messages and operators: the burn is put to Circle at most once at a     *)
(* time, may be put again only after the earlier attempt came to nothing,  *)
(* and never again once it was paid or Circle reported it failed.  The     *)
(* counters count authorizations, so that a second payout would show.      *)
(***************************************************************************)
EXTENDS Naturals

CONSTANT Notes

VARIABLES open,      \* authorizations of a burn that may still be paid
          paid,      \* payouts of a burn
          failed     \* authorizations Circle reported failed

vars == <<open, paid, failed>>

Init ==
  /\ open = [n \in Notes |-> 0]
  /\ paid = [n \in Notes |-> 0]
  /\ failed = [n \in Notes |-> 0]

\* A signed request leaves for Circle.
Authorize(n) ==
  /\ open[n] = 0 /\ paid[n] = 0 /\ failed[n] = 0
  /\ open' = [open EXCEPT ![n] = 1]
  /\ UNCHANGED <<paid, failed>>

Pay(n) ==
  /\ open[n] = 1
  /\ open' = [open EXCEPT ![n] = 0]
  /\ paid' = [paid EXCEPT ![n] = @ + 1]
  /\ UNCHANGED failed

\* The request was rejected, lost on its way or expired.
Lapse(n) ==
  /\ open[n] = 1
  /\ open' = [open EXCEPT ![n] = 0]
  /\ UNCHANGED <<paid, failed>>

Fail(n) ==
  /\ open[n] = 1
  /\ open' = [open EXCEPT ![n] = 0]
  /\ failed' = [failed EXCEPT ![n] = @ + 1]
  /\ UNCHANGED paid

Next == \E n \in Notes : Authorize(n) \/ Pay(n) \/ Lapse(n) \/ Fail(n)

Spec == Init /\ [][Next]_vars

=============================================================================
