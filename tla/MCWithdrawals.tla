---------------------------- MODULE MCWithdrawals ----------------------------
(* Two burns whose note order is the reverse of their creation order. *)
EXTENDS Withdrawals

MCCreated == [n \in Notes |-> 10 - n]

=============================================================================
