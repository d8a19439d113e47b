--------------------------- MODULE MCDepositRelayer ---------------------------
(* The relayer on a feed of a few entries, with pages of two and of one. *)
EXTENDS DepositRelayer

=============================================================================
