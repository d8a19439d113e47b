--------------------------- MODULE MCLightAttester ----------------------------
(* One burn: the order of withdrawal does not matter, its creation block is any number. *)
EXTENDS LightAttester

MCCreated == [n \in Notes |-> 1]

=============================================================================
