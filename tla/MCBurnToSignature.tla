--------------------------- MODULE MCBurnToSignature ---------------------------
(***************************************************************************)
(* What a payout of the light attester rests on: the burn in authenticated *)
(* blocks, with and without replaced ones (BurnDiscovery), Circle's answer *)
(* as it is checked before it is signed (PreparedWithdrawal), and the two  *)
(* signatures (AttesterSigners).  The models share no variable, so a       *)
(* property of one holds of all their interleavings when it holds where    *)
(* the others rest: part says which one moves.                             *)
(***************************************************************************)
EXTENDS BurnDiscovery

CONSTANT NoCap

VARIABLES part,
          at, cli, arns, keys, digest, sigs, kms, steady, requests,
          step, burn, config, reply, quote, verdict, signed

signing == <<at, cli, arns, keys, digest, sigs, kms, steady, requests>>
checking == <<step, burn, config, reply, quote, verdict, signed>>

\* Both orders of the ARNs and of the expected keys, the same ARN twice, a third ARN, the same key
\* expected twice, and a key that is not there.
SignerSettings ==
  [arns : {<<"a1", "a2">>, <<"a2", "a1">>}, expected : {<<1, 2>>, <<2, 1>>, <<1, 3>>}]
  \cup [arns : {<<"a1", "a1">>, <<"a1", "a2", "a1">>}, expected : {<<1, 2>>}]
  \cup [arns : {<<"a1", "a2">>}, expected : {<<1, 1>>, <<1>>}]

Signers == INSTANCE AttesterSigners WITH
  Arns <- {"a1", "a2"}, Keys <- 1 .. 3, Digests <- {"d1", "d2"}, Settings <- SignerSettings, pc <- at

ASSUME SignersAssumption == Signers!Assumption

\* Words of four bits, amounts of two binary digits after the point.
Burn(amount, dest) ==
  [note |-> "note", amount |-> amount, dest |-> dest, recipient |-> "alice", sender |-> "burner"]

MCBurns == {Burn(1, "ethereum"), Burn(5, "ethereum"), Burn(2, "stacks"), Burn(5, "stacks"),
            Burn(5, "aleo"), Burn(5, "arc")}

Setting(fixed, bps, cctp, cap, forwarder) ==
  [fixed |-> fixed, bps |-> bps, cctp |-> cctp, cap |-> cap, forwarder |-> forwarder,
   messenger |-> "messenger"]

MCConfigs == {Setting(3, 0, 1, 2, "xreserve"), Setting(1, 2, 2, 0, "xreserve"),
              Setting(9, 0, 3, NoCap, "other"), Setting(2, 0, 1, 1, "other"),
              Setting(3, 1, 0, 1, "xreserve")}

Prepared == INSTANCE PreparedWithdrawal WITH
  Burns <- MCBurns, Configs <- MCConfigs,
  Words <- {"zero", "none", "alice", "stranger", "xreserve", "messenger", "usdc_arc", "usdc_eth",
            "arc", "ethereum", "stacks", "cctp", "deposit"},
  U256 <- 16, Base <- 2, Decimals <- 2, BpsScale <- 4, MaxChanges <- 1, pc <- step

ASSUME PreparedAssumption == Prepared!Assumption

-----------------------------------------------------------------------------

\* A part that does not move rests in one of its initial states.
PayoutInit ==
  /\ part \in {"discovery", "signers", "prepared"}
  /\ Init /\ (part # "discovery" => node = FirstBlocks([h \in 1 .. Anchor |-> {}]))
  /\ Signers!Init
  /\ part # "signers" => /\ cli = [arns |-> <<"a1", "a2">>, expected |-> <<1, 2>>]
                         /\ digest = "d1" /\ kms["a1"].key = 1 /\ kms["a2"].key = 2
  /\ Prepared!Init
  /\ part # "prepared" => burn = Burn(5, "arc") /\ config = Setting(3, 0, 1, 2, "xreserve")

PayoutNext ==
  \/ part = "discovery" /\ Next /\ UNCHANGED <<part, signing, checking>>
  \/ part = "signers" /\ Signers!Next /\ UNCHANGED <<part, vars, checking>>
  \/ part = "prepared" /\ Prepared!Next /\ UNCHANGED <<part, vars, signing>>

PayoutSpec == PayoutInit /\ [][PayoutNext]_<<part, vars, signing, checking>>

-----------------------------------------------------------------------------
(* Properties of the parts; those of discovery have their own names. *)

\* A request has both signatures or it is not made: each on the digest of one request,
\* recoverable, by exactly the two expected keys and in ascending order of address, whatever the
\* order of the settings and whatever KMS answers after a key was pinned (SignerPair::new, sign).
\* And right keys sign: a start with two ARNs that hold the expected keys is not refused, and some
\* answer of KMS to the next call is accepted, while KMS stays as it is (check_expected).
SignersAreRight == part = "signers" => Signers!SignersAreRight

\* Whatever Circle answers, what is signed pays the burn within the fee limits (verify).
SignedPaysTheBurn == part = "prepared" => Prepared!SignedPaysTheBurn

\* Nothing else is refused: an honest answer within the fee limits passes; a burn is held for its
\* size only when no fee Circle could quote would let it through, and tried again only when some
\* fee would (verify, burn_hold).
RefusalsAreRight ==
  part = "prepared" => Prepared!TypeOK /\ Prepared!HonestQuotesPass /\ Prepared!HoldsAreForGood

=============================================================================
