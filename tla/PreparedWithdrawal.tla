-------------------------- MODULE PreparedWithdrawal --------------------------
(***************************************************************************)
(* From a burn to a signature (circle.rs, config.rs, verify.rs, signer.rs, *)
(* attester.rs): the request for a withdrawal, Circle's answer, the checks *)
(* on it, the two signatures, and what a refusal does to the burn.  A      *)
(* domain, an address or a token is a name; amounts keep their widths: a   *)
(* burn's fits its word, Circle's are any value of a wider one.            *)
(***************************************************************************)
EXTENDS Naturals, Sequences, FiniteSets, FiniteSetsExt

CONSTANTS Burns,        \* the burns that may be taken up
          Configs,      \* the settings that may be in force
          NoCap,        \* no fee cap for a redeposit
          U256,         \* one more than the largest word of Circle's answers
          Base, Decimals, \* how amounts are written: digits after the point
          BpsScale,     \* basis points of the whole
          Words,        \* names an answer may put into a field
          MaxChanges    \* bound on the fields that differ from an honest answer

\* Amounts are numbers, and so are fees and their limits.
Assumption ==
  /\ U256 \in Nat \ {0} /\ BpsScale \in Nat \ {0}
  /\ \A b \in Burns : b.amount \in Nat
  /\ \A c \in Configs : {c.fixed, c.bps, c.cctp} \subseteq Nat /\ c.cap \in Nat \cup {NoCap}

VARIABLES pc,           \* "prepare", "answer", "sign", "submit", "held" or "retry"
          burn, config,
          reply,        \* Circle's answer
          quote,        \* the honest quote it was made from, and how many fields differ
          verdict,      \* what verify said last
          signed        \* the digests a signer has signed, in order

vars == <<pc, burn, config, reply, quote, verdict, signed>>

\* The words of Circle's answers.
Amounts == 0 .. U256 - 1

None == "none"
ZERO == "zero"
ARC_DOMAIN == "arc"
ARC_USDC == "usdc_arc"
Remote == {"stacks", "aleo"}
Supported == {"stacks"}

\* Settings as startup admits them.
Admitted(c) ==
  /\ c.cctp # 0 /\ c.forwarder # ZERO /\ c.messenger # ZERO /\ c.forwarder # c.messenger
  /\ c.cap # NoCap => c.forwarder = "xreserve"

\* The fee cap of the second leg: none for a remote domain that is not supported.
forwarding_max_fee(dest) ==
  IF dest \in Supported THEN config.cap ELSE IF dest \in Remote THEN NoCap ELSE config.cctp

xreserve_deployment(address) ==
  IF address = "xreserve" THEN [token |-> "usdc_eth", wallet |-> "wallet", minter |-> "minter"]
  ELSE [token |-> None, wallet |-> None, minter |-> None]

----------------------------------------------------------------------------
(* The request. *)

\* The fraction loses its leading zeros.
MutUsdcDecimals(units) ==
  LET fraction == units % (Base ^ Decimals)
      shown == CHOOSE n \in 1 .. Decimals : fraction < Base ^ n /\ (n = 1 \/ fraction >= Base ^ (n - 1))
  IN  [whole |-> units \div (Base ^ Decimals),
       digits |-> [n \in 1 .. shown |-> (fraction \div (Base ^ (shown - n))) % Base]]

\* Whole units, and all digits of the fraction.
UsdcDecimals(units) ==
  [whole |-> units \div (Base ^ Decimals),
   digits |-> [n \in 1 .. Decimals |-> (units \div (Base ^ (Decimals - n))) % Base]]

from_burn(b, fee) ==
  [depositor |-> b.sender, domain |-> b.dest, recipient |-> b.recipient,
   value |-> UsdcDecimals(b.amount), salt |-> b.note, maxFee |-> UsdcDecimals(fee)]

----------------------------------------------------------------------------
(* Circle: how it reads a request, and the honest answers to it. *)

\* An amount as it is commonly read: a missing digit is a zero.
Read(d) ==
  d.whole * Base ^ Decimals
    + MapThenSumSet(LAMBDA n : d.digits[n] * Base ^ (Decimals - n), DOMAIN d.digits)

NoCall == [fn |-> None, value |-> 0, domain |-> None, recipient |-> None, token |-> None,
           caller |-> ZERO, maxFee |-> 0, finality |-> None, hook |-> None]

\* route: "direct", "forwarded", or the domain of the xReserve that deposits again.
Honest(request, fee, route) ==
  LET deployed == xreserve_deployment(config.forwarder)
      value == Read(request.value) - fee
      at == IF route = "direct" THEN request.domain ELSE IF route = "forwarded" THEN ARC_DOMAIN ELSE route
      token == IF at = "ethereum" THEN deployed.token ELSE ARC_USDC
  IN  [maxFee |-> fee, value |-> value, salt |-> request.salt,
       sourceDomain |-> ARC_DOMAIN, sourceToken |-> ARC_USDC, sourceContract |-> deployed.wallet,
       sourceDepositor |-> "circle", sourceSigner |-> "circle",
       destinationDomain |-> at, destinationToken |-> token,
       destinationContract |-> deployed.minter,
       destinationRecipient |-> IF route = "direct" THEN request.recipient ELSE config.forwarder,
       destinationCaller |-> IF route = "direct" THEN ZERO ELSE config.forwarder,
       remoteDomain |-> "miden", remoteToken |-> "faucet", remoteDepositor |-> request.depositor,
       contract |-> IF route = "direct" THEN ZERO
                    ELSE IF route = "forwarded" THEN config.messenger ELSE config.forwarder,
       call |-> IF route = "direct" THEN NoCall
                ELSE [fn |-> IF route = "forwarded" THEN "cctp" ELSE "deposit",
                      value |-> value, domain |-> request.domain, recipient |-> request.recipient,
                      token |-> token, caller |-> ZERO, maxFee |-> Read(request.maxFee),
                      finality |-> IF route = "forwarded" THEN "fast" ELSE None,
                      hook |-> IF route = "forwarded" THEN "cctp-forward" ELSE None]]

Routes(dest) == IF dest \in Remote THEN {ARC_DOMAIN, "ethereum"} ELSE {"direct", "forwarded"}

\* What the chains do with an authorization: where the money arrives, and at least how
\* much of it.  The contracts are the ones the settings name.
Delivered(i) ==
  IF i.contract = ZERO /\ i.call.fn = None
  THEN [domain |-> i.destinationDomain, recipient |-> i.destinationRecipient, least |-> i.value]
  ELSE IF /\ i.destinationRecipient = config.forwarder /\ i.destinationCaller = config.forwarder
          /\ i.call.value = i.value /\ i.call.token = i.destinationToken /\ i.call.maxFee < i.value
          /\ \/ i.contract = config.messenger /\ i.call.fn = "cctp" /\ i.call.hook = "cctp-forward"
             \/ i.contract = config.forwarder /\ i.call.fn = "deposit" /\ i.call.hook = None
       THEN [domain |-> i.call.domain, recipient |-> i.call.recipient,
             least |-> i.value - i.call.maxFee]
       ELSE [domain |-> None, recipient |-> None, least |-> 0]

----------------------------------------------------------------------------
(* The checks, in the order of the code: the first that fails names the error. *)

\* Free constructors: different intents have different encodings and digests, and an
\* encoding is not a digest.
encode(i) == <<"encoded", i>>
signing_hash(i) == <<"digest", i>>

FirstFailed(checks) ==
  LET failed == {n \in DOMAIN checks : ~ checks[n][1]}
  IN  IF failed = {} THEN "ok" ELSE checks[Min(failed)][2]

\* Addresses, words and decimals that parse.
parse_intent(r) == ~ r.malformed

forwarded(i) == i.contract # ZERO \/ i.call.fn # None

\* The recipient in the calldata is not looked at.
MutForwardedLeg(i) ==
  <<i.contract = config.messenger, i.destinationRecipient = config.forwarder,
    i.destinationCaller = config.forwarder, i.destinationDomain = ARC_DOMAIN,
    i.destinationToken = ARC_USDC, i.call.fn = "cctp", i.call.value = i.value,
    i.call.domain = burn.dest, i.call.token = i.destinationToken, i.call.caller = ZERO,
    i.call.maxFee = config.cctp, i.call.finality = "fast", i.call.hook = "cctp-forward">>

verify_forwarded_leg(i) ==
  <<i.contract = config.messenger, i.destinationRecipient = config.forwarder,
    i.destinationCaller = config.forwarder, i.destinationDomain = ARC_DOMAIN,
    i.destinationToken = ARC_USDC, i.call.fn = "cctp", i.call.value = i.value,
    i.call.domain = burn.dest, i.call.recipient = burn.recipient,
    i.call.token = i.destinationToken, i.call.caller = ZERO, i.call.maxFee = config.cctp,
    i.call.finality = "fast", i.call.hook = "cctp-forward">>

verify_redeposit_leg(i, fee) ==
  LET deployed == xreserve_deployment(config.forwarder)
      token == IF i.destinationDomain = "ethereum" THEN deployed.token ELSE ARC_USDC
  IN  <<deployed.token # None, i.destinationDomain \in {"ethereum", ARC_DOMAIN},
        i.contract = config.forwarder, i.destinationRecipient = config.forwarder,
        i.destinationCaller = config.forwarder, i.destinationToken = token,
        i.sourceContract = deployed.wallet, i.destinationContract = deployed.minter,
        i.call.fn = "deposit", i.call.value = i.value, i.call.domain = burn.dest,
        i.call.recipient = burn.recipient, i.call.token = token, i.call.maxFee = fee,
        i.call.hook = None>>

Leg(i, fee) ==
  IF burn.dest \in Remote
  THEN LET checks == verify_redeposit_leg(i, fee)
       IN  [n \in DOMAIN checks |-> <<checks[n], "forwarded_field">>]
  ELSE IF forwarded(i)
       THEN LET checks == verify_forwarded_leg(i)
            IN  [n \in DOMAIN checks |-> <<checks[n], "forwarded_field">>]
       ELSE <<<<i.destinationDomain = burn.dest, "wrong_burn_field">>,
              <<i.destinationRecipient = burn.recipient, "wrong_burn_field">>,
              <<i.destinationCaller = ZERO, "caller_restricted">>>>

fee_ceiling == config.fixed + (burn.amount * config.bps) \div BpsScale

\* Payout and fee are added in their word.
MutAccountsFor(i) == i.value # 0 /\ (i.value + i.maxFee) % U256 = burn.amount

\* checked_add: a sum past the word is no amount.
AccountsFor(i) == i.value # 0 /\ i.value + i.maxFee < U256 /\ i.value + i.maxFee = burn.amount

\* A payout that equals the fee counts as enough.
MutEnough(i, secondary) ==
  IF secondary <= i.value THEN <<>>
  ELSE IF secondary >= burn.amount THEN <<<<FALSE, "too_small_to_forward">>>>
       ELSE <<<<FALSE, "payout_too_small_to_forward">>>>

\* A burn as large as the fee is tried again and again.
MutEnoughBurn(i, secondary) ==
  IF secondary < i.value THEN <<>>
  ELSE IF secondary > burn.amount THEN <<<<FALSE, "too_small_to_forward">>>>
       ELSE <<<<FALSE, "payout_too_small_to_forward">>>>

\* The second leg fails unless the payout exceeds its fee.
Enough(i, secondary) ==
  IF secondary < i.value THEN <<>>
  ELSE IF secondary >= burn.amount THEN <<<<FALSE, "too_small_to_forward">>>>
       ELSE <<<<FALSE, "payout_too_small_to_forward">>>>

verify(r) ==
  LET i == r.intent
      fee == forwarding_max_fee(burn.dest)
      second == burn.dest \in Remote \/ forwarded(i)
      secondary == IF second THEN fee ELSE 0
  IN  IF r.count # 1 THEN "wrong_count"
      ELSE IF ~ parse_intent(r) THEN "malformed_field"
      ELSE IF i.salt # burn.note THEN "unknown_salt"
      ELSE IF fee = NoCap THEN "unsupported_destination"
      ELSE FirstFailed(
             Leg(i, fee) \o
             <<<<i.remoteDomain = "miden", "wrong_burn_field">>,
               <<i.remoteDepositor = burn.sender, "wrong_burn_field">>,
               <<i.remoteToken = "faucet", "wrong_burn_field">>,
               <<AccountsFor(i), "bad_amount">>,
               <<Min({i.maxFee + secondary, U256 - 1}) <= fee_ceiling, "fee_too_high">>,
               <<i.sourceSigner = i.sourceDepositor, "wrong_signer">>,
               <<i.sourceToken = ARC_USDC, "wrong_source_token">>,
               <<i.sourceDomain = ARC_DOMAIN, "wrong_source_domain">>,
               <<r.encoded = encode(i), "encoded_mismatch">>,
               <<r.digest = signing_hash(i), "digest_mismatch">>>> \o
             (IF second THEN Enough(i, secondary) ELSE <<>>))

----------------------------------------------------------------------------
(* The steps. *)

NoReply == [count |-> 0]
NoQuote == [route |-> None, fee |-> 0, changes |-> 0]

TypeOK ==
  /\ pc \in {"prepare", "answer", "sign", "submit", "held", "retry"}
  /\ burn \in Burns /\ config \in Configs
  /\ quote.changes \in 0 .. MaxChanges
  /\ Len(signed) <= 2
  /\ pc = "submit" <=> Len(signed) = 2
  /\ pc \in {"prepare", "answer", "held", "retry"} => signed = <<>>

Init ==
  /\ burn \in Burns /\ config \in {c \in Configs : Admitted(c)}
  /\ pc = "prepare" /\ reply = NoReply /\ quote = NoQuote /\ verdict = None /\ signed = <<>>

Replies(i) == [count |-> 1, malformed |-> FALSE, intent |-> i, encoded |-> encode(i),
               digest |-> signing_hash(i)]

\* No route of its own: the burn fails before Circle is asked.
Unsupported ==
  /\ pc = "prepare" /\ forwarding_max_fee(burn.dest) = NoCap
  /\ pc' = "retry" /\ verdict' = "unsupported_destination"
  /\ UNCHANGED <<burn, config, reply, quote, signed>>

\* Circle quotes some fee for some route, in words.
prepare_withdrawal ==
  /\ pc = "prepare" /\ forwarding_max_fee(burn.dest) # NoCap
  /\ \E route \in Routes(burn.dest), fee \in Amounts :
     LET request == from_burn(burn, forwarding_max_fee(burn.dest))
         intent == Honest(request, fee, route)
     IN  /\ fee <= Read(request.value) /\ intent.value \in Amounts
         /\ reply' = Replies(intent)
         /\ quote' = [route |-> route, fee |-> fee, changes |-> 0]
  /\ pc' = "answer" /\ UNCHANGED <<burn, config, verdict, signed>>

\* Payout and fee are changed, the payout of the call with them, or there is no call.
Repriced(i, v, fee) == [i EXCEPT !.value = v, !.maxFee = fee]
RepricedCall(i, v, fee) == [i EXCEPT !.value = v, !.call.value = v, !.maxFee = fee]
Uncalled(i) == [i EXCEPT !.contract = ZERO, !.call = NoCall]

\* A field of the answer is not what an honest one has; the encoding and the digest are
\* of the changed intent or of the honest one.
Change(i) ==
  {[i EXCEPT ![f] = w] : f \in DOMAIN i \ {"value", "maxFee", "call"}, w \in Words}
    \cup {Repriced(i, v, fee) : v \in Amounts, fee \in Amounts}
    \cup {RepricedCall(i, v, fee) : v \in Amounts, fee \in Amounts}
    \cup {[i EXCEPT !.call[f] = w] : f \in DOMAIN i.call \ {"value", "maxFee"}, w \in Words}
    \cup {[i EXCEPT !.call[f] = n] : f \in {"value", "maxFee"}, n \in Amounts}
    \cup {Uncalled(i)}

Differs ==
  /\ pc = "answer" /\ quote.changes < MaxChanges /\ reply.count = 1 /\ ~ reply.malformed
  /\ reply.encoded = encode(reply.intent) /\ reply.digest = signing_hash(reply.intent)
  /\ \/ \E i \in Change(reply.intent) :
          \/ reply' = Replies(i)
          \/ reply' = [reply EXCEPT !.intent = i]
          \/ reply' = [Replies(i) EXCEPT !.digest = reply.digest]
     \/ \E n \in {0, 2} : reply' = [reply EXCEPT !.count = n]
     \/ reply' = [reply EXCEPT !.malformed = TRUE]
  /\ quote' = [quote EXCEPT !.changes = @ + 1]
  /\ UNCHANGED <<pc, burn, config, verdict, signed>>

\* Only a burn too small for its second leg is held; anything else is tried again.
burn_hold(error) == IF error = "too_small_to_forward" THEN "held" ELSE "retry"

Verify ==
  /\ pc = "answer" /\ verdict' = verify(reply)
  /\ pc' = IF verdict' = "ok" THEN "sign" ELSE burn_hold(verdict')
  /\ UNCHANGED <<burn, config, reply, quote, signed>>

\* One signer after the other.
sign ==
  /\ pc = "sign" /\ signed' = Append(signed, signing_hash(reply.intent))
  /\ pc' = IF Len(signed') = 2 THEN "submit" ELSE "sign"
  /\ UNCHANGED <<burn, config, reply, quote, verdict>>

\* No partial result: a signature without the other is dropped.
SignFails ==
  /\ pc = "sign" /\ pc' = "retry" /\ signed' = <<>>
  /\ UNCHANGED <<burn, config, reply, quote, verdict>>

\* The next cycle asks again.
Again ==
  /\ pc = "retry" /\ pc' = "prepare" /\ reply' = NoReply /\ quote' = NoQuote /\ verdict' = None
  /\ UNCHANGED <<burn, config, signed>>

Next ==
  \/ Unsupported \/ prepare_withdrawal \/ Differs \/ Verify \/ sign \/ SignFails \/ Again

Spec == Init /\ [][Next]_vars

----------------------------------------------------------------------------
(* Properties. *)

\* Whatever Circle answers, a signed digest is of an authorization that delivers to the
\* burn's recipient on the burn's domain, takes exactly the burned amount, and costs no
\* more than the settings allow over both legs.
SignedPaysTheBurn ==
  \A n \in DOMAIN signed :
    LET i == signed[n][2]
        d == Delivered(i)
    IN  /\ signed[n] = signing_hash(i) /\ i.salt = burn.note
        /\ d.domain = burn.dest /\ d.recipient = burn.recipient
        /\ i.value + i.maxFee = burn.amount /\ d.least > 0
        /\ burn.amount - d.least <= fee_ceiling
        /\ i.sourceDomain = ARC_DOMAIN /\ i.sourceToken = ARC_USDC

\* An honest answer within the fee limits is never refused.
HonestQuotesPass ==
  LET secondary == IF quote.route = "direct" THEN 0 ELSE forwarding_max_fee(burn.dest)
  IN  (verdict # None /\ quote.route # None /\ quote.changes = 0 /\ quote.fee < burn.amount
         /\ quote.fee + secondary <= fee_ceiling
         /\ (quote.route = "direct" \/ secondary < burn.amount - quote.fee))
        => verdict = "ok"

\* A hold for size is for good: under these settings no fee Circle could quote would let
\* the same kind of route through.  And a payout that is too small is worth another try:
\* some fee would.
HoldsAreForGood ==
  LET Passes(fee) ==
        \E route \in Routes(burn.dest) \ {"direct"} :
          verify(Replies(Honest(from_burn(burn, forwarding_max_fee(burn.dest)), fee, route))) = "ok"
  IN  /\ pc = "held" => \A fee \in 0 .. burn.amount : ~ Passes(fee)
      /\ verdict = "payout_too_small_to_forward" => \E fee \in 0 .. burn.amount : Passes(fee)

=============================================================================
