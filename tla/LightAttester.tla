---------------------------- MODULE LightAttester -----------------------------
(***************************************************************************)
(* The light attester as one task (xusdc-light-attester/src/attester.rs):  *)
(* BurnDiscovery and Withdrawals composed as `cycle` composes them.  A     *)
(* cycle discovers burns, takes its snapshot, and works it off; a chain    *)
(* read failure leaves it without new burns, a store failure ends it, a    *)
(* diverged chain ends the service.  The two share the burns table: a note *)
(* Withdrawals knows is one with a consumption block in BurnDiscovery.     *)
(*                                                                         *)
(* Stops and failed reads count as faults of discovery (MaxChainFaults),   *)
(* unhelpful replies and aborted cycles as faults of Withdrawals.          *)
(***************************************************************************)
EXTENDS Withdrawals, Sequences

CONSTANTS Anchor, Depth, MaxReorg, MaxHeight, MaxChainFaults

VARIABLES node, proven, longest, made, created, consumed, verified, pc, tip, lag, offered,
          chainFaults

Chain == INSTANCE BurnDiscovery WITH faults <- chainFaults, MaxFaults <- MaxChainFaults

ASSUME ChainAssumption == Chain!DiscoveryAssumption

chainVars == <<node, proven, longest, made, created, consumed, verified, pc, tip, lag, offered,
               chainFaults>>
allVars == <<vars, chainVars>>

AttesterInit == Init /\ Chain!Init

-----------------------------------------------------------------------------

\* Attester::start: the store is validated and the node must have the anchor and the checkpoint.
StartAttester ==
  /\ Chain!Start
  /\ \E p \in Policies : Start(p)

\* The process is gone, whatever it was doing; its store and Circle stay.
Gone ==
  /\ RestAt("Stopped") /\ policy' = "off"
  /\ UNCHANGED <<storeVars, circle, cmd, faults>>

Stop == Chain!Exit /\ Gone

\* A cycle begins by reading the node's tip.
BeginCycle ==
  /\ phase = "Idle"
  /\ Chain!ReadTip
  /\ UNCHANGED vars

\* discover_burns up to its result: the rows it writes are the ones Withdrawals knows.
Discover ==
  /\ Chain!ReadProven \/ Chain!CompareCheckpoint \/ Chain!ScanBlock
  /\ IF pc' = "Down"
       THEN Gone
       ELSE /\ known' = {n \in Notes : consumed'[n] # 0}
            /\ UNCHANGED <<hold, limit, sub, signed, rev, circle, processVars, cmd, faults>>

\* Mutant: every consumed burn is taken up, at whatever depth.
TakeUpAll == Chain!OfferBurns /\ TakeSnapshot(known) /\ UNCHANGED faults

\* Mutant: a burn is taken up by one cycle only.
TakeUpOnce ==
  Chain!OfferBurns /\ TakeSnapshot(Chain!ReadyBurns \ offered) /\ UNCHANGED faults

\* Discovery done, the cycle goes on with the burns that are ready.
TakeUp == Chain!OfferBurns /\ TakeSnapshot(Chain!ReadyBurns) /\ UNCHANGED faults

\* Mutant: after a failed discovery the cycle goes on with the burns it knows.
CarryOnStale == Chain!DiscoveryFails /\ TakeSnapshot(known) /\ UNCHANGED faults

\* discovery_outcome: a chain read failure only keeps new burns out of this cycle; a failed save
\* of a block ends the cycle.
CarryOn ==
  /\ Chain!DiscoveryFails
  /\ \/ TakeSnapshot({}) /\ UNCHANGED faults
     \/ pc = "Scan" /\ chainFaults' # chainFaults /\ UNCHANGED vars

\* The phases of a cycle after discovery, and what goes on around the process.
Work ==
  /\ \/ PhaseEnds \/ Send \/ CycleFails \/ Prepare \/ Reply \/ Circle \/ Operator
     \/ \E n \in Notes : PickBurn(n) \/ PickSaved(n) \/ RetryDue(n)
  /\ UNCHANGED chainVars

Grow == Chain!Node /\ UNCHANGED vars

AttesterNext ==
  \/ StartAttester \/ Stop \/ BeginCycle \/ Discover \/ TakeUp \/ CarryOn \/ Work \/ Grow

AttesterSpec == AttesterInit /\ [][AttesterNext]_allVars

\* The task runs on: it starts again, discovers and works off its items; Circle and the clock as in
\* Withdrawals, the node as in BurnDiscovery.
Cycle ==
  \/ StartAttester \/ BeginCycle \/ Discover \/ TakeUp
  \/ (PhaseEnds \/ Send \/ \E n \in Notes : PickBurn(n) \/ PickSaved(n)) /\ UNCHANGED chainVars

AttesterFairness ==
  /\ WF_allVars(Cycle)
  /\ WF_allVars(PrepareSigned /\ UNCHANGED chainVars)
  /\ WF_allVars(ReplyStatus /\ UNCHANGED chainVars)
  /\ \A n \in Notes : WF_allVars(RetryDue(n) /\ UNCHANGED chainVars)
  /\ \A n \in Notes, a \in Auths : WF_allVars(CircleFinalizes(n, a) /\ UNCHANGED chainVars)
  /\ WF_allVars(Chain!Prove /\ UNCHANGED vars)

FairAttester == AttesterSpec /\ AttesterFairness

-----------------------------------------------------------------------------
(* Properties *)

\* The blocks of the node's chain in which the faucet consumes a note.
BurnsOnChain(n) == {h \in DOMAIN node : n \in node[h].consumes}

\* Every block the node ever made is still on its chain.
NoneReplaced == made = Len(node)

\* Circle never has, and may never come to have, more withdrawals of a note that are pending, paid
\* or failed than the node's chain has burns of it, when the node replaces no more blocks than the
\* waiting depth: through replaced blocks, failed cycles, stops and operator releases.
PayoutsAreBurned ==
  MaxReorg <= Depth =>
    \A n \in Notes : CountAt(n, AtCircle) <= Cardinality(BurnsOnChain(n))

\* Nothing is signed for a burn outside the node's chain, and what was signed stays on it: the
\* burns a cycle works off are the ready ones of its own discovery, and a cycle whose discovery
\* failed signs nothing.
SignedIsBurned ==
  MaxReorg <= Depth =>
    \A n \in Notes : signed[n] # 0 \/ n \in todo["Submit"] \/ (step = "Prepare" /\ note = n) =>
      /\ consumed[n] \in BurnsOnChain(n)
      /\ n \in offered

\* From the chain to Circle: unless the node replaces a block, a burn deep enough below its tip is
\* paid, failed or waiting for an operator in the end, and stays so.
EveryBurnOnChainSettles ==
  \A n \in Notes :
    (/\ NoneReplaced
     /\ \E h \in BurnsOnChain(n) :
          /\ h > Anchor /\ h + Depth <= Len(node)
          /\ \E g \in Anchor .. (h - 1) : n \in node[g].publishes)
      ~> [](Settled(n) \/ ~ NoneReplaced)

=============================================================================
