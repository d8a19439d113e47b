---------------------------- MODULE BurnDiscovery -----------------------------
(***************************************************************************)
(* How the light attester finds burns (xusdc-light-attester: attester.rs,  *)
(* chain.rs, burn.rs and the discovery half of store.rs): it authenticates *)
(* the node's blocks one by one from a pinned anchor, saves each block's   *)
(* candidates and consumptions together with the checkpoint, and offers a  *)
(* consumed burn for withdrawal once it lies deep enough below the         *)
(* checkpoint and within the node's proof lag.                             *)
(*                                                                         *)
(* A block is its identity (the commitment), its parent's, the burn notes  *)
(* it publishes and the ones the faucet's transactions consume.  That      *)
(* BurnCandidate::new accepts a note depends on the note alone, so Notes   *)
(* are the acceptable ones.  A note may be published again; its nullifier  *)
(* is consumed at most once on a chain, and never in the block that first  *)
(* publishes it (such a note is erased from the block).                    *)
(*                                                                         *)
(* The node is environment: it grows its chain, proves it with a lag, and  *)
(* may replace up to MaxReorg blocks below the longest chain it ever had.  *)
(* Its answers are unauthenticated and may change between two calls.       *)
(* MaxFaults bounds failed reads, failed writes, stops and replacements.   *)
(***************************************************************************)
EXTENDS Integers, Sequences

CONSTANTS Notes,
          Anchor,      \* trusted_anchor_block; the node's first Anchor blocks are given
          Depth,       \* minimum_finality_depth_blocks
          MaxReorg,    \* how many of its last blocks the node may replace
          MaxHeight,   \* bound on the chain's length
          MaxFaults    \* bound on faults, see above

ASSUME DiscoveryAssumption ==
  /\ 0 \notin Notes
  /\ MaxHeight \in Nat /\ Anchor \in 1 .. MaxHeight
  /\ Depth \in Nat /\ MaxReorg \in Nat /\ MaxFaults \in Nat

VARIABLES node,        \* the node's chain, block h at height h
          proven,      \* the height the node reports as proven
          longest,     \* the longest the node's chain ever was
          made,        \* how many blocks were ever made: block identities
          created,     \* burns.creation_block of a note, 0 without a row
          consumed,    \* burns.consumption_block, 0 while it is a candidate
          verified,    \* the blocks authenticated and saved; the last one is the checkpoint
          pc,          \* where the process is
          tip,         \* ScanLimits::latest_committed_block of this cycle
          lag,         \* ScanLimits::proof_lag_block of this cycle
          offered,     \* burns some cycle has taken up for withdrawal
          faults

nodeVars == <<node, proven, longest, made>>
storeVars == <<created, consumed, verified>>
vars == <<nodeVars, storeVars, pc, tip, lag, offered, faults>>

Heights == 0 .. MaxHeight

Blocks == [id : Nat, prev : Nat, publishes : SUBSET Notes, consumes : SUBSET Notes]

TypeOK ==
  /\ node \in Seq(Blocks) /\ Len(node) <= MaxHeight
  /\ proven \in Heights /\ longest \in Heights /\ made \in Nat
  /\ created \in [Notes -> Heights] /\ consumed \in [Notes -> Heights]
  /\ verified \in Seq(Blocks)
  /\ pc \in {"Down", "Idle", "Limits", "Compare", "Scan", "Ready"}
  /\ tip \in Heights /\ lag \in Heights
  /\ offered \subseteq Notes
  /\ faults \in 0 .. MaxFaults

\* The chain up to the anchor, which may publish burn notes.
FirstBlocks(published) ==
  [h \in 1 .. Anchor |-> [id |-> h, prev |-> h - 1, publishes |-> published[h], consumes |-> {}]]

Init ==
  /\ \E published \in [1 .. Anchor -> SUBSET Notes] : node = FirstBlocks(published)
  /\ proven = 0 /\ longest = Anchor /\ made = Anchor
  /\ created = [n \in Notes |-> 0] /\ consumed = [n \in Notes |-> 0]
  /\ verified = <<>>
  /\ pc = "Down" /\ tip = 0 /\ lag = 0 /\ offered = {}
  /\ faults = 0

Fault == faults < MaxFaults /\ faults' = faults + 1

-----------------------------------------------------------------------------
(* The node *)

PublishedOn(chain) == UNION {chain[h].publishes : h \in DOMAIN chain}
ConsumedOn(chain) == UNION {chain[h].consumes : h \in DOMAIN chain}

\* A block is added: the faucet consumes notes published earlier, each once.
Extend(publishes, consumes) ==
  /\ Len(node) < MaxHeight
  /\ consumes \subseteq PublishedOn(node) \ ConsumedOn(node)
  /\ made' = made + 1
  /\ node' = Append(node, [id |-> made + 1,
                           prev |-> IF node = <<>> THEN 0 ELSE node[Len(node)].id,
                           publishes |-> publishes, consumes |-> consumes])
  /\ longest' = IF Len(node') > longest THEN Len(node') ELSE longest
  /\ UNCHANGED <<proven, storeVars, pc, tip, lag, offered, faults>>

Prove ==
  /\ proven < Len(node)
  /\ proven' = proven + 1
  /\ UNCHANGED <<node, longest, made, storeVars, pc, tip, lag, offered, faults>>

\* The node falls back to an earlier block and goes on from there.
Reorg(height) ==
  /\ height < Len(node) /\ height >= longest - MaxReorg
  /\ Fault
  /\ node' = SubSeq(node, 1, height)
  /\ proven' = IF proven > height THEN height ELSE proven
  /\ UNCHANGED <<longest, made, storeVars, pc, tip, lag, offered>>

-----------------------------------------------------------------------------
(* The store *)

CheckpointNum == Anchor - 1 + Len(verified)

Checkpoint == verified[Len(verified)]

\* Mutant: a note published again is saved again.
NewBurnNotesAgain(block) == block.publishes

\* Publications this store has no row of yet.
NewBurnNotes(block) == {n \in block.publishes : created[n] = 0}

\* Consumptions of saved candidates; this block's own notes are not among them.
NewBurns(block) == {n \in block.consumes : created[n] # 0 /\ consumed[n] = 0}

\* One transaction: the block's candidates and burns, and its header as the checkpoint.
SaveBlock(block, num) ==
  /\ created' = [n \in Notes |-> IF n \in NewBurnNotes(block) THEN num ELSE created[n]]
  /\ consumed' = [n \in Notes |-> IF n \in NewBurns(block) THEN num ELSE consumed[n]]
  /\ verified' = Append(verified, block)

\* burns_ready_for_withdrawal: the checkpoint's depth and the proof lag bound the block.  The
\* burns it leaves out because they are held or submitted are Withdrawals' Eligible.
ReadyBurns ==
  {n \in Notes : /\ consumed[n] # 0
                 /\ consumed[n] <= lag
                 /\ CheckpointNum >= Depth /\ consumed[n] <= CheckpointNum - Depth}

-----------------------------------------------------------------------------
(* The process *)

\* Mutant: a block is accepted whatever its parent is.
ValidatesAny(block, header) == TRUE

\* block.validate(Some(header)): the block is a child of the authenticated header.
Validates(block, header) == block.prev = header.id

\* The node's block at the checkpoint's height is the checkpoint.
AgreesAtCheckpoint ==
  CheckpointNum <= Len(node) /\ node[CheckpointNum].id = Checkpoint.id

\* The pinned anchor must be the node's; a new store begins with it, an existing one is
\* compared with the node at its checkpoint.  The reads concern fixed heights and are compared
\* with fixed values, so their order does not matter; a start that fails leaves everything as
\* it is.
Start ==
  /\ pc = "Down"
  /\ Len(node) >= Anchor /\ node[Anchor].id = Anchor
  /\ \/ verified = <<>> /\ SaveBlock(node[Anchor], Anchor)
     \/ verified # <<>> /\ AgreesAtCheckpoint /\ UNCHANGED storeVars
  /\ pc' = "Idle"
  /\ UNCHANGED <<nodeVars, tip, lag, offered, faults>>

Exit ==
  /\ pc # "Down"
  /\ Fault
  /\ pc' = "Down" /\ tip' = 0 /\ lag' = 0
  /\ UNCHANGED <<nodeVars, storeVars, offered>>

\* discover_burns asks for the committed tip, then for the proven one.
ReadTip ==
  /\ pc = "Idle"
  /\ tip' = Len(node) /\ pc' = "Limits"
  /\ UNCHANGED <<nodeVars, storeVars, lag, offered, faults>>

\* The tip is compared with the checkpoint: a node short of the anchor has not caught up yet,
\* one short of a later checkpoint has left the authenticated chain and ends the service.
ReadProven ==
  /\ pc = "Limits"
  /\ lag' = proven
  /\ \/ tip > CheckpointNum /\ pc' = "Scan"
     \/ tip = CheckpointNum /\ pc' = "Compare"
     \/ tip < CheckpointNum /\ CheckpointNum = Anchor /\ pc' = "Ready"
     \/ tip < CheckpointNum /\ CheckpointNum # Anchor /\ pc' = "Down"
  /\ UNCHANGED <<nodeVars, storeVars, tip, offered, faults>>

\* No new block, so the node's block at the checkpoint is compared.
CompareCheckpoint ==
  /\ pc = "Compare" /\ CheckpointNum <= Len(node)
  /\ pc' = IF AgreesAtCheckpoint THEN "Ready" ELSE "Down"
  /\ UNCHANGED <<nodeVars, storeVars, tip, lag, offered, faults>>

\* One block: fetched, authenticated against the checkpoint, saved.
ScanBlock ==
  LET num == CheckpointNum + 1
  IN /\ pc = "Scan" /\ num <= Len(node)
     /\ \/ /\ Validates(node[num], Checkpoint)
           /\ SaveBlock(node[num], num)
           /\ pc' = IF num < tip THEN "Scan" ELSE "Ready"
        \/ /\ ~Validates(node[num], Checkpoint)
           /\ UNCHANGED storeVars
           /\ pc' = "Down"
     /\ UNCHANGED <<nodeVars, tip, lag, offered, faults>>

\* A read fails, or asks for a block the node has no more, or the save fails: the cycle takes
\* up no new burns and the next one resumes from the checkpoint.
DiscoveryFails ==
  /\ \/ pc \in {"Limits", "Compare", "Scan"} /\ Fault
     \/ pc = "Compare" /\ CheckpointNum > Len(node) /\ UNCHANGED faults
     \/ pc = "Scan" /\ CheckpointNum + 1 > Len(node) /\ UNCHANGED faults
  /\ pc' = "Idle" /\ tip' = 0 /\ lag' = 0
  /\ UNCHANGED <<nodeVars, storeVars, offered>>

\* The cycle takes up the burns that are ready.
OfferBurns ==
  /\ pc = "Ready"
  /\ offered' = offered \cup ReadyBurns
  /\ pc' = "Idle" /\ tip' = 0 /\ lag' = 0
  /\ UNCHANGED <<nodeVars, storeVars, faults>>

-----------------------------------------------------------------------------
(* The specification *)

Discovery == ReadTip \/ ReadProven \/ CompareCheckpoint \/ ScanBlock \/ OfferBurns

Node ==
  \/ \E P, C \in SUBSET Notes : Extend(P, C)
  \/ Prove
  \/ \E h \in Heights : Reorg(h)

Next == Start \/ Exit \/ Discovery \/ DiscoveryFails \/ Node

Spec == Init /\ [][Next]_vars

-----------------------------------------------------------------------------
(* Properties *)

\* The height at which an authenticated block first publishes a note, and the one at which
\* the faucet consumes it later on; 0 without one.
FirstPublished(n) ==
  LET S == {h \in DOMAIN verified : n \in verified[h].publishes}
  IN  IF S = {} THEN 0 ELSE Anchor - 1 + (CHOOSE h \in S : \A g \in S : h <= g)

ConsumedAfter(n) ==
  LET S == {h \in DOMAIN verified : n \in verified[h].consumes /\ FirstPublished(n) # 0
                                      /\ Anchor - 1 + h > FirstPublished(n)}
  IN  IF S = {} THEN 0 ELSE Anchor - 1 + (CHOOSE h \in S : \A g \in S : h <= g)

\* The rows are exactly what the authenticated blocks contain: no burn is missed, invented or
\* recorded at another height, whatever stopped between blocks ("a crash never skips or
\* half-records a block", attester.rs).
EvidenceComplete ==
  \A n \in Notes : created[n] = FirstPublished(n) /\ consumed[n] = ConsumedAfter(n)

\* A burn taken up for withdrawal is consumed on the node's chain and stays there, as long as
\* the node replaces no more blocks than the waiting depth: evidence of a replaced block is
\* never joined with the chain that replaced it.
OfferedIsFinal ==
  MaxReorg <= Depth =>
    \A n \in offered : /\ consumed[n] \in DOMAIN node
                       /\ n \in node[consumed[n]].consumes

\* A cycle takes up burns only after the node confirmed the checkpoint in that cycle, or while
\* it has not reached the anchor and there is no burn yet.
NewWorkNeedsAgreement ==
  [][pc # "Ready" /\ pc' = "Ready" =>
       \/ CheckpointNum' <= Len(node) /\ node[CheckpointNum'].id = Checkpoint'.id
       \/ CheckpointNum = Anchor /\ \A n \in Notes : consumed[n] = 0]_vars

=============================================================================
