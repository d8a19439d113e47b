------------------------- MODULE BurnDiscoveryProofs --------------------------
(***************************************************************************)
(* What the light attester knows of burns is what the authenticated blocks *)
(* contain, and a burn it takes up stays consumed, proved for chains,      *)
(* anchors and depths of any size.                                         *)
(*                                                                         *)
(* Only the checkpoint is ever compared with the node, so the argument is  *)
(* about links: block identities are fresh, so a node that has the         *)
(* checkpoint's block has every authenticated block below it (Linked).     *)
(* What is deep enough below a checkpoint the node once confirmed is below *)
(* everything the node may still replace (Firm).                           *)
(***************************************************************************)
EXTENDS BurnDiscovery, TLAPS

\* Time, and a second try, for a leaf on a loaded machine; one that names a prover uses that one.
USE SMTT(20), ZenonT(20), SMTT(30)

\* The node's chain: linked, with identities of made blocks, no shorter than allowed.
NodeOK ==
  /\ \A h \in 1 .. Len(node) : node[h].id <= made
  /\ \A h \in 2 .. Len(node) : node[h].prev = node[h - 1].id
  /\ Len(node) <= longest /\ longest - MaxReorg <= Len(node)
  /\ \A k \in 1 .. Len(verified) : verified[k].id <= made
  /\ CheckpointNum <= longest \/ verified = <<>>
  /\ pc # "Down" => verified # <<>>

Height(k) == Anchor - 1 + k

\* The node has the authenticated blocks up to the k-th.
Agrees(k) == \A j \in 1 .. k : Height(j) <= Len(node) /\ node[Height(j)] = verified[j]

\* A node that has the k-th block has all below it.
Linked ==
  \A k \in 1 .. Len(verified) :
    Height(k) <= Len(node) /\ node[Height(k)].id = verified[k].id => Agrees(k)

\* The rows against the authenticated blocks, without naming a least one.
CreatedOK(n) ==
  /\ created[n] = 0 => \A k \in 1 .. Len(verified) : n \notin verified[k].publishes
  /\ created[n] # 0 => \E k \in 1 .. Len(verified) :
       /\ created[n] = Height(k) /\ n \in verified[k].publishes
       /\ \A j \in 1 .. Len(verified) : n \in verified[j].publishes => k <= j

ConsumedOK(n) ==
  /\ consumed[n] = 0 => \A k \in 1 .. Len(verified) :
       n \in verified[k].consumes => created[n] = 0 \/ Height(k) <= created[n]
  /\ consumed[n] # 0 => created[n] # 0
  /\ consumed[n] # 0 => \E k \in 1 .. Len(verified) :
       /\ consumed[n] = Height(k) /\ n \in verified[k].consumes /\ created[n] < Height(k)
       /\ \A j \in 1 .. Len(verified) :
            n \in verified[j].consumes /\ created[n] < Height(j) => k <= j

RowsOK == \A n \in Notes : CreatedOK(n) /\ ConsumedOK(n)

\* With a depth no smaller than what the node may replace: before burns are taken up the
\* node has every block that deep below the checkpoint, and each burn taken up is that deep.
Firm ==
  MaxReorg <= Depth =>
    /\ pc = "Ready" =>
         \/ \A n \in Notes : consumed[n] = 0
         \/ \A k \in 1 .. Len(verified) :
              Height(k) <= CheckpointNum - Depth =>
                Height(k) <= Len(node) /\ node[Height(k)] = verified[k]
    /\ \A n \in offered :
         /\ consumed[n] # 0 /\ consumed[n] <= CheckpointNum - Depth
         /\ consumed[n] <= Len(node) /\ n \in node[consumed[n]].consumes

DiscoveryInv == TypeOK /\ NodeOK /\ Linked /\ RowsOK /\ Firm

-----------------------------------------------------------------------------
(* Saving a block *)

\* The block saved is the node's next one after the checkpoint.
Saves(num) == num = CheckpointNum + 1 /\ num <= Len(node) /\ SaveBlock(node[num], num)

LEMMA SavedSequence ==
  ASSUME TypeOK, NEW num, Saves(num)
  PROVE  /\ Len(verified) \in Nat /\ num = Height(Len(verified) + 1) /\ num \in 1 .. Len(node)
         /\ node[num] \in Blocks
         /\ verified' \in Seq(Blocks) /\ Len(verified') = Len(verified) + 1
         /\ \A k \in 1 .. Len(verified) : verified'[k] = verified[k]
         /\ verified'[Len(verified) + 1] = node[num]
         /\ CheckpointNum' = num
<1>1. Len(verified) \in Nat /\ Len(node) \in Nat /\ Anchor \in Nat /\ Anchor > 0
  BY DiscoveryAssumption DEF TypeOK
<1>2. num = Height(Len(verified) + 1) /\ num \in 1 .. Len(node)
  BY <1>1 DEF Saves, CheckpointNum, Height
<1>3. node[num] \in Blocks
  BY <1>2 DEF TypeOK
<1>4. verified' = Append(verified, node[num])
  BY DEF Saves, SaveBlock
<1>5. /\ verified' \in Seq(Blocks) /\ Len(verified') = Len(verified) + 1
      /\ \A k \in 1 .. Len(verified) : verified'[k] = verified[k]
      /\ verified'[Len(verified) + 1] = node[num]
  BY <1>3, <1>4 DEF TypeOK
<1>6. CheckpointNum' = num
  BY <1>1, <1>2, <1>5 DEF CheckpointNum, Height
<1> QED
  BY <1>1, <1>2, <1>3, <1>5, <1>6

LEMMA SavedTypes ==
  ASSUME TypeOK, NEW num, Saves(num)
  PROVE  created' \in [Notes -> Heights] /\ consumed' \in [Notes -> Heights]
<1>1. num \in Heights
  BY SavedSequence, DiscoveryAssumption DEF TypeOK, Heights
<1> QED
  BY <1>1 DEF TypeOK, Saves, SaveBlock

\* The rows after the block are those of the blocks with it.
LEMMA SavedRows ==
  ASSUME TypeOK, RowsOK, NEW num, Saves(num)
  PROVE  RowsOK'
<1> DEFINE L == Len(verified)
<1>1. /\ L \in Nat /\ num = Height(L + 1) /\ Len(verified') = L + 1
      /\ \A k \in 1 .. L : verified'[k] = verified[k]
      /\ verified'[L + 1] = node[num] /\ Anchor \in Nat /\ Anchor > 0
  BY SavedSequence, DiscoveryAssumption
<1> SUFFICES ASSUME NEW n \in Notes PROVE CreatedOK(n)' /\ ConsumedOK(n)'
  BY DEF RowsOK
<1>2. CreatedOK(n) /\ ConsumedOK(n) /\ created[n] \in Nat /\ consumed[n] \in Nat
  BY DEF RowsOK, TypeOK, Heights
<1>3. /\ created'[n] = IF n \in node[num].publishes /\ created[n] = 0 THEN num ELSE created[n]
      /\ consumed'[n] = IF n \in node[num].consumes /\ created[n] # 0 /\ consumed[n] = 0
                        THEN num ELSE consumed[n]
  BY DEF Saves, SaveBlock, NewBurnNotes, NewBurns
<1>4. \A k \in 1 .. Len(verified') : k \in 1 .. L \/ k = L + 1
  BY <1>1
<1>5. L + 1 \in 1 .. Len(verified') /\ \A k \in 1 .. L : k \in 1 .. Len(verified') /\ k < L + 1
  BY <1>1
<1>6. \A k \in Nat : Height(k) \in Nat \/ k = 0
  BY <1>1 DEF Height
<1>7. \A k, j \in Nat : Height(k) < Height(j) <=> k < j
  BY <1>1 DEF Height
<1>8. num \in Nat /\ num # 0
  BY <1>1 DEF Height
<1> HIDE DEF L
<1>9. CreatedOK(n)'
  <2>1. CASE created[n] # 0
    <3>1. PICK k \in 1 .. L : /\ created[n] = Height(k) /\ n \in verified[k].publishes
                              /\ \A j \in 1 .. L : n \in verified[j].publishes => k <= j
      BY <1>2, <2>1 DEF CreatedOK, L
    <3>2. k \in 1 .. Len(verified') /\ created'[n] = Height(k) /\ n \in verified'[k].publishes
      BY <1>1, <1>3, <1>5, <2>1, <3>1
    <3>3. \A j \in 1 .. Len(verified') : n \in verified'[j].publishes => k <= j
      BY <1>1, <1>4, <3>1
    <3> QED
      BY <1>3, <2>1, <3>2, <3>3 DEF CreatedOK, Height
  <2>2. CASE created[n] = 0 /\ n \in node[num].publishes
    <3>1. created'[n] = num /\ \A j \in 1 .. L : n \notin verified[j].publishes
      BY <1>2, <1>3, <2>2 DEF CreatedOK, L
    <3>2. \A j \in 1 .. Len(verified') : n \in verified'[j].publishes => L + 1 <= j
      BY <1>1, <1>4, <3>1
    <3> QED
      BY <1>1, <1>5, <1>8, <2>2, <3>1, <3>2 DEF CreatedOK, Height
  <2>3. CASE created[n] = 0 /\ n \notin node[num].publishes
    BY <1>1, <1>2, <1>3, <1>4, <2>3 DEF CreatedOK, L
  <2> QED
    BY <2>1, <2>2, <2>3
<1>10. created[n] # 0 => created[n] < num
  <2> SUFFICES ASSUME created[n] # 0 PROVE created[n] < num
    OBVIOUS
  <2>1. PICK k \in 1 .. L : created[n] = Height(k)
    BY <1>2 DEF CreatedOK, L
  <2> QED
    BY <1>1, <1>5, <1>7, <2>1
<1>11. ConsumedOK(n)'
  <2>1. CASE consumed[n] # 0
    <3>1. created[n] # 0 /\ created'[n] = created[n] /\ consumed'[n] = consumed[n]
      BY <1>2, <1>3, <2>1 DEF ConsumedOK
    <3>2. PICK k \in 1 .. L :
            /\ consumed[n] = Height(k) /\ n \in verified[k].consumes /\ created[n] < Height(k)
            /\ \A j \in 1 .. L : n \in verified[j].consumes /\ created[n] < Height(j) => k <= j
      BY <1>2, <2>1 DEF ConsumedOK, L
    <3>3. \A j \in 1 .. Len(verified') :
            n \in verified'[j].consumes /\ created'[n] < Height(j) => k <= j
      BY <1>1, <1>4, <3>1, <3>2
    <3>4. k \in 1 .. Len(verified') /\ n \in verified'[k].consumes
      BY <1>1, <1>5, <3>2
    <3> QED
      BY <2>1, <3>1, <3>2, <3>3, <3>4 DEF ConsumedOK, Height
  <2>2. CASE consumed[n] = 0 /\ created[n] # 0 /\ n \in node[num].consumes
    <3>1. consumed'[n] = num /\ created'[n] = created[n]
      BY <1>3, <2>2
    <3>2. \A j \in 1 .. L : n \in verified[j].consumes => Height(j) <= created[n]
      BY <1>2, <2>2 DEF ConsumedOK, L
    <3>3. ASSUME NEW j \in 1 .. Len(verified'), n \in verified'[j].consumes, created'[n] < Height(j)
          PROVE  L + 1 <= j
      <4>1. CASE j \in 1 .. L
        BY <1>1, <1>2, <1>6, <3>1, <3>2, <3>3, <4>1
      <4> QED
        BY <1>1, <1>4, <4>1
    <3> QED
      BY <1>1, <1>5, <1>8, <1>10, <2>2, <3>1, <3>3 DEF ConsumedOK, Height
  <2>3. CASE consumed[n] = 0 /\ ~(created[n] # 0 /\ n \in node[num].consumes)
    <3>1. consumed'[n] = 0 /\ (created[n] # 0 => created'[n] = created[n])
      BY <1>3, <2>3
    <3>2. ASSUME NEW k \in 1 .. Len(verified'), n \in verified'[k].consumes
          PROVE  created'[n] = 0 \/ Height(k) <= created'[n]
      <4>1. CASE created[n] # 0
        <5>1. k \in 1 .. L
          BY <1>1, <1>4, <2>3, <3>2, <4>1
        <5> QED
          BY <1>1, <1>2, <2>3, <3>1, <3>2, <4>1, <5>1 DEF ConsumedOK, L
      <4>2. CASE created[n] = 0 /\ created'[n] # 0
        <5>1. created'[n] = num /\ k <= L + 1
          BY <1>1, <1>3, <4>2
        <5> QED
          BY <1>1, <5>1 DEF Height
      <4> QED
        BY <4>1, <4>2
    <3> QED
      BY <3>1, <3>2 DEF ConsumedOK, Height
  <2> QED
    BY <2>1, <2>2, <2>3
<1> QED
  BY <1>9, <1>11

\* A saved block is the node's, and so is everything below a parent that matched.
LEMMA SavedLinks ==
  ASSUME TypeOK, NodeOK, Linked, NEW num, Saves(num), UNCHANGED nodeVars,
         verified = <<>> \/ Validates(node[num], Checkpoint)
  PROVE  Linked' /\ Agrees(Len(verified))'
<1> DEFINE L == Len(verified)
<1>1. /\ L \in Nat /\ num = Height(L + 1) /\ Len(verified') = L + 1
      /\ \A k \in 1 .. L : verified'[k] = verified[k]
      /\ verified'[L + 1] = node[num] /\ Anchor \in Nat /\ Anchor > 0
      /\ num <= Len(node) /\ Len(node) \in Nat /\ UNCHANGED node
  BY SavedSequence, DiscoveryAssumption DEF TypeOK, nodeVars
<1>2. Agrees(L)
  <2>1. CASE verified = <<>>
    BY <2>1 DEF Agrees
  <2>2. CASE verified # <<>>
    <3>1. L \in 1 .. L /\ Height(L) = num - 1 /\ num \in 2 .. Len(node)
      BY <1>1, <2>2 DEF Height, TypeOK
    <3>2. node[Height(L)].id = verified[L].id
      BY <2>2, <3>1 DEF NodeOK, Validates, Checkpoint
    <3>3. Height(L) <= Len(node)
      BY <1>1, <3>1
    <3> QED
      BY <3>1, <3>2, <3>3 DEF Linked
  <2> QED
    BY <2>1, <2>2
<1>3. \A k \in 1 .. L : Agrees(k)
  BY <1>1, <1>2 DEF Agrees
<1>4. ASSUME NEW j \in 1 .. (L + 1)
      PROVE  Height(j) <= Len(node) /\ node[Height(j)] = verified'[j]
  <2>1. CASE j \in 1 .. L
    BY <1>1, <1>2, <2>1 DEF Agrees
  <2>2. CASE j = L + 1
    BY <1>1, <2>2
  <2> QED
    BY <1>1, <2>1, <2>2
<1>5. \A k \in 1 .. (L + 1) : Agrees(k)'
  BY <1>1, <1>4 DEF Agrees, Height
<1> QED
  BY <1>1, <1>5 DEF Linked

\* The whole of what a save must keep.
LEMMA SaveStep ==
  ASSUME DiscoveryInv, NEW num, Saves(num), UNCHANGED <<nodeVars, tip, lag, offered, faults>>,
         verified = <<>> \/ Validates(node[num], Checkpoint),
         pc' \in {"Idle", "Scan", "Ready"}
  PROVE  DiscoveryInv'
<1> USE DiscoveryAssumption
<1> DEFINE L == Len(verified)
<1>1. /\ L \in Nat /\ num = Height(L + 1) /\ Len(verified') = L + 1
      /\ \A k \in 1 .. L : verified'[k] = verified[k]
      /\ verified'[L + 1] = node[num] /\ num \in 1 .. Len(node)
      /\ CheckpointNum' = num /\ CheckpointNum \in Nat /\ num = CheckpointNum + 1
      /\ verified' \in Seq(Blocks) /\ Len(node) \in Nat /\ UNCHANGED node
  <2>1. TypeOK
    BY DEF DiscoveryInv
  <2>2. /\ L \in Nat /\ num = Height(L + 1) /\ Len(verified') = L + 1
        /\ \A k \in 1 .. L : verified'[k] = verified[k]
        /\ verified'[L + 1] = node[num] /\ num \in 1 .. Len(node)
        /\ CheckpointNum' = num /\ verified' \in Seq(Blocks)
    BY <2>1, SavedSequence
  <2>3. Len(node) \in Nat /\ CheckpointNum \in Nat
    BY <2>1, <2>2 DEF TypeOK, CheckpointNum
  <2>4. num = CheckpointNum + 1
    BY DEF Saves
  <2>5. UNCHANGED node
    BY DEF nodeVars
  <2> QED
    BY <2>2, <2>3, <2>4, <2>5
<1>2. TypeOK'
  BY <1>1, SavedTypes DEF DiscoveryInv, TypeOK, nodeVars
<1>3. NodeOK'
  <2>1. \A k \in 1 .. Len(verified') : verified'[k].id <= made
    <3>1. node[num].id <= made /\ \A k \in 1 .. L : verified[k].id <= made
      BY <1>1 DEF DiscoveryInv, NodeOK
    <3>2. \A k \in 1 .. Len(verified') : k \in 1 .. L \/ k = L + 1
      BY <1>1
    <3> QED
      BY <1>1, <3>1, <3>2
  <2>2. num <= longest /\ verified' # <<>>
    BY <1>1 DEF DiscoveryInv, NodeOK, TypeOK, Heights
  <2> QED
    BY <1>1, <2>1, <2>2 DEF DiscoveryInv, NodeOK, nodeVars
<1>4. Linked' /\ Agrees(Len(verified))'
  BY SavedLinks DEF DiscoveryInv
<1>5. RowsOK'
  BY SavedRows DEF DiscoveryInv
<1>6. Firm'
  <2> SUFFICES ASSUME MaxReorg <= Depth PROVE Firm'
    BY DEF Firm
  <2>1. \A k \in 1 .. Len(verified') : Height(k) <= Len(node) /\ node[Height(k)] = verified'[k]
    BY <1>1, <1>4 DEF Agrees, Height
  <2>2. ASSUME NEW n \in offered
        PROVE  /\ consumed'[n] # 0 /\ consumed'[n] <= CheckpointNum' - Depth
               /\ consumed'[n] <= Len(node) /\ n \in node[consumed'[n]].consumes
    <3>1. n \in Notes /\ consumed[n] \in Nat
      BY DEF DiscoveryInv, TypeOK, Heights
    <3>2. /\ consumed[n] # 0 /\ consumed[n] <= CheckpointNum - Depth
          /\ consumed[n] <= Len(node) /\ n \in node[consumed[n]].consumes
      BY DEF DiscoveryInv, Firm
    <3>3. consumed'[n] = consumed[n]
      BY <3>1, <3>2 DEF Saves, SaveBlock, NewBurns
    <3> QED
      BY <1>1, <3>1, <3>2, <3>3
  <2> QED
    BY <1>1, <2>1, <2>2 DEF Firm, Height
<1> QED
  BY <1>2, <1>3, <1>4, <1>5, <1>6 DEF DiscoveryInv

-----------------------------------------------------------------------------
(* The node *)

LEMMA BlockId ==
  ASSUME NEW s \in Seq(Blocks), NEW h \in 1 .. Len(s) PROVE s[h] \in Blocks /\ s[h].id \in Nat
<1>1. s[h] \in Blocks
  OBVIOUS
<1> QED
  BY <1>1 DEF Blocks

\* A node that keeps its blocks up to m, and names new ones afresh, breaks no link; what is
\* deep below the checkpoint lies within m.
LEMMA NodeChanges ==
  ASSUME DiscoveryInv, TypeOK', NEW m \in Nat, m <= Len(node), m <= Len(node'),
         \A h \in 1 .. m : node'[h] = node[h],
         \A h \in (m + 1) .. Len(node') : node'[h].id > made,
         longest - MaxReorg <= m,
         NodeOK', UNCHANGED <<storeVars, pc, offered>>
  PROVE  DiscoveryInv'
<1> USE DiscoveryAssumption
<1>1. /\ Len(node) \in Nat /\ Len(node') \in Nat /\ Len(verified) \in Nat /\ Anchor \in Nat /\ Anchor > 0
      /\ CheckpointNum \in Int /\ longest \in Nat /\ UNCHANGED <<created, consumed, verified>>
      /\ \A k \in 1 .. Len(verified) : Height(k) \in Nat /\ Height(k) > 0
  BY DEF DiscoveryInv, TypeOK, Heights, storeVars, CheckpointNum, Height
<1>2. RowsOK'
  BY <1>1 DEF DiscoveryInv, RowsOK, CreatedOK, ConsumedOK, Height
<1>3. Linked'
  <2> SUFFICES ASSUME NEW k \in 1 .. Len(verified), Height(k) <= Len(node'),
                      node'[Height(k)].id = verified[k].id
               PROVE  \A j \in 1 .. k : Height(j) <= Len(node') /\ node'[Height(j)] = verified[j]
    BY <1>1, ZenonT(30) DEF Linked, Agrees, Height
  <2>1. Height(k) <= m
    <3>1. verified[k].id <= made /\ verified[k].id \in Nat /\ made \in Nat
      BY BlockId DEF DiscoveryInv, NodeOK, TypeOK
    <3>2. ~(Height(k) \in (m + 1) .. Len(node'))
      BY <3>1
    <3> QED
      BY <1>1, <3>2
  <2>2. Height(k) \in 1 .. m /\ Height(k) <= Len(node)
    BY <1>1, <2>1
  <2>3. Agrees(k)
    BY <2>2 DEF DiscoveryInv, Linked
  <2>4. \A j \in 1 .. k : Height(j) \in 1 .. m
    BY <1>1, <2>2 DEF Height
  <2>5. \A j \in 1 .. k : Height(j) <= Len(node') /\ node'[Height(j)] = node[Height(j)]
    BY <1>1, <2>4
  <2> QED
    BY <2>3, <2>5 DEF Agrees
<1>4. Firm'
  <2> SUFFICES ASSUME MaxReorg <= Depth PROVE Firm'
    BY DEF Firm
  <2>1. verified # <<>> => CheckpointNum - Depth <= m
    BY <1>1 DEF DiscoveryInv, NodeOK
  <2>2. ASSUME NEW k \in 1 .. Len(verified), Height(k) <= CheckpointNum - Depth
        PROVE  Height(k) \in 1 .. m /\ node'[Height(k)] = node[Height(k)] /\ Height(k) <= Len(node')
    <3>1. verified # <<>>
      BY <1>1
    <3> QED
      BY <1>1, <2>1, <2>2, <3>1
  <2>3. ASSUME NEW n \in offered
        PROVE  /\ consumed[n] # 0 /\ consumed[n] <= CheckpointNum - Depth
               /\ consumed[n] <= Len(node') /\ n \in node'[consumed[n]].consumes
    <3>1. n \in Notes /\ consumed[n] \in Nat
      BY DEF DiscoveryInv, TypeOK, Heights
    <3>2. /\ consumed[n] # 0 /\ consumed[n] <= CheckpointNum - Depth
          /\ consumed[n] <= Len(node) /\ n \in node[consumed[n]].consumes
      BY DEF DiscoveryInv, Firm
    <3>3. PICK k \in 1 .. Len(verified) : consumed[n] = Height(k)
      BY <3>1, <3>2 DEF DiscoveryInv, RowsOK, ConsumedOK
    <3> QED
      BY <1>1, <2>2, <3>2, <3>3
  <2>4. CheckpointNum' = CheckpointNum
    BY <1>1 DEF CheckpointNum
  <2> QED
    BY <1>1, <2>2, <2>3, <2>4, ZenonT(30) DEF DiscoveryInv, Firm, Height
<1> QED
  BY <1>2, <1>3, <1>4 DEF DiscoveryInv

LEMMA NodeStep ==
  ASSUME DiscoveryInv, Node PROVE DiscoveryInv'
<1> USE DiscoveryAssumption
<1>1. /\ node \in Seq(Blocks) /\ Len(node) \in Nat /\ made \in Nat /\ longest \in Nat /\ MaxReorg \in Nat
      /\ Len(node) <= longest /\ longest - MaxReorg <= Len(node) /\ longest <= MaxHeight
      /\ proven \in Nat /\ Len(node) <= MaxHeight
  BY DEF DiscoveryInv, TypeOK, NodeOK, Heights
<1>2. ASSUME NEW P \in SUBSET Notes, NEW C \in SUBSET Notes, Extend(P, C) PROVE DiscoveryInv'
  <2> DEFINE b == [id |-> made + 1, prev |-> IF node = <<>> THEN 0 ELSE node[Len(node)].id,
                   publishes |-> P, consumes |-> C]
  <2>1. b \in Blocks
    <3>1. node # <<>> => Len(node) \in 1 .. Len(node)
      BY <1>1
    <3>2. (IF node = <<>> THEN 0 ELSE node[Len(node)].id) \in Nat /\ made + 1 \in Nat
      BY <1>1, <3>1, BlockId
    <3> QED
      BY <3>2 DEF Blocks
  <2>2. /\ node' = Append(node, b) /\ made' = made + 1 /\ UNCHANGED <<storeVars, pc, offered>>
        /\ longest' = IF Len(node') > longest THEN Len(node') ELSE longest
        /\ UNCHANGED <<proven, tip, lag, faults>> /\ Len(node) < MaxHeight
    BY <1>2 DEF Extend
  <2>3. b.id = made + 1 /\ (node # <<>> => b.prev = node[Len(node)].id)
    OBVIOUS
  <2> HIDE DEF b
  <2>4. /\ node' \in Seq(Blocks) /\ Len(node') = Len(node) + 1
        /\ \A h \in 1 .. Len(node) : node'[h] = node[h]
        /\ node'[Len(node) + 1] = b
    BY <1>1, <2>1, <2>2
  <2>5. longest' \in Heights /\ Len(node') <= longest' /\ longest <= longest'
        /\ longest' - MaxReorg <= Len(node')
    BY <1>1, <2>2, <2>4 DEF Heights
  <2>6. TypeOK'
    BY <1>1, <2>2, <2>4, <2>5 DEF DiscoveryInv, TypeOK, storeVars
  <2>7. NodeOK'
    <3>1. \A h \in 1 .. Len(node') : node'[h].id <= made'
      <4>1. \A h \in 1 .. Len(node) : node[h].id <= made /\ node[h].id \in Nat
        BY <1>1, BlockId DEF DiscoveryInv, NodeOK
      <4>2. \A h \in 1 .. Len(node') : h \in 1 .. Len(node) \/ h = Len(node) + 1
        BY <1>1, <2>4
      <4> QED
        BY <1>1, <2>2, <2>3, <2>4, <4>1, <4>2
    <3>2. ASSUME NEW h \in 2 .. Len(node') PROVE node'[h].prev = node'[h - 1].id
      <4>1. CASE h \in 2 .. Len(node)
        <5>1. h \in 1 .. Len(node) /\ h - 1 \in 1 .. Len(node)
          BY <1>1, <4>1
        <5>2. node[h].prev = node[h - 1].id
          BY <4>1 DEF DiscoveryInv, NodeOK
        <5> QED
          BY <2>4, <5>1, <5>2
      <4>2. CASE h = Len(node) + 1
        <5>1. node # <<>> /\ Len(node) \in 1 .. Len(node) /\ h - 1 = Len(node)
          BY <1>1, <4>2
        <5> QED
          BY <2>3, <2>4, <4>2, <5>1
      <4> QED
        BY <1>1, <2>4, <4>1, <4>2
    <3>3. \A k \in 1 .. Len(verified') : verified'[k].id <= made'
      <4>1. \A k \in 1 .. Len(verified) : verified[k].id <= made /\ verified[k].id \in Nat
        BY BlockId DEF DiscoveryInv, NodeOK, TypeOK
      <4> QED
        BY <1>1, <2>2, <4>1 DEF storeVars
    <3>4. CheckpointNum' <= longest' \/ verified' = <<>>
      BY <1>1, <2>2, <2>5 DEF DiscoveryInv, NodeOK, TypeOK, storeVars, CheckpointNum, Heights
    <3> QED
      BY <2>2, <2>5, <3>1, <3>2, <3>3, <3>4 DEF DiscoveryInv, NodeOK, storeVars
  <2>8. \A h \in (Len(node) + 1) .. Len(node') : node'[h].id > made
    BY <1>1, <2>3, <2>4
  <2>9. Len(node) <= Len(node')
    BY <1>1, <2>4
  <2> QED
    BY <1>1, <2>2, <2>4, <2>6, <2>7, <2>8, <2>9, NodeChanges
<1>3. CASE Prove
  <2>1. UNCHANGED <<node, longest, made, storeVars, pc, tip, lag, offered, faults>> /\ proven' \in Heights
    BY <1>1, <1>3 DEF Prove, Heights
  <2>2. TypeOK' /\ NodeOK'
    BY <2>1 DEF DiscoveryInv, TypeOK, NodeOK, storeVars, CheckpointNum
  <2>3. \A h \in (Len(node) + 1) .. Len(node') : node'[h].id > made
    BY <1>1, <2>1
  <2> QED
    BY <1>1, <2>1, <2>2, <2>3, NodeChanges
<1>4. ASSUME NEW height \in Heights, Reorg(height) PROVE DiscoveryInv'
  <2>1. /\ node' = SubSeq(node, 1, height) /\ height < Len(node) /\ height >= longest - MaxReorg
        /\ UNCHANGED <<longest, made, storeVars, pc, tip, lag, offered>>
        /\ faults' \in 0 .. MaxFaults /\ proven' \in Heights /\ height \in Nat
    BY <1>1, <1>4 DEF Reorg, Fault, DiscoveryInv, TypeOK, Heights
  <2>2. /\ node' \in Seq(Blocks) /\ Len(node') = height
        /\ \A h \in 1 .. height : node'[h] = node[h]
    BY <1>1, <2>1
  <2>3. TypeOK'
    BY <1>1, <2>1, <2>2 DEF DiscoveryInv, TypeOK, storeVars
  <2>4. NodeOK'
    <3>1. \A h \in 1 .. height : node'[h].id <= made
      BY <1>1, <2>1, <2>2 DEF DiscoveryInv, NodeOK
    <3>2. \A h \in 2 .. height : node'[h].prev = node'[h - 1].id
      BY <1>1, <2>1, <2>2 DEF DiscoveryInv, NodeOK
    <3> QED
      BY <1>1, <2>1, <2>2, <3>1, <3>2 DEF DiscoveryInv, NodeOK, storeVars, CheckpointNum
  <2>5. \A h \in (height + 1) .. Len(node') : node'[h].id > made
    BY <1>1, <2>1, <2>2
  <2> QED
    BY <1>1, <2>1, <2>2, <2>3, <2>4, <2>5, NodeChanges
<1> QED
  BY <1>2, <1>3, <1>4 DEF Node

-----------------------------------------------------------------------------
(* The process *)

\* A step that touches neither the chain nor the store and leads to no new burns.
LEMMA QuietStep ==
  ASSUME DiscoveryInv, UNCHANGED <<nodeVars, storeVars, offered>>,
         tip' \in Heights, lag' \in Heights, faults' \in 0 .. MaxFaults,
         pc' \in {"Down", "Idle", "Limits", "Compare", "Scan"},
         pc' # "Down" => pc # "Down" \/ verified # <<>>
  PROVE  DiscoveryInv'
<1>1. TypeOK' /\ NodeOK'
  BY DEF DiscoveryInv, TypeOK, NodeOK, nodeVars, storeVars, CheckpointNum
<1>2. Linked' /\ RowsOK'
  BY DEF DiscoveryInv, Linked, Agrees, RowsOK, CreatedOK, ConsumedOK, Height, nodeVars, storeVars
<1>3. Firm'
  BY DEF DiscoveryInv, Firm, CheckpointNum, nodeVars, storeVars
<1> QED
  BY <1>1, <1>2, <1>3 DEF DiscoveryInv

\* A step that touches neither, after which the ready burns are taken up.
LEMMA ReadyStep ==
  ASSUME DiscoveryInv, UNCHANGED <<nodeVars, storeVars, offered, tip, faults>>,
         lag' \in Heights, pc # "Down", pc' = "Ready",
         AgreesAtCheckpoint \/ \A n \in Notes : consumed[n] = 0
  PROVE  DiscoveryInv'
<1>1. TypeOK' /\ NodeOK'
  BY DEF DiscoveryInv, TypeOK, NodeOK, nodeVars, storeVars, CheckpointNum
<1>2. Linked' /\ RowsOK'
  BY DEF DiscoveryInv, Linked, Agrees, RowsOK, CreatedOK, ConsumedOK, Height, nodeVars, storeVars
<1>3. AgreesAtCheckpoint => \A k \in 1 .. Len(verified) : Height(k) <= Len(node) /\ node[Height(k)] = verified[k]
  <2> SUFFICES ASSUME AgreesAtCheckpoint PROVE Agrees(Len(verified))
    BY DEF Agrees
  <2>1. Len(verified) \in 1 .. Len(verified) /\ CheckpointNum = Height(Len(verified))
    BY DEF DiscoveryInv, NodeOK, TypeOK, CheckpointNum, Height
  <2> QED
    BY <2>1 DEF DiscoveryInv, Linked, AgreesAtCheckpoint, Checkpoint
<1>4. Firm'
  BY <1>3 DEF DiscoveryInv, Firm, CheckpointNum, nodeVars, storeVars, Height
<1> QED
  BY <1>1, <1>2, <1>4 DEF DiscoveryInv

\* At the anchor nothing is consumed yet.
LEMMA NothingAtAnchor ==
  ASSUME DiscoveryInv, CheckpointNum = Anchor PROVE \A n \in Notes : consumed[n] = 0
<1> SUFFICES ASSUME NEW n \in Notes, consumed[n] # 0 PROVE FALSE
  OBVIOUS
<1>1. Len(verified) = 1 /\ Anchor \in Nat /\ created[n] # 0
  <2>1. Len(verified) \in Nat /\ Anchor \in Nat
    BY DiscoveryAssumption DEF DiscoveryInv, TypeOK
  <2>2. created[n] # 0
    BY DEF DiscoveryInv, RowsOK, ConsumedOK
  <2>3. Anchor - 1 + Len(verified) = Anchor
    BY DEF CheckpointNum
  <2>4. Len(verified) = 1
    BY <2>1, <2>3
  <2> QED
    BY <2>1, <2>2, <2>4
<1>2. PICK k \in 1 .. Len(verified) : created[n] < Height(k)
  BY DEF DiscoveryInv, RowsOK, ConsumedOK
<1>3. PICK j \in 1 .. Len(verified) : created[n] = Height(j)
  BY <1>1 DEF DiscoveryInv, RowsOK, CreatedOK
<1> QED
  BY <1>1, <1>2, <1>3 DEF Height

LEMMA ProcessStep ==
  ASSUME DiscoveryInv, Start \/ Exit \/ DiscoveryFails \/ Discovery PROVE DiscoveryInv'
<1> USE DiscoveryAssumption
<1>0. TypeOK /\ 0 \in Heights /\ Len(node) \in Heights /\ tip \in Heights /\ lag \in Heights /\ proven \in Heights
      /\ faults \in 0 .. MaxFaults
  BY DEF DiscoveryInv, TypeOK, Heights
<1>1. CASE Start
  <2>1. CASE verified = <<>> /\ SaveBlock(node[Anchor], Anchor)
    <3>1. Saves(Anchor)
      BY <1>0, <1>1, <2>1 DEF Start, Saves, CheckpointNum
    <3> QED
      BY <1>1, <2>1, <3>1, SaveStep DEF Start
  <2>2. CASE verified # <<>> /\ UNCHANGED storeVars
    BY <1>0, <1>1, <2>2, QuietStep DEF Start
  <2> QED
    BY <1>1, <2>1, <2>2 DEF Start
<1>2. CASE Exit
  BY <1>0, <1>2, QuietStep DEF Exit, Fault
<1>3. CASE DiscoveryFails
  BY <1>0, <1>3, QuietStep DEF DiscoveryFails, Fault
<1>4. CASE ReadTip
  BY <1>0, <1>4, QuietStep DEF ReadTip
<1>5. CASE ReadProven
  <2>1. CASE pc' = "Ready"
    BY <1>0, <1>5, <2>1, ReadyStep, NothingAtAnchor DEF ReadProven
  <2>2. CASE pc' # "Ready"
    BY <1>0, <1>5, <2>2, QuietStep DEF ReadProven
  <2> QED
    BY <2>1, <2>2
<1>6. CASE CompareCheckpoint
  <2>1. CASE AgreesAtCheckpoint
    BY <1>0, <1>6, <2>1, ReadyStep DEF CompareCheckpoint
  <2>2. CASE ~AgreesAtCheckpoint
    BY <1>0, <1>6, <2>2, QuietStep DEF CompareCheckpoint
  <2> QED
    BY <2>1, <2>2
<1>7. CASE ScanBlock
  <2> DEFINE num == CheckpointNum + 1
  <2>1. CASE Validates(node[num], Checkpoint)
    <3>1. Saves(num) /\ pc' \in {"Scan", "Ready"} /\ UNCHANGED <<nodeVars, tip, lag, offered, faults>>
      BY <1>7, <2>1 DEF ScanBlock, Saves
    <3> QED
      BY <2>1, <3>1, SaveStep
  <2>2. CASE ~Validates(node[num], Checkpoint)
    BY <1>0, <1>7, <2>2, QuietStep DEF ScanBlock
  <2> QED
    BY <2>1, <2>2
<1>8. CASE OfferBurns
  <2>1. /\ UNCHANGED <<nodeVars, storeVars, faults>> /\ offered' = offered \cup ReadyBurns
        /\ pc = "Ready" /\ pc' = "Idle" /\ tip' = 0 /\ lag' = 0
    BY <1>8 DEF OfferBurns
  <2>2. TypeOK' /\ NodeOK'
    BY <1>0, <2>1 DEF DiscoveryInv, TypeOK, NodeOK, nodeVars, storeVars, CheckpointNum, ReadyBurns
  <2>3. Linked' /\ RowsOK'
    BY <2>1 DEF DiscoveryInv, Linked, Agrees, RowsOK, CreatedOK, ConsumedOK, Height, nodeVars,
       storeVars
  <2>4. ASSUME MaxReorg <= Depth, NEW n \in ReadyBurns
        PROVE  /\ consumed[n] # 0 /\ consumed[n] <= CheckpointNum - Depth
               /\ consumed[n] <= Len(node) /\ n \in node[consumed[n]].consumes
    <3>1. n \in Notes /\ consumed[n] # 0 /\ consumed[n] <= CheckpointNum - Depth
      BY <2>4 DEF ReadyBurns
    <3>2. PICK k \in 1 .. Len(verified) : consumed[n] = Height(k) /\ n \in verified[k].consumes
      BY <3>1 DEF DiscoveryInv, RowsOK, ConsumedOK
    <3>3. Height(k) <= Len(node) /\ node[Height(k)] = verified[k]
      BY <2>1, <2>4, <3>1, <3>2 DEF DiscoveryInv, Firm
    <3> QED
      BY <3>1, <3>2, <3>3
  <2>5. Firm'
    BY <2>1, <2>4 DEF DiscoveryInv, Firm, CheckpointNum, nodeVars, storeVars
  <2> QED
    BY <2>2, <2>3, <2>5 DEF DiscoveryInv
<1> QED
  BY <1>1, <1>2, <1>3, <1>4, <1>5, <1>6, <1>7, <1>8 DEF Discovery

LEMMA DiscoveryInit == Init => DiscoveryInv
<1> USE DiscoveryAssumption
<1> SUFFICES ASSUME Init PROVE DiscoveryInv
  OBVIOUS
<1>1. PICK published \in [1 .. Anchor -> SUBSET Notes] : node = FirstBlocks(published)
  BY DEF Init
<1>2. /\ node \in Seq(Blocks) /\ Len(node) = Anchor
      /\ \A h \in 1 .. Anchor : node[h].id = h /\ node[h].prev = h - 1
  <2>1. \A h \in 1 .. Anchor : [id |-> h, prev |-> h - 1, publishes |-> published[h], consumes |-> {}] \in Blocks
    BY DEF Blocks
  <2> QED
    BY <1>1, <2>1 DEF FirstBlocks
<1>3. TypeOK
  BY <1>2 DEF Init, TypeOK, Heights
<1>4. NodeOK
  BY <1>2 DEF Init, NodeOK
<1>5. Linked /\ RowsOK /\ Firm
  BY DEF Init, Linked, RowsOK, CreatedOK, ConsumedOK, Firm
<1> QED
  BY <1>3, <1>4, <1>5 DEF DiscoveryInv

LEMMA DiscoveryStep == DiscoveryInv /\ [Next]_vars => DiscoveryInv'
<1> SUFFICES ASSUME DiscoveryInv, [Next]_vars PROVE DiscoveryInv'
  OBVIOUS
<1>1. CASE UNCHANGED vars
  BY <1>1, ZenonT(30) DEF vars, nodeVars, storeVars, DiscoveryInv, TypeOK, NodeOK, Linked, Agrees, RowsOK,
              CreatedOK, ConsumedOK, Firm, CheckpointNum, Height
<1> QED
  BY <1>1, ProcessStep, NodeStep DEF Next

LEMMA DiscoveryAlways == Spec => []DiscoveryInv
  BY DiscoveryInit, DiscoveryStep, PTL DEF Spec

-----------------------------------------------------------------------------
(* Theorems *)

\* The store's rows and checkpoint and the node's chain keep their types (discover_burns).
THEOREM DiscoveryTypes == Spec => []TypeOK
<1>1. DiscoveryInv => TypeOK
  BY DEF DiscoveryInv
<1> QED
  BY <1>1, DiscoveryAlways, PTL

\* The rows are exactly what the authenticated blocks contain, whatever stopped between two
\* blocks (save_block).
THEOREM RowsAreTheEvidence == Spec => []EvidenceComplete
<1>1. DiscoveryInv => EvidenceComplete
  <2> SUFFICES ASSUME DiscoveryInv, NEW n \in Notes
               PROVE  created[n] = FirstPublished(n) /\ consumed[n] = ConsumedAfter(n)
    BY DEF EvidenceComplete
  <2>1. CreatedOK(n) /\ ConsumedOK(n) /\ DOMAIN verified = 1 .. Len(verified)
        /\ created[n] \in Nat /\ consumed[n] \in Nat /\ Len(verified) \in Nat
        /\ Anchor \in Nat /\ Anchor > 0
    BY DiscoveryAssumption DEF DiscoveryInv, RowsOK, TypeOK, Heights
  <2>2. created[n] = FirstPublished(n)
    <3> DEFINE S == {h \in DOMAIN verified : n \in verified[h].publishes}
    <3>1. CASE created[n] = 0
      <4>1. S = {}
        BY <2>1, <3>1 DEF CreatedOK
      <4> QED
        BY <3>1, <4>1 DEF FirstPublished
    <3>2. CASE created[n] # 0
      <4>1. PICK k \in S : created[n] = Height(k) /\ \A j \in S : k <= j
        BY <2>1, <3>2 DEF CreatedOK
      <4>2. \A h \in S : (\A g \in S : h <= g) => h = k
        BY <2>1, <4>1
      <4> HIDE DEF S
      <4>3. (CHOOSE h \in S : \A g \in S : h <= g) = k
        BY <4>1, <4>2
      <4> QED
        BY <4>1, <4>3, ZenonT(30) DEF FirstPublished, Height, S
    <3> QED
      BY <3>1, <3>2
  <2>3. consumed[n] = ConsumedAfter(n)
    <3> DEFINE S == {h \in DOMAIN verified : n \in verified[h].consumes /\ FirstPublished(n) # 0
                                               /\ Anchor - 1 + h > FirstPublished(n)}
    <3>0. \A h : h \in S <=> h \in 1 .. Len(verified) /\ n \in verified[h].consumes
                               /\ created[n] # 0 /\ created[n] < Height(h)
      BY <2>1, <2>2 DEF Height
    <3> HIDE DEF S
    <3>1. CASE consumed[n] = 0
      <4>1. S = {}
        <5> SUFFICES ASSUME NEW h \in S PROVE FALSE
          OBVIOUS
        <5>1. h \in Nat /\ created[n] < Height(h) /\ Height(h) <= created[n]
          BY <2>1, <3>0, <3>1 DEF ConsumedOK
        <5> QED
          BY <2>1, <5>1 DEF Height
      <4> QED
        BY <3>1, <4>1 DEF ConsumedAfter, S
    <3>2. CASE consumed[n] # 0
      <4>1. PICK k \in S : consumed[n] = Height(k) /\ \A j \in S : k <= j
        BY <2>1, <3>0, <3>2 DEF ConsumedOK
      <4>2. \A h \in S : (\A g \in S : h <= g) => h = k
        BY <2>1, <3>0, <4>1
      <4>3. (CHOOSE h \in S : \A g \in S : h <= g) = k
        BY <4>1, <4>2
      <4> QED
        BY <4>1, <4>3, ZenonT(30) DEF ConsumedAfter, Height, S
    <3> QED
      BY <3>1, <3>2
  <2> QED
    BY <2>2, <2>3
<1> QED
  BY <1>1, DiscoveryAlways, PTL

\* A burn taken up for withdrawal is consumed on the node's chain and stays so, for every
\* depth no smaller than what the node may replace (burns_ready_for_withdrawal).
THEOREM OfferedStaysConsumed == Spec => []OfferedIsFinal
<1>1. DiscoveryInv => OfferedIsFinal
  <2> SUFFICES ASSUME DiscoveryInv, MaxReorg <= Depth, NEW n \in offered
               PROVE  consumed[n] \in DOMAIN node /\ n \in node[consumed[n]].consumes
    BY DEF OfferedIsFinal
  <2>1. n \in Notes /\ consumed[n] \in Nat /\ DOMAIN node = 1 .. Len(node) /\ Len(node) \in Nat
    BY DEF DiscoveryInv, TypeOK, Heights
  <2> QED
    BY <2>1 DEF DiscoveryInv, Firm
<1> QED
  BY <1>1, DiscoveryAlways, PTL

\* New burns are taken up only in a cycle in which the node confirmed the checkpoint, or
\* while there is no burn (discover_burns).
THEOREM AgreementFirst == Spec => NewWorkNeedsAgreement
<1>1. DiscoveryInv /\ [Next]_vars =>
        [pc # "Ready" /\ pc' = "Ready" =>
           \/ CheckpointNum' <= Len(node) /\ node[CheckpointNum'].id = Checkpoint'.id
           \/ CheckpointNum = Anchor /\ \A n \in Notes : consumed[n] = 0]_vars
  <2> SUFFICES ASSUME DiscoveryInv, [Next]_vars, pc # "Ready", pc' = "Ready"
               PROVE  \/ CheckpointNum' <= Len(node) /\ node[CheckpointNum'].id = Checkpoint'.id
                      \/ CheckpointNum = Anchor /\ \A n \in Notes : consumed[n] = 0
    OBVIOUS
  <2>1. ReadProven \/ CompareCheckpoint \/ ScanBlock
    BY ZenonT(30) DEF Next, vars, Start, Exit, Discovery, ReadTip, OfferBurns, DiscoveryFails, Node, Extend,
           Prove, Reorg
  <2>2. CASE ReadProven
    BY <2>2, NothingAtAnchor DEF ReadProven
  <2>3. CASE CompareCheckpoint
    BY <2>3 DEF CompareCheckpoint, AgreesAtCheckpoint, storeVars, CheckpointNum, Checkpoint
  <2>4. CASE ScanBlock
    <3>1. Saves(CheckpointNum + 1)
      BY <2>4 DEF ScanBlock, Saves
    <3>2. /\ CheckpointNum' = CheckpointNum + 1 /\ CheckpointNum + 1 \in 1 .. Len(node)
          /\ Checkpoint' = node[CheckpointNum + 1]
      BY <3>1, SavedSequence DEF DiscoveryInv, Checkpoint
    <3> QED
      BY <3>2
  <2> QED
    BY <2>1, <2>2, <2>3, <2>4
<1> QED
  BY <1>1, DiscoveryAlways, PTL DEF Spec, NewWorkNeedsAgreement

=============================================================================
