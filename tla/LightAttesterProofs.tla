-------------------------- MODULE LightAttesterProofs --------------------------
(***************************************************************************)
(* The light attester as one task signs only for burns that are, and stay, *)
(* on the node's chain, and Circle never has more withdrawals of a note    *)
(* than the chain has burns of it: for every set of notes, waiting depth,  *)
(* chain bound and fault bound.                                            *)
(*                                                                         *)
(* Each half brings its own result.  Every step of the task is a step of   *)
(* BurnDiscovery or leaves it alone, so what a cycle was offered stays     *)
(* consumed (OfferedStaysConsumed).  The withdrawal half keeps the         *)
(* invariant of Withdrawals, although its burns now come from discovery.   *)
(* AttesterInv joins them: what is signed, listed for a signature or being *)
(* prepared was offered, and discovery moves only between cycles.          *)
(***************************************************************************)
EXTENDS LightAttester, WithdrawalsProofs

\* Time, and a second try, for a leaf on a loaded machine; one that names a prover uses that one.
USE SMTT(20), ZenonT(20), SMTT(30)

Discovery == INSTANCE BurnDiscoveryProofs WITH
  faults <- chainFaults, MaxFaults <- MaxChainFaults

\* Signed for, listed for a signature by this cycle, or being prepared.
TakenUp(n) == signed[n] # 0 \/ n \in todo["Submit"] \/ (step = "Prepare" /\ note = n)

\* Only offered burns are taken up.
OfferedFirst == \A n \in Notes : TakenUp(n) => n \in offered

\* Discovery is under way only between cycles.
DiscoversBetween == pc \notin {"Down", "Idle"} => phase = "Idle"

AttesterInv == IInv /\ OfferedFirst /\ DiscoversBetween

-----------------------------------------------------------------------------
(* The two instances of BurnDiscovery are one *)

LEMMA SameInit == Chain!Init <=> Discovery!Init
  BY Zenon DEF Chain!Init, Discovery!Init, Chain!FirstBlocks, Discovery!FirstBlocks

LEMMA SameSteps == Chain!Next => Discovery!Next
  BY Zenon
  DEF Chain!Next, Chain!Discovery, Chain!Exit, Chain!ReadTip, Chain!ReadProven,
      Chain!CompareCheckpoint, Chain!ScanBlock, Chain!Validates, Chain!OfferBurns,
      Chain!ReadyBurns, Chain!DiscoveryFails, Chain!Node, Chain!Extend, Chain!Prove, Chain!Reorg,
      Chain!Heights, Chain!PublishedOn, Chain!ConsumedOn, Chain!Fault, Chain!Start,
      Chain!SaveBlock, Chain!AgreesAtCheckpoint, Chain!CheckpointNum, Chain!Checkpoint,
      Chain!NewBurnNotes, Chain!NewBurns, Chain!nodeVars, Chain!storeVars,
      Discovery!Next, Discovery!Discovery, Discovery!Exit, Discovery!ReadTip,
      Discovery!ReadProven, Discovery!CompareCheckpoint, Discovery!ScanBlock,
      Discovery!Validates, Discovery!OfferBurns, Discovery!ReadyBurns,
      Discovery!DiscoveryFails, Discovery!Node, Discovery!Extend, Discovery!Prove,
      Discovery!Reorg, Discovery!Heights, Discovery!PublishedOn, Discovery!ConsumedOn,
      Discovery!Fault, Discovery!Start, Discovery!SaveBlock, Discovery!AgreesAtCheckpoint,
      Discovery!CheckpointNum, Discovery!Checkpoint, Discovery!NewBurnNotes,
      Discovery!NewBurns, Discovery!nodeVars, Discovery!storeVars

\* A step of the task is one of discovery, or leaves the chain and its evidence alone.
LEMMA StepOfChain == [AttesterNext]_allVars => [Chain!Next]_Chain!vars
<1> SUFFICES ASSUME [AttesterNext]_allVars PROVE [Chain!Next]_Chain!vars
  OBVIOUS
<1>1. CASE StartAttester \/ Stop \/ BeginCycle \/ Discover \/ TakeUp \/ CarryOn \/ Grow
  BY <1>1, Zenon DEF StartAttester, Stop, BeginCycle, Discover, TakeUp, CarryOn, Grow,
                     Chain!Next, Chain!Discovery
<1>2. CASE Work \/ UNCHANGED allVars
  <2>1. UNCHANGED chainVars
    BY <1>2, Zenon DEF Work, allVars
  <2> QED
    BY <2>1, Zenon DEF chainVars, Chain!vars, Chain!nodeVars, Chain!storeVars
<1> QED
  BY <1>1, <1>2, Zenon DEF AttesterNext

\* What the task does to the node's chain, the evidence and the offers is what discovery does:
\* the composition adds no behaviour to it (discover_burns within cycle).
THEOREM KeepsToDiscovery == AttesterSpec => Chain!Spec
<1>1. AttesterInit => Chain!Init
  BY Zenon DEF AttesterInit
<1>2. [AttesterNext]_allVars => [Chain!Next]_Chain!vars
  BY StepOfChain
<1> QED
  BY <1>1, <1>2, PTL DEF AttesterSpec, Chain!Spec

LEMMA DiscoverySpec == AttesterSpec => Discovery!Spec
<1>1. [Chain!Next]_Chain!vars => [Discovery!Next]_Discovery!vars
  <2>1. UNCHANGED Chain!vars => UNCHANGED Discovery!vars
    BY Zenon DEF Chain!vars, Chain!nodeVars, Chain!storeVars, Discovery!vars,
                 Discovery!nodeVars, Discovery!storeVars
  <2> QED
    BY <2>1, SameSteps, Zenon
<1> QED
  BY <1>1, SameInit, KeepsToDiscovery, PTL DEF Chain!Spec, Discovery!Spec

\* A burn some cycle was offered is consumed on the node's chain and stays so, with withdrawals,
\* failures and stops between the discoveries (burns_ready_for_withdrawal).
THEOREM OffersStayFinal == AttesterSpec => []Chain!OfferedIsFinal
<1>1. Discovery!OfferedIsFinal => Chain!OfferedIsFinal
  BY Zenon DEF Discovery!OfferedIsFinal, Chain!OfferedIsFinal
<1> QED
  BY <1>1, DiscoverySpec, ChainAssumption, Discovery!OfferedStaysConsumed, PTL

-----------------------------------------------------------------------------
(* What the phases of a cycle take up *)

\* A cycle's own steps sign for, list and prepare nothing that was not taken up before, and
\* nothing starts one but its snapshot.
TakesUpNothing ==
  /\ \A n \in Notes : TakenUp(n)' => TakenUp(n)
  /\ phase = "Idle" => phase' = "Idle"

\* A step that leaves the work and the signatures alone takes up nothing.
LEMMA QuietTakesUpNothing ==
  ASSUME UNCHANGED <<signed, processVars>>
  PROVE  TakesUpNothing
BY Zenon DEF TakesUpNothing, TakenUp, processVars

\* Control back at rest: nothing is listed.
LEMMA RestTakesUpNothing ==
  ASSUME UNCHANGED signed, NEW p, RestAt(p), phase = "Idle" => p = "Idle"
  PROVE  TakesUpNothing
BY Zenon DEF TakesUpNothing, TakenUp, RestAt, NoTodo, CyclePhases

\* The item in hand is done.
LEMMA DoneTakesUpNothing ==
  ASSUME UNCHANGED signed, ItemDone
  PROVE  TakesUpNothing
BY Zenon DEF TakesUpNothing, TakenUp, ItemDone

\* Between cycles nothing is in hand.
LEMMA InHand == IInv /\ phase = "Idle" => step = "Next"
BY Zenon DEF IInv, ControlOK, CyclePhases

LEMMA SaveTakesUpNothing ==
  ASSUME NEW outcome, NEW after, SaveOutcome(outcome, after)
  PROVE  TakesUpNothing
<1>1. CASE sub[note].status # "None"
  BY <1>1, DoneTakesUpNothing, Zenon DEF SaveOutcome, UpdateSubmissionOutcome
<1>2. CASE sub[note].status = "None"
  BY <1>2, RestTakesUpNothing, Zenon DEF SaveOutcome, storeVars
<1> QED
  BY <1>1, <1>2, Zenon

LEMMA PhasesTakeUpNothing ==
  ASSUME IInv, PhaseEnds \/ Send \/ \E n \in Notes : PickBurn(n) \/ PickSaved(n)
  PROVE  TakesUpNothing
<1>0. todo \in [CyclePhases -> SUBSET Notes] /\ "Submit" \in CyclePhases /\ "Idle" \notin CyclePhases
  BY DEF IInv, TypeOK, CyclePhases
<1>1. CASE PhaseEnds
  <2>1. phase \in CyclePhases /\ todo' = [todo EXCEPT ![phase] = {}]
        /\ UNCHANGED <<signed, step, note>>
    BY <1>1, Zenon DEF PhaseEnds, storeVars
  <2> QED
    BY <1>0, <2>1, ZenonT(30) DEF TakesUpNothing, TakenUp
<1>2. CASE Send
  <2>1. phase' = phase /\ todo' = todo /\ step' = "Reply" /\ UNCHANGED signed
    BY <1>2, Zenon DEF Send, storeVars
  <2> QED
    BY <2>1, Zenon DEF TakesUpNothing, TakenUp
<1>3. ASSUME NEW n \in Notes, PickBurn(n) PROVE TakesUpNothing
  <2>1. phase = "Submit" /\ n \in todo["Submit"] /\ phase' = phase /\ note' = n
        /\ todo' = [todo EXCEPT !["Submit"] = @ \ {n}] /\ UNCHANGED signed
    BY <1>3, Zenon DEF PickBurn, IsNext
  <2> QED
    BY <1>0, <2>1, Zenon DEF TakesUpNothing, TakenUp
<1>4. ASSUME NEW n \in Notes, PickSaved(n) PROVE TakesUpNothing
  <2>1. phase \in CyclePhases /\ phase # "Submit" /\ phase' = phase /\ UNCHANGED signed
        /\ todo' = [todo EXCEPT ![phase] = @ \ {n}] /\ step' # "Prepare"
    BY <1>4, Zenon DEF PickSaved, CyclePhases
  <2> QED
    BY <1>0, <2>1, Zenon DEF TakesUpNothing, TakenUp
<1> QED
  BY <1>1, <1>2, <1>3, <1>4, ZenonT(30)

LEMMA PrepareTakesUpNothing ==
  ASSUME IInv, Prepare
  PROVE  TakesUpNothing
<1>0. note \in Notes /\ phase # "Idle" /\ signed \in [Notes -> Nat] /\ step = "Prepare"
  <2>1. step = "Prepare"
    BY Zenon DEF Prepare, PrepareSigned, PrepareHeld, PrepareLimit, PrepareFails, Preparing
  <2> QED
    BY <2>1, InHand, ZenonT(30) DEF IInv, ControlOK, TypeOK, StoreTypeOK
<1>1. CASE PrepareSigned
  <2>1. CASE CanSave(note)
    <3>1. signed' = [signed EXCEPT ![note] = @ + 1] /\ todo' = todo /\ step' = "Send"
      BY <1>1, <2>1, ZenonT(30) DEF PrepareSigned, SaveSubmission
    <3> QED
      BY <1>0, <3>1, Zenon DEF TakesUpNothing, TakenUp
  <2>2. CASE ~ CanSave(note)
    BY <1>1, <2>2, RestTakesUpNothing, ZenonT(30) DEF PrepareSigned, storeVars
  <2> QED
    BY <2>1, <2>2, Zenon
<1>2. ASSUME NEW reason, PrepareHeld(reason) PROVE TakesUpNothing
  BY <1>2, DoneTakesUpNothing, Zenon DEF PrepareHeld, HoldBurn
<1>3. CASE PrepareLimit
  <2>1. UNCHANGED signed /\ (ItemDone \/ RestAt("Idle"))
    BY <1>3, Zenon DEF PrepareLimit, RecordLimitRejection, storeVars
  <2> QED
    BY <2>1, DoneTakesUpNothing, RestTakesUpNothing, ZenonT(30)
<1>4. ASSUME NEW after, PrepareFails(after) PROVE TakesUpNothing
  BY <1>4, DoneTakesUpNothing, Zenon DEF PrepareFails, storeVars
<1> QED
  BY <1>1, <1>2, <1>3, <1>4, ZenonT(30) DEF Prepare

LEMMA ReplyTakesUpNothing ==
  ASSUME IInv, Reply
  PROVE  TakesUpNothing
<1>0. phase # "Idle"
  <2>1. step = "Reply"
    BY Zenon DEF Reply, ReplyStatus, ReplyUnknownStatus, ReplyConflict, ReplyLimit,
                 ReplyRejected, ReplyUnclear, Replying
  <2> QED
    BY <2>1, InHand, Zenon
<1>1. CASE ReplyStatus
  BY <1>1, SaveTakesUpNothing, Zenon DEF ReplyStatus
<1>2. CASE ReplyUnknownStatus
  BY <1>2, SaveTakesUpNothing, Zenon DEF ReplyUnknownStatus
<1>3. ASSUME NEW id, ReplyConflict(id) PROVE TakesUpNothing
  <2>1. CASE sub[note].status # "None"
    <3>1. UNCHANGED signed /\ step' = "Send" /\ todo' = todo
      BY <1>3, <2>1, Zenon DEF ReplyConflict, UpdateSubmissionOutcome
    <3> QED
      BY <1>0, <3>1, Zenon DEF TakesUpNothing, TakenUp
  <2>2. CASE sub[note].status = "None"
    BY <1>3, <2>2, RestTakesUpNothing, ZenonT(30) DEF ReplyConflict, storeVars
  <2> QED
    BY <2>1, <2>2, Zenon
<1>4. CASE ReplyLimit
  <2>1. UNCHANGED signed /\ (ItemDone \/ RestAt("Idle"))
    BY <1>4, Zenon DEF ReplyLimit, RecordLimitRejection, storeVars
  <2> QED
    BY <2>1, DoneTakesUpNothing, RestTakesUpNothing, Zenon
<1>5. CASE ReplyRejected
  BY <1>5, SaveTakesUpNothing, Zenon DEF ReplyRejected
<1>6. ASSUME NEW outcome, ReplyUnclear(outcome) PROVE TakesUpNothing
  BY <1>6, SaveTakesUpNothing, Zenon DEF ReplyUnclear
<1> QED
  BY <1>1, <1>2, <1>3, <1>4, <1>5, <1>6, ZenonT(30) DEF Reply

LEMMA OthersTakeUpNothing ==
  ASSUME IInv, Circle \/ Operator \/ CycleFails \/ \E n \in Notes : RetryDue(n)
  PROVE  TakesUpNothing
<1>1. CASE CycleFails
  BY <1>1, RestTakesUpNothing, Zenon DEF CycleFails, storeVars
<1>2. CASE Circle
  BY <1>2, QuietTakesUpNothing, Zenon
     DEF Circle, CircleAccepts, CircleMisses, CircleFinalizes, CircleGivesUp, storeVars
<1>3. CASE Operator
  BY <1>3, QuietTakesUpNothing, ZenonT(30)
     DEF Operator, OperatorSelects, AdminRelease, OfflineRelease, ReleaseHold, storeVars
<1>4. CASE \E n \in Notes : RetryDue(n)
  BY <1>4, QuietTakesUpNothing, Zenon DEF RetryDue
<1> QED
  BY <1>1, <1>2, <1>3, <1>4, ZenonT(30)

\* The phases after discovery and what goes on around the process keep the invariant.
LEMMA WorkStep == AttesterInv /\ Work => AttesterInv'
<1> SUFFICES ASSUME AttesterInv, Work PROVE AttesterInv'
  OBVIOUS
<1>1. IInv'
  BY NextInv, Zenon DEF AttesterInv, Work, Next, Attester
<1>2. TakesUpNothing
  BY PhasesTakeUpNothing, PrepareTakesUpNothing, ReplyTakesUpNothing, OthersTakeUpNothing, ZenonT(30)
     DEF AttesterInv, Work
<1>3. UNCHANGED <<pc, offered>>
  BY Zenon DEF Work, chainVars
<1>4. OfferedFirst' /\ DiscoversBetween'
  BY <1>2, <1>3, Zenon DEF AttesterInv, TakesUpNothing, OfferedFirst, DiscoversBetween
<1> QED
  BY <1>1, <1>4, Zenon DEF AttesterInv

-----------------------------------------------------------------------------
(* Discovery within a cycle *)

\* Steps of discovery that leave the withdrawal half alone.
LEMMA AloneStep ==
  ASSUME AttesterInv, UNCHANGED vars, offered' = offered,
         pc' \notin {"Down", "Idle"} => phase = "Idle"
  PROVE  AttesterInv'
<1>1. IInv'
  BY NextInv, Zenon DEF AttesterInv
<1>2. UNCHANGED <<signed, todo, step, note, phase>>
  BY Zenon DEF vars, storeVars, processVars
<1> QED
  BY <1>1, <1>2, Zenon DEF AttesterInv, OfferedFirst, TakenUp, DiscoversBetween

\* The process is gone: nothing is in hand any more, the signatures stay.
LEMMA GoneStep ==
  ASSUME AttesterInv, Gone, offered' = offered, pc' = "Down"
  PROVE  AttesterInv'
<1>1. RestAt("Stopped") /\ policy' = "off" /\ UNCHANGED <<storeVars, circle, cmd>>
      /\ faults' = faults /\ UNCHANGED signed
  BY Zenon DEF Gone, storeVars
<1>2. faults' \in 0 .. MaxFaults /\ faults' >= faults
  BY <1>1, MaxFaultsAssumption DEF AttesterInv, IInv, TypeOK
<1>3. IInv'
  BY <1>1, <1>2, AbortInv, ZenonT(30) DEF AttesterInv
<1>4. OfferedFirst'
  BY <1>1, Zenon DEF AttesterInv, OfferedFirst, TakenUp, RestAt, NoTodo, CyclePhases
<1> QED
  BY <1>3, <1>4, Zenon DEF AttesterInv, DiscoversBetween

\* A snapshot lists for signatures only what it was given, which is offered by then.
LEMMA SnapshotStep ==
  ASSUME AttesterInv, NEW visible, TakeSnapshot(visible), UNCHANGED faults,
         offered \subseteq offered', visible \subseteq offered', pc' = "Idle"
  PROVE  AttesterInv'
<1>1. IInv'
  BY SnapshotInv, Zenon DEF AttesterInv
<1>2. UNCHANGED <<signed, step, note>> /\ step = "Next"
  BY InHand, Zenon DEF AttesterInv, TakeSnapshot, storeVars
<1>3. todo'["Submit"] \subseteq visible
  BY DEF TakeSnapshot, CyclePhases
<1>4. OfferedFirst'
  BY <1>2, <1>3, ZenonT(30) DEF AttesterInv, OfferedFirst, TakenUp
<1> QED
  BY <1>1, <1>4, ZenonT(30) DEF AttesterInv, DiscoversBetween

LEMMA StartStep == AttesterInv /\ StartAttester => AttesterInv'
<1> SUFFICES ASSUME AttesterInv, StartAttester PROVE AttesterInv'
  OBVIOUS
<1>1. PICK p \in Policies : Start(p)
  BY Zenon DEF StartAttester
<1>2. IInv'
  BY <1>1, StartInv, ZenonT(30) DEF AttesterInv
<1>3. UNCHANGED <<signed, todo, step, note>>
  BY <1>1, ZenonT(30) DEF Start, storeVars
<1>4. pc' = "Idle" /\ UNCHANGED offered
  BY Zenon DEF StartAttester, Chain!Start
<1> QED
  BY <1>2, <1>3, <1>4, ZenonT(30) DEF AttesterInv, OfferedFirst, TakenUp, DiscoversBetween

LEMMA DiscoverStep == AttesterInv /\ Discover => AttesterInv'
<1> SUFFICES ASSUME AttesterInv, Discover PROVE AttesterInv'
  OBVIOUS
<1>1. offered' = offered /\ pc \in {"Limits", "Compare", "Scan"}
  BY Zenon DEF Discover, Chain!ReadProven, Chain!CompareCheckpoint, Chain!ScanBlock
<1>2. phase = "Idle"
  BY <1>1 DEF AttesterInv, DiscoversBetween
<1>3. CASE pc' = "Down"
  BY <1>1, <1>3, GoneStep, ZenonT(30) DEF Discover
<1>4. CASE pc' # "Down"
  <2>1. known' \subseteq Notes
        /\ UNCHANGED <<hold, limit, sub, signed, rev, circle, processVars, cmd, faults>>
    BY <1>4, Zenon DEF Discover
  <2>2. IInv'
    BY <1>2, <2>1, KnownInv, ZenonT(30) DEF AttesterInv
  <2>3. UNCHANGED <<signed, todo, step, note, phase>>
    BY <2>1, Zenon DEF processVars
  <2> QED
    BY <1>1, <1>2, <2>2, <2>3, ZenonT(30) DEF AttesterInv, OfferedFirst, TakenUp, DiscoversBetween
<1> QED
  BY <1>3, <1>4

LEMMA AttesterStep == AttesterInv /\ [AttesterNext]_allVars => AttesterInv'
<1> SUFFICES ASSUME AttesterInv, [AttesterNext]_allVars PROVE AttesterInv'
  OBVIOUS
<1>1. CASE Stop
  BY <1>1, GoneStep, ZenonT(30) DEF Stop, Chain!Exit
<1>2. CASE BeginCycle
  BY <1>2, AloneStep, ZenonT(30) DEF BeginCycle, Chain!ReadTip
<1>3. CASE TakeUp
  BY <1>3, SnapshotStep, ZenonT(30) DEF TakeUp, Chain!OfferBurns
<1>4. CASE CarryOn
  <2>1. pc' = "Idle" /\ offered' = offered
    BY <1>4, Zenon DEF CarryOn, Chain!DiscoveryFails
  <2>2. CASE TakeSnapshot({}) /\ UNCHANGED faults
    BY <2>1, <2>2, SnapshotStep, ZenonT(30)
  <2>3. CASE UNCHANGED vars
    BY <2>1, <2>3, AloneStep, ZenonT(30)
  <2> QED
    BY <1>4, <2>2, <2>3, ZenonT(30) DEF CarryOn
<1>5. CASE Grow
  <2>1. UNCHANGED <<vars, pc, offered>>
    BY <1>5, ZenonT(30) DEF Grow, Chain!Node, Chain!Extend, Chain!Prove, Chain!Reorg
  <2> QED
    BY <2>1, AloneStep, ZenonT(30) DEF AttesterInv, DiscoversBetween
<1>6. CASE UNCHANGED allVars
  <2>1. UNCHANGED <<vars, pc, offered>>
    BY <1>6, Zenon DEF allVars, chainVars
  <2> QED
    BY <2>1, AloneStep, Zenon DEF AttesterInv, DiscoversBetween
<1> QED
  BY <1>1, <1>2, <1>3, <1>4, <1>5, <1>6, StartStep, DiscoverStep, WorkStep, ZenonT(30)
     DEF AttesterNext

LEMMA AttesterAlways == AttesterSpec => []AttesterInv
<1>1. AttesterInit => AttesterInv
  <2>1. AttesterInit => IInv
    BY InitInv, Zenon DEF AttesterInit
  <2>2. AttesterInit => OfferedFirst
    BY DEF AttesterInit, Init, StoreInit, NoTodo, CyclePhases, OfferedFirst, TakenUp
  <2>3. AttesterInit => DiscoversBetween
    BY Zenon DEF AttesterInit, Chain!Init, DiscoversBetween
  <2> QED
    BY <2>1, <2>2, <2>3, ZenonT(30) DEF AttesterInv
<1> QED
  BY <1>1, AttesterStep, PTL DEF AttesterSpec

-----------------------------------------------------------------------------
(* Theorems *)

\* With its burns found on the chain, and found again after every failure and stop, the task keeps
\* every invariant of the withdrawal lifecycle (cycle).
THEOREM LifecycleHolds == AttesterSpec => []IInv
<1>1. AttesterInv => IInv
  BY Zenon DEF AttesterInv
<1> QED
  BY <1>1, AttesterAlways, PTL

\* Nothing is signed, listed for a signature or prepared for a note the node's chain does not
\* consume, and what was signed stays consumed, as long as the node replaces no more blocks than
\* the waiting depth (cycle, discovery_outcome, ready_burns).
THEOREM SignaturesAreBurned == AttesterSpec => []SignedIsBurned
<1>1. AttesterInv /\ Chain!OfferedIsFinal => SignedIsBurned
  <2> SUFFICES ASSUME AttesterInv, Chain!OfferedIsFinal, MaxReorg <= Depth, NEW n \in Notes,
                      TakenUp(n)
               PROVE  consumed[n] \in BurnsOnChain(n) /\ n \in offered
    BY Zenon DEF SignedIsBurned, TakenUp
  <2>1. n \in offered
    BY Zenon DEF AttesterInv, OfferedFirst
  <2>2. consumed[n] \in DOMAIN node /\ n \in node[consumed[n]].consumes
    BY <2>1, Zenon DEF Chain!OfferedIsFinal
  <2> QED
    BY <2>1, <2>2, ZenonT(30) DEF BurnsOnChain
<1> QED
  BY <1>1, AttesterAlways, OffersStayFinal, PTL

\* A note's burns on a chain are finitely many, and at least one once there is one.
LEMMA BurnsCount ==
  ASSUME DOMAIN node = 1 .. Len(node), Len(node) \in Nat, NEW n
  PROVE  /\ Cardinality(BurnsOnChain(n)) \in Nat
         /\ BurnsOnChain(n) # {} => Cardinality(BurnsOnChain(n)) >= 1
<1>1. IsFiniteSet(BurnsOnChain(n))
  <2>1. IsFiniteSet(1 .. Len(node))
    BY FS_Interval
  <2>2. BurnsOnChain(n) \subseteq 1 .. Len(node)
    BY Zenon DEF BurnsOnChain
  <2> QED
    BY <2>1, <2>2, FS_Subset, ZenonT(30)
<1>2. Cardinality(BurnsOnChain(n)) \in Nat
  BY <1>1, FS_CardinalityType, ZenonT(30)
<1>3. Cardinality(BurnsOnChain(n)) = 0 => BurnsOnChain(n) = {}
  BY <1>1, FS_EmptySet, Zenon
<1> QED
  BY <1>2, <1>3

\* Circle has, or may come to have, an authorization only of a burn that was signed for, and no
\* more than one that is not dead.
LEMMA PayoutsCount ==
  ASSUME IInv, NEW n \in Notes
  PROVE  CountAt(n, AtCircle) \in 0 .. 1 /\ (CountAt(n, AtCircle) = 1 => signed[n] # 0)
<1>1. CountAt(n, AtCircle) = CountOf(circle[n], AtCircle)
  BY Zenon DEF CountAt, CountOf
<1>2. CASE \A a \in Auths : circle[n][a] \notin AtCircle
  BY <1>1, <1>2, CountNone
<1>3. ASSUME NEW g \in Auths, circle[n][g] \in AtCircle
      PROVE  CountAt(n, AtCircle) \in 0 .. 1 /\ (CountAt(n, AtCircle) = 1 => signed[n] # 0)
  <2>1. RowOK(sub[n], hold[n], signed[n], circle[n], faults) /\ signed[n] \in Nat /\ g \in Nat \ {0}
    BY MaxFaultsAssumption DEF IInv, Row, TypeOK, StoreTypeOK, Auths
  <2>2. \A a \in Auths \ {g} : circle[n][a] \notin AtCircle
    BY <1>3, <2>1, ZenonT(30) DEF RowOK
  <2>3. CountAt(n, AtCircle) = 1
    BY <1>1, <1>3, <2>2, CountOne, ZenonT(30)
  <2>4. ~ (g > signed[n])
    BY <1>3, <2>1, ZenonT(30) DEF RowOK, AtCircle
  <2> QED
    BY <2>1, <2>3, <2>4
<1> QED
  BY <1>2, <1>3, ZenonT(30)

\* Circle never has more withdrawals of a note that are pending, paid or failed than the node's
\* chain has burns of it, whatever the node replaces within the waiting depth (attester.rs,
\* submission.rs).
THEOREM PayoutsNeedBurns == AttesterSpec => []PayoutsAreBurned
<1>1. AttesterInv /\ SignedIsBurned /\ Discovery!TypeOK => PayoutsAreBurned
  <2> SUFFICES ASSUME AttesterInv, SignedIsBurned, Discovery!TypeOK, MaxReorg <= Depth,
                      NEW n \in Notes
               PROVE  CountAt(n, AtCircle) <= Cardinality(BurnsOnChain(n))
    BY Zenon DEF PayoutsAreBurned
  <2>1. DOMAIN node = 1 .. Len(node) /\ Len(node) \in Nat
    BY DEF Discovery!TypeOK
  <2>2. CountAt(n, AtCircle) = 1 => BurnsOnChain(n) # {}
    BY PayoutsCount, Zenon DEF AttesterInv, SignedIsBurned
  <2>3. CountAt(n, AtCircle) \in 0 .. 1
    BY PayoutsCount, Zenon DEF AttesterInv
  <2>4. /\ Cardinality(BurnsOnChain(n)) \in Nat
        /\ BurnsOnChain(n) # {} => Cardinality(BurnsOnChain(n)) >= 1
    BY <2>1, BurnsCount, Zenon
  <2> QED
    BY <2>2, <2>3, <2>4
<1> QED
  BY <1>1, AttesterAlways, SignaturesAreBurned, DiscoverySpec, ChainAssumption,
     Discovery!DiscoveryTypes, PTL

=============================================================================
