------------------------------- MODULE MCBridge --------------------------------
(***************************************************************************)
(* The bridge process: the supervisor, the relayer it starts, and the      *)
(* proving of the relayer's pages.  The three models share no variable, so *)
(* a step of one neither reads nor changes another, and a property of one  *)
(* holds of all their interleavings when it holds where the others rest:   *)
(* part says which one moves.                                              *)
(*                                                                         *)
(* The feed of the proving part has five entries, one of which does not    *)
(* build; pages above, at and below the caps of the two proving modes, and *)
(* bad prover settings.  The relayer has three entries and one fault.      *)
(***************************************************************************)
EXTENDS BridgeSupervisor

VARIABLES part,
          feed, file, pc, position, page, size, tracked, failed_syncs, tx, strays, notes, minted,
          faults,
          stage, config, cap, client, node, seen, done, landed, proof, failure

relaying == <<feed, file, pc, position, page, size, tracked, failed_syncs, tx, strays, notes,
              minted, faults>>
proving == <<stage, config, cap, client, node, seen, done, landed, proof, failure>>

MCConfigs ==
  [page_size : {1, 3, 5}, prover : BOOLEAN, valid : {TRUE}]
  \cup [page_size : {3}, prover : BOOLEAN, valid : {FALSE}]

Relayer == INSTANCE DepositRelayer WITH
  MaxEntries <- 3, PageSize <- 2, LocalProvingMax <- 1, ExpirationDelta <- 1, GivingUp <- 2,
  FaultKinds <- {"crash", "file", "submit", "sync", "save"}, MaxFaults <- 1

Proving == INSTANCE RelayerProving WITH
  pc <- stage, size <- cap, tx <- proof,
  Feed <- <<TRUE, TRUE, FALSE, TRUE, TRUE>>, Configs <- MCConfigs, MaxPageSize <- 5,
  LocalProvingMax <- 1, RemoteProvingMax <- 3, ExpirationDelta <- 4, RemoteTimeout <- 2,
  LocalCost <- 1

ASSUME ProvingAssumption == Proving!Assumption

BridgeInit ==
  /\ part \in {"supervisor", "relayer", "proving"}
  /\ Init /\ Relayer!Init /\ Proving!Init
  /\ part # "proving" => /\ config = [page_size |-> 1, prover |-> FALSE, valid |-> TRUE]
                         /\ node = [knows |-> {}, enabled |-> FALSE]

BridgeNext ==
  \/ part = "supervisor" /\ Next /\ UNCHANGED <<part, relaying, proving>>
  \/ part = "relayer" /\ Relayer!Next /\ UNCHANGED <<part, vars, proving>>
  \/ part = "proving" /\ Proving!Next /\ UNCHANGED <<part, vars, relaying>>

\* The fairness of each part, for the behaviours in which it moves.
BridgeFairness ==
  /\ WF_vars(part = "supervisor" /\ CancelOnSignal)
  /\ WF_vars(part = "supervisor" /\ DeadlineStarts)
  /\ WF_vars(part = "supervisor" /\ DeadlinePasses)
  /\ WF_vars(part = "supervisor" /\ StartDone) /\ WF_vars(part = "supervisor" /\ StartFails)
  /\ \A s \in Services : WF_vars(part = "supervisor" /\ StopPeerOnExit(s))
  /\ WF_vars(part = "supervisor" /\ SuperviseDone)
  /\ WF_relaying(part = "relayer" /\ Relayer!Work)
  /\ SF_relaying(part = "relayer" /\ Relayer!TxLands)
  /\ \A i \in Relayer!Entries : WF_relaying(part = "relayer" /\ Relayer!FaucetMints(i))
  /\ <>[][~ Relayer!Disturbance]_relaying
  /\ WF_proving(part = "proving" /\ Proving!Startup)
  /\ WF_proving(part = "proving" /\ Proving!Proving)
  /\ <>[][~ Proving!Disturbance]_proving

BridgeSpec == BridgeInit /\ [][BridgeNext]_<<part, vars, relaying, proving>> /\ BridgeFairness

-----------------------------------------------------------------------------
(* Properties of the parts; those of the supervisor have their own names. *)

\* Every deposit Circle attests is in the end minted by the faucet (run_until).
EveryDepositMinted == part = "relayer" => Relayer!EveryDepositMinted

\* What runs was checked and what is submitted is good: a relayer runs only with an attester key
\* the faucet had enabled at some moment of this very start, also on a store carried over; what it
\* submits carries a proof that verifies and the page it was built for, whatever the remote prover
\* returned; and every deposit that progress has passed is on chain unless it does not build
\* (NodeClient::new, RemoteProver::prove, build_notes).
ProvingIsSound == part = "proving" => Proving!ProvingIsSound

\* With the remote prover silent for good, or always wrong, a relayer that runs works off the
\* feed: a page too large to be proved here in time is refused once and cut.
FeedIsWorkedOff == part = "proving" => Proving!FeedIsWorkedOff

=============================================================================
