---------------------------- MODULE RelayerProving ----------------------------
(***************************************************************************)
(* Starting the deposit relayer and proving its pages (config.rs, mint.rs, *)
(* prover.rs, NodeClient::new and the page sizes of circle.rs).  What      *)
(* becomes of a transaction the node has taken is DepositRelayer; here it  *)
(* lands.  Time is blocks: a remote proof takes up to RemoteTimeout, a     *)
(* local one LocalCost for each note, and the node refuses a transaction   *)
(* that is submitted ExpirationDelta blocks after it was built.            *)
(***************************************************************************)
EXTENDS Integers, Sequences, FiniteSets, FiniteSetsExt

CONSTANTS Feed,            \* the deposits in the order they are relayed: TRUE where one builds
          Configs,         \* the settings of a start
          MaxPageSize,     \* PageSize::MAX
          LocalProvingMax, RemoteProvingMax,
          ExpirationDelta, RemoteTimeout, LocalCost

Entries == DOMAIN Feed

\* With enough room to prove a small page locally after the remote prover timed out.
Assumption ==
  /\ Feed \in Seq(BOOLEAN)
  /\ {MaxPageSize, LocalProvingMax, RemoteProvingMax} \subseteq Nat \ {0}
  /\ LocalProvingMax <= RemoteProvingMax /\ RemoteProvingMax <= MaxPageSize
  /\ {ExpirationDelta, RemoteTimeout, LocalCost} \subseteq Nat
  /\ RemoteTimeout + LocalProvingMax * LocalCost < ExpirationDelta
  /\ Configs \subseteq [page_size : 1 .. MaxPageSize, prover : BOOLEAN, valid : BOOLEAN]

VARIABLES pc, config,
          size,       \* CircleClient::page_size
          client,     \* the Miden client's store: tracked accounts, and the attester's entry there
          node,       \* the accounts the node knows, and the faucet's attester entry
          seen,       \* the node had the attester enabled at some time of this start
          done,       \* entries behind the saved progress
          landed,     \* deposits with a mint note on chain
          tx,         \* the page in hand: its notes and end, its age, and the work left on the proof
          failure     \* how the last page that was tried failed

vars == <<pc, config, size, client, node, seen, done, landed, tx, failure>>

Accounts == {"relayer", "faucet"}

NoTx == [notes |-> {}, end |-> 0, age |-> 0, work |-> 0, proof |-> "none"]

TypeOK ==
  /\ pc \in {"down", "sync", "relayer", "faucet", "attester", "ready", "remote", "local", "submit"}
  /\ config \in Configs /\ size \in 1 .. RemoteProvingMax
  /\ client \in [tracks : SUBSET Accounts, enabled : BOOLEAN]
  /\ node \in [knows : SUBSET Accounts, enabled : BOOLEAN] /\ seen \in BOOLEAN
  /\ done \in 0 .. Len(Feed) /\ landed \subseteq Entries
  /\ tx \in [notes : SUBSET Entries, end : Nat, age : 0 .. ExpirationDelta, work : Nat,
             proof : {"none", "good", "bad"}]
  /\ Cardinality(tx.notes) <= size
  /\ failure \in {"none", "expired", "other"}

Init ==
  /\ pc = "down" /\ config \in Configs /\ size = 1
  /\ client = [tracks |-> {}, enabled |-> FALSE]
  /\ node \in [knows : SUBSET Accounts, enabled : BOOLEAN]
  /\ seen = FALSE /\ done = 0 /\ landed = {} /\ tx = NoTx /\ failure = "none"

----------------------------------------------------------------------------
(* Config and NodeClient::new. *)

effective_page_size(c) ==
  Min({c.page_size, IF c.prover THEN RemoteProvingMax ELSE LocalProvingMax})

validate_prover(c) == c.valid

Launch(c) ==
  /\ pc = "down" /\ validate_prover(c)
  /\ pc' = "sync" /\ config' = c /\ seen' = node.enabled
  /\ UNCHANGED <<size, client, node, done, landed, tx, failure>>

\* What a sync brings: only the storage of a faucet that is watched already.
Synced == [client EXCEPT !.enabled = IF "faucet" \in client.tracks THEN node.enabled ELSE @]

\* A store that tracks the faucet is taken for current.
MutSyncState ==
  /\ pc = "sync" /\ pc' = "relayer" /\ UNCHANGED client
  /\ UNCHANGED <<config, size, node, seen, done, landed, tx, failure>>

sync_state ==
  /\ pc = "sync" /\ pc' = "relayer" /\ client' = Synced
  /\ UNCHANGED <<config, size, node, seen, done, landed, tx, failure>>

import_account_by_id ==
  /\ pc = "relayer" /\ "relayer" \in client.tracks \cup node.knows
  /\ client' = [client EXCEPT !.tracks = @ \cup {"relayer"}]
  /\ pc' = "faucet" /\ UNCHANGED <<config, size, node, seen, done, landed, tx, failure>>

\* A faucet that is new to the store comes with its storage.
import_watched_account_by_id ==
  /\ pc = "faucet" /\ "faucet" \in client.tracks \cup node.knows
  /\ client' = [tracks |-> client.tracks \cup {"faucet"},
                enabled |-> IF "faucet" \in client.tracks THEN client.enabled ELSE node.enabled]
  /\ pc' = "attester" /\ UNCHANGED <<config, size, node, seen, done, landed, tx, failure>>

\* The attester's entry, then Relayer::new.
CheckAttester ==
  /\ pc = "attester" /\ client.enabled
  /\ pc' = "ready" /\ size' = effective_page_size(config)
  /\ UNCHANGED <<config, client, node, seen, done, landed, tx, failure>>

----------------------------------------------------------------------------
(* One page. *)

PageEnd == Min({done + size, Len(Feed)})

\* The first entry that does not build ends the page's notes.
MutBuildNotes ==
  {i \in done + 1 .. PageEnd : \A j \in done + 1 .. i : Feed[j]}

\* An entry that does not decode or build is skipped, and the others stay.
build_notes == {i \in done + 1 .. PageEnd : Feed[i]}

\* Without a note there is no transaction, and the page is done.
ProcessPage ==
  /\ pc = "ready" /\ done < Len(Feed)
  /\ \/ /\ build_notes = {} /\ done' = PageEnd
        /\ UNCHANGED <<pc, tx>>
     \/ /\ build_notes # {} /\ UNCHANGED done
        /\ tx' = [notes |-> build_notes, end |-> PageEnd, age |-> 0, proof |-> "none",
                  work |-> IF config.prover THEN RemoteTimeout
                           ELSE Cardinality(build_notes) * LocalCost]
        /\ pc' = IF config.prover THEN "remote" ELSE "local"
  /\ client' = Synced
  /\ UNCHANGED <<config, size, node, seen, landed, failure>>

\* The remote proof is taken as it comes.
MutProveRemotely(proof) ==
  /\ pc = "remote" /\ proof # "none"
  /\ pc' = "submit" /\ tx' = [tx EXCEPT !.proof = proof]
  /\ UNCHANGED <<config, size, client, node, seen, done, landed, failure>>

\* The remote prover answers in time, and the proof is verified.
ProveRemotely(proof) ==
  /\ pc = "remote" /\ proof = "good"
  /\ pc' = "submit" /\ tx' = [tx EXCEPT !.proof = proof]
  /\ UNCHANGED <<config, size, client, node, seen, done, landed, failure>>

\* A remote failure fails the page.
MutFallBack(proof) ==
  /\ pc = "remote" /\ proof # "good"
  /\ pc' = "ready" /\ tx' = NoTx /\ failure' = "other"
  /\ UNCHANGED <<config, size, client, node, seen, done, landed>>

\* The attempt fails, times out or returns an invalid proof: the same transaction is proved
\* here, and has been getting older meanwhile.
FallBack(proof) ==
  /\ pc = "remote" /\ proof # "good"
  /\ pc' = "local" /\ tx' = [tx EXCEPT !.work = Cardinality(tx.notes) * LocalCost]
  /\ UNCHANGED <<config, size, client, node, seen, done, landed, failure>>

ProveLocally ==
  /\ pc = "local" /\ tx.work = 0
  /\ pc' = "submit" /\ tx' = [tx EXCEPT !.proof = "good"]
  /\ UNCHANGED <<config, size, client, node, seen, done, landed, failure>>

Submit ==
  /\ pc = "submit" /\ tx.age < ExpirationDelta
  /\ landed' = landed \cup tx.notes /\ done' = tx.end
  /\ pc' = "ready" /\ tx' = NoTx /\ client' = Synced /\ failure' = "none"
  /\ UNCHANGED <<config, size, node, seen>>

\* The page size stays.
MutLimitToLocalProving == size

limit_to_local_proving == Min({size, LocalProvingMax})

\* The node's explicit rejection of an expired transaction makes later pages smaller.
SubmitExpired ==
  /\ pc = "submit" /\ tx.age >= ExpirationDelta
  /\ failure' = "expired" /\ size' = limit_to_local_proving
  /\ pc' = "ready" /\ tx' = NoTx
  /\ UNCHANGED <<config, client, node, seen, done, landed>>

\* Any other failure of the page; the next scan resumes at it.
PageFails ==
  /\ pc \in {"ready", "local", "submit"} /\ pc' = "ready" /\ tx' = NoTx /\ failure' = "other"
  /\ UNCHANGED <<config, size, client, node, seen, done, landed>>

----------------------------------------------------------------------------
(* The rest of the world. *)

\* A failed start, or a stop or crash anywhere.
Stop ==
  /\ pc # "down" /\ pc' = "down" /\ tx' = NoTx /\ size' = 1 /\ failure' = "none"
  /\ UNCHANGED <<config, client, node, seen, done, landed>>

BlockPasses ==
  /\ pc \in {"remote", "local"} /\ tx.work > 0
  /\ tx' = [tx EXCEPT !.age = Min({@ + 1, ExpirationDelta}), !.work = @ - 1]
  /\ UNCHANGED <<pc, config, size, client, node, seen, done, landed, failure>>

\* An account is deployed, or the faucet's owner enables or disables the attester.
FaucetChanges ==
  /\ \/ \E a \in Accounts \ node.knows : node' = [node EXCEPT !.knows = @ \cup {a}]
     \/ node' = [node EXCEPT !.enabled = ~ @]
  /\ seen' = (seen \/ node'.enabled)
  /\ UNCHANGED <<pc, config, size, client, done, landed, tx, failure>>

Startup ==
  \/ \E c \in Configs : Launch(c)
  \/ sync_state \/ import_account_by_id \/ import_watched_account_by_id \/ CheckAttester

Proving ==
  \/ ProcessPage
  \/ \E proof \in {"good", "bad", "none"} : ProveRemotely(proof) \/ FallBack(proof)
  \/ ProveLocally \/ Submit \/ SubmitExpired \/ BlockPasses

Disturbance == PageFails \/ Stop \/ FaucetChanges

Next == Startup \/ Proving \/ Disturbance

Spec == Init /\ [][Next]_vars

\* The process runs on and its clock does; node and operators leave it alone in the end.  The
\* remote prover need never answer.
FairSpec ==
  /\ Spec /\ WF_vars(Startup) /\ WF_vars(Proving)
  /\ <>[][~ Disturbance]_vars

----------------------------------------------------------------------------
(* Properties. *)

\* A relayer runs only with an attester key that the faucet had enabled at some moment of
\* this very start, also on a store carried over from a run long ago whose faucet was
\* changed since ("So a key the faucet does not list is caught here").
StartsWithEnabledKey ==
  pc \in {"ready", "remote", "local", "submit"} => /\ seen
                                                   /\ client.tracks = Accounts

\* Whatever the remote prover returns, and whenever, what is submitted carries a proof that
\* verifies and the page it was built for (RemoteProver::prove).
OnlyProvenPages ==
  pc = "submit" => /\ tx.proof = "good"
                   /\ tx.notes = {i \in done + 1 .. tx.end : Feed[i]}

\* Every deposit that progress has passed is on chain unless it does not build: an entry that
\* is skipped takes no other of its page with it, whatever size the page was cut to between
\* its attempts (build_notes).
SkipsAreUnbuildable == \A i \in 1 .. done : Feed[i] <=> i \in landed

\* What runs was checked and what is submitted is good: the key was enabled, the proof verifies, and
\* progress passes only what landed or does not build (NodeClient::new, RemoteProver::prove,
\* build_notes).
ProvingIsSound ==
  TypeOK /\ StartsWithEnabledKey /\ OnlyProvenPages /\ SkipsAreUnbuildable

\* With the remote prover silent for good, or always wrong, a relayer that runs works off the
\* feed: a page too large to be proved here in time is refused once and cut, so no page
\* expires over and over ("limiting later pages until restart").
FeedIsWorkedOff ==
  (pc = "ready") ~> (done = Len(Feed) \/ pc = "down")

=============================================================================
