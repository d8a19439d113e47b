--------------------------- MODULE AttesterStartup ---------------------------
(***************************************************************************)
(* Starting the attester (config.rs, service.rs, Attester::start, the      *)
(* opening of the store): several processes, each with its own settings,   *)
(* on one store file.  An error return and a crash are one action, Stop:   *)
(* the locals are gone, the transaction is rolled back, the lock is free.  *)
(* Circle's answer is not kept, so its failure is a Stop; the signers are  *)
(* AttesterSigners.                                                        *)
(***************************************************************************)
EXTENDS Integers

CONSTANTS Procs, Faucets, Settings, Versions,
          Chains, MaxHeight,   \* the chains a node may serve, and their last block
          Hashes,              \* the values a block commitment may have
          Commitments,         \* the commitment of each block of each chain
          Deployment           \* the block the faucets were deployed in

VARIABLES proc,      \* where each process is, and what it holds in memory
          file,      \* the SQLite file
          lock,      \* the process with the exclusive connection, or "nobody"
          node       \* the chain the Miden node serves, and the faucets on it

vars == <<proc, file, lock, node>>

STORE_VERSION == 4

Heights == 0 .. MaxHeight

Block(chain, n) == [num |-> n, commitment |-> Commitments[chain][n]]

\* What the settings can name, whether or not a chain has it.
Pins == [num : Nat, commitment : Hashes]

Blocks == {Block(c, n) : c \in Chains, n \in Heights}

NoBlock == [num |-> 0, commitment |-> "none"]

\* A commitment stands for the block and for all the blocks before it.
ASSUME ChainsAssumption ==
  /\ MaxHeight \in Nat /\ "none" \notin Hashes
  /\ Commitments \in [Chains -> [Heights -> Hashes]]
  /\ \A c, d \in Chains, n \in Heights :
       Commitments[c][n] = Commitments[d][n] =>
         \A m \in Heights : m <= n => Commitments[c][m] = Commitments[d][m]

\* The settings that startup reads; `zero`: a timeout, interval or depth is zero, or
\* another setting is malformed.
Cli ==
  [command : {"run", "release-holds"}, faucet : Faucets,
   anchor : Pins, deployment : {Deployment}, limit : BOOLEAN, zero : BOOLEAN]

ASSUME SettingsAssumption ==
  /\ Settings \subseteq Cli /\ Deployment \in Nat
  /\ Versions \subseteq Nat \ {0} /\ "nobody" \notin Procs

OnChain(c, b) == b.num \in Heights /\ b = Block(c, b.num)

\* b is a or comes after it.
Follows(b, a) == \E c \in Chains : OnChain(c, a) /\ OnChain(c, b) /\ a.num <= b.num

Absent == [version |-> -1, faucet |-> "none", anchor |-> NoBlock, checkpoint |-> NoBlock,
           waiting |-> FALSE, sound |-> TRUE]
NoCli == [command |-> "none"]
Down == [pc |-> "down", cli |-> NoCli, exists |-> FALSE, block |-> NoBlock, tx |-> Absent]

File == [version : {-1, 0, STORE_VERSION} \cup Versions, faucet : Faucets \cup {"none"},
         anchor : Pins \cup {NoBlock}, checkpoint : Blocks \cup {NoBlock},
         waiting : BOOLEAN, sound : BOOLEAN]

\* From the lock to the end: a process there has the only connection.
Inside == {"upgrade", "validate", "commit", "limit", "checkpoint", "running"}

Proc == [pc : {"down", "account", "anchor", "exists", "open"} \cup Inside,
         cli : Settings \cup {NoCli}, exists : BOOLEAN,
         block : Pins \cup {NoBlock}, tx : File]

Bound == file.version > 0

TypeOK ==
  /\ proc \in [Procs -> Proc]
  /\ file \in File
  /\ lock \in Procs \cup {"nobody"}
  /\ lock # "nobody" => file # Absent
  /\ \A p \in Procs : proc[p].pc \in Inside <=> lock = p
  /\ node \in [chain : Chains, faucets : SUBSET Faucets]

\* No file, or the store of an earlier run or of another release.
Init ==
  /\ proc = [p \in Procs |-> Down] /\ lock = "nobody"
  /\ file \in {Absent} \cup
       {f \in [version : Versions, faucet : Faucets, anchor : Blocks,
               checkpoint : Blocks \cup {NoBlock}, waiting : BOOLEAN, sound : {TRUE}] :
          /\ f.anchor.num <= Deployment
          /\ f.checkpoint # NoBlock => Follows(f.checkpoint, f.anchor)}
  /\ node \in [chain : Chains, faucets : SUBSET Faucets]

Goto(p, pc) == proc' = [proc EXCEPT ![p].pc = pc]

----------------------------------------------------------------------------
(* The settings. *)

\* The anchor may be after the faucet's deployment.
MutTryFrom(cli) == ~ cli.zero

\* TryFrom<Cli> for Config.
try_from(cli) == ~ cli.zero /\ cli.anchor.num <= cli.deployment

\* The command names the store, the faucet and the anchor, and nothing else.
Launch(p, cli) ==
  /\ proc[p].pc = "down"
  /\ \/ cli.command = "run" /\ try_from(cli)
        /\ proc' = [proc EXCEPT ![p] = [Down EXCEPT !.pc = "account", !.cli = cli]]
     \/ cli.command = "release-holds"
        /\ proc' = [proc EXCEPT ![p] = [Down EXCEPT !.pc = "open", !.cli = cli, !.exists = TRUE]]
  /\ UNCHANGED <<file, lock, node>>

----------------------------------------------------------------------------
(* Attester::start, up to the store. *)

account_exists(p) ==
  /\ proc[p].pc = "account" /\ proc[p].cli.faucet \in node.faucets
  /\ Goto(p, "anchor") /\ UNCHANGED <<file, lock, node>>

\* The pin is not compared with the node's block.
MutCheckAnchor(p) ==
  /\ proc[p].pc = "anchor"
  /\ proc' = [proc EXCEPT ![p].pc = "exists", ![p].block = proc[p].cli.anchor]
  /\ UNCHANGED <<file, lock, node>>

\* The pinned block, then the signers and Circle, all before there is a store.
CheckAnchor(p) ==
  /\ proc[p].pc = "anchor"
  /\ OnChain(node.chain, proc[p].cli.anchor)
  /\ proc' = [proc EXCEPT ![p].pc = "exists", ![p].block = proc[p].cli.anchor]
  /\ UNCHANGED <<file, lock, node>>

----------------------------------------------------------------------------
(* Store::open_or_create and Store::open_existing. *)

try_exists(p) ==
  /\ proc[p].pc = "exists"
  /\ proc' = [proc EXCEPT ![p].pc = "open", ![p].exists = file # Absent]
  /\ UNCHANGED <<file, lock, node>>

\* Opening makes the file when it may; the transaction starts from what is in it.
lock_exclusively(p) ==
  /\ proc[p].pc = "open" /\ lock = "nobody"
  /\ file # Absent \/ proc[p].cli.command = "run"
  /\ lock' = p
  /\ file' = IF file = Absent THEN [Absent EXCEPT !.version = 0] ELSE file
  /\ Goto(p, "upgrade") /\ UNCHANGED <<node>>

Initializes(p) == ~ proc[p].exists

initialize_store(p) ==
  [Absent EXCEPT !.version = STORE_VERSION, !.faucet = proc[p].cli.faucet,
                 !.anchor = proc[p].cli.anchor]

\* Tables that are there are no error.
MutCanCreateTables == TRUE

\* The first migration fails in a store that has its tables.
CanCreateTables == file.version = 0

\* open_existing: only an older release's store is brought forward, in the transaction.
upgrade(p) ==
  /\ proc[p].pc = "upgrade"
  /\ \/ Initializes(p) /\ CanCreateTables
        /\ proc' = [proc EXCEPT ![p].pc = "commit", ![p].tx = initialize_store(p)]
     \/ ~ Initializes(p) /\ file.version \in 1 .. STORE_VERSION
        /\ proc' = [proc EXCEPT ![p].pc = "validate",
                                ![p].tx = [file EXCEPT !.version = STORE_VERSION]]
  /\ UNCHANGED <<file, lock, node>>

\* Any faucet and any anchor will do.
MutValidateStore(p) == proc[p].tx.sound

validate_store(p) ==
  LET tx == proc[p].tx IN
  /\ tx.sound
  /\ tx.faucet = proc[p].cli.faucet /\ tx.anchor = proc[p].cli.anchor
  /\ tx.checkpoint = NoBlock \/ tx.checkpoint.num >= proc[p].cli.anchor.num

Validate(p) ==
  /\ proc[p].pc = "validate" /\ validate_store(p)
  /\ Goto(p, "commit") /\ UNCHANGED <<file, lock, node>>

\* The command has its store now; the service goes on.
Commit(p) ==
  /\ proc[p].pc = "commit"
  /\ file' = proc[p].tx
  /\ Goto(p, IF proc[p].cli.command = "run" THEN "limit" ELSE "running")
  /\ UNCHANGED <<lock, node>>

----------------------------------------------------------------------------
(* Attester::start, with the store. *)

MutCheckLimit(p) ==
  /\ proc[p].pc = "limit"
  /\ Goto(p, "checkpoint") /\ UNCHANGED <<file, lock, node>>

CheckLimit(p) ==
  /\ proc[p].pc = "limit" /\ (proc[p].cli.limit \/ ~ file.waiting)
  /\ Goto(p, "checkpoint") /\ UNCHANGED <<file, lock, node>>

\* A new store takes the block fetched before it was made.
CheckCheckpoint(p) ==
  /\ proc[p].pc = "checkpoint"
  /\ \/ /\ file.checkpoint # NoBlock
        /\ OnChain(node.chain, file.checkpoint)
        /\ UNCHANGED file
     \/ /\ file.checkpoint = NoBlock
        /\ file' = [file EXCEPT !.checkpoint = proc[p].block]
  /\ Goto(p, "running") /\ UNCHANGED <<lock, node>>

----------------------------------------------------------------------------
(* A running attester, and the world around it. *)

Serving(p) == proc[p].pc = "running" /\ proc[p].cli.command = "run"

\* The next block, if it follows the checkpoint.
Scan(p) ==
  /\ Serving(p) /\ OnChain(node.chain, file.checkpoint) /\ file.checkpoint.num < MaxHeight
  /\ file' = [file EXCEPT !.checkpoint = Block(node.chain, file.checkpoint.num + 1)]
  /\ UNCHANGED <<proc, lock, node>>

\* A burn meets Circle's withdrawal limit; without a policy it is held instead.
LimitReached(p) ==
  /\ Serving(p) /\ proc[p].cli.limit /\ ~ file.waiting
  /\ file' = [file EXCEPT !.waiting = TRUE]
  /\ UNCHANGED <<proc, lock, node>>

Stop(p) ==
  /\ proc[p].pc # "down"
  /\ proc' = [proc EXCEPT ![p] = Down]
  /\ lock' = IF lock = p THEN "nobody" ELSE lock
  /\ UNCHANGED <<file, node>>

\* The node, or the one the settings name now, serves another chain.
NodeChanges ==
  /\ \E c \in Chains : node' = [node EXCEPT !.chain = c]
  /\ UNCHANGED <<proc, file, lock>>

\* A damaged disk, while nobody has the file open.
Damage ==
  /\ lock = "nobody" /\ Bound /\ file' = [file EXCEPT !.sound = FALSE]
  /\ UNCHANGED <<proc, lock, node>>

Next ==
  \/ \E p \in Procs :
       \/ \E cli \in Settings : Launch(p, cli)
       \/ account_exists(p) \/ CheckAnchor(p) \/ try_exists(p) \/ lock_exclusively(p)
       \/ upgrade(p) \/ Validate(p) \/ Commit(p) \/ CheckLimit(p) \/ CheckCheckpoint(p)
       \/ Scan(p) \/ LimitReached(p) \/ Stop(p)
  \/ NodeChanges \/ Damage

Spec == Init /\ [][Next]_vars

----------------------------------------------------------------------------
(* Properties. *)

\* A store serves the faucet and the anchor it was made for as long as it exists, and its
\* layout only goes forward, though processes with other settings find it missing, make it
\* and open it in any order (open_or_create reads `exists` before it has the lock, and
\* initialize_store runs on a file that another process may have filled since).
BoundForGood ==
  [][Bound => /\ file'.faucet = file.faucet /\ file'.anchor = file.anchor
              /\ file'.version >= file.version]_vars

\* A start that is refused, or that crashes part way, leaves an existing store as it was:
\* the layout changes only in the commit of a process whose settings fit the store, and a
\* file is a whole store or an empty one (open_existing: one transaction).
RefusedLeavesNothing ==
  [][file'.version # file.version =>
       \/ file = Absent /\ file'.version = 0
       \/ /\ file'.version = STORE_VERSION
          /\ \E p \in Procs : /\ lock = p /\ proc[p].cli.faucet = file'.faucet
                              /\ proc[p].cli.anchor = file'.anchor]_vars

\* No store is bound to a block that no node has shown, or that is after the deployment of
\* the faucet whose burns it is to find ("so a typo cannot bind a new database to the wrong
\* anchor"); the checkpoint is that block or one that follows it.
AnchorsAreBlocks ==
  Bound => /\ \E c \in Chains : OnChain(c, file.anchor)
           /\ file.anchor.num <= Deployment
           /\ file.checkpoint # NoBlock => Follows(file.checkpoint, file.anchor)

\* An attester that serves has the only connection to a sound store of its own faucet and
\* anchor, with a checkpoint; the burns that wait there for Circle's limit have a policy,
\* whatever the settings of the process that recorded them were (Attester::start).
ServingIsSound ==
  \A p \in Procs : Serving(p) =>
    /\ lock = p /\ file.version = STORE_VERSION /\ file.sound
    /\ file.faucet = proc[p].cli.faucet /\ file.anchor = proc[p].cli.anchor
    /\ file.checkpoint # NoBlock
    /\ file.waiting => proc[p].cli.limit

\* "After a divergence, a restart must not send saved withdrawals while the node still
\* disagrees with the saved checkpoint": the step that begins to serve an old store is
\* taken only on a node that has the store's last block (check_checkpoint).
DivergedDoesNotServe ==
  [][\A p \in Procs : (Serving(p)' /\ ~ Serving(p)) =>
       \/ OnChain(node.chain, file.checkpoint)
       \/ file.checkpoint = NoBlock /\ file'.checkpoint = file.anchor]_vars

----------------------------------------------------------------------------
(* The inductive invariant behind them: what a process knows, of the process r and the  *)
(* file f.                                                                              *)

\* The store is sound and of the process's faucet and anchor.
Fits(f, r) == f.sound /\ f.faucet = r.cli.faucet /\ f.anchor = r.cli.anchor

\* What was checked before the lock still holds under it.
Checked(r) ==
  /\ r.pc # "down" => r.cli \in Settings
  /\ r.pc \in {"account", "anchor", "exists", "limit", "checkpoint"} => r.cli.command = "run"
  /\ r.cli.command = "run" => r.cli.anchor.num <= Deployment
  /\ (r.cli.command = "run" /\ r.pc \in {"exists", "open"} \cup Inside) =>
       r.block = r.cli.anchor /\ \E c \in Chains : OnChain(c, r.block)
  /\ (r.cli.command # "run" /\ r.pc \in {"open"} \cup Inside) => r.exists

\* What a process with the lock has in its transaction, and what it has committed.
Opened(r, f) ==
  /\ r.pc = "validate" => f.version \in 1 .. STORE_VERSION
                           /\ r.tx = [f EXCEPT !.version = STORE_VERSION]
  /\ r.pc = "commit" =>
       /\ r.tx.version = STORE_VERSION /\ Fits(r.tx, r)
       /\ \/ ~ r.exists /\ f.version = 0 /\ r.tx.checkpoint = NoBlock
          \/ f.version \in 1 .. STORE_VERSION /\ r.tx = [f EXCEPT !.version = STORE_VERSION]
  /\ r.pc \in {"limit", "checkpoint", "running"} => f.version = STORE_VERSION /\ Fits(f, r)
  /\ (r.cli.command = "run" /\ r.pc \in {"checkpoint", "running"}) => (f.waiting => r.cli.limit)
  /\ (r.cli.command = "run" /\ r.pc = "running") => f.checkpoint # NoBlock

\* The invariant: types and the lock, what each process has checked and read, and that the
\* store is bound to blocks of one chain.
StartInv ==
  /\ TypeOK /\ AnchorsAreBlocks
  /\ \A p \in Procs : Checked(proc[p]) /\ Opened(proc[p], file)

=============================================================================
