------------------------ MODULE AttesterStartupProofs ------------------------
(***************************************************************************)
(* An attester serves only a store of its own faucet and anchor, for any   *)
(* number of processes that start, stop and restart on one file with any   *)
(* settings, any store an earlier release may have left there, and a node  *)
(* that changes between any chains.                                        *)
(*                                                                         *)
(* StartInv is shown inductive one action at a time.  Only the process     *)
(* with the lock writes the file, and what it knows of the file is the     *)
(* only knowledge of it there is; ProcStep makes that argument once.       *)
(*                                                                         *)
(* The last two sections are about what an attester serves its operators:  *)
(* the file of the admin socket among processes that start, stop and       *)
(* crash, and the inbox with the commands on their way.  They share no     *)
(* state with the start and are about instances.                           *)
(***************************************************************************)
EXTENDS AttesterStartup, Sequences, TLAPS

\* Time, and a second try, for a leaf on a loaded machine; one that names a prover uses that one.
USE SMTT(20), ZenonT(20), SMTT(30)

-----------------------------------------------------------------------------
(* Chains *)

\* A block is not the missing one.
LEMMA BlocksExist ==
  ASSUME NEW c \in Chains, NEW b, OnChain(c, b)
  PROVE  b \in Blocks /\ b # NoBlock /\ b \in Pins
<1>1. b.num \in Heights /\ b = [num |-> b.num, commitment |-> Commitments[c][b.num]]
  BY DEF OnChain, Block
<1>2. Commitments[c][b.num] \in Hashes /\ b.num \in Nat
  BY <1>1, ChainsAssumption DEF Heights
<1>3. b.commitment # "none"
  BY <1>1, <1>2, ChainsAssumption
<1> QED
  BY <1>1, <1>2, <1>3 DEF Blocks, Block, NoBlock, Pins

\* Chains that share a block share the blocks before it.
LEMMA SharedPast ==
  ASSUME NEW c \in Chains, NEW d \in Chains, NEW a, NEW b,
         OnChain(c, a), OnChain(c, b), OnChain(d, b), a.num <= b.num
  PROVE  OnChain(d, a)
<1>1. /\ a.num \in Heights /\ a = [num |-> a.num, commitment |-> Commitments[c][a.num]]
      /\ b.num \in Heights /\ b = [num |-> b.num, commitment |-> Commitments[c][b.num]]
      /\ b = [num |-> b.num, commitment |-> Commitments[d][b.num]]
  BY DEF OnChain, Block
<1>2. Commitments[c][b.num] = Commitments[d][b.num]
  BY <1>1
<1>3. Commitments[c][a.num] = Commitments[d][a.num]
  BY <1>1, <1>2, ChainsAssumption
<1> QED
  BY <1>1, <1>3 DEF OnChain, Block

\* The block after one that follows a, on a chain that has it, follows a.
LEMMA NextFollows ==
  ASSUME NEW d \in Chains, NEW a, NEW b, Follows(b, a), OnChain(d, b), b.num < MaxHeight
  PROVE  LET n == Block(d, b.num + 1)
         IN  Follows(n, a) /\ n \in Blocks
<1>1. PICK c \in Chains : OnChain(c, a) /\ OnChain(c, b) /\ a.num <= b.num
  BY DEF Follows
<1>2. OnChain(d, a)
  BY <1>1, SharedPast
<1>3. a.num \in Nat /\ b.num \in Nat /\ b.num + 1 \in Heights /\ a.num <= b.num + 1
  BY <1>1, ChainsAssumption DEF OnChain, Heights
<1>4. Block(d, b.num + 1).num = b.num + 1
  BY DEF Block
<1>5. OnChain(d, Block(d, b.num + 1))
  BY <1>3, <1>4 DEF OnChain
<1> QED
  BY <1>2, <1>3, <1>4, <1>5, BlocksExist DEF Follows

-----------------------------------------------------------------------------
(* Steps *)

\* A step of one process keeps the invariant when it leaves the file alone or has the lock,
\* and when what it knows then is so.
LEMMA ProcStep ==
  ASSUME StartInv, NEW p \in Procs, NEW r \in Proc, proc' = [proc EXCEPT ![p] = r],
         file' \in File, AnchorsAreBlocks', UNCHANGED node,
         file' = file \/ lock \in {p, "nobody"},
         lock' \in Procs \cup {"nobody"}, r.pc \in Inside <=> lock' = p,
         \A q \in Procs \ {p} : lock' = q <=> lock = q, lock' # "nobody" => file' # Absent,
         Checked(r), Opened(r, file')
  PROVE  StartInv'
<1>1. /\ proc \in [Procs -> Proc] /\ \A q \in Procs : proc[q].pc \in Inside <=> lock = q
      /\ node \in [chain : Chains, faucets : SUBSET Faucets]
  BY DEF StartInv, TypeOK
<1>2. \A q \in Procs : proc'[q] = IF q = p THEN r ELSE proc[q]
  BY <1>1
<1>3. TypeOK'
  <2>1. proc' \in [Procs -> Proc]
    BY <1>1
  <2>2. \A q \in Procs : proc'[q].pc \in Inside <=> lock' = q
    BY <1>1, <1>2
  <2> QED
    BY <1>1, <2>1, <2>2 DEF TypeOK
<1>4. ASSUME NEW q \in Procs PROVE Checked(proc'[q]) /\ Opened(proc'[q], file')
  <2>1. CASE q = p
    BY <1>2, <2>1
  <2>2. CASE q # p
    <3>1. Checked(proc[q]) /\ Opened(proc[q], file) /\ proc'[q] = proc[q]
      BY <1>2, <2>2 DEF StartInv
    <3>2. CASE file' = file
      BY <3>1, <3>2
    <3>3. CASE lock \in {p, "nobody"}
      <4>1. lock # q
        BY <2>2, <3>3, SettingsAssumption
      <4>2. proc[q].pc \notin Inside
        BY <1>1, <4>1
      <4>3. Opened(proc[q], file')
        BY <4>2 DEF Opened, Inside
      <4> QED
        BY <3>1, <4>3
    <3> QED
      BY <3>2, <3>3
  <2> QED
    BY <2>1, <2>2
<1> QED
  BY <1>3, <1>4 DEF StartInv

\* The same for a step that leaves the file and the lock alone.
LEMMA QuietProcStep ==
  ASSUME StartInv, NEW p \in Procs, NEW r \in Proc, proc' = [proc EXCEPT ![p] = r],
         UNCHANGED <<file, lock, node>>, r.pc \in Inside <=> proc[p].pc \in Inside,
         Checked(r), Opened(r, file)
  PROVE  StartInv'
<1>1. /\ file \in File /\ AnchorsAreBlocks /\ lock \in Procs \cup {"nobody"}
      /\ (lock # "nobody" => file # Absent) /\ (proc[p].pc \in Inside <=> lock = p)
  BY DEF StartInv, TypeOK
<1>2. AnchorsAreBlocks'
  BY <1>1 DEF AnchorsAreBlocks, Bound
<1> QED
  BY <1>1, <1>2, ProcStep, Zenon

\* What the invariant says of one process.
LEMMA OfProc ==
  ASSUME StartInv, NEW p \in Procs
  PROVE  /\ proc[p] \in Proc /\ Checked(proc[p]) /\ Opened(proc[p], file)
         /\ file \in File /\ AnchorsAreBlocks /\ proc \in [Procs -> Proc]
         /\ proc[p].pc \in Inside <=> lock = p
         /\ node \in [chain : Chains, faucets : SUBSET Faucets]
         /\ lock \in Procs \cup {"nobody"} /\ (lock # "nobody" => file # Absent)
BY DEF StartInv, TypeOK

\* A process that is not there knows nothing.
LEMMA DownKnows ==
  ASSUME NEW f
  PROVE  Down \in Proc /\ Checked(Down) /\ Opened(Down, f)
<1>1. Absent \in File
  BY DEF Absent, File
<1>2. Down \in Proc
  BY <1>1 DEF Down, Proc
<1>3. Down.pc = "down" /\ Down.cli.command = "none"
  BY DEF Down, NoCli
<1> QED
  BY <1>2, <1>3 DEF Checked, Opened, Inside

\* A process that starts has checked its settings and nothing else.
LEMMA LaunchInv ==
  ASSUME StartInv, NEW p \in Procs, NEW cli \in Settings, Launch(p, cli)
  PROVE  StartInv'
<1>1. proc[p].pc = "down" /\ UNCHANGED <<file, lock, node>>
  BY DEF Launch
<1>2. cli \in Cli
  BY SettingsAssumption
<1>3. CASE /\ cli.command = "run" /\ try_from(cli)
           /\ proc' = [proc EXCEPT ![p] = [Down EXCEPT !.pc = "account", !.cli = cli]]
  <2> DEFINE r == [Down EXCEPT !.pc = "account", !.cli = cli]
  <2>1. r \in Proc /\ r.pc = "account" /\ r.cli = cli
    BY DownKnows, Zenon DEF Proc
  <2>2. cli.anchor.num <= Deployment
    BY <1>2, <1>3 DEF try_from, Cli
  <2> HIDE DEF r
  <2>3. Checked(r) /\ Opened(r, file)
    BY <1>3, <2>1, <2>2 DEF Checked, Opened, Inside
  <2> QED
    BY <1>1, <1>3, <2>1, <2>3, QuietProcStep, Zenon DEF r, Inside
<1>4. CASE /\ cli.command = "release-holds"
           /\ proc' = [proc EXCEPT ![p] = [Down EXCEPT !.pc = "open", !.cli = cli, !.exists = TRUE]]
  <2> DEFINE r == [Down EXCEPT !.pc = "open", !.cli = cli, !.exists = TRUE]
  <2>1. r \in Proc /\ r.pc = "open" /\ r.cli = cli /\ r.exists
    BY DownKnows, Zenon DEF Proc
  <2> HIDE DEF r
  <2>2. Checked(r) /\ Opened(r, file)
    BY <1>4, <2>1 DEF Checked, Opened, Inside
  <2> QED
    BY <1>1, <1>4, <2>1, <2>2, QuietProcStep, Zenon DEF r, Inside
<1> QED
  BY <1>3, <1>4 DEF Launch

\* A process that only moves on keeps what it holds.
LEMMA Moved ==
  ASSUME StartInv, NEW p \in Procs, NEW pc, Goto(p, pc),
         pc \in {"down", "account", "anchor", "exists", "open"} \cup Inside
  PROVE  LET r == [proc[p] EXCEPT !.pc = pc]
         IN  /\ proc' = [proc EXCEPT ![p] = r] /\ r \in Proc /\ r.pc = pc
             /\ r.cli = proc[p].cli /\ r.exists = proc[p].exists
             /\ r.block = proc[p].block /\ r.tx = proc[p].tx
<1> DEFINE r == [proc[p] EXCEPT !.pc = pc]
<1>1. proc[p] \in Proc
  BY OfProc
<1>2. r \in Proc /\ r.pc = pc
  BY <1>1 DEF Proc
<1>3. /\ r.cli = proc[p].cli /\ r.exists = proc[p].exists
      /\ r.block = proc[p].block /\ r.tx = proc[p].tx
  BY <1>1 DEF Proc
<1>4. proc' = [proc EXCEPT ![p] = r]
  BY DEF Goto
<1> QED
  BY <1>2, <1>3, <1>4

\* The account is looked up before anything else.
LEMMA AccountExistsInv ==
  ASSUME StartInv, NEW p \in Procs, account_exists(p)
  PROVE  StartInv'
<1> DEFINE r == [proc[p] EXCEPT !.pc = "anchor"]
<1>1. proc[p].pc = "account" /\ Goto(p, "anchor") /\ UNCHANGED <<file, lock, node>>
  BY DEF account_exists
<1>2. proc' = [proc EXCEPT ![p] = r] /\ r \in Proc /\ r.pc = "anchor" /\ r.cli = proc[p].cli
  BY <1>1, Moved
<1>3. Checked(proc[p])
  BY OfProc
<1> HIDE DEF r
<1>4. Checked(r) /\ Opened(r, file)
  BY <1>1, <1>2, <1>3 DEF Checked, Opened, Inside
<1> QED
  BY <1>1, <1>2, <1>4, QuietProcStep, Zenon DEF Inside

\* The block a process remembers is the one of its settings, and a node has shown it.
LEMMA CheckAnchorInv ==
  ASSUME StartInv, NEW p \in Procs, CheckAnchor(p)
  PROVE  StartInv'
<1> DEFINE r == [proc[p] EXCEPT !.pc = "exists", !.block = proc[p].cli.anchor]
<1>1. /\ proc[p].pc = "anchor" /\ OnChain(node.chain, proc[p].cli.anchor)
      /\ proc' = [proc EXCEPT ![p] = r] /\ UNCHANGED <<file, lock, node>>
  BY Zenon DEF CheckAnchor
<1>2. proc[p] \in Proc /\ Checked(proc[p]) /\ node.chain \in Chains
  BY OfProc
<1>3. proc[p].cli.anchor \in Pins
  BY <1>1, <1>2, BlocksExist
<1>4. r \in Proc /\ r.pc = "exists" /\ r.cli = proc[p].cli /\ r.block = proc[p].cli.anchor
  BY <1>2, <1>3, Zenon DEF Proc
<1> HIDE DEF r
<1>5. Checked(r) /\ Opened(r, file)
  BY <1>1, <1>2, <1>4 DEF Checked, Opened, Inside
<1> QED
  BY <1>1, <1>4, <1>5, QuietProcStep, Zenon DEF Inside

\* Whether there is a file is read before the lock, and nothing follows from it.
LEMMA TryExistsInv ==
  ASSUME StartInv, NEW p \in Procs, try_exists(p)
  PROVE  StartInv'
<1> DEFINE found == file # Absent
           r == [proc[p] EXCEPT !.pc = "open", !.exists = found]
<1>1. /\ proc[p].pc = "exists"
      /\ proc' = [proc EXCEPT ![p] = r] /\ UNCHANGED <<file, lock, node>>
  BY Zenon DEF try_exists
<1>2. proc[p] \in Proc /\ Checked(proc[p])
  BY OfProc
<1>3. found \in BOOLEAN
  OBVIOUS
<1> HIDE DEF found
<1>4. r \in Proc /\ r.pc = "open" /\ r.cli = proc[p].cli /\ r.block = proc[p].block
  BY <1>2, <1>3, Zenon DEF Proc
<1> HIDE DEF r
<1>5. Checked(r) /\ Opened(r, file)
  BY <1>1, <1>2, <1>4 DEF Checked, Opened, Inside
<1> QED
  BY <1>1, <1>4, <1>5, QuietProcStep, Zenon DEF Inside

\* Opening a file makes an empty one at most.
LEMMA LockExclusivelyInv ==
  ASSUME StartInv, NEW p \in Procs, lock_exclusively(p)
  PROVE  StartInv'
<1> DEFINE r == [proc[p] EXCEPT !.pc = "upgrade"]
           empty == [Absent EXCEPT !.version = 0]
<1>1. /\ proc[p].pc = "open" /\ lock = "nobody" /\ lock' = p
      /\ Goto(p, "upgrade") /\ UNCHANGED node
      /\ file' = IF file = Absent THEN empty ELSE file
  BY DEF lock_exclusively
<1>2. /\ proc' = [proc EXCEPT ![p] = r] /\ r \in Proc /\ r.pc = "upgrade"
      /\ r.cli = proc[p].cli /\ r.exists = proc[p].exists /\ r.block = proc[p].block
  BY <1>1, Moved DEF Inside
<1>3. Checked(proc[p]) /\ file \in File /\ AnchorsAreBlocks
  BY OfProc
<1>4. empty \in File /\ empty # Absent /\ empty.version = 0
  <2>1. empty \in File
    BY Zenon DEF Absent, File
  <2>2. empty.version = 0 /\ Absent.version = -1
    BY DEF Absent
  <2> HIDE DEF empty
  <2> QED
    BY <2>1, <2>2
<1> HIDE DEF r, empty
<1>5. file' \in File /\ file' # Absent
  BY <1>1, <1>3, <1>4
<1>6. AnchorsAreBlocks'
  <2>1. CASE file = Absent
    BY <1>1, <1>4, <2>1 DEF AnchorsAreBlocks, Bound
  <2>2. CASE file # Absent
    BY <1>1, <1>3, <2>2 DEF AnchorsAreBlocks, Bound
  <2> QED
    BY <2>1, <2>2
<1>7. Checked(r) /\ Opened(r, file')
  BY <1>1, <1>2, <1>3 DEF Checked, Opened, Inside
<1>8. r.pc \in Inside /\ \A q \in Procs \ {p} : lock' = q <=> lock = q
  BY <1>1, <1>2, SettingsAssumption DEF Inside
<1> QED
  BY <1>1, <1>2, <1>5, <1>6, <1>7, <1>8, ProcStep, Zenon

\* A new store is of the process that makes it; an old one is unchanged but for its layout.
LEMMA UpgradeInv ==
  ASSUME StartInv, NEW p \in Procs, upgrade(p)
  PROVE  StartInv'
<1>1. proc[p].pc = "upgrade" /\ UNCHANGED <<file, lock, node>>
  BY DEF upgrade
<1>2. proc[p] \in Proc /\ Checked(proc[p]) /\ file \in File
  BY OfProc
<1>3. CASE /\ Initializes(p) /\ CanCreateTables
           /\ proc' = [proc EXCEPT ![p].pc = "commit", ![p].tx = initialize_store(p)]
  <2> DEFINE tx == initialize_store(p)
             r == [proc[p] EXCEPT !.pc = "commit", !.tx = tx]
  <2>1. ~ proc[p].exists /\ file.version = 0
    BY <1>3 DEF Initializes, CanCreateTables
  <2>2. proc[p].cli \in Settings /\ proc[p].cli \in Cli
    BY <1>1, <1>2, SettingsAssumption DEF Checked
  <2>3. proc[p].cli.faucet \in Faucets /\ proc[p].cli.anchor \in Pins
    BY <2>2 DEF Cli
  <2>4. /\ tx \in File /\ tx.version = STORE_VERSION /\ tx.sound /\ tx.checkpoint = NoBlock
        /\ tx.faucet = proc[p].cli.faucet /\ tx.anchor = proc[p].cli.anchor
    BY <2>3, Zenon DEF initialize_store, Absent, File
  <2> HIDE DEF tx
  <2>5. /\ r \in Proc /\ r.pc = "commit" /\ r.tx = tx /\ r.cli = proc[p].cli
        /\ r.exists = proc[p].exists /\ r.block = proc[p].block
    BY <1>2, <2>4, Zenon DEF Proc, Inside
  <2>6. proc' = [proc EXCEPT ![p] = r]
    BY <1>3, Zenon DEF tx
  <2> HIDE DEF r
  <2>7. Checked(r)
    BY <1>1, <1>2, <2>5 DEF Checked, Inside
  <2>8. Opened(r, file)
    BY <2>1, <2>4, <2>5 DEF Opened, Fits
  <2> QED
    BY <1>1, <2>5, <2>6, <2>7, <2>8, QuietProcStep, Zenon DEF Inside
<1>4. CASE /\ ~ Initializes(p) /\ file.version \in 1 .. STORE_VERSION
           /\ proc' = [proc EXCEPT ![p].pc = "validate",
                                   ![p].tx = [file EXCEPT !.version = STORE_VERSION]]
  <2> DEFINE tx == [file EXCEPT !.version = STORE_VERSION]
             r == [proc[p] EXCEPT !.pc = "validate", !.tx = tx]
  <2>1. tx \in File
    BY <1>2 DEF File
  <2>2. proc' = [proc EXCEPT ![p] = r]
    BY <1>4, Zenon
  <2> HIDE DEF tx
  <2>3. /\ r \in Proc /\ r.pc = "validate" /\ r.tx = tx /\ r.cli = proc[p].cli
        /\ r.exists = proc[p].exists /\ r.block = proc[p].block
    BY <1>2, <2>1, Zenon DEF Proc, Inside
  <2> HIDE DEF r
  <2>4. Checked(r)
    BY <1>1, <1>2, <2>3 DEF Checked, Inside
  <2>5. Opened(r, file)
    BY <1>4, <2>3 DEF Opened, tx
  <2> QED
    BY <1>1, <2>2, <2>3, <2>4, <2>5, QuietProcStep, Zenon DEF Inside
<1> QED
  BY <1>3, <1>4 DEF upgrade

\* A process that passes the check has a store of its own settings in its transaction.
LEMMA ValidateInv ==
  ASSUME StartInv, NEW p \in Procs, Validate(p)
  PROVE  StartInv'
<1> DEFINE r == [proc[p] EXCEPT !.pc = "commit"]
<1>1. /\ proc[p].pc = "validate" /\ validate_store(p) /\ Goto(p, "commit")
      /\ UNCHANGED <<file, lock, node>>
  BY DEF Validate
<1>2. /\ proc' = [proc EXCEPT ![p] = r] /\ r \in Proc /\ r.pc = "commit"
      /\ r.cli = proc[p].cli /\ r.exists = proc[p].exists /\ r.block = proc[p].block
      /\ r.tx = proc[p].tx
  BY <1>1, Moved DEF Inside
<1>3. Checked(proc[p]) /\ Opened(proc[p], file) /\ file \in File
  BY OfProc
<1> HIDE DEF r
<1>4. Checked(r)
  BY <1>1, <1>2, <1>3 DEF Checked, Inside
<1>5. file.version \in 1 .. STORE_VERSION /\ r.tx = [file EXCEPT !.version = STORE_VERSION]
  BY <1>1, <1>2, <1>3 DEF Opened
<1>6. r.tx.version = STORE_VERSION
  BY <1>3, <1>5 DEF File
<1>7. Fits(r.tx, r)
  BY <1>1, <1>2 DEF validate_store, Fits
<1>8. Opened(r, file)
  BY <1>2, <1>5, <1>6, <1>7 DEF Opened
<1> QED
  BY <1>1, <1>2, <1>4, <1>8, QuietProcStep, Zenon DEF Inside

\* What is committed is a store of the process's settings, bound to a block it was shown or
\* to the one it was bound to before.
LEMMA CommitInv ==
  ASSUME StartInv, NEW p \in Procs, Commit(p)
  PROVE  StartInv'
<1> DEFINE pc == IF proc[p].cli.command = "run" THEN "limit" ELSE "running"
           r == [proc[p] EXCEPT !.pc = pc]
<1>1. /\ proc[p].pc = "commit" /\ file' = proc[p].tx /\ Goto(p, pc) /\ UNCHANGED <<lock, node>>
  BY DEF Commit
<1>2. pc \in Inside
  BY DEF Inside
<1>3. /\ proc' = [proc EXCEPT ![p] = r] /\ r \in Proc /\ r.pc = pc
      /\ r.cli = proc[p].cli /\ r.exists = proc[p].exists /\ r.block = proc[p].block
  BY <1>1, <1>2, Moved
<1>4. /\ Checked(proc[p]) /\ Opened(proc[p], file) /\ file \in File /\ AnchorsAreBlocks
      /\ lock = p /\ proc[p] \in Proc
  BY <1>1, OfProc DEF Inside
<1>5. file' \in File /\ file'.version = STORE_VERSION /\ Fits(file', proc[p])
  BY <1>1, <1>4 DEF Opened, Proc
<1>6. AnchorsAreBlocks'
  <2>1. CASE ~ proc[p].exists /\ file.version = 0 /\ file'.checkpoint = NoBlock
    <3>1. proc[p].cli.command = "run"
      BY <1>1, <1>4, <2>1 DEF Checked, Inside
    <3>2. /\ proc[p].cli.anchor.num <= Deployment
          /\ \E c \in Chains : OnChain(c, proc[p].cli.anchor)
      BY <1>1, <1>4, <3>1 DEF Checked, Inside
    <3> QED
      BY <1>5, <2>1, <3>2 DEF AnchorsAreBlocks, Fits
  <2>2. CASE /\ file.version \in 1 .. STORE_VERSION
             /\ file' = [file EXCEPT !.version = STORE_VERSION]
    <3>1. file'.anchor = file.anchor /\ file'.checkpoint = file.checkpoint
      BY <1>4, <2>2 DEF File
    <3>2. Bound
      BY <2>2 DEF Bound
    <3> QED
      BY <1>4, <3>1, <3>2 DEF AnchorsAreBlocks
  <2> QED
    BY <1>1, <1>4, <2>1, <2>2 DEF Opened
<1>7. file' # Absent
  BY <1>5 DEF Absent, STORE_VERSION
<1> HIDE DEF r
<1>8. Checked(r)
  BY <1>1, <1>3, <1>4 DEF Checked, Inside
<1>9. Opened(r, file')
  BY <1>3, <1>5 DEF Opened, Fits
<1> QED
  BY <1>1, <1>2, <1>3, <1>4, <1>5, <1>6, <1>7, <1>8, <1>9, ProcStep, Zenon

\* A store with burns that wait for the limit goes on with a policy only.
LEMMA CheckLimitInv ==
  ASSUME StartInv, NEW p \in Procs, CheckLimit(p)
  PROVE  StartInv'
<1> DEFINE r == [proc[p] EXCEPT !.pc = "checkpoint"]
<1>1. /\ proc[p].pc = "limit" /\ (proc[p].cli.limit \/ ~ file.waiting) /\ Goto(p, "checkpoint")
      /\ UNCHANGED <<file, lock, node>>
  BY DEF CheckLimit
<1>2. /\ proc' = [proc EXCEPT ![p] = r] /\ r \in Proc /\ r.pc = "checkpoint"
      /\ r.cli = proc[p].cli /\ r.exists = proc[p].exists /\ r.block = proc[p].block
  BY <1>1, Moved DEF Inside
<1>3. Checked(proc[p]) /\ Opened(proc[p], file)
  BY OfProc
<1> HIDE DEF r
<1>4. Checked(r)
  BY <1>1, <1>2, <1>3 DEF Checked, Inside
<1>5. Opened(r, file)
  BY <1>1, <1>2, <1>3 DEF Opened, Fits
<1> QED
  BY <1>1, <1>2, <1>4, <1>5, QuietProcStep, Zenon DEF Inside

\* A step of the process with the lock that writes the checkpoint or the waiting burns.
LEMMA HolderStep ==
  ASSUME StartInv, NEW p \in Procs, NEW r \in Proc, proc' = [proc EXCEPT ![p] = r],
         proc[p].pc \in {"limit", "checkpoint", "running"}, r.pc = "running",
         r.cli = proc[p].cli, r.exists = proc[p].exists, r.block = proc[p].block,
         NEW b \in Blocks, NEW w \in BOOLEAN, UNCHANGED <<lock, node>>,
         file' = [file EXCEPT !.checkpoint = b, !.waiting = w],
         b # NoBlock, Follows(b, file.anchor), w => r.cli.limit
  PROVE  StartInv'
<1>1. /\ Checked(proc[p]) /\ Opened(proc[p], file) /\ file \in File /\ AnchorsAreBlocks
      /\ lock = p /\ proc[p] \in Proc
  BY OfProc DEF Inside
<1>2. file.version = STORE_VERSION /\ Fits(file, proc[p])
  BY <1>1 DEF Opened
<1>3. file' \in File
  BY <1>1, Zenon DEF File
<1>4. /\ file'.version = file.version /\ file'.faucet = file.faucet /\ file'.anchor = file.anchor
      /\ file'.sound = file.sound /\ file'.checkpoint = b /\ file'.waiting = w
  BY <1>1 DEF File
<1>5. AnchorsAreBlocks'
  <2>1. Bound
    BY <1>2 DEF Bound, STORE_VERSION
  <2> QED
    BY <1>1, <1>4, <2>1 DEF AnchorsAreBlocks
<1>6. file' # Absent
  BY <1>2, <1>4, Zenon DEF Absent, STORE_VERSION
<1>7. Checked(r)
  BY <1>1 DEF Checked, Inside
<1>8. Opened(r, file')
  BY <1>2, <1>4 DEF Opened, Fits
<1> QED
  BY <1>1, <1>3, <1>5, <1>6, <1>7, <1>8, ProcStep, Zenon DEF Inside

\* A new store's checkpoint is its anchor; an old one's stays.
LEMMA CheckCheckpointInv ==
  ASSUME StartInv, NEW p \in Procs, CheckCheckpoint(p)
  PROVE  StartInv'
<1> DEFINE r == [proc[p] EXCEPT !.pc = "running"]
<1>1. proc[p].pc = "checkpoint" /\ Goto(p, "running") /\ UNCHANGED <<lock, node>>
  BY DEF CheckCheckpoint
<1>2. /\ proc' = [proc EXCEPT ![p] = r] /\ r \in Proc /\ r.pc = "running"
      /\ r.cli = proc[p].cli /\ r.exists = proc[p].exists /\ r.block = proc[p].block
  BY <1>1, Moved DEF Inside
<1>3. Checked(proc[p]) /\ Opened(proc[p], file) /\ file \in File
  BY OfProc
<1>4. /\ proc[p].cli.command = "run" /\ file.version = STORE_VERSION /\ Fits(file, proc[p])
      /\ file.waiting \in BOOLEAN /\ (file.waiting => proc[p].cli.limit)
  BY <1>1, <1>3 DEF Checked, Opened, File
<1> HIDE DEF r
<1>5. CASE file.checkpoint # NoBlock /\ UNCHANGED file
  <2>1. Checked(r)
    BY <1>1, <1>2, <1>3 DEF Checked, Inside
  <2>2. Opened(r, file)
    BY <1>2, <1>4, <1>5 DEF Opened, Fits
  <2> QED
    BY <1>1, <1>2, <1>5, <2>1, <2>2, QuietProcStep, Zenon DEF Inside
<1>6. CASE file.checkpoint = NoBlock /\ file' = [file EXCEPT !.checkpoint = proc[p].block]
  <2> DEFINE b == proc[p].block
  <2>1. b = file.anchor /\ \E c \in Chains : OnChain(c, b)
    BY <1>1, <1>3, <1>4 DEF Checked, Fits, Inside
  <2>2. PICK c \in Chains : OnChain(c, b)
    BY <2>1
  <2>3. b \in Blocks /\ b # NoBlock /\ b \in Pins
    BY <2>2, BlocksExist
  <2>4. Follows(b, file.anchor)
    <3>1. b.num \in Nat
      BY <2>3 DEF Pins
    <3> QED
      BY <2>1, <2>2, <3>1 DEF Follows
  <2>5. file' = [file EXCEPT !.checkpoint = b, !.waiting = file.waiting]
    BY <1>3, <1>6, Zenon DEF File
  <2> HIDE DEF b
  <2> QED
    BY <1>1, <1>2, <1>4, <2>3, <2>4, <2>5, HolderStep, Zenon
<1> QED
  BY <1>5, <1>6 DEF CheckCheckpoint

\* The checkpoint moves to a block that follows it, and so the anchor.
LEMMA ScanInv ==
  ASSUME StartInv, NEW p \in Procs, Scan(p)
  PROVE  StartInv'
<1> DEFINE b == Block(node.chain, file.checkpoint.num + 1)
<1>1. /\ proc[p].pc = "running" /\ proc[p].cli.command = "run"
      /\ OnChain(node.chain, file.checkpoint) /\ file.checkpoint.num < MaxHeight
      /\ file' = [file EXCEPT !.checkpoint = b] /\ UNCHANGED <<proc, lock, node>>
  BY DEF Scan, Serving
<1>2. /\ Opened(proc[p], file) /\ file \in File /\ AnchorsAreBlocks /\ proc \in [Procs -> Proc]
      /\ node.chain \in Chains
  BY OfProc
<1>3. /\ file.version = STORE_VERSION /\ file.checkpoint # NoBlock
      /\ file.waiting \in BOOLEAN /\ (file.waiting => proc[p].cli.limit)
  BY <1>1, <1>2 DEF Opened, File
<1>4. Follows(file.checkpoint, file.anchor)
  BY <1>2, <1>3 DEF AnchorsAreBlocks, Bound, STORE_VERSION
<1>5. Follows(b, file.anchor) /\ b \in Blocks
  BY <1>1, <1>2, <1>4, NextFollows
<1>6. b # NoBlock
  <2>1. PICK c \in Chains : OnChain(c, b)
    BY <1>5 DEF Follows
  <2> QED
    BY <2>1, BlocksExist
<1>7. file' = [file EXCEPT !.checkpoint = b, !.waiting = file.waiting]
  BY <1>1, <1>2, Zenon DEF File
<1>8. proc' = [proc EXCEPT ![p] = proc[p]] /\ proc[p] \in Proc
  BY <1>1, <1>2
<1> HIDE DEF b
<1> QED
  BY <1>1, <1>3, <1>5, <1>6, <1>7, <1>8, HolderStep, Zenon

\* Burns wait for the limit only in the store of a process with a policy.
LEMMA LimitReachedInv ==
  ASSUME StartInv, NEW p \in Procs, LimitReached(p)
  PROVE  StartInv'
<1>1. /\ proc[p].pc = "running" /\ proc[p].cli.command = "run" /\ proc[p].cli.limit
      /\ file' = [file EXCEPT !.waiting = TRUE] /\ UNCHANGED <<proc, lock, node>>
  BY DEF LimitReached, Serving
<1>2. Opened(proc[p], file) /\ file \in File /\ AnchorsAreBlocks /\ proc \in [Procs -> Proc]
  BY OfProc
<1>3. file.version = STORE_VERSION /\ file.checkpoint # NoBlock
  BY <1>1, <1>2 DEF Opened
<1>4. Follows(file.checkpoint, file.anchor) /\ file.checkpoint \in Blocks
  BY <1>2, <1>3 DEF AnchorsAreBlocks, Bound, STORE_VERSION, File
<1>5. file' = [file EXCEPT !.checkpoint = file.checkpoint, !.waiting = TRUE]
  BY <1>1, <1>2, Zenon DEF File
<1>6. proc' = [proc EXCEPT ![p] = proc[p]] /\ proc[p] \in Proc
  BY <1>1, <1>2
<1> QED
  BY <1>1, <1>3, <1>4, <1>5, <1>6, HolderStep, Zenon

\* A process that ends leaves the file as it was last committed.
LEMMA StopInv ==
  ASSUME StartInv, NEW p \in Procs, Stop(p)
  PROVE  StartInv'
<1>1. /\ proc' = [proc EXCEPT ![p] = Down] /\ lock' = IF lock = p THEN "nobody" ELSE lock
      /\ UNCHANGED <<file, node>>
  BY DEF Stop
<1>2. /\ file \in File /\ AnchorsAreBlocks /\ lock \in Procs \cup {"nobody"}
      /\ lock # "nobody" => file # Absent
  BY OfProc
<1>3. Down \in Proc /\ Checked(Down) /\ Opened(Down, file) /\ Down.pc \notin Inside
  BY DownKnows, Zenon DEF Down, Inside
<1>4. AnchorsAreBlocks'
  BY <1>1, <1>2 DEF AnchorsAreBlocks, Bound
<1>5. /\ lock' \in Procs \cup {"nobody"} /\ lock' # p
      /\ \A q \in Procs \ {p} : lock' = q <=> lock = q
      /\ lock' # "nobody" => file' # Absent
  BY <1>1, <1>2, SettingsAssumption
<1> QED
  BY <1>1, <1>2, <1>3, <1>4, <1>5, ProcStep, Zenon

\* What a process knows of the file does not depend on the node.
LEMMA NodeChangesInv ==
  ASSUME StartInv, NodeChanges
  PROVE  StartInv'
<1>1. PICK c \in Chains : node' = [node EXCEPT !.chain = c]
  BY DEF NodeChanges
<1>2. UNCHANGED <<proc, file, lock>>
  BY DEF NodeChanges
<1>3. TypeOK'
  BY <1>1, <1>2 DEF StartInv, TypeOK
<1> QED
  BY <1>2, <1>3 DEF StartInv, AnchorsAreBlocks, Bound

\* A file is damaged while nobody knows anything of it.
LEMMA DamageInv ==
  ASSUME StartInv, Damage
  PROVE  StartInv'
<1>1. /\ lock = "nobody" /\ Bound /\ file' = [file EXCEPT !.sound = FALSE]
      /\ UNCHANGED <<proc, lock, node>>
  BY DEF Damage
<1>2. TypeOK /\ AnchorsAreBlocks /\ file \in File
  BY DEF StartInv, TypeOK
<1>3. /\ file' \in File /\ file'.version = file.version /\ file'.anchor = file.anchor
      /\ file'.checkpoint = file.checkpoint
  BY <1>1, <1>2, Zenon DEF File
<1>4. TypeOK'
  BY <1>1, <1>2, <1>3 DEF TypeOK
<1>5. AnchorsAreBlocks'
  BY <1>1, <1>2, <1>3 DEF AnchorsAreBlocks, Bound
<1>6. ASSUME NEW p \in Procs PROVE Checked(proc'[p]) /\ Opened(proc'[p], file')
  <2>1. Checked(proc[p]) /\ proc'[p] = proc[p]
    BY <1>1 DEF StartInv
  <2>2. proc[p].pc \notin Inside
    BY <1>1, <1>2, SettingsAssumption DEF TypeOK
  <2> QED
    BY <2>1, <2>2 DEF Opened, Inside
<1> QED
  BY <1>4, <1>5, <1>6 DEF StartInv

-----------------------------------------------------------------------------
(* The invariant *)

\* Whatever store an earlier release left, nobody has opened it yet.
LEMMA InitStart ==
  ASSUME Init
  PROVE  StartInv
<1>1. /\ proc = [p \in Procs |-> Down] /\ lock = "nobody"
      /\ node \in [chain : Chains, faucets : SUBSET Faucets]
  BY DEF Init
<1>2. ASSUME NEW p \in Procs PROVE proc[p] \in Proc /\ Checked(proc[p]) /\ Opened(proc[p], file)
  BY <1>1, DownKnows
<1>3. Blocks \subseteq Pins
  BY ChainsAssumption DEF Blocks, Block, Pins, Heights
<1>4. ASSUME file = Absent PROVE file \in File /\ AnchorsAreBlocks
  <2>1. file \in File /\ file.version = -1
    BY <1>4 DEF Absent, File
  <2>2. ~ Bound
    BY <2>1 DEF Bound
  <2> QED
    BY <2>1, <2>2 DEF AnchorsAreBlocks
<1>5. ASSUME file \in [version : Versions, faucet : Faucets, anchor : Blocks,
                        checkpoint : Blocks \cup {NoBlock}, waiting : BOOLEAN, sound : {TRUE}],
             file.anchor.num <= Deployment,
             file.checkpoint # NoBlock => Follows(file.checkpoint, file.anchor)
      PROVE  file \in File /\ AnchorsAreBlocks
  <2>1. file \in File /\ file.anchor \in Blocks
    BY <1>3, <1>5, Zenon DEF File
  <2>2. PICK c \in Chains, n \in Heights : file.anchor = Block(c, n)
    BY <2>1 DEF Blocks
  <2>3. OnChain(c, file.anchor)
    BY <2>2 DEF OnChain, Block
  <2>4. AnchorsAreBlocks
    BY <1>5, <2>3 DEF AnchorsAreBlocks
  <2> QED
    BY <2>1, <2>4
<1>6. file \in File /\ AnchorsAreBlocks
  BY <1>4, <1>5, Zenon DEF Init
<1>7. TypeOK
  <2>1. proc \in [Procs -> Proc]
    BY <1>1, <1>2
  <2>2. \A p \in Procs : proc[p].pc \in Inside <=> lock = p
    BY <1>1, SettingsAssumption DEF Down, Inside
  <2> QED
    BY <1>1, <1>6, <2>1, <2>2 DEF TypeOK
<1> QED
  BY <1>2, <1>6, <1>7 DEF StartInv

\* Every step keeps it.
LEMMA NextStart ==
  ASSUME StartInv, [Next]_vars
  PROVE  StartInv'
<1>1. CASE UNCHANGED vars
  BY <1>1 DEF vars, StartInv, TypeOK, AnchorsAreBlocks, Bound
<1>2. CASE NodeChanges \/ Damage
  BY <1>2, NodeChangesInv, DamageInv
<1>3. ASSUME NEW p \in Procs,
             \/ \E cli \in Settings : Launch(p, cli)
             \/ account_exists(p) \/ CheckAnchor(p) \/ try_exists(p) \/ lock_exclusively(p)
             \/ upgrade(p) \/ Validate(p) \/ Commit(p) \/ CheckLimit(p) \/ CheckCheckpoint(p)
             \/ Scan(p) \/ LimitReached(p) \/ Stop(p)
      PROVE  StartInv'
  BY <1>3, LaunchInv, AccountExistsInv, CheckAnchorInv, TryExistsInv, LockExclusivelyInv,
     UpgradeInv, ValidateInv, CommitInv, CheckLimitInv, CheckCheckpointInv, ScanInv,
     LimitReachedInv, StopInv
<1> QED
  BY <1>1, <1>2, <1>3 DEF Next

\* What every process has checked and read holds at every step, for any processes, settings,
\* chains and earlier store.
THEOREM StartInvariance == Spec => []StartInv
<1>1. Init => StartInv
  BY InitStart
<1>2. StartInv /\ [Next]_vars => StartInv'
  BY NextStart
<1> QED
  BY <1>1, <1>2, PTL DEF Spec

\* No store is bound to a block that no node has shown, and the checkpoint follows the anchor
\* (check_anchor before open_or_create, and the scan from the saved checkpoint).
THEOREM StoresAreOfAChain == Spec => []AnchorsAreBlocks
<1>1. StartInv => AnchorsAreBlocks
  BY DEF StartInv
<1> QED
  BY <1>1, StartInvariance, PTL

\* An attester that serves has the only connection to a sound store of its own faucet and
\* anchor, and a policy when burns wait for the limit (Attester::start).
THEOREM ServesItsOwnStore == Spec => []ServingIsSound
<1>1. StartInv => ServingIsSound
  <2> SUFFICES ASSUME StartInv, NEW p \in Procs, Serving(p)
               PROVE  /\ lock = p /\ file.version = STORE_VERSION /\ file.sound
                      /\ file.faucet = proc[p].cli.faucet /\ file.anchor = proc[p].cli.anchor
                      /\ file.checkpoint # NoBlock
                      /\ file.waiting => proc[p].cli.limit
    BY DEF ServingIsSound
  <2> QED
    BY OfProc DEF Serving, Opened, Fits, Inside
<1> QED
  BY <1>1, StartInvariance, PTL

-----------------------------------------------------------------------------
(* Steps on the file *)

\* A file appears empty, is committed by the process with the lock, or keeps its binding.
LEMMA FileSteps ==
  ASSUME StartInv, [Next]_vars
  PROVE  \/ file = Absent /\ file' = [Absent EXCEPT !.version = 0]
         \/ \E p \in Procs : Commit(p)
         \/ /\ file'.version = file.version /\ file'.faucet = file.faucet
            /\ file'.anchor = file.anchor
<1>1. file \in File
  BY DEF StartInv, TypeOK
<1>2. CASE UNCHANGED file
  BY <1>2
<1>3. ASSUME NEW p \in Procs, lock_exclusively(p)
      PROVE  (file = Absent /\ file' = [Absent EXCEPT !.version = 0]) \/ UNCHANGED file
  BY <1>3 DEF lock_exclusively
<1>4. ASSUME NEW p \in Procs, CheckCheckpoint(p) \/ Scan(p) \/ LimitReached(p)
      PROVE  /\ file'.version = file.version /\ file'.faucet = file.faucet
             /\ file'.anchor = file.anchor
  BY <1>1, <1>4 DEF CheckCheckpoint, Scan, LimitReached, File
<1>5. CASE Damage
  BY <1>1, <1>5 DEF Damage, File
<1>6. ASSUME NEW p \in Procs,
             \/ \E cli \in Settings : Launch(p, cli)
             \/ account_exists(p) \/ CheckAnchor(p) \/ try_exists(p) \/ upgrade(p)
             \/ Validate(p) \/ CheckLimit(p) \/ Stop(p)
      PROVE  UNCHANGED file
  BY <1>6, Zenon DEF Launch, account_exists, CheckAnchor, try_exists, upgrade, Validate,
     CheckLimit, Stop
<1>7. CASE NodeChanges \/ UNCHANGED vars
  BY <1>7 DEF NodeChanges, vars
<1> QED
  BY <1>2, <1>3, <1>4, <1>5, <1>6, <1>7 DEF Next

\* A commit has the lock; it fills an empty file or brings a store forward as it is.
LEMMA CommitFits ==
  ASSUME StartInv, NEW p \in Procs, Commit(p)
  PROVE  /\ lock = p /\ file'.version = STORE_VERSION
         /\ file'.faucet = proc[p].cli.faucet /\ file'.anchor = proc[p].cli.anchor
         /\ \/ file.version = 0
            \/ /\ file.version \in 1 .. STORE_VERSION
               /\ file'.faucet = file.faucet /\ file'.anchor = file.anchor
<1>1. proc[p].pc = "commit" /\ file' = proc[p].tx
  BY DEF Commit
<1>2. Opened(proc[p], file) /\ lock = p /\ file \in File
  BY <1>1, OfProc DEF Inside
<1>3. file'.version = STORE_VERSION /\ Fits(file', proc[p])
  BY <1>1, <1>2 DEF Opened
<1>4. CASE file.version = 0
  BY <1>2, <1>3, <1>4 DEF Fits
<1>5. CASE /\ file.version \in 1 .. STORE_VERSION
           /\ file' = [file EXCEPT !.version = STORE_VERSION]
  <2>1. file'.faucet = file.faucet /\ file'.anchor = file.anchor
    BY <1>2, <1>5 DEF File
  <2> QED
    BY <1>2, <1>3, <1>5, <2>1 DEF Fits
<1> QED
  BY <1>1, <1>2, <1>4, <1>5 DEF Opened

\* A store serves the faucet and the anchor it was made for as long as it exists, and its
\* layout only goes forward (open_or_create, initialize_store).
THEOREM StoresStayBound == Spec => BoundForGood
<1>1. ASSUME StartInv, [Next]_vars, Bound
      PROVE  /\ file'.faucet = file.faucet /\ file'.anchor = file.anchor
             /\ file'.version >= file.version
  <2>1. file.version > 0 /\ file.version \in Int /\ file # Absent
    <3>0. file \in File
      BY <1>1 DEF StartInv, TypeOK
    <3>1. file.version \in Int
      <4>1. file.version \in {-1, 0, 4} \cup Versions
        BY <3>0 DEF File, STORE_VERSION
      <4>2. \A v \in Versions : v \in Int
        BY SettingsAssumption
      <4> QED
        BY <4>1, <4>2
    <3>2. Absent.version = -1
      BY DEF Absent
    <3> QED
      BY <1>1, <3>1, <3>2 DEF Bound
  <2>2. ASSUME NEW p \in Procs, Commit(p)
        PROVE  /\ file'.faucet = file.faucet /\ file'.anchor = file.anchor
               /\ file'.version >= file.version
    BY <1>1, <2>1, <2>2, CommitFits DEF STORE_VERSION
  <2> QED
    BY <1>1, <2>1, <2>2, FileSteps
<1>2. StartInv /\ [Next]_vars =>
        [Bound => /\ file'.faucet = file.faucet /\ file'.anchor = file.anchor
                  /\ file'.version >= file.version]_vars
  BY <1>1
<1> QED
  BY <1>2, StartInvariance, PTL DEF Spec, BoundForGood

\* The layout of a file changes when the file is made, empty, and in the commit of a process
\* whose settings fit the store: a start that is refused or crashes leaves it (open_existing).
THEOREM RefusalsLeaveTheStore == Spec => RefusedLeavesNothing
<1> DEFINE Whole ==
             \/ file = Absent /\ file'.version = 0
             \/ /\ file'.version = STORE_VERSION
                /\ \E p \in Procs : /\ lock = p /\ proc[p].cli.faucet = file'.faucet
                                    /\ proc[p].cli.anchor = file'.anchor
<1>1. ASSUME StartInv, [Next]_vars, file'.version # file.version
      PROVE  Whole
  <2>1. [Absent EXCEPT !.version = 0].version = 0
    BY DEF Absent
  <2>2. ASSUME NEW p \in Procs, Commit(p) PROVE Whole
    BY <1>1, <2>2, CommitFits
  <2> QED
    BY <1>1, <2>1, <2>2, FileSteps, Zenon
<1>2. StartInv /\ [Next]_vars => [file'.version # file.version => Whole]_vars
  BY <1>1
<1> QED
  BY <1>2, StartInvariance, PTL DEF Spec, RefusedLeavesNothing

\* A process begins to serve in the check of its checkpoint only.
LEMMA ServingBegins ==
  ASSUME StartInv, [Next]_vars, NEW p \in Procs, Serving(p)', ~ Serving(p)
  PROVE  CheckCheckpoint(p)
<1>1. proc \in [Procs -> Proc] /\ proc'[p] # proc[p] /\ proc'[p].pc = "running"
  BY DEF Serving, StartInv, TypeOK
<1>2. ASSUME NEW q \in Procs,
             \/ \E cli \in Settings : Launch(q, cli)
             \/ account_exists(q) \/ CheckAnchor(q) \/ try_exists(q) \/ lock_exclusively(q)
             \/ upgrade(q) \/ Validate(q) \/ CheckLimit(q) \/ Stop(q)
      PROVE  FALSE
  <2>1. PICK r : proc' = [proc EXCEPT ![q] = r] /\ r.pc # "running"
    <3>1. proc[q] \in Proc
      BY <1>1
    <3>2. CASE \E cli \in Settings : Launch(q, cli)
      <4>1. PICK cli \in Settings : Launch(q, cli)
        BY <3>2
      <4>2. /\ [Down EXCEPT !.pc = "account", !.cli = cli].pc = "account"
            /\ [Down EXCEPT !.pc = "open", !.cli = cli, !.exists = TRUE].pc = "open"
        BY DEF Down
      <4> QED
        BY <4>1, <4>2, Zenon DEF Launch
    <3>3. CASE account_exists(q) \/ lock_exclusively(q) \/ Validate(q) \/ CheckLimit(q)
      BY <3>1, <3>3 DEF account_exists, lock_exclusively, Validate, CheckLimit, Goto, Proc
    <3>4. CASE CheckAnchor(q) \/ try_exists(q)
      BY <3>1, <3>4 DEF CheckAnchor, try_exists, Proc
    <3>5. CASE upgrade(q)
      BY <3>1, <3>5 DEF upgrade, Proc
    <3>6. CASE Stop(q)
      <4>1. Down.pc = "down"
        BY DEF Down
      <4> QED
        BY <3>6, <4>1, Zenon DEF Stop
    <3> QED
      BY <1>2, <3>2, <3>3, <3>4, <3>5, <3>6
  <2> QED
    BY <1>1, <2>1
<1>3. ASSUME NEW q \in Procs, Scan(q) \/ LimitReached(q) PROVE FALSE
  BY <1>1, <1>3 DEF Scan, LimitReached
<1>4. ~ (NodeChanges \/ Damage \/ UNCHANGED vars)
  BY <1>1 DEF NodeChanges, Damage, vars
<1>5. ASSUME NEW q \in Procs, Commit(q) PROVE FALSE
  <2> DEFINE pc == IF proc[q].cli.command = "run" THEN "limit" ELSE "running"
             r == [proc[q] EXCEPT !.pc = pc]
  <2>0. Goto(q, pc) /\ pc \in Inside
    BY <1>5 DEF Commit, Inside
  <2> HIDE DEF pc
  <2>3. pc \in {"down", "account", "anchor", "exists", "open"} \cup Inside
    BY <2>0
  <2>1. proc' = [proc EXCEPT ![q] = r] /\ r.pc = pc /\ r.cli = proc[q].cli
    BY <2>0, <2>3, Moved, ZenonT(30)
  <2> HIDE DEF r
  <2>2. q = p /\ proc'[p] = r
    BY <1>1, <2>1
  <2> QED
    BY <1>1, <2>1, <2>2 DEF Serving, pc
<1>6. ASSUME NEW q \in Procs, CheckCheckpoint(q) PROVE q = p
  BY <1>1, <1>6 DEF CheckCheckpoint, Goto
<1> QED
  BY <1>2, <1>3, <1>4, <1>5, <1>6 DEF Next

\* An old store is served only on a node that has its last block, a new one from its anchor
\* (check_checkpoint).
THEOREM NoServiceAfterDivergence == Spec => DivergedDoesNotServe
<1>1. ASSUME StartInv, [Next]_vars, NEW p \in Procs, Serving(p)', ~ Serving(p)
      PROVE  \/ OnChain(node.chain, file.checkpoint)
             \/ file.checkpoint = NoBlock /\ file'.checkpoint = file.anchor
  <2>1. CheckCheckpoint(p)
    BY <1>1, ServingBegins
  <2>2. CASE OnChain(node.chain, file.checkpoint)
    BY <2>2
  <2>3. CASE file.checkpoint = NoBlock /\ file' = [file EXCEPT !.checkpoint = proc[p].block]
    <3>1. Checked(proc[p]) /\ Opened(proc[p], file) /\ file \in File
      BY <1>1, OfProc
    <3>2. proc[p].block = file.anchor
      BY <2>1, <3>1 DEF CheckCheckpoint, Checked, Opened, Fits, Inside
    <3>3. file'.checkpoint = proc[p].block
      BY <2>3, <3>1 DEF File
    <3> QED
      BY <2>3, <3>2, <3>3
  <2> QED
    BY <2>1, <2>2, <2>3 DEF CheckCheckpoint
<1>2. StartInv /\ [Next]_vars =>
        [\A p \in Procs : (Serving(p)' /\ ~ Serving(p)) =>
           \/ OnChain(node.chain, file.checkpoint)
           \/ file.checkpoint = NoBlock /\ file'.checkpoint = file.anchor]_vars
  BY <1>1
<1> QED
  BY <1>2, StartInvariance, PTL DEF Spec, DivergedDoesNotServe

-----------------------------------------------------------------------------
(* The admin socket's file.  A process that started while no other ran is alone until   *)
(* another starts, and then what it found at the path is still there: SocketInv says    *)
(* what that is at each place.                                                          *)

CONSTANT Processes

VARIABLES path, at, held, alone

Socket == INSTANCE AdminSocket WITH pc <- at, lock <- held

Active(p) == at[p] \notin {"idle", "failed"}

\* What p knows of the path, as long as no other process runs.
FoundOK(p) ==
  /\ at[p] \in {"probe", "remove"} => path \in Processes
  /\ at[p] = "bind" => path = "absent"
  /\ at[p] \in {"restrict", "lock", "serving"} => path = p

AloneOK ==
  alone => \A p \in Processes : Active(p) =>
             FoundOK(p) /\ \A q \in Processes \ {p} : ~ Active(q)

SocketInv == Socket!TypeOK /\ AloneOK

LEMMA SocketStarts ==
  ASSUME Socket!Assumption, SocketInv, NEW p \in Processes, Socket!Start(p)
  PROVE  SocketInv'
<1>1. Socket!TypeOK'
  BY DEF SocketInv, Socket!TypeOK, Socket!Start, Socket!Go, Socket!Starting
<1>2. AloneOK'
  BY Zenon DEF SocketInv, Socket!TypeOK, Socket!Start, Socket!Go, AloneOK, Active, FoundOK
<1> QED
  BY <1>1, <1>2 DEF SocketInv

\* A step of one process: what it found stays true of a process alone, and a start that fails
\* alone found a file that is no socket.
LEMMA SocketSteps ==
  ASSUME Socket!Assumption, SocketInv, NEW p \in Processes, Socket!Step(p)
  PROVE  SocketInv' /\ (alone /\ at[p] \in Socket!Starting /\ at'[p] = "failed" => path = "file")
<1>0. alone' = alone
  BY DEF Socket!Step
<1> USE DEF SocketInv, Socket!Assumption, Socket!TypeOK, Socket!Go, Socket!Starting, AloneOK,
            Active, FoundOK
<1>1. CASE Socket!inspect(p)
  <2>1. Socket!TypeOK'
    BY <1>0, <1>1 DEF Socket!inspect
  <2>2. AloneOK'
    BY <1>0, <1>1 DEF Socket!inspect
  <2>3. alone /\ at[p] \in Socket!Starting /\ at'[p] = "failed" => path = "file"
    BY <1>1 DEF Socket!inspect
  <2> QED
    BY <2>1, <2>2, <2>3
<1>2. CASE Socket!probe(p)
  <2>1. Socket!TypeOK'
    BY <1>0, <1>2 DEF Socket!probe, Socket!Listening
  <2>2. AloneOK'
    BY <1>0, <1>2 DEF Socket!probe, Socket!Listening
  <2>3. alone /\ at[p] \in Socket!Starting /\ at'[p] = "failed" => path = "file"
    BY <1>2 DEF Socket!probe, Socket!Listening
  <2> QED
    BY <2>1, <2>2, <2>3
<1>3. CASE Socket!remove(p)
  <2>1. Socket!TypeOK'
    BY <1>0, <1>3 DEF Socket!remove
  <2>2. AloneOK'
    BY <1>0, <1>3 DEF Socket!remove
  <2>3. alone /\ at[p] \in Socket!Starting /\ at'[p] = "failed" => path = "file"
    BY <1>3 DEF Socket!remove
  <2> QED
    BY <2>1, <2>2, <2>3
<1>4. CASE Socket!bind(p)
  <2>1. Socket!TypeOK'
    BY <1>0, <1>4 DEF Socket!bind
  <2>2. AloneOK'
    BY <1>0, <1>4 DEF Socket!bind
  <2>3. alone /\ at[p] \in Socket!Starting /\ at'[p] = "failed" => path = "file"
    BY <1>4 DEF Socket!bind
  <2> QED
    BY <2>1, <2>2, <2>3
<1>5. CASE Socket!restrict(p)
  <2>1. Socket!TypeOK'
    BY <1>0, <1>5 DEF Socket!restrict
  <2>2. AloneOK'
    BY <1>0, <1>5 DEF Socket!restrict
  <2>3. alone /\ at[p] \in Socket!Starting /\ at'[p] = "failed" => path = "file"
    BY <1>5 DEF Socket!restrict
  <2> QED
    BY <2>1, <2>2, <2>3
<1>6. CASE Socket!lock_exclusively(p)
  <2>1. Socket!TypeOK'
    BY <1>0, <1>6 DEF Socket!lock_exclusively
  <2>2. AloneOK'
    BY <1>0, <1>6 DEF Socket!lock_exclusively
  <2>3. alone /\ at[p] \in Socket!Starting /\ at'[p] = "failed" => path = "file"
    BY <1>6 DEF Socket!lock_exclusively
  <2> QED
    BY <2>1, <2>2, <2>3
<1>7. CASE Socket!stop(p)
  <2>1. Socket!TypeOK'
    BY <1>0, <1>7 DEF Socket!stop
  <2>2. AloneOK'
    BY <1>0, <1>7 DEF Socket!stop
  <2>3. alone /\ at[p] \in Socket!Starting /\ at'[p] = "failed" => path = "file"
    BY <1>7 DEF Socket!stop
  <2> QED
    BY <2>1, <2>2, <2>3
<1>8. CASE Socket!unlink(p)
  <2>1. Socket!TypeOK'
    BY <1>0, <1>8 DEF Socket!unlink
  <2>2. AloneOK'
    BY <1>0, <1>8 DEF Socket!unlink
  <2>3. alone /\ at[p] \in Socket!Starting /\ at'[p] = "failed" => path = "file"
    BY <1>8 DEF Socket!unlink
  <2> QED
    BY <2>1, <2>2, <2>3
<1>9. CASE Socket!exit(p)
  <2>1. Socket!TypeOK'
    BY <1>0, <1>9 DEF Socket!exit
  <2>2. AloneOK'
    BY <1>0, <1>9 DEF Socket!exit
  <2>3. alone /\ at[p] \in Socket!Starting /\ at'[p] = "failed" => path = "file"
    BY <1>9 DEF Socket!exit
  <2> QED
    BY <2>1, <2>2, <2>3
<1>10. CASE Socket!Crash(p)
  <2>1. Socket!TypeOK'
    BY <1>0, <1>10 DEF Socket!Crash
  <2>2. AloneOK'
    BY <1>0, <1>10 DEF Socket!Crash
  <2>3. alone /\ at[p] \in Socket!Starting /\ at'[p] = "failed" => path = "file"
    BY <1>10 DEF Socket!Crash
  <2> QED
    BY <2>1, <2>2, <2>3
<1> QED
  BY <1>1, <1>2, <1>3, <1>4, <1>5, <1>6, <1>7, <1>8, <1>9, <1>10, Zenon DEF Socket!Step

LEMMA SocketAlways == ASSUME Socket!Assumption PROVE Socket!Spec => []SocketInv
<1>1. Socket!Init => SocketInv
  BY DEF Socket!Assumption, Socket!Init, SocketInv, Socket!TypeOK, AloneOK, Active
<1>2. SocketInv /\ [Socket!Next]_Socket!vars => SocketInv'
  <2> SUFFICES ASSUME SocketInv, [Socket!Next]_Socket!vars PROVE SocketInv'
    OBVIOUS
  <2>1. CASE UNCHANGED Socket!vars
    BY <2>1 DEF Socket!vars, SocketInv, Socket!TypeOK, AloneOK, Active, FoundOK
  <2> QED
    BY <2>1, SocketStarts, SocketSteps DEF Socket!Next
<1> QED
  BY <1>1, <1>2, PTL DEF Socket!Spec

\* An attester that started by itself is the one the path leads to as long as it serves, for any
\* number of processes that start, stop and crash on the path (bind).
THEOREM ServedAtThePath ==
  ASSUME Socket!Assumption PROVE Socket!Spec => []Socket!AdminIsServed
<1>1. SocketInv => Socket!AdminIsServed
  BY DEF SocketInv, AloneOK, Active, FoundOK, Socket!ServingIsReachable, Socket!AdminIsServed
<1> QED
  BY <1>1, SocketAlways, PTL

\* Whatever a crash, a failed start or a stop left behind, a start alone fails only over a file
\* that is no socket (remove_stale_socket).
THEOREM StartsOverLeftovers ==
  ASSUME Socket!Assumption PROVE Socket!Spec => Socket!LeftoversDoNotBlock
<1>1. SocketInv /\ [Socket!Next]_Socket!vars =>
        [\A p \in Processes :
           (alone /\ at[p] \in Socket!Starting /\ at'[p] = "failed") => path = "file"]_Socket!vars
  <2> SUFFICES ASSUME SocketInv, Socket!Next, NEW p \in Processes,
                      alone, at[p] \in Socket!Starting, at'[p] = "failed"
               PROVE  path = "file"
    OBVIOUS
  <2>1. PICK q \in Processes : Socket!Start(q) \/ Socket!Step(q)
    BY DEF Socket!Next
  <2>2. p # q => at'[p] = at[p]
    BY <2>1, Zenon DEF SocketInv, Socket!TypeOK, Socket!Go, Socket!Start, Socket!Step, Socket!inspect,
                Socket!probe, Socket!remove, Socket!bind, Socket!restrict,
                Socket!lock_exclusively, Socket!stop, Socket!unlink, Socket!exit, Socket!Crash
  <2>3. at[p] # "failed"
    BY DEF Socket!Starting
  <2>4. ~ Socket!Start(p)
    BY Zenon DEF Socket!Start, Socket!Starting
  <2> QED
    BY <2>1, <2>2, <2>3, <2>4, SocketSteps
<1> QED
  BY <1>1, SocketAlways, PTL DEF Socket!Spec, Socket!LeftoversDoNotBlock

-----------------------------------------------------------------------------
(* The operators' commands. *)

CONSTANTS Clients, Ops, MaxConnections, QueueSize, PerCheckpoint, MaxSteps, MaxSeq

VARIABLES conn, queue, att, job, hold, listener, stopping

INSTANCE FiniteSetTheorems

Admin == INSTANCE AdminQueue WITH shutdown <- stopping

Connections ==
  [st : {"idle", "backlog", "reading", "waiting", "answered"}, op : Ops \cup {"none"},
   seq : 0 .. MaxSeq, answer : Admin!Answers, expired : BOOLEAN, seen : 0 .. MaxSeq,
   unsure : BOOLEAN]

ConnOK(r) ==
  /\ r \in Connections /\ (r.st = "answered") = (r.answer # "none")
  /\ r.st \in {"backlog", "reading", "waiting"} => r.op \in Ops

ConnsOK == conn \in [Clients -> Connections] /\ \A c \in Clients : ConnOK(conn[c])

QueueOK == queue \in Seq(Admin!Commands) /\ job \in Admin!Commands \cup {Admin!NoJob}

\* A command whose reply somebody waits for is the only one of its connection, which waits.
Waits(cmd) == conn[cmd.by].st = "waiting" /\ conn[cmd.by].op = cmd.op

WaitsOK ==
  /\ \A n \in DOMAIN queue : queue[n].told = "none" => Waits(queue[n])
  /\ job # Admin!NoJob /\ job.told = "none" => Waits(job)
  /\ \A m, n \in DOMAIN queue :
       queue[m].told = "none" /\ queue[n].told = "none" /\ queue[m].by = queue[n].by => m = n
  /\ \A n \in DOMAIN queue :
       queue[n].told = "none" /\ job.told = "none" => queue[n].by # job.by

\* A release that runs with nobody to tell has left its operator unsure.
DoubtOK ==
  job.told = "nobody" /\ job.op = "release" =>
    conn[job.by].unsure /\ conn[job.by].answer # "page"

RoomOK == Len(queue) <= QueueSize /\ Admin!Cardinality(Admin!Open) <= MaxConnections

RestOK ==
  /\ att \in [pc : {"checkpoint", "step", "pause", "stopped", "failed"}, count : 0 .. PerCheckpoint,
              left : 0 .. MaxSteps, woken : BOOLEAN]
  /\ hold \in [held : BOOLEAN, seq : 1 .. MaxSeq]
  /\ listener \in {"serving", "closing", "stopped"} /\ stopping \in BOOLEAN

InboxInv == ConnsOK /\ QueueOK /\ WaitsOK /\ DoubtOK /\ RoomOK /\ RestOK

\* A connection at rest.
LEMMA IdleIs ==
  ASSUME Admin!Assumption, NEW s \in 0 .. MaxSeq, NEW u \in BOOLEAN
  PROVE  /\ ConnOK(Admin!Idle(s, u)) /\ Admin!Idle(s, u).st = "idle"
         /\ Admin!Idle(s, u).answer = "none" /\ Admin!Idle(s, u).unsure = u
  BY DEF Admin!Idle, ConnOK, Connections, Admin!Assumption, Admin!Answers

\* What an answer makes of a connection.
LEMMA AnswerIs ==
  ASSUME Admin!Assumption, NEW r \in Connections, NEW a \in Admin!Answers \ {"none"}
  PROVE  /\ ConnOK(Admin!Answer(r, a)) /\ Admin!Answer(r, a).st = "answered"
         /\ Admin!Answer(r, a).answer = a /\ Admin!Answer(r, a).unsure = r.unsure
<1>1. r.seen \in 0 .. MaxSeq /\ r.unsure \in BOOLEAN
  BY DEF Connections
<1>2. ASSUME NEW q \in Connections
      PROVE  LET s == [q EXCEPT !.st = "answered", !.answer = a]
             IN  ConnOK(s) /\ s.st = "answered" /\ s.answer = a /\ s.unsure = q.unsure
  BY Zenon DEF ConnOK, Connections
<1>3. ConnOK(Admin!Idle(r.seen, r.unsure)) /\ Admin!Idle(r.seen, r.unsure).unsure = r.unsure
  BY <1>1, IdleIs
<1> QED
  BY <1>2, <1>3, Zenon DEF Admin!Answer, ConnOK

\* Connections that close leave room.
LEMMA RoomStays ==
  ASSUME Admin!Assumption, Admin!Cardinality(Admin!Open) <= MaxConnections,
         Admin!Open' \subseteq Admin!Open
  PROVE  Admin!Cardinality(Admin!Open)' <= MaxConnections
<1>1. IsFiniteSet(Clients)
  BY Zenon DEF Admin!Assumption, Admin!IsFiniteSet, IsFiniteSet
<1>2. Admin!Open \subseteq Clients
  BY DEF Admin!Open
<1>3. IsFiniteSet(Admin!Open)
  BY <1>1, <1>2, FS_Subset, Zenon
<1>4. IsFiniteSet(Admin!Open') /\ Cardinality(Admin!Open') <= Cardinality(Admin!Open)
  BY <1>3, FS_Subset, Zenon
<1>5. Cardinality(Admin!Open') \in Nat /\ Cardinality(Admin!Open) \in Nat
  BY <1>3, <1>4, FS_CardinalityType
<1>6. \A S : Admin!Cardinality(S) = Cardinality(S)
  BY Zenon DEF Admin!Cardinality, Cardinality
<1> QED
  BY <1>4, <1>5, <1>6 DEF Admin!Assumption

\* A connection that opens takes one place.
LEMMA RoomForOne ==
  ASSUME Admin!Assumption, Admin!Cardinality(Admin!Open) < MaxConnections, NEW c \in Clients,
         Admin!Open' \subseteq Admin!Open \cup {c}
  PROVE  Admin!Cardinality(Admin!Open)' <= MaxConnections
<1>1. IsFiniteSet(Clients)
  BY Zenon DEF Admin!Assumption, Admin!IsFiniteSet, IsFiniteSet
<1>2. Admin!Open \subseteq Clients
  BY DEF Admin!Open
<1>3. IsFiniteSet(Admin!Open)
  BY <1>1, <1>2, FS_Subset, Zenon
<1>4. IsFiniteSet(Admin!Open \cup {c})
      /\ Cardinality(Admin!Open \cup {c}) \in {Cardinality(Admin!Open), Cardinality(Admin!Open) + 1}
  BY <1>3, FS_AddElement
<1>5. IsFiniteSet(Admin!Open') /\ Cardinality(Admin!Open') <= Cardinality(Admin!Open \cup {c})
  BY <1>4, FS_Subset, Zenon
<1>6. Cardinality(Admin!Open') \in Nat /\ Cardinality(Admin!Open) \in Nat
  BY <1>3, <1>5, FS_CardinalityType
<1>7. \A S : Admin!Cardinality(S) = Cardinality(S)
  BY Zenon DEF Admin!Cardinality, Cardinality
<1> QED
  BY <1>4, <1>5, <1>6, <1>7 DEF Admin!Assumption

\* One connection changes, and the inbox does not: a client that waits goes on waiting, and doubt
\* about a release ends only with a page.
LEMMA OneConnection ==
  ASSUME Admin!Assumption, InboxInv, NEW c \in Clients, NEW r, ConnOK(r),
         conn' = [conn EXCEPT ![c] = r], UNCHANGED <<queue, job>>,
         conn[c].st = "waiting" => r.st = "waiting" /\ r.op = conn[c].op,
         r.answer # "page", conn[c].unsure /\ conn[c].answer # "page" => r.unsure
  PROVE  /\ ConnsOK' /\ QueueOK' /\ WaitsOK' /\ DoubtOK'
         /\ (r.st \in {"reading", "waiting"} => conn[c].st \in {"reading", "waiting"}) => RoomOK'
<1>1. conn \in [Clients -> Connections] /\ r \in Connections
  BY DEF InboxInv, ConnsOK, ConnOK
<1>2. conn'[c] = r /\ \A d \in Clients \ {c} : conn'[d] = conn[d]
  BY <1>1
<1>3. ConnsOK'
  BY <1>1, <1>2 DEF InboxInv, ConnsOK
<1>4. QueueOK'
  BY DEF InboxInv, QueueOK
<1>5. ASSUME NEW cmd \in Admin!Commands, Waits(cmd) PROVE Waits(cmd)'
  BY <1>2, <1>5 DEF Waits, Admin!Commands
<1>6. WaitsOK'
  <2>1. \A n \in DOMAIN queue : queue[n] \in Admin!Commands
    BY DEF InboxInv, QueueOK
  <2>2. job # Admin!NoJob => job \in Admin!Commands
    BY DEF InboxInv, QueueOK
  <2> QED
    BY <1>5, <2>1, <2>2, Zenon DEF InboxInv, WaitsOK
<1>7. DoubtOK'
  <2> SUFFICES ASSUME job.told = "nobody", job.op = "release"
               PROVE  conn'[job.by].unsure /\ conn'[job.by].answer # "page"
    BY DEF DoubtOK
  <2>1. job.by \in Clients
    BY DEF InboxInv, QueueOK, Admin!Commands, Admin!NoJob
  <2>2. conn[job.by].unsure /\ conn[job.by].answer # "page"
    BY DEF InboxInv, DoubtOK
  <2> QED
    BY <1>2, <2>1, <2>2
<1>8. ASSUME r.st \in {"reading", "waiting"} => conn[c].st \in {"reading", "waiting"}
      PROVE  RoomOK'
  <2>1. Admin!Open' \subseteq Admin!Open
    BY <1>2, <1>8 DEF Admin!Open
  <2> QED
    BY <2>1, RoomStays DEF InboxInv, RoomOK
<1> QED
  BY <1>3, <1>4, <1>6, <1>7, <1>8

\* What clients and the listener do with one connection that stays out of the inbox.
LEMMA ConnectionSteps ==
  ASSUME Admin!Assumption, InboxInv, NEW c \in Clients,
         \/ Admin!Connect(c) \/ Admin!Receive(c) \/ Admin!Disconnect(c) \/ Admin!Accept(c)
         \/ Admin!ReadFails(c) \/ Admin!Expire(c) \/ (Admin!dispatch(c) /\ UNCHANGED queue)
  PROVE  InboxInv'
<1>1. ConnOK(conn[c]) /\ conn[c] \in Connections /\ conn \in [Clients -> Connections]
  BY DEF InboxInv, ConnsOK
<1>2. conn[c].seen \in 0 .. MaxSeq /\ conn[c].seq \in 0 .. MaxSeq /\ conn[c].unsure \in BOOLEAN
  BY <1>1 DEF Connections
<1>3. CASE Admin!Connect(c)
  <2>1. PICK op \in Ops : conn' = [conn EXCEPT ![c].st = "backlog", ![c].op = op,
                                     ![c].seq = IF op = "release" THEN conn[c].seen ELSE 0]
    BY <1>3, Zenon DEF Admin!Connect
  <2>2. PICK n \in 0 .. MaxSeq : n = IF op = "release" THEN conn[c].seen ELSE 0
    BY <1>2 DEF Admin!Assumption
  <2> DEFINE r == [conn[c] EXCEPT !.st = "backlog", !.op = op, !.seq = n]
  <2>3. conn' = [conn EXCEPT ![c] = r]
    BY <1>1, <2>1, <2>2, Zenon
  <2>4. ConnOK(r) /\ r.st = "backlog" /\ r.answer = conn[c].answer /\ r.unsure = conn[c].unsure
    BY <1>1, <1>3, Zenon DEF ConnOK, Connections, Admin!Connect
  <2>5. conn[c].st = "idle" /\ conn[c].answer = "none" /\ UNCHANGED <<queue, job>> /\ RestOK'
    BY <1>1, <1>3, Zenon DEF ConnOK, Admin!Connect, InboxInv, RestOK
  <2> HIDE DEF r
  <2> QED
    BY <2>3, <2>4, <2>5, OneConnection, Zenon DEF InboxInv
<1>4. CASE Admin!Receive(c) \/ Admin!Disconnect(c)
  <2>1. UNCHANGED <<queue, job>> /\ RestOK' /\ conn[c].st = "answered"
    BY <1>4, Zenon DEF Admin!Receive, Admin!Disconnect, InboxInv, RestOK
  <2>2. CASE conn' = [conn EXCEPT ![c] = Admin!Idle(conn[c].seen, conn[c].unsure)]
    <3>1. LET r == Admin!Idle(conn[c].seen, conn[c].unsure)
          IN  ConnOK(r) /\ r.st = "idle" /\ r.answer = "none" /\ r.unsure = conn[c].unsure
      BY <1>2, IdleIs
    <3> QED
      BY <2>1, <2>2, <3>1, OneConnection, ZenonT(30) DEF InboxInv
  <2>3. CASE conn[c].answer = "page" /\ conn' = [conn EXCEPT ![c] = Admin!Idle(conn[c].seq, FALSE)]
    <3>1. LET r == Admin!Idle(conn[c].seq, FALSE)
          IN  ConnOK(r) /\ r.st = "idle" /\ r.answer = "none"
      BY <1>2, IdleIs, Zenon
    <3> QED
      BY <2>1, <2>3, <3>1, OneConnection, Zenon DEF InboxInv
  <2> QED
    BY <1>4, <2>2, <2>3, Zenon DEF Admin!Receive, Admin!Disconnect
<1>5. CASE Admin!Accept(c)
  <2> DEFINE r == [conn[c] EXCEPT !.st = "reading"]
  <2>1. conn' = [conn EXCEPT ![c] = r] /\ UNCHANGED <<queue, job>> /\ RestOK'
    BY <1>1, <1>5 DEF Admin!Accept, InboxInv, RestOK
  <2>2. ConnOK(r) /\ r.st = "reading" /\ r.answer = "none" /\ r.unsure = conn[c].unsure
    BY <1>1, <1>5 DEF ConnOK, Connections, Admin!Accept
  <2>3. conn[c].st = "backlog" /\ Admin!Cardinality(Admin!Open) < MaxConnections
    BY <1>5 DEF Admin!Accept
  <2>4. Admin!Open' \subseteq Admin!Open \cup {c}
    BY <1>1, <2>1 DEF Admin!Open
  <2> HIDE DEF r
  <2>5. ConnsOK' /\ QueueOK' /\ WaitsOK' /\ DoubtOK'
    BY <2>1, <2>2, <2>3, OneConnection, Zenon
  <2> QED
    BY <2>1, <2>3, <2>4, <2>5, RoomForOne DEF InboxInv, RoomOK
<1>6. ASSUME NEW a \in {"invalid_input", "stopping", "unavailable", "queue_full"},
             conn' = [conn EXCEPT ![c] = Admin!Answer(conn[c], a)],
             conn[c].st = "reading", UNCHANGED <<queue, job>>, RestOK'
      PROVE  InboxInv'
  <2>1. LET r == Admin!Answer(conn[c], a)
        IN  ConnOK(r) /\ r.st = "answered" /\ r.answer = a /\ r.unsure = conn[c].unsure
    BY <1>1, AnswerIs DEF Admin!Answers
  <2> QED
    BY <1>6, <2>1, OneConnection, Zenon DEF InboxInv
<1>7. CASE Admin!ReadFails(c)
  BY <1>6, <1>7 DEF Admin!ReadFails, InboxInv, RestOK
<1>8. CASE Admin!dispatch(c) /\ UNCHANGED queue
  <2>1. UNCHANGED job /\ RestOK'
    BY <1>8 DEF Admin!dispatch, InboxInv, RestOK
  <2>2. queue # Append(queue, [by |-> c, op |-> conn[c].op, seq |-> conn[c].seq, told |-> "none"])
    BY DEF InboxInv, QueueOK
  <2> QED
    BY <1>6, <1>8, <2>1, <2>2 DEF Admin!dispatch
<1>9. CASE Admin!Expire(c)
  <2> DEFINE r == [conn[c] EXCEPT !.expired = TRUE]
  <2>1. conn' = [conn EXCEPT ![c] = r] /\ UNCHANGED <<queue, job>> /\ RestOK'
    BY <1>1, <1>9 DEF Admin!Expire, InboxInv, RestOK
  <2>2. /\ ConnOK(r) /\ r.st = conn[c].st /\ r.op = conn[c].op /\ r.answer = "none"
        /\ r.unsure = conn[c].unsure
    BY <1>1, <1>9, Zenon DEF ConnOK, Connections, Admin!Expire
  <2> HIDE DEF r
  <2> QED
    BY <2>1, <2>2, OneConnection, Zenon DEF InboxInv
<1> QED
  BY <1>3, <1>4, <1>5, <1>7, <1>8, <1>9

\* A request that is admitted to the inbox.
LEMMA Admitted ==
  ASSUME Admin!Assumption, InboxInv, NEW c \in Clients, Admin!dispatch(c), queue' # queue
  PROVE  InboxInv'
<1> DEFINE cmd == [by |-> c, op |-> conn[c].op, seq |-> conn[c].seq, told |-> "none"]
           r == [conn[c] EXCEPT !.st = "waiting"]
<1>1. /\ conn[c].st = "reading" /\ Len(queue) < QueueSize /\ queue' = Append(queue, cmd)
      /\ conn' = [conn EXCEPT ![c].st = "waiting"] /\ UNCHANGED job /\ RestOK'
  BY DEF Admin!dispatch, InboxInv, RestOK
<1>2. ConnOK(conn[c]) /\ conn \in [Clients -> Connections]
  BY DEF InboxInv, ConnsOK
<1>3. conn' = [conn EXCEPT ![c] = r]
  BY <1>1, <1>2
<1>4. ConnOK(r) /\ r.st = "waiting" /\ r.op = conn[c].op /\ r.answer = conn[c].answer
      /\ r.unsure = conn[c].unsure
  BY <1>1, <1>2 DEF ConnOK, Connections
<1>5. conn'[c] = r /\ \A d \in Clients \ {c} : conn'[d] = conn[d]
  BY <1>2, <1>3
<1>6. ConnsOK'
  BY <1>2, <1>3, <1>4, <1>5 DEF InboxInv, ConnsOK, ConnOK
<1>7. cmd \in Admin!Commands
  BY <1>1, <1>2 DEF ConnOK, Connections, Admin!Commands
<1>8. cmd.by = c /\ cmd.op = conn[c].op /\ cmd.told = "none"
  OBVIOUS
<1> HIDE DEF cmd, r
<1>9. queue \in Seq(Admin!Commands) /\ job \in Admin!Commands \cup {Admin!NoJob}
  BY DEF InboxInv, QueueOK
<1>10. QueueOK'
  BY <1>1, <1>7, <1>9 DEF QueueOK
<1>11. /\ DOMAIN queue' = DOMAIN queue \cup {Len(queue) + 1} /\ Len(queue) + 1 \notin DOMAIN queue
       /\ \A n \in DOMAIN queue : queue'[n] = queue[n] /\ queue[n] \in Admin!Commands
       /\ queue'[Len(queue) + 1] = cmd /\ Len(queue') = Len(queue) + 1 /\ Len(queue) \in Nat
  BY <1>1, <1>7, <1>9
<1>12. RoomOK'
  <2>1. Admin!Open' \subseteq Admin!Open
    BY <1>1, <1>5 DEF Admin!Open
  <2> QED
    BY <1>1, <1>11, <2>1, RoomStays DEF InboxInv, RoomOK, Admin!Assumption
<1> DEFINE StillWaits(e) == conn'[e.by].st = "waiting" /\ conn'[e.by].op = e.op
<1>13. ASSUME NEW e \in Admin!Commands, Waits(e) PROVE StillWaits(e) /\ e.by # c
  BY <1>1, <1>5, <1>13 DEF Waits, Admin!Commands
<1>14. StillWaits(cmd)
  BY <1>4, <1>5, <1>8
<1> HIDE DEF StillWaits
<1>15. job.told = "none" => job.by # c
  BY <1>9, <1>13 DEF InboxInv, WaitsOK, Admin!NoJob, Admin!Assumption
<1>16. WaitsOK'
  <2>1. \A n \in DOMAIN queue : queue[n].told = "none" => StillWaits(queue[n]) /\ queue[n].by # c
    BY <1>11, <1>13, Zenon DEF InboxInv, WaitsOK
  <2>2. \A n \in DOMAIN queue' : queue'[n].told = "none" => StillWaits(queue'[n])
    BY <1>11, <1>14, <2>1, ZenonT(30)
  <2>3. job # Admin!NoJob /\ job.told = "none" => StillWaits(job)
    BY <1>9, <1>13 DEF InboxInv, WaitsOK
  <2>4. \A m, n \in DOMAIN queue' :
          queue'[m].told = "none" /\ queue'[n].told = "none" /\ queue'[m].by = queue'[n].by => m = n
    BY <1>8, <1>11, <2>1, ZenonT(30) DEF InboxInv, WaitsOK
  <2>5. \A n \in DOMAIN queue' :
          queue'[n].told = "none" /\ job.told = "none" => queue'[n].by # job.by
    BY <1>8, <1>11, <1>15, Zenon DEF InboxInv, WaitsOK
  <2> QED
    BY <1>1, <2>2, <2>3, <2>4, <2>5 DEF WaitsOK, Waits, StillWaits
<1>17. DoubtOK'
  <2>1. job.told = "nobody" => job.by \in Clients
    BY <1>9 DEF Admin!Commands, Admin!NoJob
  <2> QED
    BY <1>1, <1>4, <1>5, <2>1 DEF InboxInv, DoubtOK
<1> QED
  BY <1>1, <1>6, <1>10, <1>12, <1>16, <1>17 DEF InboxInv

\* The receivers of these clients' replies are dropped.
LEMMA ToldIs ==
  ASSUME Admin!Assumption, NEW cs \in SUBSET Clients
  PROVE  /\ \A e \in Admin!Commands :
              /\ Admin!Told(e, cs) \in Admin!Commands
              /\ Admin!Told(e, cs).by = e.by /\ Admin!Told(e, cs).op = e.op
              /\ e.by \in cs => Admin!Told(e, cs).told = "nobody"
              /\ e.by \notin cs => Admin!Told(e, cs) = e
         /\ Admin!Told(Admin!NoJob, cs) = Admin!NoJob
<1>1. Admin!Told(Admin!NoJob, cs) = Admin!NoJob
  BY DEF Admin!Told, Admin!NoJob, Admin!Assumption
<1> QED
  BY <1>1 DEF Admin!Told, Admin!Commands

\* Connections that end with a reply lost.
LEMMA Ended ==
  ASSUME Admin!Assumption, InboxInv, NEW cs \in SUBSET Clients,
         NEW a \in {"reply_timeout", "lost"}, Admin!EndAll(cs, a), RestOK'
  PROVE  InboxInv'
<1>1. conn \in [Clients -> Connections] /\ \A c \in Clients : ConnOK(conn[c])
  BY DEF InboxInv, ConnsOK
<1>2. ASSUME NEW c \in cs
      PROVE  /\ ConnOK(conn'[c]) /\ conn'[c].st = "answered" /\ conn'[c].answer = a
             /\ conn'[c].unsure = (conn[c].unsure \/ conn[c].op = "release")
  <2> DEFINE q == Admin!Answer(conn[c], a)
  <2>1. ConnOK(q) /\ q.st = "answered" /\ q.answer = a /\ q.unsure = conn[c].unsure
    BY <1>1, AnswerIs DEF Admin!Answers
  <2>2. conn'[c] = [q EXCEPT !.unsure = q.unsure \/ conn[c].op = "release"]
    BY DEF Admin!EndAll
  <2>3. PICK u \in BOOLEAN : u = (q.unsure \/ conn[c].op = "release")
    BY Zenon
  <2>5. conn'[c] = [q EXCEPT !.unsure = u]
    BY <2>2, <2>3, Zenon
  <2> HIDE DEF q
  <2>6. ConnOK(conn'[c]) /\ conn'[c].st = "answered" /\ conn'[c].answer = a /\ conn'[c].unsure = u
    BY <2>1, <2>5 DEF ConnOK, Connections
  <2> QED
    BY <2>1, <2>3, <2>6, Zenon
<1>3. \A c \in Clients \ cs : conn'[c] = conn[c]
  BY DEF Admin!EndAll
<1>4. ConnsOK'
  BY <1>1, <1>2, <1>3, Zenon DEF ConnsOK, ConnOK, Admin!EndAll
<1>5. queue \in Seq(Admin!Commands) /\ job \in Admin!Commands \cup {Admin!NoJob}
  BY DEF InboxInv, QueueOK
<1>6. /\ DOMAIN queue' = DOMAIN queue
      /\ \A n \in DOMAIN queue : queue'[n] = Admin!Told(queue[n], cs) /\ queue[n] \in Admin!Commands
  BY <1>5 DEF Admin!EndAll
<1>7. QueueOK' /\ Len(queue') = Len(queue)
  <2>0. Len(queue) \in Nat /\ DOMAIN queue = 1 .. Len(queue)
    BY <1>5
  <2>1. queue' \in [1 .. Len(queue) -> Admin!Commands]
    BY <1>6, <2>0, ToldIs, Zenon DEF Admin!EndAll
  <2>2. queue' \in Seq(Admin!Commands) /\ Len(queue') = Len(queue)
    BY <2>0, <2>1
  <2>3. job' \in Admin!Commands \cup {Admin!NoJob}
    BY <1>5, ToldIs, Zenon DEF Admin!EndAll
  <2> QED
    BY <2>2, <2>3 DEF QueueOK
<1>8. RoomOK'
  <2>1. Admin!Open' \subseteq Admin!Open
    BY <1>2, <1>3 DEF Admin!Open
  <2> QED
    BY <1>7, <2>1, RoomStays DEF InboxInv, RoomOK
<1> DEFINE StillWaits(e) == conn'[e.by].st = "waiting" /\ conn'[e.by].op = e.op
<1>9. ASSUME NEW e \in Admin!Commands, Admin!Told(e, cs).told = "none"
      PROVE  Admin!Told(e, cs) = e /\ (Waits(e) => StillWaits(e))
  <2>1. e.by \in Clients \ cs
    BY <1>9, ToldIs DEF Admin!Commands
  <2> QED
    BY <1>3, <2>1, ToldIs DEF Waits
<1> HIDE DEF StillWaits
<1>10. /\ job' = Admin!Told(job, cs)
       /\ job'.told = "none" => job' = job
       /\ job' # Admin!NoJob => job \in Admin!Commands
  BY <1>5, <1>9, ToldIs DEF Admin!EndAll
<1>11. WaitsOK'
  <2>1. \A n \in DOMAIN queue' :
          queue'[n].told = "none" => queue'[n] = queue[n] /\ StillWaits(queue'[n])
    BY <1>6, <1>9, Zenon DEF InboxInv, WaitsOK
  <2>2. job' # Admin!NoJob /\ job'.told = "none" => StillWaits(job')
    BY <1>9, <1>10, Zenon DEF InboxInv, WaitsOK
  <2>3. \A m, n \in DOMAIN queue' :
          queue'[m].told = "none" /\ queue'[n].told = "none" /\ queue'[m].by = queue'[n].by => m = n
    BY <1>6, <2>1, Zenon DEF InboxInv, WaitsOK
  <2>4. \A n \in DOMAIN queue' :
          queue'[n].told = "none" /\ job'.told = "none" => queue'[n].by # job'.by
    BY <1>6, <1>10, <2>1, Zenon DEF InboxInv, WaitsOK
  <2> QED
    BY <2>1, <2>2, <2>3, <2>4 DEF WaitsOK, Waits, StillWaits
<1>12. DoubtOK'
  <2> SUFFICES ASSUME job'.told = "nobody", job'.op = "release"
               PROVE  conn'[job'.by].unsure /\ conn'[job'.by].answer # "page"
    BY DEF DoubtOK
  <2>1. job \in Admin!Commands /\ job # Admin!NoJob
    BY <1>5, <1>10, ToldIs DEF Admin!NoJob
  <2>2. job'.by = job.by /\ job'.op = job.op /\ job.by \in Clients /\ job.told \in {"none", "nobody"}
    BY <1>10, <2>1, ToldIs, Zenon DEF Admin!Commands
  <2>3. CASE job.by \in cs
    <3>1. conn[job.by].unsure \/ conn[job.by].op = "release"
      BY <2>1, <2>2 DEF InboxInv, WaitsOK, Waits, DoubtOK
    <3> QED
      BY <1>2, <2>2, <2>3, <3>1, ZenonT(30)
  <2>4. CASE job.by \notin cs
    BY <1>3, <1>10, <2>1, <2>2, <2>4, ToldIs DEF InboxInv, DoubtOK
  <2> QED
    BY <2>3, <2>4
<1> QED
  BY <1>4, <1>7, <1>8, <1>11, <1>12 DEF InboxInv

\* One client is told: its connection ends, and the others wait on.
LEMMA Replied ==
  ASSUME Admin!Assumption, InboxInv, NEW d \in Clients, NEW r, ConnOK(r), r.st = "answered",
         conn' = [conn EXCEPT ![d] = r]
  PROVE  /\ ConnsOK' /\ Admin!Cardinality(Admin!Open)' <= MaxConnections
         /\ \A e \in Admin!Commands :
              Waits(e) /\ e.by # d => conn'[e.by].st = "waiting" /\ conn'[e.by].op = e.op
<1>1. conn \in [Clients -> Connections] /\ r \in Connections
  BY DEF InboxInv, ConnsOK, ConnOK
<1>2. conn'[d] = r /\ \A c \in Clients \ {d} : conn'[c] = conn[c]
  BY <1>1
<1>3. ConnsOK'
  BY <1>1, <1>2 DEF InboxInv, ConnsOK
<1>4. Admin!Open' \subseteq Admin!Open
  BY <1>2 DEF Admin!Open
<1>5. Admin!Cardinality(Admin!Open)' <= MaxConnections
  BY <1>4, RoomStays DEF InboxInv, RoomOK
<1> QED
  BY <1>2, <1>3, <1>5 DEF Waits, Admin!Commands

\* The oldest command is taken, or dropped with its sender.
LEMMA Taken ==
  ASSUME Admin!Assumption, InboxInv, Admin!Take, RestOK'
  PROVE  InboxInv'
<1> DEFINE cmd == Head(queue)
           StillWaits(e) == conn'[e.by].st = "waiting" /\ conn'[e.by].op = e.op
<1>1. queue \in Seq(Admin!Commands) /\ queue # <<>> /\ job = Admin!NoJob /\ queue' = Tail(queue)
  BY DEF Admin!Take, InboxInv, QueueOK
<1>2. /\ cmd = queue[1] /\ cmd \in Admin!Commands /\ 1 \in DOMAIN queue
      /\ queue' \in Seq(Admin!Commands) /\ Len(queue') <= Len(queue)
      /\ Len(queue) \in Nat /\ Len(queue') \in Nat
  BY <1>1
<1>3. \A n \in DOMAIN queue' : /\ n \in Int /\ n + 1 # 1 /\ n + 1 \in DOMAIN queue
                               /\ queue'[n] = queue[n + 1] /\ queue[n + 1] \in Admin!Commands
  BY <1>1
<1> HIDE DEF cmd
<1>4. cmd.by \in Clients /\ cmd.told \in {"none", "nobody"}
  BY <1>2 DEF Admin!Commands
<1>5. \A m, n \in DOMAIN queue' :
        queue'[m].told = "none" /\ queue'[n].told = "none" /\ queue'[m].by = queue'[n].by => m = n
  <2> SUFFICES ASSUME NEW m \in DOMAIN queue', NEW n \in DOMAIN queue', queue'[m].told = "none",
                      queue'[n].told = "none", queue'[m].by = queue'[n].by
               PROVE  m = n
    OBVIOUS
  <2>1. m + 1 = n + 1
    BY <1>3, Zenon DEF InboxInv, WaitsOK
  <2> QED
    BY <1>3, <2>1
<1>6. \A n \in DOMAIN queue' :
        queue'[n].told = "none" =>
          /\ queue'[n] \in Admin!Commands /\ Waits(queue[n + 1]) /\ queue'[n] = queue[n + 1]
          /\ cmd.told = "none" => queue'[n].by # cmd.by
  BY <1>2, <1>3, Zenon DEF InboxInv, WaitsOK
<1>7. CASE job' = cmd /\ UNCHANGED conn /\ cmd.told = "none"
  <2>1. ConnsOK' /\ QueueOK' /\ RoomOK'
    BY <1>2, <1>7, RoomStays DEF InboxInv, ConnsOK, QueueOK, RoomOK, Admin!Open, Admin!Assumption
  <2>2. \A n \in DOMAIN queue' : queue'[n].told = "none" => StillWaits(queue'[n])
    BY <1>6, <1>7, ZenonT(30) DEF Waits
  <2>3. StillWaits(job')
    BY <1>2, <1>7 DEF InboxInv, WaitsOK, Waits
  <2>4. WaitsOK'
    BY <1>5, <1>6, <1>7, <2>2, <2>3, ZenonT(30) DEF WaitsOK, Waits
  <2>5. DoubtOK'
    BY <1>7 DEF DoubtOK
  <2> QED
    BY <2>1, <2>4, <2>5 DEF InboxInv
<1>8. ASSUME ConnsOK', Admin!Cardinality(Admin!Open)' <= MaxConnections, UNCHANGED job,
             \A n \in DOMAIN queue' : queue'[n].told = "none" => StillWaits(queue'[n])
      PROVE  InboxInv'
  <2>1. QueueOK' /\ RoomOK'
    BY <1>1, <1>2, <1>8 DEF InboxInv, QueueOK, RoomOK, Admin!Assumption
  <2>2. \A n \in DOMAIN queue' : queue'[n].told = "none" => queue'[n].by # "nobody"
    BY <1>6 DEF Admin!Commands, Admin!Assumption
  <2>3. job' = Admin!NoJob /\ job'.by = "nobody" /\ job'.told = "none"
    BY <1>1, <1>8 DEF Admin!NoJob
  <2>4. WaitsOK'
    BY <1>5, <1>8, <2>2, <2>3, ZenonT(30) DEF WaitsOK, Waits
  <2>5. DoubtOK'
    BY <2>3 DEF DoubtOK
  <2> QED
    BY <1>8, <2>1, <2>4, <2>5 DEF InboxInv
<1>9. CASE UNCHANGED <<job, conn>>
  <2>1. ConnsOK' /\ Admin!Cardinality(Admin!Open)' <= MaxConnections
    BY <1>9, RoomStays DEF InboxInv, ConnsOK, RoomOK, Admin!Open
  <2>2. \A n \in DOMAIN queue' : queue'[n].told = "none" => StillWaits(queue'[n])
    BY <1>6, <1>9, Zenon DEF Waits
  <2> QED
    BY <1>8, <1>9, <2>1, <2>2
<1>10. CASE /\ cmd.told = "none" /\ UNCHANGED job
            /\ conn' = [conn EXCEPT ![cmd.by] = Admin!Answer(conn[cmd.by], "unavailable")]
  <2>1. conn[cmd.by] \in Connections
    BY <1>4 DEF InboxInv, ConnsOK
  <2>2. LET r == Admin!Answer(conn[cmd.by], "unavailable") IN ConnOK(r) /\ r.st = "answered"
    BY <2>1, AnswerIs DEF Admin!Answers
  <2>3. /\ ConnsOK' /\ Admin!Cardinality(Admin!Open)' <= MaxConnections
        /\ \A e \in Admin!Commands : Waits(e) /\ e.by # cmd.by => StillWaits(e)
    BY <1>4, <1>10, <2>2, Replied, Zenon
  <2>4. \A n \in DOMAIN queue' : queue'[n].told = "none" => StillWaits(queue'[n])
    BY <1>6, <1>10, <2>3, ZenonT(30)
  <2> QED
    BY <1>8, <1>10, <2>3, <2>4
<1> QED
  BY <1>4, <1>7, <1>9, <1>10 DEF Admin!Take, Admin!abandoned, cmd

\* A command is carried out, and its client told if it waits.
LEMMA Handled ==
  ASSUME Admin!Assumption, InboxInv, Admin!handle_admin
  PROVE  InboxInv'
<1> DEFINE StillWaits(e) == conn'[e.by].st = "waiting" /\ conn'[e.by].op = e.op
<1>1. job \in Admin!Commands /\ job' = Admin!NoJob /\ UNCHANGED queue
  BY DEF Admin!handle_admin, InboxInv, QueueOK
<1>2. job.by \in Clients /\ job # Admin!NoJob
  BY <1>1 DEF Admin!Commands, Admin!handle_admin
<1>3. RestOK'
  <2>1. hold' \in [held : BOOLEAN, seq : 1 .. MaxSeq]
    BY Zenon DEF Admin!handle_admin, Admin!release_checked, InboxInv, RestOK
  <2> QED
    BY <2>1 DEF Admin!handle_admin, InboxInv, RestOK
<1>4. conn[job.by] \in Connections
  BY <1>2 DEF InboxInv, ConnsOK
<1>5. \A n \in DOMAIN queue : queue[n].told = "none" =>
        /\ queue[n] \in Admin!Commands /\ Waits(queue[n])
        /\ job.told = "none" => queue[n].by # job.by
  BY DEF InboxInv, QueueOK, WaitsOK
<1>6. ASSUME ConnsOK', Admin!Cardinality(Admin!Open)' <= MaxConnections,
             \A n \in DOMAIN queue : queue[n].told = "none" => StillWaits(queue[n])
      PROVE  InboxInv'
  <2>1. QueueOK' /\ RoomOK'
    BY <1>1, <1>6 DEF InboxInv, QueueOK, RoomOK
  <2>2. job'.by = "nobody" /\ job'.told = "none"
    BY <1>1 DEF Admin!NoJob
  <2>3. \A n \in DOMAIN queue : queue[n].told = "none" => queue[n].by # "nobody"
    BY <1>5 DEF Admin!Commands, Admin!Assumption
  <2>4. WaitsOK'
    BY <1>1, <1>6, <2>2, <2>3 DEF InboxInv, WaitsOK, Waits
  <2>5. DoubtOK'
    BY <2>2 DEF DoubtOK
  <2> QED
    BY <1>3, <1>6, <2>1, <2>4, <2>5 DEF InboxInv
<1>7. CASE UNCHANGED conn
  <2>1. ConnsOK' /\ Admin!Cardinality(Admin!Open)' <= MaxConnections
    BY <1>7, RoomStays DEF InboxInv, ConnsOK, RoomOK, Admin!Open
  <2>2. \A n \in DOMAIN queue : queue[n].told = "none" => StillWaits(queue[n])
    BY <1>5, <1>7, Zenon DEF Waits
  <2> QED
    BY <1>6, <2>1, <2>2
<1>8. ASSUME job.told = "none", NEW r, ConnOK(r), r.st = "answered",
             conn' = [conn EXCEPT ![job.by] = r]
      PROVE  InboxInv'
  <2>1. /\ ConnsOK' /\ Admin!Cardinality(Admin!Open)' <= MaxConnections
        /\ \A e \in Admin!Commands : Waits(e) /\ e.by # job.by => StillWaits(e)
    BY <1>2, <1>8, Replied, Zenon
  <2>2. \A n \in DOMAIN queue : queue[n].told = "none" => StillWaits(queue[n])
    BY <1>5, <1>8, <2>1, Zenon
  <2> QED
    BY <1>6, <2>1, <2>2
<1>9. ASSUME job.told = "none", NEW a \in Admin!Answers \ {"none"},
             conn' = [conn EXCEPT ![job.by] = Admin!Answer(conn[job.by], a)]
      PROVE  InboxInv'
  <2>1. LET r == Admin!Answer(conn[job.by], a) IN ConnOK(r) /\ r.st = "answered"
    BY <1>4, AnswerIs
  <2> QED
    BY <1>8, <1>9, <2>1, Zenon
<1>10. ASSUME job.told = "none", conn' = [conn EXCEPT ![job.by] = Admin!AnswerPage(conn[job.by])]
       PROVE  InboxInv'
  <2> DEFINE q == Admin!Answer(conn[job.by], "page")
  <2>1. ConnOK(q) /\ q.st = "answered"
    BY <1>4, AnswerIs DEF Admin!Answers
  <2>2. PICK n \in 0 .. MaxSeq : n = IF hold.held THEN hold.seq ELSE 0
    BY DEF InboxInv, RestOK, Admin!Assumption
  <2>3. Admin!AnswerPage(conn[job.by]) = [q EXCEPT !.seq = n]
    BY <2>2 DEF Admin!AnswerPage
  <2> HIDE DEF q
  <2>4. LET r == [q EXCEPT !.seq = n] IN ConnOK(r) /\ r.st = "answered"
    BY <2>1 DEF ConnOK, Connections
  <2> QED
    BY <1>8, <1>10, <2>3, <2>4, ZenonT(30)
<1> QED
  <2>1. \/ UNCHANGED conn
        \/ /\ job.told = "none"
           /\ \/ conn' = [conn EXCEPT ![job.by] = Admin!AnswerPage(conn[job.by])]
              \/ \E a \in {"released", "hold_not_found", "hold_changed", "circle_check_required",
                           "store_failed"} :
                   conn' = [conn EXCEPT ![job.by] = Admin!Answer(conn[job.by], a)]
    BY DEF Admin!handle_admin
  <2>2. {"released", "hold_not_found", "hold_changed", "circle_check_required", "store_failed"}
          \subseteq Admin!Answers \ {"none"}
    BY DEF Admin!Answers
  <2> QED
    BY <1>7, <1>9, <1>10, <2>1, <2>2

\* The attester stops, and every command in the inbox is unanswered.
LEMMA Stopped ==
  ASSUME Admin!Assumption, InboxInv, Admin!StopRun
  PROVE  InboxInv'
<1>1. /\ queue' = <<>> /\ job = Admin!NoJob /\ UNCHANGED job
      /\ \A c \in Clients :
           conn'[c] \in {conn[c], Admin!Answer(conn[c], "unavailable")}
      /\ DOMAIN conn' = Clients
  BY DEF Admin!StopRun
<1>2. RestOK'
  BY DEF Admin!StopRun, InboxInv, RestOK
<1>3. ASSUME NEW c \in Clients
      PROVE  /\ ConnOK(conn'[c]) /\ conn'[c] \in Connections
             /\ conn'[c].st = "answered" \/ conn'[c] = conn[c]
  <2>1. ConnOK(conn[c]) /\ conn[c] \in Connections
    BY DEF InboxInv, ConnsOK
  <2>2. LET r == Admin!Answer(conn[c], "unavailable") IN ConnOK(r) /\ r.st = "answered"
    BY <2>1, AnswerIs DEF Admin!Answers
  <2> QED
    BY <1>1, <2>1, <2>2 DEF ConnOK
<1>4. ConnsOK'
  <2>1. conn' \in [Clients -> Connections]
    BY <1>3 DEF Admin!StopRun
  <2> QED
    BY <1>3, <2>1 DEF ConnsOK
<1>5. Admin!Open' \subseteq Admin!Open
  BY <1>3 DEF Admin!Open
<1>6. QueueOK' /\ RoomOK'
  BY <1>1, <1>5, RoomStays DEF InboxInv, QueueOK, RoomOK, Admin!Assumption
<1>7. WaitsOK' /\ DoubtOK'
  BY <1>1 DEF WaitsOK, DoubtOK, Admin!NoJob
<1> QED
  BY <1>2, <1>4, <1>6, <1>7 DEF InboxInv

\* Every step keeps the inbox in order.
LEMMA InboxStep ==
  ASSUME Admin!Assumption, InboxInv, [Admin!Next]_Admin!vars
  PROVE  InboxInv'
<1>1. CASE UNCHANGED <<conn, queue, job>> /\ RestOK'
  <2>1. ConnsOK' /\ QueueOK' /\ WaitsOK' /\ DoubtOK'
    BY <1>1 DEF InboxInv, ConnsOK, QueueOK, WaitsOK, Waits, DoubtOK
  <2>2. RoomOK'
    BY <1>1, RoomStays DEF InboxInv, RoomOK, Admin!Open
  <2> QED
    BY <1>1, <2>1, <2>2 DEF InboxInv
<1>2. CASE UNCHANGED Admin!vars
  BY <1>1, <1>2 DEF Admin!vars, InboxInv, RestOK
<1> DEFINE States == [pc : {"checkpoint", "step", "pause", "stopped", "failed"},
                      count : 0 .. PerCheckpoint, left : 0 .. MaxSteps, woken : BOOLEAN]
<1>0. att \in States /\ hold \in [held : BOOLEAN, seq : 1 .. MaxSeq]
  BY DEF InboxInv, RestOK
<1>8. PerCheckpoint \in Nat /\ MaxSteps \in Nat /\ MaxSeq \in Nat
  BY DEF Admin!Assumption
<1>3. CASE \/ Admin!Shutdown \/ Admin!Clock \/ Admin!LeaveCheckpoint \/ Admin!NextCycle
           \/ Admin!Diverges
  <2>1. att' \in States
    <3>1. CASE Admin!LeaveCheckpoint
      <4>1. 0 \in 0 .. PerCheckpoint
        BY <1>8
      <4> QED
        BY <1>0, <3>1, <4>1, Zenon DEF Admin!LeaveCheckpoint
    <3> QED
      BY <1>0, <1>3, <3>1, Zenon DEF Admin!Shutdown, Admin!Clock, Admin!NextCycle, Admin!Diverges
  <2>2. UNCHANGED <<conn, queue, job, hold, listener>> /\ stopping' \in BOOLEAN
    BY <1>3, Zenon DEF Admin!Shutdown, Admin!Clock, Admin!LeaveCheckpoint, Admin!NextCycle,
       Admin!Diverges, InboxInv, RestOK
  <2> QED
    BY <1>1, <2>1, <2>2 DEF InboxInv, RestOK
<1>4. CASE Admin!Step
  <2>1. hold' \in [held : BOOLEAN, seq : 1 .. MaxSeq]
    <3>1. CASE hold' = [held |-> TRUE, seq |-> hold.seq + 1] /\ hold.seq < MaxSeq
      BY <1>0, <1>8, <3>1
    <3> QED
      BY <1>0, <1>4, <3>1 DEF Admin!Step
  <2>2. att' \in States
    <3>1. CASE att.left > 1 /\ att' = [att EXCEPT !.pc = "checkpoint", !.left = att.left - 1]
      <4>1. att.left - 1 \in 0 .. MaxSteps
        BY <1>0, <1>8, <3>1
      <4> QED
        BY <1>0, <3>1, <4>1, Zenon
    <3>2. CASE att' = [att EXCEPT !.pc = "pause", !.left = MaxSteps, !.woken = FALSE]
      <4>1. MaxSteps \in 0 .. MaxSteps
        BY <1>8
      <4> QED
        BY <1>0, <3>2, <4>1, Zenon
    <3> QED
      BY <1>4, <3>1, <3>2 DEF Admin!Step
  <2>3. UNCHANGED <<conn, queue, job, listener, stopping>>
    BY <1>4 DEF Admin!Step
  <2> QED
    BY <1>1, <2>1, <2>2, <2>3 DEF InboxInv, RestOK
<1>5. CASE Admin!AdminCheckpoint \/ Admin!TakeInPause
  <2>1. RestOK' /\ Admin!Take
    BY <1>5 DEF Admin!AdminCheckpoint, Admin!TakeInPause, InboxInv, RestOK, Admin!Assumption
  <2> QED
    BY <2>1, Taken
<1>6. CASE Admin!BeginClose \/ Admin!EndClose
  <2>1. RestOK' /\ \E cs \in SUBSET Clients : Admin!EndAll(cs, "lost")
    BY <1>6 DEF Admin!BeginClose, Admin!EndClose, Admin!Open, InboxInv, RestOK
  <2> QED
    BY <2>1, Ended
<1>7. ASSUME NEW c \in Clients,
             Admin!Connect(c) \/ Admin!Receive(c) \/ Admin!Disconnect(c) \/ Admin!Accept(c)
               \/ Admin!Served(c)
      PROVE  InboxInv'
  <2>1. CASE Admin!TimesOut(c)
    <3>1. RestOK' /\ \E a \in {"reply_timeout", "lost"} : Admin!EndAll({c}, a)
      BY <2>1 DEF Admin!TimesOut, InboxInv, RestOK
    <3> QED
      BY <3>1, Ended
  <2> QED
    BY <1>7, <2>1, ConnectionSteps, Admitted DEF Admin!Served
<1> QED
  BY <1>2, <1>3, <1>4, <1>5, <1>6, <1>7, Handled, Stopped DEF Admin!Next, Admin!Attester

LEMMA InboxAlways == ASSUME Admin!Assumption PROVE Admin!Spec => []InboxInv
<1>1. Admin!Init => InboxInv
  <2> SUFFICES ASSUME Admin!Init PROVE InboxInv
    OBVIOUS
  <2>0. 0 \in 0 .. MaxSeq
    BY DEF Admin!Assumption
  <2>1. LET r == Admin!Idle(0, FALSE) IN ConnOK(r) /\ r.st = "idle"
    BY <2>0, IdleIs, Zenon
  <2>2. ConnsOK
    BY <2>1, Zenon DEF Admin!Init, ConnsOK, ConnOK
  <2>3. QueueOK /\ WaitsOK /\ DoubtOK
    <3>1. queue = <<>> /\ job = Admin!NoJob
      BY DEF Admin!Init
    <3>2. job.told = "none"
      BY <3>1 DEF Admin!NoJob
    <3> QED
      BY <3>1, <3>2 DEF QueueOK, WaitsOK, DoubtOK
  <2>4. Admin!Open = {}
    BY <2>1, Zenon DEF Admin!Init, Admin!Open
  <2>5. Admin!Cardinality({}) = 0
    BY FS_EmptySet, Zenon DEF Admin!Cardinality, Cardinality
  <2>6. /\ PerCheckpoint \in Nat /\ MaxSteps \in Nat /\ MaxSeq \in Nat \ {0}
        /\ QueueSize \in Nat /\ MaxConnections \in Nat
    BY DEF Admin!Assumption
  <2>7. RoomOK
    <3>1. Len(queue) = 0 /\ Admin!Cardinality(Admin!Open) = 0
      BY <2>4, <2>5 DEF Admin!Init
    <3> QED
      BY <2>6, <3>1 DEF RoomOK
  <2>8. RestOK
    <3>1. 0 \in 0 .. PerCheckpoint /\ MaxSteps \in 0 .. MaxSteps /\ 1 \in 1 .. MaxSeq
      BY <2>6
    <3> QED
      BY <3>1, Zenon DEF Admin!Init, RestOK
  <2> QED
    BY <2>2, <2>3, <2>7, <2>8 DEF InboxInv
<1>2. InboxInv /\ [Admin!Next]_Admin!vars => InboxInv'
  BY InboxStep
<1> QED
  BY <1>1, <1>2, PTL DEF Admin!Spec

\* What operators are served stays within its limits, for any number of them, any inbox and any
\* number of connections (serve, dispatch).
THEOREM ServedWithinLimits ==
  ASSUME Admin!Assumption PROVE Admin!Spec => []Admin!AdminIsServed
<1>1. InboxInv => Admin!AdminIsServed
  BY DEF InboxInv, ConnsOK, ConnOK, Connections, QueueOK, RoomOK, RestOK, Admin!AdminIsServed,
     Admin!TypeOK
<1> QED
  BY <1>1, InboxAlways, PTL

\* Nobody is told of a release by a step that is not the command's, and no such step
\* lifts the hold.
LEMMA OthersAreSilent ==
  ASSUME Admin!Assumption, InboxInv, Admin!Next, ~ Admin!handle_admin
  PROVE  /\ hold.held => hold'.held
         /\ \A d \in Clients : conn'[d].answer = "released" => conn[d].answer = "released"
<1> DEFINE Silent == \A d \in Clients : conn'[d].answer = "released" => conn[d].answer = "released"
<1>1. conn \in [Clients -> Connections]
  BY DEF InboxInv, ConnsOK
<1>2. ASSUME UNCHANGED conn PROVE Silent
  BY <1>2
<1>3. ASSUME NEW c \in Clients, NEW r, conn' = [conn EXCEPT ![c] = r], r.answer # "released"
      PROVE  Silent
  BY <1>1, <1>3
<1>4. ASSUME NEW c \in Clients, NEW a \in Admin!Answers \ {"none", "released"}
      PROVE  Admin!Answer(conn[c], a).answer # "released"
  BY <1>1, AnswerIs
<1>5. ASSUME NEW c \in Clients, NEW n, NEW u PROVE Admin!Idle(n, u).answer # "released"
  BY DEF Admin!Idle
<1>6. ASSUME NEW c \in Clients,
             Admin!Connect(c) \/ Admin!Accept(c) \/ Admin!Expire(c)
      PROVE  Silent
  <2>1. conn'[c].answer = conn[c].answer /\ \A d \in Clients \ {c} : conn'[d] = conn[d]
    <3>1. CASE Admin!Connect(c)
      BY <1>1, <3>1 DEF Connections, Admin!Connect
    <3>2. CASE Admin!Accept(c)
      BY <1>1, <3>2 DEF Connections, Admin!Accept
    <3>3. CASE Admin!Expire(c)
      BY <1>1, <3>3 DEF Connections, Admin!Expire
    <3> QED
      BY <1>6, <3>1, <3>2, <3>3
  <2> QED
    BY <2>1
<1>7. ASSUME NEW c \in Clients, Admin!Receive(c) \/ Admin!Disconnect(c)
      PROVE  Silent
  <2>1. \E n, u : conn' = [conn EXCEPT ![c] = Admin!Idle(n, u)]
    BY <1>7, Zenon DEF Admin!Receive, Admin!Disconnect
  <2> QED
    BY <1>3, <1>5, <2>1
<1>8. ASSUME NEW c \in Clients, Admin!ReadFails(c) \/ Admin!dispatch(c) PROVE Silent
  <2>1. \/ \E a \in {"invalid_input", "stopping", "unavailable", "queue_full"} :
             conn' = [conn EXCEPT ![c] = Admin!Answer(conn[c], a)]
        \/ conn' = [conn EXCEPT ![c].st = "waiting"]
    BY <1>8 DEF Admin!ReadFails, Admin!dispatch
  <2>2. CASE conn' = [conn EXCEPT ![c].st = "waiting"]
    BY <1>1, <2>2 DEF Connections
  <2> QED
    BY <1>3, <1>4, <2>1, <2>2 DEF Admin!Answers
<1>9. ASSUME NEW cs \in SUBSET Clients, NEW a \in {"reply_timeout", "lost"}, Admin!EndAll(cs, a)
      PROVE  Silent
  <2>1. ASSUME NEW c \in cs PROVE conn'[c].answer # "released"
    <3> DEFINE q == Admin!Answer(conn[c], a)
    <3>1. ConnOK(q) /\ q.answer # "released"
      BY <1>1, AnswerIs DEF Admin!Answers
    <3>2. conn'[c] = [q EXCEPT !.unsure = q.unsure \/ conn[c].op = "release"]
      BY <1>9 DEF Admin!EndAll
    <3> HIDE DEF q
    <3> QED
      BY <3>1, <3>2 DEF ConnOK, Connections
  <2>2. \A c \in Clients \ cs : conn'[c] = conn[c]
    BY <1>9 DEF Admin!EndAll
  <2> QED
    BY <2>1, <2>2
<1>10. ASSUME Admin!Take PROVE Silent
  <2>1. Head(queue) \in Admin!Commands
    BY <1>10 DEF Admin!Take, InboxInv, QueueOK
  <2>2. Head(queue).by \in Clients
    BY <2>1 DEF Admin!Commands
  <2>3. \/ UNCHANGED conn
        \/ conn' = [conn EXCEPT ![Head(queue).by] =
                                  Admin!Answer(conn[Head(queue).by], "unavailable")]
    BY <1>10 DEF Admin!Take
  <2> QED
    BY <1>2, <1>3, <1>4, <2>2, <2>3 DEF Admin!Answers
<1>11. ASSUME Admin!StopRun PROVE Silent
  <2>1. \A c \in Clients : conn'[c] \in {conn[c], Admin!Answer(conn[c], "unavailable")}
    BY <1>11 DEF Admin!StopRun
  <2> QED
    BY <1>4, <2>1 DEF Admin!Answers
<1>12. Silent
  <2>1. CASE Admin!BeginClose \/ Admin!EndClose
    <3>1. \E cs \in SUBSET Clients : Admin!EndAll(cs, "lost")
      BY <2>1 DEF Admin!BeginClose, Admin!EndClose, Admin!Open
    <3> QED
      BY <1>9, <3>1
  <2>2. ASSUME NEW c \in Clients, Admin!TimesOut(c) PROVE Silent
    BY <1>9, <2>2 DEF Admin!TimesOut
  <2>3. CASE Admin!AdminCheckpoint \/ Admin!TakeInPause
    BY <1>10, <2>3 DEF Admin!AdminCheckpoint, Admin!TakeInPause
  <2>4. CASE \/ Admin!Shutdown \/ Admin!Clock \/ Admin!LeaveCheckpoint \/ Admin!Step
             \/ Admin!NextCycle \/ Admin!Diverges
    BY <1>2, <2>4 DEF Admin!Shutdown, Admin!Clock, Admin!LeaveCheckpoint, Admin!Step,
       Admin!NextCycle, Admin!Diverges
  <2> HIDE DEF Silent
  <2> QED
    BY <1>6, <1>7, <1>8, <1>11, <2>1, <2>2, <2>3, <2>4
    DEF Admin!Next, Admin!Attester, Admin!Served
<1>13. hold' = hold \/ hold'.held
  <2>1. CASE Admin!Step
    BY <2>1 DEF Admin!Step
  <2>2. CASE ~ Admin!Step
    BY <2>2, Zenon DEF Admin!Next, Admin!Attester, Admin!Served, Admin!Shutdown,
       Admin!BeginClose, Admin!EndClose, Admin!Clock, Admin!AdminCheckpoint,
       Admin!LeaveCheckpoint, Admin!TakeInPause, Admin!Diverges, Admin!NextCycle,
       Admin!StopRun, Admin!Connect, Admin!Receive, Admin!Disconnect, Admin!Accept,
       Admin!dispatch, Admin!ReadFails, Admin!Expire, Admin!TimesOut
  <2> QED
    BY <2>1, <2>2
<1> QED
  BY <1>12, <1>13

\* An operator knows what became of a release, for any number of operators and any inbox: the hold
\* is lifted by the release of the revision its operator was shown, who is told so or left unsure,
\* and nobody is told "released" by another step (handle_admin, take_admin).
THEOREM ReleasesAreKnown ==
  ASSUME Admin!Assumption PROVE Admin!Spec => Admin!ReleasesAreExact
<1> DEFINE Exact ==
      /\ (hold.held /\ ~ hold'.held) =>
           /\ \/ job.told = "nobody" /\ conn[job.by].unsure
              \/ job.told = "none" /\ conn'[job.by].answer = "released"
           /\ job.seq = hold.seq
      /\ \A c \in Clients :
           (conn'[c].answer = "released" /\ conn[c].answer # "released") => hold.held /\ ~ hold'.held
<1>1. InboxInv /\ Admin!Next => Exact
  <2> SUFFICES ASSUME InboxInv, Admin!Next PROVE Exact
    OBVIOUS
  <2>1. CASE ~ Admin!handle_admin
    BY <2>1, OthersAreSilent
  <2>2. CASE Admin!handle_admin
    <3>1. job \in Admin!Commands /\ job.by \in Clients /\ job.told \in {"none", "nobody"}
      BY <2>2 DEF Admin!handle_admin, InboxInv, QueueOK, Admin!Commands
    <3>2. conn \in [Clients -> Connections]
      BY DEF InboxInv, ConnsOK
    <3>3. CASE UNCHANGED hold /\ job.told = "none"
      <4>1. \/ conn' = [conn EXCEPT ![job.by] = Admin!AnswerPage(conn[job.by])]
            \/ \E a \in {"hold_not_found", "hold_changed", "circle_check_required",
                         "store_failed"} :
                 conn' = [conn EXCEPT ![job.by] = Admin!Answer(conn[job.by], a)]
        <5>1. ~ Admin!release_checked(job)
          BY <3>3 DEF Admin!release_checked, InboxInv, RestOK
        <5> QED
          BY <2>2, <3>3, <5>1 DEF Admin!handle_admin
      <4>2. Admin!AnswerPage(conn[job.by]).answer # "released"
        BY <3>1, <3>2, AnswerIs DEF Admin!AnswerPage, Admin!Answers, ConnOK, Connections
      <4>3. \A a \in {"hold_not_found", "hold_changed", "circle_check_required", "store_failed"} :
              Admin!Answer(conn[job.by], a).answer # "released"
        BY <3>1, <3>2, AnswerIs DEF Admin!Answers
      <4> QED
        BY <3>1, <3>2, <3>3, <4>1, <4>2, <4>3
    <3>4. CASE job.op = "release" /\ Admin!release_checked(job) /\ job.told = "none"
               /\ conn' = [conn EXCEPT ![job.by] = Admin!Answer(conn[job.by], "released")]
      <4>1. Admin!Answer(conn[job.by], "released").answer = "released"
        BY <3>1, <3>2, AnswerIs DEF Admin!Answers
      <4>2. hold.held /\ hold.seq = job.seq /\ ~ hold'.held
        BY <3>4 DEF Admin!release_checked, InboxInv, RestOK
      <4> QED
        BY <3>1, <3>2, <3>4, <4>1, <4>2
    <3>5. CASE job.told = "nobody"
      <4>1. UNCHANGED conn
        BY <2>2, <3>5 DEF Admin!handle_admin
      <4>2. hold' = hold \/ (job.op = "release" /\ hold.seq = job.seq)
        BY <2>2 DEF Admin!handle_admin, Admin!release_checked
      <4> QED
        BY <3>5, <4>1, <4>2 DEF InboxInv, DoubtOK
    <3> QED
      BY <2>2, <3>1, <3>3, <3>4, <3>5, ZenonT(30) DEF Admin!handle_admin
  <2> QED
    BY <2>1, <2>2
<1>2. InboxInv /\ [Admin!Next]_Admin!vars => [Exact]_Admin!vars
  BY <1>1
<1> QED
  BY <1>2, InboxAlways, PTL DEF Admin!Spec, Admin!ReleasesAreExact

=============================================================================
