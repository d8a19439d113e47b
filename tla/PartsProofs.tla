------------------------------ MODULE PartsProofs ------------------------------
(***************************************************************************)
(* The parts of the system whose proofs are short, for every value of      *)
(* their constants: the supervisor, the opening of the earlier attester's  *)
(* ledger, and the relayer's start and proofs.  The parts share no state:  *)
(* each section is about one specification, BridgeSupervisor under its own *)
(* names and the others as instances.                                      *)
(***************************************************************************)
EXTENDS BridgeSupervisor, Integers, Sequences, TLAPS

\* Time, and a second try, for a leaf on a loaded machine; one that names a prover uses that one.
USE SMTT(20), ZenonT(20), SMTT(30)

-----------------------------------------------------------------------------
(* The supervisor.  Success is clean and nothing is left running.  SuccessIsClean says  *)
(* nothing of a token that was cancelled, so SupervisorInv adds who may have cancelled  *)
(* it: a signal, or a service whose result is already an error.                         *)

\* What has been started at each place of the main task.
PlaceOK ==
  /\ main = "StartAttester" => attester = "Starting" /\ relayer = "None"
  /\ main = "StartRelayer" => attester = "Passed" /\ relayer # "None"
  /\ ready = "sent" => relayer \in {"Running"} \cup Ended
  /\ ready = "dropped" => relayer \in Ended
  /\ main = "Supervise" =>
       attester \in {"Running"} \cup Ended /\ relayer \in {"Running"} \cup Ended
  /\ main = "Returned" => status \in {"success", "failure"}

\* A result that was taken is the service's, and a clean one came after the request.
JoinOK ==
  /\ \A s \in Services :
       joined[s] # "pending" =>
         main \in {"Supervise", "Returned"} /\ Outcome(s) \in Ended
  /\ \A s \in Services :
       joined[s] = "ok" => Outcome(s) = "ok" /\ shutdown = "requested"
  /\ shutdown = "requested" => signal = "arrived" \/ \E s \in Services : joined[s] = "err"
  /\ status = "success" => \A s \in Services : joined[s] = "ok"

SupervisorInv == TypeOK /\ PlaceOK /\ JoinOK /\ NoServiceLeftBehind

LEMMA SupervisorInit == Init => SupervisorInv
  BY DEF Init, SupervisorInv, TypeOK, PlaceOK, JoinOK, NoServiceLeftBehind,
     Services, Ended

\* Signals, the token and the deadline concern no service.
LEMMA TimingStep ==
  ASSUME SupervisorInv, Signal \/ Timing PROVE SupervisorInv'
<1> USE DEF SupervisorInv, TypeOK, PlaceOK, JoinOK, NoServiceLeftBehind,
            Alive, Outcome
<1>1. CASE Signal
  BY <1>1 DEF Signal
<1>2. CASE CancelOnSignal
  BY <1>2 DEF CancelOnSignal
<1>3. CASE DeadlineStarts
  BY <1>3 DEF DeadlineStarts
<1>4. CASE DeadlinePasses
  BY <1>4 DEF DeadlinePasses
<1> QED
  BY <1>1, <1>2, <1>3, <1>4 DEF Timing

\* Startup joins nobody, and fails only when neither service runs.
LEMMA StartupStep ==
  ASSUME SupervisorInv, Startup PROVE SupervisorInv'
<1> USE DEF SupervisorInv, TypeOK, PlaceOK, JoinOK, NoServiceLeftBehind,
            Alive, Outcome, Services, Ended
<1>1. CASE StartAttesterPasses
  BY <1>1 DEF StartAttesterPasses
<1>2. CASE StartAttesterFails
  BY <1>2 DEF StartAttesterFails
<1>3. CASE RelayerPasses
  BY <1>3 DEF RelayerPasses
<1>4. ASSUME NEW o \in Ended, RelayerFails(o) PROVE SupervisorInv'
  BY <1>4 DEF RelayerFails
<1>5. CASE StartDone
  BY <1>5 DEF StartDone
<1>6. CASE StartFails
  BY <1>6 DEF StartFails
<1> QED
  BY <1>1, <1>2, <1>3, <1>4, <1>5, <1>6 DEF Startup

\* Whoever ends before the request gets an error and makes the request.
LEMMA SupervisionStep ==
  ASSUME SupervisorInv, Supervision PROVE SupervisorInv'
<1> USE DEF SupervisorInv, TypeOK, PlaceOK, JoinOK, NoServiceLeftBehind,
            Alive, Outcome, Services, Ended
<1>1. ASSUME NEW o \in Ended, AttesterEnds(o) PROVE SupervisorInv'
  BY <1>1 DEF AttesterEnds
<1>2. ASSUME NEW o \in Ended, RelayerEnds(o) PROVE SupervisorInv'
  BY <1>2 DEF RelayerEnds
<1>3. ASSUME NEW s \in Services, StopPeerOnExit(s) PROVE SupervisorInv'
  BY <1>3 DEF StopPeerOnExit
<1>4. CASE SuperviseDone
  BY <1>4 DEF SuperviseDone, BothJoined
<1> QED
  BY <1>1, <1>2, <1>3, <1>4 DEF Supervision

LEMMA SupervisorStep == SupervisorInv /\ [Next]_vars => SupervisorInv'
<1> SUFFICES ASSUME SupervisorInv, [Next]_vars PROVE SupervisorInv'
  OBVIOUS
<1>1. CASE UNCHANGED vars
  BY <1>1 DEF vars, SupervisorInv, TypeOK, PlaceOK, JoinOK,
     NoServiceLeftBehind, Outcome
<1> QED
  BY <1>1, TimingStep, StartupStep, SupervisionStep DEF Next

\* The supervisor's places, outcomes and timer keep their types (supervise).
THEOREM SupervisorTypes == Spec => []TypeOK
<1>1. SupervisorInv => TypeOK
  BY DEF SupervisorInv
<1> QED
  BY <1>1, SupervisorInit, SupervisorStep, PTL DEF Spec

\* The process reports success only when a signal asked it to stop and both services ended
\* well (supervise, stop_peer_on_exit).
THEOREM CleanSuccess == Spec => []SuccessIsClean
<1>1. SupervisorInv => SuccessIsClean
  BY DEF SupervisorInv, JoinOK, SuccessIsClean, Services, Outcome
<1> QED
  BY <1>1, SupervisorInit, SupervisorStep, PTL DEF Spec

\* main returns only when no service runs any more (supervise).
THEOREM NothingLeftBehind == Spec => []NoServiceLeftBehind
<1>1. SupervisorInv => NoServiceLeftBehind
  BY DEF SupervisorInv
<1> QED
  BY <1>1, SupervisorInit, SupervisorStep, PTL DEF Spec

-----------------------------------------------------------------------------
(* The opening of the ledger. *)

CONSTANTS Procs, Burns, Settings

VARIABLES ledger, proc, memory, claimed

Opening == INSTANCE ListenerStartup WITH file <- ledger

Steps == {"client", "path", "connect", "version", "create", "stamp", "ready"}

\* The settings of a running process are valid, those past the client's construction also built
\* one, and the ledger that is open is a file's.
CheckedSettings(r) ==
  /\ Opening!validate(r.cfg)
  /\ r.pc # "client" => Opening!to_header(r.cfg)
  /\ r.pc \in {"version", "create", "stamp", "ready"} => r.cfg.path = "file"

ProcOK(r) ==
  r.pc # "down" =>
    /\ r \in [pc : Steps, cfg : Opening!ListenerConfig] /\ CheckedSettings(r)
    /\ r.pc \in {"stamp", "ready"} => ledger.table
    /\ r.pc = "ready" => ledger.version = 1

FileOK ==
  /\ ledger \in [version : 0 .. 2, table : BOOLEAN, rows : [Burns -> Opening!Rows]]
  /\ ledger.version = 1 => ledger.table
  /\ \A b \in Burns : ledger.rows[b] # "none" => ledger.table

\* Every claim has left its row.
ClaimsOK ==
  /\ claimed \in [Burns -> 0 .. 1]
  /\ \A b \in Burns : ledger.rows[b] = "none" => claimed[b] = 0

OpeningInv ==
  /\ FileOK /\ ClaimsOK
  /\ proc \in [Procs -> {Opening!Down} \cup [pc : Steps, cfg : Opening!ListenerConfig]]
  /\ \A p \in Procs : ProcOK(proc[p])
  /\ memory \in [Procs -> [Burns -> Opening!Rows]]

\* What a process is at its next place, when it goes on or fails.
LEMMA ProcMoves ==
  ASSUME OpeningInv, NEW p \in Procs, proc[p].pc # "down"
  PROVE  /\ proc[p] \in [pc : Steps, cfg : Opening!ListenerConfig] /\ CheckedSettings(proc[p])
         /\ \A to \in Steps : Opening!Goto(p, to) =>
              proc' = [proc EXCEPT ![p] = [pc |-> to, cfg |-> proc[p].cfg]]
<1>1. proc[p] \in [pc : Steps, cfg : Opening!ListenerConfig] /\ CheckedSettings(proc[p])
  BY DEF OpeningInv, ProcOK
<1>2. \A to \in Steps : [proc[p] EXCEPT !.pc = to] = [pc |-> to, cfg |-> proc[p].cfg]
  BY <1>1
<1>3. \A to \in Steps : Opening!Goto(p, to) =>
        proc' = [proc EXCEPT ![p] = [proc[p] EXCEPT !.pc = to]]
  BY Zenon DEF Opening!Goto
<1> QED
  BY <1>1, <1>2, <1>3

\* One process goes on, with what its next place asks for, or is down; the file loses nothing.
LEMMA OneProcess ==
  ASSUME OpeningInv, NEW p \in Procs,
         NEW r \in {Opening!Down} \cup [pc : Steps, cfg : Opening!ListenerConfig],
         proc' = [proc EXCEPT ![p] = r],
         r.pc # "down" => /\ CheckedSettings(r)
                          /\ r.pc \in {"stamp", "ready"} => ledger'.table
                          /\ r.pc = "ready" => ledger'.version = 1,
         UNCHANGED memory, FileOK', ClaimsOK',
         ledger.table => ledger'.table, ledger.version = 1 => ledger'.version = 1
  PROVE  OpeningInv'
<1>1. proc' \in [Procs -> {Opening!Down} \cup [pc : Steps, cfg : Opening!ListenerConfig]]
  BY DEF OpeningInv
<1>2. proc'[p] = r /\ \A q \in Procs \ {p} : proc'[q] = proc[q]
  BY DEF OpeningInv
<1>3. ASSUME NEW q \in Procs PROVE ProcOK(proc[q])'
  <2>1. CASE q = p
    BY <1>2, <2>1 DEF ProcOK, Opening!Down
  <2>2. CASE q # p
    BY <1>2, <2>2 DEF OpeningInv, ProcOK
  <2> QED
    BY <2>1, <2>2
<1> QED
  BY <1>1, <1>3 DEF OpeningInv

\* A step of the opening by one process.
LEMMA OpeningSteps ==
  ASSUME Opening!Assumption, OpeningInv, NEW p \in Procs,
         Opening!Configure(p) \/ Opening!BuildClient(p) \/ Opening!CheckPath(p)
           \/ Opening!Connect(p) \/ Opening!ReadVersion(p) \/ Opening!CreateTable(p)
           \/ Opening!Stamp(p) \/ Opening!Stop(p)
  PROVE  OpeningInv'
<1> DEFINE At(to) == [pc |-> to, cfg |-> proc[p].cfg]
           Same == UNCHANGED <<ledger, memory, claimed>>
           Sure == UNCHANGED memory /\ FileOK' /\ ClaimsOK'
                   /\ (ledger.table => ledger'.table)
                   /\ (ledger.version = 1 => ledger'.version = 1)
<1>1. Same => Sure
  BY DEF OpeningInv, FileOK, ClaimsOK
<1>2. Sure /\ Opening!Fail(p) => OpeningInv'
  BY OneProcess, Zenon DEF Opening!Fail, Opening!Down
<1>3. ASSUME NEW to \in Steps, proc[p].pc # "down", Opening!Goto(p, to), Sure,
             CheckedSettings(At(to)), to \in {"stamp", "ready"} => ledger'.table,
             to = "ready" => ledger'.version = 1
      PROVE  OpeningInv'
  <2>1. At(to) \in [pc : Steps, cfg : Opening!ListenerConfig] /\ proc' = [proc EXCEPT ![p] = At(to)]
    BY <1>3, ProcMoves
  <2> QED
    BY <1>3, <2>1, OneProcess, Zenon
<1>4. CASE Opening!Configure(p)
  <2>1. PICK c \in Settings : /\ Opening!validate(c)
                              /\ proc' = [proc EXCEPT ![p] = [pc |-> "client", cfg |-> c]]
    BY <1>4, Zenon DEF Opening!Configure
  <2>2. [pc |-> "client", cfg |-> c] \in [pc : Steps, cfg : Opening!ListenerConfig]
    BY DEF Opening!Assumption, Steps
  <2>3. Sure
    BY <1>1, <1>4 DEF Opening!Configure
  <2>4. CheckedSettings([pc |-> "client", cfg |-> c])
    BY <2>1 DEF CheckedSettings
  <2> QED
    BY <2>1, <2>2, <2>3, <2>4, OneProcess, Zenon
<1>5. CASE Opening!BuildClient(p)
  <2>1. proc[p].pc = "client" /\ Same
        /\ ((Opening!to_header(proc[p].cfg) /\ Opening!Goto(p, "path")) \/ Opening!Fail(p))
    BY <1>5, Zenon DEF Opening!BuildClient
  <2>2. Opening!validate(proc[p].cfg)
    BY <2>1, ProcMoves DEF CheckedSettings
  <2>3. Opening!to_header(proc[p].cfg) => CheckedSettings(At("path"))
    BY <2>2 DEF CheckedSettings
  <2> QED
    BY <1>1, <1>2, <1>3, <2>1, <2>3 DEF Steps
<1>6. proc[p].pc \notin {"client", "down"} =>
        Opening!validate(proc[p].cfg) /\ Opening!to_header(proc[p].cfg)
  BY ProcMoves DEF CheckedSettings
<1>7. CASE Opening!CheckPath(p)
  <2>1. proc[p].pc = "path" /\ Same /\ (Opening!Goto(p, "connect") \/ Opening!Fail(p))
    BY <1>7, Zenon DEF Opening!CheckPath
  <2>2. CheckedSettings(At("connect"))
    BY <1>6, <2>1 DEF CheckedSettings
  <2> QED
    BY <1>1, <1>2, <1>3, <2>1, <2>2 DEF Steps
<1>8. CASE Opening!Connect(p)
  <2>1. /\ proc[p].pc = "connect" /\ Same
        /\ (proc[p].cfg.path = "file" /\ Opening!Goto(p, "version")) \/ Opening!Fail(p)
    BY <1>8, Zenon DEF Opening!Connect, Opening!assert_backed_by_a_file
  <2>2. proc[p].cfg.path = "file" => CheckedSettings(At("version"))
    BY <1>6, <2>1 DEF CheckedSettings
  <2> QED
    BY <1>1, <1>2, <1>3, <2>1, <2>2 DEF Steps
<1>9. ASSUME proc[p].pc \in {"version", "create", "stamp"}, NEW to \in Steps
      PROVE  CheckedSettings(At(to)) /\ (proc[p].pc = "stamp" => ledger.table)
  BY <1>6, <1>9, ProcMoves DEF CheckedSettings, OpeningInv, ProcOK
<1>10. CASE Opening!ReadVersion(p)
  <2>1. /\ proc[p].pc = "version" /\ Same
        /\ \/ Opening!Goto(p, "create")
           \/ ledger.version = 1 /\ Opening!Goto(p, "ready")
           \/ Opening!Fail(p)
    BY <1>10, Zenon DEF Opening!ReadVersion, Opening!LEDGER_SCHEMA_VERSION
  <2>2. ledger.version = 1 => ledger.table
    BY DEF OpeningInv, FileOK
  <2> QED
    BY <1>1, <1>2, <1>3, <1>9, <2>1, <2>2 DEF Steps
<1>11. CASE Opening!CreateTable(p)
  <2>1. /\ proc[p].pc = "create" /\ UNCHANGED <<memory, claimed>> /\ Opening!Goto(p, "stamp")
        /\ ledger' = [ledger EXCEPT !.table = TRUE]
    BY <1>11, Zenon DEF Opening!CreateTable
  <2>2. /\ ledger'.version = ledger.version /\ ledger'.table /\ ledger'.rows = ledger.rows
        /\ ledger' \in [version : 0 .. 2, table : BOOLEAN, rows : [Burns -> Opening!Rows]]
    BY <2>1, Zenon DEF OpeningInv, FileOK
  <2>3. Sure
    BY <2>1, <2>2 DEF OpeningInv, FileOK, ClaimsOK
  <2> QED
    BY <1>3, <1>9, <2>1, <2>2, <2>3 DEF Steps
<1>12. CASE Opening!Stamp(p)
  <2>1. /\ proc[p].pc = "stamp" /\ UNCHANGED <<memory, claimed>> /\ Opening!Goto(p, "ready")
        /\ ledger' = [ledger EXCEPT !.version = 1]
    BY <1>12, Zenon DEF Opening!Stamp, Opening!LEDGER_SCHEMA_VERSION
  <2>2. ledger.table
    BY <1>9, <2>1 DEF Steps
  <2>3. /\ ledger'.version = 1 /\ ledger'.table /\ ledger'.rows = ledger.rows
        /\ ledger' \in [version : 0 .. 2, table : BOOLEAN, rows : [Burns -> Opening!Rows]]
    BY <2>1, <2>2 DEF OpeningInv, FileOK
  <2>4. Sure
    BY <2>1, <2>3 DEF OpeningInv, FileOK, ClaimsOK
  <2> QED
    BY <1>3, <1>9, <2>1, <2>3, <2>4 DEF Steps
<1>13. CASE Opening!Stop(p)
  <2>1. /\ proc' = [proc EXCEPT ![p] = Opening!Down] /\ UNCHANGED <<ledger, claimed>>
        /\ memory' = [memory EXCEPT ![p] = Opening!Empty]
    BY <1>13, Zenon DEF Opening!Stop, Opening!Fail
  <2>2. memory' \in [Procs -> [Burns -> Opening!Rows]]
    BY <2>1 DEF OpeningInv, Opening!Empty, Opening!Rows
  <2>3. proc' \in [Procs -> {Opening!Down} \cup [pc : Steps, cfg : Opening!ListenerConfig]]
        /\ \A q \in Procs : ProcOK(proc[q])'
    BY <2>1 DEF OpeningInv, ProcOK, Opening!Down
  <2> QED
    BY <2>1, <2>2, <2>3 DEF OpeningInv, FileOK, ClaimsOK
<1> QED
  BY <1>4, <1>5, <1>7, <1>8, <1>10, <1>11, <1>12, <1>13

LEMMA ClaimStep ==
  ASSUME OpeningInv, NEW p \in Procs, NEW b \in Burns, Opening!Claim(p, b) PROVE OpeningInv'
<1> USE DEF OpeningInv, FileOK, ClaimsOK, ProcOK, CheckedSettings, Steps,
            Opening!Down, Opening!Rows
<1>1. /\ ledger.rows[b] = "none" /\ ledger' = [ledger EXCEPT !.rows[b] = "pending"]
      /\ claimed' = [claimed EXCEPT ![b] = @ + 1] /\ UNCHANGED <<proc, memory>>
      /\ ledger.table /\ ledger.version = 1
  BY DEF Opening!Claim, Opening!OnDisk, Opening!read_record
<1>2. /\ ledger'.version = 1 /\ ledger'.table
      /\ ledger'.rows = [ledger.rows EXCEPT ![b] = "pending"]
      /\ ledger' \in [version : 0 .. 2, table : BOOLEAN, rows : [Burns -> Opening!Rows]]
  BY <1>1
<1>3. FileOK' /\ ClaimsOK'
  BY <1>1, <1>2
<1> QED
  BY <1>1, <1>2, <1>3, ZenonT(30)


LEMMA TamperStep ==
  ASSUME OpeningInv, NEW b \in Burns, Opening!Tamper(b) PROVE OpeningInv'
<1> USE DEF OpeningInv, FileOK, ClaimsOK, ProcOK, CheckedSettings, Steps,
            Opening!Goto, Opening!Fail, Opening!Down, Opening!Rows
<1> QED
  BY DEF Opening!Tamper

\* Opening the ledger is safe, for any number of processes on the file, any burns and any settings:
\* a burn is claimed once, over every stop and restart, a ledger that opened is complete, and a
\* configured token is sent (open, read_record, validate).
THEOREM LedgerOpensSafely ==
  ASSUME Opening!Assumption PROVE Opening!Spec => []Opening!OpeningIsSafe
<1>1. Opening!Init => OpeningInv
  BY DEF Opening!Init, OpeningInv, FileOK, ClaimsOK, ProcOK, Opening!Down, Opening!Empty,
         Opening!Rows
<1>2. OpeningInv /\ [Opening!Next]_Opening!vars => OpeningInv'
  <2> SUFFICES ASSUME OpeningInv, [Opening!Next]_Opening!vars PROVE OpeningInv'
    OBVIOUS
  <2>1. CASE UNCHANGED Opening!vars
    BY <2>1 DEF Opening!vars, OpeningInv, FileOK, ClaimsOK, ProcOK
  <2> QED
    BY <2>1, OpeningSteps, ClaimStep, TamperStep DEF Opening!Next
<1>3. OpeningInv => Opening!OpeningIsSafe
  BY DEF OpeningInv, FileOK, ClaimsOK, ProcOK, CheckedSettings, Steps, Opening!OpeningIsSafe,
         Opening!TypeOK, Opening!NoClaimIsForgotten, Opening!OpenIsComplete,
         Opening!CredentialIsSent, Opening!validate, Opening!to_header,
         Opening!carries_credential, Opening!LEDGER_SCHEMA_VERSION, Opening!Down
<1> QED
  BY <1>1, <1>2, <1>3, PTL DEF Opening!Spec

-----------------------------------------------------------------------------
(* The relayer's start and the proofs of its pages. *)

CONSTANTS Feed, Configs, MaxPageSize, LocalProvingMax, RemoteProvingMax, ExpirationDelta,
          RemoteTimeout, LocalCost

VARIABLES stage, config, cap, client, node, seen, done, landed, tx, failure

INSTANCE FiniteSetTheorems

Proving == INSTANCE RelayerProving WITH pc <- stage, size <- cap

\* A page in hand is the feed's next stretch, no longer than the cap.
PageOK ==
  /\ stage \notin {"remote", "local", "submit"} => tx = Proving!NoTx
  /\ stage \in {"remote", "local", "submit"} =>
       /\ tx.end \in done .. Len(Feed) /\ tx.end <= done + cap
       /\ tx.notes = {i \in done + 1 .. tx.end : Feed[i]}
  /\ stage = "submit" => tx.proof = "good"

\* What the store says of the key after the sync of a start was so during this start.
KeyOK ==
  /\ stage # "down" /\ node.enabled => seen
  /\ stage \in {"relayer", "faucet", "attester"} /\ "faucet" \in client.tracks /\ client.enabled =>
       seen
  /\ stage \in {"faucet", "attester"} => "relayer" \in client.tracks
  /\ stage = "attester" => "faucet" \in client.tracks

ProvingInv ==
  /\ Proving!TypeOK /\ PageOK /\ KeyOK
  /\ Proving!StartsWithEnabledKey /\ Proving!SkipsAreUnbuildable
  /\ landed \subseteq 1 .. done

LEMMA MinOfTwo ==
  ASSUME NEW a \in Int, NEW b \in Int
  PROVE  Proving!Min({a, b}) = IF a <= b THEN a ELSE b
<1>1. \E x \in {a, b} : \A y \in {a, b} : x =< y
  OBVIOUS
<1> QED
  BY <1>1 DEF Proving!Min

LEMMA SameCardinality == ASSUME NEW S PROVE Proving!Cardinality(S) = Cardinality(S)
  BY Zenon DEF Cardinality, Proving!Cardinality

\* The notes of a stretch of the feed are no more than its entries.
LEMMA NotesFit ==
  ASSUME NEW S, NEW a \in Nat, NEW e \in Nat, NEW n \in Nat, e <= a + n, S \subseteq a + 1 .. e
  PROVE  Proving!Cardinality(S) <= n /\ Proving!Cardinality(S) \in Nat
<1> DEFINE c == a + 1
<1>1. c \in Int /\ e \in Int
  OBVIOUS
<1>2. IsFiniteSet(c .. e) /\ Cardinality(c .. e) = IF c > e THEN 0 ELSE e - c + 1
  <2> HIDE DEF c
  <2> QED
    BY <1>1, FS_Interval
<1>3. Cardinality(c .. e) <= n /\ Cardinality(c .. e) \in Nat
  BY <1>2
<1>4. S \subseteq c .. e
  OBVIOUS
<1> HIDE DEF c
<1>5. IsFiniteSet(S) /\ Cardinality(S) <= Cardinality(c .. e)
  BY <1>2, <1>4, FS_Subset, Zenon
<1>6. Cardinality(S) \in Nat
  BY <1>5, FS_CardinalityType
<1> QED
  BY <1>3, <1>5, <1>6, SameCardinality

LEMMA NoNotes == Proving!Cardinality({}) = 0
  BY FS_EmptySet, SameCardinality

\* The steps of the start, and what is done about the node.
LEMMA StartKeepsProving ==
  ASSUME Proving!Assumption, ProvingInv, Proving!Startup \/ Proving!FaucetChanges
  PROVE  ProvingInv'
<1>1. ASSUME NEW c \in Configs, Proving!Launch(c) PROVE ProvingInv'
  <2>1. Proving!TypeOK'
    BY <1>1 DEF ProvingInv, Proving!TypeOK, Proving!Accounts, Proving!Launch
  <2>2. PageOK'
    BY <1>1 DEF ProvingInv, PageOK, Proving!NoTx, Proving!TypeOK, Proving!Launch
  <2>3. KeyOK' /\ Proving!StartsWithEnabledKey'
    BY <1>1 DEF ProvingInv, KeyOK, Proving!StartsWithEnabledKey, Proving!Accounts, Proving!TypeOK,
       Proving!Launch
  <2>4. Proving!SkipsAreUnbuildable' /\ (landed \subseteq 1 .. done)'
    BY <1>1 DEF ProvingInv, Proving!SkipsAreUnbuildable, Proving!Launch
  <2> QED
    BY <2>1, <2>2, <2>3, <2>4 DEF ProvingInv
<1>2. CASE Proving!sync_state
  <2>1. Proving!TypeOK'
    BY <1>2 DEF ProvingInv, Proving!TypeOK, Proving!Accounts, Proving!sync_state, Proving!Synced
  <2>2. PageOK'
    BY <1>2 DEF ProvingInv, PageOK, Proving!NoTx, Proving!TypeOK, Proving!sync_state, Proving!Synced
  <2>3. KeyOK' /\ Proving!StartsWithEnabledKey'
    BY <1>2 DEF ProvingInv, KeyOK, Proving!StartsWithEnabledKey, Proving!Accounts, Proving!TypeOK,
       Proving!sync_state, Proving!Synced
  <2>4. Proving!SkipsAreUnbuildable' /\ (landed \subseteq 1 .. done)'
    BY <1>2 DEF ProvingInv, Proving!SkipsAreUnbuildable, Proving!sync_state, Proving!Synced
  <2> QED
    BY <2>1, <2>2, <2>3, <2>4 DEF ProvingInv
<1>3. CASE Proving!import_account_by_id
  <2>1. Proving!TypeOK'
    BY <1>3 DEF ProvingInv, Proving!TypeOK, Proving!Accounts, Proving!import_account_by_id
  <2>2. PageOK'
    BY <1>3 DEF ProvingInv, PageOK, Proving!NoTx, Proving!TypeOK, Proving!import_account_by_id
  <2>3. KeyOK' /\ Proving!StartsWithEnabledKey'
    BY <1>3 DEF ProvingInv, KeyOK, Proving!StartsWithEnabledKey, Proving!Accounts, Proving!TypeOK,
       Proving!import_account_by_id
  <2>4. Proving!SkipsAreUnbuildable' /\ (landed \subseteq 1 .. done)'
    BY <1>3 DEF ProvingInv, Proving!SkipsAreUnbuildable, Proving!import_account_by_id
  <2> QED
    BY <2>1, <2>2, <2>3, <2>4 DEF ProvingInv
<1>4. CASE Proving!import_watched_account_by_id
  <2>1. Proving!TypeOK'
    BY <1>4 DEF ProvingInv, Proving!TypeOK, Proving!Accounts, Proving!import_watched_account_by_id
  <2>2. PageOK'
    BY <1>4 DEF ProvingInv, PageOK, Proving!NoTx, Proving!TypeOK,
       Proving!import_watched_account_by_id
  <2>3. KeyOK' /\ Proving!StartsWithEnabledKey'
    BY <1>4 DEF ProvingInv, KeyOK, Proving!StartsWithEnabledKey, Proving!Accounts, Proving!TypeOK,
       Proving!import_watched_account_by_id
  <2>4. Proving!SkipsAreUnbuildable' /\ (landed \subseteq 1 .. done)'
    BY <1>4 DEF ProvingInv, Proving!SkipsAreUnbuildable, Proving!import_watched_account_by_id
  <2> QED
    BY <2>1, <2>2, <2>3, <2>4 DEF ProvingInv
<1>5. CASE Proving!CheckAttester
  <2>5. cap' \in 1 .. RemoteProvingMax
    <3> DEFINE m == IF config.prover THEN RemoteProvingMax ELSE LocalProvingMax
    <3>1. /\ config.page_size \in Int /\ config.page_size >= 1
          /\ m \in Int /\ m \in 1 .. RemoteProvingMax /\ RemoteProvingMax \in Nat
      BY DEF ProvingInv, Proving!TypeOK, Proving!Assumption
    <3>2. cap' = Proving!Min({config.page_size, m})
      BY <1>5 DEF Proving!CheckAttester, Proving!effective_page_size
    <3> HIDE DEF m
    <3> QED
      BY <3>1, <3>2, MinOfTwo
  <2>6. tx = Proving!NoTx /\ UNCHANGED tx
    BY <1>5 DEF ProvingInv, PageOK, Proving!CheckAttester
  <2>7. tx.notes = {}
    BY <2>6 DEF Proving!NoTx
  <2>8. Proving!Cardinality(tx.notes) <= cap'
    BY <2>5, <2>7, NoNotes
  <2>1. Proving!TypeOK'
    BY <1>5, <2>5, <2>8 DEF ProvingInv, Proving!TypeOK, Proving!CheckAttester
  <2>2. PageOK'
    BY <1>5, <2>6 DEF PageOK, Proving!CheckAttester
  <2>3. KeyOK' /\ Proving!StartsWithEnabledKey'
    BY <1>5 DEF ProvingInv, KeyOK, Proving!StartsWithEnabledKey, Proving!Accounts, Proving!TypeOK,
       Proving!CheckAttester
  <2>4. Proving!SkipsAreUnbuildable' /\ (landed \subseteq 1 .. done)'
    BY <1>5 DEF ProvingInv, Proving!SkipsAreUnbuildable, Proving!CheckAttester
  <2> QED
    BY <2>1, <2>2, <2>3, <2>4 DEF ProvingInv
<1>6. CASE Proving!FaucetChanges
  <2>5. node' \in [knows : SUBSET Proving!Accounts, enabled : BOOLEAN]
    <3>1. node \in [knows : SUBSET Proving!Accounts, enabled : BOOLEAN]
      BY DEF ProvingInv, Proving!TypeOK
    <3>2. CASE node' = [node EXCEPT !.enabled = ~ @]
      BY <3>1, <3>2, Zenon
    <3>3. ASSUME NEW a \in Proving!Accounts, node' = [node EXCEPT !.knows = @ \cup {a}]
          PROVE  node' \in [knows : SUBSET Proving!Accounts, enabled : BOOLEAN]
      BY <3>1, <3>3
    <3> QED
      BY <1>6, <3>2, <3>3 DEF Proving!FaucetChanges
  <2>1. Proving!TypeOK'
    BY <1>6, <2>5 DEF ProvingInv, Proving!TypeOK, Proving!FaucetChanges
  <2>2. PageOK'
    BY <1>6 DEF ProvingInv, PageOK, Proving!NoTx, Proving!TypeOK, Proving!FaucetChanges
  <2>3. KeyOK' /\ Proving!StartsWithEnabledKey'
    BY <1>6 DEF ProvingInv, KeyOK, Proving!StartsWithEnabledKey, Proving!Accounts, Proving!TypeOK,
       Proving!FaucetChanges
  <2>4. Proving!SkipsAreUnbuildable' /\ (landed \subseteq 1 .. done)'
    BY <1>6 DEF ProvingInv, Proving!SkipsAreUnbuildable, Proving!FaucetChanges
  <2> QED
    BY <2>1, <2>2, <2>3, <2>4 DEF ProvingInv
<1> QED
  BY <1>1, <1>2, <1>3, <1>4, <1>5, <1>6 DEF Proving!Startup

\* The page that is cut from the feed.
LEMMA PageIsCut ==
  ASSUME Proving!Assumption, ProvingInv, done < Len(Feed)
  PROVE  /\ done \in Nat /\ Proving!PageEnd \in Nat /\ Len(Feed) \in Nat
         /\ Proving!PageEnd \in done .. Len(Feed) /\ Proving!PageEnd <= done + cap
         /\ Proving!build_notes \subseteq done + 1 .. Proving!PageEnd
         /\ Proving!build_notes \subseteq Proving!Entries
         /\ Proving!Cardinality(Proving!build_notes) <= cap
         /\ Proving!Cardinality(Proving!build_notes) * LocalCost \in Nat
<1>1. done \in Nat /\ cap \in Nat /\ cap >= 1 /\ Len(Feed) \in Nat /\ LocalCost \in Nat
  BY DEF ProvingInv, Proving!TypeOK, Proving!Assumption
<1>2. Proving!PageEnd = IF done + cap <= Len(Feed) THEN done + cap ELSE Len(Feed)
  BY <1>1, MinOfTwo DEF Proving!PageEnd
<1>3. Proving!PageEnd \in Nat /\ Proving!PageEnd \in done .. Len(Feed) /\ Proving!PageEnd <= done + cap
  BY <1>1, <1>2
<1>4. Proving!build_notes \subseteq done + 1 .. Proving!PageEnd
  BY DEF Proving!build_notes
<1>5. Proving!build_notes \subseteq Proving!Entries
  BY <1>1, <1>3, <1>4 DEF Proving!Entries, Proving!Assumption
<1>6. Proving!Cardinality(Proving!build_notes) <= cap /\ Proving!Cardinality(Proving!build_notes) \in Nat
  BY <1>1, <1>3, <1>4, NotesFit, Zenon
<1> QED
  BY <1>1, <1>3, <1>4, <1>5, <1>6

\* The work on the page in hand is a number.
LEMMA PageInHand ==
  ASSUME Proving!Assumption, ProvingInv, stage \in {"remote", "local", "submit"}
  PROVE  Proving!Cardinality(tx.notes) * LocalCost \in Nat
<1>1. /\ done \in Nat /\ cap \in Nat /\ tx.end \in Nat /\ tx.end <= done + cap
      /\ tx.notes \subseteq done + 1 .. tx.end
  BY DEF ProvingInv, Proving!TypeOK, PageOK, Proving!Assumption
<1>2. Proving!Cardinality(tx.notes) \in Nat /\ LocalCost \in Nat
  <2>1. LocalCost \in Nat
    BY DEF Proving!Assumption
  <2> QED
    BY <1>1, <2>1, NotesFit
<1> QED
  BY <1>2

\* The proof of a page, as far as its submission.
LEMMA ProvingKeepsProving ==
  ASSUME Proving!Assumption, ProvingInv, NEW proof \in {"good", "bad", "none"},
         \/ Proving!ProcessPage \/ Proving!ProveRemotely(proof) \/ Proving!FallBack(proof)
         \/ Proving!ProveLocally \/ Proving!BlockPasses
  PROVE  ProvingInv'
<1>1. CASE Proving!ProcessPage
  <2>1. stage = "ready" /\ done < Len(Feed) /\ client' = Proving!Synced
        /\ UNCHANGED <<config, cap, node, seen, landed, failure>>
    BY <1>1 DEF Proving!ProcessPage
  <2>2. client' \in [tracks : SUBSET Proving!Accounts, enabled : BOOLEAN]
        /\ client'.tracks = client.tracks
    BY <2>1 DEF ProvingInv, Proving!TypeOK, Proving!Synced
  <2>3. seen /\ client.tracks = Proving!Accounts
    BY <2>1 DEF ProvingInv, Proving!StartsWithEnabledKey
  <2>4. CASE Proving!build_notes = {} /\ done' = Proving!PageEnd /\ UNCHANGED <<stage, tx>>
    <3>1. Proving!TypeOK'
      <4>1. done' \in 0 .. Len(Feed)
        BY <2>1, <2>4, PageIsCut DEF ProvingInv, Proving!TypeOK
      <4> QED
        BY <2>1, <2>2, <2>4, <4>1 DEF ProvingInv, Proving!TypeOK
    <3>2. PageOK'
      BY <2>1, <2>4 DEF ProvingInv, PageOK
    <3>3. KeyOK' /\ Proving!StartsWithEnabledKey'
      BY <2>1, <2>2, <2>3, <2>4 DEF KeyOK, Proving!StartsWithEnabledKey
    <3>4. Proving!SkipsAreUnbuildable' /\ (landed \subseteq 1 .. done)'
      <4>1. done \in Nat /\ done' \in Nat /\ done <= done' /\ Len(Feed) \in Nat
        BY <2>1, <2>4, PageIsCut
      <4>2. \A i \in done + 1 .. done' : ~ Feed[i]
        BY <2>4 DEF Proving!build_notes
      <4>3. landed' = landed /\ landed \subseteq 1 .. done
        BY <2>1 DEF ProvingInv
      <4>4. \A i \in 1 .. done : Feed[i] <=> i \in landed
        BY DEF ProvingInv, Proving!SkipsAreUnbuildable
      <4> QED
        BY <4>1, <4>2, <4>3, <4>4 DEF Proving!SkipsAreUnbuildable
    <3> QED
      BY <3>1, <3>2, <3>3, <3>4 DEF ProvingInv
  <2>5. ASSUME Proving!build_notes # {}, UNCHANGED done, stage' \in {"remote", "local"},
               NEW w \in Nat,
               tx' = [notes |-> Proving!build_notes, end |-> Proving!PageEnd, age |-> 0,
                      proof |-> "none", work |-> w]
        PROVE  ProvingInv'
    <3>1. ExpirationDelta \in Nat
      BY DEF Proving!Assumption
    <3>2. /\ tx' \in [notes : SUBSET Proving!Entries, end : Nat, age : 0 .. ExpirationDelta,
                      work : Nat, proof : {"none", "good", "bad"}]
          /\ tx'.notes = Proving!build_notes /\ tx'.end = Proving!PageEnd
      BY <2>1, <2>5, <3>1, PageIsCut
    <3>3. Proving!TypeOK'
      BY <2>1, <2>2, <2>5, <3>2, PageIsCut DEF ProvingInv, Proving!TypeOK
    <3>4. PageOK'
      BY <2>1, <2>5, <3>2, PageIsCut DEF PageOK, Proving!build_notes
    <3>5. KeyOK' /\ Proving!StartsWithEnabledKey'
      BY <2>1, <2>2, <2>3, <2>5, Zenon DEF KeyOK, Proving!StartsWithEnabledKey
    <3>6. Proving!SkipsAreUnbuildable' /\ (landed \subseteq 1 .. done)'
      BY <2>1, <2>5 DEF ProvingInv, Proving!SkipsAreUnbuildable
    <3> QED
      BY <3>3, <3>4, <3>5, <3>6 DEF ProvingInv
  <2>6. RemoteTimeout \in Nat
    BY DEF Proving!Assumption
  <2> QED
    BY <1>1, <2>1, <2>4, <2>5, <2>6, PageIsCut DEF Proving!ProcessPage
<1>2. CASE Proving!ProveRemotely(proof)
  <2>5. /\ tx' \in [notes : SUBSET Proving!Entries, end : Nat,
                  age : 0 .. ExpirationDelta, work : Nat, proof : {"none", "good", "bad"}]
        /\ tx'.notes = tx.notes /\ tx'.end = tx.end /\ tx'.proof = "good"
        /\ stage \in {"remote", "local", "submit"}
    BY <1>2 DEF ProvingInv, Proving!TypeOK, Proving!ProveRemotely
  <2>1. Proving!TypeOK'
    BY <1>2, <2>5 DEF ProvingInv, Proving!TypeOK, Proving!ProveRemotely
  <2>2. PageOK'
    BY <1>2, <2>5 DEF ProvingInv, PageOK, Proving!ProveRemotely
  <2>3. KeyOK' /\ Proving!StartsWithEnabledKey'
    BY <1>2 DEF ProvingInv, KeyOK, Proving!StartsWithEnabledKey, Proving!Accounts, Proving!TypeOK,
       Proving!ProveRemotely
  <2>4. Proving!SkipsAreUnbuildable' /\ (landed \subseteq 1 .. done)'
    BY <1>2 DEF ProvingInv, Proving!SkipsAreUnbuildable, Proving!ProveRemotely
  <2> QED
    BY <2>1, <2>2, <2>3, <2>4 DEF ProvingInv
<1>3. CASE Proving!FallBack(proof)
  <2>6. Proving!Cardinality(tx.notes) * LocalCost \in Nat
    BY <1>3, PageInHand DEF Proving!FallBack
  <2>5. /\ tx' \in [notes : SUBSET Proving!Entries, end : Nat,
                  age : 0 .. ExpirationDelta, work : Nat, proof : {"none", "good", "bad"}]
        /\ tx'.notes = tx.notes /\ tx'.end = tx.end /\ stage = "remote"
        /\ stage \in {"remote", "local", "submit"}
    BY <1>3, <2>6 DEF ProvingInv, Proving!TypeOK, Proving!FallBack
  <2>1. Proving!TypeOK'
    BY <1>3, <2>5 DEF ProvingInv, Proving!TypeOK, Proving!FallBack
  <2>2. PageOK'
    BY <1>3, <2>5 DEF ProvingInv, PageOK, Proving!FallBack
  <2>3. KeyOK' /\ Proving!StartsWithEnabledKey'
    BY <1>3 DEF ProvingInv, KeyOK, Proving!StartsWithEnabledKey, Proving!Accounts, Proving!TypeOK,
       Proving!FallBack
  <2>4. Proving!SkipsAreUnbuildable' /\ (landed \subseteq 1 .. done)'
    BY <1>3 DEF ProvingInv, Proving!SkipsAreUnbuildable, Proving!FallBack
  <2> QED
    BY <2>1, <2>2, <2>3, <2>4 DEF ProvingInv
<1>4. CASE Proving!ProveLocally
  <2>5. /\ tx' \in [notes : SUBSET Proving!Entries, end : Nat,
                  age : 0 .. ExpirationDelta, work : Nat, proof : {"none", "good", "bad"}]
        /\ tx'.notes = tx.notes /\ tx'.end = tx.end /\ tx'.proof = "good"
        /\ stage \in {"remote", "local", "submit"}
    BY <1>4 DEF ProvingInv, Proving!TypeOK, Proving!ProveLocally
  <2>1. Proving!TypeOK'
    BY <1>4, <2>5 DEF ProvingInv, Proving!TypeOK, Proving!ProveLocally
  <2>2. PageOK'
    BY <1>4, <2>5 DEF ProvingInv, PageOK, Proving!ProveLocally
  <2>3. KeyOK' /\ Proving!StartsWithEnabledKey'
    BY <1>4 DEF ProvingInv, KeyOK, Proving!StartsWithEnabledKey, Proving!Accounts, Proving!TypeOK,
       Proving!ProveLocally
  <2>4. Proving!SkipsAreUnbuildable' /\ (landed \subseteq 1 .. done)'
    BY <1>4 DEF ProvingInv, Proving!SkipsAreUnbuildable, Proving!ProveLocally
  <2> QED
    BY <2>1, <2>2, <2>3, <2>4 DEF ProvingInv
<1>5. CASE Proving!BlockPasses
  <2>6. Proving!Min({tx.age + 1, ExpirationDelta}) \in 0 .. ExpirationDelta
    <3>1. tx.age \in 0 .. ExpirationDelta /\ tx.age + 1 \in Int /\ ExpirationDelta \in Nat
      BY DEF ProvingInv, Proving!TypeOK, Proving!Assumption
    <3> QED
      BY <3>1, MinOfTwo
  <2>7. tx.work - 1 \in Nat
    BY <1>5 DEF ProvingInv, Proving!TypeOK, Proving!BlockPasses
  <2>5. /\ tx' \in [notes : SUBSET Proving!Entries, end : Nat,
                  age : 0 .. ExpirationDelta, work : Nat, proof : {"none", "good", "bad"}]
        /\ tx'.notes = tx.notes /\ tx'.end = tx.end /\ stage # "submit"
        /\ stage \in {"remote", "local", "submit"}
    BY <1>5, <2>6, <2>7, Zenon DEF ProvingInv, Proving!TypeOK, Proving!BlockPasses
  <2>1. Proving!TypeOK'
    BY <1>5, <2>5 DEF ProvingInv, Proving!TypeOK, Proving!BlockPasses
  <2>2. PageOK'
    BY <1>5, <2>5 DEF ProvingInv, PageOK, Proving!BlockPasses
  <2>3. KeyOK' /\ Proving!StartsWithEnabledKey'
    BY <1>5 DEF ProvingInv, KeyOK, Proving!StartsWithEnabledKey, Proving!Accounts, Proving!TypeOK,
       Proving!BlockPasses
  <2>4. Proving!SkipsAreUnbuildable' /\ (landed \subseteq 1 .. done)'
    BY <1>5 DEF ProvingInv, Proving!SkipsAreUnbuildable, Proving!BlockPasses
  <2> QED
    BY <2>1, <2>2, <2>3, <2>4 DEF ProvingInv
<1> QED
  BY <1>1, <1>2, <1>3, <1>4, <1>5

\* Progress over a page whose notes landed.
LEMMA PageLands ==
  ASSUME NEW d \in Nat, NEW e \in Nat, d <= e, NEW L \in SUBSET (1 .. d),
         \A i \in 1 .. d : Feed[i] <=> i \in L
  PROVE  /\ L \cup {i \in d + 1 .. e : Feed[i]} \subseteq 1 .. e
         /\ \A i \in 1 .. e : Feed[i] <=> i \in L \cup {j \in d + 1 .. e : Feed[j]}
<1> DEFINE N == {j \in d + 1 .. e : Feed[j]}
<1>1. L \cup N \subseteq 1 .. e
  <2>1. (d + 1 .. e) \cup (1 .. d) \subseteq 1 .. e
    OBVIOUS
  <2> QED
    BY <2>1, Zenon
<1>2. ASSUME NEW i \in 1 .. e PROVE Feed[i] <=> i \in L \cup N
  <2>1. CASE i \in 1 .. d
    <3>1. i \notin d + 1 .. e
      BY <2>1
    <3> QED
      BY <2>1, <3>1, Zenon
  <2>2. CASE i \in d + 1 .. e
    <3>1. i \notin 1 .. d
      BY <2>2
    <3> QED
      BY <2>2, <3>1, Zenon
  <2>3. i \in 1 .. d \/ i \in d + 1 .. e
    OBVIOUS
  <2> QED
    BY <2>1, <2>2, <2>3
<1> QED
  BY <1>1, <1>2, Zenon

\* The submission, and what ends a page or the process.
LEMMA EndsKeepProving ==
  ASSUME Proving!Assumption, ProvingInv,
         Proving!Submit \/ Proving!SubmitExpired \/ Proving!PageFails \/ Proving!Stop
  PROVE  ProvingInv'
<1>1. CASE Proving!Submit
  <2>5. /\ tx' = Proving!NoTx
        /\ tx' \in [notes : SUBSET Proving!Entries, end : Nat,
                     age : 0 .. ExpirationDelta, work : Nat, proof : {"none", "good", "bad"}]
    BY <1>1 DEF Proving!NoTx, Proving!Assumption, Proving!Submit
  <2>6. Proving!Cardinality(tx'.notes) = 0
    BY <2>5, NoNotes DEF Proving!NoTx
  <2>7. client' \in [tracks : SUBSET Proving!Accounts, enabled : BOOLEAN]
        /\ client'.tracks = client.tracks
    BY <1>1 DEF ProvingInv, Proving!TypeOK, Proving!Submit, Proving!Synced
  <2>8. /\ done' = tx.end /\ tx.end \in done .. Len(Feed) /\ done \in Nat /\ tx.end \in Nat
        /\ landed' = landed \cup tx.notes /\ tx.notes = {i \in done + 1 .. tx.end : Feed[i]}
        /\ tx.notes \subseteq Proving!Entries /\ Len(Feed) \in Nat
    BY <1>1 DEF ProvingInv, PageOK, Proving!TypeOK, Proving!Submit, Proving!Assumption
  <2>9. done' \in 0 .. Len(Feed) /\ landed' \subseteq Proving!Entries
    <3>1. landed \subseteq Proving!Entries
      BY DEF ProvingInv, Proving!TypeOK
    <3> QED
      BY <2>8, <3>1
  <2>1. Proving!TypeOK'
    <3>1. stage' = "ready" /\ failure' = "none" /\ UNCHANGED <<config, cap, node, seen>>
      BY <1>1 DEF Proving!Submit
    <3>2. Proving!Cardinality(tx'.notes) <= cap'
      BY <2>6, <3>1 DEF ProvingInv, Proving!TypeOK
    <3> QED
      BY <2>5, <2>7, <2>9, <3>1, <3>2 DEF ProvingInv, Proving!TypeOK
  <2>2. PageOK'
    BY <1>1, <2>5 DEF PageOK, Proving!Submit
  <2>3. KeyOK' /\ Proving!StartsWithEnabledKey'
    BY <1>1, <2>7 DEF ProvingInv, KeyOK, Proving!StartsWithEnabledKey, Proving!Submit
  <2>4. Proving!SkipsAreUnbuildable' /\ (landed \subseteq 1 .. done)'
    <3>1. landed \subseteq 1 .. done /\ \A i \in 1 .. done : Feed[i] <=> i \in landed
      BY DEF ProvingInv, Proving!SkipsAreUnbuildable
    <3>2. done \in Nat /\ tx.end \in Nat /\ done <= tx.end
      BY <2>8
    <3>4. tx.notes = {i \in done + 1 .. tx.end : Feed[i]}
      BY <2>8, Zenon
    <3>3. /\ landed \cup tx.notes \subseteq 1 .. tx.end
          /\ \A i \in 1 .. tx.end : Feed[i] <=> i \in landed \cup tx.notes
      BY <3>1, <3>2, <3>4, PageLands, ZenonT(30)
    <3> QED
      BY <2>8, <3>3 DEF Proving!SkipsAreUnbuildable
  <2> QED
    BY <2>1, <2>2, <2>3, <2>4 DEF ProvingInv
<1>2. CASE Proving!SubmitExpired
  <2>5. /\ tx' = Proving!NoTx
        /\ tx' \in [notes : SUBSET Proving!Entries, end : Nat,
                     age : 0 .. ExpirationDelta, work : Nat, proof : {"none", "good", "bad"}]
    BY <1>2 DEF Proving!NoTx, Proving!Assumption, Proving!SubmitExpired
  <2>6. Proving!Cardinality(tx'.notes) = 0
    BY <2>5, NoNotes DEF Proving!NoTx
  <2>7. cap' \in 1 .. RemoteProvingMax
    <3>1. cap \in 1 .. RemoteProvingMax /\ LocalProvingMax \in Nat \ {0} /\ RemoteProvingMax \in Nat
      BY DEF ProvingInv, Proving!TypeOK, Proving!Assumption
    <3>2. cap' = Proving!Min({cap, LocalProvingMax})
      BY <1>2 DEF Proving!SubmitExpired, Proving!limit_to_local_proving
    <3> QED
      BY <3>1, <3>2, MinOfTwo
  <2>8. Proving!Cardinality(tx'.notes) <= cap'
    BY <2>6, <2>7 DEF Proving!Assumption
  <2>1. Proving!TypeOK'
    BY <1>2, <2>5, <2>7, <2>8 DEF ProvingInv, Proving!TypeOK, Proving!SubmitExpired
  <2>2. PageOK'
    BY <1>2, <2>5 DEF PageOK, Proving!SubmitExpired
  <2>3. KeyOK' /\ Proving!StartsWithEnabledKey'
    BY <1>2 DEF ProvingInv, KeyOK, Proving!StartsWithEnabledKey, Proving!Accounts, Proving!TypeOK,
       Proving!SubmitExpired
  <2>4. Proving!SkipsAreUnbuildable' /\ (landed \subseteq 1 .. done)'
    BY <1>2 DEF ProvingInv, Proving!SkipsAreUnbuildable, Proving!SubmitExpired
  <2> QED
    BY <2>1, <2>2, <2>3, <2>4 DEF ProvingInv
<1>3. CASE Proving!PageFails
  <2>5. /\ tx' = Proving!NoTx
        /\ tx' \in [notes : SUBSET Proving!Entries, end : Nat,
                     age : 0 .. ExpirationDelta, work : Nat, proof : {"none", "good", "bad"}]
    BY <1>3 DEF Proving!NoTx, Proving!Assumption, Proving!PageFails
  <2>6. Proving!Cardinality(tx'.notes) = 0
    BY <2>5, NoNotes DEF Proving!NoTx
  <2>1. Proving!TypeOK'
    <3>1. /\ stage' = "ready" /\ failure' = "other"
          /\ UNCHANGED <<config, cap, client, node, seen, done, landed>>
      BY <1>3 DEF Proving!PageFails
    <3>2. Proving!Cardinality(tx'.notes) <= cap'
      BY <2>6, <3>1 DEF ProvingInv, Proving!TypeOK
    <3> QED
      BY <2>5, <3>1, <3>2 DEF ProvingInv, Proving!TypeOK
  <2>2. PageOK'
    BY <1>3, <2>5 DEF PageOK, Proving!PageFails
  <2>3. KeyOK' /\ Proving!StartsWithEnabledKey'
    BY <1>3 DEF ProvingInv, KeyOK, Proving!StartsWithEnabledKey, Proving!Accounts, Proving!TypeOK,
       Proving!PageFails
  <2>4. Proving!SkipsAreUnbuildable' /\ (landed \subseteq 1 .. done)'
    BY <1>3 DEF ProvingInv, Proving!SkipsAreUnbuildable, Proving!PageFails
  <2> QED
    BY <2>1, <2>2, <2>3, <2>4 DEF ProvingInv
<1>4. CASE Proving!Stop
  <2>5. /\ tx' = Proving!NoTx
        /\ tx' \in [notes : SUBSET Proving!Entries, end : Nat,
                     age : 0 .. ExpirationDelta, work : Nat, proof : {"none", "good", "bad"}]
    BY <1>4 DEF Proving!NoTx, Proving!Assumption, Proving!Stop
  <2>6. Proving!Cardinality(tx'.notes) = 0
    BY <2>5, NoNotes DEF Proving!NoTx
  <2>7. cap' \in 1 .. RemoteProvingMax /\ cap' = 1
    BY <1>4 DEF Proving!Stop, Proving!Assumption
  <2>1. Proving!TypeOK'
    <3>1. /\ stage' = "down" /\ failure' = "none"
          /\ UNCHANGED <<config, client, node, seen, done, landed>>
      BY <1>4 DEF Proving!Stop
    <3>2. Proving!Cardinality(tx'.notes) <= cap'
      BY <2>6, <2>7
    <3> QED
      BY <2>5, <2>7, <3>1, <3>2 DEF ProvingInv, Proving!TypeOK
  <2>2. PageOK'
    BY <1>4, <2>5 DEF PageOK, Proving!Stop
  <2>3. KeyOK' /\ Proving!StartsWithEnabledKey'
    BY <1>4 DEF ProvingInv, KeyOK, Proving!StartsWithEnabledKey, Proving!Accounts, Proving!TypeOK,
       Proving!Stop
  <2>4. Proving!SkipsAreUnbuildable' /\ (landed \subseteq 1 .. done)'
    BY <1>4 DEF ProvingInv, Proving!SkipsAreUnbuildable, Proving!Stop
  <2> QED
    BY <2>1, <2>2, <2>3, <2>4 DEF ProvingInv
<1> QED
  BY <1>1, <1>2, <1>3, <1>4

\* What runs was checked and what is submitted is good, for any feed, page sizes, prover, deadlines
\* and settings: the attester's key was enabled during this start, the proof verifies, and progress
\* passes only what landed or does not build (NodeClient::new, RemoteProver::prove, build_notes).
THEOREM PagesAreProven ==
  ASSUME Proving!Assumption PROVE Proving!Spec => []Proving!ProvingIsSound
<1>1. Proving!Init => ProvingInv
  <2> SUFFICES ASSUME Proving!Init PROVE ProvingInv
    OBVIOUS
  <2>1. Proving!TypeOK
    <3>1. tx.notes = {} /\ Proving!Cardinality(tx.notes) <= cap /\ cap \in 1 .. RemoteProvingMax
      BY NoNotes DEF Proving!Init, Proving!NoTx, Proving!Assumption
    <3>2. tx \in [notes : SUBSET Proving!Entries, end : Nat, age : 0 .. ExpirationDelta,
                  work : Nat, proof : {"none", "good", "bad"}]
      BY DEF Proving!Init, Proving!NoTx, Proving!Assumption
    <3>3. 0 \in 0 .. Len(Feed)
      BY DEF Proving!Assumption
    <3> QED
      BY <3>1, <3>2, <3>3, Zenon DEF Proving!Init, Proving!TypeOK
  <2> QED
    BY <2>1 DEF Proving!Init, ProvingInv, PageOK, KeyOK, Proving!StartsWithEnabledKey,
       Proving!SkipsAreUnbuildable
<1>2. ProvingInv /\ [Proving!Next]_Proving!vars => ProvingInv'
  <2> SUFFICES ASSUME ProvingInv, [Proving!Next]_Proving!vars PROVE ProvingInv'
    OBVIOUS
  <2>1. CASE UNCHANGED Proving!vars
    BY <2>1 DEF Proving!vars, ProvingInv, Proving!TypeOK, PageOK, KeyOK,
       Proving!StartsWithEnabledKey, Proving!SkipsAreUnbuildable
  <2>2. CASE Proving!Startup
    BY <2>2, StartKeepsProving
  <2>3. CASE Proving!Proving
    BY <2>3, ProvingKeepsProving, EndsKeepProving DEF Proving!Proving
  <2>4. CASE Proving!Disturbance
    BY <2>4, StartKeepsProving, EndsKeepProving DEF Proving!Disturbance
  <2> QED
    BY <2>1, <2>2, <2>3, <2>4 DEF Proving!Next
<1>3. ProvingInv => Proving!ProvingIsSound
  BY DEF ProvingInv, PageOK, Proving!ProvingIsSound, Proving!OnlyProvenPages
<1> QED
  BY <1>1, <1>2, <1>3, PTL DEF Proving!Spec

=============================================================================
