--------------------------- MODULE ListenerStartup ----------------------------
(***************************************************************************)
(* Starting the earlier attester (withdrawal-listener-attester: config.rs, *)
(* circle/auth.rs, circle/client.rs, idempotency/store.rs): the settings   *)
(* are checked, the Circle client is built, and the ledger is opened, step *)
(* by step, by several processes on one file.  A process may stop between  *)
(* any two steps and start again with other settings.                      *)
(***************************************************************************)
EXTENDS Naturals

CONSTANTS Procs, Burns, Settings

VARIABLES file,      \* the SQLite file: user_version, the table, its rows
          proc,      \* where each process is, and its settings
          memory,    \* rows of a database without a file
          claimed    \* how often each burn was claimed, ever

vars == <<file, proc, memory, claimed>>

LEDGER_SCHEMA_VERSION == 1

Rows == {"none", "pending", "corrupt"}

\* scheme and host of the base URL, token and header of the credential, whether the
\* header is legal HTTP, and what SQLite makes of the ledger's path.
ListenerConfig ==
  [scheme : {"https", "http", "ftp", "unparsable"}, host : BOOLEAN, token : BOOLEAN,
   header : BOOLEAN, legal : BOOLEAN, path : {"file", "reserved", "memory_uri"}]

Assumption == Settings \subseteq ListenerConfig

Empty == [b \in Burns |-> "none"]
Down == [pc |-> "down"]

TypeOK ==
  /\ file \in [version : 0 .. 2, table : BOOLEAN, rows : [Burns -> Rows]]
  /\ (\E b \in Burns : file.rows[b] # "none") => file.table
  /\ \A p \in Procs :
       proc[p].pc \in {"down", "client", "path", "connect", "version", "create", "stamp", "ready"}
  /\ memory \in [Procs -> [Burns -> Rows]] /\ claimed \in [Burns -> 0 .. 2]

\* A file of this layout, one of another, or none yet.
Init ==
  /\ file \in [version : 0 .. 2, table : BOOLEAN, rows : {Empty}]
  /\ (file.version = 0) <=> ~ file.table
  /\ proc = [p \in Procs |-> Down] /\ memory = [p \in Procs |-> Empty]
  /\ claimed = [b \in Burns |-> 0]

Goto(p, pc) == proc' = [proc EXCEPT ![p].pc = pc]
Fail(p) == proc' = [proc EXCEPT ![p] = Down]

----------------------------------------------------------------------------
(* The settings and the client. *)

\* A token without a header is sent nowhere, and nothing says so.
MutValidate(c) == c.scheme \in {"http", "https"} /\ (c.token => c.scheme = "https")

\* ListenerConfig::validate.
validate(c) ==
  /\ c.scheme \in {"http", "https"}
  /\ c.token => c.scheme = "https" /\ c.header

Configure(p) ==
  /\ proc[p].pc = "down"
  /\ \E c \in Settings : validate(c) /\ proc' = [proc EXCEPT ![p] = [pc |-> "client", cfg |-> c]]
  /\ UNCHANGED <<file, memory, claimed>>

\* AuthPosture::from_config.
carries_credential(c) == c.token /\ c.header

to_header(c) == carries_credential(c) => c.legal

BuildClient(p) ==
  /\ proc[p].pc = "client"
  /\ LET c == proc[p].cfg
         built == /\ c.scheme \in {"http", "https"} /\ c.host
                  /\ carries_credential(c) => c.scheme = "https"
                  /\ to_header(c)
     IN  (built /\ Goto(p, "path")) \/ (~ built /\ Fail(p))
  /\ UNCHANGED <<file, memory, claimed>>

----------------------------------------------------------------------------
(* SubmitLedger::open. *)

durable_path(c) == c.path # "reserved"

CheckPath(p) ==
  /\ proc[p].pc = "path"
  /\ \/ durable_path(proc[p].cfg) /\ Goto(p, "connect")
     \/ ~ durable_path(proc[p].cfg) /\ Fail(p)
  /\ UNCHANGED <<file, memory, claimed>>

\* The name is all that is looked at.
MutBackedByAFile(c) == durable_path(c)

assert_backed_by_a_file(c) == c.path = "file"

Connect(p) ==
  /\ proc[p].pc = "connect"
  /\ \/ assert_backed_by_a_file(proc[p].cfg) /\ Goto(p, "version")
     \/ ~ assert_backed_by_a_file(proc[p].cfg) /\ Fail(p)
  /\ UNCHANGED <<file, memory, claimed>>

OnDisk(p) == proc[p].cfg.path = "file"

\* A new file is stamped, and its table forgotten.
MutReadVersion(p) ==
  /\ proc[p].pc = "version"
  /\ \/ file.version = 0 /\ Goto(p, "stamp")
     \/ file.version = LEDGER_SCHEMA_VERSION /\ Goto(p, "ready")
     \/ file.version \notin {0, LEDGER_SCHEMA_VERSION} /\ Fail(p)
  /\ UNCHANGED <<file, memory, claimed>>

ReadVersion(p) ==
  /\ proc[p].pc = "version"
  /\ \/ file.version = 0 /\ Goto(p, "create")
     \/ file.version = LEDGER_SCHEMA_VERSION /\ Goto(p, "ready")
     \/ file.version \notin {0, LEDGER_SCHEMA_VERSION} /\ Fail(p)
  /\ UNCHANGED <<file, memory, claimed>>

\* The table is made afresh.
MutCreateTable(p) ==
  /\ proc[p].pc = "create"
  /\ file' = [file EXCEPT !.table = TRUE, !.rows = Empty]
  /\ Goto(p, "stamp")
  /\ UNCHANGED <<memory, claimed>>

\* CREATE TABLE IF NOT EXISTS: another process may be here too.
CreateTable(p) ==
  /\ proc[p].pc = "create"
  /\ file' = [file EXCEPT !.table = TRUE]
  /\ Goto(p, "stamp")
  /\ UNCHANGED <<memory, claimed>>

Stamp(p) ==
  /\ proc[p].pc = "stamp"
  /\ file' = [file EXCEPT !.version = LEDGER_SCHEMA_VERSION]
  /\ Goto(p, "ready")
  /\ UNCHANGED <<memory, claimed>>

----------------------------------------------------------------------------
(* Use, and what goes wrong. *)

\* A row that does not make sense is no row.
MutReadRecord(row) == IF row = "corrupt" THEN "none" ELSE row

read_record(row) == row

\* A first claim; every other row refuses it, a senseless one as corrupt.
Claim(p, b) ==
  /\ proc[p].pc = "ready" /\ claimed[b] < 2
  /\ \/ /\ OnDisk(p) /\ read_record(file.rows[b]) = "none"
        /\ file' = [file EXCEPT !.rows[b] = "pending"] /\ UNCHANGED memory
     \/ /\ ~ OnDisk(p) /\ memory[p][b] = "none"
        /\ memory' = [memory EXCEPT ![p][b] = "pending"] /\ UNCHANGED file
  /\ claimed' = [claimed EXCEPT ![b] = @ + 1]
  /\ UNCHANGED proc

\* Somebody edits a row by hand.
Tamper(b) ==
  /\ file.rows[b] = "pending"
  /\ file' = [file EXCEPT !.rows[b] = "corrupt"]
  /\ UNCHANGED <<proc, memory, claimed>>

\* The process stops, or SQLite fails while the ledger is opened.
Stop(p) ==
  /\ proc[p].pc # "down"
  /\ Fail(p) /\ memory' = [memory EXCEPT ![p] = Empty]
  /\ UNCHANGED <<file, claimed>>

Next ==
  \/ \E p \in Procs :
       \/ Configure(p) \/ BuildClient(p) \/ CheckPath(p) \/ Connect(p) \/ ReadVersion(p)
       \/ CreateTable(p) \/ Stamp(p) \/ Stop(p)
       \/ \E b \in Burns : Claim(p, b)
  \/ \E b \in Burns : Tamper(b)

Spec == Init /\ [][Next]_vars

----------------------------------------------------------------------------
(* Properties. *)

\* Over every stop, restart and settings file, a burn is claimed once: no ledger that
\* opens forgets a claim, or takes a row it cannot read for none.
NoClaimIsForgotten == \A b \in Burns : claimed[b] <= 1

\* A ledger that opened has its table and its stamp, also when two processes made the
\* file at once or one stopped in the middle; and a file of another layout never opens.
OpenIsComplete ==
  \A p \in Procs :
    proc[p].pc = "ready" => file.table /\ file.version = LEDGER_SCHEMA_VERSION

\* A process that runs with a token sends it, and only over https: no setting drops
\* it silently.
CredentialIsSent ==
  \A p \in Procs :
    (proc[p].pc = "ready" /\ proc[p].cfg.token) =>
      proc[p].cfg.scheme = "https" /\ carries_credential(proc[p].cfg) /\ proc[p].cfg.legal

\* Over every stop, restart and settings file, opening the ledger is safe: a burn is claimed once,
\* a ledger that opened is complete, and a token that was configured is sent (open, read_record,
\* validate).
OpeningIsSafe == TypeOK /\ NoClaimIsForgotten /\ OpenIsComplete /\ CredentialIsSent

=============================================================================
