----------------------------- MODULE AdminSocket -----------------------------
(***************************************************************************)
(* The file of the admin socket (admin.rs: bind, remove_stale_socket, the  *)
(* end of run) and the lock on the store (store.rs: lock_exclusively), as  *)
(* attester processes with the same configuration start, stop and crash.   *)
(***************************************************************************)
EXTENDS FiniteSets

CONSTANTS Processes

\* No process goes by a word for none.
Assumption == Processes \cap {"absent", "file", "nobody"} = {}

VARIABLES path,      \* "absent", "file", or the process whose socket is there
          pc,        \* where each process is
          lock,      \* the process that holds the store, or "nobody"
          alone      \* no other process has run since the last one started

vars == <<path, pc, lock, alone>>

\* The processes whose listening socket is open.
Listening == {p \in Processes : pc[p] \in {"restrict", "lock", "serving"}}

Starting == {"inspect", "probe", "remove", "bind", "restrict", "lock"}

TypeOK ==
  /\ path \in Processes \cup {"absent", "file"}
  /\ pc \in [Processes -> Starting \cup {"idle", "failed", "serving", "unlink", "cleanup"}]
  /\ lock \in Processes \cup {"nobody"} /\ alone \in BOOLEAN
  /\ \A p \in Processes : pc[p] \in {"serving", "unlink", "cleanup"} <=> lock = p

Init ==
  /\ path \in {"absent", "file"} /\ pc = [p \in Processes |-> "idle"] /\ lock = "nobody"
  /\ alone = TRUE

Go(p, to) == pc' = [pc EXCEPT ![p] = to]

Start(p) ==
  /\ pc[p] \in {"idle", "failed"} /\ Go(p, "inspect")
  /\ alone' = \A q \in Processes \ {p} : pc[q] \in {"idle", "failed"}
  /\ UNCHANGED <<path, lock>>

inspect(p) ==
  /\ pc[p] = "inspect" /\ UNCHANGED <<path, lock>>
  /\ \/ path = "absent" /\ Go(p, "bind")
     \/ path = "file" /\ Go(p, "failed")
     \/ path \in Processes /\ Go(p, "probe")

\* A socket that refuses the connection is not removed.
MutProbe(p) ==
  /\ pc[p] = "probe" /\ UNCHANGED <<path, lock>>
  /\ Go(p, "failed")

\* Only a refused connection means a stale socket.
probe(p) ==
  /\ pc[p] = "probe" /\ UNCHANGED <<path, lock>>
  /\ \/ path \in Processes \ Listening /\ Go(p, "remove")
     \/ path \notin Processes \ Listening /\ Go(p, "failed")

\* remove_file: whatever is at the path by now.
remove(p) ==
  /\ pc[p] = "remove" /\ UNCHANGED lock
  /\ \/ path # "absent" /\ path' = "absent" /\ Go(p, "bind")
     \/ path = "absent" /\ UNCHANGED path /\ Go(p, "failed")

\* The bind does not make the file.
MutBind(p) == pc[p] = "bind" /\ Go(p, "lock") /\ UNCHANGED <<path, lock>>

bind(p) ==
  /\ pc[p] = "bind" /\ UNCHANGED lock
  /\ \/ path = "absent" /\ path' = p /\ Go(p, "restrict")
     \/ path # "absent" /\ UNCHANGED path /\ Go(p, "failed")

\* set_permissions names the path.
restrict(p) ==
  /\ pc[p] = "restrict" /\ UNCHANGED <<path, lock>>
  /\ Go(p, IF path = "absent" THEN "failed" ELSE "lock")

\* The other dependencies, then the store.
lock_exclusively(p) ==
  /\ pc[p] = "lock" /\ UNCHANGED path
  /\ \/ lock = "nobody" /\ lock' = p /\ Go(p, "serving")
     \/ lock # "nobody" /\ UNCHANGED lock /\ Go(p, "failed")

\* The listener is dropped, then the file removed; the store closes last.
stop(p) == pc[p] = "serving" /\ Go(p, "unlink") /\ UNCHANGED <<path, lock>>

unlink(p) == pc[p] = "unlink" /\ Go(p, "cleanup") /\ path' = "absent" /\ UNCHANGED lock

exit(p) == pc[p] = "cleanup" /\ Go(p, "idle") /\ lock' = "nobody" /\ UNCHANGED path

\* The system closes the listener and the lock; the file stays.
Crash(p) ==
  /\ pc[p] \notin {"idle", "failed"} /\ Go(p, "idle")
  /\ lock' = IF lock = p THEN "nobody" ELSE lock
  /\ UNCHANGED path

Step(p) ==
  /\ UNCHANGED alone
  /\ \/ inspect(p) \/ probe(p) \/ remove(p) \/ bind(p) \/ restrict(p)
     \/ lock_exclusively(p) \/ stop(p) \/ unlink(p) \/ exit(p) \/ Crash(p)

Next == \E p \in Processes : Start(p) \/ Step(p)

Spec == Init /\ [][Next]_vars

\* Whatever a crash, a failed start or a stop left behind, the next start succeeds when no
\* other process runs meanwhile: only a file that is not a socket stops it.
LeftoversDoNotBlock ==
  [][\A p \in Processes :
       (alone /\ pc[p] \in Starting /\ pc'[p] = "failed") => path = "file"]_vars

\* An attester that started by itself is the one the path leads to as long as it serves.
ServingIsReachable == alone => \A p \in Processes : pc[p] = "serving" => path = p

\* The store has one owner, which serves operators at the path (bind, lock_exclusively).
AdminIsServed == TypeOK /\ ServingIsReachable

=============================================================================
