---------------------------- MODULE DepositRelayer ----------------------------
(***************************************************************************)
(* The deposit relayer (xreserve-deposit-relayer: lib.rs, circle.rs,       *)
(* miden.rs, store.rs, unminted.rs, mint.rs): one sequential loop that     *)
(* walks Circle's attestation feed from its head back to the watermark,    *)
(* puts each page's mint notes on chain in one transaction, waits for it,  *)
(* and saves how far it got.                                               *)
(*                                                                         *)
(* The feed is a sequence, oldest entry first, that grows at its end; an   *)
(* entry, its message hash, its deposit nonce and the cursor Circle builds *)
(* from it are its position, and 0 is None.  An entry is a deposit that    *)
(* builds ("ok"), one that is skipped but has a message hash ("bad"), or   *)
(* one whose message hash cannot be read either ("blind").                 *)
(*                                                                         *)
(* The chain is environment: a submitted transaction lands at most once    *)
(* and only before its expiration block, whether or not anyone still waits *)
(* for it, and the faucet mints the deposit of a note on chain at most     *)
(* once.  A transaction's expiration is kept as the blocks it has left.    *)
(*                                                                         *)
(* The process may stop anywhere, and every call may fail.  FaultKinds     *)
(* lists the failures after which a transaction may be on chain or under   *)
(* way that the state file does not know of, or the file is lost;          *)
(* MaxFaults bounds them.  Other failures are not bounded.                 *)
(***************************************************************************)
EXTENDS Integers, Sequences

CONSTANTS MaxEntries,        \* bound on the feed's length
          PageSize,          \* effective_page_size
          LocalProvingMax,   \* PageSize::LOCAL_PROVING_MAX
          ExpirationDelta,   \* blocks a transaction has to land
          GivingUp,          \* FAILED_SYNCS_BEFORE_GIVING_UP
          FaultKinds,        \* of {"crash", "file", "submit", "sync", "save"}
          MaxFaults          \* bound on faults, see above

ASSUME RelayerAssumption ==
  /\ MaxEntries \in Nat /\ MaxFaults \in Nat
  /\ PageSize \in Nat \ {0} /\ LocalProvingMax \in Nat \ {0}
  /\ ExpirationDelta \in Nat \ {0} /\ GivingUp \in Nat \ {0}

VARIABLES feed,         \* Circle's attestations
          file,         \* State, as the state file holds it
          pc,           \* where the loop is
          position,     \* Position, while a scan runs
          page,         \* what the page in hand came to: notes to mint, newest hash, next cursor
          size,         \* CircleClient::page_size
          tracked,      \* Unminted
          failed_syncs,
          tx,           \* the transaction being waited for
          strays,       \* submitted transactions nobody waits for that may still land
          notes,        \* mint notes created on chain, per entry
          minted,       \* the faucet's used-nonce map
          faults        \* faults so far

relayerVars == <<pc, position, page, size, tracked, failed_syncs>>
chainVars == <<tx, strays, notes, minted>>
vars == <<feed, file, relayerVars, chainVars, faults>>

Entries == 1 .. MaxEntries

Kinds == {"ok", "bad", "blind"}

Positions == [watermark : 0 .. MaxEntries, head : 0 .. MaxEntries, resume : 0 .. MaxEntries]

NoPosition == [watermark |-> 0, head |-> 0, resume |-> 0]

NoPage == [notes |-> {}, newest |-> 0, next |-> 0]

NoTx == [status |-> "none", notes |-> {}, left |-> 0]

TypeOK ==
  /\ feed \in Seq(Kinds) /\ Len(feed) <= MaxEntries
  /\ file \in Positions /\ position \in Positions
  /\ pc \in {"Down", "Sleep", "Fetch", "Check", "Submit", "Wait", "Save"}
  /\ page \in [notes : SUBSET Entries, newest : 0 .. MaxEntries, next : 0 .. MaxEntries]
  /\ size \in Nat \ {0}
  /\ tracked \subseteq Entries
  /\ failed_syncs \in 0 .. GivingUp - 1
  /\ tx \in [status : {"none", "pending", "included"}, notes : SUBSET Entries,
             left : 0 .. ExpirationDelta]
  /\ strays \subseteq [no : 1 .. MaxFaults, notes : SUBSET Entries, left : 0 .. ExpirationDelta]
  /\ notes \in [Entries -> Nat]
  /\ minted \subseteq Entries
  /\ faults \in 0 .. MaxFaults

Init ==
  /\ feed = <<>>
  /\ file = NoPosition
  /\ pc = "Down" /\ position = NoPosition /\ page = NoPage
  /\ size = PageSize
  /\ tracked = {} /\ failed_syncs = 0
  /\ tx = NoTx /\ strays = {}
  /\ notes = [i \in Entries |-> 0] /\ minted = {}
  /\ faults = 0

Fault(kind) == kind \in FaultKinds /\ faults < MaxFaults /\ faults' = faults + 1

-----------------------------------------------------------------------------
(* Circle *)

Readable(i) == feed[i] # "blind"

\* Circle attests a deposit: an entry appears at the head of the feed.
Attest(kind) ==
  /\ Len(feed) < MaxEntries
  /\ feed' = Append(feed, kind)
  /\ UNCHANGED <<file, relayerVars, chainVars, faults>>

\* The page below a cursor, newest entry Top, or the head page without one.
Top(cursor) == IF cursor = 0 THEN Len(feed) ELSE cursor - 1

OnPage(cursor) == {i \in 1 .. Top(cursor) : i > Top(cursor) - size}

\* Mutant: a next relation without a token reads as the final page.
NextCursorDropped(cursor) == 0

\* The rel="next" token of a page that is not the last: its oldest entry.
NextCursor(cursor) == IF Top(cursor) > size THEN Top(cursor) - size + 1 ELSE 0

\* The first readable message hash of a page.
Newest(cursor) ==
  LET hashes == {i \in OnPage(cursor) : Readable(i)}
  IN  IF hashes = {} THEN 0 ELSE CHOOSE i \in hashes : \A j \in hashes : j <= i

-----------------------------------------------------------------------------
(* The process *)

\* The loop is between pages: nothing in hand.
Between(where, next) ==
  /\ pc' = where /\ position' = next /\ page' = NoPage
  /\ failed_syncs' = 0 /\ tx' = NoTx

\* A transaction nobody waits for any more may still land.
Abandon ==
  strays' = IF tx.status = "pending" /\ tx.left > 0
            THEN strays \cup {[no |-> faults + 1, notes |-> tx.notes, left |-> tx.left]}
            ELSE strays

\* Relayer::new: progress is read and saved as it was.
Start ==
  /\ pc = "Down"
  /\ Between("Sleep", NoPosition)
  /\ size' = PageSize
  /\ UNCHANGED <<feed, file, tracked, strays, notes, minted, faults>>

\* run_until sees the cancellation between two pages or two scans.
Stop ==
  /\ pc \in {"Sleep", "Fetch"}
  /\ Between("Down", NoPosition)
  /\ tracked' = {}
  /\ UNCHANGED <<feed, file, size, strays, notes, minted, faults>>

Crash ==
  /\ pc # "Down"
  /\ Fault("crash")
  /\ Abandon
  /\ Between("Down", NoPosition)
  /\ tracked' = {}
  /\ UNCHANGED <<feed, file, size, notes, minted>>

\* The state file is removed while the process is down.
FileLost ==
  /\ pc = "Down"
  /\ Fault("file")
  /\ file' = NoPosition
  /\ UNCHANGED <<feed, relayerVars, chainVars>>

\* A scan begins where the file says, Position::from_state.
StartScan ==
  /\ pc = "Sleep"
  /\ Between("Fetch", file)
  /\ UNCHANGED <<feed, file, size, tracked, strays, notes, minted, faults>>

\* The page fails: the scan ends, and the next one resumes at the page.
PageFails == Between("Sleep", NoPosition)

-----------------------------------------------------------------------------
(* process_page *)

FetchPage ==
  LET cursor == position.resume
      entries == OnPage(cursor)
      reached == position.watermark \in entries
      fresh == IF reached THEN {i \in entries : i > position.watermark} ELSE entries
  IN /\ pc = "Fetch"
     /\ pc' = "Check"
     /\ page' = [notes |-> {i \in fresh : feed[i] = "ok"},
                 newest |-> Newest(cursor),
                 next |-> IF reached THEN 0 ELSE NextCursor(cursor)]
     /\ UNCHANGED <<feed, file, position, size, tracked, failed_syncs, chainVars, faults>>

\* Circle is unavailable, answers an error, or sends what is not a page.
FetchFails ==
  /\ pc = "Fetch"
  /\ PageFails
  /\ UNCHANGED <<feed, file, size, tracked, strays, notes, minted, faults>>

\* retain_unminted over the page's deposits and the tracked ones, under one sync.
RetainUnminted ==
  LET unminted == (page.notes \cup tracked) \ minted
  IN /\ pc = "Check"
     /\ tracked' = tracked \cap unminted
     /\ page' = [page EXCEPT !.notes = @ \cap unminted]
     /\ pc' = IF page'.notes = {} THEN "Save" ELSE "Submit"
     /\ UNCHANGED <<feed, file, position, size, failed_syncs, chainVars, faults>>

\* Without a nonce to check there is no sync that could fail.
RetainFails ==
  /\ pc = "Check" /\ page.notes \cup tracked # {}
  /\ PageFails
  /\ UNCHANGED <<feed, file, size, tracked, strays, notes, minted, faults>>

\* submit_new_transaction: the node takes the page's one transaction.
SubmitNotes ==
  /\ pc = "Submit"
  /\ pc' = "Wait"
  /\ tx' = [status |-> "pending", notes |-> page.notes, left |-> ExpirationDelta]
  /\ UNCHANGED <<feed, file, position, page, size, tracked, failed_syncs, strays, notes,
                 minted, faults>>

\* The node rejects it, or it never got there.  After an expiry pages get smaller.
SubmitFails(cause) ==
  /\ pc = "Submit"
  /\ size' = IF cause = "expired" /\ LocalProvingMax < size THEN LocalProvingMax ELSE size
  /\ PageFails
  /\ UNCHANGED <<feed, file, tracked, strays, notes, minted, faults>>

\* The node takes it and the answer is lost.
SubmitUnclear ==
  /\ pc = "Submit"
  /\ Fault("submit")
  /\ strays' = strays \cup {[no |-> faults + 1, notes |-> page.notes, left |-> ExpirationDelta]}
  /\ PageFails
  /\ UNCHANGED <<feed, file, size, tracked, notes, minted>>

-----------------------------------------------------------------------------
(* The wait for inclusion *)

\* Mutant: the wait ends one block early.
InclusionEarly ==
  CASE tx.status = "included" -> "Included"
    [] tx.status # "included" /\ tx.left <= 1 -> "Expired"
    [] OTHER -> "Waiting"

\* What a sync says of the transaction: status and chain tip are of one moment.
Inclusion ==
  CASE tx.status = "included" -> "Included"
    [] tx.status # "included" /\ tx.left = 0 -> "Expired"
    [] OTHER -> "Waiting"

SyncWaits ==
  /\ pc = "Wait" /\ Inclusion = "Waiting"
  /\ failed_syncs' = 0
  /\ UNCHANGED <<feed, file, pc, position, page, size, tracked, chainVars, faults>>

\* On chain is not minted: the deposits are tracked until the faucet mints them.
SyncIncluded ==
  /\ pc = "Wait" /\ Inclusion = "Included"
  /\ pc' = "Save"
  /\ tracked' = tracked \cup tx.notes
  /\ failed_syncs' = 0
  /\ UNCHANGED <<feed, file, position, page, size, chainVars, faults>>

\* Mutant: an expired transaction counts as done.
SyncExpiredDone ==
  /\ pc = "Wait" /\ Inclusion = "Expired"
  /\ pc' = "Save"
  /\ UNCHANGED <<feed, file, position, page, size, tracked, failed_syncs, chainVars, faults>>

SyncExpired ==
  /\ pc = "Wait" /\ Inclusion = "Expired"
  /\ Abandon
  /\ PageFails
  /\ UNCHANGED <<feed, file, size, tracked, notes, minted, faults>>

SyncFails ==
  /\ pc = "Wait" /\ failed_syncs + 1 < GivingUp
  /\ failed_syncs' = failed_syncs + 1
  /\ UNCHANGED <<feed, file, pc, position, page, size, tracked, chainVars, faults>>

\* The last failed sync in a row ends the wait, whatever becomes of the transaction.
GiveUp ==
  /\ pc = "Wait" /\ failed_syncs + 1 >= GivingUp
  /\ Fault("sync")
  /\ Abandon
  /\ PageFails
  /\ UNCHANGED <<feed, file, size, tracked, notes, minted>>

-----------------------------------------------------------------------------
(* finish_page *)

\* Position::state: there is progress to save once the scan has a head.
State(p) ==
  IF p.head # 0 /\ p.resume # 0 THEN p ELSE [NoPosition EXCEPT !.watermark = p.watermark]

\* A scan keeps the first head it finds.
HeadAfter(p) == IF p.head # 0 THEN p.head ELSE page.newest

NextPosition == [position EXCEPT !.head = HeadAfter(position), !.resume = page.next]

\* Mutant: the watermark moves with the first page.
SavedStateEager ==
  [NoPosition EXCEPT
     !.watermark = IF HeadAfter(position) # 0 THEN HeadAfter(position) ELSE position.watermark]

\* The watermark moves when the walk reaches its end, and the progress goes with it.
SavedState ==
  IF page.next # 0 THEN State(NextPosition)
  ELSE [NoPosition EXCEPT
          !.watermark = IF HeadAfter(position) # 0 THEN HeadAfter(position) ELSE position.watermark]

FinishPage ==
  /\ pc = "Save"
  /\ file' = IF SavedState # State(position) THEN SavedState ELSE file
  /\ IF page.next # 0 THEN Between("Fetch", NextPosition) ELSE Between("Sleep", NoPosition)
  /\ UNCHANGED <<feed, size, tracked, strays, notes, minted, faults>>

\* Only a change is written, and the write may fail.
SaveFails ==
  /\ pc = "Save" /\ SavedState # State(position)
  /\ Fault("save")
  /\ PageFails
  /\ UNCHANGED <<feed, file, size, tracked, strays, notes, minted>>

-----------------------------------------------------------------------------
(* The chain *)

Create(S) == notes' = [i \in Entries |-> IF i \in S THEN notes[i] + 1 ELSE notes[i]]

TxLands ==
  /\ tx.status = "pending" /\ tx.left > 0
  /\ tx' = [tx EXCEPT !.status = "included"]
  /\ Create(tx.notes)
  /\ UNCHANGED <<feed, file, relayerVars, strays, minted, faults>>

StrayLands(t) ==
  /\ strays' = strays \ {t}
  /\ Create(t.notes)
  /\ UNCHANGED <<feed, file, relayerVars, tx, minted, faults>>

\* A block without them: transactions come closer to their expiration.
BlockPasses ==
  /\ strays # {} \/ tx.left > 0
  /\ strays' = {[t EXCEPT !.left = @ - 1] : t \in {s \in strays : s.left > 1}}
  /\ tx' = [tx EXCEPT !.left = IF @ > 0 THEN @ - 1 ELSE 0]
  /\ UNCHANGED <<feed, file, relayerVars, notes, minted, faults>>

FaucetMints(i) ==
  /\ notes[i] > 0 /\ i \notin minted
  /\ minted' = minted \cup {i}
  /\ UNCHANGED <<feed, file, relayerVars, tx, strays, notes, faults>>

-----------------------------------------------------------------------------
(* The specification *)

Process == Start \/ Stop \/ Crash \/ FileLost \/ StartScan

Page ==
  \/ FetchPage \/ FetchFails \/ RetainUnminted \/ RetainFails
  \/ SubmitNotes \/ (\E cause \in {"expired", "failed"} : SubmitFails(cause)) \/ SubmitUnclear
  \/ SyncWaits \/ SyncIncluded \/ SyncExpired \/ SyncFails \/ GiveUp
  \/ FinishPage \/ SaveFails

Chain ==
  \/ TxLands
  \/ \E t \in strays : StrayLands(t)
  \/ BlockPasses
  \/ \E i \in Entries : FaucetMints(i)

Next == Process \/ Page \/ Chain \/ \E kind \in Kinds : Attest(kind)

Spec == Init /\ [][Next]_vars

(* The loop runs on, and a transaction does not expire forever.  Circle,   *)
(* the node and the stop signals leave the relayer alone in the end.  The  *)
(* faucet mints the notes it gets.                                         *)
Work ==
  Start \/ StartScan \/ FetchPage \/ RetainUnminted \/ SubmitNotes \/ SyncIncluded
    \/ SyncExpired \/ FinishPage

Disturbance ==
  Stop \/ FetchFails \/ RetainFails \/ (\E cause \in {"expired", "failed"} : SubmitFails(cause))

Fairness ==
  /\ WF_vars(Work)
  /\ SF_vars(TxLands)
  /\ \A i \in Entries : WF_vars(FaucetMints(i))
  /\ <>[][~Disturbance]_vars

FairSpec == Spec /\ Fairness

-----------------------------------------------------------------------------
(* Properties *)

Deposit(i) == i <= Len(feed) /\ feed[i] = "ok"

OnChain(i) == notes[i] > 0

\* What the state file says is handled is on chain: every deposit up to the watermark, and
\* every deposit between the resume cursor and the head of an unfinished scan, whatever
\* crashed, expired or was skipped on the way (store.rs: "Every page above it is minted").
NothingSkipped ==
  /\ \A i \in Entries : Deposit(i) /\ i <= file.watermark => OnChain(i)
  /\ \A i \in Entries : Deposit(i) /\ file.resume # 0 /\ file.resume <= i /\ i <= file.head => OnChain(i)

\* The file describes one contiguous run of the feed: an unfinished scan lies above the
\* watermark, between entries the feed has, and its head can be found again.
ProgressIsContiguous ==
  /\ file.resume = 0 <=> file.head = 0
  /\ file.resume # 0 => file.watermark < file.resume /\ file.resume <= file.head
  /\ \A h \in {file.head, file.watermark} \ {0} : h <= Len(feed) /\ Readable(h)

\* A deposit gets one mint note; every further one is owed to a fault that hid a transaction
\* from the state file.  Neither an expired transaction, a rejected one, a failed read nor a
\* clean stop makes the relayer put a deposit on chain twice.
ResendsAreFaults == \A i \in Entries : notes[i] <= 1 + faults

\* A deposit put on chain stays in the list operators are alerted from until the faucet
\* minted it or the process stops (unminted.rs).
TrackedUntilMinted ==
  [][\A i \in tracked : i \in tracked' \/ i \in minted \/ pc' = "Down"]_vars

\* Saved progress only moves on: the watermark grows, or an unfinished scan that keeps its
\* watermark and its head gets further down.  Only losing the file undoes it.
ProgressMovesOn ==
  [][file' # file =>
       \/ file'.watermark > file.watermark /\ file'.head = 0
       \/ /\ file'.watermark = file.watermark
          /\ file.head = 0 \/ (file'.head = file.head /\ file'.resume < file.resume)
       \/ FileLost]_vars

\* The relayer keeps the courier's promise (DepositCourier): the watermark moves only over
\* deposits that are on chain, and a deposit appears above it.
Courier == INSTANCE DepositCourier WITH
  deposits <- {i \in Entries : Deposit(i)},
  delivered <- {i \in Entries : OnChain(i)},
  handled <- file.watermark

ImplementsCourier == Courier!Spec

\* Every deposit Circle attests is in the end minted by the faucet.
EveryDepositMinted == \A i \in Entries : Deposit(i) ~> i \in minted

\* "a retry never re-mints a deposit an earlier attempt already got on chain" (miden.rs).
NeverSentTwice ==
  [][SubmitNotes => \A i \in page.notes : ~OnChain(i)]_vars

=============================================================================
