------------------------- MODULE DepositRelayerProofs -------------------------
(***************************************************************************)
(* Nothing the state file calls handled is missing on chain, proved for    *)
(* feeds, page sizes and expirations of any length.                        *)
(*                                                                         *)
(* NothingSkipped speaks of the file alone, and a file is written from a   *)
(* page that was fetched long before, while the feed grew.  RelayerInv     *)
(* therefore says what a page in hand covers in terms that growth cannot   *)
(* change: the deposits from where the walk goes on up to the page's       *)
(* newest readable entry, or up to the cursor it was fetched below.        *)
(*                                                                         *)
(* How often a deposit is sent needs a count: CountInv charges every note  *)
(* and every transaction given up to a fault of its own, but for the one   *)
(* note a deposit is due.                                                  *)
(*                                                                         *)
(* The claims take the feed f and the notes n as parameters, so that what  *)
(* a later feed preserves is one lemma about values.                       *)
(***************************************************************************)
EXTENDS DepositRelayer, FiniteSets, WellFoundedInduction, TLAPS

\* Time, and a second try, for a leaf on a loaded machine; one that names a prover uses that one.
USE SMTT(20), ZenonT(20), SMTT(30)

\* An entry a scan can find again, and one that is a deposit.
Findable(f, h) == h <= Len(f) /\ f[h] # "blind"

IsDeposit(f, i) == i <= Len(f) /\ f[i] = "ok"

\* What a position claims: its watermark, and the run from resume to head.
Sound(p, f, n) ==
  /\ p.watermark # 0 => Findable(f, p.watermark)
  /\ p.head # 0 => Findable(f, p.head) /\ p.resume # 0 /\ p.resume <= p.head
  /\ p.resume # 0 => p.watermark < p.resume /\ p.resume <= Len(f)
  /\ \A i \in Entries : IsDeposit(f, i) /\ i <= p.watermark => n[i] > 0
  /\ \A i \in Entries :
       IsDeposit(f, i) /\ p.head # 0 /\ p.resume <= i /\ i <= p.head => n[i] > 0

\* Whether page g, fetched at position p, answers for entry i.
Covers(g, p, i) ==
  /\ p.watermark < i /\ g.next <= i
  /\ IF p.resume # 0 THEN i < p.resume ELSE i <= g.newest

PageOK(g, p, f, n) ==
  /\ g.newest # 0 =>
       /\ Findable(f, g.newest) /\ g.next <= g.newest /\ p.watermark <= g.newest
       /\ p.resume # 0 => g.newest < p.resume
  /\ g.next # 0 =>
       /\ p.watermark < g.next /\ g.next <= Len(f)
       /\ p.resume # 0 => g.next < p.resume
  /\ \A i \in Entries : IsDeposit(f, i) /\ Covers(g, p, i) => i \in g.notes \/ n[i] > 0

\* A page's notes are of entries that no position before it answered for.
NotesOK(g, p) ==
  \A i \in g.notes :
    /\ p.watermark < i /\ g.next <= i /\ i <= g.newest
    /\ p.resume # 0 => i < p.resume

\* The transaction waited for is the page's, and a page to be saved is on chain.
TxOK ==
  /\ tx.status = "included" => \A i \in tx.notes : notes[i] > 0
  /\ pc = "Wait" => tx.notes = page.notes
  /\ pc = "Save" => \A i \in page.notes : notes[i] > 0
  /\ \A i \in minted : notes[i] > 0

\* Only deposits are ever sent.
SentOK ==
  /\ \A i \in page.notes : IsDeposit(feed, i)
  /\ \A i \in tx.notes : IsDeposit(feed, i)
  /\ \A t \in strays : \A i \in t.notes : IsDeposit(feed, i)

RelayerInv ==
  /\ TypeOK
  /\ Sound(file, feed, notes) /\ (file.resume # 0 => file.head # 0)
  /\ Sound(position, feed, notes)
  /\ pc \notin {"Down", "Sleep"} => file = State(position)
  /\ pc \in {"Check", "Submit", "Wait", "Save"} => PageOK(page, position, feed, notes)
  /\ TxOK /\ SentOK

Pages == [notes : SUBSET Entries, newest : 0 .. MaxEntries, next : 0 .. MaxEntries]

\* The feed and the chain only grow.
Later(f, n, ff, nn) ==
  /\ Len(f) <= Len(ff) /\ \A i \in 1 .. Len(f) : ff[i] = f[i]
  /\ \A i \in Entries : n[i] > 0 => nn[i] > 0

-----------------------------------------------------------------------------
(* Positions and pages as values *)

LEMMA SoundLater ==
  ASSUME NEW f \in Seq(Kinds), NEW ff \in Seq(Kinds), NEW n \in [Entries -> Nat],
         NEW nn \in [Entries -> Nat], Later(f, n, ff, nn),
         NEW p \in Positions, Sound(p, f, n)
  PROVE  Sound(p, ff, nn)
<1> USE RelayerAssumption
<1>1. p.watermark \in Nat /\ p.head \in Nat /\ p.resume \in Nat
  BY DEF Positions
<1>2. ASSUME NEW h \in Nat, h # 0, Findable(f, h)
      PROVE  Findable(ff, h) /\ \A i \in Entries : i <= h => f[i] = ff[i] /\ i <= Len(f)
  <2>1. h \in 1 .. Len(f) /\ h <= Len(ff) /\ Len(f) \in Nat
    BY <1>2 DEF Findable, Later
  <2> QED
    BY <1>2, <2>1 DEF Findable, Later, Entries
<1>3. p.resume <= Len(f) => p.resume <= Len(ff)
  BY <1>1 DEF Later
<1>4. ASSUME NEW i \in Entries, IsDeposit(ff, i), i <= p.watermark PROVE nn[i] > 0
  <2>1. p.watermark # 0
    BY <1>1, <1>4 DEF Entries
  <2>2. f[i] = ff[i] /\ i <= Len(f)
    BY <2>1, <1>1, <1>2, <1>4, Zenon DEF Sound
  <2> QED
    BY <2>2, <1>4 DEF Sound, IsDeposit, Later
<1>5. \A i \in Entries :
        IsDeposit(ff, i) /\ p.head # 0 /\ p.resume <= i /\ i <= p.head => nn[i] > 0
  BY <1>1, <1>2, Zenon DEF Sound, IsDeposit, Later, Entries
<1> QED
  BY <1>1, <1>2, <1>3, <1>4, <1>5 DEF Sound

LEMMA PageLater ==
  ASSUME NEW f \in Seq(Kinds), NEW ff \in Seq(Kinds), NEW n \in [Entries -> Nat],
         NEW nn \in [Entries -> Nat], Later(f, n, ff, nn),
         NEW p \in Positions, Sound(p, f, n), NEW g \in Pages, PageOK(g, p, f, n)
  PROVE  PageOK(g, p, ff, nn)
<1> USE RelayerAssumption
<1>1. p.watermark \in Nat /\ p.resume \in Nat /\ g.newest \in Nat /\ g.next \in Nat
  BY DEF Positions, Pages
<1>2. ASSUME NEW i \in Entries, Covers(g, p, i) PROVE i <= Len(f)
  BY <1>1, <1>2 DEF Covers, Sound, PageOK, Findable, Entries
<1>3. ASSUME NEW i \in Entries, i <= Len(f) PROVE ff[i] = f[i]
  BY <1>3 DEF Later, Entries
<1>4. g.newest # 0 => Findable(ff, g.newest)
  BY <1>1 DEF PageOK, Findable, Later
<1>5. g.next <= Len(f) => g.next <= Len(ff)
  BY <1>1 DEF Later
<1>6. \A i \in Entries : IsDeposit(ff, i) /\ Covers(g, p, i) => i \in g.notes \/ nn[i] > 0
  BY <1>2, <1>3 DEF PageOK, IsDeposit, Later
<1> QED
  BY <1>1, <1>4, <1>5, <1>6 DEF PageOK

\* Both ways a page is finished keep every claim: the walk goes on below it, ...
LEMMA WalkOn ==
  ASSUME NEW f \in Seq(Kinds), NEW n \in [Entries -> Nat], NEW p \in Positions, Sound(p, f, n),
         NEW g \in Pages, PageOK(g, p, f, n), \A i \in g.notes : n[i] > 0, g.next # 0,
         NEW q \in Positions, q.watermark = p.watermark, q.resume = g.next,
         q.head = IF p.head # 0 THEN p.head ELSE g.newest
  PROVE  Sound(q, f, n)
<1> USE RelayerAssumption
<1>1. /\ p.watermark \in Nat /\ p.resume \in Nat /\ p.head \in Nat
      /\ g.newest \in Nat /\ g.next \in Nat /\ Len(f) \in Nat
  BY DEF Positions, Pages
<1>2. q.head # 0 => Findable(f, q.head) /\ q.resume <= q.head
  BY <1>1 DEF Sound, PageOK
<1>3. ASSUME NEW i \in Entries, IsDeposit(f, i), q.head # 0, q.resume <= i, i <= q.head
      PROVE  n[i] > 0
  <2>1. i \in Nat /\ p.watermark < i /\ g.next <= i
    BY <1>1, <1>3 DEF PageOK, Entries
  <2>2. CASE Covers(g, p, i)
    BY <2>2, <1>3 DEF PageOK
  <2>3. CASE ~Covers(g, p, i)
    <3>1. p.head # 0 /\ p.resume <= i /\ i <= p.head
      BY <2>1, <2>3, <1>1, <1>3 DEF Covers, PageOK, Sound
    <3> QED
      BY <3>1, <1>3 DEF Sound
  <2> QED
    BY <2>2, <2>3
<1> QED
  BY <1>1, <1>2, <1>3 DEF Sound, PageOK

\* ... or ends with it, and the watermark takes the head.
LEMMA WalkEnds ==
  ASSUME NEW f \in Seq(Kinds), NEW n \in [Entries -> Nat], NEW p \in Positions, Sound(p, f, n),
         NEW g \in Pages, PageOK(g, p, f, n), \A i \in g.notes : n[i] > 0, g.next = 0,
         NEW h \in Nat, h = (IF p.head # 0 THEN p.head ELSE g.newest),
         NEW q \in Positions, q.head = 0, q.resume = 0,
         q.watermark = IF h # 0 THEN h ELSE p.watermark
  PROVE  Sound(q, f, n)
<1> USE RelayerAssumption
<1>1. /\ p.watermark \in Nat /\ p.resume \in Nat /\ p.head \in Nat
      /\ g.newest \in Nat /\ Len(f) \in Nat
  BY DEF Positions, Pages
<1>2. q.watermark # 0 => Findable(f, q.watermark)
  BY <1>1 DEF Sound, PageOK
<1>3. ASSUME NEW i \in Entries, IsDeposit(f, i), i <= q.watermark
      PROVE  n[i] > 0
  <2>1. i \in Nat /\ 0 < i
    BY DEF Entries
  <2>2. CASE i <= p.watermark
    BY <2>2, <1>3 DEF Sound
  <2>3. CASE ~(i <= p.watermark) /\ Covers(g, p, i)
    BY <2>3, <1>3 DEF PageOK
  <2>4. CASE ~(i <= p.watermark) /\ ~Covers(g, p, i)
    <3>1. p.head # 0 /\ p.resume <= i /\ i <= p.head
      BY <2>1, <2>4, <1>1, <1>3 DEF Covers, PageOK, Sound
    <3> QED
      BY <3>1, <1>3 DEF Sound
  <2> QED
    BY <2>2, <2>3, <2>4
<1> QED
  BY <1>1, <1>2, <1>3 DEF Sound

-----------------------------------------------------------------------------
(* The fetched page *)

\* A set of entries has a newest one.
LEMMA Greatest ==
  ASSUME NEW n \in Nat, NEW S \in SUBSET (1 .. n), S # {}
  PROVE  \E i \in S : \A j \in S : j <= i
<1> DEFINE D == {d \in Nat : n - d \in S}
<1>1. D \subseteq Nat
  OBVIOUS
<1>2. PICK s \in S : s \in 1 .. n
  BY Zenon
<1>3. n - s \in D
  BY <1>2
<1>4. PICK x \in D : \A y \in D : ~(<<y, x>> \in OpToRel(<, Nat))
  <2> HIDE DEF D
  <2> QED
    BY <1>1, <1>3, WFMin, NatLessThanWellFounded, Zenon
<1>5. \A y \in D : ~(y < x)
  BY <1>1, <1>4, Zenon DEF OpToRel
<1>6. ASSUME NEW j \in S PROVE j <= n - x
  <2>1. j \in 1 .. n /\ n - j \in D
    OBVIOUS
  <2>2. ~(n - j < x) /\ x \in Nat
    BY <2>1, <1>1, <1>4, <1>5
  <2> QED
    BY <2>1, <2>2
<1> QED
  BY <1>4, <1>6

LEMMA FetchedPage ==
  ASSUME TypeOK, Sound(position, feed, notes), FetchPage
  PROVE  page' \in Pages /\ PageOK(page', position, feed, notes)
         /\ (\A i \in page'.notes : IsDeposit(feed, i)) /\ NotesOK(page', position)
<1> DEFINE cursor == position.resume
           top == Top(cursor)
           hashes == {i \in OnPage(cursor) : Readable(i)}
           reached == position.watermark \in OnPage(cursor)
<1> USE RelayerAssumption
<1>1. /\ position.watermark \in Nat /\ cursor \in Nat /\ size \in Nat \ {0}
      /\ Len(feed) \in Nat /\ Len(feed) <= MaxEntries /\ MaxEntries \in Nat
  BY DEF TypeOK, Positions
<1>2. /\ top \in Nat /\ top <= Len(feed) /\ position.watermark <= top
      /\ cursor # 0 => top = cursor - 1
      /\ cursor = 0 => top = Len(feed)
  BY <1>1 DEF Sound, Findable, Top
<1>3. \A i : i \in OnPage(cursor) <=> i \in 1 .. top /\ i > top - size
  BY DEF OnPage
<1> HIDE DEF top
<1>4. hashes \in SUBSET (1 .. top)
  BY <1>3
<1>5. /\ Newest(cursor) = 0 => hashes = {}
      /\ Newest(cursor) # 0 => Newest(cursor) \in hashes /\ \A j \in hashes : j <= Newest(cursor)
  <2>1. CASE hashes = {}
    BY <2>1 DEF Newest
  <2>2. CASE hashes # {}
    <3>1. \E i \in hashes : \A j \in hashes : j <= i
      BY <2>2, <1>2, <1>4, Greatest, Zenon
    <3>2. Newest(cursor) \in hashes /\ \A j \in hashes : j <= Newest(cursor)
      BY <3>1, <2>2 DEF Newest
    <3>3. Newest(cursor) # 0
      BY <3>2, <1>2, <1>4
    <3> QED
      BY <3>2, <3>3
  <2> QED
    BY <2>1, <2>2
<1> DEFINE new == Newest(cursor)
           nxt == IF reached THEN 0 ELSE NextCursor(cursor)
           fresh == IF reached THEN {i \in OnPage(cursor) : i > position.watermark}
                    ELSE OnPage(cursor)
<1>6. page' = [notes |-> {i \in fresh : feed[i] = "ok"}, newest |-> new, next |-> nxt]
  BY DEF FetchPage
<1>7. new \in 0 .. top /\ (new # 0 => new \in OnPage(cursor) /\ Readable(new))
  BY <1>2, <1>4, <1>5
<1>8. \A j \in OnPage(cursor) : Readable(j) => j <= new /\ new # 0
  BY <1>2, <1>4, <1>5
<1> HIDE DEF new, hashes
<1>9. /\ nxt \in Nat
      /\ nxt # 0 => nxt = top - size + 1 /\ top > size /\ ~reached
      /\ nxt = 0 => reached \/ top <= size
  BY <1>1, <1>2 DEF NextCursor, top
<1> HIDE DEF nxt
<1>10. nxt # 0 => position.watermark < nxt
  BY <1>1, <1>2, <1>3, <1>9
<1>11. nxt <= top
  BY <1>1, <1>2, <1>9
<1>12. ASSUME new # 0 PROVE nxt <= new /\ position.watermark <= new
  <2>1. new \in 1 .. top /\ new > top - size
    BY <1>3, <1>7, <1>12
  <2>2. nxt <= new
    BY <2>1, <1>1, <1>2, <1>9
  <2>3. reached => position.watermark <= new
    <3>1. reached => position.watermark # 0
      BY <1>2, <1>3
    <3>2. reached => Readable(position.watermark)
      BY <3>1 DEF Sound, Findable, Readable
    <3> QED
      BY <3>2, <1>8
  <2>4. ~reached => position.watermark <= new
    BY <2>1, <1>1, <1>2, <1>3
  <2> QED
    BY <2>2, <2>3, <2>4
<1>13. \A i \in fresh : i \in 1 .. top
  BY <1>3
<1>19. ASSUME NEW i \in fresh, feed[i] = "ok"
       PROVE  /\ position.watermark < i /\ nxt <= i /\ i <= new
              /\ cursor # 0 => i < cursor
  <2>1. i \in OnPage(cursor) /\ i \in 1 .. top /\ i > top - size
    BY <1>3
  <2>2. i <= new
    BY <1>8, <1>19, <2>1 DEF Readable
  <2>3. position.watermark < i
    BY <1>1, <1>2, <1>3, <2>1
  <2> QED
    BY <1>1, <1>2, <1>9, <2>1, <2>2, <2>3
<1>14. ASSUME NEW i \in Entries, IsDeposit(feed, i), Covers(page', position, i)
       PROVE  i \in fresh
  <2>1. i \in Nat /\ i > 0 /\ i > position.watermark /\ nxt <= i
    BY <1>6, <1>14 DEF Covers, Entries
  <2>2. i <= top
    BY <2>1, <1>1, <1>2, <1>6, <1>7, <1>14 DEF Covers, IsDeposit
  <2>3. i > top - size
    BY <2>1, <2>2, <1>1, <1>2, <1>3, <1>9
  <2> QED
    BY <2>1, <2>2, <2>3, <1>2, <1>3
<1> HIDE DEF fresh, reached
<1>15. page' \in Pages
  <2>1. {i \in fresh : feed[i] = "ok"} \subseteq Entries
    BY <1>1, <1>2, <1>13 DEF Entries
  <2>2. new \in 0 .. MaxEntries /\ nxt \in 0 .. MaxEntries
    BY <1>1, <1>2, <1>7, <1>9, <1>11
  <2> QED
    BY <2>1, <2>2, <1>6 DEF Pages
<1>16. /\ new # 0 => Findable(feed, new) /\ (cursor # 0 => new < cursor)
       /\ nxt # 0 => nxt <= Len(feed) /\ (cursor # 0 => nxt < cursor)
  BY <1>1, <1>2, <1>7, <1>9, <1>11 DEF Findable, Readable
<1>17. PageOK(page', position, feed, notes)
  BY <1>6, <1>10, <1>12, <1>14, <1>16 DEF PageOK, IsDeposit
<1>18. \A i \in page'.notes : IsDeposit(feed, i)
  BY <1>1, <1>2, <1>6, <1>13 DEF IsDeposit
<1>20. NotesOK(page', position)
  BY <1>6, <1>19 DEF NotesOK
<1> QED
  BY <1>15, <1>17, <1>18, <1>20

-----------------------------------------------------------------------------
(* Types *)

LEMMA ResetTypes ==
  ASSUME TypeOK, NEW w \in {"Down", "Sleep"}, Between(w, NoPosition),
         UNCHANGED <<feed, file, notes, minted>>, size' \in Nat \ {0}, tracked' \subseteq Entries,
         strays' \subseteq [no : 1 .. MaxFaults, notes : SUBSET Entries, left : 0 .. ExpirationDelta],
         faults' \in 0 .. MaxFaults
  PROVE  TypeOK'
  BY RelayerAssumption
     DEF TypeOK, Between, NoPosition, NoPage, NoTx, Positions

\* The transaction given up joins the strays under a number no other has.
LEMMA AbandonTypes ==
  ASSUME TypeOK, Abandon, faults < MaxFaults \/ tx.left = 0
  PROVE  strays' \subseteq [no : 1 .. MaxFaults, notes : SUBSET Entries, left : 0 .. ExpirationDelta]
<1>1. CASE tx.left = 0
  BY <1>1 DEF TypeOK, Abandon
<1>2. CASE faults < MaxFaults
  <2>1. faults + 1 \in 1 .. MaxFaults
    BY <1>2, RelayerAssumption DEF TypeOK
  <2>2. tx.notes \in SUBSET Entries /\ tx.left \in 0 .. ExpirationDelta
    BY DEF TypeOK
  <2>3. [no |-> faults + 1, notes |-> tx.notes, left |-> tx.left]
          \in [no : 1 .. MaxFaults, notes : SUBSET Entries, left : 0 .. ExpirationDelta]
    BY <2>1, <2>2
  <2> QED
    BY <2>3 DEF TypeOK, Abandon
<1> QED
  BY <1>1, <1>2

LEMMA FaultTypes ==
  ASSUME TypeOK, NEW kind, Fault(kind)
  PROVE  faults < MaxFaults /\ faults' \in 0 .. MaxFaults
  BY RelayerAssumption DEF TypeOK, Fault

LEMMA ProcessTypes ==
  ASSUME TypeOK, Process PROVE TypeOK'
<1>1. CASE Start
  BY <1>1, ResetTypes, RelayerAssumption DEF Start, TypeOK
<1>2. CASE Stop
  BY <1>2, ResetTypes DEF Stop, TypeOK
<1>3. CASE Crash
  BY <1>3, ResetTypes, AbandonTypes, FaultTypes DEF Crash, TypeOK
<1>4. CASE FileLost
  <2>1. file' \in Positions
    BY <1>4, RelayerAssumption DEF FileLost, NoPosition, Positions
  <2>2. faults' \in 0 .. MaxFaults
    BY <1>4, FaultTypes DEF FileLost
  <2>3. UNCHANGED <<feed, pc, position, page, size, tracked, failed_syncs, tx, strays, notes, minted>>
    BY <1>4 DEF FileLost, relayerVars, chainVars
  <2> QED
    BY <2>1, <2>2, <2>3 DEF TypeOK
<1>5. CASE StartScan
  BY <1>5, RelayerAssumption DEF StartScan, TypeOK, Between, NoPage, NoTx
<1> QED
  BY <1>1, <1>2, <1>3, <1>4, <1>5 DEF Process

LEMMA SavedTypes ==
  ASSUME TypeOK PROVE SavedState \in Positions /\ NextPosition \in Positions
<1>1. HeadAfter(position) \in 0 .. MaxEntries /\ page.next \in 0 .. MaxEntries
  BY DEF TypeOK, Positions, HeadAfter
<1>2. NextPosition \in Positions
  BY <1>1, Zenon DEF TypeOK, Positions, NextPosition
<1>3. SavedState \in Positions
  BY <1>1, <1>2, RelayerAssumption, Zenon DEF TypeOK, Positions, SavedState, State, NoPosition
<1> QED
  BY <1>2, <1>3

LEMMA PageTypes ==
  ASSUME TypeOK, Sound(position, feed, notes), Page PROVE TypeOK'
<1> USE RelayerAssumption
<1>1. CASE FetchPage
  <2>1. page' \in Pages
    BY <1>1, FetchedPage
  <2> QED
    BY <1>1, <2>1 DEF FetchPage, TypeOK, Pages, chainVars
<1>2. CASE FetchFails
  BY <1>2, ResetTypes DEF FetchFails, PageFails, TypeOK
<1>3. CASE RetainUnminted
  BY <1>3, Zenon DEF RetainUnminted, TypeOK, chainVars
<1>4. CASE RetainFails
  BY <1>4, ResetTypes DEF RetainFails, PageFails, TypeOK
<1>5. CASE SubmitNotes
  BY <1>5 DEF SubmitNotes, TypeOK
<1>6. ASSUME NEW cause, SubmitFails(cause) PROVE TypeOK'
  <2>1. size' \in Nat \ {0}
    BY <1>6 DEF SubmitFails, TypeOK
  <2> QED
    BY <1>6, <2>1, ResetTypes DEF SubmitFails, PageFails, TypeOK
<1>7. CASE SubmitUnclear
  <2>1. faults < MaxFaults /\ faults' \in 0 .. MaxFaults
    BY <1>7, FaultTypes DEF SubmitUnclear
  <2>2. faults + 1 \in 1 .. MaxFaults /\ page.notes \in SUBSET Entries
        /\ ExpirationDelta \in 0 .. ExpirationDelta
    BY <2>1 DEF TypeOK
  <2>3. [no |-> faults + 1, notes |-> page.notes, left |-> ExpirationDelta]
          \in [no : 1 .. MaxFaults, notes : SUBSET Entries, left : 0 .. ExpirationDelta]
    BY <2>2
  <2> QED
    BY <1>7, <2>1, <2>3, ResetTypes, ZenonT(30) DEF SubmitUnclear, PageFails, TypeOK
<1>8. CASE SyncWaits
  BY <1>8 DEF SyncWaits, TypeOK, chainVars
<1>9. CASE SyncIncluded
  BY <1>9 DEF SyncIncluded, TypeOK, chainVars
<1>10. CASE SyncExpired
  <2>1. tx.left = 0
    BY <1>10 DEF SyncExpired, Inclusion
  <2> QED
    BY <1>10, <2>1, ResetTypes, AbandonTypes DEF SyncExpired, PageFails, TypeOK
<1>11. CASE SyncFails
  BY <1>11 DEF SyncFails, TypeOK, chainVars
<1>12. CASE GiveUp
  BY <1>12, ResetTypes, AbandonTypes, FaultTypes, ZenonT(30) DEF GiveUp, PageFails, TypeOK
<1>13. CASE FinishPage
  <2>1. file' \in Positions
    BY <1>13, SavedTypes DEF FinishPage, TypeOK
  <2>2. NoPosition \in Positions /\ NoPage \in Pages
    BY DEF NoPosition, NoPage, Positions, Pages
  <2>3. NoTx \in [status : {"none", "pending", "included"}, notes : SUBSET Entries,
                  left : 0 .. ExpirationDelta]
    BY DEF NoTx
  <2>4. /\ pc' \in {"Fetch", "Sleep"} /\ position' \in Positions
        /\ page' = NoPage /\ failed_syncs' = 0 /\ tx' = NoTx
    BY <1>13, <2>2, SavedTypes DEF FinishPage, Between
  <2> QED
    BY <1>13, <2>1, <2>2, <2>3, <2>4 DEF FinishPage, TypeOK, Pages
<1>14. CASE SaveFails
  BY <1>14, ResetTypes, FaultTypes, Zenon DEF SaveFails, PageFails, TypeOK
<1> QED
  BY <1>1, <1>2, <1>3, <1>4, <1>5, <1>6, <1>7, <1>8, <1>9, <1>10, <1>11, <1>12, <1>13, <1>14
     DEF Page

LEMMA ChainTypes ==
  ASSUME TypeOK, Chain \/ \E kind \in Kinds : Attest(kind) PROVE TypeOK'
<1> USE RelayerAssumption
<1>1. CASE TxLands
  <2>1. notes' \in [Entries -> Nat]
    BY <1>1 DEF TxLands, Create, TypeOK
  <2>2. tx' \in [status : {"none", "pending", "included"}, notes : SUBSET Entries,
                 left : 0 .. ExpirationDelta]
    BY <1>1, Zenon DEF TxLands, TypeOK
  <2> QED
    BY <1>1, <2>1, <2>2, Zenon DEF TxLands, TypeOK, relayerVars
<1>2. ASSUME NEW t \in strays, StrayLands(t) PROVE TypeOK'
  BY <1>2 DEF StrayLands, Create, TypeOK, relayerVars
<1>3. CASE BlockPasses
  <2> DEFINE Stray == [no : 1 .. MaxFaults, notes : SUBSET Entries, left : 0 .. ExpirationDelta]
  <2>1. ASSUME NEW t \in Stray, t.left > 1 PROVE [t EXCEPT !.left = @ - 1] \in Stray
    <3>1. t.left - 1 \in 0 .. ExpirationDelta
      BY <2>1
    <3> QED
      BY <3>1
  <2>2. strays' \subseteq Stray
    <3>1. strays \subseteq Stray /\ strays' = {[t EXCEPT !.left = @ - 1] : t \in {x \in strays : x.left > 1}}
      BY <1>3 DEF BlockPasses, TypeOK
    <3> HIDE DEF Stray
    <3> QED
      BY <3>1, <2>1
  <2>3. tx' \in [status : {"none", "pending", "included"}, notes : SUBSET Entries,
                 left : 0 .. ExpirationDelta]
    <3>1. (IF tx.left > 0 THEN tx.left - 1 ELSE 0) \in 0 .. ExpirationDelta
      BY DEF TypeOK
    <3> QED
      BY <1>3, <3>1, Zenon DEF BlockPasses, TypeOK
  <2> QED
    BY <1>3, <2>2, <2>3, Zenon DEF BlockPasses, TypeOK, relayerVars
<1>4. ASSUME NEW i \in Entries, FaucetMints(i) PROVE TypeOK'
  BY <1>4 DEF FaucetMints, TypeOK, relayerVars
<1>5. ASSUME NEW kind \in Kinds, Attest(kind) PROVE TypeOK'
  <2>1. feed' \in Seq(Kinds) /\ Len(feed') <= MaxEntries
    BY <1>5 DEF Attest, TypeOK
  <2> QED
    BY <1>5, <2>1 DEF Attest, TypeOK, relayerVars, chainVars
<1> QED
  BY <1>1, <1>2, <1>3, <1>4, <1>5 DEF Chain

-----------------------------------------------------------------------------
(* The inductive invariant *)

LEMMA NoPositionSound == ASSUME NEW f, NEW n PROVE Sound(NoPosition, f, n)
  BY DEF Sound, NoPosition, Entries

LEMMA RelayerInit == Init => RelayerInv
<1> SUFFICES ASSUME Init PROVE RelayerInv
  OBVIOUS
<1>1. TypeOK
  BY RelayerAssumption DEF Init, TypeOK, NoPosition, NoPage, NoTx, Positions
<1>2. TxOK /\ SentOK
  BY DEF Init, TxOK, SentOK, NoPage, NoTx
<1> QED
  BY <1>1, <1>2, NoPositionSound DEF Init, RelayerInv, NoPosition

\* Giving a page up for whatever reason leaves the file, and so the claims, alone.
LEMMA ResetStep ==
  ASSUME RelayerInv, TypeOK', NEW w \in {"Down", "Sleep"}, Between(w, NoPosition),
         UNCHANGED <<feed, file, notes, minted>>,
         \A t \in strays' : t \in strays \/ t.notes = tx.notes \/ t.notes = page.notes
  PROVE  RelayerInv'
<1>1. TxOK'
  BY DEF RelayerInv, TxOK, Between, NoTx
<1>2. SentOK'
  BY DEF RelayerInv, SentOK, Between, NoTx, NoPage
<1> QED
  BY <1>1, <1>2, NoPositionSound DEF RelayerInv, Between

LEMMA AbandonStep ==
  ASSUME Abandon PROVE \A t \in strays' : t \in strays \/ t.notes = tx.notes
  BY DEF Abandon

LEMMA ProcessStep ==
  ASSUME RelayerInv, Process PROVE RelayerInv'
<1>0. TypeOK'
  BY ProcessTypes DEF RelayerInv
<1>1. CASE Start
  BY <1>0, <1>1, ResetStep DEF Start
<1>2. CASE Stop
  BY <1>0, <1>2, ResetStep DEF Stop
<1>3. CASE Crash
  BY <1>0, <1>3, ResetStep, AbandonStep DEF Crash
<1>4. CASE FileLost
  <2>1. TxOK' /\ SentOK'
    BY <1>4 DEF FileLost, RelayerInv, TxOK, SentOK, relayerVars, chainVars
  <2> QED
    BY <1>0, <1>4, <2>1, NoPositionSound DEF FileLost, RelayerInv, relayerVars, chainVars,
       NoPosition
<1>5. CASE StartScan
  <2>1. TxOK' /\ SentOK'
    BY <1>5 DEF StartScan, RelayerInv, TxOK, SentOK, Between, NoTx, NoPage
  <2>2. State(file) = file
    <3>1. CASE file.resume # 0
      BY <3>1 DEF RelayerInv, State
    <3>2. CASE file.resume = 0
      <4>1. file.head = 0 /\ file \in Positions
        BY <3>2 DEF RelayerInv, Sound, TypeOK
      <4>2. file = [watermark |-> file.watermark, head |-> 0, resume |-> 0]
        BY <3>2, <4>1 DEF Positions
      <4> QED
        BY <3>2, <4>1, <4>2 DEF State, NoPosition
    <3> QED
      BY <3>1, <3>2
  <2> QED
    BY <1>0, <1>5, <2>1, <2>2 DEF StartScan, Between, RelayerInv, State
<1> QED
  BY <1>1, <1>2, <1>3, <1>4, <1>5 DEF Process

\* The chain and Circle only add to what the claims are about.
LEMMA LaterStep ==
  ASSUME RelayerInv, TypeOK', Later(feed, notes, feed', notes'),
         UNCHANGED <<file, relayerVars>>,
         tx'.notes = tx.notes, tx'.status = "included" => \A i \in tx.notes : notes'[i] > 0,
         \A t \in strays' : \E u \in strays : t.notes = u.notes,
         \A i \in minted' : notes'[i] > 0
  PROVE  RelayerInv'
<1> USE DEF RelayerInv
<1>1. /\ feed \in Seq(Kinds) /\ feed' \in Seq(Kinds) /\ notes \in [Entries -> Nat]
      /\ notes' \in [Entries -> Nat] /\ file \in Positions /\ position \in Positions /\ page \in Pages
  BY DEF TypeOK, Pages
<1>2. Sound(file, feed', notes') /\ Sound(position, feed', notes')
  BY <1>1, SoundLater, Zenon
<1>3. PageOK(page, position, feed, notes) => PageOK(page, position, feed', notes')
  BY <1>1, PageLater, Zenon
<1>4. TxOK'
  BY DEF TxOK, Later, relayerVars, TypeOK
<1>5. \A i \in Entries : IsDeposit(feed, i) => IsDeposit(feed', i)
  BY <1>1 DEF IsDeposit, Later, Entries
<1>6. SentOK'
  BY <1>5 DEF SentOK, relayerVars, TypeOK
<1> QED
  BY <1>2, <1>3, <1>4, <1>6 DEF relayerVars, State

LEMMA ChainStep ==
  ASSUME RelayerInv, Chain \/ \E kind \in Kinds : Attest(kind) PROVE RelayerInv'
<1> USE RelayerAssumption
<1>0. TypeOK /\ TypeOK'
  BY ChainTypes DEF RelayerInv
<1>1. ASSUME NEW S \in SUBSET Entries, Create(S)
      PROVE  (\A i \in Entries : notes[i] > 0 => notes'[i] > 0) /\ \A i \in S : notes'[i] > 0
  <2>1. \A i \in Entries : notes[i] \in Nat /\ notes'[i] = IF i \in S THEN notes[i] + 1 ELSE notes[i]
    BY <1>0, <1>1 DEF Create, TypeOK
  <2> QED
    BY <2>1
<1>2. feed' = feed /\ (\A i \in Entries : notes[i] > 0 => notes'[i] > 0) => Later(feed, notes, feed', notes')
  BY <1>0 DEF Later, TypeOK
<1>3. CASE TxLands
  <2>1. tx.notes \in SUBSET Entries /\ Create(tx.notes)
    BY <1>0, <1>3 DEF TxLands, TypeOK
  <2>2. \A i \in minted' : notes'[i] > 0
    BY <1>0, <1>1, <2>1, <1>3, Zenon DEF TxLands, RelayerInv, TxOK, TypeOK
  <2>3. UNCHANGED <<feed, file, relayerVars, strays>> /\ tx'.notes = tx.notes
    BY <1>0, <1>3 DEF TxLands, TypeOK
  <2> QED
    BY <1>0, <1>1, <1>2, <2>1, <2>2, <2>3, LaterStep
<1>4. ASSUME NEW t \in strays, StrayLands(t) PROVE RelayerInv'
  <2>1. t.notes \in SUBSET Entries /\ Create(t.notes)
    BY <1>0, <1>4 DEF StrayLands, TypeOK
  <2>2. /\ \A i \in minted' : notes'[i] > 0
        /\ tx'.status = "included" => \A i \in tx.notes : notes'[i] > 0
    BY <1>0, <1>1, <2>1, <1>4, Zenon DEF StrayLands, RelayerInv, TxOK, TypeOK
  <2>3. UNCHANGED <<feed, file, relayerVars, tx>> /\ strays' \subseteq strays
    BY <1>4 DEF StrayLands
  <2> QED
    BY <1>0, <1>1, <1>2, <2>1, <2>2, <2>3, LaterStep
<1>5. CASE BlockPasses
  <2>1. UNCHANGED <<feed, file, relayerVars, notes, minted>>
    BY <1>5 DEF BlockPasses
  <2>2. tx'.notes = tx.notes /\ tx'.status = tx.status
    BY <1>0, <1>5 DEF BlockPasses, TypeOK
  <2>3. ASSUME NEW t \in strays' PROVE \E u \in strays : t.notes = u.notes
    <3>1. PICK u \in strays : t = [u EXCEPT !.left = @ - 1]
      BY <1>5, <2>3 DEF BlockPasses
    <3>2. u \in [no : 1 .. MaxFaults, notes : SUBSET Entries, left : 0 .. ExpirationDelta]
      BY <1>0 DEF TypeOK
    <3> QED
      BY <3>1, <3>2
  <2>4. /\ \A i \in minted' : notes'[i] > 0
        /\ tx'.status = "included" => \A i \in tx.notes : notes'[i] > 0
    BY <2>1, <2>2 DEF RelayerInv, TxOK
  <2>5. Later(feed, notes, feed', notes')
    BY <1>2, <2>1
  <2> QED
    BY <1>0, <2>1, <2>2, <2>3, <2>4, <2>5, LaterStep
<1>6. ASSUME NEW i \in Entries, FaucetMints(i) PROVE RelayerInv'
  <2>1. UNCHANGED <<feed, file, relayerVars, tx, strays, notes>> /\ minted' = minted \cup {i} /\ notes[i] > 0
    BY <1>6 DEF FaucetMints
  <2>2. /\ \A j \in minted' : notes'[j] > 0
        /\ tx'.status = "included" => \A j \in tx.notes : notes'[j] > 0
    BY <2>1 DEF RelayerInv, TxOK
  <2>3. Later(feed, notes, feed', notes')
    BY <1>2, <2>1
  <2> QED
    BY <1>0, <2>1, <2>2, <2>3, LaterStep
<1>7. ASSUME NEW kind \in Kinds, Attest(kind) PROVE RelayerInv'
  <2>1. UNCHANGED <<file, relayerVars, tx, strays, notes, minted>> /\ feed' = Append(feed, kind)
    BY <1>7 DEF Attest, chainVars
  <2>2. /\ \A j \in minted' : notes'[j] > 0
        /\ tx'.status = "included" => \A j \in tx.notes : notes'[j] > 0
    BY <2>1 DEF RelayerInv, TxOK
  <2>3. Later(feed, notes, feed', notes')
    BY <1>0, <2>1 DEF Later, TypeOK
  <2> QED
    BY <1>0, <2>1, <2>2, <2>3, LaterStep
<1> QED
  BY <1>3, <1>4, <1>5, <1>6, <1>7 DEF Chain

\* A finished page's claims go to the file.
LEMMA FinishStep ==
  ASSUME RelayerInv, TypeOK', FinishPage PROVE RelayerInv'
<1>1. /\ feed \in Seq(Kinds) /\ notes \in [Entries -> Nat] /\ position \in Positions
      /\ file \in Positions /\ page \in Pages /\ file = State(position)
      /\ Sound(position, feed, notes) /\ PageOK(page, position, feed, notes)
      /\ \A i \in page.notes : notes[i] > 0
  BY DEF RelayerInv, TypeOK, Pages, TxOK, FinishPage
<1>2. file' = SavedState
  BY <1>1, ZenonT(30) DEF FinishPage
<1>3. SavedState \in Positions /\ NextPosition \in Positions
  BY SavedTypes DEF RelayerInv
<1>4. TxOK' /\ SentOK'
  BY DEF FinishPage, Between, RelayerInv, TxOK, SentOK, NoTx, NoPage
<1>5. CASE page.next # 0
  <2>1. /\ NextPosition.watermark = position.watermark /\ NextPosition.resume = page.next
        /\ NextPosition.head = IF position.head # 0 THEN position.head ELSE page.newest
    BY <1>1 DEF NextPosition, HeadAfter, Positions
  <2>2. Sound(NextPosition, feed, notes)
    BY <1>1, <1>3, <1>5, <2>1, WalkOn
  <2>3. file' = State(NextPosition)
    BY <1>2, <1>5 DEF SavedState
  <2>4. Sound(file', feed, notes) /\ (file'.resume # 0 => file'.head # 0)
    <3>1. CASE NextPosition.head # 0 /\ NextPosition.resume # 0
      BY <2>2, <2>3, <3>1 DEF State
    <3>2. CASE ~(NextPosition.head # 0 /\ NextPosition.resume # 0)
      <4>1. file' = [watermark |-> NextPosition.watermark, head |-> 0, resume |-> 0]
        BY <2>3, <3>2 DEF State, NoPosition
      <4> QED
        BY <2>2, <4>1 DEF Sound
    <3> QED
      BY <3>1, <3>2
  <2>5. position' = NextPosition /\ pc' = "Fetch" /\ UNCHANGED <<feed, notes>>
    BY <1>5 DEF FinishPage, Between
  <2> QED
    BY <1>4, <2>2, <2>3, <2>4, <2>5 DEF RelayerInv, State
<1>6. CASE page.next = 0
  <2> DEFINE h == IF position.head # 0 THEN position.head ELSE page.newest
  <2>1. file' = [watermark |-> IF h # 0 THEN h ELSE position.watermark, head |-> 0, resume |-> 0]
    BY <1>2, <1>6 DEF SavedState, HeadAfter, NoPosition
  <2>2. h \in Nat
    BY <1>1 DEF Positions, Pages
  <2>3. file'.watermark = (IF h # 0 THEN h ELSE position.watermark) /\ file'.head = 0 /\ file'.resume = 0
    BY <2>1
  <2>4. Sound(file', feed, notes)
    BY <1>1, <1>2, <1>3, <1>6, <2>2, <2>3, WalkEnds
  <2>5. position' = NoPosition /\ pc' = "Sleep" /\ UNCHANGED <<feed, notes>>
    BY <1>6 DEF FinishPage, Between
  <2> QED
    BY <1>4, <2>3, <2>4, <2>5, NoPositionSound DEF RelayerInv
<1> QED
  BY <1>5, <1>6

LEMMA PageStep ==
  ASSUME RelayerInv, Page PROVE RelayerInv'
<1>0. TypeOK'
  BY PageTypes DEF RelayerInv
<1>1. CASE FetchPage
  <2>1. PageOK(page', position, feed, notes) /\ \A i \in page'.notes : IsDeposit(feed, i)
    BY <1>1, FetchedPage DEF RelayerInv
  <2>2. UNCHANGED <<feed, file, position, chainVars>> /\ pc = "Fetch" /\ pc' = "Check"
    BY <1>1 DEF FetchPage
  <2>3. TxOK' /\ SentOK'
    BY <2>1, <2>2 DEF RelayerInv, TxOK, SentOK, chainVars
  <2> QED
    BY <1>0, <2>1, <2>2, <2>3 DEF RelayerInv, State, chainVars
<1>2. CASE FetchFails
  BY <1>0, <1>2, ResetStep DEF FetchFails, PageFails
<1>3. CASE RetainUnminted
  <2>1. /\ UNCHANGED <<feed, file, position, chainVars>> /\ pc = "Check"
        /\ pc' \in {"Save", "Submit"} /\ (pc' = "Save" => page'.notes = {})
    BY <1>3 DEF RetainUnminted
  <2>2. /\ page'.newest = page.newest /\ page'.next = page.next
        /\ page'.notes = page.notes \cap ((page.notes \cup tracked) \ minted)
    BY <1>3 DEF RetainUnminted, RelayerInv, TypeOK
  <2>3. \A i \in page.notes : i \in page'.notes \/ notes[i] > 0
    BY <2>2 DEF RelayerInv, TxOK
  <2>4. PageOK(page', position, feed, notes)
    BY <2>1, <2>2, <2>3 DEF RelayerInv, PageOK, Covers
  <2>5. TxOK' /\ SentOK'
    BY <2>1, <2>2 DEF RelayerInv, TxOK, SentOK, chainVars
  <2> QED
    BY <1>0, <2>1, <2>4, <2>5 DEF RelayerInv, State, chainVars
<1>4. CASE RetainFails
  BY <1>0, <1>4, ResetStep DEF RetainFails, PageFails
<1>5. CASE SubmitNotes
  <2>1. TxOK' /\ SentOK'
    BY <1>5 DEF SubmitNotes, RelayerInv, TxOK, SentOK
  <2> QED
    BY <1>0, <1>5, <2>1 DEF SubmitNotes, RelayerInv, State
<1>6. ASSUME NEW cause, SubmitFails(cause) PROVE RelayerInv'
  BY <1>0, <1>6, ResetStep DEF SubmitFails, PageFails
<1>7. CASE SubmitUnclear
  <2>1. \A t \in strays' : t \in strays \/ t.notes = page.notes
    BY <1>7 DEF SubmitUnclear
  <2> QED
    BY <1>0, <1>7, <2>1, ResetStep DEF SubmitUnclear, PageFails
<1>8. CASE SyncWaits \/ SyncFails
  <2>1. UNCHANGED <<feed, file, pc, position, page, chainVars>>
    BY <1>8 DEF SyncWaits, SyncFails
  <2>2. TxOK' /\ SentOK'
    BY <2>1 DEF RelayerInv, TxOK, SentOK, chainVars
  <2> QED
    BY <1>0, <2>1, <2>2 DEF RelayerInv, State, chainVars
<1>9. CASE SyncIncluded
  <2>1. UNCHANGED <<feed, file, position, page, chainVars>> /\ pc = "Wait" /\ pc' = "Save"
    BY <1>9 DEF SyncIncluded
  <2>2. tx.status = "included"
    BY <1>9 DEF SyncIncluded, Inclusion
  <2>3. TxOK' /\ SentOK'
    BY <2>1, <2>2 DEF RelayerInv, TxOK, SentOK, chainVars
  <2> QED
    BY <1>0, <2>1, <2>3 DEF RelayerInv, State, chainVars
<1>10. CASE SyncExpired
  BY <1>0, <1>10, ResetStep, AbandonStep DEF SyncExpired, PageFails
<1>11. CASE GiveUp
  BY <1>0, <1>11, ResetStep, AbandonStep DEF GiveUp, PageFails
<1>12. CASE FinishPage
  BY <1>0, <1>12, FinishStep
<1>13. CASE SaveFails
  BY <1>0, <1>13, ResetStep DEF SaveFails, PageFails
<1> QED
  BY <1>1, <1>2, <1>3, <1>4, <1>5, <1>6, <1>7, <1>8, <1>9, <1>10, <1>11, <1>12, <1>13 DEF Page

LEMMA RelayerStep == RelayerInv /\ [Next]_vars => RelayerInv'
<1> SUFFICES ASSUME RelayerInv, [Next]_vars PROVE RelayerInv'
  OBVIOUS
<1>1. CASE UNCHANGED vars
  BY <1>1 DEF vars, relayerVars, chainVars, RelayerInv, TypeOK, TxOK, SentOK, State
<1> QED
  BY <1>1, ProcessStep, PageStep, ChainStep DEF Next

LEMMA RelayerAlways == Spec => []RelayerInv
  BY RelayerInit, RelayerStep, PTL DEF Spec

-----------------------------------------------------------------------------
(* Theorems *)

\* The loop's position, page and counters keep their types (Position, Unminted).
THEOREM RelayerTypes == Spec => []TypeOK
<1>1. RelayerInv => TypeOK
  BY DEF RelayerInv
<1> QED
  BY <1>1, RelayerAlways, PTL

\* Every deposit the state file counts as handled has its mint note on chain: up to the
\* watermark, and between the resume cursor and the head of an unfinished scan (finish_page).
THEOREM NoDepositSkipped == Spec => []NothingSkipped
<1>1. RelayerInv => NothingSkipped
  <2> SUFFICES ASSUME RelayerInv PROVE NothingSkipped
    OBVIOUS
  <2> QED
    BY DEF RelayerInv, Sound, IsDeposit, NothingSkipped, Deposit, OnChain
<1> QED
  BY <1>1, RelayerAlways, PTL

\* The file describes one run of the feed above the watermark whose ends can be found again
\* (Position::state, finish_page).
THEOREM ContiguousProgress == Spec => []ProgressIsContiguous
<1>1. RelayerInv => ProgressIsContiguous
  BY DEF RelayerInv, Sound, Findable, ProgressIsContiguous, Readable
<1> QED
  BY <1>1, RelayerAlways, PTL

\* Only finish_page writes the file, and what it writes is ahead of what is there.
LEMMA FileStep ==
  ASSUME RelayerInv, [Next]_vars, file' # file
  PROVE  FileLost \/ FinishPage
  BY DEF Next, vars, Process, Start, Stop, Crash, StartScan, Page, FetchPage, FetchFails,
         RetainUnminted, RetainFails, SubmitNotes, SubmitFails, SubmitUnclear, SyncWaits,
         SyncIncluded, SyncExpired, SyncFails, GiveUp, SaveFails, Chain, TxLands, StrayLands,
         BlockPasses, FaucetMints, Attest

LEMMA FinishMovesOn ==
  ASSUME RelayerInv, FinishPage, file' # file
  PROVE  \/ file'.watermark > file.watermark /\ file'.head = 0
         \/ /\ file'.watermark = file.watermark
            /\ file.head = 0 \/ (file'.head = file.head /\ file'.resume < file.resume)
<1>1. /\ position \in Positions /\ page \in Pages /\ file = State(position)
      /\ Sound(position, feed, notes) /\ PageOK(page, position, feed, notes)
  BY DEF RelayerInv, TypeOK, Pages, FinishPage
<1>2. /\ position.watermark \in Nat /\ position.head \in Nat /\ position.resume \in Nat
      /\ page.newest \in Nat /\ page.next \in Nat
  BY <1>1 DEF Positions, Pages
<1>3. file' = SavedState
  BY <1>1 DEF FinishPage
<1>4. \/ file = position /\ position.head # 0 /\ position.resume # 0
      \/ file = [watermark |-> position.watermark, head |-> 0, resume |-> 0] /\ position.head = 0
  BY <1>1 DEF State, NoPosition, Sound
<1>5. CASE page.next # 0
  <2>1. /\ NextPosition.watermark = position.watermark /\ NextPosition.resume = page.next
        /\ NextPosition.head = IF position.head # 0 THEN position.head ELSE page.newest
    BY <1>1 DEF NextPosition, HeadAfter, Positions
  <2>2. file'.watermark = position.watermark
    BY <1>3, <1>5, <2>1 DEF SavedState, State, NoPosition
  <2>3. position.head # 0 => file' = NextPosition
    BY <1>3, <1>5, <2>1 DEF SavedState, State
  <2> QED
    BY <1>1, <1>2, <1>4, <1>5, <2>1, <2>2, <2>3 DEF PageOK
<1>6. CASE page.next = 0
  <2> DEFINE h == IF position.head # 0 THEN position.head ELSE page.newest
  <2>1. file' = [watermark |-> IF h # 0 THEN h ELSE position.watermark, head |-> 0, resume |-> 0]
    BY <1>3, <1>6 DEF SavedState, HeadAfter, NoPosition
  <2>2. file'.head = 0 /\ file'.watermark = (IF h # 0 THEN h ELSE position.watermark)
    BY <2>1
  <2>3. CASE position.head # 0
    BY <1>1, <1>2, <1>4, <2>2, <2>3 DEF Sound
  <2>4. CASE position.head = 0
    <3>1. page.newest # 0 /\ page.newest # position.watermark
      BY <1>4, <2>1, <2>4
    <3>2. position.watermark < page.newest
      BY <1>1, <1>2, <3>1 DEF PageOK
    <3> QED
      BY <1>4, <2>2, <2>4, <3>1, <3>2
  <2> QED
    BY <2>3, <2>4
<1> QED
  BY <1>5, <1>6

\* Saved progress only moves on: a larger watermark, or the same scan further down; only
\* losing the file undoes it (finish_page).
THEOREM MovesOn == Spec => ProgressMovesOn
<1>1. RelayerInv /\ [Next]_vars =>
        [file' # file =>
           \/ file'.watermark > file.watermark /\ file'.head = 0
           \/ /\ file'.watermark = file.watermark
              /\ file.head = 0 \/ (file'.head = file.head /\ file'.resume < file.resume)
           \/ FileLost]_vars
  <2> SUFFICES ASSUME RelayerInv, [Next]_vars, file' # file
               PROVE  \/ file'.watermark > file.watermark /\ file'.head = 0
                      \/ /\ file'.watermark = file.watermark
                         /\ file.head = 0 \/ (file'.head = file.head /\ file'.resume < file.resume)
                      \/ FileLost
    BY DEF vars
  <2> QED
    BY FileStep, FinishMovesOn
<1> QED
  BY <1>1, RelayerAlways, PTL DEF Spec, ProgressMovesOn

\* A deposit put on chain stays in the list operators are alerted from until the faucet minted
\* it or the process stops (Unminted::submitted, Unminted::retain).
THEOREM AlertsStay == Spec => TrackedUntilMinted
<1>1. [Next]_vars => [\A i \in tracked : i \in tracked' \/ i \in minted \/ pc' = "Down"]_vars
  <2> SUFFICES ASSUME Next, NEW i \in tracked
               PROVE  i \in tracked' \/ i \in minted \/ pc' = "Down"
    OBVIOUS
  <2>1. CASE Process
    BY <2>1 DEF Process, Start, Stop, Crash, FileLost, StartScan, Between, relayerVars
  <2>2. CASE Page
    BY <2>2 DEF Page, FetchPage, FetchFails, RetainUnminted, RetainFails, SubmitNotes, SubmitFails,
       SubmitUnclear, SyncWaits, SyncIncluded, SyncExpired, SyncFails, GiveUp, FinishPage, SaveFails
  <2>3. CASE Chain \/ \E kind \in Kinds : Attest(kind)
    BY <2>3 DEF Chain, TxLands, StrayLands, BlockPasses, FaucetMints, Attest, relayerVars
  <2> QED
    BY <2>1, <2>2, <2>3 DEF Next
<1> QED
  BY <1>1, PTL DEF Spec, TrackedUntilMinted

-----------------------------------------------------------------------------
(* The relayer implements the courier *)

Deposits == {i \in Entries : Deposit(i)}

Delivered == {i \in Entries : OnChain(i)}

\* Creating the notes of a set of deposits delivers it.
LEMMA CreateDelivers ==
  ASSUME TypeOK, NEW S \in SUBSET Deposits, Create(S), UNCHANGED <<feed, file, minted>>
  PROVE  Courier!Next
<1>1. \A i \in Entries : notes[i] \in Nat /\ notes'[i] = IF i \in S THEN notes[i] + 1 ELSE notes[i]
  BY DEF TypeOK, Create
<1>2. Delivered' = Delivered \cup S
  BY <1>1 DEF Delivered, OnChain, Deposits
<1>3. Courier!Deliver(S)
  BY <1>2 DEF Courier!Deliver, Delivered, Deposit
<1> QED
  BY <1>3 DEF Courier!Next, Deposits

LEMMA CourierStep ==
  ASSUME RelayerInv, [Next]_vars PROVE [Courier!Next]_(Courier!vars)
<1> USE RelayerAssumption
<1>0. TypeOK /\ SentOK /\ Sound(file, feed, notes)
  BY DEF RelayerInv
<1>1. UNCHANGED <<feed, file, notes, minted>> => UNCHANGED Courier!vars
  BY DEF Courier!vars, Deposit, OnChain
<1>2. CASE Process /\ ~FileLost
  BY <1>1, <1>2 DEF Process, Start, Stop, Crash, StartScan
<1>3. CASE FileLost
  <2>1. UNCHANGED <<feed, notes, minted>> /\ file'.watermark = 0
    BY <1>3 DEF FileLost, relayerVars, chainVars, NoPosition
  <2>2. Courier!Forget
    BY <2>1 DEF Courier!Forget, Deposit, OnChain
  <2> QED
    BY <2>2 DEF Courier!Next
<1>4. CASE Page /\ ~FinishPage
  BY <1>1, <1>4 DEF Page, FetchPage, FetchFails, RetainUnminted, RetainFails, SubmitNotes,
                    SubmitFails, SubmitUnclear, SyncWaits, SyncIncluded, SyncExpired, SyncFails,
                    GiveUp, SaveFails, chainVars
<1>5. CASE FinishPage
  <2>1. UNCHANGED <<feed, notes, minted>>
    BY <1>5 DEF FinishPage
  <2>2. CASE file'.watermark = file.watermark
    BY <2>1, <2>2 DEF Courier!vars, Deposit, OnChain
  <2>3. CASE file'.watermark # file.watermark
    <3>1. RelayerInv'
      BY RelayerStep
    <3>2. file'.watermark > file.watermark
      BY <1>5, <2>3, FinishMovesOn
    <3>3. file'.watermark \in Entries /\ file.watermark \in Nat
      <4>1. file \in Positions /\ file' \in Positions
        BY <1>0, <3>1 DEF RelayerInv, TypeOK
      <4>2. file.watermark \in 0 .. MaxEntries /\ file'.watermark \in 0 .. MaxEntries
        BY <4>1 DEF Positions
      <4> QED
        BY <3>2, <4>2 DEF Entries
    <3>4. \A d \in Deposits : d <= file'.watermark => d \in Delivered
      BY <2>1, <3>1 DEF RelayerInv, Sound, Deposits, Deposit, IsDeposit, Delivered, OnChain
    <3>5. Courier!Handle(file'.watermark)
      BY <2>1, <3>2, <3>4 DEF Courier!Handle, Deposits, Delivered, Deposit, OnChain
    <3> QED
      BY <3>3, <3>5 DEF Courier!Next
  <2> QED
    BY <2>2, <2>3
<1>6. CASE TxLands
  <2>1. tx.notes \in SUBSET Deposits /\ Create(tx.notes) /\ UNCHANGED <<feed, file, minted>>
    BY <1>0, <1>6 DEF TxLands, SentOK, TypeOK, Deposits, Deposit, IsDeposit
  <2> QED
    BY <1>0, <2>1, CreateDelivers, Zenon
<1>7. ASSUME NEW t \in strays, StrayLands(t) PROVE Courier!Next
  <2>1. t.notes \in SUBSET Deposits /\ Create(t.notes) /\ UNCHANGED <<feed, file, minted>>
    BY <1>0, <1>7 DEF StrayLands, SentOK, TypeOK, Deposits, Deposit, IsDeposit
  <2> QED
    BY <1>0, <2>1, CreateDelivers
<1>8. CASE BlockPasses
  BY <1>1, <1>8 DEF BlockPasses
<1>9. ASSUME NEW i \in Entries, FaucetMints(i) PROVE Courier!Next
  <2>1. Courier!Mint(i)
    BY <1>9 DEF FaucetMints, Courier!Mint, Deposit, OnChain
  <2> QED
    BY <2>1 DEF Courier!Next
<1>10. ASSUME NEW kind \in Kinds, Attest(kind) PROVE [Courier!Next]_(Courier!vars)
  <2> DEFINE e == Len(feed) + 1
  <2>1. /\ UNCHANGED <<file, notes, minted>> /\ e \in Entries
        /\ Len(feed') = e /\ feed'[e] = kind /\ \A i \in 1 .. Len(feed) : feed'[i] = feed[i]
    BY <1>0, <1>10 DEF Attest, TypeOK, Entries, chainVars
  <2>2. Deposits' = IF kind = "ok" THEN Deposits \cup {e} ELSE Deposits
    <3>1. ASSUME NEW i \in Entries
          PROVE  Deposit(i)' <=> Deposit(i) \/ (i = e /\ kind = "ok")
      <4>1. Len(feed) \in Nat /\ i \in Nat /\ i > 0
        BY <1>0 DEF TypeOK, Entries
      <4>2. CASE i <= Len(feed)
        BY <2>1, <4>1, <4>2 DEF Deposit
      <4>3. CASE i = e
        BY <2>1, <4>1, <4>3 DEF Deposit
      <4>4. CASE i > e
        BY <2>1, <4>1, <4>4 DEF Deposit
      <4> QED
        BY <4>1, <4>2, <4>3, <4>4
    <3> QED
      BY <2>1, <3>1 DEF Deposits
  <2>3. e > file.watermark
    BY <1>0 DEF Sound, Findable, TypeOK, Positions
  <2>4. CASE kind = "ok"
    <3>1. Courier!Attest(e)
      BY <2>1, <2>2, <2>3, <2>4 DEF Courier!Attest, Deposits, OnChain
    <3> QED
      BY <2>1, <3>1 DEF Courier!Next
  <2>5. CASE kind # "ok"
    BY <2>1, <2>2, <2>5 DEF Courier!vars, Deposits, OnChain
  <2> QED
    BY <2>4, <2>5
<1>11. CASE UNCHANGED vars
  BY <1>1, <1>11 DEF vars, chainVars
<1> QED
  BY <1>2, <1>3, <1>4, <1>5, <1>6, <1>7, <1>8, <1>9, <1>10, <1>11 DEF Next, Chain

\* Whatever happens to pages, transactions and the process, the relayer counts a deposit as
\* handled only once its mint note is on chain (DepositCourier).
THEOREM KeepsThePromise == Spec => ImplementsCourier
<1>1. Init => Courier!Init
  BY DEF Init, Courier!Init, Deposit, OnChain, NoPosition, Entries
<1>2. RelayerInv /\ [Next]_vars => [Courier!Next]_(Courier!vars)
  BY CourierStep
<1> QED
  BY <1>1, <1>2, RelayerAlways, PTL DEF Spec, ImplementsCourier, Courier!Spec

-----------------------------------------------------------------------------
(* Notes counted against faults *)

\* The faults that left a transaction with entry i among the strays S.
Nos(S, i) == {k \in 1 .. MaxFaults : \E t \in S : t.no = k /\ i \in t.notes}

\* What a position answers for, and what needs no second note.
Handled(p, i) == i <= p.watermark \/ (p.head # 0 /\ p.resume <= i /\ i <= p.head)

Settled(i) == Handled(file, i) \/ (tx.status = "included" /\ i \in tx.notes)

Counted ==
  \A i \in Entries :
    notes[i] + Cardinality(Nos(strays, i)) <= faults + IF Settled(i) THEN 1 ELSE 0

Numbered ==
  /\ \A t \in strays : t.no <= faults
  /\ \A s \in strays, t \in strays : s.no = t.no => s = t

Phases ==
  /\ pc \in {"Check", "Submit", "Wait", "Save"} => NotesOK(page, position)
  /\ tx.status = "pending" => pc = "Wait"
  /\ tx.status = "included" => pc \in {"Wait", "Save"} /\ tx.notes \subseteq page.notes

CountInv == RelayerInv /\ Phases /\ Numbered /\ Counted

INSTANCE FiniteSetTheorems

LEMMA NosFinite ==
  ASSUME NEW S, NEW i PROVE IsFiniteSet(Nos(S, i)) /\ Cardinality(Nos(S, i)) \in Nat
<1>1. IsFiniteSet(1 .. MaxFaults)
  BY FS_Interval, RelayerAssumption
<1>2. Nos(S, i) \in SUBSET (1 .. MaxFaults)
  BY DEF Nos
<1> QED
  BY <1>1, <1>2, FS_Subset, FS_CardinalityType, Zenon

LEMMA NosFewer ==
  ASSUME NEW S, NEW T, NEW i,
         \A t \in T : i \in t.notes => \E s \in S : s.no = t.no /\ i \in s.notes
  PROVE  Cardinality(Nos(T, i)) <= Cardinality(Nos(S, i))
<1>1. Nos(T, i) \in SUBSET Nos(S, i)
  BY DEF Nos
<1> QED
  BY <1>1, NosFinite, FS_Subset

LEMMA NosAdded ==
  ASSUME NEW S, NEW T, NEW i, NEW k, \A t \in T : t \in S \/ t.no = k
  PROVE  Cardinality(Nos(T, i)) <= Cardinality(Nos(S, i)) + 1
<1>1. Nos(T, i) \in SUBSET (Nos(S, i) \cup {k})
  BY DEF Nos
<1>2. IsFiniteSet(Nos(S, i) \cup {k}) /\ Cardinality(Nos(S, i) \cup {k}) <= Cardinality(Nos(S, i)) + 1
  BY NosFinite, FS_AddElement
<1>3. Cardinality(Nos(T, i)) <= Cardinality(Nos(S, i) \cup {k})
  BY <1>1, <1>2, FS_Subset
<1> QED
  BY <1>2, <1>3, NosFinite, FS_CardinalityType

LEMMA NosRemoved ==
  ASSUME NEW S, NEW t \in S, t.no \in 1 .. MaxFaults, NEW i, i \in t.notes,
         \A s \in S : s.no = t.no => s = t
  PROVE  Cardinality(Nos(S \ {t}, i)) + 1 <= Cardinality(Nos(S, i))
<1>1. t.no \in Nos(S, i)
  BY DEF Nos
<1>2. Nos(S \ {t}, i) \in SUBSET (Nos(S, i) \ {t.no})
  BY DEF Nos
<1>3. /\ IsFiniteSet(Nos(S, i) \ {t.no})
      /\ Cardinality(Nos(S, i) \ {t.no}) = Cardinality(Nos(S, i)) - 1
  BY <1>1, NosFinite, FS_RemoveElement
<1>4. Cardinality(Nos(S \ {t}, i)) <= Cardinality(Nos(S, i) \ {t.no})
  BY <1>2, <1>3, FS_Subset, Zenon
<1> QED
  BY <1>3, <1>4, NosFinite

\* A fault allows one more note of what its transaction carried and of what was settled.
LEMMA FaultCounts ==
  ASSUME CountInv, TypeOK', faults' = faults + 1, notes' = notes, NEW X,
         \A t \in strays' : t \in strays \/ (t.no = faults + 1 /\ t.notes = X),
         \A s \in strays', t \in strays' : s \notin strays /\ t \notin strays => s = t,
         \A i \in X : ~Settled(i)
  PROVE  Numbered' /\ Counted'
<1>1. faults \in Nat /\ notes \in [Entries -> Nat] /\ \A t \in strays : t.no \in Nat
  BY RelayerAssumption DEF CountInv, RelayerInv, TypeOK
<1>2. Numbered'
  BY <1>1 DEF CountInv, Numbered
<1>3. ASSUME NEW i \in Entries
      PROVE  notes'[i] + Cardinality(Nos(strays', i)) <= faults'
  <2>1. notes[i] \in Nat /\ Cardinality(Nos(strays, i)) \in Nat
        /\ Cardinality(Nos(strays', i)) \in Nat
    BY <1>1, NosFinite
  <2>2. notes[i] + Cardinality(Nos(strays, i)) <= faults + IF Settled(i) THEN 1 ELSE 0
    BY DEF CountInv, Counted
  <2>3. CASE i \in X
    <3>1. Cardinality(Nos(strays', i)) <= Cardinality(Nos(strays, i)) + 1
      BY NosAdded, Zenon
    <3> QED
      BY <1>1, <2>1, <2>2, <2>3, <3>1
  <2>4. CASE i \notin X
    <3>1. Cardinality(Nos(strays', i)) <= Cardinality(Nos(strays, i))
      BY <2>4, NosFewer
    <3> QED
      BY <1>1, <2>1, <2>2, <3>1
  <2> QED
    BY <2>3, <2>4
<1>4. Counted'
  <2>1. \A i \in Entries : notes'[i] \in Nat /\ Cardinality(Nos(strays', i)) \in Nat
    BY <1>1, NosFinite
  <2> QED
    BY <1>1, <1>3, <2>1 DEF Counted
<1> QED
  BY <1>2, <1>4

\* A step without a fault may drop strays and settle entries, nothing else.
LEMMA QuietCounts ==
  ASSUME CountInv, TypeOK', UNCHANGED <<faults, notes>>,
         \A t \in strays' : \E s \in strays : s.no = t.no /\ s.notes = t.notes,
         \A i \in Entries : Settled(i) => Settled(i)'
  PROVE  Counted'
<1>1. faults \in Nat /\ notes \in [Entries -> Nat]
  BY RelayerAssumption DEF CountInv, RelayerInv, TypeOK
<1>2. ASSUME NEW i \in Entries
      PROVE  notes'[i] + Cardinality(Nos(strays', i)) <= faults' + IF Settled(i)' THEN 1 ELSE 0
  <2>1. notes[i] \in Nat /\ Cardinality(Nos(strays, i)) \in Nat
        /\ Cardinality(Nos(strays', i)) \in Nat
    BY <1>1, NosFinite
  <2>2. notes[i] + Cardinality(Nos(strays, i)) <= faults + IF Settled(i) THEN 1 ELSE 0
    BY DEF CountInv, Counted
  <2>3. Cardinality(Nos(strays', i)) <= Cardinality(Nos(strays, i))
    BY NosFewer
  <2> QED
    BY <1>1, <2>1, <2>2, <2>3
<1> QED
  BY <1>2 DEF Counted

\* What a page carries is not settled before it lands.
LEMMA PageIsFresh ==
  ASSUME CountInv, pc \in {"Check", "Submit", "Wait", "Save"}, tx.status # "included"
  PROVE  \A i \in page.notes : ~Settled(i)
<1>1. file = State(position) /\ Sound(position, feed, notes) /\ NotesOK(page, position)
      /\ position \in Positions /\ page \in Pages
  BY DEF CountInv, RelayerInv, Phases, TypeOK, Pages
<1>2. ASSUME NEW i \in page.notes PROVE ~Handled(file, i)
  <2>1. i \in Nat /\ i > 0 /\ position.watermark \in Nat /\ position.head \in Nat
        /\ position.resume \in Nat
    BY <1>1, RelayerAssumption DEF Pages, Positions, Entries
  <2>2. position.watermark < i /\ (position.resume # 0 => i < position.resume)
    BY <1>1 DEF NotesOK
  <2>3. \/ file = position /\ position.head # 0 /\ position.resume # 0
        \/ file.watermark = position.watermark /\ file.head = 0
    BY <1>1 DEF State, NoPosition
  <2> QED
    BY <2>1, <2>2, <2>3 DEF Handled
<1> QED
  BY <1>2 DEF Settled

\* A transaction given up was not settled.
LEMMA AbandonCounts ==
  ASSUME CountInv, TypeOK', Abandon, faults' = faults + 1, notes' = notes
  PROVE  Numbered' /\ Counted'
<1>1. CASE tx.status = "pending" /\ tx.left > 0
  <2>1. pc = "Wait" /\ tx.notes = page.notes
    BY <1>1 DEF CountInv, Phases, RelayerInv, TxOK
  <2>2. \A i \in tx.notes : ~Settled(i)
    BY <1>1, <2>1, PageIsFresh
  <2>3. strays' = strays \cup {[no |-> faults + 1, notes |-> tx.notes, left |-> tx.left]}
    BY <1>1 DEF Abandon
  <2>4. \A t \in strays' : t \in strays \/ (t.no = faults + 1 /\ t.notes = tx.notes)
    BY <2>3
  <2>5. \A s \in strays', t \in strays' : s \notin strays /\ t \notin strays => s = t
    BY <2>3
  <2> QED
    BY <2>2, <2>4, <2>5, FaultCounts
<1>2. CASE ~(tx.status = "pending" /\ tx.left > 0)
  <2> DEFINE X == {}
  <2>1. strays' = strays /\ \A i \in X : ~Settled(i)
    BY <1>2 DEF Abandon
  <2> HIDE DEF X
  <2> QED
    BY <2>1, FaultCounts
<1> QED
  BY <1>1, <1>2

\* A finished page leaves everything handled that was, and its own entries too.
LEMMA FinishSettles ==
  ASSUME CountInv, FinishPage, NEW i \in Entries, Settled(i) PROVE Handled(file', i)
<1>1. /\ position \in Positions /\ page \in Pages /\ file = State(position)
      /\ Sound(position, feed, notes) /\ PageOK(page, position, feed, notes)
      /\ NotesOK(page, position)
  BY DEF CountInv, RelayerInv, Phases, TypeOK, Pages, FinishPage
<1>2. /\ position.watermark \in Nat /\ position.head \in Nat /\ position.resume \in Nat
      /\ page.newest \in Nat /\ page.next \in Nat /\ i \in Nat /\ i > 0
  BY <1>1 DEF Positions, Pages, Entries
<1>3. file' = SavedState
  BY <1>1 DEF FinishPage
<1>4. \/ file = position /\ position.head # 0 /\ position.resume # 0
      \/ file = [watermark |-> position.watermark, head |-> 0, resume |-> 0] /\ position.head = 0
  BY <1>1 DEF State, NoPosition, Sound
<1>5. \/ i <= position.watermark
      \/ position.head # 0 /\ position.resume <= i /\ i <= position.head
      \/ i \in page.notes
  BY <1>4 DEF Settled, Handled, CountInv, Phases
<1>6. i \in page.notes =>
        /\ page.next <= i /\ i <= page.newest
        /\ position.resume # 0 => i < position.resume
  BY <1>1 DEF NotesOK
<1>7. /\ position.head # 0 => position.resume # 0 /\ position.resume <= position.head
      /\ position.resume # 0 => position.watermark < position.resume
      /\ page.newest # 0 => position.watermark <= page.newest
      /\ page.next # 0 /\ position.resume # 0 => page.next < position.resume
  BY <1>1 DEF Sound, PageOK
<1> DEFINE h == IF position.head # 0 THEN position.head ELSE page.newest
<1>8. CASE page.next # 0
  <2>1. /\ NextPosition.watermark = position.watermark /\ NextPosition.resume = page.next
        /\ NextPosition.head = h
    BY <1>1 DEF NextPosition, HeadAfter, Positions
  <2>2. file'.watermark = position.watermark
    BY <1>3, <1>8, <2>1 DEF SavedState, State, NoPosition
  <2>3. h # 0 => file'.resume = page.next /\ file'.head = h
    BY <1>3, <1>8, <2>1 DEF SavedState, State
  <2> QED
    BY <1>2, <1>5, <1>6, <1>7, <2>2, <2>3 DEF Handled
<1>9. CASE page.next = 0
  <2>1. file'.watermark = IF h # 0 THEN h ELSE position.watermark
    BY <1>3, <1>9 DEF SavedState, HeadAfter, NoPosition
  <2> QED
    BY <1>2, <1>5, <1>6, <1>7, <2>1 DEF Handled
<1> QED
  BY <1>8, <1>9

\* Between pages there is no transaction and no page to speak of.
LEMMA ResetPhases ==
  ASSUME NEW w \in {"Down", "Sleep", "Fetch"}, NEW p, Between(w, p) PROVE Phases'
  BY DEF Between, Phases, NoTx

LEMMA ProcessCounts ==
  ASSUME CountInv, RelayerInv', Process PROVE CountInv'
<1>0. TypeOK' /\ TypeOK
  BY DEF CountInv, RelayerInv
<1>1. CASE Start \/ Stop \/ StartScan
  <2>1. pc \notin {"Wait", "Save"} /\ UNCHANGED <<file, strays, notes, faults>>
    BY <1>1 DEF Start, Stop, StartScan
  <2>2. Phases'
    BY <1>1, ResetPhases DEF Start, Stop, StartScan
  <2>3. \A i \in Entries : Settled(i) => Settled(i)'
    BY <2>1 DEF Settled, Handled, CountInv, Phases
  <2>4. Counted'
    BY <1>0, <2>1, <2>3, QuietCounts
  <2> QED
    BY <2>1, <2>2, <2>4 DEF CountInv, Numbered
<1>2. CASE Crash
  <2>1. Phases'
    BY <1>2, ResetPhases DEF Crash
  <2>2. Numbered' /\ Counted'
    BY <1>0, <1>2, AbandonCounts DEF Crash, Fault
  <2> QED
    BY <2>1, <2>2 DEF CountInv
<1>3. CASE FileLost
  <2>1. Phases'
    BY <1>3 DEF FileLost, CountInv, Phases, relayerVars, chainVars
  <2>2. UNCHANGED <<strays, notes>> /\ faults' = faults + 1
    BY <1>3 DEF FileLost, Fault, chainVars
  <2>3. Numbered' /\ Counted'
    <3> DEFINE X == {}
    <3>1. \A i \in X : ~Settled(i)
      OBVIOUS
    <3> HIDE DEF X
    <3> QED
      BY <1>0, <2>2, <3>1, FaultCounts
  <2> QED
    BY <2>1, <2>3 DEF CountInv
<1> QED
  BY <1>1, <1>2, <1>3 DEF Process

\* A page that fails without a fault had nothing on chain or under way.
LEMMA FailCounts ==
  ASSUME CountInv, RelayerInv', PageFails, tx.status # "included",
         UNCHANGED <<file, strays, notes, faults>>
  PROVE  CountInv'
<1>1. Phases'
  BY ResetPhases DEF PageFails
<1>2. \A i \in Entries : Settled(i) => Settled(i)'
  BY DEF Settled, Handled
<1>3. Counted'
  BY <1>2, QuietCounts DEF CountInv, RelayerInv
<1> QED
  BY <1>1, <1>3 DEF CountInv, Numbered

\* Steps that leave the file, the chain and the faults alone.
LEMMA StillCounts ==
  ASSUME CountInv, RelayerInv', Phases', UNCHANGED <<file, chainVars, faults>>
  PROVE  CountInv'
<1>1. \A i \in Entries : Settled(i) => Settled(i)'
  BY DEF Settled, Handled, chainVars
<1>2. Counted'
  BY <1>1, QuietCounts DEF CountInv, RelayerInv, chainVars
<1> QED
  BY <1>2 DEF CountInv, Numbered, chainVars

LEMMA PageCounts ==
  ASSUME CountInv, RelayerInv', Page PROVE CountInv'
<1>0. TypeOK' /\ TypeOK
  BY DEF CountInv, RelayerInv
<1>1. CASE FetchPage
  <2>1. NotesOK(page', position)
    BY <1>1, FetchedPage, ZenonT(30) DEF CountInv, RelayerInv
  <2>2. Phases'
    BY <1>1, <2>1 DEF FetchPage, CountInv, Phases, chainVars
  <2> QED
    BY <1>1, <2>2, StillCounts DEF FetchPage
<1>2. CASE RetainUnminted
  <2>1. /\ page'.newest = page.newest /\ page'.next = page.next
        /\ page'.notes \subseteq page.notes
    BY <1>0, <1>2 DEF RetainUnminted, TypeOK
  <2>2. NotesOK(page', position)
    BY <1>2, <2>1 DEF RetainUnminted, CountInv, Phases, NotesOK
  <2>3. Phases'
    BY <1>2, <2>2 DEF RetainUnminted, CountInv, Phases, chainVars
  <2> QED
    BY <1>2, <2>3, StillCounts DEF RetainUnminted
<1>3. CASE FetchFails \/ RetainFails \/ \E cause \in {"expired", "failed"} : SubmitFails(cause)
  <2>1. PageFails /\ pc \notin {"Wait", "Save"} /\ UNCHANGED <<file, strays, notes, faults>>
    BY <1>3 DEF FetchFails, RetainFails, SubmitFails
  <2> QED
    BY <2>1, FailCounts DEF CountInv, Phases
<1>4. CASE SubmitNotes
  <2>1. Phases'
    BY <1>4 DEF SubmitNotes, CountInv, Phases
  <2>2. \A i \in Entries : Settled(i) => Settled(i)'
    BY <1>4 DEF SubmitNotes, CountInv, Phases, Settled, Handled
  <2>3. Counted'
    BY <1>0, <1>4, <2>2, QuietCounts DEF SubmitNotes
  <2> QED
    BY <1>4, <2>1, <2>3 DEF SubmitNotes, CountInv, Numbered
<1>5. CASE SubmitUnclear
  <2>1. \A i \in page.notes : ~Settled(i)
    BY <1>5, PageIsFresh DEF SubmitUnclear, CountInv, Phases
  <2>2. /\ strays' = strays \cup {[no |-> faults + 1, notes |-> page.notes, left |-> ExpirationDelta]}
        /\ faults' = faults + 1 /\ notes' = notes
    BY <1>5 DEF SubmitUnclear, Fault
  <2>3. \A t \in strays' : t \in strays \/ (t.no = faults + 1 /\ t.notes = page.notes)
    BY <2>2
  <2>4. \A s \in strays', t \in strays' : s \notin strays /\ t \notin strays => s = t
    BY <2>2
  <2>5. Numbered' /\ Counted'
    BY <1>0, <2>1, <2>2, <2>3, <2>4, FaultCounts
  <2>6. Phases'
    BY <1>5, ResetPhases DEF SubmitUnclear, PageFails
  <2> QED
    BY <2>5, <2>6 DEF CountInv
<1>6. CASE SyncWaits \/ SyncFails \/ SyncIncluded
  <2>1. /\ UNCHANGED <<file, page, position, chainVars, faults>> /\ pc = "Wait"
        /\ pc' = "Wait" \/ (pc' = "Save" /\ tx.status = "included")
    BY <1>6 DEF SyncWaits, SyncFails, SyncIncluded, Inclusion
  <2>2. Phases'
    BY <2>1 DEF CountInv, Phases, chainVars
  <2> QED
    BY <2>1, <2>2, StillCounts
<1>7. CASE SyncExpired
  <2>1. tx.status # "included" /\ tx.left = 0
    BY <1>7 DEF SyncExpired, Inclusion
  <2>2. strays' = strays
    BY <1>7, <2>1 DEF SyncExpired, Abandon
  <2> QED
    BY <1>7, <2>1, <2>2, FailCounts DEF SyncExpired
<1>8. CASE GiveUp
  <2>1. Numbered' /\ Counted'
    BY <1>0, <1>8, AbandonCounts DEF GiveUp, Fault
  <2>2. Phases'
    BY <1>8, ResetPhases DEF GiveUp, PageFails
  <2> QED
    BY <2>1, <2>2 DEF CountInv
<1>9. CASE FinishPage
  <2>1. UNCHANGED <<strays, notes, faults>>
    BY <1>9 DEF FinishPage
  <2>2. \A i \in Entries : Settled(i) => Settled(i)'
    BY <1>9, FinishSettles DEF Settled, Handled
  <2>3. Counted'
    BY <1>0, <2>1, <2>2, QuietCounts
  <2>4. Phases'
    BY <1>9, ResetPhases DEF FinishPage
  <2> QED
    BY <2>1, <2>3, <2>4 DEF CountInv, Numbered
<1>10. CASE SaveFails
  <2> DEFINE X == {}
  <2>1. UNCHANGED <<strays, notes>> /\ faults' = faults + 1 /\ \A i \in X : ~Settled(i)
    BY <1>10 DEF SaveFails, Fault
  <2> HIDE DEF X
  <2>2. Numbered' /\ Counted'
    BY <1>0, <2>1, FaultCounts
  <2>3. Phases'
    BY <1>10, ResetPhases DEF SaveFails, PageFails
  <2> QED
    BY <2>2, <2>3 DEF CountInv
<1> QED
  BY <1>1, <1>2, <1>3, <1>4, <1>5, <1>6, <1>7, <1>8, <1>9, <1>10 DEF Page

LEMMA ChainCounts ==
  ASSUME CountInv, RelayerInv', Chain PROVE CountInv'
<1>0. TypeOK' /\ TypeOK
  BY DEF CountInv, RelayerInv
<1>1. faults \in Nat /\ notes \in [Entries -> Nat]
      /\ \A t \in strays : t.no \in 1 .. MaxFaults /\ t.notes \subseteq Entries
  BY <1>0, RelayerAssumption DEF TypeOK
<1>2. CASE TxLands
  <2>1. /\ tx'.status = "included" /\ tx'.notes = tx.notes /\ pc = "Wait"
        /\ tx.notes = page.notes /\ tx.status = "pending"
        /\ UNCHANGED <<file, pc, page, position, strays, faults>>
    BY <1>0, <1>2 DEF TxLands, TypeOK, CountInv, Phases, RelayerInv, TxOK, relayerVars
  <2>2. Phases'
    BY <2>1 DEF CountInv, Phases
  <2>3. \A i \in tx.notes : ~Settled(i)
    BY <2>1, PageIsFresh
  <2>4. \A i \in Entries : notes'[i] = IF i \in tx.notes THEN notes[i] + 1 ELSE notes[i]
    BY <1>2 DEF TxLands, Create
  <2>5. ASSUME NEW i \in Entries
        PROVE  notes'[i] + Cardinality(Nos(strays', i)) <= faults' + IF Settled(i)' THEN 1 ELSE 0
    <3>1. notes[i] \in Nat /\ Cardinality(Nos(strays, i)) \in Nat
      BY <1>1, NosFinite
    <3>2. notes[i] + Cardinality(Nos(strays, i)) <= faults + IF Settled(i) THEN 1 ELSE 0
      BY DEF CountInv, Counted
    <3>3. i \in tx.notes => Settled(i)'
      BY <2>1 DEF Settled
    <3>4. Settled(i) => Settled(i)'
      BY <2>1 DEF Settled, Handled
    <3>5. Nos(strays', i) = Nos(strays, i)
      BY <2>1
    <3> QED
      BY <1>1, <2>1, <2>3, <2>4, <3>1, <3>2, <3>3, <3>4, <3>5
  <2>6. Counted'
    BY <2>5 DEF Counted
  <2> QED
    BY <2>1, <2>2, <2>6 DEF CountInv, Numbered
<1>3. ASSUME NEW t \in strays, StrayLands(t) PROVE CountInv'
  <2>1. UNCHANGED <<file, pc, page, position, tx, faults>> /\ strays' = strays \ {t}
    BY <1>3 DEF StrayLands, relayerVars
  <2>2. Phases' /\ Numbered'
    BY <2>1 DEF CountInv, Phases, Numbered
  <2>3. \A i \in Entries : notes'[i] = IF i \in t.notes THEN notes[i] + 1 ELSE notes[i]
    BY <1>3 DEF StrayLands, Create
  <2>4. ASSUME NEW i \in Entries
        PROVE  notes'[i] + Cardinality(Nos(strays', i)) <= faults' + IF Settled(i)' THEN 1 ELSE 0
    <3>1. notes[i] \in Nat /\ Cardinality(Nos(strays, i)) \in Nat
          /\ Cardinality(Nos(strays', i)) \in Nat
      BY <1>1, NosFinite
    <3>2. notes[i] + Cardinality(Nos(strays, i)) <= faults + IF Settled(i) THEN 1 ELSE 0
      BY DEF CountInv, Counted
    <3>3. Settled(i)' <=> Settled(i)
      BY <2>1 DEF Settled, Handled
    <3>4. CASE i \in t.notes
      <4>1. Cardinality(Nos(strays \ {t}, i)) + 1 <= Cardinality(Nos(strays, i))
        BY <1>1, <3>4, NosRemoved DEF CountInv, Numbered
      <4> QED
        BY <1>1, <2>1, <2>3, <3>1, <3>2, <3>3, <3>4, <4>1
    <3>5. CASE i \notin t.notes
      <4>1. Cardinality(Nos(strays', i)) <= Cardinality(Nos(strays, i))
        BY <2>1, NosFewer
      <4> QED
        BY <1>1, <2>1, <2>3, <3>1, <3>2, <3>3, <3>5, <4>1
    <3> QED
      BY <3>4, <3>5
  <2>5. Counted'
    BY <2>4 DEF Counted
  <2> QED
    BY <2>2, <2>5 DEF CountInv
<1>4. CASE BlockPasses
  <2>1. /\ tx'.status = tx.status /\ tx'.notes = tx.notes
        /\ UNCHANGED <<file, pc, page, position, notes, faults>>
    BY <1>0, <1>4 DEF BlockPasses, TypeOK, relayerVars
  <2>2. \A t \in strays' : \E s \in strays :
          t = [s EXCEPT !.left = @ - 1] /\ s.no = t.no /\ s.notes = t.notes
    <3>1. strays' = {[s EXCEPT !.left = @ - 1] : s \in {s \in strays : s.left > 1}}
      BY <1>4 DEF BlockPasses
    <3>2. ASSUME NEW s \in strays
          PROVE  [s EXCEPT !.left = @ - 1].no = s.no /\ [s EXCEPT !.left = @ - 1].notes = s.notes
      <4>1. s \in [no : 1 .. MaxFaults, notes : SUBSET Entries, left : 0 .. ExpirationDelta]
        BY <1>0 DEF TypeOK
      <4> QED
        BY <4>1
    <3> QED
      BY <3>1, <3>2, ZenonT(30)
  <2>3. Numbered'
    BY <2>1, <2>2 DEF CountInv, Numbered
  <2>4. Phases'
    BY <2>1 DEF CountInv, Phases
  <2>5. \A i \in Entries : Settled(i) => Settled(i)'
    BY <2>1 DEF Settled, Handled
  <2>6. Counted'
    BY <1>0, <2>1, <2>2, <2>5, QuietCounts
  <2> QED
    BY <2>3, <2>4, <2>6 DEF CountInv
<1>5. ASSUME NEW i \in Entries, FaucetMints(i) PROVE CountInv'
  <2>1. UNCHANGED <<file, pc, page, position, tx, strays, notes, faults>>
    BY <1>5 DEF FaucetMints, relayerVars
  <2>2. Phases' /\ Numbered'
    BY <2>1 DEF CountInv, Phases, Numbered
  <2>3. \A j \in Entries : Settled(j) => Settled(j)'
    BY <2>1 DEF Settled, Handled
  <2>4. Counted'
    BY <1>0, <2>1, <2>3, QuietCounts
  <2> QED
    BY <2>2, <2>4 DEF CountInv
<1> QED
  BY <1>2, <1>3, <1>4, <1>5 DEF Chain

LEMMA CountInit == Init => CountInv
<1> SUFFICES ASSUME Init PROVE CountInv
  OBVIOUS
<1>1. Phases /\ Numbered
  BY DEF Init, Phases, Numbered, NoTx
<1>2. ASSUME NEW i \in Entries PROVE Nos(strays, i) = {} /\ notes[i] = 0 /\ faults = 0
  BY DEF Init, Nos
<1>3. Cardinality({}) = 0
  BY FS_EmptySet
<1>4. Counted
  BY <1>2, <1>3 DEF Counted
<1> QED
  BY <1>1, <1>4, RelayerInit DEF CountInv

LEMMA CountStep == CountInv /\ RelayerInv' /\ [Next]_vars => CountInv'
<1> SUFFICES ASSUME CountInv, RelayerInv', [Next]_vars PROVE CountInv'
  OBVIOUS
<1>1. ASSUME NEW kind \in Kinds, Attest(kind) PROVE CountInv'
  <2>1. Phases'
    BY <1>1 DEF Attest, CountInv, Phases, relayerVars, chainVars
  <2> QED
    BY <1>1, <2>1, StillCounts DEF Attest
<1>2. CASE UNCHANGED vars
  <2>1. Phases'
    BY <1>2 DEF vars, CountInv, Phases, relayerVars, chainVars
  <2> QED
    BY <1>2, <2>1, StillCounts DEF vars
<1> QED
  BY <1>1, <1>2, ProcessCounts, PageCounts, ChainCounts DEF Next

\* A deposit gets one mint note, and one more at most for every fault that hid a transaction
\* from the state file or lost the file: expiry, rejection, failed reads and clean stops make
\* none (process_page, submit_notes).
THEOREM ResendsNeedFaults == Spec => []ResendsAreFaults
<1>1. CountInv => ResendsAreFaults
  <2> SUFFICES ASSUME CountInv, NEW i \in Entries PROVE notes[i] <= 1 + faults
    BY DEF ResendsAreFaults
  <2>1. notes[i] \in Nat /\ faults \in Nat /\ Cardinality(Nos(strays, i)) \in Nat
    BY NosFinite, RelayerAssumption DEF CountInv, RelayerInv, TypeOK
  <2>2. notes[i] + Cardinality(Nos(strays, i)) <= faults + IF Settled(i) THEN 1 ELSE 0
    BY DEF CountInv, Counted
  <2> QED
    BY <2>1, <2>2
<1> QED
  BY <1>1, CountInit, CountStep, RelayerAlways, PTL DEF Spec

=============================================================================
