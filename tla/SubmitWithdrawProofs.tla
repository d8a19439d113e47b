------------------------ MODULE SubmitWithdrawProofs ------------------------
(***************************************************************************)
(* The earlier attester withdraws no burn twice, for any number of         *)
(* listeners on one ledger, any burns and requests, any budget of attempts *)
(* and polls, and any other deployment at work on the same burns.          *)
(*                                                                         *)
(* SubmitInv is shown inductive one action at a time.  A step changes one  *)
(* run or none; the lemmas of the first two parts say what the others need *)
(* of the ledger and of Circle to stay as they are, so that an action is   *)
(* left with its own run and with what it wrote.                           *)
(***************************************************************************)
EXTENDS SubmitWithdraw, TLAPS

\* Time, and a second try, for a leaf on a loaded machine; one that names a prover uses that one.
USE SMTT(20), ZenonT(20), SMTT(30)

CircleType == [WithdrawalIds -> [burn : Burns \cup {Foreign},
                                 status : WithdrawalStatusKind \cup {"none"},
                                 by : {"us", "other", "none"}]]

-----------------------------------------------------------------------------
(* Sequences *)

\* Two sequences in a row (the records of a 409: the burn it names first, then the others).
LEMMA InARow ==
  ASSUME NEW S, NEW a \in Seq(S), NEW b \in Seq(S)
  PROVE  /\ a \o b \in Seq(S) /\ Len(a \o b) = Len(a) + Len(b)
         /\ \A n \in 1 .. Len(a) + Len(b) : (a \o b)[n] = IF n <= Len(a) THEN a[n] ELSE b[n - Len(a)]
OBVIOUS

\* What is left of the records when the first is written.
LEMMA AfterFirst ==
  ASSUME NEW S, NEW s \in Seq(S), s # <<>>
  PROVE  /\ DOMAIN Tail(s) = 1 .. Len(s) - 1
         /\ \A n \in DOMAIN Tail(s) : n + 1 \in DOMAIN s /\ n + 1 # 1 /\ Tail(s)[n] = s[n + 1]
<1>1. Len(s) \in Nat \ {0} /\ DOMAIN s = 1 .. Len(s)
  OBVIOUS
<1> QED
  BY <1>1

-----------------------------------------------------------------------------
(* Runs that do not move *)

\* A run still fits when Circle and the ledger only went on, and when nothing was sent for a
\* burn it holds.
LEMMA RunKept ==
  ASSUME NEW r \in Run, NEW g, NEW h, NEW c, NEW d, NEW t, NEW u,
         RunOK(r, g, c, t),
         \A i \in WithdrawalIds, b \in Burns \cup {Foreign} : IsOf(c, i, b) => IsOf(d, i, b),
         \A i \in WithdrawalIds : c[i].status = "finalized" => d[i].status = "finalized",
         \A b \in Burns : Holds(r, b) /\ Sent(d, u, b) => Sent(c, t, b),
         \A b \in Burns : Holds(r, b) /\ blocks_resubmission(g[b].status)
                            => blocks_resubmission(h[b].status),
         \A b \in Burns : Blocks(g[b]) => Blocks(h[b])
  PROVE  RunOK(r, h, d, u)
<1> DEFINE echoed == {r.reply.statuses[n].burn : n \in DOMAIN r.reply.statuses}
<1>1. PlaceOK(r)
  BY Zenon DEF RunOK
<1>2. \A b \in Burns : Holds(r, b) => blocks_resubmission(h[b].status)
  BY Zenon DEF RunOK
<1>3. r.keys \in Seq(Burns) /\ Range(r.keys) \subseteq Burns
  BY DEF Run, Range
<1>4. Unsent(r) => \A b \in Range(r.keys) : ~ Sent(d, u, b)
  <2> SUFFICES ASSUME Unsent(r), NEW b \in Range(r.keys) PROVE ~ Sent(d, u, b)
    BY Zenon
  <2>1. Holds(r, b)
    BY Zenon DEF Unsent, Holds
  <2>2. ~ Sent(c, t, b)
    BY Zenon DEF RunOK
  <2> QED
    BY <1>3, <2>1, <2>2, Zenon
<1>5. (r.pc = "read" /\ r.reply.kind = "created" /\ echoed = Range(r.keys)) =>
        \A n \in DOMAIN r.reply.statuses :
          IsOf(d, r.reply.statuses[n].id, r.reply.statuses[n].burn)
  <2> SUFFICES ASSUME r.pc = "read", r.reply.kind = "created", echoed = Range(r.keys),
                      NEW n \in DOMAIN r.reply.statuses
               PROVE  IsOf(d, r.reply.statuses[n].id, r.reply.statuses[n].burn)
    BY Zenon
  <2>1. IsOf(c, r.reply.statuses[n].id, r.reply.statuses[n].burn)
    BY Zenon DEF RunOK
  <2>2. r.reply.statuses[n].burn \in Burns
    BY <1>3, Zenon
  <2> QED
    BY <2>1, <2>2, Zenon DEF IsOf
<1>6. r.pc = "write" => \A n \in DOMAIN r.writes : WriteOK(r, r.writes[n], d, u)
  <2> SUFFICES ASSUME r.pc = "write", NEW n \in DOMAIN r.writes
               PROVE  WriteOK(r, r.writes[n], d, u)
    BY Zenon
  <2> DEFINE w == r.writes[n]
  <2>1. w.key \in Burns /\ Holds(r, w.key)
    <3>1. r.writes \in Seq(Write)
      BY Zenon DEF Run
    <3>2. w \in Write
      BY <3>1
    <3>3. w.key \in Burns
      BY <3>2 DEF Write
    <3>4. Holds(r, w.key)
      BY Zenon DEF Holds
    <3> QED
      BY <3>3, <3>4, Zenon
  <2>2. WriteOK(r, w, c, t)
    BY Zenon DEF RunOK
  <2>3. IsOf(c, w.id, w.key) => IsOf(d, w.id, w.key) /\ w.id \in WithdrawalIds
    BY <2>1, Zenon DEF IsOf
  <2>4. Sent(d, u, w.key) => Sent(c, t, w.key)
    BY <2>1, Zenon
  <2> HIDE DEF w
  <2>5. WriteOK(r, w, d, u)
    BY <2>2, <2>3, <2>4, Zenon DEF WriteOK
  <2> QED
    BY <2>5, Zenon DEF w
<1>7. (r.pc = "confirm" \/ (r.pc = "write" /\ r.then # "rejected")) =>
        \A b \in Range(r.keys) :
          Blocks(h[b]) \/ (r.pc = "write" /\ \E n \in DOMAIN r.writes : r.writes[n].key = b)
  BY <1>3 DEF RunOK
<1> QED
  BY <1>1, <1>2, <1>4, <1>5, <1>6, <1>7, Zenon DEF RunOK

\* The next record of a run is about a burn of its request and true of Circle, and the last
\* one leaves no burn of it open (WriteNext).
LEMMA FirstWrite ==
  ASSUME NEW r \in Run, NEW g, NEW c, NEW t, RunOK(r, g, c, t), r.pc = "write",
         NEW w, w = Head(r.writes)
  PROVE  /\ w = r.writes[1] /\ 1 \in DOMAIN r.writes /\ Tail(r.writes) \in Seq(Write)
         /\ w.key \in Range(r.keys) /\ w.key \in Burns
         /\ w.to \in SubmissionStatus /\ w.id \in WithdrawalIds \cup {NoId}
         /\ WriteOK(r, w, c, t)
         /\ (Tail(r.writes) = <<>> /\ r.then # "rejected") =>
               \A b \in Range(r.keys) : Blocks(g[b]) \/ w.key = b
<1>1. r.writes \in Seq(Write) /\ r.writes # <<>>
  BY DEF Run, RunOK, PlaceOK
<1>2. /\ w = r.writes[1] /\ 1 \in DOMAIN r.writes /\ w \in Write /\ Tail(r.writes) \in Seq(Write)
      /\ Tail(r.writes) = <<>> => DOMAIN r.writes = {1}
  <2>1. Len(r.writes) \in Nat \ {0} /\ DOMAIN r.writes = 1 .. Len(r.writes)
    BY <1>1
  <2>2. w = r.writes[1] /\ r.writes[1] \in Write /\ Tail(r.writes) \in Seq(Write)
    BY <1>1, <2>1
  <2>3. Tail(r.writes) = <<>> => DOMAIN r.writes = {1}
    <3>1. Len(Tail(r.writes)) = Len(r.writes) - 1
      BY <1>1
    <3>2. Tail(r.writes) = <<>> => Len(Tail(r.writes)) = 0
      <4>1. Len(<<>>) = 0
        OBVIOUS
      <4> QED
        BY <4>1, Zenon
    <3>3. Tail(r.writes) = <<>> => Len(r.writes) = 1
      BY <2>1, <3>1, <3>2
    <3>4. 1 .. 1 = {1}
      OBVIOUS
    <3> QED
      BY <2>1, <3>3, <3>4, Zenon
  <2> QED
    BY <2>1, <2>2, <2>3
<1>3. w.key \in Burns /\ w.to \in SubmissionStatus /\ w.id \in WithdrawalIds \cup {NoId}
  BY <1>2 DEF Write
<1>4. w.key \in Range(r.keys) /\ WriteOK(r, w, c, t)
  BY <1>2 DEF RunOK, PlaceOK
<1>5. (Tail(r.writes) = <<>> /\ r.then # "rejected") =>
        \A b \in Range(r.keys) : Blocks(g[b]) \/ w.key = b
  BY <1>2 DEF RunOK
<1> QED
  BY <1>2, <1>3, <1>4, <1>5

\* A transition changes the id of a row only to one that it carries (apply_transition).
LEMMA IdOfTransition ==
  ASSUME NEW row, NEW to, NEW id
  PROVE  apply_transition(row, to, id).id = IF id = NoId THEN row.id ELSE id
BY DEF apply_transition

\* What a step has to leave true of Circle and the ledger for the runs it does not move.
Onward(g, h, c, d) ==
  /\ \A i \in WithdrawalIds, b \in Burns \cup {Foreign} : IsOf(c, i, b) => IsOf(d, i, b)
  /\ \A i \in WithdrawalIds : c[i].status = "finalized" => d[i].status = "finalized"
  /\ \A b \in Burns : Blocks(g[b]) => Blocks(h[b])

\* A step of one run keeps the invariant when that run fits what the step leaves, takes no
\* burn out of another's hands, and sends nothing another holds.
LEMMA RunStep ==
  ASSUME SubmitInv, NEW l \in Listeners, NEW r \in Run,
         run' = [run EXCEPT ![l] = r], TypeOK', Onward(ledger, ledger', circle, circle'),
         RunOK(r, ledger', circle', late'),
         \A b \in Burns, m \in Listeners \ {l} :
           Holds(run[m], b) => /\ ~ Holds(r, b)
                               /\ Sent(circle', late', b) => Sent(circle, late, b)
                               /\ blocks_resubmission(ledger'[b].status),
         SentOnce(ledger', circle', late'), RowsTrue(ledger', circle')
  PROVE  SubmitInv'
<1>1. run \in [Listeners -> Run]
  BY DEF SubmitInv, TypeOK
<1>2. \A m \in Listeners : run'[m] = IF m = l THEN r ELSE run[m]
  BY <1>1
<1>3. ASSUME NEW m \in Listeners PROVE RunOK(run'[m], ledger', circle', late')
  <2>1. CASE m = l
    BY <1>2, <2>1, Zenon
  <2>2. CASE m # l
    <3>1. run[m] \in Run /\ RunOK(run[m], ledger, circle, late) /\ run'[m] = run[m]
      BY <1>1, <1>2, <2>2, Zenon DEF SubmitInv
    <3>2. RunOK(run[m], ledger', circle', late')
      BY <3>1, <2>2, RunKept DEF Onward
    <3> QED
      BY <3>1, <3>2, Zenon
  <2> QED
    BY <2>1, <2>2, Zenon
<1>4. ASSUME NEW m \in Listeners, NEW k \in Listeners, NEW b \in Burns,
             Holds(run'[m], b), Holds(run'[k], b)
      PROVE  m = k
  BY <1>2, <1>4 DEF SubmitInv
<1> QED
  BY <1>3, <1>4 DEF SubmitInv

\* The same for a step of Circle or of the operator.
LEMMA WorldStep ==
  ASSUME SubmitInv, run' = run, TypeOK', Onward(ledger, ledger', circle, circle'),
         \A b \in Burns, m \in Listeners :
           Holds(run[m], b) => /\ Sent(circle', late', b) => Sent(circle, late, b)
                               /\ blocks_resubmission(ledger'[b].status),
         SentOnce(ledger', circle', late'), RowsTrue(ledger', circle')
  PROVE  SubmitInv'
<1>1. ASSUME NEW m \in Listeners PROVE RunOK(run[m], ledger', circle', late')
  <2>1. run[m] \in Run /\ RunOK(run[m], ledger, circle, late)
    BY DEF SubmitInv, TypeOK
  <2> QED
    BY <2>1, RunKept, Zenon DEF Onward
<1> QED
  BY <1>1, Zenon DEF SubmitInv

\* A step that moves one run, and neither the ledger nor Circle, keeps the invariant when the
\* run holds no more burns than before.
LEMMA QuietStep ==
  ASSUME SubmitInv, NEW l \in Listeners, NEW r \in Run,
         run' = [run EXCEPT ![l] = r], outcome' \in [Listeners -> Outcomes],
         UNCHANGED <<ledger, circle, late>>, RunOK(r, ledger, circle, late),
         \A b \in Burns : Holds(r, b) => Holds(run[l], b)
  PROVE  SubmitInv'
<1>1. TypeOK'
  BY Zenon DEF SubmitInv, TypeOK, LedgerTypeOK
<1>2. Onward(ledger, ledger', circle, circle')
  BY DEF Onward
<1>3. RunOK(r, ledger', circle', late') /\ SentOnce(ledger', circle', late')
        /\ RowsTrue(ledger', circle')
  BY DEF SubmitInv
<1>4. \A b \in Burns, m \in Listeners \ {l} :
        Holds(run[m], b) => /\ ~ Holds(r, b)
                            /\ Sent(circle', late', b) => Sent(circle, late, b)
                            /\ blocks_resubmission(ledger'[b].status)
  <2> SUFFICES ASSUME NEW b \in Burns, NEW m \in Listeners \ {l}, Holds(run[m], b)
               PROVE  ~ Holds(r, b) /\ blocks_resubmission(ledger[b].status)
    BY Zenon
  <2>1. ~ Holds(run[l], b)
    BY DEF SubmitInv
  <2>2. RunOK(run[m], ledger, circle, late)
    BY DEF SubmitInv
  <2> QED
    BY <2>1, <2>2 DEF RunOK
<1> QED
  BY <1>1, <1>2, <1>3, <1>4, RunStep, Zenon

-----------------------------------------------------------------------------
(* What a run has to record *)

\* One record for each burn of the request, in any order.
Covers(writes, keys) ==
  /\ writes \in Seq(Write) /\ writes # <<>>
  /\ \A n, m \in DOMAIN writes : writes[n].key = writes[m].key => n = m
  /\ \A n \in DOMAIN writes : writes[n].key \in Range(keys)
  /\ \A b \in Range(keys) : \E n \in DOMAIN writes : writes[n].key = b

\* A record for each burn, in the order of the request, covers it.
LEMMA InOrder ==
  ASSUME NEW keys \in Seq(Burns), keys # <<>>, IsInjective(keys),
         NEW writes, DOMAIN writes = DOMAIN keys,
         writes = [n \in DOMAIN keys |-> writes[n]],
         \A n \in DOMAIN keys : writes[n] \in Write /\ writes[n].key = keys[n]
  PROVE  Covers(writes, keys)
<1>1. Len(keys) \in Nat \ {0} /\ DOMAIN keys = 1 .. Len(keys)
  OBVIOUS
<1>2. writes \in Seq(Write)
  BY <1>1
<1>3. writes # <<>>
  BY <1>1
<1> QED
  BY <1>2, <1>3 DEF Covers, IsInjective, Range

\* mark_all_reconciliation blocks every burn of the request and names no withdrawal.
LEMMA MarkAll ==
  ASSUME NEW keys \in Seq(Burns), keys # <<>>, IsInjective(keys)
  PROVE  LET writes == mark_all_reconciliation(keys)
         IN  /\ Covers(writes, keys)
             /\ \A n \in DOMAIN writes : writes[n].to = "reconciliation_required"
                                         /\ writes[n].id = NoId
<1> DEFINE writes == mark_all_reconciliation(keys)
<1>1. DOMAIN writes = DOMAIN keys /\ writes = [n \in DOMAIN keys |-> writes[n]]
  BY DEF mark_all_reconciliation
<1>2. \A n \in DOMAIN keys : /\ writes[n] \in Write /\ writes[n].key = keys[n]
                             /\ writes[n].to = "reconciliation_required" /\ writes[n].id = NoId
  BY DEF mark_all_reconciliation, Blocked, Write, SubmissionStatus
<1> HIDE DEF writes
<1>3. Covers(writes, keys)
  BY <1>1, <1>2, InOrder
<1> QED
  BY <1>1, <1>2, <1>3 DEF writes

\* What recover_conflict records about the burn the 409 named, with block_others for the rest,
\* covers the request, and names no withdrawal for any other burn.
LEMMA OthersBlocked ==
  ASSUME NEW keys \in Seq(Burns), keys # <<>>, IsInjective(keys),
         NEW at \in DOMAIN keys, NEW w \in Write, w.key = keys[at]
  PROVE  LET writes == <<w>> \o block_others(keys, at)
         IN  /\ Covers(writes, keys)
             /\ \A n \in DOMAIN writes : \/ writes[n] = w
                                         \/ /\ writes[n].to = "reconciliation_required"
                                            /\ writes[n].id = NoId
<1> DEFINE marked == mark_all_reconciliation(keys)
           others == block_others(keys, at)
           writes == <<w>> \o others
<1>1. Len(keys) \in Nat \ {0} /\ DOMAIN keys = 1 .. Len(keys)
  OBVIOUS
<1>2. marked \in Seq(Write) /\ Len(marked) = Len(keys)
  <2>1. \A n \in 1 .. Len(keys) : Blocked(keys[n], NoId) \in Write
    BY DEF Blocked, Write, SubmissionStatus
  <2> QED
    BY <1>1, <2>1 DEF mark_all_reconciliation
<1>3. \A n \in 1 .. Len(keys) : /\ marked[n].key = keys[n] /\ marked[n].id = NoId
                                /\ marked[n].to = "reconciliation_required"
  BY <1>1 DEF mark_all_reconciliation, Blocked
<1>4. others = SubSeq(marked, 1, at - 1) \o SubSeq(marked, at + 1, Len(marked))
  BY DEF block_others
<1> DEFINE left == SubSeq(marked, 1, at - 1)
           right == SubSeq(marked, at + 1, Len(marked))
<1> HIDE DEF marked, others
<1>5. /\ left \in Seq(Write) /\ Len(left) = at - 1
      /\ \A n \in 1 .. at - 1 : left[n] = marked[n]
  BY <1>1, <1>2
<1>6. /\ right \in Seq(Write) /\ Len(right) = Len(keys) - at
      /\ \A n \in 1 .. Len(keys) - at : right[n] = marked[at + n]
  BY <1>1, <1>2
<1> HIDE DEF left, right
<1>7. /\ others \in Seq(Write) /\ Len(others) = Len(keys) - 1
      /\ \A n \in 1 .. Len(others) : others[n] = IF n < at THEN marked[n] ELSE marked[n + 1]
  <2>1. others = left \o right
    BY <1>4 DEF left, right
  <2>2. others \in Seq(Write) /\ Len(others) = Len(left) + Len(right)
    BY <2>1, <1>5, <1>6, InARow, Zenon
  <2>3. \A n \in 1 .. Len(left) + Len(right) :
          others[n] = IF n <= Len(left) THEN left[n] ELSE right[n - Len(left)]
    BY <2>1, <1>5, <1>6, InARow, Zenon
  <2>4. Len(others) = Len(keys) - 1
    BY <2>2, <1>1, <1>5, <1>6
  <2>5. ASSUME NEW n \in 1 .. Len(others)
        PROVE  others[n] = IF n < at THEN marked[n] ELSE marked[n + 1]
    <3>1. others[n] = IF n <= at - 1 THEN left[n] ELSE right[n - (at - 1)]
      BY <2>2, <2>3, <1>5, Zenon
    <3>2. CASE n < at
      BY <3>1, <3>2, <1>1, <1>5
    <3>3. CASE ~ (n < at)
      <4>1. n - (at - 1) \in 1 .. Len(keys) - at /\ at + (n - (at - 1)) = n + 1
        BY <3>3, <2>4, <1>1
      <4>2. others[n] = right[n - (at - 1)]
        BY <3>1, <3>3, <1>1
      <4> QED
        BY <4>1, <4>2, <3>3, <1>6, Zenon
    <3> QED
      BY <3>2, <3>3
  <2> QED
    BY <2>2, <2>4, <2>5, Zenon
<1>8. /\ writes \in Seq(Write) /\ Len(writes) = Len(keys) /\ writes[1] = w
      /\ \A n \in 2 .. Len(keys) : writes[n] = others[n - 1]
  <2>1. <<w>> \in Seq(Write) /\ Len(<<w>>) = 1 /\ <<w>>[1] = w
    OBVIOUS
  <2>2. /\ writes \in Seq(Write) /\ Len(writes) = 1 + Len(others)
        /\ \A n \in 1 .. 1 + Len(others) :
             writes[n] = IF n <= 1 THEN <<w>>[n] ELSE others[n - 1]
    BY <2>1, <1>7
  <2>3. 1 + Len(others) = Len(keys)
    BY <1>1, <1>7
  <2>4. writes[1] = w
    BY <2>1, <2>2, <2>3, <1>1
  <2>5. \A n \in 2 .. Len(keys) : writes[n] = others[n - 1]
    BY <2>2, <2>3, <1>1
  <2> QED
    BY <2>2, <2>3, <2>4, <2>5, Zenon
<1> HIDE DEF writes
<1>9. DOMAIN writes = 1 .. Len(keys) /\ writes # <<>>
  BY <1>1, <1>8
<1>10. \A n \in 2 .. Len(keys) : writes[n] = IF n <= at THEN marked[n - 1] ELSE marked[n]
  <2> SUFFICES ASSUME NEW n \in 2 .. Len(keys)
               PROVE  writes[n] = IF n <= at THEN marked[n - 1] ELSE marked[n]
    OBVIOUS
  <2>1. n - 1 \in 1 .. Len(others) /\ (n - 1) + 1 = n /\ (n - 1 < at <=> n <= at)
    BY <1>1, <1>7
  <2>2. writes[n] = others[n - 1]
    BY <1>8, Zenon
  <2>3. others[n - 1] = IF n - 1 < at THEN marked[n - 1] ELSE marked[(n - 1) + 1]
    BY <2>1, <1>7
  <2> QED
    BY <2>1, <2>2, <2>3, Zenon
<1> DEFINE place == [n \in 1 .. Len(keys) |-> IF n = 1 THEN at ELSE IF n <= at THEN n - 1 ELSE n]
<1>12. \A n \in 1 .. Len(keys) : place[n] \in 1 .. Len(keys)
  BY <1>1
<1>13. \A n, m \in 1 .. Len(keys) : place[n] = place[m] => n = m
  BY <1>1
<1>14. \A k \in 1 .. Len(keys) : \E n \in 1 .. Len(keys) : place[n] = k
  <2> SUFFICES ASSUME NEW k \in 1 .. Len(keys) PROVE \E n \in 1 .. Len(keys) : place[n] = k
    OBVIOUS
  <2>1. k = at => place[1] = k
    BY <1>1
  <2>2. k < at => k + 1 \in 1 .. Len(keys) /\ place[k + 1] = k
    BY <1>1
  <2>3. k > at => place[k] = k
    BY <1>1
  <2> QED
    BY <1>1, <2>1, <2>2, <2>3
<1>15. \A n \in 1 .. Len(keys) : writes[n].key = keys[place[n]]
  BY <1>1, <1>3, <1>8, <1>10
<1> HIDE DEF place
<1>16. \A n, m \in DOMAIN writes : writes[n].key = writes[m].key => n = m
  BY <1>1, <1>9, <1>12, <1>13, <1>15 DEF IsInjective
<1>17. \A n \in DOMAIN writes : writes[n].key \in Range(keys)
  BY <1>1, <1>9, <1>12, <1>15 DEF Range
<1>18. \A b \in Range(keys) : \E n \in DOMAIN writes : writes[n].key = b
  <2> SUFFICES ASSUME NEW k \in 1 .. Len(keys)
               PROVE  \E n \in DOMAIN writes : writes[n].key = keys[k]
    BY <1>1 DEF Range
  <2>1. PICK n \in 1 .. Len(keys) : place[n] = k
    BY <1>14
  <2>2. n \in DOMAIN writes /\ writes[n].key = keys[k]
    BY <2>1, <1>9, <1>15
  <2> QED
    BY <2>2
<1>19. \A n \in DOMAIN writes : \/ writes[n] = w
                               \/ /\ writes[n].to = "reconciliation_required"
                                  /\ writes[n].id = NoId
  BY <1>1, <1>3, <1>8, <1>9, <1>10
<1> QED
  BY <1>8, <1>9, <1>16, <1>17, <1>18, <1>19, Zenon DEF Covers, writes, others

-----------------------------------------------------------------------------
(* Steps of one run that leave the ledger and Circle alone *)

\* A run that goes on with its request still fits, as long as it does not forget that
\* something of it may have been sent.
LEMMA GoesOn ==
  ASSUME NEW q \in Run, NEW r \in Run, NEW g, NEW c, NEW t, RunOK(q, g, c, t),
         q.pc \in {"send", "wait", "read"}, r.pc \in {"send", "wait", "read", "recover"},
         r.keys = q.keys, Unsent(r) => Unsent(q),
         r.pc = "send" => r.attempt < MaxAttempts,
         r.pc = "read" => r.reply.kind # "created",
         r.pc = "recover" => /\ r.reply.kind = "conflict" /\ r.reply.id # NoId
                             /\ r.reply.burn \in Range(r.keys)
  PROVE  RunOK(r, g, c, t) /\ \A b \in Burns : Holds(r, b) => Holds(q, b)
<1>1. r.keys # <<>> /\ IsInjective(r.keys)
  BY DEF RunOK, PlaceOK
<1>2. PlaceOK(r)
  BY <1>1 DEF PlaceOK
<1>3. \A b \in Burns : Holds(r, b) => Holds(q, b)
  BY DEF Holds
<1>4. Unsent(r) => \A b \in Range(r.keys) : ~ Sent(c, t, b)
  BY DEF RunOK
<1>5. \A b \in Burns : Holds(r, b) => blocks_resubmission(g[b].status)
  BY <1>3 DEF RunOK
<1> QED
  BY <1>2, <1>3, <1>4, <1>5 DEF RunOK

\* A run that has settled on what to record fits when its records cover the request and are
\* true (Settle).
LEMMA Settles ==
  ASSUME NEW q \in Run, NEW writes, NEW o \in Outcomes \cup {"confirm"}, NEW g, NEW c, NEW t,
         RunOK(q, g, c, t), q.pc \in {"read", "recover", "confirm"},
         Covers(writes, q.keys), o = "confirm" => q.reply.kind = "created" /\ Len(q.keys) = 1,
         \A n \in DOMAIN writes :
           WriteOK([q EXCEPT !.pc = "write", !.writes = writes, !.then = o], writes[n], c, t)
  PROVE  LET r == [q EXCEPT !.pc = "write", !.writes = writes, !.then = o]
         IN  /\ r \in Run /\ RunOK(r, g, c, t)
             /\ \A b \in Burns : Holds(r, b) => Holds(q, b)
<1> DEFINE r == [q EXCEPT !.pc = "write", !.writes = writes, !.then = o]
<1>1. r \in Run
  BY Zenon DEF Run, Covers
<1>2. /\ r.pc = "write" /\ r.writes = writes /\ r.then = o /\ r.keys = q.keys
      /\ r.reply = q.reply
  BY DEF Run
<1>3. \A n \in DOMAIN writes : WriteOK(r, writes[n], c, t)
  OBVIOUS
<1> HIDE DEF r
<1>4. q.keys # <<>> /\ IsInjective(q.keys)
  BY DEF RunOK, PlaceOK
<1>5. PlaceOK(r)
  BY <1>2, <1>4 DEF PlaceOK, Covers
<1>6. \A b \in Burns : Holds(r, b) => Holds(q, b)
  BY <1>2 DEF Holds, Covers
<1>7. \A b \in Burns : Holds(r, b) => blocks_resubmission(g[b].status)
  BY <1>6 DEF RunOK
<1>8. \A b \in Range(r.keys) : \E n \in DOMAIN r.writes : r.writes[n].key = b
  BY <1>2 DEF Covers
<1>9. RunOK(r, g, c, t)
  BY <1>2, <1>3, <1>5, <1>7, <1>8 DEF RunOK, Unsent
<1> QED
  BY <1>1, <1>6, <1>9 DEF r

\* A run that is over holds nothing (Finish).
LEMMA Finishes ==
  ASSUME NEW g, NEW c, NEW t
  PROVE  /\ IdleRun \in Run /\ RunOK(IdleRun, g, c, t)
         /\ \A b \in Burns : ~ Holds(IdleRun, b)
<1>1. [kind |-> "transport"] \in Reply
  BY DEF Reply
<1>2. IdleRun \in Run
  BY <1>1, BoundsAssumption DEF IdleRun, Run, Outcomes
<1>3. IdleRun.pc = "idle"
  BY DEF IdleRun
<1> HIDE DEF IdleRun
<1>4. \A b \in Burns : ~ Holds(IdleRun, b)
  BY <1>3 DEF Holds
<1> QED
  BY <1>2, <1>3, <1>4 DEF RunOK, PlaceOK, Unsent

\* What the invariant says of one run.
LEMMA OfRun ==
  ASSUME SubmitInv, NEW l \in Listeners
  PROVE  /\ run[l] \in Run /\ RunOK(run[l], ledger, circle, late) /\ PlaceOK(run[l])
         /\ outcome \in [Listeners -> Outcomes] /\ run[l].keys \in Seq(Burns)
         /\ Range(run[l].keys) \subseteq Burns
<1>1. run[l] \in Run /\ RunOK(run[l], ledger, circle, late) /\ outcome \in [Listeners -> Outcomes]
  BY Zenon DEF SubmitInv, TypeOK
<1>2. PlaceOK(run[l])
  BY <1>1, Zenon DEF RunOK
<1>3. run[l].keys \in Seq(Burns)
  BY <1>1, Zenon DEF Run
<1>4. Range(run[l].keys) \subseteq Burns
  BY <1>3 DEF Range
<1> QED
  BY <1>1, <1>2, <1>3, <1>4

\* Each attempt is one of the budget.
LEMMA SendInv ==
  ASSUME SubmitInv, NEW l \in Listeners, Send(l)
  PROVE  SubmitInv'
<1> DEFINE r == [run[l] EXCEPT !.pc = "wait", !.attempt = @ + 1]
<1>1. run[l] \in Run /\ RunOK(run[l], ledger, circle, late) /\ PlaceOK(run[l])
  BY OfRun
<1>2. run[l].pc = "send" /\ run' = [run EXCEPT ![l] = r] /\ UNCHANGED <<ledger, outcome, circle, late>>
  BY DEF Send, Goto
<1>3. run[l].attempt + 1 \in 0 .. MaxAttempts
  <2>1. run[l].attempt \in 0 .. MaxAttempts
    BY <1>1 DEF Run
  <2>2. run[l].attempt < MaxAttempts
    BY <1>1, <1>2 DEF PlaceOK
  <2> QED
    BY <2>1, <2>2, BoundsAssumption
<1>4. r \in Run /\ r.pc = "wait" /\ r.keys = run[l].keys
  BY <1>1, <1>3, Zenon DEF Run
<1> HIDE DEF r
<1>5. RunOK(r, ledger, circle, late) /\ \A b \in Burns : Holds(r, b) => Holds(run[l], b)
  BY <1>1, <1>2, <1>4, GoesOn DEF Unsent
<1> QED
  BY <1>2, <1>4, <1>5, QuietStep, OfRun, Zenon

\* Only a 5xx is sent again, and of that Circle has made nothing.
LEMMA RetryInv ==
  ASSUME SubmitInv, NEW l \in Listeners, Retry(l)
  PROVE  SubmitInv'
<1> DEFINE r == [run[l] EXCEPT !.pc = "send"]
<1>1. run[l] \in Run /\ RunOK(run[l], ledger, circle, late)
  BY OfRun
<1>2. /\ run[l].pc = "read" /\ run[l].reply.kind = "http" /\ run[l].attempt < MaxAttempts
      /\ run' = [run EXCEPT ![l] = r] /\ UNCHANGED <<ledger, outcome, circle, late>>
  BY DEF Retry, Goto, is_retryable
<1>3. r \in Run /\ r.pc = "send" /\ r.keys = run[l].keys /\ r.attempt = run[l].attempt
  BY <1>1, Zenon DEF Run
<1> HIDE DEF r
<1>4. RunOK(r, ledger, circle, late) /\ \A b \in Burns : Holds(r, b) => Holds(run[l], b)
  BY <1>1, <1>2, <1>3, GoesOn DEF Unsent
<1> QED
  BY <1>2, <1>3, <1>4, QuietStep, OfRun, Zenon

\* A reply that made nothing, or none at all, to a request that is read now.
LEMMA AnswerInv ==
  ASSUME SubmitInv, NEW l \in Listeners, NEW reply \in Reply, run[l].pc \in {"wait", "read"},
         reply.kind # "created", run[l].pc = "read" => reply.kind = "transport",
         Goto(l, [run[l] EXCEPT !.pc = "read", !.reply = reply]),
         UNCHANGED <<ledger, outcome, circle, late>>
  PROVE  SubmitInv'
<1> DEFINE r == [run[l] EXCEPT !.pc = "read", !.reply = reply]
<1>1. run[l] \in Run /\ RunOK(run[l], ledger, circle, late)
  BY OfRun
<1>2. run' = [run EXCEPT ![l] = r]
  BY DEF Goto
<1>3. r \in Run /\ r.pc = "read" /\ r.keys = run[l].keys /\ r.reply = reply
  BY <1>1, Zenon DEF Run
<1> HIDE DEF r
<1>4. RunOK(r, ledger, circle, late) /\ \A b \in Burns : Holds(r, b) => Holds(run[l], b)
  BY <1>1, <1>3, GoesOn DEF Unsent
<1> QED
  BY <1>2, <1>3, <1>4, QuietStep, OfRun, Zenon

\* A 409 changes nothing at Circle; what it says is believed only where it is checked.
LEMMA CircleConflictsInv ==
  ASSUME SubmitInv, NEW l \in Listeners, CircleConflicts(l)
  PROVE  SubmitInv'
<1>1. PICK b \in Range(run[l].keys) \cup {Foreign}, i \in WithdrawalIds \cup {NoId} :
        Goto(l, [run[l] EXCEPT !.pc = "read",
                               !.reply = [kind |-> "conflict", burn |-> b, id |-> i]])
  BY Zenon DEF CircleConflicts
<1>2. [kind |-> "conflict", burn |-> b, id |-> i] \in Reply
  BY OfRun DEF Reply
<1> QED
  BY <1>1, <1>2, AnswerInv, Zenon DEF CircleConflicts

\* A refusal creates nothing at Circle.
LEMMA CircleRefusesInv ==
  ASSUME SubmitInv, NEW l \in Listeners, CircleRefuses(l)
  PROVE  SubmitInv'
<1>1. PICK r \in [kind : {"http"}, status : {400, 422, 500}] \cup {[kind |-> "malformed"]} :
        Goto(l, [run[l] EXCEPT !.pc = "read", !.reply = r])
  BY DEF CircleRefuses
<1>2. r \in Reply /\ r.kind # "created"
  BY DEF Reply
<1> QED
  BY <1>1, <1>2, AnswerInv, ZenonT(30) DEF CircleRefuses

\* A run that has settled on what to record, in the terms of the step.
LEMMA SettleInv ==
  ASSUME SubmitInv, NEW l \in Listeners, run[l].pc \in {"read", "recover", "confirm"},
         NEW writes, NEW o \in Outcomes \cup {"confirm"}, Settle(l, writes, o),
         UNCHANGED <<ledger, outcome, circle, late>>,
         Covers(writes, run[l].keys),
         o = "confirm" => run[l].reply.kind = "created" /\ Len(run[l].keys) = 1,
         \A n \in DOMAIN writes :
           WriteOK([then |-> o, reply |-> run[l].reply], writes[n], circle, late)
  PROVE  SubmitInv'
<1> DEFINE r == [run[l] EXCEPT !.pc = "write", !.writes = writes, !.then = o]
<1>1. run[l] \in Run /\ RunOK(run[l], ledger, circle, late)
  BY OfRun
<1>2. run' = [run EXCEPT ![l] = r]
  BY DEF Settle, Goto
<1>3. r.then = o /\ r.reply = run[l].reply
  BY <1>1 DEF Run
<1>4. \A n \in DOMAIN writes : WriteOK(r, writes[n], circle, late)
  BY <1>3, Zenon DEF WriteOK
<1>5. r \in Run /\ RunOK(r, ledger, circle, late) /\ \A b \in Burns : Holds(r, b) => Holds(run[l], b)
  BY <1>1, <1>4, Settles, Zenon
<1> HIDE DEF r
<1> QED
  BY <1>2, <1>5, QuietStep, OfRun, Zenon

\* Every burn of the request is blocked, whatever was sent.
LEMMA MarkAllInv ==
  ASSUME SubmitInv, NEW l \in Listeners, run[l].pc = "read",
         NEW o \in Outcomes \ {"rejected"}, Settle(l, mark_all_reconciliation(run[l].keys), o),
         UNCHANGED <<ledger, outcome, circle, late>>
  PROVE  SubmitInv'
<1> DEFINE writes == mark_all_reconciliation(run[l].keys)
<1>1. run[l].keys \in Seq(Burns) /\ run[l].keys # <<>> /\ IsInjective(run[l].keys)
  BY OfRun, Zenon DEF PlaceOK
<1>2. /\ Covers(writes, run[l].keys)
      /\ \A n \in DOMAIN writes : writes[n].to = "reconciliation_required" /\ writes[n].id = NoId
  BY <1>1, MarkAll
<1>3. Settle(l, writes, o)
  BY Zenon
<1> HIDE DEF writes
<1>4. \A n \in DOMAIN writes : WriteOK([then |-> o, reply |-> run[l].reply], writes[n], circle, late)
  BY <1>2, Zenon DEF WriteOK
<1>5. o # "confirm" /\ o \in Outcomes \cup {"confirm"}
  BY DEF Outcomes
<1> QED
  BY <1>2, <1>3, <1>4, <1>5, SettleInv, Zenon

\* settle_created: a status that echoes a burn of the request is that burn's, when the
\* echoed burns are the request's.
LEMMA CreatedInv ==
  ASSUME SubmitInv, NEW l \in Listeners, Created(l)
  PROVE  SubmitInv'
<1> DEFINE keys == run[l].keys
           statuses == run[l].reply.statuses
           Echoed == {statuses[n].burn : n \in DOMAIN statuses}
           place(b) == CHOOSE n \in DOMAIN statuses : statuses[n].burn = b
           writes == [n \in DOMAIN keys |->
                        [key |-> keys[n], to |-> "submitted", id |-> statuses[place(keys[n])].id]]
           o == IF Len(keys) = 1 THEN "confirm" ELSE "submitted"
<1>1. /\ run[l].pc = "read" /\ run[l].reply.kind = "created"
      /\ UNCHANGED <<ledger, outcome, circle, late>> /\ settle_created(l)
  BY DEF Created
<1>2. CASE Echoed # Range(keys)
  <2>1. Settle(l, mark_all_reconciliation(keys), "echo_mismatch")
    BY <1>1, <1>2 DEF settle_created
  <2> QED
    BY <1>1, <2>1, MarkAllInv, Zenon DEF Outcomes
<1>3. CASE Echoed = Range(keys)
  <2>1. Settle(l, writes, o)
    BY <1>1, <1>3, Zenon DEF settle_created
  <2>2. keys \in Seq(Burns) /\ keys # <<>> /\ IsInjective(keys) /\ run[l] \in Run
    BY <1>1, OfRun, Zenon DEF PlaceOK
  <2>3. statuses \in Seq([burn : Burns \cup {Foreign}, id : WithdrawalIds])
    BY <1>1, <2>2 DEF Run, Reply
  <2>4. \A n \in DOMAIN statuses : IsOf(circle, statuses[n].id, statuses[n].burn)
    BY <1>1, <1>3, OfRun, Zenon DEF RunOK
  <2>5. \A n \in DOMAIN keys : /\ place(keys[n]) \in DOMAIN statuses
                               /\ statuses[place(keys[n])].burn = keys[n]
    <3> SUFFICES ASSUME NEW n \in DOMAIN keys
                 PROVE  /\ place(keys[n]) \in DOMAIN statuses
                        /\ statuses[place(keys[n])].burn = keys[n]
      BY Zenon
    <3>1. keys[n] \in Echoed
      BY <1>3, Zenon DEF Range
    <3>2. \E m \in DOMAIN statuses : statuses[m].burn = keys[n]
      BY <3>1
    <3> QED
      BY <3>2, Zenon
  <2>6. \A n \in DOMAIN keys : IsOf(circle, statuses[place(keys[n])].id, keys[n])
    BY <2>4, <2>5, Zenon
  <2> HIDE DEF place
  <2>7. DOMAIN writes = DOMAIN keys /\ writes = [n \in DOMAIN keys |-> writes[n]]
    BY Zenon
  <2>8. \A n \in DOMAIN keys : /\ writes[n] \in Write /\ writes[n].key = keys[n]
                               /\ writes[n].to = "submitted"
                               /\ IsOf(circle, writes[n].id, writes[n].key)
    <3> SUFFICES ASSUME NEW n \in DOMAIN keys
                 PROVE  /\ writes[n] \in Write /\ writes[n].key = keys[n]
                        /\ writes[n].to = "submitted"
                        /\ IsOf(circle, writes[n].id, writes[n].key)
      BY Zenon
    <3>1. keys[n] \in Burns
      BY <2>2
    <3>2. statuses[place(keys[n])].id \in WithdrawalIds
      BY <2>6, Zenon DEF IsOf
    <3> QED
      BY <3>1, <3>2, <2>6, Zenon DEF Write, SubmissionStatus
  <2> HIDE DEF writes
  <2>9. Covers(writes, keys)
    BY <2>2, <2>7, <2>8, InOrder, Zenon
  <2>10. o \in Outcomes \cup {"confirm"} /\ o # "rejected" /\ (o = "confirm" => Len(keys) = 1)
    BY DEF Outcomes
  <2> HIDE DEF o
  <2>11. \A n \in DOMAIN writes : WriteOK([then |-> o, reply |-> run[l].reply], writes[n], circle, late)
    BY <2>7, <2>8, <2>10, Zenon DEF WriteOK
  <2> QED
    BY <1>1, <2>1, <2>9, <2>10, <2>11, SettleInv, Zenon
<1> QED
  BY <1>2, <1>3

\* A 409 that names a withdrawal of a burn of the request goes on to its recovery, any other
\* blocks all its burns.
LEMMA ConflictInv ==
  ASSUME SubmitInv, NEW l \in Listeners, Conflict(l)
  PROVE  SubmitInv'
<1>1. /\ run[l].pc = "read" /\ run[l].reply.kind = "conflict"
      /\ UNCHANGED <<ledger, outcome, circle, late>>
  BY Zenon DEF Conflict
<1>2. CASE Settle(l, mark_all_reconciliation(run[l].keys), "echo_mismatch")
  BY <1>1, <1>2, MarkAllInv DEF Outcomes
<1>3. CASE Settle(l, mark_all_reconciliation(run[l].keys), "reconciliation")
  BY <1>1, <1>3, MarkAllInv, Zenon DEF Outcomes
<1>4. CASE /\ run[l].reply.burn \in Range(run[l].keys) /\ run[l].reply.id # NoId
           /\ Goto(l, [run[l] EXCEPT !.pc = "recover"])
  <2> DEFINE r == [run[l] EXCEPT !.pc = "recover"]
  <2>1. run[l] \in Run /\ RunOK(run[l], ledger, circle, late)
    BY OfRun
  <2>2. run' = [run EXCEPT ![l] = r]
    BY <1>4 DEF Goto
  <2>3. r \in Run /\ r.pc = "recover" /\ r.keys = run[l].keys /\ r.reply = run[l].reply
    BY <2>1, Zenon DEF Run
  <2> HIDE DEF r
  <2>4. RunOK(r, ledger, circle, late) /\ \A b \in Burns : Holds(r, b) => Holds(run[l], b)
    BY <1>1, <1>4, <2>1, <2>3, GoesOn DEF Unsent
  <2> QED
    BY <1>1, <2>2, <2>3, <2>4, QuietStep, OfRun, Zenon
<1> QED
  BY <1>2, <1>3, <1>4, Zenon DEF Conflict

\* settle_failure: only the burns of a request that made nothing are released.
LEMMA FailureInv ==
  ASSUME SubmitInv, NEW l \in Listeners, Failure(l)
  PROVE  SubmitInv'
<1> DEFINE keys == run[l].keys
           writes == [n \in DOMAIN keys |-> [key |-> keys[n], to |-> "failed", id |-> NoId]]
<1>1. run[l].pc = "read" /\ UNCHANGED <<ledger, outcome, circle, late>> /\ settle_failure(l)
  BY Zenon DEF Failure
<1>2. CASE Settle(l, mark_all_reconciliation(keys), "circle_error")
  BY <1>1, <1>2, MarkAllInv, Zenon DEF Outcomes
<1>3. CASE run[l].reply.kind = "http" /\ Settle(l, writes, "rejected")
  <2>1. keys \in Seq(Burns) /\ keys # <<>> /\ IsInjective(keys)
    BY <1>1, OfRun, Zenon DEF PlaceOK
  <2>2. \A n \in DOMAIN keys : ~ Sent(circle, late, keys[n])
    BY <1>1, <1>3, OfRun DEF RunOK, Unsent, Range
  <2>3. DOMAIN writes = DOMAIN keys /\ writes = [n \in DOMAIN keys |-> writes[n]]
    BY Zenon
  <2>4. \A n \in DOMAIN keys : /\ writes[n] \in Write /\ writes[n].key = keys[n]
                               /\ writes[n].to = "failed" /\ writes[n].id = NoId
    BY <2>1 DEF Write, SubmissionStatus
  <2> HIDE DEF writes
  <2>5. Covers(writes, keys)
    BY <2>1, <2>3, <2>4, InOrder, Zenon
  <2>6. \A n \in DOMAIN writes :
          WriteOK([then |-> "rejected", reply |-> run[l].reply], writes[n], circle, late)
    BY <2>2, <2>3, <2>4 DEF WriteOK
  <2> QED
    BY <1>1, <1>3, <2>5, <2>6, SettleInv, Zenon DEF Outcomes
<1> QED
  BY <1>1, <1>2, <1>3 DEF settle_failure

\* A run that reports and ends without touching the ledger or Circle.
LEMMA FinishInv ==
  ASSUME SubmitInv, NEW l \in Listeners, NEW o \in Outcomes, Finish(l, o),
         UNCHANGED <<ledger, circle, late>>
  PROVE  SubmitInv'
<1>1. run' = [run EXCEPT ![l] = IdleRun] /\ outcome' \in [Listeners -> Outcomes]
  BY OfRun DEF Finish
<1>2. /\ IdleRun \in Run /\ RunOK(IdleRun, ledger, circle, late)
      /\ \A b \in Burns : Holds(IdleRun, b) => Holds(run[l], b)
  BY Finishes
<1> QED
  BY <1>1, <1>2, QuietStep, Zenon

\* A run that ends with a ledger error leaves its rows as they were.
LEMMA LedgerFailsInv ==
  ASSUME SubmitInv, NEW l \in Listeners, LedgerFails(l)
  PROVE  SubmitInv'
<1>1. "ledger_error" \in Outcomes
  BY DEF Outcomes
<1> QED
  BY <1>1, FinishInv DEF LedgerFails

\* A poll that has not settled is repeated and nothing else.
LEMMA PollAgainInv ==
  ASSUME SubmitInv, NEW l \in Listeners, PollAgain(l)
  PROVE  SubmitInv'
<1> DEFINE r == [run[l] EXCEPT !.polls = @ + 1]
<1>1. run[l] \in Run /\ RunOK(run[l], ledger, circle, late)
  BY OfRun
<1>2. /\ run' = [run EXCEPT ![l] = r] /\ UNCHANGED <<ledger, outcome, circle, late>>
      /\ run[l].polls + 1 < MaxPolls /\ run[l].pc \in {"recover", "confirm"}
  BY DEF PollAgain, Goto
<1>3. run[l].polls + 1 \in 0 .. MaxPolls
  <2>1. run[l].polls \in 0 .. MaxPolls
    BY <1>1 DEF Run
  <2> QED
    BY <2>1, <1>2, BoundsAssumption
<1>4. /\ r \in Run /\ r.pc = run[l].pc /\ r.keys = run[l].keys /\ r.reply = run[l].reply
      /\ r.writes = run[l].writes /\ r.then = run[l].then /\ r.attempt = run[l].attempt
  BY <1>1, <1>3, Zenon DEF Run
<1> HIDE DEF r
<1>5. \A b \in Burns : Holds(r, b) <=> Holds(run[l], b)
  BY <1>4 DEF Holds
<1>6. PlaceOK(r)
  BY <1>1, <1>2, <1>4, ZenonT(30) DEF RunOK, PlaceOK
<1>7. RunOK(r, ledger, circle, late)
  BY <1>1, <1>2, <1>4, <1>5, <1>6 DEF RunOK, Unsent
<1> QED
  BY <1>2, <1>4, <1>5, <1>7, QuietStep, OfRun, Zenon

\* What a run in recovery has in hand: a withdrawal the 409 named, for a burn of its own.
LEMMA InRecovery ==
  ASSUME SubmitInv, NEW l \in Listeners, run[l].pc = "recover"
  PROVE  LET keys == run[l].keys
             at == position_of(keys, run[l].reply.burn)
         IN  /\ keys \in Seq(Burns) /\ keys # <<>> /\ IsInjective(keys)
             /\ at \in DOMAIN keys /\ keys[at] = run[l].reply.burn
             /\ run[l].reply.burn \in Burns /\ run[l].reply.id \in WithdrawalIds
             /\ Names(run[l].reply, run[l].reply.burn, run[l].reply.id)
<1> DEFINE keys == run[l].keys
           at == position_of(keys, run[l].reply.burn)
<1>1. /\ keys \in Seq(Burns) /\ keys # <<>> /\ IsInjective(keys) /\ Range(keys) \subseteq Burns
      /\ run[l].reply.kind = "conflict" /\ run[l].reply.id # NoId
      /\ run[l].reply.burn \in Range(keys) /\ run[l] \in Run
  BY OfRun, Zenon DEF PlaceOK
<1>2. run[l].reply.id \in WithdrawalIds
  <2>1. run[l].reply \in Reply
    BY <1>1, Zenon DEF Run
  <2> QED
    BY <1>1, <2>1 DEF Reply
<1>3. \E n \in DOMAIN keys : keys[n] = run[l].reply.burn
  BY <1>1, Zenon DEF Range
<1>4. at \in DOMAIN keys /\ keys[at] = run[l].reply.burn
  BY <1>3 DEF position_of
<1> QED
  BY <1>1, <1>2, <1>4, Zenon DEF Names

\* What recovery records: something true about the burn the 409 named, and a block for the
\* others.
LEMMA RecordInv ==
  ASSUME SubmitInv, NEW l \in Listeners, run[l].pc = "recover",
         NEW w \in Write, w.key = run[l].reply.burn, NEW o \in Outcomes \ {"rejected"},
         Settle(l, <<w>> \o block_others(run[l].keys, position_of(run[l].keys, w.key)), o),
         WriteOK([then |-> o, reply |-> run[l].reply], w, circle, late),
         UNCHANGED <<ledger, outcome, circle, late>>
  PROVE  SubmitInv'
<1> DEFINE keys == run[l].keys
           at == position_of(keys, w.key)
           writes == <<w>> \o block_others(keys, at)
<1>1. /\ keys \in Seq(Burns) /\ keys # <<>> /\ IsInjective(keys)
      /\ at \in DOMAIN keys /\ keys[at] = w.key
  BY InRecovery, Zenon
<1>2. /\ Covers(writes, keys)
      /\ \A n \in DOMAIN writes : \/ writes[n] = w
                                  \/ /\ writes[n].to = "reconciliation_required"
                                     /\ writes[n].id = NoId
  BY <1>1, OthersBlocked, Zenon
<1>3. Settle(l, writes, o)
  BY Zenon
<1> HIDE DEF writes
<1>4. \A n \in DOMAIN writes : WriteOK([then |-> o, reply |-> run[l].reply], writes[n], circle, late)
  BY <1>2 DEF WriteOK
<1>5. o # "confirm" /\ o \in Outcomes \cup {"confirm"}
  BY DEF Outcomes
<1> QED
  BY <1>2, <1>3, <1>4, <1>5, SettleInv, Zenon

\* The named burn is blocked too, with the id the 409 named for it.
LEMMA BindingInv ==
  ASSUME SubmitInv, NEW l \in Listeners, run[l].pc = "recover", NEW o \in Outcomes \ {"rejected"},
         Settle(l, block_binding_id_to(run[l].keys, position_of(run[l].keys, run[l].reply.burn),
                                       run[l].reply.id), o),
         UNCHANGED <<ledger, outcome, circle, late>>
  PROVE  SubmitInv'
<1> DEFINE w == Blocked(run[l].reply.burn, run[l].reply.id)
<1>1. /\ run[l].reply.burn \in Burns /\ run[l].reply.id \in WithdrawalIds
      /\ Names(run[l].reply, run[l].reply.burn, run[l].reply.id)
      /\ run[l].keys[position_of(run[l].keys, run[l].reply.burn)] = run[l].reply.burn
  BY InRecovery, Zenon
<1>2. w \in Write /\ w.key = run[l].reply.burn /\ w.to = "reconciliation_required"
        /\ w.id = run[l].reply.id
  BY <1>1, Zenon DEF Blocked, Write, SubmissionStatus
<1>3. Settle(l, <<w>> \o block_others(run[l].keys, position_of(run[l].keys, w.key)), o)
  BY <1>1, <1>2, Zenon DEF block_binding_id_to
<1> HIDE DEF w
<1>4. WriteOK([then |-> o, reply |-> run[l].reply], w, circle, late)
  BY <1>1, <1>2, Zenon DEF WriteOK
<1> QED
  BY <1>2, <1>3, <1>4, RecordInv, Zenon

\* recover_conflict: finalized is recorded only where the answer is about that burn.
LEMMA RecoverInv ==
  ASSUME SubmitInv, NEW l \in Listeners, Recover(l)
  PROVE  SubmitInv'
<1> DEFINE burn == run[l].reply.burn
           id == run[l].reply.id
           at == position_of(run[l].keys, burn)
           w == [key |-> burn, to |-> "finalized", id |-> id]
<1>1. /\ run[l].pc = "recover" /\ UNCHANGED <<ledger, outcome, circle, late>>
      /\ "echo_mismatch" \in Outcomes \ {"rejected"} /\ "recovered" \in Outcomes \ {"rejected"}
  BY Zenon DEF Recover, Outcomes
<1>2. PICK status \in Polled(id) :
        \/ Settle(l, block_binding_id_to(run[l].keys, at, id), "echo_mismatch")
        \/ /\ status.burn = burn /\ status.status = "finalized"
           /\ Settle(l, <<w>> \o block_others(run[l].keys, at), "recovered")
        \/ Settle(l, block_binding_id_to(run[l].keys, at, id), "recovered")
  BY Zenon DEF Recover
<1>3. CASE Settle(l, block_binding_id_to(run[l].keys, at, id), "echo_mismatch")
  BY <1>1, <1>3, BindingInv, Zenon
<1>4. CASE Settle(l, block_binding_id_to(run[l].keys, at, id), "recovered")
  BY <1>1, <1>4, BindingInv, Zenon
<1>5. CASE /\ status.burn = burn /\ status.status = "finalized"
           /\ Settle(l, <<w>> \o block_others(run[l].keys, at), "recovered")
  <2>1. burn \in Burns /\ id \in WithdrawalIds
    BY <1>1, InRecovery, Zenon
  <2>2. circle[id].burn = burn /\ circle[id].status = "finalized"
    BY <1>5, <2>1, RequestsAssumption, Zenon DEF Polled
  <2>3. w \in Write /\ w.key = burn /\ w.to = "finalized" /\ w.id = id
    BY <2>1, Zenon DEF Write, SubmissionStatus
  <2>4. Settle(l, <<w>> \o block_others(run[l].keys, position_of(run[l].keys, w.key)), "recovered")
    BY <1>5, <2>3, Zenon
  <2> HIDE DEF w
  <2>5. WriteOK([then |-> "recovered", reply |-> run[l].reply], w, circle, late)
    BY <2>1, <2>2, <2>3 DEF WriteOK, IsOf
  <2> QED
    BY <1>1, <2>3, <2>4, <2>5, RecordInv, Zenon
<1> QED
  BY <1>2, <1>3, <1>4, <1>5, Zenon

\* A sequence that is not empty has a first element.
LEMMA FirstOf ==
  ASSUME NEW S, NEW s \in Seq(S), s # <<>>
  PROVE  s[1] \in S
<1>1. Len(s) \in Nat \ {0}
  OBVIOUS
<1> QED
  BY <1>1

\* The confirmation records finalized for the withdrawal that was polled.
LEMMA ConfirmInv ==
  ASSUME SubmitInv, NEW l \in Listeners, Confirm(l)
  PROVE  SubmitInv'
<1> DEFINE id == run[l].reply.statuses[1].id
           burn == run[l].keys[1]
           w == [key |-> burn, to |-> "finalized", id |-> id]
<1>1. /\ run[l].pc = "confirm" /\ UNCHANGED <<ledger, circle, late>>
      /\ "echo_mismatch" \in Outcomes /\ "expired" \in Outcomes /\ "withdrawn" \in Outcomes
  BY Zenon DEF Confirm, Outcomes
<1>2. PICK status \in Polled(id) :
        \/ Finish(l, "echo_mismatch")
        \/ /\ status.burn = burn /\ status.status = "finalized"
           /\ Settle(l, <<w>>, "withdrawn") /\ UNCHANGED outcome
        \/ Finish(l, IF status.status = "expired" THEN "expired" ELSE "withdrawn")
  BY DEF Confirm
<1>3. CASE Finish(l, "echo_mismatch")
  BY <1>1, <1>3, FinishInv
<1>4. CASE Finish(l, IF status.status = "expired" THEN "expired" ELSE "withdrawn")
  BY <1>1, <1>4, FinishInv, Zenon
<1>5. CASE /\ status.burn = burn /\ status.status = "finalized"
           /\ Settle(l, <<w>>, "withdrawn") /\ UNCHANGED outcome
  <2>1. /\ run[l] \in Run /\ run[l].keys \in Seq(Burns) /\ Len(run[l].keys) = 1
        /\ run[l].reply.kind = "created"
    BY <1>1, OfRun DEF PlaceOK
  <2>2. burn \in Burns /\ Range(run[l].keys) = {burn}
    BY <2>1 DEF Range
  <2>3. id \in WithdrawalIds
    <3>1. run[l].reply \in Reply
      BY <2>1 DEF Run
    <3>2. run[l].reply.statuses \in Seq([burn : Burns \cup {Foreign}, id : WithdrawalIds]) \ {<<>>}
      BY <2>1, <3>1 DEF Reply
    <3>3. run[l].reply.statuses[1] \in [burn : Burns \cup {Foreign}, id : WithdrawalIds]
      BY <3>2, FirstOf, Zenon
    <3> QED
      BY <3>3
  <2>4. circle[id].burn = burn /\ circle[id].status = "finalized"
    BY <1>5, <2>2, RequestsAssumption, Zenon DEF Polled
  <2>5. w \in Write /\ w.key = burn /\ w.to = "finalized" /\ w.id = id
    BY <2>2, <2>3, Zenon DEF Write, SubmissionStatus
  <2> HIDE DEF w
  <2>6. Covers(<<w>>, run[l].keys)
    BY <2>2, <2>5 DEF Covers
  <2>7. WriteOK([then |-> "withdrawn", reply |-> run[l].reply], w, circle, late)
    BY <2>3, <2>4, <2>5, Zenon DEF WriteOK, IsOf
  <2>8. \A n \in DOMAIN <<w>> : <<w>>[n] = w
    OBVIOUS
  <2> DEFINE writes == <<w>>
  <2>9. /\ Covers(writes, run[l].keys) /\ Settle(l, writes, "withdrawn")
        /\ \A n \in DOMAIN writes :
             WriteOK([then |-> "withdrawn", reply |-> run[l].reply], writes[n], circle, late)
    BY <1>5, <2>6, <2>7, <2>8, Zenon
  <2> HIDE DEF writes
  <2> QED
    BY <1>1, <1>5, <2>9, SettleInv, Zenon DEF w
<1> QED
  BY <1>2, <1>3, <1>4, <1>5, Zenon

\* A poll that fails blocks the burns of a 409 that is recovered, or ends a confirmation.
LEMMA PollFailsInv ==
  ASSUME SubmitInv, NEW l \in Listeners, PollFails(l)
  PROVE  SubmitInv'
<1>1. "circle_error" \in Outcomes \ {"rejected"}
  BY DEF Outcomes
<1> QED
  BY <1>1, BindingInv, FinishInv DEF PollFails

-----------------------------------------------------------------------------
(* Circle and the operator *)

\* A POST that Circle takes gives each of its burns an id that was free, and changes no
\* other withdrawal.
LEMMA CreatesNew ==
  ASSUME circle \in CircleType, NEW keys \in SUBSET Burns, NEW a \in Assignments(keys),
         NEW by \in {"us", "other"}, Creates(a, by)
  PROVE  /\ circle' \in CircleType
         /\ \A i \in WithdrawalIds, b \in Burns \cup {Foreign} : IsOf(circle, i, b) => IsOf(circle', i, b)
         /\ \A i \in WithdrawalIds : circle[i].status = "finalized" => circle'[i].status = "finalized"
         /\ \A i \in WithdrawalIds, b \in Burns :
              IsOf(circle', i, b) => \/ IsOf(circle, i, b) /\ circle'[i].by = circle[i].by
                                     \/ b \in keys /\ i = a[b] /\ circle'[i].by = by
         /\ \A b \in keys : IsOf(circle', a[b], b)
<1>1. \A b \in keys : a[b] \in WithdrawalIds /\ circle[a[b]] = NoWithdrawal
  BY Zenon DEF Assignments, FreeIds
<1>2. DOMAIN a = keys /\ \A b, k \in keys : a[b] = a[k] => b = k
  BY DEF Assignments, IsInjective
<1>3. ASSUME NEW i \in WithdrawalIds
      PROVE  \/ circle'[i] = circle[i] /\ \A b \in keys : a[b] # i
             \/ /\ circle[i] = NoWithdrawal
                /\ \E b \in keys : /\ a[b] = i
                                   /\ circle'[i] = [burn |-> b, status |-> "created", by |-> by]
  <2>1. CASE \E b \in keys : a[b] = i
    <3>1. PICK b \in keys : a[b] = i
      BY <2>1
    <3>2. (CHOOSE k \in DOMAIN a : a[k] = i) = b
      BY <1>2, <3>1
    <3>3. circle'[i] = [burn |-> b, status |-> "created", by |-> by]
      BY <1>2, <3>1, <3>2 DEF Creates
    <3> QED
      BY <1>1, <3>1, <3>3
  <2>2. CASE ~ \E b \in keys : a[b] = i
    BY <1>2, <2>2 DEF Creates
  <2> QED
    BY <2>1, <2>2, Zenon
<1>4. circle' \in CircleType
  <2>1. circle' = [i \in WithdrawalIds |-> circle'[i]]
    BY Zenon DEF Creates
  <2>2. ASSUME NEW i \in WithdrawalIds
        PROVE  circle'[i] \in [burn : Burns \cup {Foreign}, status : WithdrawalStatusKind \cup {"none"},
                               by : {"us", "other", "none"}]
    <3>1. CASE circle'[i] = circle[i]
      BY <3>1 DEF CircleType
    <3>2. CASE \E b \in keys : circle'[i] = [burn |-> b, status |-> "created", by |-> by]
      <4>1. PICK b \in keys : circle'[i] = [burn |-> b, status |-> "created", by |-> by]
        BY <3>2, Zenon
      <4> QED
        BY <4>1 DEF WithdrawalStatusKind
    <3> QED
      BY <1>3, <3>1, <3>2
  <2> QED
    BY <2>1, <2>2, Zenon DEF CircleType
<1>5. \A i \in WithdrawalIds : circle[i] = NoWithdrawal => circle[i].status = "none"
  BY DEF NoWithdrawal
<1>6. \A b \in keys : circle'[a[b]] = [burn |-> b, status |-> "created", by |-> by]
  <2> SUFFICES ASSUME NEW b \in keys
               PROVE  circle'[a[b]] = [burn |-> b, status |-> "created", by |-> by]
    BY Zenon
  <2>1. a[b] \in WithdrawalIds
    BY <1>1, Zenon
  <2>2. PICK k \in keys : /\ a[k] = a[b]
                         /\ circle'[a[b]] = [burn |-> k, status |-> "created", by |-> by]
    BY <1>3, <2>1, Zenon
  <2> QED
    BY <1>2, <2>2, Zenon
<1>7. \A i \in WithdrawalIds, b \in Burns \cup {Foreign} : IsOf(circle, i, b) => IsOf(circle', i, b)
  BY <1>3, <1>5, Zenon DEF IsOf
<1>8. \A i \in WithdrawalIds : circle[i].status = "finalized" => circle'[i].status = "finalized"
  BY <1>3, <1>5, Zenon
<1>9. \A i \in WithdrawalIds, b \in Burns :
        IsOf(circle', i, b) => \/ IsOf(circle, i, b) /\ circle'[i].by = circle[i].by
                               \/ b \in keys /\ i = a[b] /\ circle'[i].by = by
  <2> SUFFICES ASSUME NEW i \in WithdrawalIds, NEW b \in Burns, IsOf(circle', i, b)
               PROVE  \/ IsOf(circle, i, b) /\ circle'[i].by = circle[i].by
                      \/ b \in keys /\ i = a[b] /\ circle'[i].by = by
    BY Zenon
  <2>1. CASE circle'[i] = circle[i]
    BY <2>1, Zenon DEF IsOf
  <2>2. CASE \E k \in keys : /\ a[k] = i
                             /\ circle'[i] = [burn |-> k, status |-> "created", by |-> by]
    <3>1. PICK k \in keys : /\ a[k] = i
                           /\ circle'[i] = [burn |-> k, status |-> "created", by |-> by]
      BY <2>2, Zenon
    <3>2. circle'[i].burn = k /\ circle'[i].by = by
      BY <3>1
    <3>3. b = k
      BY <3>2, Zenon DEF IsOf
    <3> QED
      BY <3>1, <3>2, <3>3, Zenon
  <2> QED
    BY <1>3, <2>1, <2>2, Zenon
<1>10. \A b \in keys : IsOf(circle', a[b], b)
  <2> SUFFICES ASSUME NEW b \in keys PROVE IsOf(circle', a[b], b)
    BY Zenon
  <2>1. circle'[a[b]] = [burn |-> b, status |-> "created", by |-> by]
    BY <1>6
  <2>2. circle'[a[b]].burn = b /\ circle'[a[b]].status = "created"
    BY <2>1
  <2> QED
    BY <1>1, <2>2 DEF IsOf
<1> QED
  BY <1>4, <1>7, <1>8, <1>9, <1>10, Zenon

\* What the invariant says of the world, and of the runs' hold on it.
LEMMA OfWorld ==
  ASSUME SubmitInv
  PROVE  /\ TypeOK /\ circle \in CircleType /\ late \in SUBSET (SUBSET Burns)
         /\ SentOnce(ledger, circle, late) /\ RowsTrue(ledger, circle)
         /\ \A b \in Burns, m \in Listeners : Holds(run[m], b) => blocks_resubmission(ledger[b].status)
<1>1. TypeOK /\ circle \in CircleType /\ late \in SUBSET (SUBSET Burns)
  BY Zenon DEF SubmitInv, TypeOK, CircleType
<1>2. \A b \in Burns, m \in Listeners : Holds(run[m], b) => blocks_resubmission(ledger[b].status)
  <2> SUFFICES ASSUME NEW b \in Burns, NEW m \in Listeners, Holds(run[m], b)
               PROVE  blocks_resubmission(ledger[b].status)
    OBVIOUS
  <2>1. RunOK(run[m], ledger, circle, late)
    BY OfRun
  <2> QED
    BY <2>1 DEF RunOK
<1> QED
  BY <1>1, <1>2 DEF SubmitInv

\* The rows stay true when Circle only goes on.
LEMMA RowsKept ==
  ASSUME NEW g, NEW c, NEW d, RowsTrue(g, c), Onward(g, g, c, d)
  PROVE  RowsTrue(g, d)
BY Zenon DEF RowsTrue, Onward, IsOf

\* A request under way is taken, or dropped, without a listener.
LEMMA LateArrivalInv ==
  ASSUME SubmitInv, LateArrival
  PROVE  SubmitInv'
<1>1. PICK keys \in late :
        /\ late' = late \ {keys}
        /\ \/ UNCHANGED circle
           \/ \E a \in Assignments(keys) : Creates(a, "us")
  BY DEF LateArrival
<1>2. UNCHANGED <<ledger, run, outcome>>
  BY DEF LateArrival
<1>3. /\ TypeOK /\ circle \in CircleType /\ keys \in SUBSET Burns /\ SentOnce(ledger, circle, late)
      /\ RowsTrue(ledger, circle)
      /\ \A b \in Burns, m \in Listeners : Holds(run[m], b) => blocks_resubmission(ledger[b].status)
  BY OfWorld, Zenon
<1>4. /\ circle' \in CircleType
      /\ \A i \in WithdrawalIds, b \in Burns \cup {Foreign} : IsOf(circle, i, b) => IsOf(circle', i, b)
      /\ \A i \in WithdrawalIds : circle[i].status = "finalized" => circle'[i].status = "finalized"
      /\ \A i, j \in WithdrawalIds, b \in Burns :
           IsOf(circle', i, b) /\ IsOf(circle', j, b) =>
              \/ IsOf(circle, i, b) /\ circle'[i].by = circle[i].by
              \/ b \in keys /\ (i = j \/ (IsOf(circle, j, b) /\ circle'[j].by = circle[j].by))
  <2>1. CASE UNCHANGED circle
    BY <1>3, <2>1
  <2>2. CASE \E a \in Assignments(keys) : Creates(a, "us")
    <3>1. PICK a \in Assignments(keys) : Creates(a, "us")
      BY <2>2, Zenon
    <3> QED
      BY <1>3, <3>1, CreatesNew
  <2> QED
    BY <1>1, <2>1, <2>2
<1>5. Onward(ledger, ledger', circle, circle')
  BY <1>2, <1>4, Zenon DEF Onward
<1>6. \A b \in Burns : Sent(circle', late', b) => Sent(circle, late, b)
  BY <1>1, <1>4, Zenon DEF Sent
<1>7. SentOnce(ledger', circle', late')
  <2> SUFFICES ASSUME NEW b \in Burns
               PROVE  /\ Sent(circle', late', b) => blocks_resubmission(ledger[b].status)
                      /\ \A i, j \in WithdrawalIds :
                           (IsOf(circle', i, b) /\ IsOf(circle', j, b)
                              /\ circle'[i].by = "us" /\ circle'[j].by = "us") => i = j
                      /\ \A k \in late' : b \in k =>
                           /\ \A i \in WithdrawalIds : IsOf(circle', i, b) => circle'[i].by # "us"
                           /\ \A others \in late' : b \in others => others = k
    BY <1>2, Zenon DEF SentOnce
  <2>1. /\ Sent(circle, late, b) => blocks_resubmission(ledger[b].status)
        /\ \A i, j \in WithdrawalIds :
             (IsOf(circle, i, b) /\ IsOf(circle, j, b) /\ circle[i].by = "us" /\ circle[j].by = "us") => i = j
        /\ \A k \in late : b \in k =>
             /\ \A i \in WithdrawalIds : IsOf(circle, i, b) => circle[i].by # "us"
             /\ \A others \in late : b \in others => others = k
    BY <1>3, Zenon DEF SentOnce
  <2>2. ASSUME NEW i \in WithdrawalIds, NEW j \in WithdrawalIds, IsOf(circle', i, b), IsOf(circle', j, b),
               circle'[i].by = "us", circle'[j].by = "us"
        PROVE  i = j
    <3>1. b \in keys => \A k \in WithdrawalIds : IsOf(circle, k, b) => circle[k].by # "us"
      BY <2>1, <1>1, Zenon
    <3> QED
      BY <1>4, <2>1, <2>2, <3>1
  <2>3. ASSUME NEW k \in late', b \in k, NEW i \in WithdrawalIds, IsOf(circle', i, b)
        PROVE  circle'[i].by # "us"
    <3>1. k \in late /\ k # keys
      BY <1>1, <2>3, Zenon
    <3>2. b \notin keys
      BY <1>1, <2>1, <2>3, <3>1, Zenon
    <3>3. IsOf(circle, i, b) /\ circle'[i].by = circle[i].by
      BY <1>4, <2>3, <3>2, Zenon
    <3> QED
      BY <2>1, <2>3, <3>1, <3>3, Zenon
  <2>4. \A k \in late' : b \in k => \A others \in late' : b \in others => others = k
    BY <1>1, <2>1, Zenon
  <2> QED
    BY <1>6, <2>1, <2>2, <2>3, <2>4, Zenon
<1>8. RowsTrue(ledger', circle')
  BY <1>2, <1>3, <1>5, RowsKept, Zenon
<1>9. TypeOK'
  BY <1>1, <1>2, <1>3, <1>4 DEF TypeOK, LedgerTypeOK, CircleType
<1> QED
  BY <1>2, <1>3, <1>5, <1>6, <1>7, <1>8, <1>9, WorldStep

\* A withdrawal of another deployment is not one of these listeners'.
LEMMA ElsewhereInv ==
  ASSUME SubmitInv, Elsewhere
  PROVE  SubmitInv'
<1>0. PICK k \in Burns : \E a \in Assignments({k}) : Creates(a, "other")
  BY Zenon DEF Elsewhere
<1>1. PICK a \in Assignments({k}) : Creates(a, "other")
  BY <1>0
<1>2. UNCHANGED <<ledger, run, outcome, late>>
  BY DEF Elsewhere
<1>3. /\ TypeOK /\ circle \in CircleType /\ SentOnce(ledger, circle, late)
      /\ RowsTrue(ledger, circle)
      /\ \A b \in Burns, m \in Listeners : Holds(run[m], b) => blocks_resubmission(ledger[b].status)
  BY OfWorld
<1>4. /\ circle' \in CircleType
      /\ \A i \in WithdrawalIds, b \in Burns \cup {Foreign} : IsOf(circle, i, b) => IsOf(circle', i, b)
      /\ \A i \in WithdrawalIds : circle[i].status = "finalized" => circle'[i].status = "finalized"
      /\ \A i \in WithdrawalIds, b \in Burns :
           IsOf(circle', i, b) /\ circle'[i].by = "us" => IsOf(circle, i, b) /\ circle[i].by = "us"
  BY <1>1, <1>3, CreatesNew
<1>5. Onward(ledger, ledger', circle, circle')
  BY <1>2, <1>4, Zenon DEF Onward
<1>6. \A b \in Burns : Sent(circle', late', b) => Sent(circle, late, b)
  BY <1>2, <1>4, Zenon DEF Sent
<1>7. SentOnce(ledger', circle', late')
  BY <1>2, <1>3, <1>4, <1>6, Zenon DEF SentOnce
<1>8. RowsTrue(ledger', circle')
  BY <1>2, <1>3, <1>5, RowsKept, Zenon
<1>9. TypeOK'
  BY <1>2, <1>3, <1>4 DEF TypeOK, LedgerTypeOK, CircleType
<1> QED
  BY <1>2, <1>3, <1>5, <1>6, <1>7, <1>8, <1>9, WorldStep

\* A withdrawal that settles stays of its burn and its creator, and leaves finalized for nothing.
LEMMA CircleSettlesInv ==
  ASSUME SubmitInv, CircleSettles
  PROVE  SubmitInv'
<1>1. PICK k \in WithdrawalIds, s \in {"finalized", "failed", "expired"} :
        circle[k].status = "created" /\ circle' = [circle EXCEPT ![k].status = s]
  BY Zenon DEF CircleSettles
<1>2. UNCHANGED <<ledger, run, outcome, late>>
  BY DEF CircleSettles
<1>3. /\ TypeOK /\ circle \in CircleType /\ SentOnce(ledger, circle, late)
      /\ RowsTrue(ledger, circle)
      /\ \A b \in Burns, m \in Listeners : Holds(run[m], b) => blocks_resubmission(ledger[b].status)
  BY OfWorld
<1>4. \A i \in WithdrawalIds :
        /\ circle'[i].burn = circle[i].burn /\ circle'[i].by = circle[i].by
        /\ circle'[i].status = IF i = k THEN s ELSE circle[i].status
  BY <1>1, <1>3 DEF CircleType
<1>5. circle' \in CircleType
  BY <1>1, <1>3 DEF CircleType, WithdrawalStatusKind
<1>6. \A i \in WithdrawalIds, b \in Burns \cup {Foreign} : IsOf(circle, i, b) <=> IsOf(circle', i, b)
  BY <1>1, <1>4 DEF IsOf
<1>7. Onward(ledger, ledger', circle, circle')
  BY <1>1, <1>2, <1>4, <1>6, Zenon DEF Onward
<1>8. \A b \in Burns : Sent(circle', late', b) => Sent(circle, late, b)
  BY <1>2, <1>4, <1>6 DEF Sent
<1>9. SentOnce(ledger', circle', late')
  BY <1>2, <1>3, <1>4, <1>6, <1>8 DEF SentOnce
<1>10. RowsTrue(ledger', circle')
  BY <1>2, <1>3, <1>7, RowsKept, Zenon
<1>11. TypeOK'
  BY <1>2, <1>3, <1>5 DEF TypeOK, LedgerTypeOK, CircleType
<1> QED
  BY <1>2, <1>3, <1>7, <1>8, <1>9, <1>10, <1>11, WorldStep, Zenon

\* A record that is true of Circle, and that takes back nothing that was sent, keeps what is
\* known of the ledger (apply_transition).
LEMMA RecordKeeps ==
  ASSUME SubmitInv, NEW k \in Burns, NEW to \in SubmissionStatus, NEW id \in WithdrawalIds \cup {NoId},
         record_transition(k, to, id), to # "pending",
         to = "failed" => ~ Sent(circle, late, k),
         to \in {"submitted", "finalized"} => IsOf(circle, id, k),
         to = "finalized" => circle[id].status = "finalized"
  PROVE  /\ LedgerTypeOK' /\ Onward(ledger, ledger', circle, circle)
         /\ SentOnce(ledger', circle, late) /\ RowsTrue(ledger', circle)
         /\ \A b \in Burns \ {k} : ledger'[b] = ledger[b]
         /\ ledger'[k].status = to /\ (to # "failed" => Blocks(ledger'[k]))
<1>1. /\ ledger \in [Burns -> SubmissionRecord] /\ SentOnce(ledger, circle, late)
      /\ RowsTrue(ledger, circle)
  BY OfWorld, Zenon DEF TypeOK, LedgerTypeOK
<1> DEFINE row == apply_transition(ledger[k], to, id)
<1>2. row.status = to /\ (id # NoId => row.id = id) /\ row \in SubmissionRecord
  BY <1>1 DEF apply_transition, SubmissionRecord
<1>3. /\ ledger'[k] = row /\ ledger' \in [Burns -> SubmissionRecord]
      /\ \A b \in Burns \ {k} : ledger'[b] = ledger[b]
  BY <1>1, <1>2 DEF record_transition
<1> HIDE DEF row
<1>4. Blocks(ledger[k]) => to \in {"finalized", "reconciliation_required"}
  BY DEF record_transition, Recordable, can_transition_to, Blocks
<1>5. to # "failed" => Blocks(row) /\ blocks_resubmission(row.status)
  BY <1>2 DEF Blocks, blocks_resubmission, SubmissionStatus
<1>6. \A b \in Burns : Blocks(ledger[b]) => Blocks(ledger'[b])
  BY <1>3, <1>4, <1>5
<1>7. Onward(ledger, ledger', circle, circle)
  BY <1>6, Zenon DEF Onward
<1>8. SentOnce(ledger', circle, late)
  <2>1. \A b \in Burns : Sent(circle, late, b) => blocks_resubmission(ledger'[b].status)
    BY <1>1, <1>3, <1>5 DEF SentOnce
  <2> QED
    BY <1>1, <2>1 DEF SentOnce
<1>9. to \in {"submitted", "finalized"} => id # NoId
  BY NoIdAssumption DEF IsOf
<1>10. RowsTrue(ledger', circle)
  <2> SUFFICES ASSUME NEW b \in Burns
               PROVE  /\ ledger'[b].status \in {"submitted", "finalized"} => IsOf(circle, ledger'[b].id, b)
                      /\ ledger'[b].status = "finalized" => circle[ledger'[b].id].status = "finalized"
    BY DEF RowsTrue
  <2>1. CASE b = k
    BY <1>2, <1>3, <1>9, <2>1
  <2>2. CASE b # k
    BY <1>1, <1>3, <2>2 DEF RowsTrue
  <2> QED
    BY <2>1, <2>2
<1> QED
  BY <1>2, <1>3, <1>5, <1>7, <1>8, <1>10, Zenon DEF LedgerTypeOK

\* The operator records what Circle shows of a burn, or blocks it.
LEMMA OperatorInv ==
  ASSUME SubmitInv, NEW k \in Burns, Operator(k)
  PROVE  SubmitInv'
<1>1. UNCHANGED <<run, outcome, circle, late>>
  BY DEF Operator
<1>2. PICK to \in SubmissionStatus, id \in WithdrawalIds \cup {NoId} :
        /\ record_transition(k, to, id) /\ to \notin {"pending", "failed"}
        /\ to \in {"submitted", "finalized"} => IsOf(circle, id, k)
        /\ to = "finalized" => circle[id].status = "finalized"
  <2>1. CASE record_transition(k, "reconciliation_required", NoId)
    BY <2>1, Zenon DEF SubmissionStatus
  <2>2. CASE \E i \in Withdrawals(k) : record_transition(k, "submitted", i)
    <3>1. PICK i \in Withdrawals(k) : record_transition(k, "submitted", i)
      BY <2>2
    <3>2. i \in WithdrawalIds /\ IsOf(circle, i, k)
      BY DEF Withdrawals, IsOf
    <3> QED
      BY <3>1, <3>2 DEF SubmissionStatus
  <2>3. CASE \E i \in Withdrawals(k) :
               circle[i].status = "finalized" /\ record_transition(k, "finalized", i)
    <3>1. PICK i \in Withdrawals(k) :
            circle[i].status = "finalized" /\ record_transition(k, "finalized", i)
      BY <2>3
    <3>2. i \in WithdrawalIds /\ IsOf(circle, i, k)
      BY DEF Withdrawals, IsOf
    <3> QED
      BY <3>1, <3>2 DEF SubmissionStatus
  <2> QED
    BY <2>1, <2>2, <2>3 DEF Operator
<1>3. /\ LedgerTypeOK' /\ Onward(ledger, ledger', circle, circle)
      /\ SentOnce(ledger', circle, late) /\ RowsTrue(ledger', circle)
      /\ \A b \in Burns \ {k} : ledger'[b] = ledger[b]
      /\ Blocks(ledger'[k])
  BY <1>2, RecordKeeps, Zenon
<1>4. \A b \in Burns, m \in Listeners : Holds(run[m], b) => blocks_resubmission(ledger'[b].status)
  BY <1>3, OfWorld, Zenon DEF Blocks, blocks_resubmission
<1>5. TypeOK'
  BY <1>1, <1>3, OfWorld DEF TypeOK
<1> QED
  BY <1>1, <1>3, <1>4, <1>5, WorldStep

-----------------------------------------------------------------------------
(* The claim, and the records of a run *)

\* A claim takes burns nobody holds, and of which nothing was sent.
LEMMA SubmitStepInv ==
  ASSUME SubmitInv, NEW l \in Listeners, Submit(l)
  PROVE  SubmitInv'
<1>1. UNCHANGED <<circle, late>> /\ run[l].pc = "idle"
  BY Zenon DEF Submit
<1>2. PICK request \in Requests :
        LET keys == [n \in DOMAIN request |-> BurnKey(request[n])] IN
        \/ Finish(l, "duplicate") /\ UNCHANGED ledger
        \/ Finish(l, "already_submitted") /\ UNCHANGED ledger
        \/ /\ IsInjective(keys)
           /\ claim_burns(Range(keys))
           /\ Goto(l, [IdleRun EXCEPT !.pc = "send", !.keys = keys])
           /\ outcome' = [outcome EXCEPT ![l] = "none"]
  BY Zenon DEF Submit
<1> DEFINE keys == [n \in DOMAIN request |-> BurnKey(request[n])]
           r == [IdleRun EXCEPT !.pc = "send", !.keys = keys]
<1>3. "duplicate" \in Outcomes /\ "already_submitted" \in Outcomes /\ "none" \in Outcomes
  BY DEF Outcomes
<1>4. CASE (Finish(l, "duplicate") \/ Finish(l, "already_submitted")) /\ UNCHANGED ledger
  BY <1>1, <1>3, <1>4, FinishInv, Zenon
<1>5. CASE /\ IsInjective(keys) /\ claim_burns(Range(keys))
           /\ run' = [run EXCEPT ![l] = r] /\ outcome' = [outcome EXCEPT ![l] = "none"]
  <2>1. keys \in Seq(Burns) /\ keys # <<>>
    BY RequestsAssumption
  <2>2. r \in Run /\ r.pc = "send" /\ r.keys = keys /\ r.attempt = 0
    BY <2>1, Finishes, Zenon DEF Run, IdleRun
  <2> DEFINE claimed == Range(keys)
  <2>3. claimed \subseteq Burns /\ claim_burns(claimed) /\ Range(r.keys) = claimed
    BY <1>5, <2>1, <2>2 DEF Range
  <2>4. IsInjective(r.keys) /\ r.keys # <<>> /\ run' = [run EXCEPT ![l] = r]
    BY <1>5, <2>1, <2>2
  <2> HIDE DEF keys, r, claimed
  <2>5. /\ TypeOK /\ SentOnce(ledger, circle, late) /\ RowsTrue(ledger, circle)
        /\ ledger \in [Burns -> SubmissionRecord] /\ outcome \in [Listeners -> Outcomes]
        /\ run \in [Listeners -> Run]
        /\ \A b \in Burns, m \in Listeners : Holds(run[m], b) => blocks_resubmission(ledger[b].status)
    BY OfWorld DEF TypeOK, LedgerTypeOK
  <2>6. \A b \in claimed : ~ blocks_resubmission(ledger[b].status)
    BY <2>3 DEF claim_burns, Claimable
  <2>7. /\ ledger' \in [Burns -> SubmissionRecord]
        /\ \A b \in Burns : IF b \in claimed THEN ledger'[b].status = "pending" ELSE ledger'[b] = ledger[b]
    <3>1. ledger' = [k \in Burns |-> IF k \in claimed THEN apply_transition(ledger[k], "pending", NoId)
                                     ELSE ledger[k]]
      BY <2>3, Zenon DEF claim_burns
    <3>2. \A k \in Burns : /\ apply_transition(ledger[k], "pending", NoId) \in SubmissionRecord
                           /\ apply_transition(ledger[k], "pending", NoId).status = "pending"
      BY <2>5, Zenon DEF apply_transition, SubmissionRecord, SubmissionStatus
    <3> QED
      BY <2>5, <3>1, <3>2
  <2>8. \A b \in claimed : ~ Sent(circle, late, b)
    BY <2>3, <2>5, <2>6, Zenon DEF SentOnce
  <2>9. Onward(ledger, ledger', circle, circle')
    <3>1. \A b \in Burns : Blocks(ledger[b]) => Blocks(ledger'[b])
      BY <2>6, <2>7, Zenon DEF Blocks, blocks_resubmission
    <3> QED
      BY <1>1, <3>1, Zenon DEF Onward
  <2>10. \A b \in Burns : blocks_resubmission(ledger[b].status) => blocks_resubmission(ledger'[b].status)
    BY <2>6, <2>7
  <2>11. \A b \in claimed : blocks_resubmission(ledger'[b].status)
    BY <2>3, <2>7, ZenonT(30) DEF blocks_resubmission
  <2>12. SentOnce(ledger', circle', late')
    BY <1>1, <2>5, <2>10 DEF SentOnce
  <2>13. RowsTrue(ledger', circle')
    <3> SUFFICES ASSUME NEW b \in Burns
                 PROVE  /\ ledger'[b].status \in {"submitted", "finalized"} => IsOf(circle, ledger'[b].id, b)
                        /\ ledger'[b].status = "finalized" => circle[ledger'[b].id].status = "finalized"
      BY <1>1 DEF RowsTrue
    <3> QED
      BY <2>5, <2>7, Zenon DEF RowsTrue
  <2>14. \A b \in Burns : Holds(r, b) => b \in claimed
    BY <2>2, <2>3, Zenon DEF Holds
  <2>15. RunOK(r, ledger', circle', late')
    <3>1. PlaceOK(r)
      BY <2>2, <2>4, BoundsAssumption DEF PlaceOK
    <3>2. \A b \in Burns : Holds(r, b) => blocks_resubmission(ledger'[b].status)
      BY <2>11, <2>14
    <3>3. \A b \in Range(r.keys) : ~ Sent(circle', late', b)
      BY <1>1, <2>3, <2>8
    <3> QED
      BY <2>2, <3>1, <3>2, <3>3, Zenon DEF RunOK
  <2>16. \A b \in Burns, m \in Listeners \ {l} :
           Holds(run[m], b) => /\ ~ Holds(r, b)
                               /\ Sent(circle', late', b) => Sent(circle, late, b)
                               /\ blocks_resubmission(ledger'[b].status)
    BY <1>1, <2>5, <2>6, <2>10, <2>14
  <2>17. TypeOK'
    <3>1. outcome' \in [Listeners -> Outcomes] /\ run' \in [Listeners -> Run]
      BY <1>3, <1>5, <2>2, <2>4, <2>5
    <3> QED
      BY <1>1, <2>5, <2>7, <3>1 DEF TypeOK, LedgerTypeOK
  <2> QED
    BY <2>2, <2>4, <2>9, <2>12, <2>13, <2>15, <2>16, <2>17, RunStep, Zenon
<1> QED
  BY <1>2, <1>4, <1>5 DEF Goto

\* A run whose first record is written still fits: what is left to record is about other
\* burns.
LEMMA Recorded ==
  ASSUME NEW q \in Run, NEW r \in Run, NEW g, NEW h, NEW c, NEW t, RunOK(q, g, c, t), q.pc = "write",
         \A b \in Burns : b # q.writes[1].key => h[b] = g[b],
         q.writes[1].to # "failed" => Blocks(h[q.writes[1].key]),
         r.keys = q.keys, r.reply = q.reply, r.then = q.then, r.writes = Tail(q.writes),
         \/ r.pc = "write" /\ Tail(q.writes) # <<>>
         \/ r.pc = "confirm" /\ Tail(q.writes) = <<>> /\ q.then = "confirm"
  PROVE  /\ RunOK(r, h, c, t)
         /\ \A b \in Burns : Holds(r, b) => Holds(q, b)
<1> DEFINE w == q.writes[1]
<1>1. /\ q.keys \in Seq(Burns) /\ Range(q.keys) \subseteq Burns /\ q.writes \in Seq(Write)
      /\ PlaceOK(q) /\ q.writes # <<>>
  <2>1. q.keys \in Seq(Burns) /\ q.writes \in Seq(Write)
    BY Zenon DEF Run
  <2>2. Range(q.keys) \subseteq Burns
    BY <2>1 DEF Range
  <2>3. PlaceOK(q) /\ q.writes # <<>>
    BY Zenon DEF RunOK, PlaceOK
  <2> QED
    BY <2>1, <2>2, <2>3, Zenon
<1>2. /\ Len(q.writes) \in Nat \ {0} /\ 1 \in DOMAIN q.writes /\ w \in Write
      /\ DOMAIN q.writes = 1 .. Len(q.writes)
  BY <1>1
<1>3. /\ DOMAIN Tail(q.writes) = 1 .. Len(q.writes) - 1
      /\ \A n \in DOMAIN Tail(q.writes) : /\ n + 1 \in DOMAIN q.writes /\ n + 1 # 1
                                          /\ Tail(q.writes)[n] = q.writes[n + 1]
  BY <1>1, AfterFirst, Zenon
<1>4. /\ \A n, m \in DOMAIN q.writes : q.writes[n].key = q.writes[m].key => n = m
      /\ \A n \in DOMAIN q.writes : q.writes[n].key \in Range(q.keys)
      /\ \A n \in DOMAIN q.writes : WriteOK(q, q.writes[n], c, t)
      /\ \A b \in Burns : Holds(q, b) => blocks_resubmission(g[b].status)
      /\ q.keys # <<>> /\ IsInjective(q.keys)
      /\ q.then = "confirm" => q.reply.kind = "created" /\ Len(q.keys) = 1
      /\ q.then # "rejected" =>
           \A b \in Range(q.keys) : Blocks(g[b]) \/ \E n \in DOMAIN q.writes : q.writes[n].key = b
  BY Zenon DEF RunOK, PlaceOK
<1>5. w.key \in Burns /\ Holds(q, w.key)
  BY <1>1, <1>2, <1>4, Zenon DEF Holds
<1>6. q.then # "rejected" => Blocks(h[w.key])
  BY <1>2, <1>4, Zenon DEF WriteOK
<1>7. q.then # "rejected" =>
        \A b \in Range(q.keys) : Blocks(h[b]) \/ \E n \in DOMAIN r.writes : r.writes[n].key = b
  <2> SUFFICES ASSUME q.then # "rejected", NEW b \in Range(q.keys), b # w.key, ~ Blocks(g[b])
               PROVE  \E n \in DOMAIN r.writes : r.writes[n].key = b
    BY <1>1, <1>6, Zenon
  <2>1. PICK n \in DOMAIN q.writes : q.writes[n].key = b
    BY <1>4, Zenon
  <2>2. n # 1 /\ n - 1 \in DOMAIN Tail(q.writes) /\ Tail(q.writes)[n - 1] = q.writes[n]
    <3>1. n # 1
      BY <2>1, Zenon
    <3>2. n - 1 \in 1 .. Len(q.writes) - 1 /\ (n - 1) + 1 = n
      BY <1>2, <3>1
    <3> QED
      BY <1>3, <3>1, <3>2
  <2> QED
    BY <2>1, <2>2
<1>8. \A n \in DOMAIN r.writes : /\ r.writes[n].key # w.key /\ r.writes[n].key \in Range(q.keys)
                                 /\ WriteOK(q, r.writes[n], c, t)
                                 /\ \E m \in DOMAIN q.writes : r.writes[n] = q.writes[m]
  BY <1>2, <1>3, <1>4
<1>9. \A n, m \in DOMAIN r.writes : r.writes[n].key = r.writes[m].key => n = m
  <2> SUFFICES ASSUME NEW n \in DOMAIN r.writes, NEW m \in DOMAIN r.writes,
                      r.writes[n].key = r.writes[m].key
               PROVE  n = m
    BY ZenonT(30)
  <2>1. n + 1 = m + 1
    BY <1>3, <1>4
  <2> QED
    BY <1>2, <1>3, <2>1
<1>10. CASE r.pc = "write"
  <2>1. \A b \in Burns : Holds(r, b) => Holds(q, b) /\ b # w.key
    BY <1>8, <1>10 DEF Holds
  <2>2. PlaceOK(r)
    BY <1>4, <1>8, <1>9, <1>10, Zenon DEF PlaceOK
  <2>3. \A n \in DOMAIN r.writes : WriteOK(r, r.writes[n], c, t)
    BY <1>8, Zenon DEF WriteOK
  <2>4. \A b \in Burns : Holds(r, b) => blocks_resubmission(h[b].status)
    BY <1>4, <2>1, Zenon
  <2>5. RunOK(r, h, c, t)
    BY <1>7, <1>10, <2>2, <2>3, <2>4, Zenon DEF RunOK, Unsent
  <2> QED
    BY <2>1, <2>5, Zenon
<1>11. CASE r.pc = "confirm"
  <2>1. q.then = "confirm" /\ Tail(q.writes) = <<>>
    BY <1>11, Zenon
  <2>2. Range(q.keys) = {w.key}
    <3>1. Range(q.keys) = {q.keys[1]}
      BY <1>1, <1>4, <2>1 DEF Range
    <3> QED
      BY <1>2, <1>4, <3>1, ZenonT(30)
  <2>3. \A b \in Burns : Holds(r, b) => b = w.key
    BY <1>11, <2>2, Zenon DEF Holds
  <2>4. Blocks(h[w.key]) /\ blocks_resubmission(h[w.key].status)
    BY <1>6, <2>1, Zenon DEF Blocks, blocks_resubmission
  <2>5. PlaceOK(r)
    BY <1>4, <1>11, <2>1, Zenon DEF PlaceOK
  <2>6. \A b \in Burns : Holds(r, b) => blocks_resubmission(h[b].status)
    BY <2>3, <2>4, Zenon
  <2>7. \A b \in Range(r.keys) : Blocks(h[b])
    BY <2>2, <2>4, Zenon
  <2>8. RunOK(r, h, c, t)
    BY <1>11, <2>5, <2>6, <2>7, Zenon DEF RunOK, Unsent
  <2> QED
    BY <1>5, <2>3, <2>8, Zenon
<1> QED
  BY <1>10, <1>11, Zenon

\* A record of the answer, burn by burn.
LEMMA WriteNextInv ==
  ASSUME SubmitInv, NEW l \in Listeners, WriteNext(l)
  PROVE  SubmitInv'
<1> DEFINE w == Head(run[l].writes)
           rest == Tail(run[l].writes)
<1>1. run[l].pc = "write" /\ UNCHANGED <<circle, late>>
  BY DEF WriteNext
<1>2. CASE Finish(l, "ledger_error") /\ UNCHANGED ledger
  BY <1>1, <1>2, FinishInv, Zenon DEF Outcomes
<1>3. CASE /\ record_transition(w.key, w.to, w.id)
           /\ \/ /\ rest # <<>>
                 /\ Goto(l, [run[l] EXCEPT !.writes = rest]) /\ UNCHANGED outcome
              \/ /\ rest = <<>> /\ run[l].then = "confirm"
                 /\ Goto(l, [run[l] EXCEPT !.pc = "confirm", !.writes = rest]) /\ UNCHANGED outcome
              \/ run[l].then # "confirm" /\ Finish(l, run[l].then)
  <2>1. /\ run[l] \in Run /\ RunOK(run[l], ledger, circle, late) /\ run \in [Listeners -> Run]
        /\ outcome \in [Listeners -> Outcomes] /\ TypeOK
    BY OfRun, Zenon DEF SubmitInv, TypeOK
  <2>2. /\ w = run[l].writes[1] /\ 1 \in DOMAIN run[l].writes /\ rest \in Seq(Write)
        /\ w.key \in Burns /\ w.to \in SubmissionStatus /\ w.id \in WithdrawalIds \cup {NoId}
        /\ WriteOK(run[l], w, circle, late)
    BY <1>1, <2>1, FirstWrite, Zenon
  <2> HIDE DEF w
  <2>6. /\ w.to # "pending" /\ (w.to = "failed" => ~ Sent(circle, late, w.key))
        /\ w.to \in {"submitted", "finalized"} => IsOf(circle, w.id, w.key)
        /\ w.to = "finalized" => circle[w.id].status = "finalized"
    BY <2>2, Zenon DEF WriteOK
  <2>7. /\ LedgerTypeOK' /\ Onward(ledger, ledger', circle, circle)
        /\ SentOnce(ledger', circle, late) /\ RowsTrue(ledger', circle)
        /\ \A b \in Burns \ {w.key} : ledger'[b] = ledger[b]
        /\ ledger'[w.key].status = w.to /\ (w.to # "failed" => Blocks(ledger'[w.key]))
    BY <1>3, <2>2, <2>6, RecordKeeps, Zenon
  <2>8. Holds(run[l], w.key)
    BY <1>1, <2>2, Zenon DEF Holds
  <2>9. \A b \in Burns, m \in Listeners \ {l} :
          Holds(run[m], b) => b # w.key /\ ~ Holds(run[l], b) /\ blocks_resubmission(ledger'[b].status)
    <3> SUFFICES ASSUME NEW b \in Burns, NEW m \in Listeners \ {l}, Holds(run[m], b)
                 PROVE  b # w.key /\ ~ Holds(run[l], b) /\ blocks_resubmission(ledger'[b].status)
      BY Zenon
    <3>1. ~ Holds(run[l], b)
      BY Zenon DEF SubmitInv
    <3>2. blocks_resubmission(ledger[b].status) /\ b # w.key
      BY <2>8, <3>1, OfWorld, Zenon
    <3> QED
      BY <2>7, <3>1, <3>2, Zenon
  <2>10. ASSUME NEW r \in Run, run' = [run EXCEPT ![l] = r], RunOK(r, ledger', circle, late),
                \A b \in Burns : Holds(r, b) => Holds(run[l], b), outcome' \in [Listeners -> Outcomes]
         PROVE  SubmitInv'
    <3>1. TypeOK'
      <4>1. run' \in [Listeners -> Run]
        BY <2>1, <2>10, ZenonT(30)
      <4> QED
        BY <1>1, <2>1, <2>7, <2>10, <4>1, Zenon DEF TypeOK
    <3>2. Onward(ledger, ledger', circle, circle') /\ RunOK(r, ledger', circle', late')
            /\ SentOnce(ledger', circle', late') /\ RowsTrue(ledger', circle')
      BY <1>1, <2>7, <2>10
    <3>3. \A b \in Burns, m \in Listeners \ {l} :
            Holds(run[m], b) => /\ ~ Holds(r, b)
                                /\ Sent(circle', late', b) => Sent(circle, late, b)
                                /\ blocks_resubmission(ledger'[b].status)
      BY <1>1, <2>9, <2>10
    <3> QED
      BY <2>10, <3>1, <3>2, <3>3, RunStep, Zenon
  <2>11. \A b \in Burns : b # run[l].writes[1].key => ledger'[b] = ledger[b]
    BY <2>2, <2>7
  <2>12. run[l].writes[1].to # "failed" => Blocks(ledger'[run[l].writes[1].key])
    BY <2>2, <2>7
  <2>13. ASSUME NEW r \in Run, r.keys = run[l].keys, r.reply = run[l].reply, r.then = run[l].then,
                r.writes = rest,
                \/ r.pc = "write" /\ rest # <<>>
                \/ r.pc = "confirm" /\ rest = <<>> /\ run[l].then = "confirm"
         PROVE  RunOK(r, ledger', circle, late) /\ \A b \in Burns : Holds(r, b) => Holds(run[l], b)
    BY <1>1, <2>1, <2>11, <2>12, <2>13, Recorded
  <2>14. CASE rest # <<>> /\ Goto(l, [run[l] EXCEPT !.writes = rest]) /\ UNCHANGED outcome
    <3> DEFINE r == [run[l] EXCEPT !.writes = rest]
    <3>1. /\ r \in Run /\ r.pc = "write" /\ r.keys = run[l].keys /\ r.reply = run[l].reply
          /\ r.then = run[l].then /\ r.writes = rest
      BY <1>1, <2>1, <2>2, Zenon DEF Run
    <3>2. run' = [run EXCEPT ![l] = r]
      BY <2>14 DEF Goto
    <3> HIDE DEF r
    <3>3. RunOK(r, ledger', circle, late) /\ \A b \in Burns : Holds(r, b) => Holds(run[l], b)
      <4>1. rest # <<>>
        BY <2>14, Zenon
      <4> QED
        BY <2>13, <3>1, <4>1, Zenon
    <3> QED
      BY <2>1, <2>10, <2>14, <3>1, <3>2, <3>3, Zenon
  <2>15. CASE /\ rest = <<>> /\ run[l].then = "confirm"
              /\ Goto(l, [run[l] EXCEPT !.pc = "confirm", !.writes = rest]) /\ UNCHANGED outcome
    <3> DEFINE r == [run[l] EXCEPT !.pc = "confirm", !.writes = rest]
    <3>1. /\ r \in Run /\ r.pc = "confirm" /\ r.keys = run[l].keys /\ r.reply = run[l].reply
          /\ r.then = run[l].then /\ r.writes = rest
      BY <2>1, <2>2, Zenon DEF Run
    <3>2. run' = [run EXCEPT ![l] = r]
      BY <2>15 DEF Goto
    <3> HIDE DEF r
    <3>3. RunOK(r, ledger', circle, late) /\ \A b \in Burns : Holds(r, b) => Holds(run[l], b)
      <4>1. rest = <<>> /\ run[l].then = "confirm"
        BY <2>15, Zenon
      <4> QED
        BY <2>13, <3>1, <4>1, Zenon
    <3> QED
      BY <2>1, <2>10, <2>15, <3>1, <3>2, <3>3, Zenon
  <2>16. CASE run[l].then # "confirm" /\ Finish(l, run[l].then)
    <3>1. run' = [run EXCEPT ![l] = IdleRun] /\ outcome' \in [Listeners -> Outcomes]
      <4>1. run[l].then \in Outcomes
        BY <2>1, <2>16 DEF Run
      <4> QED
        BY <2>1, <2>16, <4>1 DEF Finish
    <3>2. /\ IdleRun \in Run /\ RunOK(IdleRun, ledger', circle, late)
          /\ \A b \in Burns : Holds(IdleRun, b) => Holds(run[l], b)
      BY Finishes
    <3> QED
      BY <2>10, <3>1, <3>2, Zenon
  <2> QED
    BY <1>3, <2>14, <2>15, <2>16, Zenon
<1> QED
  BY <1>2, <1>3, Zenon DEF WriteNext

-----------------------------------------------------------------------------
(* A request that Circle takes, or that nobody listens for *)

\* While a request is out, nothing of its burns has been sent, and nobody else holds them.
LEMMA Waiting ==
  ASSUME SubmitInv, NEW l \in Listeners, run[l].pc = "wait"
  PROVE  LET keys == Range(run[l].keys)
         IN  /\ keys \in SUBSET Burns
             /\ \A b \in keys : /\ ~ Sent(circle, late, b) /\ Holds(run[l], b)
                                /\ blocks_resubmission(ledger[b].status)
                                /\ \A m \in Listeners \ {l} : ~ Holds(run[m], b)
<1> DEFINE keys == Range(run[l].keys)
<1>1. keys \in SUBSET Burns /\ RunOK(run[l], ledger, circle, late)
  BY OfRun, Zenon
<1>2. \A b \in keys : Holds(run[l], b) /\ ~ Sent(circle, late, b)
  BY <1>1, Zenon DEF Holds, RunOK, Unsent
<1>3. \A b \in keys : blocks_resubmission(ledger[b].status)
  BY <1>1, <1>2, OfWorld, Zenon
<1>4. \A b \in keys, m \in Listeners \ {l} : ~ Holds(run[m], b)
  BY <1>1, <1>2 DEF SubmitInv
<1> QED
  BY <1>1, <1>2, <1>3, <1>4, Zenon

\* The sender no longer listens, and the request may arrive yet.
LEMMA UnderWayInv ==
  ASSUME SubmitInv, NEW l \in Listeners, run[l].pc = "wait", NEW r \in Run,
         run' = [run EXCEPT ![l] = r], late' = late \cup {Range(run[l].keys)},
         outcome' \in [Listeners -> Outcomes], UNCHANGED <<ledger, circle>>,
         RunOK(r, ledger, circle, late'),
         \A b \in Burns : Holds(r, b) => Holds(run[l], b)
  PROVE  SubmitInv'
<1> DEFINE keys == Range(run[l].keys)
<1>1. /\ keys \in SUBSET Burns
      /\ \A b \in keys : /\ ~ Sent(circle, late, b) /\ Holds(run[l], b)
                         /\ blocks_resubmission(ledger[b].status)
                         /\ \A m \in Listeners \ {l} : ~ Holds(run[m], b)
  BY Waiting, Zenon
<1>2. late' = late \cup {keys}
  OBVIOUS
<1> HIDE DEF keys
<1>3. /\ TypeOK /\ SentOnce(ledger, circle, late) /\ RowsTrue(ledger, circle)
      /\ \A b \in Burns, m \in Listeners : Holds(run[m], b) => blocks_resubmission(ledger[b].status)
  BY OfWorld, Zenon
<1>4. \A b \in Burns : Sent(circle, late', b) => Sent(circle, late, b) \/ b \in keys
  BY <1>2, ZenonT(30) DEF Sent
<1>5. SentOnce(ledger, circle, late')
  <2> SUFFICES ASSUME NEW b \in Burns
               PROVE  /\ Sent(circle, late', b) => blocks_resubmission(ledger[b].status)
                      /\ \A i, j \in WithdrawalIds :
                           (IsOf(circle, i, b) /\ IsOf(circle, j, b)
                              /\ circle[i].by = "us" /\ circle[j].by = "us") => i = j
                      /\ \A k \in late' : b \in k =>
                           /\ \A i \in WithdrawalIds : IsOf(circle, i, b) => circle[i].by # "us"
                           /\ \A others \in late' : b \in others => others = k
    BY Zenon DEF SentOnce
  <2>1. Sent(circle, late', b) => blocks_resubmission(ledger[b].status)
    BY <1>1, <1>3, <1>4, ZenonT(30) DEF SentOnce
  <2>2. \A i, j \in WithdrawalIds :
          (IsOf(circle, i, b) /\ IsOf(circle, j, b)
             /\ circle[i].by = "us" /\ circle[j].by = "us") => i = j
    BY <1>3 DEF SentOnce
  <2>3. CASE b \in keys
    <3>1. /\ \A k \in late : b \notin k
          /\ \A i \in WithdrawalIds : IsOf(circle, i, b) => circle[i].by # "us"
      BY <1>1, <2>3, Zenon DEF Sent
    <3> QED
      BY <1>2, <2>1, <2>2, <3>1, Zenon
  <2>4. CASE b \notin keys
    <3>1. \A k \in late : b \in k =>
            /\ \A i \in WithdrawalIds : IsOf(circle, i, b) => circle[i].by # "us"
            /\ \A others \in late : b \in others => others = k
      BY <1>3, Zenon DEF SentOnce
    <3> QED
      BY <1>2, <2>1, <2>2, <2>4, <3>1, Zenon
  <2> QED
    BY <2>3, <2>4
<1>6. Onward(ledger, ledger', circle, circle')
  BY Zenon DEF Onward
<1>7. TypeOK'
  BY <1>1, <1>2, <1>3, Zenon DEF TypeOK, LedgerTypeOK
<1>8. \A b \in Burns, m \in Listeners \ {l} :
        Holds(run[m], b) => /\ ~ Holds(r, b)
                            /\ Sent(circle', late', b) => Sent(circle, late, b)
                            /\ blocks_resubmission(ledger'[b].status)
  <2> SUFFICES ASSUME NEW b \in Burns, NEW m \in Listeners \ {l}, Holds(run[m], b)
               PROVE  /\ ~ Holds(run[l], b) /\ b \notin keys
                      /\ blocks_resubmission(ledger[b].status)
    BY <1>4, Zenon
  <2>1. ~ Holds(run[l], b)
    BY DEF SubmitInv
  <2> QED
    BY <1>1, <1>3, <2>1, Zenon
<1>9. SentOnce(ledger', circle', late') /\ RowsTrue(ledger', circle') /\ RunOK(r, ledger', circle', late')
  BY <1>3, <1>5
<1> QED
  BY <1>6, <1>7, <1>8, <1>9, RunStep, Zenon

\* A request without an answer may still arrive: its burns stay blocked.
LEMMA NoAnswerInv ==
  ASSUME SubmitInv, NEW l \in Listeners, NoAnswer(l)
  PROVE  SubmitInv'
<1> DEFINE r == [run[l] EXCEPT !.pc = "read", !.reply = [kind |-> "transport"]]
<1>1. /\ run[l].pc \in {"wait", "read"} /\ UNCHANGED <<ledger, outcome, circle>>
      /\ late' = IF run[l].pc = "wait" THEN late \cup {Range(run[l].keys)} ELSE late
      /\ Goto(l, r)
  BY DEF NoAnswer
<1>2. [kind |-> "transport"] \in Reply
  BY ZenonT(30) DEF Reply
<1>3. CASE run[l].pc = "read"
  BY <1>1, <1>2, <1>3, AnswerInv, Zenon
<1>4. CASE run[l].pc = "wait"
  <2>1. run[l] \in Run /\ RunOK(run[l], ledger, circle, late) /\ outcome \in [Listeners -> Outcomes]
    BY OfRun
  <2>2. r \in Run /\ r.pc = "read" /\ r.keys = run[l].keys /\ r.reply.kind = "transport"
    BY <1>2, <2>1, Zenon DEF Run
  <2>3. run' = [run EXCEPT ![l] = r]
    BY <1>1 DEF Goto
  <2> HIDE DEF r
  <2>4. RunOK(r, ledger, circle, late) /\ \A b \in Burns : Holds(r, b) => Holds(run[l], b)
    <3>1. ~ Unsent(r)
      BY <2>2, Zenon DEF Unsent
    <3> QED
      BY <1>4, <2>1, <2>2, <3>1, GoesOn
  <2>5. RunOK(r, ledger, circle, late')
    BY <2>2, <2>4, Zenon DEF RunOK, Unsent
  <2> QED
    BY <1>1, <1>4, <2>1, <2>2, <2>3, <2>4, <2>5, UnderWayInv, Zenon
<1> QED
  BY <1>1, <1>3, <1>4, Zenon

\* A stop leaves the rows of the run as they were, and its request may still arrive.
LEMMA CrashInv ==
  ASSUME SubmitInv, NEW l \in Listeners, Crash(l)
  PROVE  SubmitInv'
<1>1. /\ Finish(l, "crashed") /\ UNCHANGED <<ledger, circle>> /\ "crashed" \in Outcomes
      /\ late' = IF run[l].pc = "wait" THEN late \cup {Range(run[l].keys)} ELSE late
  BY DEF Crash, Outcomes
<1>2. CASE run[l].pc # "wait"
  BY <1>1, <1>2, FinishInv
<1>3. CASE run[l].pc = "wait"
  <2>1. run' = [run EXCEPT ![l] = IdleRun] /\ outcome' \in [Listeners -> Outcomes]
    BY <1>1, OfRun DEF Finish
  <2>2. /\ IdleRun \in Run /\ RunOK(IdleRun, ledger, circle, late')
        /\ \A b \in Burns : Holds(IdleRun, b) => Holds(run[l], b)
    BY Finishes
  <2> QED
    BY <1>1, <1>3, <2>1, <2>2, UnderWayInv, Zenon
<1> QED
  BY <1>2, <1>3

\* A function on 1 .. n is a sequence, and empty only for n = 0.
LEMMA FromFunction ==
  ASSUME NEW S, NEW n \in Nat \ {0}, NEW s \in [1 .. n -> S]
  PROVE  s \in Seq(S) \ {<<>>}
<1>1. s \in Seq(S) /\ 1 \in DOMAIN s
  OBVIOUS
<1> QED
  BY <1>1

\* A 201 whose statuses echo exactly the burns of the request names each burn's own
\* withdrawal, even when one of the echoes is wrong.
LEMMA EchoesTrue ==
  ASSUME NEW keys \in SUBSET Burns, NEW N \in Nat \ {0}, NEW a, DOMAIN a = keys, NEW c,
         \A b \in keys : a[b] \in WithdrawalIds /\ IsOf(c, a[b], b),
         NEW s \in Statuses(N, a)
  PROVE  /\ s \in Seq([burn : Burns \cup {Foreign}, id : WithdrawalIds]) \ {<<>>}
         /\ {s[n].burn : n \in DOMAIN s} = keys => \A n \in DOMAIN s : IsOf(c, s[n].id, s[n].burn)
<1> DEFINE Pairs == {[burn |-> b, id |-> a[b]] : b \in keys}
           exact == Echoes(N, a)
           Status == [burn : Burns \cup {Foreign}, id : WithdrawalIds]
<1>1. N \in Nat \ {0} /\ 1 \in 1 .. N
  OBVIOUS
<1>2. \A p \in Pairs : p \in Status /\ p.burn \in keys /\ p.id = a[p.burn] /\ IsOf(c, p.id, p.burn)
  OBVIOUS
<1>3. \A p, q \in Pairs : p.burn = q.burn => p = q
  OBVIOUS
<1>4. \/ s \in exact
      \/ \E t \in exact, f \in keys \cup {Foreign} : s = [t EXCEPT ![1].burn = f]
  BY DEF Statuses
<1>7. \A t \in exact : t \in [1 .. N -> Pairs] /\ IsInjective(t)
  BY DEF Echoes
<1> HIDE DEF Pairs, exact
<1>5. CASE s \in exact
  <2>1. s \in [1 .. N -> Pairs]
    BY <1>5, <1>7
  <2>2. s \in [1 .. N -> Status]
    BY <1>2, <2>1, Zenon
  <2>0. s \in Seq(Status) \ {<<>>}
    BY <1>1, <2>2, FromFunction, Zenon
  <2>3. \A n \in DOMAIN s : IsOf(c, s[n].id, s[n].burn)
    BY <1>2, <2>1
  <2> QED
    BY <2>0, <2>3
<1>6. CASE \E t \in exact, f \in keys \cup {Foreign} : s = [t EXCEPT ![1].burn = f]
  <2>1. PICK t \in exact, f \in keys \cup {Foreign} : s = [t EXCEPT ![1].burn = f]
    BY <1>6, Zenon
  <2>2. t \in [1 .. N -> Pairs] /\ \A n, m \in 1 .. N : t[n] = t[m] => n = m
    BY <1>7, <2>1 DEF IsInjective
  <2>3. /\ DOMAIN s = 1 .. N /\ s[1] = [t[1] EXCEPT !.burn = f]
        /\ \A n \in 1 .. N : n # 1 => s[n] = t[n]
        /\ s = [n \in 1 .. N |-> s[n]]
    BY <1>1, <2>1, <2>2, Zenon
  <2>4. t[1] \in Pairs /\ t[1] \in Status
    BY <1>1, <1>2, <2>2
  <2>5. s[1] \in Status /\ s[1].burn = f /\ s[1].id = t[1].id
    BY <2>3, <2>4
  <2>6. s \in Seq(Status) \ {<<>>}
    <3>1. \A n \in 1 .. N : s[n] \in Status
      BY <1>2, <2>2, <2>3, <2>5, Zenon
    <3> HIDE DEF Status
    <3>2. s \in [1 .. N -> Status]
      BY <2>3, <3>1, Zenon
    <3> QED
      BY <1>1, <3>2, FromFunction
  <2>7. ASSUME {s[n].burn : n \in DOMAIN s} = keys, NEW n \in DOMAIN s
        PROVE  IsOf(c, s[n].id, s[n].burn)
    <3>1. t[1].burn \in keys
      BY <1>2, <2>4, Zenon
    <3>2. PICK m \in 1 .. N : s[m].burn = t[1].burn
      BY <2>3, <2>7, <3>1
    <3>3. m = 1
      <4> SUFFICES ASSUME m # 1 PROVE FALSE
        BY Zenon
      <4>1. t[m] \in Pairs /\ t[m].burn = t[1].burn
        BY <2>2, <2>3, <3>2, Zenon
      <4> QED
        BY <1>1, <1>3, <2>2, <2>4, <4>1, Zenon
    <3>4. s[1].burn = t[1].burn /\ s[1].id = t[1].id
      BY <2>5, <3>2, <3>3, Zenon
    <3>5. s[n].burn = t[n].burn /\ s[n].id = t[n].id /\ t[n] \in Pairs
      BY <2>2, <2>3, <2>4, <3>4, Zenon
    <3> QED
      BY <1>2, <3>5, Zenon
  <2> QED
    BY <2>6, <2>7
<1> QED
  BY <1>4, <1>5, <1>6, Zenon

\* Circle takes the request: every burn of it gets its first withdrawal of these listeners.
LEMMA CircleTakesInv ==
  ASSUME SubmitInv, NEW l \in Listeners, CircleTakes(l)
  PROVE  SubmitInv'
<1> DEFINE keys == Range(run[l].keys)
           N == Len(run[l].keys)
<1>1. run[l].pc = "wait" /\ UNCHANGED <<ledger, outcome, late>>
  BY DEF CircleTakes
<1>2. PICK a \in Assignments(keys) :
        /\ Creates(a, "us")
        /\ \E reply \in [kind : {"created"}, statuses : Statuses(N, a)] \cup {[kind |-> "malformed"]} :
             Goto(l, [run[l] EXCEPT !.pc = "read", !.reply = reply])
  BY Zenon DEF CircleTakes
<1>3. PICK reply \in [kind : {"created"}, statuses : Statuses(N, a)] \cup {[kind |-> "malformed"]} :
        Goto(l, [run[l] EXCEPT !.pc = "read", !.reply = reply])
  BY <1>2, Zenon
<1>4. /\ keys \in SUBSET Burns
      /\ \A b \in keys : /\ ~ Sent(circle, late, b) /\ Holds(run[l], b)
                         /\ blocks_resubmission(ledger[b].status)
                         /\ \A m \in Listeners \ {l} : ~ Holds(run[m], b)
  BY <1>1, Waiting, Zenon
<1>5. N \in Nat \ {0} /\ DOMAIN a = keys
  <2>1. run[l].keys \in Seq(Burns) /\ run[l].keys # <<>>
    BY <1>1, OfRun, Zenon DEF PlaceOK, Run
  <2>2. N \in Nat \ {0}
    BY <2>1
  <2>3. DOMAIN a = keys
    BY Zenon DEF Assignments
  <2> QED
    BY <2>2, <2>3, Zenon
<1>6. Range(run[l].keys) = keys
  BY Zenon
<1> HIDE DEF keys
<1>7. /\ TypeOK /\ circle \in CircleType /\ SentOnce(ledger, circle, late) /\ RowsTrue(ledger, circle)
      /\ run \in [Listeners -> Run]
      /\ \A b \in Burns, m \in Listeners : Holds(run[m], b) => blocks_resubmission(ledger[b].status)
  BY OfWorld, Zenon DEF TypeOK
<1>8. /\ circle' \in CircleType
      /\ \A i \in WithdrawalIds, b \in Burns \cup {Foreign} : IsOf(circle, i, b) => IsOf(circle', i, b)
      /\ \A i \in WithdrawalIds : circle[i].status = "finalized" => circle'[i].status = "finalized"
      /\ \A i \in WithdrawalIds, b \in Burns :
           IsOf(circle', i, b) => \/ IsOf(circle, i, b) /\ circle'[i].by = circle[i].by
                                  \/ b \in keys /\ i = a[b]
      /\ \A b \in keys : a[b] \in WithdrawalIds /\ IsOf(circle', a[b], b)
  <2>1. /\ circle' \in CircleType
        /\ \A i \in WithdrawalIds, b \in Burns \cup {Foreign} : IsOf(circle, i, b) => IsOf(circle', i, b)
        /\ \A i \in WithdrawalIds : circle[i].status = "finalized" => circle'[i].status = "finalized"
        /\ \A i \in WithdrawalIds, b \in Burns :
             IsOf(circle', i, b) => \/ IsOf(circle, i, b) /\ circle'[i].by = circle[i].by
                                    \/ b \in keys /\ i = a[b] /\ circle'[i].by = "us"
        /\ \A b \in keys : IsOf(circle', a[b], b)
    BY <1>2, <1>4, <1>7, CreatesNew, Zenon
  <2>2. \A b \in keys : a[b] \in WithdrawalIds
    BY <2>1, Zenon DEF IsOf
  <2> QED
    BY <2>1, <2>2, Zenon
<1>9. Onward(ledger, ledger', circle, circle')
  BY <1>1, <1>8, Zenon DEF Onward
<1>10. \A b \in Burns : Sent(circle', late, b) => Sent(circle, late, b) \/ b \in keys
  BY <1>8, Zenon DEF Sent
<1>11. SentOnce(ledger, circle', late)
  <2> SUFFICES ASSUME NEW b \in Burns
               PROVE  /\ Sent(circle', late, b) => blocks_resubmission(ledger[b].status)
                      /\ \A i, j \in WithdrawalIds :
                           (IsOf(circle', i, b) /\ IsOf(circle', j, b)
                              /\ circle'[i].by = "us" /\ circle'[j].by = "us") => i = j
                      /\ \A k \in late : b \in k =>
                           /\ \A i \in WithdrawalIds : IsOf(circle', i, b) => circle'[i].by # "us"
                           /\ \A others \in late : b \in others => others = k
    BY Zenon DEF SentOnce
  <2>1. /\ Sent(circle, late, b) => blocks_resubmission(ledger[b].status)
        /\ \A i, j \in WithdrawalIds :
             (IsOf(circle, i, b) /\ IsOf(circle, j, b) /\ circle[i].by = "us" /\ circle[j].by = "us") => i = j
        /\ \A k \in late : b \in k =>
             /\ \A i \in WithdrawalIds : IsOf(circle, i, b) => circle[i].by # "us"
             /\ \A others \in late : b \in others => others = k
    BY <1>7, Zenon DEF SentOnce
  <2>2. Sent(circle', late, b) => blocks_resubmission(ledger[b].status)
    BY <1>4, <1>10, <2>1, Zenon
  <2>3. CASE b \in keys
    <3>1. /\ \A k \in late : b \notin k
          /\ \A i \in WithdrawalIds : IsOf(circle, i, b) => circle[i].by # "us"
      BY <1>4, <2>3, Zenon DEF Sent
    <3>2. \A i \in WithdrawalIds : IsOf(circle', i, b) /\ circle'[i].by = "us" => i = a[b]
      BY <1>8, <3>1, Zenon
    <3> QED
      BY <2>2, <3>1, <3>2, Zenon
  <2>4. CASE b \notin keys
    <3>1. \A i \in WithdrawalIds : IsOf(circle', i, b) => IsOf(circle, i, b) /\ circle'[i].by = circle[i].by
      BY <1>8, <2>4, Zenon
    <3> QED
      BY <2>1, <2>2, <3>1, Zenon
  <2> QED
    BY <2>3, <2>4, Zenon
<1> DEFINE r == [run[l] EXCEPT !.pc = "read", !.reply = reply]
<1>12. /\ reply \in Reply /\ reply.kind \in {"created", "malformed"}
       /\ (reply.kind = "created" /\ {reply.statuses[n].burn : n \in DOMAIN reply.statuses} = keys) =>
            \A n \in DOMAIN reply.statuses : IsOf(circle', reply.statuses[n].id, reply.statuses[n].burn)
  <2>1. CASE reply = [kind |-> "malformed"]
    BY <2>1, Zenon DEF Reply
  <2>2. CASE reply \in [kind : {"created"}, statuses : Statuses(N, a)]
    <3> DEFINE s == reply.statuses
    <3>1. s \in Statuses(N, a) /\ reply = [kind |-> "created", statuses |-> s]
      BY <2>2, Zenon
    <3> HIDE DEF s
    <3>2. /\ s \in Seq([burn : Burns \cup {Foreign}, id : WithdrawalIds]) \ {<<>>}
          /\ {s[n].burn : n \in DOMAIN s} = keys => \A n \in DOMAIN s : IsOf(circle', s[n].id, s[n].burn)
      BY <1>4, <1>5, <1>8, <3>1, EchoesTrue, Zenon
    <3>3. reply \in Reply
      BY <3>1, <3>2 DEF Reply
    <3> QED
      BY <3>1, <3>2, <3>3 DEF s
  <2> QED
    BY <1>3, <2>1, <2>2, Zenon
<1>13. r \in Run /\ r.pc = "read" /\ r.keys = run[l].keys /\ r.reply = reply /\ run' = [run EXCEPT ![l] = r]
  <2>1. run[l] \in Run
    BY <1>7
  <2> QED
    BY <1>3, <1>12, <2>1, Zenon DEF Run, Goto
<1> HIDE DEF r
<1>14. \A b \in Burns : Holds(r, b) => b \in keys
  BY <1>6, <1>13 DEF Holds
<1>15. RunOK(r, ledger, circle', late)
  <2>1. PlaceOK(r)
    <3>1. PlaceOK(run[l])
      BY OfRun, Zenon
    <3> QED
      BY <1>1, <1>13, <3>1, Zenon DEF PlaceOK
  <2>2. \A b \in Burns : Holds(r, b) => blocks_resubmission(ledger[b].status)
    BY <1>4, <1>14, Zenon
  <2> QED
    BY <1>6, <1>12, <1>13, <2>1, <2>2, Zenon DEF RunOK, Unsent
<1>16. \A b \in Burns, m \in Listeners \ {l} :
         Holds(run[m], b) => /\ ~ Holds(r, b)
                             /\ Sent(circle', late', b) => Sent(circle, late, b)
                             /\ blocks_resubmission(ledger'[b].status)
  BY <1>1, <1>4, <1>7, <1>10, <1>14, Zenon
<1>17. RowsTrue(ledger', circle')
  BY <1>1, <1>7, <1>9, RowsKept, Zenon
<1>18. TypeOK'
  <2>1. run' \in [Listeners -> Run]
    BY <1>7, <1>13, Zenon
  <2> QED
    BY <1>1, <1>7, <1>8, <2>1, Zenon DEF TypeOK, LedgerTypeOK, CircleType
<1>19. RunOK(r, ledger', circle', late') /\ SentOnce(ledger', circle', late')
  BY <1>1, <1>11, <1>15
<1> QED
  BY <1>9, <1>13, <1>16, <1>17, <1>18, <1>19, RunStep, Zenon

-----------------------------------------------------------------------------
(* The theorems *)

\* Nothing is claimed, sent or created at first.
LEMMA InitInv ==
  ASSUME Init
  PROVE  SubmitInv
<1>1. IdleRun \in Run /\ \A b \in Burns : ~ Holds(IdleRun, b)
  BY Finishes
<1>2. \A m \in Listeners : run[m] = IdleRun
  BY DEF Init
<1>3. ledger \in [Burns -> SubmissionRecord] /\ \A b \in Burns : ledger[b].status = "none"
  BY Zenon DEF Init, LedgerInit, NoRecord, SubmissionRecord
<1>4. circle \in CircleType /\ \A i \in WithdrawalIds : circle[i].status = "none"
  BY Zenon DEF Init, NoWithdrawal, CircleType
<1>5. TypeOK
  BY <1>1, <1>3, <1>4, Zenon DEF Init, TypeOK, LedgerTypeOK, CircleType, Outcomes
<1>6. \A b \in Burns : ~ Sent(circle, late, b)
  BY <1>4 DEF Init, Sent, IsOf
<1>7. SentOnce(ledger, circle, late)
  BY <1>4, <1>6, Zenon DEF SentOnce, IsOf, Init
<1>8. RowsTrue(ledger, circle)
  BY <1>3, Zenon DEF RowsTrue
<1>9. \A m \in Listeners : RunOK(run[m], ledger, circle, late)
  BY <1>2, Finishes, Zenon
<1> QED
  BY <1>1, <1>2, <1>5, <1>7, <1>8, <1>9 DEF SubmitInv

\* Every step keeps the invariant, one case for each action.
LEMMA NextInv ==
  ASSUME SubmitInv, [Next]_vars
  PROVE  SubmitInv'
<1>1. CASE UNCHANGED vars
  BY <1>1 DEF vars, SubmitInv, TypeOK, LedgerTypeOK
<1>2. CASE \E l \in Listeners :
             \/ Submit(l) \/ Work(l) \/ LedgerFails(l) \/ Crash(l)
             \/ CircleTakes(l) \/ CircleConflicts(l) \/ CircleRefuses(l)
  <2>1. PICK l \in Listeners :
          \/ Submit(l) \/ Work(l) \/ LedgerFails(l) \/ Crash(l)
          \/ CircleTakes(l) \/ CircleConflicts(l) \/ CircleRefuses(l)
    BY <1>2, Zenon
  <2>2. CASE Work(l)
    BY <2>2, SendInv, NoAnswerInv, RetryInv, CreatedInv, ConflictInv, FailureInv, WriteNextInv,
       PollAgainInv, RecoverInv, ConfirmInv, PollFailsInv, Zenon DEF Work
  <2> QED
    BY <2>1, <2>2, SubmitStepInv, LedgerFailsInv, CrashInv, CircleTakesInv, CircleConflictsInv,
       CircleRefusesInv
<1>3. CASE LateArrival \/ Elsewhere \/ CircleSettles
  BY <1>3, LateArrivalInv, ElsewhereInv, CircleSettlesInv, Zenon
<1>4. CASE \E k \in Burns : Operator(k)
  BY <1>4, OperatorInv, Zenon
<1> QED
  BY <1>1, <1>2, <1>3, <1>4, Zenon DEF Next

\* The invariant holds throughout: no burn is in two runs' hands, what was sent was sent once
\* and its row blocks it, settled rows are true, and every record a run has still to write is
\* true of Circle (submit_withdraw, settle_created, recover_conflict, settle_failure).
THEOREM SubmissionInvariance == Spec => []SubmitInv
<1>1. Init => SubmitInv
  BY InitInv
<1>2. SubmitInv /\ [Next]_vars => SubmitInv'
  BY NextInv
<1> QED
  BY <1>1, <1>2, PTL DEF Spec

\* However listeners, stops, lost replies and late requests interleave, a burn gets at most
\* one withdrawal of theirs at Circle: submit_withdraw claims a burn before it sends it, and
\* only a 400 releases the claim.
THEOREM NoBurnWithdrawnTwice == Spec => []OneWithdrawalPerBurn
<1>1. SubmitInv => OneWithdrawalPerBurn
  BY DEF OneWithdrawalPerBurn, SubmitInv, SentOnce, Ours, Withdrawals, IsOf
<1> QED
  BY <1>1, SubmissionInvariance, PTL

\* A burn whose row says failed, and which may be claimed again, is one nothing was sent for
\* (settle_failure).
THEOREM OnlyUnsentIsReleased == Spec => []FailedIsUnsent
<1>1. SubmitInv => FailedIsUnsent
  <2> SUFFICES ASSUME SubmitInv, NEW b \in Burns, ledger[b].status = "failed"
               PROVE  /\ Ours(b) = {} /\ \A keys \in late : b \notin keys
                      /\ \A l \in Listeners : Owns(l, b) => run[l].pc = "write"
    BY Zenon DEF FailedIsUnsent
  <2>1. ~ blocks_resubmission(ledger[b].status)
    BY Zenon DEF blocks_resubmission
  <2>2. ~ Sent(circle, late, b) /\ \A l \in Listeners : ~ Holds(run[l], b)
    BY <2>1, OfWorld, Zenon DEF SentOnce
  <2>3. Ours(b) = {} /\ \A keys \in late : b \notin keys
    BY <2>2, Zenon DEF Sent, Ours, Withdrawals, IsOf
  <2>4. ASSUME NEW l \in Listeners, Owns(l, b) PROVE run[l].pc = "write"
    <3>1. run[l].pc \in {"idle", "send", "wait", "read", "recover", "write", "confirm"}
      BY OfRun DEF Run
    <3> QED
      BY <2>2, <2>4, <3>1, ZenonT(30) DEF Owns, Holds
  <2> QED
    BY <2>3, <2>4, Zenon
<1> QED
  BY <1>1, SubmissionInvariance, PTL

\* A row that says submitted or finalized names the burn's own withdrawal, and finalized only
\* where Circle finalized it (recover_conflict, settle).
THEOREM RowsNameTheirWithdrawal == Spec => []SettledRowsAreTrue
<1>1. SubmitInv => SettledRowsAreTrue
  BY DEF SubmitInv, RowsTrue, SettledRowsAreTrue, Withdrawals, IsOf
<1> QED
  BY <1>1, SubmissionInvariance, PTL

\* A step of one listener moves only its run.
LEMMA OneRunMoves ==
  ASSUME NEW l \in Listeners,
         \/ Submit(l) \/ Work(l) \/ LedgerFails(l) \/ Crash(l)
         \/ CircleTakes(l) \/ CircleConflicts(l) \/ CircleRefuses(l)
  PROVE  \E r : run' = [run EXCEPT ![l] = r]
<1>1. CASE Submit(l)
  BY <1>1, Zenon DEF Submit, Finish, Goto
<1>2. CASE Work(l)
  <2>1. CASE Send(l) \/ NoAnswer(l) \/ Retry(l)
    BY <2>1, Zenon DEF Send, NoAnswer, Retry, Goto
  <2>2. CASE Created(l)
    BY <2>2, Zenon DEF Created, settle_created, Settle, Goto
  <2>3. CASE Conflict(l)
    BY <2>3, Zenon DEF Conflict, Settle, Goto
  <2>4. CASE Failure(l)
    BY <2>4 DEF Failure, settle_failure, Settle, Goto
  <2>5. CASE WriteNext(l)
    BY <2>5, Zenon DEF WriteNext, Goto, Finish
  <2>6. CASE PollAgain(l) \/ PollFails(l)
    BY <2>6, Zenon DEF PollAgain, PollFails, Settle, Goto, Finish
  <2>7. CASE Recover(l)
    BY <2>7, Zenon DEF Recover, Settle, Goto
  <2>8. CASE Confirm(l)
    BY <2>8, Zenon DEF Confirm, Settle, Goto, Finish
  <2> QED
    BY <1>2, <2>1, <2>2, <2>3, <2>4, <2>5, <2>6, <2>7, <2>8, Zenon DEF Work
<1>3. CASE LedgerFails(l) \/ Crash(l)
  BY <1>3, Zenon DEF LedgerFails, Crash, Finish
<1>4. CASE CircleTakes(l) \/ CircleConflicts(l) \/ CircleRefuses(l)
  BY <1>4, ZenonT(30) DEF CircleTakes, CircleConflicts, CircleRefuses, Goto
<1> QED
  BY <1>1, <1>2, <1>3, <1>4, Zenon

\* What a step leaves of a run's burns when the run ends there by itself.
Ending(l) ==
  (run[l].pc # "idle" /\ run'[l].pc = "idle" /\ outcome'[l] \notin {"crashed", "ledger_error"}) =>
     \A b \in Range(run[l].keys) : outcome'[l] = "rejected" \/ Blocks(ledger'[b])

\* The steps in which a run may end, and what they leave in its rows.
LEMMA EndsOfRuns ==
  ASSUME SubmitInv, NEW l \in Listeners,
         \/ Submit(l) \/ Work(l) \/ LedgerFails(l) \/ Crash(l)
         \/ CircleTakes(l) \/ CircleConflicts(l) \/ CircleRefuses(l)
  PROVE  Ending(l)
<1>1. /\ run \in [Listeners -> Run] /\ outcome \in [Listeners -> Outcomes] /\ run[l] \in Run
      /\ RunOK(run[l], ledger, circle, late) /\ Range(run[l].keys) \subseteq Burns
  BY OfRun DEF SubmitInv, TypeOK
<1>2. ASSUME NEW o, Finish(l, o) PROVE outcome'[l] = o
  BY <1>1, <1>2, Zenon DEF Finish
<1>3. ASSUME NEW next, Goto(l, next) PROVE run'[l] = next
  BY <1>1, <1>3 DEF Goto
<1>4. ASSUME NEW writes, NEW o, Settle(l, writes, o) PROVE run'[l].pc = "write"
  BY <1>1, <1>3, <1>4, Zenon DEF Settle, Run
<1>5. CASE Submit(l)
  BY <1>5, Zenon DEF Submit, Ending
<1>6. CASE LedgerFails(l) \/ Crash(l)
  BY <1>2, <1>6, Zenon DEF LedgerFails, Crash, Ending
<1>7. ASSUME NEW p \in {"send", "wait", "read", "recover"}, NEW next, next.pc = p, Goto(l, next)
      PROVE  Ending(l)
  BY <1>3, <1>7, Zenon DEF Ending
<1>8. CASE run[l].pc = "confirm" /\ UNCHANGED ledger
  BY <1>1, <1>8, Zenon DEF Ending, RunOK
<1>9. CASE \E reply : Goto(l, [run[l] EXCEPT !.pc = "read", !.reply = reply])
  <2>1. PICK reply : Goto(l, [run[l] EXCEPT !.pc = "read", !.reply = reply])
    BY <1>9, Zenon
  <2>2. [run[l] EXCEPT !.pc = "read", !.reply = reply].pc = "read"
    BY <1>1, Zenon DEF Run
  <2> QED
    BY <1>7, <2>1, <2>2, Zenon
<1>10. CASE CircleTakes(l) \/ CircleConflicts(l) \/ CircleRefuses(l) \/ NoAnswer(l)
  BY <1>9, <1>10, ZenonT(30) DEF CircleTakes, CircleConflicts, CircleRefuses, NoAnswer
<1>11. CASE Send(l) \/ Retry(l)
  <2>1. [run[l] EXCEPT !.pc = "wait", !.attempt = @ + 1].pc = "wait" /\ [run[l] EXCEPT !.pc = "send"].pc = "send"
    BY <1>1 DEF Run
  <2> QED
    BY <1>7, <1>11, <2>1, Zenon DEF Send, Retry
<1>12. CASE \E writes, o : Settle(l, writes, o)
  BY <1>4, <1>12, Zenon DEF Ending
<1>13. CASE Created(l)
  BY <1>12, <1>13, Zenon DEF Created, settle_created
<1>14. CASE Failure(l)
  BY <1>12, <1>14, ZenonT(30) DEF Failure, settle_failure
<1>15. CASE Recover(l)
  BY <1>12, <1>15, Zenon DEF Recover
<1>16. CASE Conflict(l)
  <2>1. [run[l] EXCEPT !.pc = "recover"].pc = "recover"
    BY <1>1, Zenon DEF Run
  <2>2. CASE Goto(l, [run[l] EXCEPT !.pc = "recover"])
    BY <1>7, <2>1, <2>2, Zenon
  <2> QED
    BY <1>12, <1>16, <2>2, Zenon DEF Conflict
<1>17. CASE PollFails(l)
  BY <1>8, <1>12, <1>17, Zenon DEF PollFails
<1>18. CASE Confirm(l)
  BY <1>8, <1>18, ZenonT(30) DEF Confirm
<1>19. CASE PollAgain(l)
  <2>1. [run[l] EXCEPT !.polls = @ + 1].pc = run[l].pc
    BY <1>1 DEF Run
  <2> QED
    BY <1>3, <1>19, <2>1, Zenon DEF PollAgain, Ending
<1>20. CASE WriteNext(l)
  <2> DEFINE w == Head(run[l].writes)
             rest == Tail(run[l].writes)
  <2>1. run[l].pc = "write"
    BY <1>20 DEF WriteNext
  <2>2. [run[l] EXCEPT !.writes = rest].pc = "write" /\ [run[l] EXCEPT !.pc = "confirm", !.writes = rest].pc = "confirm"
    BY <1>1, <2>1 DEF Run
  <2>3. CASE Goto(l, [run[l] EXCEPT !.writes = rest]) \/ Goto(l, [run[l] EXCEPT !.pc = "confirm", !.writes = rest])
    BY <1>3, <2>2, <2>3, ZenonT(30) DEF Ending
  <2>4. CASE Finish(l, "ledger_error")
    BY <1>2, <2>4, ZenonT(30) DEF Ending
  <2>5. CASE record_transition(w.key, w.to, w.id) /\ rest = <<>> /\ Finish(l, run[l].then)
    <3> SUFFICES ASSUME run[l].then # "rejected", NEW b \in Range(run[l].keys) PROVE Blocks(ledger'[b])
      BY <1>2, <2>5, Zenon DEF Ending
    <3>3. /\ w.key \in Burns /\ w.to \in SubmissionStatus /\ w.id \in WithdrawalIds \cup {NoId}
          /\ WriteOK(run[l], w, circle, late) /\ (Blocks(ledger[b]) \/ w.key = b)
      BY <1>1, <2>1, <2>5, FirstWrite, ZenonT(30)
    <3> HIDE DEF w
    <3>5. /\ w.to \notin {"pending", "failed"}
          /\ w.to \in {"submitted", "finalized"} => IsOf(circle, w.id, w.key)
          /\ w.to = "finalized" => circle[w.id].status = "finalized"
      BY <3>3, Zenon DEF WriteOK
    <3>6. Onward(ledger, ledger', circle, circle) /\ Blocks(ledger'[w.key])
      BY <2>5, <3>3, <3>5, RecordKeeps, ZenonT(30)
    <3> QED
      BY <1>1, <3>3, <3>6, Zenon DEF Onward
  <2> QED
    BY <1>20, <2>3, <2>4, <2>5 DEF WriteNext
<1> QED
  BY <1>5, <1>6, <1>10, <1>11, <1>13, <1>14, <1>15, <1>16, <1>17, <1>18, <1>19, <1>20, Zenon DEF
     Work

\* A run that ends by itself leaves none of its burns pending or claimable unless Circle
\* answered 400 (settle_created, recover_conflict, settle_failure, settle).
THEOREM RunsLeaveNothingOpen == Spec => EndedRunsSettle
<1>1. ASSUME SubmitInv, [Next]_vars, NEW l \in Listeners PROVE Ending(l)
  <2>1. CASE UNCHANGED run
    BY <2>1 DEF Ending
  <2>2. CASE \E m \in Listeners :
               \/ Submit(m) \/ Work(m) \/ LedgerFails(m) \/ Crash(m)
               \/ CircleTakes(m) \/ CircleConflicts(m) \/ CircleRefuses(m)
    <3>1. PICK m \in Listeners :
            \/ Submit(m) \/ Work(m) \/ LedgerFails(m) \/ Crash(m)
            \/ CircleTakes(m) \/ CircleConflicts(m) \/ CircleRefuses(m)
      BY <2>2
    <3>2. CASE m = l
      BY <1>1, <3>1, <3>2, EndsOfRuns
    <3>3. CASE m # l
      <4>1. PICK r : run' = [run EXCEPT ![m] = r]
        BY <3>1, OneRunMoves
      <4>2. run \in [Listeners -> Run]
        BY <1>1 DEF SubmitInv, TypeOK
      <4>3. run'[l] = run[l]
        BY <3>3, <4>1, <4>2
      <4> QED
        BY <4>3 DEF Ending
    <3> QED
      BY <3>2, <3>3
  <2>3. CASE LateArrival \/ Elsewhere \/ CircleSettles \/ \E k \in Burns : Operator(k)
    BY <2>1, <2>3 DEF LateArrival, Elsewhere, CircleSettles, Operator
  <2> QED
    BY <1>1, <2>1, <2>2, <2>3 DEF Next, vars
<1>2. ASSUME SubmitInv, [Next]_vars
      PROVE  [\A l \in Listeners :
                (run[l].pc # "idle" /\ run'[l].pc = "idle"
                   /\ outcome'[l] \notin {"crashed", "ledger_error"}) =>
                     \A b \in Range(run[l].keys) :
                       /\ ledger'[b].status = "pending" => outcome'[l] = "rejected"
                       /\ ledger'[b].status = "failed" => outcome'[l] = "rejected"]_vars
  BY <1>1, <1>2 DEF Ending, Blocks
<1> QED
  BY <1>2, SubmissionInvariance, PTL DEF Spec, EndedRunsSettle


\* What a step may put on record as a burn's withdrawal.
Evidence(b) ==
  ledger'[b].id # ledger[b].id =>
    /\ ledger'[b].id # NoId
    /\ \/ ledger'[b].id \in Withdrawals(b)
       \/ \E l \in Listeners : Owns(l, b) /\ Names(run[l].reply, b, ledger'[b].id)

\* A record changes one row, and its id only to one that the record carries.
LEMMA OneRowChanges ==
  ASSUME SubmitInv, NEW k \in Burns, NEW to, NEW id, record_transition(k, to, id), NEW b \in Burns,
         ledger'[b].id # ledger[b].id
  PROVE  b = k /\ id # NoId /\ ledger'[b].id = id
<1>1. ledger \in [Burns -> SubmissionRecord]
  BY OfWorld, Zenon DEF TypeOK, LedgerTypeOK
<1>2. ledger'[b] = IF b = k THEN apply_transition(ledger[k], to, id) ELSE ledger[b]
  BY <1>1, Zenon DEF record_transition
<1>3. b = k
  BY <1>2, Zenon
<1>4. ledger'[b].id = IF id = NoId THEN ledger[k].id ELSE id
  BY <1>2, <1>3, IdOfTransition
<1> QED
  BY <1>3, <1>4, Zenon

\* An id on record is never erased, and is one that Circle named for that burn or the burn's
\* own (block_binding_id_to, settle_created, recover_conflict).
THEOREM IdsComeFromCircle == Spec => IdsAreEvidence
<1>1. ASSUME SubmitInv, [Next]_vars, NEW b \in Burns PROVE Evidence(b)
  <2>1. CASE UNCHANGED ledger
    BY <2>1 DEF Evidence
  <2>2. ASSUME NEW l \in Listeners, Submit(l) PROVE Evidence(b)
    <3>1. UNCHANGED ledger \/ \E keys : claim_burns(keys)
      BY <2>2 DEF Submit
    <3>2. CASE \E keys : claim_burns(keys)
      <4>1. PICK keys : claim_burns(keys)
        BY <3>2
      <4>2. ledger'[b] = IF b \in keys THEN apply_transition(ledger[b], "pending", NoId) ELSE ledger[b]
        BY <4>1 DEF claim_burns
      <4>3. ledger'[b].id = ledger[b].id
        BY <4>2 DEF apply_transition
      <4> QED
        BY <4>3 DEF Evidence
    <3> QED
      BY <2>1, <3>1, <3>2
  <2>3. ASSUME NEW l \in Listeners, WriteNext(l) PROVE Evidence(b)
    <3> DEFINE w == Head(run[l].writes)
    <3>1. run[l].pc = "write" /\ (UNCHANGED ledger \/ record_transition(w.key, w.to, w.id))
      BY <2>3 DEF WriteNext
    <3> SUFFICES ASSUME record_transition(w.key, w.to, w.id), ledger'[b].id # ledger[b].id
                 PROVE  /\ ledger'[b].id # NoId
                        /\ \/ ledger'[b].id \in Withdrawals(b)
                           \/ Owns(l, b) /\ Names(run[l].reply, b, ledger'[b].id)
      BY <2>1, <3>1, Zenon DEF Evidence
    <3>2. run[l] \in Run /\ RunOK(run[l], ledger, circle, late) /\ PlaceOK(run[l])
      BY <1>1, OfRun, Zenon
    <3>5. WriteOK(run[l], w, circle, late) /\ w.key \in Range(run[l].keys) /\ w.key \in Burns
      BY <3>1, <3>2, FirstWrite, Zenon
    <3> HIDE DEF w
    <3>6. b = w.key /\ w.id # NoId /\ ledger'[b].id = w.id
      <4>1. PICK k \in Burns : k = w.key
        BY <3>5, Zenon
      <4>2. record_transition(k, w.to, w.id)
        BY <4>1, Zenon
      <4>3. b = k /\ w.id # NoId /\ ledger'[b].id = w.id
        BY <1>1, <4>2, OneRowChanges
      <4> QED
        BY <4>1, <4>3, Zenon
    <3>7. IsOf(circle, w.id, b) \/ Names(run[l].reply, b, w.id)
      BY <3>5, <3>6, Zenon DEF WriteOK
    <3> QED
      BY <3>1, <3>5, <3>6, <3>7, Zenon DEF Owns, Withdrawals, IsOf
  <2>4. ASSUME NEW k \in Burns, Operator(k) PROVE Evidence(b)
    <3> SUFFICES ASSUME ledger'[b].id # ledger[b].id
                 PROVE  ledger'[b].id # NoId /\ ledger'[b].id \in Withdrawals(b)
      BY Zenon DEF Evidence
    <3>1. CASE record_transition(k, "reconciliation_required", NoId)
      BY <1>1, <3>1, OneRowChanges, Zenon
    <3>2. CASE \E i \in Withdrawals(k) : record_transition(k, "submitted", i)
      BY <1>1, <3>2, OneRowChanges
    <3>3. CASE \E i \in Withdrawals(k) : record_transition(k, "finalized", i)
      BY <1>1, <3>3, OneRowChanges
    <3> QED
      BY <2>4, <3>1, <3>2, <3>3, Zenon DEF Operator
  <2>5. ASSUME NEW l \in Listeners, Work(l), ~ WriteNext(l) PROVE UNCHANGED ledger
    BY <2>5, Zenon DEF Work, Send, NoAnswer, Retry, Created, Conflict, Failure, PollAgain, Recover,
       Confirm,
                PollFails
  <2>6. ASSUME NEW l \in Listeners,
               LedgerFails(l) \/ Crash(l) \/ CircleTakes(l) \/ CircleConflicts(l) \/ CircleRefuses(l)
        PROVE  UNCHANGED ledger
    BY <2>6, ZenonT(30) DEF LedgerFails, Crash, CircleTakes, CircleConflicts, CircleRefuses
  <2>7. CASE LateArrival \/ Elsewhere \/ CircleSettles
    BY <2>1, <2>7 DEF LateArrival, Elsewhere, CircleSettles
  <2> QED
    BY <1>1, <2>1, <2>2, <2>3, <2>4, <2>5, <2>6, <2>7, Zenon DEF Next, vars
<1>2. ASSUME SubmitInv, [Next]_vars
      PROVE  [\A b \in Burns :
                ledger'[b].id # ledger[b].id =>
                  /\ ledger'[b].id # NoId
                  /\ \/ ledger'[b].id \in Withdrawals(b)
                     \/ \E l \in Listeners : Owns(l, b) /\ Names(run[l].reply, b, ledger'[b].id)]_vars
  BY <1>1, <1>2, Zenon DEF Evidence
<1> QED
  BY <1>2, SubmissionInvariance, PTL DEF Spec, IdsAreEvidence

=============================================================================
