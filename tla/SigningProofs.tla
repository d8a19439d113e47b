----------------------------- MODULE SigningProofs -----------------------------
(***************************************************************************)
(* What goes to Circle, for every value of the constants: when a request   *)
(* goes out, by which keys the light attester signs, for which answers of  *)
(* Circle, and what the earlier attester's gates let through.  The parts   *)
(* share no state: each section is about one specification, CircleTurns    *)
(* under its own names and the others as instances.                        *)
(***************************************************************************)
EXTENDS CircleTurns, TLAPS

\* Time, and a second try, for a leaf on a loaded machine; one that names a prover uses that one.
USE SMTT(20), ZenonT(20), SMTT(30)

-----------------------------------------------------------------------------
(* The turn at Circle.  Requests are a gap apart, one is out at a time, and replies are *)
(* whole.  What makes the first inductive is that the ticks left always make up what    *)
(* the last request and the last result lack of a gap, also while a request is out; the *)
(* second rests on who is where in the lock's queue.                                    *)

PaceInv ==
  /\ phase \in [Callers -> {"idle", "waiting", "sending", "reading"}]
  /\ left \in 0 .. REQUEST_GAP /\ started \in 0 .. REQUEST_GAP /\ ended \in 0 .. REQUEST_GAP
  /\ left + started >= REQUEST_GAP /\ left + ended >= REQUEST_GAP

ReplyInv ==
  /\ DOMAIN result = Callers /\ RepliesAreWhole
  /\ reply \in Replies \cup {NoReply} /\ reply.read <= MAX_RESPONSE_BODY_BYTES

\* A step keeps the count: sending and returning set it to a whole gap, and a tick moves both.
LEMMA PaceStep == PaceInv /\ [Next]_vars => PaceInv'
<1> SUFFICES ASSUME PaceInv, [Next]_vars PROVE PaceInv'
  OBVIOUS
<1> USE GapAssumption DEF PaceInv
<1>1. ASSUME NEW c \in Callers, Call(c) PROVE PaceInv'
  BY <1>1 DEF Call
<1>2. ASSUME NEW c \in Callers, Dispatch(c) PROVE PaceInv'
  BY <1>2 DEF Dispatch
<1>3. ASSUME NEW c \in Callers, Answered(c) PROVE PaceInv'
  <2>1. CASE \E kind, body : Return(c, kind, body)
    BY <2>1 DEF Return
  <2>2. CASE Respond(c) \/ Chunk(c)
    BY <2>2 DEF Respond, Chunk
  <2> QED
    BY <1>3, <2>1, <2>2 DEF Answered, Transport, BodyTooLarge, ReadFails, read_reply, Failed
<1>4. ASSUME NEW c \in Callers, Drop(c) PROVE PaceInv'
  BY <1>4 DEF Drop
<1>5. CASE Tick
  BY <1>5 DEF Tick, Later
<1>6. CASE UNCHANGED vars
  BY <1>6 DEF vars
<1> QED
  BY <1>1, <1>2, <1>3, <1>4, <1>5, <1>6 DEF Next

\* Whoever sends and whoever is dropped, a request goes out a gap after the one before and
\* after the last result (send's next_dispatch).
THEOREM Paced == Spec => RequestsAreApart
<1>1. Init => PaceInv
  BY GapAssumption DEF Init, PaceInv
<1>2. PaceInv /\ [Next]_vars =>
        [\A c \in Callers : phase[c] = "waiting" /\ phase'[c] = "sending"
           => started = REQUEST_GAP /\ ended = REQUEST_GAP]_vars
  <2> SUFFICES ASSUME PaceInv, Next, NEW c \in Callers, phase[c] = "waiting", phase'[c] = "sending"
               PROVE started = REQUEST_GAP /\ ended = REQUEST_GAP
    OBVIOUS
  <2> USE DEF PaceInv
  <2>1. ASSUME NEW d \in Callers, Dispatch(d) PROVE left = 0
    BY <2>1 DEF Dispatch
  <2>2. ASSUME NEW d \in Callers, Call(d) PROVE FALSE
    BY <2>2 DEF Call
  <2>3. ASSUME NEW d \in Callers, Drop(d) PROVE FALSE
    BY <2>3 DEF Drop
  <2>4. ASSUME NEW d \in Callers, Answered(d) PROVE FALSE
    <3>1. CASE \E kind, body : Return(d, kind, body)
      BY <3>1 DEF Return
    <3>2. CASE Respond(d) \/ Chunk(d)
      BY <3>2 DEF Respond, Chunk
    <3> QED
      BY <2>4, <3>1, <3>2 DEF Answered, Transport, BodyTooLarge, ReadFails, read_reply, Failed
  <2>5. ASSUME Tick PROVE FALSE
    BY <2>5 DEF Tick
  <2>6. left = 0
    BY <2>1, <2>2, <2>3, <2>4, <2>5 DEF Next
  <2> QED
    BY <2>6, GapAssumption
<1> QED
  BY <1>1, <1>2, PaceStep, PTL DEF Spec, RequestsAreApart

\* A reply is handed on only when it is complete, and never grows past the limit.
LEMMA ReplyStep == ReplyInv /\ [Next]_vars => ReplyInv'
<1> SUFFICES ASSUME ReplyInv, [Next]_vars PROVE ReplyInv'
  OBVIOUS
<1> USE BodyAssumption DEF ReplyInv, RepliesAreWhole
<1>0. NoReply.read = 0
  BY DEF NoReply
<1>1. ASSUME NEW c \in Callers, Call(c) \/ Dispatch(c) PROVE ReplyInv'
  BY <1>1 DEF Call, Dispatch
<1>2. ASSUME NEW c \in Callers, Respond(c) PROVE ReplyInv'
  BY <1>2 DEF Respond, Replies
<1>3. ASSUME NEW c \in Callers, Chunk(c) PROVE ReplyInv'
  <2>1. PICK k \in Chunks : /\ reply.read + k <= reply.length
                            /\ reply.read + k <= MAX_RESPONSE_BODY_BYTES
                            /\ reply' = [reply EXCEPT !.read = @ + k]
    BY <1>3 DEF Chunk
  <2>2. k \in Nat \ {0}
    OBVIOUS
  <2>3. reply # NoReply
    BY <2>1, <2>2, <1>0 DEF NoReply
  <2>4. reply' \in Replies /\ reply'.read <= MAX_RESPONSE_BODY_BYTES
    BY <2>1, <2>2, <2>3 DEF Replies
  <2> QED
    BY <2>4, <1>3 DEF Chunk
<1>4. ASSUME NEW c \in Callers, NEW kind, kind # "Ok", Return(c, kind, NoReply) PROVE ReplyInv'
  BY <1>4, <1>0 DEF Return, Result
<1>5. ASSUME NEW c \in Callers, read_reply(c) PROVE ReplyInv'
  <2>1. /\ reply' = NoReply /\ reply.read = reply.length
        /\ \E kind : result' = [result EXCEPT ![c] = [kind |-> kind, body |-> reply]]
    BY <1>5, Zenon DEF read_reply, Return, Result
  <2>2. reply.length <= MAX_RESPONSE_BODY_BYTES
    BY <2>1
  <2> QED
    BY <2>1, <2>2, <1>0
<1>6. ASSUME NEW c \in Callers, Transport(c) \/ BodyTooLarge(c) \/ ReadFails(c) PROVE ReplyInv'
  <2>1. \E kind : kind # "Ok" /\ Return(c, kind, NoReply)
    BY <1>6 DEF Transport, BodyTooLarge, ReadFails, Failed
  <2> QED
    BY <2>1, <1>4
<1>7. ASSUME NEW c \in Callers, Drop(c) PROVE ReplyInv'
  BY <1>7, <1>0 DEF Drop
<1>8. CASE Tick \/ UNCHANGED vars
  BY <1>8 DEF Tick, vars
<1> QED
  BY <1>1, <1>2, <1>3, <1>5, <1>6, <1>7, <1>8 DEF Next, Answered

\* A reply that a caller gets is all that Circle sent and within the limit (read_reply).
THEOREM WholeReplies == Spec => []RepliesAreWhole
<1>1. Init => ReplyInv
  BY BodyAssumption DEF Init, ReplyInv, RepliesAreWhole, Result, NoReply
<1>2. ReplyInv => RepliesAreWhole
  BY DEF ReplyInv
<1> QED
  BY <1>1, <1>2, ReplyStep, PTL DEF Spec

-----------------------------------------------------------------------------
(* The lock *)

\* Who is in the queue, and that only its head has a request out (TypeOK's part on the lock).
Queued(ph, q) ==
  /\ ph \in [Callers -> {"idle", "waiting", "sending", "reading"}]
  /\ q \in Seq(Callers)
  /\ \A i, j \in 1 .. Len(q) : q[i] = q[j] => i = j
  /\ \A c \in Callers : ph[c] # "idle" <=> \E i \in 1 .. Len(q) : q[i] = c
  /\ \A i \in 1 .. Len(q) : ph[q[i]] \in {"sending", "reading"} => i = 1

\* Two sequences in a row.
LEMMA InARow ==
  ASSUME NEW S, NEW a \in Seq(S), NEW b \in Seq(S)
  PROVE  /\ a \o b \in Seq(S) /\ Len(a \o b) = Len(a) + Len(b)
         /\ \A n \in 1 .. Len(a) + Len(b) : (a \o b)[n] = IF n <= Len(a) THEN a[n] ELSE b[n - Len(a)]
OBVIOUS

\* The queue before its n-th caller, and after it.
LEMMA AroundOne ==
  ASSUME NEW q \in Seq(Callers), NEW n \in 1 .. Len(q)
  PROVE  /\ SubSeq(q, 1, n - 1) \in Seq(Callers) /\ Len(SubSeq(q, 1, n - 1)) = n - 1
         /\ \A i \in 1 .. n - 1 : SubSeq(q, 1, n - 1)[i] = q[i]
         /\ SubSeq(q, n + 1, Len(q)) \in Seq(Callers) /\ Len(SubSeq(q, n + 1, Len(q))) = Len(q) - n
         /\ \A i \in 1 .. Len(q) - n : SubSeq(q, n + 1, Len(q))[i] = q[n + i]
<1>1. Len(q) \in Nat /\ n \in Nat
  OBVIOUS
<1>2. /\ SubSeq(q, 1, n - 1) \in Seq(Callers) /\ Len(SubSeq(q, 1, n - 1)) = n - 1
      /\ \A i \in 1 .. n - 1 : SubSeq(q, 1, n - 1)[i] = q[i]
  BY <1>1
<1>3. /\ SubSeq(q, n + 1, Len(q)) \in Seq(Callers) /\ Len(SubSeq(q, n + 1, Len(q))) = Len(q) - n
      /\ \A i \in 1 .. Len(q) - n : SubSeq(q, n + 1, Len(q))[i] = q[n + i]
  BY <1>1
<1> QED
  BY <1>2, <1>3, Zenon

\* The queue without its n-th caller (Leaves).
LEMMA WithoutOne ==
  ASSUME NEW q \in Seq(Callers), NEW n \in 1 .. Len(q)
  PROVE  LET r == SubSeq(q, 1, n - 1) \o SubSeq(q, n + 1, Len(q))
         IN  /\ r \in Seq(Callers) /\ Len(r) = Len(q) - 1
             /\ \A i \in 1 .. Len(r) : r[i] = IF i < n THEN q[i] ELSE q[i + 1]
<1> DEFINE s == SubSeq(q, 1, n - 1)
           t == SubSeq(q, n + 1, Len(q))
           r == s \o t
<1>1. Len(q) \in Nat /\ n \in Nat
  OBVIOUS
<1>2. /\ s \in Seq(Callers) /\ Len(s) = n - 1
      /\ \A i \in 1 .. n - 1 : s[i] = q[i]
  BY AroundOne, Zenon
<1>3. /\ t \in Seq(Callers) /\ Len(t) = Len(q) - n
      /\ \A i \in 1 .. Len(q) - n : t[i] = q[n + i]
  BY AroundOne, Zenon
<1> HIDE DEF s, t
<1>4. r \in Seq(Callers) /\ Len(r) = Len(s) + Len(t)
  BY <1>2, <1>3, InARow, Zenon
<1>5. \A i \in 1 .. Len(s) + Len(t) : r[i] = IF i <= Len(s) THEN s[i] ELSE t[i - Len(s)]
  BY <1>2, <1>3, InARow, Zenon
<1> HIDE DEF r
<1>6. Len(r) = Len(q) - 1
  BY <1>1, <1>2, <1>3, <1>4
<1>7. ASSUME NEW i \in 1 .. Len(r) PROVE r[i] = IF i < n THEN q[i] ELSE q[i + 1]
  <2>1. r[i] = IF i <= n - 1 THEN s[i] ELSE t[i - (n - 1)]
    BY <1>2, <1>4, <1>5, Zenon
  <2>2. CASE i < n
    BY <2>1, <2>2, <1>1, <1>2, <1>6
  <2>3. CASE ~ (i < n)
    <3>1. i - (n - 1) \in 1 .. Len(q) - n /\ n + (i - (n - 1)) = i + 1
      BY <2>3, <1>1, <1>6
    <3>2. r[i] = t[i - (n - 1)]
      BY <2>1, <2>3, <1>1, <1>6
    <3> QED
      BY <2>3, <3>1, <3>2, <1>3, Zenon
  <2> QED
    BY <2>2, <2>3
<1> QED
  BY <1>4, <1>6, <1>7, Zenon DEF r, s, t

\* A caller that asks for the lock goes to the end of the queue.
LEMMA QueuedLast ==
  ASSUME NEW ph, NEW q, Queued(ph, q), NEW c \in Callers, ph[c] = "idle"
  PROVE  Queued([ph EXCEPT ![c] = "waiting"], Append(q, c))
<1> DEFINE r == Append(q, c)
<1>1. /\ r \in Seq(Callers) /\ Len(r) = Len(q) + 1 /\ Len(q) \in Nat /\ r[Len(r)] = c
      /\ \A i \in 1 .. Len(q) : r[i] = q[i]
  BY DEF Queued
<1>2. \A i \in 1 .. Len(q) : q[i] # c /\ q[i] \in Callers
  BY DEF Queued
<1> HIDE DEF r
<1>3. \A i, j \in 1 .. Len(r) : r[i] = r[j] => i = j
  BY <1>1, <1>2 DEF Queued
<1>4. \A d \in Callers : [ph EXCEPT ![c] = "waiting"][d] # "idle" <=> \E i \in 1 .. Len(r) : r[i] = d
  BY <1>1, <1>2 DEF Queued
<1>5. \A i \in 1 .. Len(r) : [ph EXCEPT ![c] = "waiting"][r[i]] \in {"sending", "reading"} => i = 1
  BY <1>1, <1>2 DEF Queued
<1> QED
  BY <1>1, <1>3, <1>4, <1>5 DEF Queued, r

\* A caller that leaves the queue, from its head or from any other place, lets the rest move up.
LEMMA QueuedLess ==
  ASSUME NEW ph, NEW q, Queued(ph, q), NEW n \in 1 .. Len(q), NEW r \in Seq(Callers),
         Len(r) = Len(q) - 1,
         \A i \in 1 .. Len(r) : r[i] = IF i < n THEN q[i] ELSE q[i + 1]
  PROVE  Queued([ph EXCEPT ![q[n]] = "idle"], r)
<1> DEFINE c == q[n]
<1> DEFINE old(i) == IF i < n THEN i ELSE i + 1
<1>1. Len(q) \in Nat /\ Len(r) \in Nat /\ q[n] \in Callers
  BY DEF Queued
<1>2. \A i \in 1 .. Len(r) : old(i) \in 1 .. Len(q) /\ old(i) # n /\ r[i] = q[old(i)]
  BY <1>1
<1>3. \A i, j \in 1 .. Len(r) : r[i] = r[j] => i = j
  <2> TAKE i, j \in 1 .. Len(r)
  <2> HAVE r[i] = r[j]
  <2>1. old(i) = old(j)
    BY <1>2 DEF Queued
  <2> QED
    BY <2>1, <1>1
<1>4. \A k \in 1 .. Len(q) : k # n => \E i \in 1 .. Len(r) : old(i) = k
  <2> TAKE k \in 1 .. Len(q)
  <2> HAVE k # n
  <2>0. k \in Int /\ n \in Int
    OBVIOUS
  <2>1. CASE k < n
    <3>1. k \in 1 .. Len(r) /\ old(k) = k
      BY <2>1, <1>1
    <3> QED
      BY <3>1, Zenon
  <2>2. CASE k > n
    <3>1. k - 1 \in 1 .. Len(r) /\ old(k - 1) = k
      BY <2>2, <1>1
    <3> QED
      BY <3>1, Zenon
  <2>3. k < n \/ k > n
    BY <2>0
  <2> QED
    BY <2>1, <2>2, <2>3, Zenon
<1>5. \A i \in 1 .. Len(r) : r[i] # c
  BY <1>2 DEF Queued
<1> HIDE DEF old
<1>6. \A d \in Callers : [ph EXCEPT ![c] = "idle"][d] # "idle" <=> \E i \in 1 .. Len(r) : r[i] = d
  <2> TAKE d \in Callers
  <2>1. CASE d = c
    BY <2>1, <1>1, <1>5 DEF Queued
  <2>2. CASE d # c
    <3>1. [ph EXCEPT ![c] = "idle"][d] = ph[d]
      BY <2>2 DEF Queued
    <3>2. (\E k \in 1 .. Len(q) : q[k] = d) <=> \E i \in 1 .. Len(r) : r[i] = d
      <4>1. ASSUME NEW k \in 1 .. Len(q), q[k] = d PROVE \E i \in 1 .. Len(r) : r[i] = d
        <5>1. k # n
          BY <4>1, <2>2
        <5>2. PICK i \in 1 .. Len(r) : old(i) = k
          BY <5>1, <1>4, Zenon
        <5> QED
          BY <4>1, <5>2, <1>2, Zenon
      <4>2. ASSUME NEW i \in 1 .. Len(r), r[i] = d PROVE \E k \in 1 .. Len(q) : q[k] = d
        BY <4>2, <1>2, Zenon
      <4> QED
        BY <4>1, <4>2, Zenon
    <3> QED
      BY <3>1, <3>2 DEF Queued
  <2> QED
    BY <2>1, <2>2
<1>7. \A i \in 1 .. Len(r) : [ph EXCEPT ![c] = "idle"][r[i]] \in {"sending", "reading"} => i = 1
  <2> TAKE i \in 1 .. Len(r)
  <2> HAVE [ph EXCEPT ![c] = "idle"][r[i]] \in {"sending", "reading"}
  <2>1. r[i] \in Callers
    BY <1>1
  <2>2. ph[q[old(i)]] \in {"sending", "reading"}
    BY <2>1, <1>2, <1>5 DEF Queued
  <2>3. old(i) = 1
    BY <2>2, <1>2 DEF Queued
  <2> QED
    BY <2>3, <1>1 DEF old
<1>8. [ph EXCEPT ![c] = "idle"] \in [Callers -> {"idle", "waiting", "sending", "reading"}]
  BY <1>1 DEF Queued
<1> QED
  BY <1>3, <1>6, <1>7, <1>8 DEF Queued

\* The caller whose turn it is moves on with its request.
LEMMA QueuedHead ==
  ASSUME NEW ph, NEW q, Queued(ph, q), q # <<>>, NEW w \in {"sending", "reading"}
  PROVE  Queued([ph EXCEPT ![Head(q)] = w], q)
<1>1. Len(q) \in Nat \ {0} /\ Head(q) = q[1] /\ q[1] \in Callers
  BY DEF Queued
<1> QED
  BY <1>1 DEF Queued

\* The part of TypeOK that is about the lock is Queued.
LEMMA TypesAreQueued ==
  TypeOK <=> /\ Queued(phase, lock)
             /\ left \in 0 .. REQUEST_GAP /\ started \in 0 .. REQUEST_GAP /\ ended \in 0 .. REQUEST_GAP
             /\ reply \in Replies \cup {NoReply}
<1>1. lock \in Seq(Callers) => DOMAIN lock = 1 .. Len(lock)
  OBVIOUS
<1> QED
  BY <1>1 DEF TypeOK, Queued

\* Every step keeps the queue in order: a caller joins at its end, moves on at its head, or leaves.
LEMMA QueuedStep ==
  ASSUME Queued(phase, lock), [Next]_vars PROVE Queued(phase, lock)'
<1> SUFFICES Queued(phase', lock')
  BY DEF Queued
<1>1. ASSUME NEW c \in Callers, Call(c) PROVE Queued(phase', lock')
  BY <1>1, QueuedLast, Zenon DEF Call
<1>2. ASSUME NEW c \in Callers, Dispatch(c) \/ Respond(c) PROVE Queued(phase', lock')
  <2>1. /\ lock # <<>> /\ Head(lock) = c /\ lock' = lock
        /\ phase' = [phase EXCEPT ![c] = "sending"] \/ phase' = [phase EXCEPT ![c] = "reading"]
    BY <1>2, Zenon DEF Dispatch, Respond, Turn
  <2>2. /\ Queued([phase EXCEPT ![Head(lock)] = "sending"], lock)
        /\ Queued([phase EXCEPT ![Head(lock)] = "reading"], lock)
    BY <2>1, QueuedHead, Zenon
  <2> QED
    BY <2>1, <2>2, Zenon
<1>3. ASSUME NEW c \in Callers, NEW kind, NEW body, NEW ph, Turn(c, ph), Return(c, kind, body)
      PROVE  Queued(phase', lock')
  <2>1. /\ lock \in Seq(Callers) /\ lock # <<>> /\ Head(lock) = lock[1] /\ lock[1] = c
        /\ 1 \in 1 .. Len(lock)
    BY <1>3 DEF Turn, Queued
  <2>2. /\ Tail(lock) \in Seq(Callers) /\ Len(Tail(lock)) = Len(lock) - 1
        /\ \A i \in 1 .. Len(Tail(lock)) : Tail(lock)[i] = lock[i + 1]
    BY <2>1
  <2>3. \A i \in 1 .. Len(Tail(lock)) : Tail(lock)[i] = IF i < 1 THEN lock[i] ELSE lock[i + 1]
    BY <2>2
  <2> QED
    BY <1>3, <2>1, <2>2, <2>3, QueuedLess, ZenonT(30) DEF Return
<1>4. ASSUME NEW c \in Callers, Drop(c) PROVE Queued(phase', lock')
  <2>1. PICK n \in 1 .. Len(lock) :
          lock[n] = c /\ lock' = SubSeq(lock, 1, n - 1) \o SubSeq(lock, n + 1, Len(lock))
    <3>1. lock \in Seq(Callers)
      BY DEF Queued
    <3>2. DOMAIN lock = 1 .. Len(lock)
      BY <3>1
    <3> QED
      BY <1>4, <3>2, Zenon DEF Drop, Leaves
  <2>2. lock \in Seq(Callers)
    BY DEF Queued
  <2>3. /\ lock' \in Seq(Callers) /\ Len(lock') = Len(lock) - 1
        /\ \A i \in 1 .. Len(lock') : lock'[i] = IF i < n THEN lock[i] ELSE lock[i + 1]
    BY <2>1, <2>2, WithoutOne, Zenon
  <2>4. Queued([phase EXCEPT ![lock[n]] = "idle"], lock')
    BY <2>3, QueuedLess, Zenon
  <2> QED
    BY <1>4, <2>1, <2>4, Zenon DEF Drop
<1>5. ASSUME NEW c \in Callers, Answered(c) PROVE Queued(phase', lock')
  BY <1>2, <1>3, <1>5
     DEF Answered, Chunk, Transport, BodyTooLarge, ReadFails, read_reply, Failed
<1>6. CASE Tick \/ UNCHANGED vars
  BY <1>6 DEF Tick, vars
<1> QED
  BY <1>1, <1>2, <1>4, <1>5, <1>6 DEF Next

\* The queue and the callers' places in it hold always.
LEMMA QueuedAlways == Spec => []Queued(phase, lock)
<1>1. Init => Queued(phase, lock)
  BY DEF Init, Queued
<1>2. Queued(phase, lock) /\ [Next]_vars => Queued(phase, lock)'
  BY QueuedStep
<1> QED
  BY <1>1, <1>2, PTL DEF Spec

\* One request is out at a time, whoever is dropped while it holds the lock or waits for it (send).
THEOREM OneRequestOut == Spec => []OneAtATime
<1>1. Queued(phase, lock) => OneAtATime
  BY DEF Queued, OneAtATime
<1> QED
  BY <1>1, QueuedAlways, PTL

\* Callers, the lock, the times and the reply keep their types (send, read_reply).
THEOREM TurnTypes == Spec => []TypeOK
<1>1. PaceInv /\ ReplyInv /\ Queued(phase, lock) => TypeOK
  BY TypesAreQueued DEF PaceInv, ReplyInv
<1>2. Spec => []PaceInv
  <2>1. Init => PaceInv
    BY GapAssumption DEF Init, PaceInv
  <2> QED
    BY <2>1, PaceStep, PTL DEF Spec
<1>3. Spec => []ReplyInv
  <2>1. Init => ReplyInv
    BY BodyAssumption DEF Init, ReplyInv, RepliesAreWhole, Result, NoReply
  <2> QED
    BY <2>1, ReplyStep, PTL DEF Spec
<1> QED
  BY <1>1, <1>2, <1>3, QueuedAlways, PTL

-----------------------------------------------------------------------------
(* The two signers.  A request carries what the pinned keys signed, so the argument is   *)
(* about the pair: whichever keys were pinned, in either order of the settings, they     *)
(* stay beside the ARNs they came from (Pinned) and are the expected ones, in order,     *)
(* before anything is signed.  While KMS stays as it is the pinned keys are KMS's own.   *)

CONSTANTS Arns, Keys, Digests, SignerSettings
VARIABLES at, cli, arns, keys, digest, sigs, kms, steady, requests

Signers == INSTANCE AttesterSigners WITH Settings <- SignerSettings, pc <- at

\* The pair as a start built it so far.
PairOK ==
  /\ at # "down" => Signers!from_cli(cli) /\ Len(arns) = 2
  /\ at \in {"describe", "key", "pair"} => arns = cli.arns
  /\ at \in {"describe", "key"} => Len(keys) < 2
  /\ at \in {"pair", "expected", "ready", "sign"} => Len(keys) = 2
  /\ at \in {"expected", "ready", "sign"} =>
       keys[1] < keys[2] /\ (arns = cli.arns \/ arns = Signers!Swapped(cli.arns))
  /\ at \in {"ready", "sign"} => Signers!Matches

\* While KMS stays as it is, the pinned keys are the ones it has, and they are fit.
Pinned ==
  steady /\ at \notin {"down", "refused"} =>
    /\ \A n \in 1 .. 2 : n <= Len(keys) => keys[n] = kms[arns[n]].key /\ kms[arns[n]].fit
    /\ at = "key" => kms[arns[Len(keys) + 1]].fit

\* A signature of the n-th signer on digest d.
SignedBy(sig, n, d) == sig.key = keys[n] /\ sig.digest = <<d, "digest">> /\ Signers!Recovers(sig)

SigsOK ==
  /\ at # "sign" => sigs = <<>>
  /\ sigs # <<>> => SignedBy(sigs[1], 1, digest)
  /\ at \notin {"ready", "sign"} => requests = <<>>
  /\ requests # <<>> => \E d \in Digests : SignedBy(requests[1], 1, d) /\ SignedBy(requests[2], 2, d)

SignersInv ==
  /\ Signers!TypeOK /\ cli \in SignerSettings /\ digest \in Digests
  /\ PairOK /\ Pinned /\ SigsOK /\ Signers!RightKeysStart

\* normalize_s and the recovered parity leave a signature that recovers.
LEMMA RecoverableRecovers ==
  ASSUME NEW sig \in Signers!Signatures
  PROVE  /\ Signers!recoverable(sig) \in Signers!Signatures /\ Signers!Recovers(Signers!recoverable(sig))
         /\ Signers!recoverable(sig).key = sig.key /\ Signers!recoverable(sig).digest = sig.digest
<1>1. CASE sig.s = "high"
  BY <1>1, Zenon DEF Signers!recoverable, Signers!Signatures, Signers!Recovers
<1>2. CASE sig.s # "high"
  BY <1>2 DEF Signers!recoverable, Signers!Signatures, Signers!Recovers
<1> QED
  BY <1>1, <1>2

\* The two members of a pair.
LEMMA PairRange == ASSUME NEW S, NEW p \in Seq(S), Len(p) = 2 PROVE Signers!Range(p) = {p[1], p[2]}
  BY DEF Signers!Range

LEMMA SwappedPair ==
  ASSUME NEW S, NEW p \in Seq(S), Len(p) = 2
  PROVE  /\ Signers!Swapped(p) \in Seq(S) /\ Len(Signers!Swapped(p)) = 2
         /\ Signers!Swapped(p)[1] = p[2] /\ Signers!Swapped(p)[2] = p[1]
  BY DEF Signers!Swapped

LEMMA OneMore ==
  ASSUME NEW S, NEW s \in Seq(S), NEW x \in S
  PROVE  /\ Append(s, x) \in Seq(S) /\ Len(Append(s, x)) = Len(s) + 1
         /\ Append(s, x)[Len(s) + 1] = x /\ \A n \in 1 .. Len(s) : Append(s, x)[n] = s[n]
  OBVIOUS

LEMMA SecondOfTwo ==
  ASSUME NEW S, NEW s \in Seq(S), NEW x \in S
  PROVE  Len(s) = 1 => /\ Append(s, x) \in Seq(S) /\ Len(Append(s, x)) = 2
                       /\ Append(s, x)[1] = s[1] /\ Append(s, x)[2] = x
<1> DEFINE t == Append(s, x)
<1>1. t \in Seq(S) /\ Len(t) = Len(s) + 1 /\ t[Len(s) + 1] = x /\ \A n \in 1 .. Len(s) : t[n] = s[n]
  BY OneMore
<1> HIDE DEF t
<1>2. ASSUME Len(s) = 1 PROVE Len(s) + 1 = 2 /\ 1 \in 1 .. Len(s)
  BY <1>2
<1> QED
  BY <1>1, <1>2, Zenon DEF t

\* An answer that is accepted.
LEMMA AcceptedSigns ==
  ASSUME Signers!TypeOK, digest \in Digests, NEW n \in 1 .. 2,
         NEW answer \in Signers!Answers(arns[n], Signers!sign_request(digest)),
         Signers!accepts(answer, n)
  PROVE  /\ Signers!recoverable(answer.sig) \in Signers!Signatures
         /\ SignedBy(Signers!recoverable(answer.sig), n, digest)
<1>1. PICK b \in Arns, s \in {"low", "high"}, odd \in BOOLEAN, reduced \in BOOLEAN :
        answer = Signers!Answer(b, Signers!sign_request(digest), s, odd, reduced)
  BY DEF Signers!Answers
<1>2. answer.sig \in Signers!Signatures
  BY <1>1 DEF Signers!Answer, Signers!Signatures, Signers!TypeOK, Signers!sign_request
<1>3. answer.sig.key = keys[n] /\ answer.sig.digest = <<digest, "digest">>
  BY DEF Signers!accepts
<1> QED
  BY <1>2, <1>3, RecoverableRecovers, Zenon DEF SignedBy

LEMMA SignersStart == ASSUME Signers!Assumption, Signers!Init PROVE SignersInv
<1>0. kms \in [Arns -> [key : Keys, fit : BOOLEAN]] /\ steady \in BOOLEAN
  <2>1. [key : Keys, fit : {TRUE}] \subseteq [key : Keys, fit : BOOLEAN]
    BY Zenon
  <2>2. kms \in [Arns -> [key : Keys, fit : {TRUE}]] /\ steady = TRUE
    BY Zenon DEF Signers!Init
  <2> QED
    BY <2>1, <2>2, Zenon
<1>1. Signers!TypeOK /\ cli \in SignerSettings /\ digest \in Digests
  BY <1>0 DEF Signers!Init, Signers!TypeOK
<1>2. PairOK /\ Pinned /\ SigsOK /\ Signers!RightKeysStart
  BY DEF Signers!Init, PairOK, Pinned, SigsOK, Signers!RightKeysStart
<1> QED
  BY <1>1, <1>2 DEF SignersInv

\* SignerSettings that pass are two pairs.
LEMMA TwoPairs ==
  ASSUME Signers!Assumption, NEW c \in SignerSettings, Signers!from_cli(c)
  PROVE  /\ c.arns \in Seq(Arns) /\ Len(c.arns) = 2 /\ c.arns[1] # c.arns[2]
         /\ c.expected \in Seq(Keys) /\ Len(c.expected) = 2
  BY DEF Signers!Assumption, Signers!from_cli

LEMMA LaunchSafe ==
  ASSUME Signers!Assumption, SignersInv, NEW c \in SignerSettings, Signers!Launch(c)
  PROVE  SignersInv'
<1>1. /\ Signers!from_cli(c) /\ at' = "describe" /\ cli' = c /\ arns' = c.arns /\ keys' = <<>> /\ steady' = TRUE
      /\ at \in {"down", "refused"} /\ UNCHANGED <<digest, sigs, kms, requests>>
  BY DEF Signers!Launch
<1>2. c.arns \in Seq(Arns) /\ Len(c.arns) = 2
  BY <1>1, TwoPairs
<1>3. Signers!TypeOK' /\ cli' \in SignerSettings /\ digest' \in Digests
  BY <1>1, <1>2 DEF SignersInv, Signers!TypeOK
<1>4. PairOK'
  BY <1>1, <1>2 DEF PairOK, Signers!from_cli
<1>5. Pinned' /\ SigsOK' /\ Signers!RightKeysStart'
  BY <1>1 DEF SignersInv, Pinned, SigsOK, Signers!RightKeysStart
<1> QED
  BY <1>3, <1>4, <1>5 DEF SignersInv

LEMMA MetadataSafe ==
  ASSUME Signers!Assumption, SignersInv, Signers!check_key_metadata
  PROVE  SignersInv'
<1>1. /\ at = "describe" /\ UNCHANGED <<cli, arns, keys, digest, sigs, kms, steady, requests>>
      /\ \/ kms[arns[Len(keys) + 1]].fit /\ at' = "key"
         \/ ~ kms[arns[Len(keys) + 1]].fit /\ at' = "refused"
  BY DEF Signers!check_key_metadata, Signers!Kms, Signers!Arn
<1>2. Signers!TypeOK' /\ cli' \in SignerSettings /\ digest' \in Digests
  BY <1>1 DEF SignersInv, Signers!TypeOK
<1>3. PairOK'
  BY <1>1 DEF SignersInv, PairOK, Signers!from_cli
<1>4. SigsOK'
  BY <1>1 DEF SignersInv, SigsOK
<1>5. Pinned'
  BY <1>1 DEF SignersInv, Pinned
<1>6. Signers!RightKeysStart'
  <2>1. Len(keys) + 1 \in DOMAIN cli.arns /\ arns = cli.arns
    BY <1>1 DEF SignersInv, PairOK, Signers!TypeOK
  <2>2. arns[Len(keys) + 1] \in Signers!Range(cli.arns)
    BY <2>1 DEF Signers!Range
  <2> QED
    BY <1>1, <2>2 DEF Signers!RightKeysStart, Signers!Range
<1> QED
  BY <1>2, <1>3, <1>4, <1>5, <1>6 DEF SignersInv

LEMMA PublicKeySafe ==
  ASSUME Signers!Assumption, SignersInv, Signers!public_key_from_response
  PROVE  SignersInv'
<1> DEFINE arn == arns[Len(keys) + 1]
<1>1. at = "key" /\ UNCHANGED <<cli, arns, digest, sigs, kms, steady, requests>>
  BY DEF Signers!public_key_from_response, Signers!Kms
<1>2. /\ keys \in Seq(Keys) /\ Len(keys) \in {0, 1} /\ arns \in Seq(Arns) /\ Len(arns) = 2
      /\ arns = cli.arns /\ arn \in Arns /\ kms[arn].key \in Keys
  <2>1. keys \in Seq(Keys) /\ Len(keys) < 2 /\ arns \in Seq(Arns) /\ Len(arns) = 2 /\ arns = cli.arns
    BY <1>1 DEF SignersInv, PairOK, Signers!TypeOK
  <2>2. kms \in [Arns -> [key : Keys, fit : BOOLEAN]]
    BY Zenon DEF SignersInv, Signers!TypeOK
  <2>3. Len(keys) \in {0, 1}
    <3>1. Len(keys) \in Nat /\ Len(keys) < 2
      BY <2>1
    <3>2. \A n \in Nat : n < 2 => n \in {0, 1}
      OBVIOUS
    <3> QED
      BY <3>1, <3>2, Zenon
  <2>4. Len(keys) + 1 \in 1 .. Len(arns)
    BY <2>1, <2>3
  <2>5. arn \in Arns
    BY <2>1, <2>4
  <2> QED
    BY <2>1, <2>2, <2>3, <2>5
<1>3. ASSUME keys' = Append(keys, kms[arn].key), at' = IF Len(keys') = 2 THEN "pair" ELSE "describe"
      PROVE  SignersInv'
  <2>1. /\ keys' \in Seq(Keys) /\ Len(keys') = Len(keys) + 1 /\ keys'[Len(keys) + 1] = kms[arn].key
        /\ \A n \in 1 .. Len(keys) : keys'[n] = keys[n]
    BY <1>2, <1>3
  <2>2. Signers!TypeOK' /\ cli' \in SignerSettings /\ digest' \in Digests
    BY <1>1, <1>2, <1>3, <2>1 DEF SignersInv, Signers!TypeOK
  <2>3. PairOK'
    BY <1>1, <1>2, <1>3, <2>1 DEF SignersInv, PairOK, Signers!from_cli
  <2>4. SigsOK'
    BY <1>1, <1>3 DEF SignersInv, SigsOK
  <2>5. Pinned'
    BY <1>1, <1>2, <1>3, <2>1 DEF SignersInv, Pinned
  <2>6. Signers!RightKeysStart'
    BY <1>3 DEF Signers!RightKeysStart
  <2> QED
    BY <2>2, <2>3, <2>4, <2>5, <2>6 DEF SignersInv
<1>4. ASSUME ~ kms[arn].fit, at' = "refused", UNCHANGED keys
      PROVE  SignersInv'
  <2>1. Signers!TypeOK' /\ cli' \in SignerSettings /\ digest' \in Digests
    BY <1>1, <1>4 DEF SignersInv, Signers!TypeOK
  <2>2. PairOK'
    BY <1>1, <1>4 DEF SignersInv, PairOK, Signers!from_cli
  <2>3. SigsOK' /\ Pinned'
    BY <1>1, <1>4 DEF SignersInv, SigsOK, Pinned
  <2>4. arn \in Signers!Range(cli.arns)
    BY <1>2 DEF Signers!Range
  <2>5. Signers!RightKeysStart'
    BY <1>1, <1>4, <2>4 DEF Signers!RightKeysStart, Signers!Range
  <2> QED
    BY <2>1, <2>2, <2>3, <2>5 DEF SignersInv
<1> QED
  BY <1>3, <1>4 DEF Signers!public_key_from_response, Signers!Arn

\* Two pinned keys that are the same one, or not the expected ones, are not what KMS has for
\* settings that are right.
LEMMA WrongKeys ==
  ASSUME Signers!Assumption, SignersInv, steady, at \in {"pair", "expected"},
         keys[1] = keys[2] \/ ~ Signers!Matches
  PROVE  \/ cli.expected[1] = cli.expected[2]
         \/ {kms[a].key : a \in Signers!Range(cli.arns)} # Signers!Range(cli.expected)
<1>1. /\ cli.arns \in Seq(Arns) /\ Len(cli.arns) = 2
      /\ cli.expected \in Seq(Keys) /\ Len(cli.expected) = 2
  BY TwoPairs DEF SignersInv, PairOK
<1>2. keys[1] = kms[arns[1]].key /\ keys[2] = kms[arns[2]].key
  BY DEF SignersInv, PairOK, Pinned
<1>3. arns = cli.arns \/ (arns[1] = cli.arns[2] /\ arns[2] = cli.arns[1])
  BY <1>1, SwappedPair DEF SignersInv, PairOK
<1>4. Signers!Range(cli.arns) = {cli.arns[1], cli.arns[2]}
  BY <1>1, PairRange
<1>5. Signers!Range(cli.expected) = {cli.expected[1], cli.expected[2]}
  BY <1>1, PairRange
<1>6. {kms[a].key : a \in Signers!Range(cli.arns)} = {keys[1], keys[2]}
  BY <1>2, <1>3, <1>4
<1> QED
  BY <1>5, <1>6 DEF Signers!Matches

LEMMA PairSafe ==
  ASSUME Signers!Assumption, SignersInv, Signers!SignerPair
  PROVE  SignersInv'
<1>1. /\ at = "pair" /\ UNCHANGED <<cli, digest, sigs, kms, steady, requests>>
      /\ at' = IF keys[1] = keys[2] THEN "refused" ELSE "expected"
      /\ \/ keys[2] < keys[1] /\ keys' = Signers!Swapped(keys) /\ arns' = Signers!Swapped(arns)
         \/ keys[2] >= keys[1] /\ UNCHANGED <<keys, arns>>
  BY DEF Signers!SignerPair, Signers!Kms
<1>2. /\ keys \in Seq(Keys) /\ Len(keys) = 2 /\ arns \in Seq(Arns) /\ Len(arns) = 2 /\ arns = cli.arns
      /\ keys[1] \in Nat /\ keys[2] \in Nat
  <2>1. keys \in Seq(Keys) /\ Len(keys) = 2 /\ arns \in Seq(Arns) /\ Len(arns) = 2 /\ arns = cli.arns
    BY <1>1 DEF SignersInv, PairOK, Signers!TypeOK
  <2>2. keys[1] \in Keys /\ keys[2] \in Keys
    BY <2>1
  <2> QED
    BY <2>1, <2>2, Zenon DEF Signers!Assumption
<1>3. /\ keys' \in Seq(Keys) /\ Len(keys') = 2 /\ arns' \in Seq(Arns) /\ Len(arns') = 2
      /\ keys'[1] <= keys'[2] /\ (keys'[1] = keys'[2] => keys[1] = keys[2])
      /\ keys'[1] \in Nat /\ keys'[2] \in Nat
  BY <1>1, <1>2, SwappedPair
<1>4. at' \in {"refused", "expected"} /\ (at' = "expected" => keys[1] # keys[2])
  BY <1>1
<1>5. Signers!TypeOK' /\ cli' \in SignerSettings /\ digest' \in Digests
  BY <1>1, <1>3, <1>4 DEF SignersInv, Signers!TypeOK
<1>6. PairOK'
  <2>1. Signers!from_cli(cli')
    BY <1>1 DEF SignersInv, PairOK, Signers!from_cli
  <2>2. arns' = cli'.arns \/ arns' = Signers!Swapped(cli'.arns)
    BY <1>1, <1>2
  <2>3. keys'[1] < keys'[2] \/ at' # "expected"
    BY <1>3, <1>4
  <2> QED
    BY <1>3, <1>4, <2>1, <2>2, <2>3 DEF PairOK, Signers!from_cli, Signers!Swapped
<1>7. Pinned'
  <2>1. steady => /\ keys[1] = kms[arns[1]].key /\ kms[arns[1]].fit
                  /\ keys[2] = kms[arns[2]].key /\ kms[arns[2]].fit
    BY <1>1, <1>2 DEF SignersInv, Pinned
  <2>2. \/ keys'[1] = keys[1] /\ keys'[2] = keys[2] /\ arns'[1] = arns[1] /\ arns'[2] = arns[2]
        \/ keys'[1] = keys[2] /\ keys'[2] = keys[1] /\ arns'[1] = arns[2] /\ arns'[2] = arns[1]
    BY <1>1, <1>2, SwappedPair
  <2> QED
    BY <1>1, <1>4, <2>1, <2>2 DEF Pinned
<1>8. SigsOK'
  BY <1>1, <1>4 DEF SignersInv, SigsOK
<1>9. Signers!RightKeysStart'
  <2>1. at' = "refused" => keys[1] = keys[2]
    BY <1>1
  <2>2. at' = "refused" /\ steady =>
          \/ cli.expected[1] = cli.expected[2]
          \/ {kms[a].key : a \in Signers!Range(cli.arns)} # Signers!Range(cli.expected)
    BY <1>1, <2>1, WrongKeys, Zenon
  <2> QED
    BY <1>1, <2>2, Zenon DEF Signers!RightKeysStart
<1> QED
  BY <1>5, <1>6, <1>7, <1>8, <1>9 DEF SignersInv

LEMMA ExpectedSafe ==
  ASSUME Signers!Assumption, SignersInv, Signers!check_expected
  PROVE  SignersInv'
<1>1. /\ at = "expected" /\ UNCHANGED <<cli, arns, keys, digest, sigs, kms, steady, requests>>
      /\ at' = IF Signers!Matches THEN "ready" ELSE "refused"
  BY DEF Signers!check_expected, Signers!Kms
<1>2. at' \in {"ready", "refused"} /\ (at' = "ready" <=> Signers!Matches)
  BY <1>1
<1>3. Signers!Matches => Signers!Matches'
  BY <1>1, Zenon DEF Signers!Matches, Signers!Range
<1>4. Signers!TypeOK' /\ cli' \in SignerSettings /\ digest' \in Digests
  BY <1>1, <1>2 DEF SignersInv, Signers!TypeOK
<1>5. PairOK'
  BY <1>1, <1>2, <1>3 DEF SignersInv, PairOK, Signers!from_cli, Signers!Swapped
<1>6. Pinned' /\ SigsOK'
  BY <1>1, <1>2 DEF SignersInv, Pinned, SigsOK
<1>7. Signers!RightKeysStart'
  <2>1. at' = "refused" /\ steady =>
          \/ cli.expected[1] = cli.expected[2]
          \/ {kms[a].key : a \in Signers!Range(cli.arns)} # Signers!Range(cli.expected)
    BY <1>1, <1>2, WrongKeys, Zenon
  <2> QED
    BY <1>1, <2>1, Zenon DEF Signers!RightKeysStart
<1> QED
  BY <1>4, <1>5, <1>6, <1>7 DEF SignersInv

LEMMA BeginSafe ==
  ASSUME Signers!Assumption, SignersInv, NEW d \in Digests, Signers!Begin(d)
  PROVE  SignersInv'
<1>1. /\ at = "ready" /\ at' = "sign" /\ digest' = d /\ sigs' = <<>>
      /\ UNCHANGED <<cli, arns, keys, kms, steady, requests>>
  BY DEF Signers!Begin, Signers!Kms
<1>2. Signers!Matches => Signers!Matches'
  BY <1>1, Zenon DEF Signers!Matches, Signers!Range
<1>3. Signers!TypeOK' /\ cli' \in SignerSettings /\ digest' \in Digests
  BY <1>1 DEF SignersInv, Signers!TypeOK
<1>4. PairOK'
  BY <1>1, <1>2 DEF SignersInv, PairOK, Signers!from_cli, Signers!Swapped
<1>5. Pinned' /\ Signers!RightKeysStart'
  BY <1>1 DEF SignersInv, Pinned, Signers!RightKeysStart
<1>6. SigsOK'
  BY <1>1 DEF SignersInv, SigsOK, SignedBy, Signers!Recovers
<1> QED
  BY <1>3, <1>4, <1>5, <1>6 DEF SignersInv

\* Signing moves only the signatures: pair and settings stay.
LEMMA SigningKeepsPair ==
  ASSUME SignersInv, at = "sign", at' \in {"ready", "sign"},
         UNCHANGED <<cli, arns, keys, digest, kms, steady>>
  PROVE  /\ PairOK' /\ Pinned' /\ Signers!RightKeysStart'
         /\ cli' \in SignerSettings /\ digest' \in Digests /\ keys' = keys
<1>1. Signers!Matches => Signers!Matches'
  BY Zenon DEF Signers!Matches, Signers!Range
<1>2. PairOK'
  BY <1>1 DEF SignersInv, PairOK, Signers!from_cli, Signers!Swapped
<1>3. Pinned' /\ Signers!RightKeysStart'
  BY DEF SignersInv, Pinned, Signers!RightKeysStart
<1> QED
  BY <1>2, <1>3 DEF SignersInv

LEMMA SignSafe ==
  ASSUME Signers!Assumption, SignersInv, Signers!sign_digest
  PROVE  SignersInv'
<1> DEFINE n == Len(sigs) + 1
<1>1. at = "sign" /\ UNCHANGED <<cli, arns, keys, digest, kms, steady>>
  BY DEF Signers!sign_digest, Signers!Kms
<1>2. sigs \in Seq(Signers!Signatures) /\ Len(sigs) \in {0, 1} /\ n \in 1 .. 2
  <2>1. sigs \in Seq(Signers!Signatures) /\ Len(sigs) <= 1
    BY DEF SignersInv, Signers!TypeOK
  <2>2. Len(sigs) \in Nat
    BY <2>1
  <2>3. \A k \in Nat : k <= 1 => k \in {0, 1} /\ k + 1 \in 1 .. 2
    OBVIOUS
  <2> QED
    BY <2>1, <2>2, <2>3, Zenon
<1>3. ASSUME NEW answer \in Signers!Answers(arns[n], Signers!sign_request(digest)),
             Signers!accepts(answer, n),
             sigs' = IF n = 2 THEN <<>> ELSE Append(sigs, Signers!recoverable(answer.sig)),
             requests' = IF n = 2 THEN Append(sigs, Signers!recoverable(answer.sig)) ELSE requests,
             at' = IF n = 2 THEN "ready" ELSE "sign"
      PROVE  SignersInv'
  <2> DEFINE sig == Signers!recoverable(answer.sig)
  <2>1. sig \in Signers!Signatures /\ SignedBy(sig, n, digest)
    BY <1>2, <1>3, AcceptedSigns DEF SignersInv
  <2> HIDE DEF sig
  <2>2. at' \in {"ready", "sign"}
    BY <1>3
  <2>3. PairOK' /\ Pinned' /\ Signers!RightKeysStart' /\ cli' \in SignerSettings /\ digest' \in Digests
    BY <1>1, <2>2, SigningKeepsPair, Zenon
  <2>4. CASE Len(sigs) = 0
    <3>1. /\ sigs' \in Seq(Signers!Signatures) /\ Len(sigs') = 1 /\ sigs'[1] = sig
          /\ UNCHANGED requests /\ at' = "sign"
      BY <1>2, <1>3, <2>1, <2>4 DEF sig
    <3>2. Signers!TypeOK'
      BY <1>1, <3>1 DEF SignersInv, Signers!TypeOK
    <3>3. SignedBy(sig, 1, digest)
      BY <2>1, <2>4
    <3>4. SigsOK'
      BY <1>1, <3>1, <3>3 DEF SignersInv, SigsOK, SignedBy, Signers!Recovers
    <3> QED
      BY <2>3, <3>2, <3>4 DEF SignersInv
  <2>5. CASE Len(sigs) = 1
    <3>1. /\ requests' \in Seq(Signers!Signatures) /\ Len(requests') = 2 /\ requests'[1] = sigs[1]
          /\ requests'[2] = sig /\ sigs' = <<>> /\ at' = "ready"
      <4>1. requests' = Append(sigs, sig) /\ sigs' = <<>> /\ at' = "ready"
        BY <1>3, <2>5 DEF sig
      <4> QED
        <5>1. /\ Append(sigs, sig) \in Seq(Signers!Signatures) /\ Len(Append(sigs, sig)) = 2
              /\ Append(sigs, sig)[1] = sigs[1] /\ Append(sigs, sig)[2] = sig
          BY <1>2, <2>1, <2>5, SecondOfTwo, ZenonT(30)
        <5> QED
          BY <4>1, <5>1, Zenon
    <3>2. Signers!TypeOK'
      BY <1>1, <3>1 DEF SignersInv, Signers!TypeOK
    <3>3. SignedBy(sig, 2, digest) /\ SignedBy(sigs[1], 1, digest)
      BY <1>2, <2>1, <2>5 DEF SignersInv, SigsOK
    <3>4. SignedBy(requests[1], 1, digest)' /\ SignedBy(requests[2], 2, digest)'
      BY <1>1, <3>1, <3>3 DEF SignedBy, Signers!Recovers
    <3>5. SigsOK'
      BY <2>3, <3>1, <3>4 DEF SigsOK
    <3> QED
      BY <2>3, <3>2, <3>5 DEF SignersInv
  <2> QED
    BY <1>2, <2>4, <2>5
<1>4. ASSUME at' = "ready", sigs' = <<>>, UNCHANGED requests
      PROVE  SignersInv'
  <2>1. PairOK' /\ Pinned' /\ Signers!RightKeysStart' /\ cli' \in SignerSettings /\ digest' \in Digests
    BY <1>1, <1>4, SigningKeepsPair
  <2>2. Signers!TypeOK'
    BY <1>1, <1>4 DEF SignersInv, Signers!TypeOK
  <2>3. SigsOK'
    BY <1>1, <1>4 DEF SignersInv, SigsOK, SignedBy, Signers!Recovers
  <2> QED
    BY <2>1, <2>2, <2>3 DEF SignersInv
<1> QED
  BY <1>3, <1>4, Zenon DEF Signers!sign_digest

LEMMA StopSafe ==
  ASSUME Signers!Assumption, SignersInv, Signers!Stop
  PROVE  SignersInv'
<1>1. /\ at' = "down" /\ sigs' = <<>> /\ keys' = <<>> /\ arns' = <<>> /\ requests' = <<>>
      /\ UNCHANGED <<cli, digest, kms, steady>>
  BY DEF Signers!Stop, Signers!Kms
<1>2. Signers!TypeOK' /\ cli' \in SignerSettings /\ digest' \in Digests
  BY <1>1 DEF SignersInv, Signers!TypeOK
<1> QED
  BY <1>1, <1>2 DEF SignersInv, PairOK, Pinned, SigsOK, Signers!RightKeysStart

LEMMA KmsSafe ==
  ASSUME Signers!Assumption, SignersInv, Signers!KmsChanges
  PROVE  SignersInv'
<1>1. ~ steady' /\ steady' \in BOOLEAN /\ UNCHANGED <<at, cli, arns, keys, digest, sigs, requests>>
  BY Zenon DEF Signers!KmsChanges
<1>2. kms' \in [Arns -> [key : Keys, fit : BOOLEAN]]
  <2>1. PICK a \in Arns, k \in Keys, fit \in BOOLEAN : kms' = [kms EXCEPT ![a] = [key |-> k, fit |-> fit]]
    BY Zenon DEF Signers!KmsChanges
  <2>2. [key |-> k, fit |-> fit] \in [key : Keys, fit : BOOLEAN]
    BY Zenon
  <2>3. kms \in [Arns -> [key : Keys, fit : BOOLEAN]]
    BY Zenon DEF SignersInv, Signers!TypeOK
  <2> QED
    BY <2>1, <2>2, <2>3, Zenon
<1>3. Signers!TypeOK' /\ cli' \in SignerSettings /\ digest' \in Digests
  BY <1>1, <1>2 DEF SignersInv, Signers!TypeOK
<1>4. Signers!Matches => Signers!Matches'
  BY <1>1, Zenon DEF Signers!Matches, Signers!Range
<1>5. PairOK'
  BY <1>1, <1>4 DEF SignersInv, PairOK, Signers!from_cli, Signers!Swapped
<1>6. Pinned' /\ Signers!RightKeysStart'
  BY <1>1 DEF Pinned, Signers!RightKeysStart
<1>7. SigsOK'
  BY <1>1 DEF SignersInv, SigsOK, SignedBy, Signers!Recovers
<1> QED
  BY <1>3, <1>5, <1>6, <1>7 DEF SignersInv

LEMMA SignersStep ==
  ASSUME Signers!Assumption, SignersInv, [Signers!Next]_Signers!vars
  PROVE  SignersInv'
<1>1. CASE UNCHANGED Signers!vars
  <2>1. UNCHANGED <<at, cli, arns, keys, digest, sigs, kms, steady, requests>>
    BY <1>1, Zenon DEF Signers!vars, Signers!Kms
  <2>2. Signers!TypeOK' /\ cli' \in SignerSettings /\ digest' \in Digests
    BY <2>1 DEF SignersInv, Signers!TypeOK, Signers!Signatures
  <2>3. PairOK'
    BY <2>1 DEF SignersInv, PairOK, Signers!from_cli, Signers!Swapped, Signers!Matches, Signers!Range
  <2>4. Pinned' /\ SigsOK'
    BY <2>1 DEF SignersInv, Pinned, SigsOK, SignedBy, Signers!Recovers
  <2>5. Signers!RightKeysStart'
    BY <2>1, Zenon DEF SignersInv, Signers!RightKeysStart
  <2> QED
    BY <2>2, <2>3, <2>4, <2>5 DEF SignersInv
<1> QED
  BY <1>1, LaunchSafe, MetadataSafe, PublicKeySafe, PairSafe, ExpectedSafe, BeginSafe, SignSafe,
     StopSafe, KmsSafe, Zenon DEF Signers!Next

LEMMA SignersAlways == ASSUME Signers!Assumption PROVE Signers!Spec => []SignersInv
<1>1. Signers!Init => SignersInv
  BY SignersStart
<1>2. SignersInv /\ [Signers!Next]_Signers!vars => SignersInv'
  BY SignersStep
<1> QED
  BY <1>1, <1>2, PTL DEF Signers!Spec

\* The invariant says what a request carries: both signatures, by the expected keys, in order.
LEMMA InvAccepts ==
  ASSUME Signers!Assumption, SignersInv
  PROVE  Signers!RequestsAreAccepted
<1> SUFFICES ASSUME requests # <<>>
             PROVE  /\ Len(requests) = 2 /\ requests[1].key < requests[2].key
                    /\ {requests[1].key, requests[2].key} = Signers!Range(cli.expected)
                    /\ requests[1].digest = requests[2].digest /\ requests[1].digest[2] = "digest"
                    /\ \A i \in 1 .. 2 : Signers!Recovers(requests[i])
  BY Zenon DEF Signers!RequestsAreAccepted
<1>1. at \in {"ready", "sign"} /\ Len(requests) = 2
  BY DEF SignersInv, SigsOK, Signers!TypeOK
<1>2. PICK d \in Digests : SignedBy(requests[1], 1, d) /\ SignedBy(requests[2], 2, d)
  BY DEF SignersInv, SigsOK
<1>3. requests[1].key = keys[1] /\ requests[2].key = keys[2]
  BY <1>2 DEF SignedBy
<1>4. keys[1] < keys[2] /\ Signers!Matches /\ Signers!from_cli(cli)
  BY <1>1 DEF SignersInv, PairOK
<1>5. keys[1] # keys[2]
  <2>1. keys[1] \in Nat /\ keys[2] \in Nat
    <3>1. keys \in Seq(Keys) /\ Len(keys) = 2
      BY <1>1 DEF SignersInv, PairOK, Signers!TypeOK
    <3>2. keys[1] \in Keys /\ keys[2] \in Keys
      BY <3>1
    <3> QED
      BY <3>2, Zenon DEF Signers!Assumption
  <2> QED
    BY <1>4, <2>1
<1>6. Signers!Range(cli.expected) = {cli.expected[1], cli.expected[2]}
  BY <1>4, TwoPairs, PairRange DEF SignersInv
<1>7. {keys[1], keys[2]} = Signers!Range(cli.expected)
  BY <1>4, <1>5, <1>6 DEF Signers!Matches
<1>8. /\ requests[1].digest = <<d, "digest">> /\ requests[2].digest = <<d, "digest">>
      /\ Signers!Recovers(requests[1]) /\ Signers!Recovers(requests[2])
  BY <1>2, Zenon DEF SignedBy
<1>9. \A i \in 1 .. 2 : Signers!Recovers(requests[i])
  BY <1>8
<1>10. requests[1].digest[2] = "digest"
  BY <1>8
<1> QED
  BY <1>1, <1>3, <1>4, <1>7, <1>8, <1>9, <1>10

\* A request of the attester has both signatures or is not made; they are by the expected keys,
\* in ascending order, on one digest, in the form the contract recovers, whatever KMS answers
\* after a key was pinned (SignerPair::new, signature_from_der, sign).
THEOREM BothKeysSign == ASSUME Signers!Assumption PROVE Signers!Spec => []Signers!RequestsAreAccepted
<1>1. SignersInv => Signers!RequestsAreAccepted
  BY InvAccepts
<1> QED
  BY <1>1, SignersAlways, PTL

\* A start is refused only for a reason: settings that name one key twice, keys that are not the
\* expected ones, or a key that is not fit, as long as KMS stays as it is (connect, check_expected).
THEOREM RightKeysAreTaken == ASSUME Signers!Assumption PROVE Signers!Spec => []Signers!RightKeysStart
<1>1. SignersInv => Signers!RightKeysStart
  BY DEF SignersInv
<1> QED
  BY <1>1, SignersAlways, PTL

\* An attester that started can sign: while KMS stays as it is, some answer of KMS to the call of
\* the next signer is accepted, as each pinned key stays beside the ARN it came from.
THEOREM StartedCanSign == ASSUME Signers!Assumption PROVE Signers!Spec => []Signers!ReadyCanSign
<1>1. ASSUME SignersInv, at = "sign", steady
      PROVE  LET n == Len(sigs) + 1
             IN  \E answer \in Signers!Answers(arns[n], Signers!sign_request(digest)) :
                   Signers!accepts(answer, n)
  <2> DEFINE n == Len(sigs) + 1
             answer == Signers!Answer(arns[n], Signers!sign_request(digest), "low", FALSE, FALSE)
  <2>1. n \in 1 .. 2
    <3>1. Len(sigs) \in Nat /\ Len(sigs) <= 1
      BY <1>1 DEF SignersInv, Signers!TypeOK
    <3> QED
      BY <3>1
  <2>2. Len(keys) = 2 /\ Len(arns) = 2 /\ arns \in Seq(Arns)
    BY <1>1 DEF SignersInv, PairOK, Signers!TypeOK
  <2>3. keys[n] = kms[arns[n]].key /\ kms[arns[n]].fit
    BY <1>1, <2>1, <2>2 DEF SignersInv, Pinned
  <2>4. arns[n] \in Arns
    <3> HIDE DEF n
    <3>1. n \in 1 .. Len(arns)
      BY <2>1, <2>2
    <3> QED
      BY <2>2, <3>1
  <2> HIDE DEF n
  <2>5. answer \in Signers!Answers(arns[n], Signers!sign_request(digest))
    <3>1. arns[n] \in {c \in Arns : kms[c].fit /\ kms[arns[n]].fit}
      BY <2>3, <2>4, Zenon
    <3>2. "low" \in {"low", "high"} /\ FALSE \in BOOLEAN
      OBVIOUS
    <3>3. \E b \in {c \in Arns : kms[c].fit /\ kms[arns[n]].fit}, s \in {"low", "high"},
             odd \in BOOLEAN, reduced \in BOOLEAN :
            answer = Signers!Answer(b, Signers!sign_request(digest), s, odd, reduced)
      BY <3>1, <3>2, Zenon
    <3> HIDE DEF answer
    <3> QED
      BY <3>3 DEF Signers!Answers
  <2>6. Signers!accepts(answer, n)
    BY <2>3 DEF Signers!accepts, Signers!Answer, Signers!sign_request
  <2> HIDE DEF answer
  <2> QED
    BY <2>5, <2>6, Zenon DEF n
<1>2. SignersInv => Signers!ReadyCanSign
  BY <1>1, Zenon DEF Signers!ReadyCanSign
<1> QED
  BY <1>2, SignersAlways, PTL

\* The signers are right in all three ways, whatever the settings, the keys and KMS.
THEOREM SignersHold == ASSUME Signers!Assumption PROVE Signers!Spec => []Signers!SignersAreRight
<1>1. SignersInv => Signers!TypeOK
  BY DEF SignersInv
<1> QED
  BY <1>1, SignersAlways, BothKeysSign, RightKeysAreTaken, StartedCanSign, PTL
     DEF Signers!SignersAreRight

-----------------------------------------------------------------------------
(* The gates of the earlier attester.  Nothing Circle or the signer returns is believed: *)
(* the invariant says at which stage which check has passed, for the very answer and the *)
(* very signatures the later stages use.                                                 *)

CONSTANTS Found, Listened, Responses, Signing, Claims, Faucet, MaxU64, MaxU128
VARIABLES note, listener, stageAt, response, claims, batches, refusal

Gate == INSTANCE ListenerGate WITH Notes <- Found, Configs <- Listened, Keys <- Signing,
  cfg <- listener, pc <- stageAt, signed <- batches

\* One batch of one intent, which was compared with the note.
Checked ==
  /\ Len(response) = 1 /\ Len(response[1].intents) = 1
  /\ Gate!check_intent(response[1].intents[1], note, listener)

\* Why the run was refused.
Reason ==
  stageAt = "refused" =>
    \/ refusal \in {"circle", "sign", "signer_cardinality", "evidence"}
    \/ refusal = "discovery" /\ ~ Gate!validate_discovery(note, listener)
    \/ refusal = "schema" /\ ~ Gate!build_prepare_request(note, listener)
    \/ refusal = "validation" /\ ~ Gate!validate_returned(response, note, listener)
    \/ refusal = "batch_cardinality" /\ Len(response) # 1
    \/ refusal = "intent_cardinality" /\ Len(response[1].intents) # 1
    \/ refusal = "quorum" /\ ~ Gate!assemble_quorum(response[1].hash, claims)
    \/ /\ refusal = "submit_gate" /\ Gate!assemble_quorum(response[1].hash, claims)
       /\ ~ Gate!authorize_submission(response[1].hash, claims, listener)

Stages == {"discover", "prepare", "validate", "sign", "quorum", "evidence", "authorize", "submit",
           "refused"}

GateInv ==
  /\ note \in Found /\ listener \in Listened /\ stageAt \in Stages
  /\ DOMAIN claims = 1 .. Len(claims) /\ Len(claims) \in Nat
  /\ response \in Responses \cup {<<>>} /\ (response = <<>> => batches = {})
  /\ stageAt = "refused" <=> refusal # "none"
  /\ stageAt \in {"sign", "quorum", "evidence", "authorize", "submit"} => Checked
  /\ stageAt \in {"discover", "prepare", "validate", "sign"} => batches = {}
  /\ batches # {} => batches = {response[1]} /\ Checked
  /\ stageAt \in {"evidence", "authorize", "submit"} => Gate!assemble_quorum(response[1].hash, claims)
  /\ stageAt = "submit" => Gate!authorize_submission(response[1].hash, claims, listener)
  /\ Reason

\* The one member of a sequence of one.
LEMMA OnlyOne == ASSUME NEW S, NEW s \in Seq(S), Len(s) = 1 PROVE Gate!Range(s) = {s[1]}
  BY DEF Gate!Range

\* The signer's own list and any other one are lists.
LEMMA ClaimsAreLists ==
  ASSUME Gate!Assumption, NEW list,
         (\E d : list = Gate!sign_batches(Signing, d)) \/ list \in Claims
  PROVE  DOMAIN list = 1 .. Len(list) /\ Len(list) \in Nat
<1>1. Signing \in Seq(Nat \ {0}) /\ Claims \subseteq Seq(Gate!Signature65)
  BY Zenon DEF Gate!Assumption
<1>2. ASSUME NEW d, list = Gate!sign_batches(Signing, d)
      PROVE  DOMAIN list = 1 .. Len(list) /\ Len(list) \in Nat
  <2>1. DOMAIN list = DOMAIN Signing
    BY <1>2, Zenon DEF Gate!sign_batches
  <2>2. DOMAIN Signing = 1 .. Len(Signing) /\ Len(Signing) \in Nat
    BY <1>1
  <2>3. DOMAIN list = 1 .. Len(Signing)
    BY <2>1, <2>2, Zenon
  <2> QED
    BY <2>2, <2>3
<1>3. ASSUME list \in Claims
      PROVE  DOMAIN list = 1 .. Len(list) /\ Len(list) \in Nat
  BY <1>1, <1>3
<1> QED
  BY <1>2, <1>3, Zenon

\* What was refused or let through.
LEMMA Refused == ASSUME NEW reason, Gate!Refuse(reason) PROVE stageAt' = "refused" /\ refusal' = reason
  BY DEF Gate!Refuse

LEMMA Passed == ASSUME NEW stage, Gate!Proceed(stage) PROVE stageAt' = stage /\ refusal' = refusal
  BY DEF Gate!Proceed

\* An answer that passes has the one intent compared with the note.
LEMMA ReturnedIsChecked ==
  ASSUME Gate!Assumption, response \in Responses \cup {<<>>}, Len(response) = 1,
         Len(response[1].intents) = 1, Gate!validate_returned(response, note, listener)
  PROVE  Checked
<1>1. response \in Seq(Gate!PreparedBatch)
  <2>1. Responses \subseteq Seq(Gate!PreparedBatch)
    BY Zenon DEF Gate!Assumption
  <2> QED
    BY <2>1
<1>2. response[1] \in Gate!PreparedBatch
  BY <1>1
<1>3. response[1].intents \in Seq(Gate!BurnIntent)
  BY <1>2 DEF Gate!PreparedBatch
<1>4. response[1] \in Gate!Range(response)
  BY <1>1, OnlyOne
<1>5. response[1].intents[1] \in Gate!Range(response[1].intents)
  BY <1>3, OnlyOne
<1> QED
  BY <1>4, <1>5, Zenon DEF Checked, Gate!validate_returned

LEMMA GateStep ==
  ASSUME Gate!Assumption, GateInv, [Gate!Next]_Gate!vars
  PROVE  GateInv'
<1>1. CASE Gate!Discover
  <2>1. stageAt = "discover" /\ UNCHANGED <<note, listener, response, claims, batches>>
    BY <1>1 DEF Gate!Discover
  <2>2. \/ ~ Gate!validate_discovery(note, listener) /\ stageAt' = "refused" /\ refusal' = "discovery"
        \/ stageAt' = "prepare" /\ refusal' = refusal
    BY <1>1, Refused, Passed, ZenonT(30) DEF Gate!Discover
  <2> QED
    BY <2>1, <2>2 DEF GateInv, Reason, Checked, Stages
<1>2. CASE Gate!Prepare
  <2>1. stageAt = "prepare" /\ UNCHANGED <<note, listener, claims, batches>>
    BY <1>2 DEF Gate!Prepare
  <2>2. \/ /\ ~ Gate!build_prepare_request(note, listener) /\ stageAt' = "refused"
           /\ refusal' = "schema" /\ UNCHANGED response
        \/ stageAt' = "refused" /\ refusal' = "circle" /\ UNCHANGED response
        \/ stageAt' = "validate" /\ refusal' = refusal /\ response' \in Responses
    BY <1>2, Refused, Passed, ZenonT(30) DEF Gate!Prepare
  <2> QED
    BY <2>1, <2>2 DEF GateInv, Reason, Checked, Stages
<1>3. CASE Gate!Validate
  <2>1. stageAt = "validate" /\ UNCHANGED <<note, listener, response, claims, batches>>
    BY <1>3 DEF Gate!Validate
  <2>2. \/ /\ stageAt' = "refused" /\ refusal' = "validation"
           /\ ~ Gate!validate_returned(response, note, listener)
        \/ stageAt' = "refused" /\ refusal' = "batch_cardinality" /\ Len(response) # 1
        \/ stageAt' = "refused" /\ refusal' = "intent_cardinality" /\ Len(response[1].intents) # 1
        \/ /\ stageAt' = "sign" /\ refusal' = refusal /\ Len(response) = 1
           /\ Len(response[1].intents) = 1 /\ Gate!validate_returned(response, note, listener)
    BY <1>3, Refused, Passed, Zenon DEF Gate!Validate
  <2>3. stageAt' = "sign" => Checked
    BY <2>2, ReturnedIsChecked DEF GateInv
  <2> QED
    BY <2>1, <2>2, <2>3, ZenonT(30) DEF GateInv, Reason, Checked, Stages
<1>4. CASE Gate!Sign
  <2>1. /\ stageAt = "sign" /\ UNCHANGED <<note, listener, response>>
        /\ batches' = batches \cup {response[1]}
    BY <1>4 DEF Gate!Sign
  <2>2. \/ stageAt' = "quorum" /\ refusal' = refusal
        \/ stageAt' = "refused" /\ refusal' \in {"sign", "signer_cardinality"}
    BY <1>4, Refused, Passed, Zenon DEF Gate!Sign
  <2>3. batches' = {response[1]} /\ Checked /\ response # <<>>
    BY <2>1 DEF GateInv, Checked
  <2>4. DOMAIN claims' = 1 .. Len(claims') /\ Len(claims') \in Nat
    <3>1. CASE UNCHANGED claims
      BY <3>1 DEF GateInv
    <3>2. CASE (\E d : claims' = Gate!sign_batches(Signing, d)) \/ claims' \in Claims
      BY <3>2, ClaimsAreLists, ZenonT(30)
    <3> QED
      BY <1>4, <3>1, <3>2, Zenon DEF Gate!Sign
  <2> QED
    BY <2>1, <2>2, <2>3, <2>4, ZenonT(30) DEF GateInv, Reason, Checked, Stages
<1>5. CASE Gate!Quorum
  <2>1. stageAt = "quorum" /\ UNCHANGED <<note, listener, response, claims, batches>>
    BY <1>5 DEF Gate!Quorum
  <2>2. \/ /\ stageAt' = "refused" /\ refusal' = "quorum"
           /\ ~ Gate!assemble_quorum(response[1].hash, claims)
        \/ /\ stageAt' = "evidence" /\ refusal' = refusal
           /\ Gate!assemble_quorum(response[1].hash, claims)
    BY <1>5, Refused, Passed, ZenonT(30) DEF Gate!Quorum
  <2> QED
    BY <2>1, <2>2, ZenonT(30) DEF GateInv, Reason, Checked, Stages
<1>6. CASE Gate!Evidence
  <2>1. stageAt = "evidence" /\ UNCHANGED <<note, listener, response, claims, batches>>
    BY <1>6 DEF Gate!Evidence
  <2>2. \/ stageAt' = "refused" /\ refusal' = "evidence"
        \/ stageAt' = "authorize" /\ refusal' = refusal
    BY <1>6, Refused, Passed, ZenonT(30) DEF Gate!Evidence
  <2> QED
    BY <2>1, <2>2 DEF GateInv, Reason, Checked, Stages
<1>7. CASE Gate!Authorize
  <2>1. stageAt = "authorize" /\ UNCHANGED <<note, listener, response, claims, batches>>
    BY <1>7 DEF Gate!Authorize
  <2>2. \/ /\ stageAt' = "refused" /\ refusal' = "submit_gate"
           /\ ~ Gate!authorize_submission(response[1].hash, claims, listener)
        \/ /\ stageAt' = "submit" /\ refusal' = refusal
           /\ Gate!authorize_submission(response[1].hash, claims, listener)
    BY <1>7, Refused, Passed, ZenonT(30) DEF Gate!Authorize
  <2> QED
    BY <2>1, <2>2 DEF GateInv, Reason, Checked, Stages
<1>8. CASE UNCHANGED Gate!vars
  BY <1>8, ZenonT(30) DEF Gate!vars, GateInv, Reason, Checked, Stages
<1> QED
  BY <1>1, <1>2, <1>3, <1>4, <1>5, <1>6, <1>7, <1>8, ZenonT(30) DEF Gate!Next

LEMMA GateAlways == ASSUME Gate!Assumption PROVE Gate!Spec => []GateInv
<1>1. Gate!Init => GateInv
  BY DEF Gate!Init, GateInv, Reason, Checked, Stages
<1>2. GateInv /\ [Gate!Next]_Gate!vars => GateInv'
  BY GateStep
<1> QED
  BY <1>1, <1>2, PTL DEF Gate!Spec

\* What was compared with the note pays it.
LEMMA CheckedPays ==
  ASSUME Gate!Assumption, GateInv, Checked
  PROVE  Gate!Pays(response[1].intents[1])
<1> DEFINE intent == response[1].intents[1]
<1>1. response \in Seq(Gate!PreparedBatch) /\ Len(response) = 1
  BY DEF GateInv, Gate!Assumption, Checked
<1>2. response[1] \in Gate!PreparedBatch
  BY <1>1
<1>3. response[1].intents \in Seq(Gate!BurnIntent) /\ Len(response[1].intents) = 1
  BY <1>2 DEF Gate!PreparedBatch, Checked
<1>4. intent \in Gate!BurnIntent
  BY <1>3
<1>5. note.amount \in Nat /\ listener.max_withdrawal_fee \in Nat
  BY DEF GateInv, Gate!Assumption, Gate!DiscoveryRecord, Gate!ListenerConfig
<1>6. Gate!check_intent(intent, note, listener)
  BY DEF Checked
<1> HIDE DEF intent
<1>7. intent.max_fee \in Nat
  BY <1>4 DEF Gate!BurnIntent
<1>8. intent.max_fee <= listener.max_withdrawal_fee
  BY <1>5, <1>6, <1>7 DEF Gate!check_intent, Gate!check_max_fee, Gate!Least
<1>9. Gate!check_spec(intent, note, listener)
  BY <1>6, Zenon DEF Gate!check_intent
<1> QED
  BY <1>8, <1>9, Zenon DEF Gate!Pays, Gate!check_spec, Gate!amount_matches, Gate!check_hook_data, intent

\* What passed both gates is what the verifier of the source chain asks for.
LEMMA AuthorizedVerifies ==
  ASSUME GateInv, Gate!assemble_quorum(response[1].hash, claims),
         Gate!authorize_submission(response[1].hash, claims, listener)
  PROVE  Gate!VerifiesOnChain(claims, response[1].hash)
<1> DEFINE hash == response[1].hash
<1>1. Len(claims) = 2 /\ 1 \in DOMAIN claims /\ 2 \in DOMAIN claims
  BY DEF GateInv, Gate!assemble_quorum
<1>2. ASSUME NEW n \in DOMAIN claims
      PROVE  /\ claims[n].signer = claims[n].claimed /\ claims[n].digest = hash
             /\ claims[n].signer \in listener.allowlist
  <2>1. /\ Gate!recover_address(hash, claims[n]) = claims[n].claimed
        /\ Gate!recover_address(hash, claims[n]) # Gate!NoSigner
        /\ Gate!recover_address(hash, claims[n]) \in listener.allowlist
    BY <1>2, Zenon DEF Gate!assemble_quorum, Gate!authorize_submission
  <2> QED
    BY <2>1, Zenon DEF Gate!recover_address
<1>3. claims[1].claimed < claims[2].claimed
  <2>1. 2 > 1 => claims[2 - 1].claimed < claims[2].claimed
    BY <1>1, Zenon DEF Gate!assemble_quorum
  <2> QED
    BY <2>1
<1>4. claims[1].signer < claims[2].signer
  BY <1>1, <1>2, <1>3, Zenon
<1>5. \A n \in 1 .. 2 : claims[n].signer \in listener.allowlist /\ claims[n].digest = hash
  <2>1. 1 .. 2 = {1, 2}
    OBVIOUS
  <2> QED
    BY <1>1, <1>2, <2>1, Zenon
<1> QED
  BY <1>1, <1>4, <1>5, Zenon DEF Gate!VerifiesOnChain

\* What the verifier takes, signed with the claimed keys, passes both gates.
LEMMA VerifiedPasses ==
  ASSUME Gate!Assumption, GateInv, Gate!VerifiesOnChain(claims, response[1].hash),
         \A n \in DOMAIN claims : claims[n].claimed = claims[n].signer /\ claims[n].v = "evm"
  PROVE  /\ Gate!assemble_quorum(response[1].hash, claims)
         /\ Gate!authorize_submission(response[1].hash, claims, listener)
<1> DEFINE hash == response[1].hash
<1>1. Len(claims) = 2 /\ DOMAIN claims = {1, 2}
  <2>1. Len(claims) = 2
    BY Zenon DEF Gate!VerifiesOnChain
  <2> QED
    BY <2>1 DEF GateInv
<1>2. /\ claims[1].signer \in listener.allowlist /\ claims[1].digest = hash
      /\ claims[2].signer \in listener.allowlist /\ claims[2].digest = hash
      /\ claims[1].signer < claims[2].signer
  <2>1. 1 \in 1 .. 2 /\ 2 \in 1 .. 2
    OBVIOUS
  <2> QED
    BY <2>1, Zenon DEF Gate!VerifiesOnChain
<1>3. listener.allowlist \subseteq Nat \ {0}
  BY DEF GateInv, Gate!Assumption, Gate!ListenerConfig
<1>4. ASSUME NEW n \in {1, 2}
      PROVE  /\ Gate!recover_address(hash, claims[n]) = claims[n].claimed
             /\ Gate!recover_address(hash, claims[n]) = claims[n].signer
             /\ claims[n].signer \in listener.allowlist /\ claims[n].signer \in Nat \ {0}
  <2>1. claims[n].claimed = claims[n].signer /\ claims[n].v = "evm"
    BY <1>1, <1>4, Zenon
  <2>2. claims[n].signer \in listener.allowlist /\ claims[n].digest = hash
    BY <1>2, <1>4
  <2>3. claims[n].signer \in Nat \ {0}
    BY <1>3, <2>2
  <2> QED
    BY <2>1, <2>2, <2>3, Zenon DEF Gate!recover_address
<1>5. claims[1].claimed < claims[2].claimed /\ claims[1].claimed # claims[2].claimed
  <2>1. /\ claims[1].claimed = claims[1].signer /\ claims[1].signer \in Nat
        /\ claims[2].claimed = claims[2].signer /\ claims[2].signer \in Nat
    BY <1>1, <1>4
  <2> QED
    BY <1>2, <2>1
<1>6. Gate!assemble_quorum(hash, claims)
  <2>1. \A n \in DOMAIN claims : Gate!recover_address(hash, claims[n]) = claims[n].claimed
    BY <1>1, <1>4, Zenon
  <2>2. \A n, k \in DOMAIN claims : n # k => claims[n].claimed # claims[k].claimed
    BY <1>1, <1>5
  <2>3. \A n \in DOMAIN claims : n > 1 => claims[n - 1].claimed < claims[n].claimed
    BY <1>1, <1>5
  <2> QED
    BY <1>1, <2>1, <2>2, <2>3, Zenon DEF Gate!assemble_quorum
<1>7. Gate!authorize_submission(hash, claims, listener)
  <2>1. listener.allowlist # {}
    BY <1>2
  <2>2. \A n \in DOMAIN claims : /\ Gate!recover_address(hash, claims[n]) # Gate!NoSigner
                                 /\ Gate!recover_address(hash, claims[n]) \in listener.allowlist
    BY <1>1, <1>4 DEF Gate!NoSigner
  <2> QED
    BY <2>1, <2>2, Zenon DEF Gate!authorize_submission
<1> QED
  BY <1>6, <1>7

\* A single intent that pays the note passes validate_returned.
LEMMA PayingPasses ==
  ASSUME Gate!Assumption, GateInv, Len(response) = 1, Len(response[1].intents) = 1,
         Gate!decode_digest(response[1].hash), Gate!Pays(response[1].intents[1]),
         response[1].intents[1].destination_caller = "zero",
         response[1].intents[1].remote_token = Faucet,
         response[1].intents[1].remote_domain = listener.miden_domain
  PROVE  Gate!validate_returned(response, note, listener)
<1> DEFINE intent == response[1].intents[1]
<1>1. response \in Seq(Gate!PreparedBatch) /\ response # <<>>
  BY DEF GateInv, Gate!Assumption
<1>2. response[1] \in Gate!PreparedBatch
  BY <1>1
<1>3. response[1].intents \in Seq(Gate!BurnIntent) /\ response[1].intents # <<>>
  BY <1>2 DEF Gate!PreparedBatch
<1>4. intent \in Gate!BurnIntent
  BY <1>3
<1>5. note.amount \in 0 .. MaxU64 /\ listener.max_withdrawal_fee \in Nat
  BY DEF GateInv, Gate!Assumption, Gate!DiscoveryRecord, Gate!ListenerConfig
<1>6. Gate!Range(response) = {response[1]} /\ Gate!Range(response[1].intents) = {intent}
  BY <1>1, <1>3, OnlyOne
<1> HIDE DEF intent
<1>7. intent.max_fee \in Nat /\ intent.value \in Nat
  BY <1>4 DEF Gate!BurnIntent
<1>8. Gate!Pays(intent)
  BY DEF intent
<1>9. MaxU64 \in Nat /\ MaxU128 \in Nat /\ MaxU64 < MaxU128
  BY Zenon DEF Gate!Assumption
<1>10. /\ intent.value > 0 /\ intent.value + intent.max_fee = note.amount
       /\ intent.max_fee <= listener.max_withdrawal_fee
  BY <1>8, Zenon DEF Gate!Pays
<1>11. Gate!check_max_fee(intent, note, listener)
  BY <1>5, <1>7, <1>9, <1>10 DEF Gate!check_max_fee, Gate!Least
<1>12. Gate!amount_matches(intent, note)
  BY <1>5, <1>7, <1>9, <1>10 DEF Gate!amount_matches
<1>13. /\ intent.destination_caller = "zero" /\ intent.remote_token = Faucet
       /\ intent.remote_domain = listener.miden_domain
  BY DEF intent
<1>14. Gate!check_intent(intent, note, listener)
  BY <1>8, <1>11, <1>12, <1>13, Zenon
     DEF Gate!check_intent, Gate!check_spec, Gate!check_hook_data, Gate!Pays
<1> QED
  BY <1>1, <1>3, <1>6, <1>14, Zenon DEF Gate!validate_returned

\* What a key has signed is one intent that pays the burn.
LEMMA InvReleasesOnce ==
  ASSUME Gate!Assumption, GateInv
  PROVE  Gate!SignedReleasesOnce
<1>1. ASSUME NEW b \in batches PROVE Len(b.intents) = 1 /\ Gate!Pays(b.intents[1])
  <2>1. b = response[1] /\ Checked
    BY <1>1 DEF GateInv
  <2>2. Gate!Pays(response[1].intents[1])
    BY <2>1, CheckedPays, Zenon
  <2> QED
    BY <2>1, <2>2, Zenon DEF Checked
<1> QED
  BY <1>1, Zenon DEF Gate!SignedReleasesOnce

\* A run that is refused for a reason of its own has a bad note, answer or signature.
LEMMA InvGoodRuns ==
  ASSUME Gate!Assumption, GateInv
  PROVE  Gate!GoodRunsPass
<1> DEFINE good(b) ==
             /\ Len(response) = 1 /\ Len(b.intents) = 1 /\ Gate!decode_digest(b.hash)
             /\ b.intents[1].destination_caller = "zero" /\ b.intents[1].remote_token = Faucet
             /\ b.intents[1].remote_domain = listener.miden_domain
             /\ Gate!Pays(b.intents[1])
           badly == \/ ~ Gate!VerifiesOnChain(claims, response[1].hash)
                    \/ \E n \in DOMAIN claims : claims[n].claimed # claims[n].signer \/ claims[n].v # "evm"
<1>1. ASSUME stageAt = "refused",
             refusal \notin {"circle", "sign", "signer_cardinality", "evidence"},
             Gate!validate_discovery(note, listener), Gate!build_prepare_request(note, listener),
             NEW b \in Gate!Range(response), good(b)
      PROVE  refusal \in {"quorum", "submit_gate"} /\ badly
  <2>1. response \in Seq(Gate!PreparedBatch)
    <3>1. Responses \subseteq Seq(Gate!PreparedBatch)
      BY Zenon DEF Gate!Assumption
    <3>2. response \in Responses \cup {<<>>}
      BY Zenon DEF GateInv
    <3>3. <<>> \in Seq(Gate!PreparedBatch)
      OBVIOUS
    <3> QED
      BY <3>1, <3>2, <3>3, Zenon
  <2>2. b = response[1]
    BY <1>1, <2>1, OnlyOne
  <2>3. Len(response) = 1 /\ Len(response[1].intents) = 1
    BY <1>1, <2>2, Zenon
  <2>4. Gate!validate_returned(response, note, listener)
    BY <1>1, <2>2, PayingPasses, ZenonT(30)
  <2>5. \/ refusal = "quorum" /\ ~ Gate!assemble_quorum(response[1].hash, claims)
        \/ refusal = "submit_gate" /\ ~ Gate!authorize_submission(response[1].hash, claims, listener)
    BY <1>1, <2>3, <2>4 DEF GateInv, Reason
  <2>6. badly
    BY <2>5, VerifiedPasses, Zenon
  <2> QED
    BY <2>5, <2>6
<1> HIDE DEF badly
<1> QED
  BY <1>1, ZenonT(30) DEF Gate!GoodRunsPass, badly

\* Whatever Circle and the signer return, the gates of run_once are exact: a key signs at most one
\* batch, of one intent that pays this burn (validate_returned); what goes to submit_withdraw is
\* what the verifier on the source chain accepts (assemble_quorum, authorize_submission); and a run
\* with a valid note, a paying answer and rightly named signatures is not refused by a check.
THEOREM GatesAreExact == ASSUME Gate!Assumption PROVE Gate!Spec => []Gate!GateIsExact
<1>1. ASSUME GateInv PROVE Gate!TypeOK
  <2>1. batches \subseteq UNION {Gate!Range(r) : r \in Responses}
    <3>1. ASSUME NEW b \in batches PROVE b \in UNION {Gate!Range(r) : r \in Responses}
      <4>1. b = response[1] /\ Len(response) = 1 /\ response \in Responses
        BY <1>1, <3>1 DEF GateInv, Checked
      <4>2. response \in Seq(Gate!PreparedBatch)
        BY <4>1, Zenon DEF Gate!Assumption
      <4>3. b \in Gate!Range(response)
        BY <4>1, <4>2, OnlyOne
      <4> QED
        BY <4>1, <4>3, ZenonT(30)
    <3> QED
      BY <3>1, Zenon
  <2>2. stageAt \in {"evidence", "authorize", "submit"} => Len(claims) = 2
    BY <1>1 DEF GateInv, Gate!assemble_quorum
  <2> QED
    BY <1>1, <2>1, <2>2, Zenon DEF GateInv, Gate!TypeOK, Stages
<1>2. ASSUME GateInv PROVE Gate!SubmittedVerifies
  BY <1>2, AuthorizedVerifies DEF GateInv, Gate!SubmittedVerifies
<1>3. GateInv => Gate!GateIsExact
  BY <1>1, <1>2, InvReleasesOnce, InvGoodRuns, Zenon DEF Gate!GateIsExact
<1> QED
  BY <1>3, GateAlways, PTL

-----------------------------------------------------------------------------
(* From a burn to a signature.  What verify lets through pays the burn: every check of   *)
(* the list it works off holds then.  The invariant keeps that for the answer that is    *)
(* being signed, with the amounts of an answer in their words.                           *)

CONSTANTS Burned, FeeSettings, NoCap, U256, Base, Decimals, BpsScale, Words, MaxChanges
VARIABLES place, burn, fees, answer, quote, verdict, signed

INSTANCE FiniteSetTheorems

Prepared == INSTANCE PreparedWithdrawal WITH Burns <- Burned, Configs <- FeeSettings,
  pc <- place, config <- fees, reply <- answer

\* What may be signed for the burn.
Pays(i) ==
  LET d == Prepared!Delivered(i)
  IN  /\ i.salt = burn.note /\ d.domain = burn.dest /\ d.recipient = burn.recipient
      /\ i.value + i.maxFee = burn.amount /\ d.least > 0
      /\ burn.amount - d.least <= Prepared!fee_ceiling
      /\ i.sourceDomain = Prepared!ARC_DOMAIN /\ i.sourceToken = Prepared!ARC_USDC

\* An answer's amounts are words.
InWords(i) ==
  /\ {"value", "maxFee", "call"} \subseteq DOMAIN i
  /\ i.value \in Prepared!Amounts /\ i.maxFee \in Prepared!Amounts

PreparedInv ==
  /\ burn \in Burned /\ fees \in FeeSettings
  /\ place \in {"answer", "sign", "submit"} => "intent" \in DOMAIN answer /\ InWords(answer.intent)
  /\ place \in {"sign", "submit"} => Pays(answer.intent)
  /\ place \notin {"sign", "submit"} => signed = <<>>
  /\ signed \in Seq({Prepared!signing_hash(answer.intent)})

\* A check: whether it holds, and the error it names.
Errors == {"forwarded_field", "wrong_burn_field", "caller_restricted", "bad_amount", "fee_too_high",
           "wrong_signer", "wrong_source_token", "wrong_source_domain", "encoded_mismatch",
           "digest_mismatch", "too_small_to_forward", "payout_too_small_to_forward"}
Checks == BOOLEAN \X Errors

LEMMA ACheck == ASSUME NEW holds \in BOOLEAN, NEW error \in Errors PROVE <<holds, error>> \in Checks
  BY Zenon DEF Checks

LEMMA Held == ASSUME NEW holds \in BOOLEAN, NEW error, NEW t, t = <<holds, error>>, t[1] PROVE holds
  BY Zenon

LEMMA One == ASSUME NEW t PROVE 1 \in DOMAIN <<t>> /\ <<t>>[1] = t
  OBVIOUS

\* Checks that all name the same error.
LEMMA SameError ==
  ASSUME NEW s \in Seq(BOOLEAN), NEW error \in Errors
  PROVE  [n \in DOMAIN s |-> <<s[n], error>>] \in Seq(Checks)
<1>1. DOMAIN s = 1 .. Len(s) /\ Len(s) \in Nat
  OBVIOUS
<1>2. ASSUME NEW n \in DOMAIN s PROVE <<s[n], error>> \in Checks
  <2>1. s[n] \in BOOLEAN
    BY <1>2
  <2> QED
    BY <2>1, ACheck, Zenon
<1>3. [n \in DOMAIN s |-> <<s[n], error>>] \in [1 .. Len(s) -> Checks]
  BY <1>1, <1>2, ZenonT(30)
<1> HIDE DEF Checks
<1> QED
  BY <1>1, <1>3

\* A list of checks without an error is one whose checks all hold.
LEMMA AllChecked ==
  ASSUME NEW checks \in Seq(Checks), Prepared!FirstFailed(checks) = "ok"
  PROVE  \A n \in DOMAIN checks : checks[n][1]
<1> DEFINE failed == {n \in DOMAIN checks : ~ checks[n][1]}
<1> SUFFICES ASSUME failed # {} PROVE FALSE
  OBVIOUS
<1>1. failed \subseteq Nat
  OBVIOUS
<1>2. PICK x \in failed : \A y \in failed : ~(<<y, x>> \in OpToRel(<, Nat))
  <2> HIDE DEF failed
  <2> QED
    BY <1>1, WFMin, NatLessThanWellFounded, ZenonT(30)
<1>3. \A y \in failed : ~(y < x)
  BY <1>1, <1>2, Zenon DEF OpToRel
<1>4. \A y \in failed : x =< y
  <2> HIDE DEF failed
  <2> QED
    BY <1>1, <1>3
<1>5. Prepared!Min(failed) \in failed
  <2> HIDE DEF failed
  <2> QED
    BY <1>2, <1>4, ZenonT(30) DEF Prepared!Min
<1>6. checks[Prepared!Min(failed)] \in Checks
  <2>1. Prepared!Min(failed) \in DOMAIN checks
    BY <1>5, ZenonT(30)
  <2> QED
    BY <2>1
<1>7. checks[Prepared!Min(failed)][2] # "ok"
  BY <1>6 DEF Checks, Errors
<1>8. Prepared!FirstFailed(checks) = checks[Prepared!Min(failed)][2]
  BY ZenonT(30) DEF Prepared!FirstFailed
<1> QED
  BY <1>7, <1>8

\* So do those of three lists one after the other.
LEMMA AllThreeChecked ==
  ASSUME NEW a \in Seq(Checks), NEW b \in Seq(Checks), NEW c \in Seq(Checks),
         Prepared!FirstFailed(a \o b \o c) = "ok"
  PROVE  /\ \A n \in DOMAIN a : a[n][1]
         /\ \A n \in DOMAIN b : b[n][1]
         /\ \A n \in DOMAIN c : c[n][1]
<1> DEFINE ab == a \o b
           s == ab \o c
<1>1. ab \in Seq(Checks) /\ s \in Seq(Checks)
  OBVIOUS
<1>2. \A n \in DOMAIN s : s[n][1]
  <2> HIDE DEF Checks
  <2> QED
    BY <1>1, AllChecked, ZenonT(30)
<1>3. /\ \A n \in DOMAIN ab : n \in DOMAIN s /\ s[n] = ab[n]
      /\ \A n \in DOMAIN c : Len(ab) + n \in DOMAIN s /\ s[Len(ab) + n] = c[n]
  <2> HIDE DEF ab
  <2> QED
    BY <1>1
<1>4. /\ \A n \in DOMAIN a : n \in DOMAIN ab /\ ab[n] = a[n]
      /\ \A n \in DOMAIN b : Len(a) + n \in DOMAIN ab /\ ab[Len(a) + n] = b[n]
  OBVIOUS
<1> HIDE DEF ab, s
<1>5. \A n \in DOMAIN ab : ab[n][1]
  BY <1>2, <1>3
<1>6. \A n \in DOMAIN c : c[n][1]
  BY <1>2, <1>3
<1>7. \A n \in DOMAIN a : a[n][1]
  BY <1>4, <1>5
<1>8. \A n \in DOMAIN b : b[n][1]
  BY <1>4, <1>5
<1> QED
  BY <1>6, <1>7, <1>8


LEMMA LeastOfTwo ==
  ASSUME NEW a \in Int, NEW b \in Int
  PROVE  Prepared!Min({a, b}) = IF a <= b THEN a ELSE b
<1>1. \E x \in {a, b} : \A y \in {a, b} : x =< y
  OBVIOUS
<1> QED
  BY <1>1 DEF Prepared!Min

\* The checks of either second leg, and of a payout without one.
LEMMA LegsChecked ==
  ASSUME NEW i, NEW fee,
         \A n \in DOMAIN Prepared!Leg(i, fee) : Prepared!Leg(i, fee)[n][1]
  PROVE  /\ burn.dest \in Prepared!Remote =>
              \A n \in 1 .. 15 : Prepared!verify_redeposit_leg(i, fee)[n]
         /\ burn.dest \notin Prepared!Remote /\ Prepared!forwarded(i) =>
              \A n \in 1 .. 14 : Prepared!verify_forwarded_leg(i)[n]
         /\ burn.dest \notin Prepared!Remote /\ ~ Prepared!forwarded(i) =>
              i.destinationDomain = burn.dest /\ i.destinationRecipient = burn.recipient
<1>1. ASSUME burn.dest \in Prepared!Remote
      PROVE  \A n \in 1 .. 15 : Prepared!verify_redeposit_leg(i, fee)[n]
  <2> DEFINE checks == Prepared!verify_redeposit_leg(i, fee)
  <2>1. DOMAIN checks = 1 .. 15
    BY DEF Prepared!verify_redeposit_leg
  <2>2. Prepared!Leg(i, fee) = [n \in DOMAIN checks |-> <<checks[n], "forwarded_field">>]
    BY <1>1, ZenonT(30) DEF Prepared!Leg
  <2> HIDE DEF checks
  <2>3. ASSUME NEW n \in 1 .. 15 PROVE checks[n]
    <3>1. n \in DOMAIN Prepared!Leg(i, fee) /\ Prepared!Leg(i, fee)[n] = <<checks[n], "forwarded_field">>
      BY <2>1, <2>2, <2>3, ZenonT(30)
    <3> QED
      BY <3>1
  <2> QED
    BY <2>3 DEF checks
<1>2. ASSUME burn.dest \notin Prepared!Remote, Prepared!forwarded(i)
      PROVE  \A n \in 1 .. 14 : Prepared!verify_forwarded_leg(i)[n]
  <2> DEFINE checks == Prepared!verify_forwarded_leg(i)
  <2>1. DOMAIN checks = 1 .. 14
    BY DEF Prepared!verify_forwarded_leg
  <2>2. Prepared!Leg(i, fee) = [n \in DOMAIN checks |-> <<checks[n], "forwarded_field">>]
    BY <1>2, ZenonT(30) DEF Prepared!Leg
  <2> HIDE DEF checks
  <2>3. ASSUME NEW n \in 1 .. 14 PROVE checks[n]
    <3>1. n \in DOMAIN Prepared!Leg(i, fee) /\ Prepared!Leg(i, fee)[n] = <<checks[n], "forwarded_field">>
      BY <2>1, <2>2, <2>3, ZenonT(30)
    <3> QED
      BY <3>1
  <2> QED
    BY <2>3 DEF checks
<1>3. ASSUME burn.dest \notin Prepared!Remote, ~ Prepared!forwarded(i)
      PROVE  i.destinationDomain = burn.dest /\ i.destinationRecipient = burn.recipient
  <2>1. Prepared!Leg(i, fee) =
          <<<<i.destinationDomain = burn.dest, "wrong_burn_field">>,
            <<i.destinationRecipient = burn.recipient, "wrong_burn_field">>,
            <<i.destinationCaller = Prepared!ZERO, "caller_restricted">>>>
    BY <1>3, Zenon DEF Prepared!Leg
  <2>2. DOMAIN Prepared!Leg(i, fee) = 1 .. 3
    BY <2>1
  <2>3. Prepared!Leg(i, fee)[1][1] /\ Prepared!Leg(i, fee)[2][1]
    BY <2>2
  <2>4. /\ Prepared!Leg(i, fee)[1] = <<i.destinationDomain = burn.dest, "wrong_burn_field">>
        /\ Prepared!Leg(i, fee)[2] = <<i.destinationRecipient = burn.recipient, "wrong_burn_field">>
    BY <2>1
  <2>5. i.destinationDomain = burn.dest
    BY <2>3, <2>4, Held, ZenonT(30)
  <2>6. i.destinationRecipient = burn.recipient
    BY <2>3, <2>4, Held, ZenonT(30)
  <2> QED
    BY <2>5, <2>6
<1> QED
  BY <1>1, <1>2, <1>3, ZenonT(30)

\* The checks of a leg are checks.
LEMMA LegsAreChecks ==
  ASSUME NEW i, NEW fee
  PROVE  Prepared!Leg(i, fee) \in Seq(Checks)
<1>1. CASE burn.dest \in Prepared!Remote
  <2> DEFINE checks == Prepared!verify_redeposit_leg(i, fee)
  <2>1. checks \in Seq(BOOLEAN)
    BY DEF Prepared!verify_redeposit_leg
  <2>2. Prepared!Leg(i, fee) = [n \in DOMAIN checks |-> <<checks[n], "forwarded_field">>]
    BY <1>1, Zenon DEF Prepared!Leg
  <2> HIDE DEF checks
  <2>3. [n \in DOMAIN checks |-> <<checks[n], "forwarded_field">>] \in Seq(Checks)
    <3>1. "forwarded_field" \in Errors
      BY ZenonT(30) DEF Errors
    <3> QED
      BY <2>1, <3>1, SameError, ZenonT(30)
  <2> QED
    BY <2>2, <2>3
<1>2. CASE burn.dest \notin Prepared!Remote /\ Prepared!forwarded(i)
  <2> DEFINE checks == Prepared!verify_forwarded_leg(i)
  <2>1. checks \in Seq(BOOLEAN)
    BY DEF Prepared!verify_forwarded_leg
  <2>2. Prepared!Leg(i, fee) = [n \in DOMAIN checks |-> <<checks[n], "forwarded_field">>]
    BY <1>2, ZenonT(30) DEF Prepared!Leg
  <2> HIDE DEF checks
  <2>3. [n \in DOMAIN checks |-> <<checks[n], "forwarded_field">>] \in Seq(Checks)
    <3>1. "forwarded_field" \in Errors
      BY Zenon DEF Errors
    <3> QED
      BY <2>1, <3>1, SameError, Zenon
  <2> QED
    BY <2>2, <2>3
<1>3. CASE burn.dest \notin Prepared!Remote /\ ~ Prepared!forwarded(i)
  <2>1. Prepared!Leg(i, fee) =
          <<<<i.destinationDomain = burn.dest, "wrong_burn_field">>,
            <<i.destinationRecipient = burn.recipient, "wrong_burn_field">>,
            <<i.destinationCaller = Prepared!ZERO, "caller_restricted">>>>
    BY <1>3, Zenon DEF Prepared!Leg
  <2>2. /\ <<i.destinationDomain = burn.dest, "wrong_burn_field">> \in Checks
        /\ <<i.destinationRecipient = burn.recipient, "wrong_burn_field">> \in Checks
        /\ <<i.destinationCaller = Prepared!ZERO, "caller_restricted">> \in Checks
    <3>1. {"wrong_burn_field", "caller_restricted"} \subseteq Errors
      BY Zenon DEF Errors
    <3> QED
      BY <3>1, ACheck, ZenonT(30)
  <2> QED
    BY <2>1, <2>2
<1> QED
  BY <1>1, <1>2, <1>3

\* The amounts add up, and the fees of both legs are within the limit.
LEMMA Affordable ==
  ASSUME Prepared!Assumption, burn \in Burned, fees \in FeeSettings,
         NEW i, InWords(i), NEW secondary \in Nat, secondary = 0 \/ secondary < i.value,
         Prepared!AccountsFor(i),
         Prepared!Min({i.maxFee + secondary, U256 - 1}) <= Prepared!fee_ceiling
  PROVE  /\ i.value + i.maxFee = burn.amount /\ i.value - secondary > 0
         /\ burn.amount - (i.value - secondary) <= Prepared!fee_ceiling
         /\ {i.value, i.maxFee, burn.amount} \subseteq Nat
<1>1. /\ i.value \in Nat /\ i.maxFee \in Nat /\ U256 \in Nat \ {0} /\ i.value # 0
      /\ i.value + i.maxFee < U256 /\ i.value + i.maxFee = burn.amount
  BY DEF InWords, Prepared!Amounts, Prepared!AccountsFor, Prepared!Assumption
<1>2. Prepared!Min({i.maxFee + secondary, U256 - 1}) = i.maxFee + secondary
  BY <1>1, LeastOfTwo
<1>3. i.maxFee + secondary <= Prepared!fee_ceiling
  BY <1>2
<1> HIDE DEF Prepared!fee_ceiling
<1>4. burn.amount - (i.value - secondary) = i.maxFee + secondary
  BY <1>1
<1> QED
  BY <1>1, <1>3, <1>4

\* An answer that passes every check pays the burn.
LEMMA VerifiedPays ==
  ASSUME Prepared!Assumption, burn \in Burned, fees \in FeeSettings,
         InWords(answer.intent), Prepared!verify(answer) = "ok"
  PROVE  Pays(answer.intent)
<1> DEFINE i == answer.intent
           fee == Prepared!forwarding_max_fee(burn.dest)
           second == burn.dest \in Prepared!Remote \/ Prepared!forwarded(i)
           secondary == IF second THEN fee ELSE 0
           c1 == <<i.remoteDomain = "miden", "wrong_burn_field">>
           c2 == <<i.remoteDepositor = burn.sender, "wrong_burn_field">>
           c3 == <<i.remoteToken = "faucet", "wrong_burn_field">>
           c4 == <<Prepared!AccountsFor(i), "bad_amount">>
           c5 == <<Prepared!Min({i.maxFee + secondary, U256 - 1}) <= Prepared!fee_ceiling,
                   "fee_too_high">>
           c6 == <<i.sourceSigner = i.sourceDepositor, "wrong_signer">>
           c7 == <<i.sourceToken = Prepared!ARC_USDC, "wrong_source_token">>
           c8 == <<i.sourceDomain = Prepared!ARC_DOMAIN, "wrong_source_domain">>
           c9 == <<answer.encoded = Prepared!encode(i), "encoded_mismatch">>
           c10 == <<answer.digest = Prepared!signing_hash(i), "digest_mismatch">>
           ten == <<c1, c2, c3, c4, c5, c6, c7, c8, c9, c10>>
           rest == IF second THEN Prepared!Enough(i, secondary) ELSE <<>>
<1>1. /\ i.salt = burn.note /\ fee # NoCap
      /\ Prepared!FirstFailed(Prepared!Leg(i, fee) \o ten \o rest) = "ok"
  BY ZenonT(30) DEF Prepared!verify
<1>2. fee \in Nat /\ secondary \in Nat
  BY <1>1 DEF Prepared!forwarding_max_fee, Prepared!Assumption
<1>0. (Prepared!Min({i.maxFee + secondary, U256 - 1}) <= Prepared!fee_ceiling) \in BOOLEAN
  OBVIOUS
<1>3. ten \in Seq(Checks)
  <2>1. /\ c1 \in Checks /\ c2 \in Checks /\ c3 \in Checks /\ c6 \in Checks /\ c7 \in Checks
        /\ c8 \in Checks /\ c9 \in Checks /\ c10 \in Checks
    BY Zenon DEF Checks, Errors
  <2>2. c4 \in Checks
    BY Zenon DEF Checks, Errors, Prepared!AccountsFor
  <2>3. c5 \in Checks
    BY <1>0, ZenonT(30) DEF Checks, Errors
  <2> HIDE DEF c1, c2, c3, c4, c5, c6, c7, c8, c9, c10
  <2> QED
    BY <2>1, <2>2, <2>3
<1>4. rest \in Seq(Checks)
  <2>1. <<FALSE, "too_small_to_forward">> \in Checks /\ <<FALSE, "payout_too_small_to_forward">> \in Checks
    BY Zenon DEF Checks, Errors
  <2> QED
    BY <2>1 DEF Prepared!Enough
<1>5. /\ \A n \in DOMAIN Prepared!Leg(i, fee) : Prepared!Leg(i, fee)[n][1]
      /\ \A n \in DOMAIN ten : ten[n][1]
      /\ \A n \in DOMAIN rest : rest[n][1]
  <2>1. Prepared!Leg(i, fee) \in Seq(Checks)
    BY LegsAreChecks, ZenonT(30)
  <2> HIDE DEF ten, rest, fee, i
  <2> QED
    BY <1>1, <1>3, <1>4, <2>1, AllThreeChecked, ZenonT(30)
<1>6. ten[4][1] /\ ten[5][1] /\ ten[7][1] /\ ten[8][1]
  <2>1. DOMAIN ten = 1 .. 10
    <3> HIDE DEF c1, c2, c3, c4, c5, c6, c7, c8, c9, c10
    <3> QED
      OBVIOUS
  <2> HIDE DEF ten
  <2> QED
    BY <1>5, <2>1
<1>7. ten[4] = c4 /\ ten[5] = c5 /\ ten[7] = c7 /\ ten[8] = c8
  <2> HIDE DEF c1, c2, c3, c4, c5, c6, c7, c8, c9, c10
  <2> QED
    OBVIOUS
<1> HIDE DEF ten
<1>8. Prepared!AccountsFor(i)
  <2>1. Prepared!AccountsFor(i) \in BOOLEAN
    BY Zenon DEF Prepared!AccountsFor
  <2> QED
    BY <1>6, <1>7, <2>1, Held, ZenonT(30)
<1>9. Prepared!Min({i.maxFee + secondary, U256 - 1}) <= Prepared!fee_ceiling
  BY <1>0, <1>6, <1>7, Held, ZenonT(30)
<1>10. i.sourceToken = Prepared!ARC_USDC
  BY <1>6, <1>7, Held, ZenonT(30)
<1>11. i.sourceDomain = Prepared!ARC_DOMAIN
  BY <1>6, <1>7, Held, ZenonT(30)
<1>12. second => secondary < i.value
  <2> SUFFICES ASSUME second, ~(secondary < i.value) PROVE FALSE
    OBVIOUS
  <2>1. rest = <<<<FALSE, "too_small_to_forward">>>> \/ rest = <<<<FALSE, "payout_too_small_to_forward">>>>
    BY Zenon DEF Prepared!Enough
  <2> HIDE DEF rest
  <2>2. PICK error : rest = <<<<FALSE, error>>>>
    BY <2>1, Zenon
  <2>3. 1 \in DOMAIN rest /\ rest[1] = <<FALSE, error>>
    BY <2>2, One, ZenonT(30)
  <2>4. rest[1][1]
    BY <1>5, <2>3, ZenonT(30)
  <2> QED
    BY <2>3, <2>4, Held, ZenonT(30)
<1>13. secondary = 0 \/ secondary < i.value
  BY <1>12
<1>14. /\ i.value + i.maxFee = burn.amount /\ i.value - secondary > 0
       /\ burn.amount - (i.value - secondary) <= Prepared!fee_ceiling
       /\ {i.value, i.maxFee, burn.amount} \subseteq Nat
  <2> HIDE DEF secondary
  <2> QED
    BY <1>2, <1>8, <1>9, <1>13, Affordable, ZenonT(30)
<1> DEFINE d == Prepared!Delivered(i)
<1>15. d.domain = burn.dest /\ d.recipient = burn.recipient /\ d.least = i.value - secondary
  <2> HIDE DEF secondary, fee, i
  <2>1. CASE burn.dest \in Prepared!Remote
    <3> DEFINE checks == Prepared!verify_redeposit_leg(i, fee)
    <3>1. \A n \in 1 .. 15 : checks[n]
      BY <2>1, <1>5, LegsChecked, ZenonT(30)
    <3> HIDE DEF checks
    <3>2. /\ checks[3] /\ checks[4] /\ checks[5] /\ checks[6] /\ checks[9] /\ checks[10]
          /\ checks[11] /\ checks[12] /\ checks[13] /\ checks[14] /\ checks[15]
      BY <3>1
    <3>3. /\ i.contract = fees.forwarder /\ i.destinationRecipient = fees.forwarder
          /\ i.destinationCaller = fees.forwarder /\ i.destinationToken = i.call.token
          /\ i.call.fn = "deposit" /\ i.call.value = i.value /\ i.call.domain = burn.dest
          /\ i.call.recipient = burn.recipient /\ i.call.maxFee = fee
          /\ i.call.hook = Prepared!None
      BY <3>2, ZenonT(30) DEF checks, Prepared!verify_redeposit_leg
    <3>4. secondary = fee /\ fee < i.value
      BY <2>1, <1>12 DEF secondary
    <3> QED
      BY <3>3, <3>4, ZenonT(30) DEF Prepared!Delivered, Prepared!None
  <2>2. CASE burn.dest \notin Prepared!Remote /\ Prepared!forwarded(i)
    <3> DEFINE checks == Prepared!verify_forwarded_leg(i)
    <3>1. \A n \in 1 .. 14 : checks[n]
      BY <2>2, <1>5, LegsChecked, ZenonT(30)
    <3> HIDE DEF checks
    <3>2. /\ checks[1] /\ checks[2] /\ checks[3] /\ checks[6] /\ checks[7] /\ checks[8]
          /\ checks[9] /\ checks[10] /\ checks[12] /\ checks[14]
      BY <3>1
    <3>3. /\ i.contract = fees.messenger /\ i.destinationRecipient = fees.forwarder
          /\ i.destinationCaller = fees.forwarder /\ i.call.token = i.destinationToken
          /\ i.call.fn = "cctp" /\ i.call.value = i.value /\ i.call.domain = burn.dest
          /\ i.call.recipient = burn.recipient /\ i.call.maxFee = fees.cctp
          /\ i.call.hook = "cctp-forward"
      BY <3>2, ZenonT(30) DEF checks, Prepared!verify_forwarded_leg
    <3>4. secondary = fees.cctp /\ fees.cctp < i.value
      BY <2>2, <1>12 DEF secondary, fee, Prepared!forwarding_max_fee, Prepared!Remote, Prepared!Supported
    <3> QED
      BY <3>3, <3>4, ZenonT(30) DEF Prepared!Delivered, Prepared!None
  <2>3. CASE burn.dest \notin Prepared!Remote /\ ~ Prepared!forwarded(i)
    <3>1. i.destinationDomain = burn.dest /\ i.destinationRecipient = burn.recipient
      BY <2>3, <1>5, LegsChecked, ZenonT(30)
    <3>2. i.contract = Prepared!ZERO /\ i.call.fn = Prepared!None
      BY <2>3, ZenonT(30) DEF Prepared!forwarded
    <3>3. secondary = 0 /\ i.value - 0 = i.value
      BY <2>3, <1>14 DEF secondary
    <3> QED
      BY <3>1, <3>2, <3>3 DEF Prepared!Delivered
  <2> QED
    BY <2>1, <2>2, <2>3
<1> HIDE DEF d, i, secondary
<1> QED
  BY <1>1, <1>10, <1>11, <1>14, <1>15 DEF Pays, i, d

\* A changed answer has its amounts in words as well.
LEMMA ChangesInWords ==
  ASSUME Prepared!Assumption, NEW i, InWords(i), NEW j \in Prepared!Change(i)
  PROVE  InWords(j)
<1> DEFINE names == {[i EXCEPT ![f] = w] : f \in DOMAIN i \ {"value", "maxFee", "call"}, w \in Words}
           amounts == {Prepared!Repriced(i, v, fee) : v \in Prepared!Amounts, fee \in Prepared!Amounts}
           both == {Prepared!RepricedCall(i, v, fee) : v \in Prepared!Amounts, fee \in Prepared!Amounts}
           called == {[i EXCEPT !.call[f] = w] :
                        f \in DOMAIN i.call \ {"value", "maxFee"}, w \in Words}
           paid == {[i EXCEPT !.call[f] = n] : f \in {"value", "maxFee"}, n \in Prepared!Amounts}
           none == Prepared!Uncalled(i)
<1>1. j \in names \cup amounts \cup both \cup called \cup paid \cup {none}
  BY DEF Prepared!Change
<1>2. CASE j \in names
  BY <1>2 DEF InWords
<1>3. CASE j \in amounts
  <2>1. PICK v \in Prepared!Amounts, fee \in Prepared!Amounts :
          j = Prepared!Repriced(i, v, fee)
    BY <1>3
  <2> QED
    BY <2>1 DEF InWords, Prepared!Repriced
<1>4. CASE j \in both
  <2>1. PICK v \in Prepared!Amounts, fee \in Prepared!Amounts :
          j = Prepared!RepricedCall(i, v, fee)
    BY <1>4
  <2> QED
    BY <2>1 DEF InWords, Prepared!RepricedCall
<1>5. CASE j \in called \/ j \in paid
  BY <1>5 DEF InWords
<1>6. CASE j = none
  BY <1>6 DEF InWords, Prepared!Uncalled
<1> HIDE DEF names, amounts, both, called, paid, none
<1> QED
  BY <1>1, <1>2, <1>3, <1>4, <1>5, <1>6

\* What pays the burn still does when neither the burn nor the settings move.
LEMMA StillPays ==
  ASSUME PreparedInv, UNCHANGED <<burn, fees, answer>>
  PROVE  /\ burn' \in Burned /\ fees' \in FeeSettings
         /\ InWords(answer.intent) => InWords(answer.intent)'
         /\ Pays(answer.intent) => Pays(answer.intent)'
<1>1. burn' \in Burned /\ fees' \in FeeSettings
  BY DEF PreparedInv
<1>2. InWords(answer.intent) => InWords(answer.intent)'
  BY DEF InWords, Prepared!Amounts
<1>3. Pays(answer.intent) => Pays(answer.intent)'
  BY ZenonT(30) DEF Pays, Prepared!Delivered, Prepared!fee_ceiling, Prepared!ARC_DOMAIN,
               Prepared!ARC_USDC, Prepared!ZERO, Prepared!None
<1> QED
  BY <1>1, <1>2, <1>3

LEMMA PreparedStep ==
  ASSUME Prepared!Assumption, PreparedInv, [Prepared!Next]_Prepared!vars
  PROVE  PreparedInv'
<1>1. CASE Prepared!Unsupported
  <2>1. UNCHANGED <<burn, fees, answer, signed>> /\ place = "prepare" /\ place' = "retry"
    BY <1>1 DEF Prepared!Unsupported
  <2> QED
    BY <2>1 DEF PreparedInv
<1>2. CASE Prepared!prepare_withdrawal
  <2>1. PICK route \in Prepared!Routes(burn.dest), fee \in Prepared!Amounts :
          LET intent == Prepared!Honest(Prepared!from_burn(burn, Prepared!forwarding_max_fee(burn.dest)),
                                        fee, route)
          IN  intent.value \in Prepared!Amounts /\ answer' = Prepared!Replies(intent)
    BY <1>2, ZenonT(30) DEF Prepared!prepare_withdrawal
  <2> DEFINE intent == Prepared!Honest(Prepared!from_burn(burn, Prepared!forwarding_max_fee(burn.dest)),
                                       fee, route)
  <2>2. intent.maxFee = fee /\ {"value", "maxFee", "call"} \subseteq DOMAIN intent
    BY Zenon DEF Prepared!Honest
  <2>3. answer' = Prepared!Replies(intent) /\ intent.value \in Prepared!Amounts
    BY <2>1, ZenonT(30)
  <2> HIDE DEF intent
  <2>4. answer'.intent = intent /\ "intent" \in DOMAIN answer'
    BY <2>3 DEF Prepared!Replies
  <2>5. InWords(answer.intent)'
    BY <2>2, <2>3, <2>4 DEF InWords, Prepared!Amounts
  <2>6. UNCHANGED <<burn, fees, signed>> /\ place = "prepare" /\ place' = "answer"
    BY <1>2 DEF Prepared!prepare_withdrawal
  <2>7. signed' = <<>>
    BY <2>6 DEF PreparedInv
  <2> QED
    BY <2>4, <2>5, <2>6, <2>7 DEF PreparedInv
<1>3. CASE Prepared!Differs
  <2>1. UNCHANGED <<place, burn, fees, signed>> /\ place = "answer"
    BY <1>3 DEF Prepared!Differs
  <2>2. signed' = <<>> /\ "intent" \in DOMAIN answer /\ InWords(answer.intent)
    BY <2>1 DEF PreparedInv
  <2>3. "intent" \in DOMAIN answer' /\ InWords(answer'.intent)
    <3>1. ASSUME NEW j \in Prepared!Change(answer.intent),
                 \/ answer' = Prepared!Replies(j)
                 \/ answer' = [answer EXCEPT !.intent = j]
                 \/ answer' = [Prepared!Replies(j) EXCEPT !.digest = answer.digest]
          PROVE  "intent" \in DOMAIN answer' /\ InWords(answer'.intent)
      <4>1. InWords(j)
        BY <2>2, <3>1, ChangesInWords, ZenonT(30)
      <4>2. "intent" \in DOMAIN answer' /\ answer'.intent = j
        BY <2>2, <3>1 DEF Prepared!Replies
      <4> QED
        BY <4>1, <4>2, ZenonT(30)
    <3>2. ASSUME \/ \E n \in {0, 2} : answer' = [answer EXCEPT !.count = n]
                 \/ answer' = [answer EXCEPT !.malformed = TRUE]
          PROVE  "intent" \in DOMAIN answer' /\ InWords(answer'.intent)
      <4>1. "intent" \in DOMAIN answer' /\ answer'.intent = answer.intent
        BY <2>2, <3>2
      <4> QED
        BY <2>2, <4>1, ZenonT(30)
    <3> QED
      BY <1>3, <3>1, <3>2, ZenonT(30) DEF Prepared!Differs
  <2>4. InWords(answer.intent)'
    BY <2>3 DEF InWords, Prepared!Amounts
  <2>5. signed' \in Seq({Prepared!signing_hash(answer.intent)'})
    BY <2>2
  <2>6. place' = "answer" /\ burn' \in Burned /\ fees' \in FeeSettings
    BY <2>1, ZenonT(30) DEF PreparedInv
  <2> QED
    BY <2>2, <2>3, <2>4, <2>5, <2>6, ZenonT(30) DEF PreparedInv
<1>4. CASE Prepared!Verify
  <2>1. UNCHANGED <<burn, fees, answer, signed>> /\ place = "answer"
    BY <1>4 DEF Prepared!Verify
  <2>2. signed' = <<>> /\ "intent" \in DOMAIN answer /\ InWords(answer.intent)
    BY <2>1 DEF PreparedInv
  <2>3. \/ Prepared!verify(answer) = "ok" /\ place' = "sign"
        \/ place' \in {"held", "retry"}
    BY <1>4, ZenonT(30) DEF Prepared!Verify, Prepared!burn_hold
  <2>4. place' = "sign" => Pays(answer.intent)
    BY <2>2, <2>3, VerifiedPays DEF PreparedInv
  <2>5. place' = "sign" => Pays(answer.intent)'
    BY <2>1, <2>4, StillPays, ZenonT(30)
  <2>6. InWords(answer.intent)' /\ burn' \in Burned /\ fees' \in FeeSettings
    BY <2>1, <2>2, StillPays, ZenonT(30)
  <2> QED
    BY <2>1, <2>2, <2>3, <2>5, <2>6 DEF PreparedInv
<1>5. CASE Prepared!sign
  <2>1. UNCHANGED <<burn, fees, answer>> /\ place = "sign" /\ place' \in {"sign", "submit"}
    BY <1>5 DEF Prepared!sign
  <2>2. signed' = Append(signed, Prepared!signing_hash(answer.intent))
    BY <1>5 DEF Prepared!sign
  <2> DEFINE hashed == Prepared!signing_hash(answer.intent)
  <2>3. signed \in Seq({hashed})
    BY DEF PreparedInv
  <2>4. signed' \in Seq({hashed})
    <3> HIDE DEF hashed
    <3> QED
      BY <2>2, <2>3 DEF hashed
  <2>5. hashed' = hashed
    BY <2>1, Zenon DEF Prepared!signing_hash
  <2>6. signed' \in Seq({Prepared!signing_hash(answer.intent)})'
    BY <2>4, <2>5, ZenonT(30)
  <2>7. /\ burn' \in Burned /\ fees' \in FeeSettings
        /\ Pays(answer.intent)' /\ InWords(answer.intent)'
    BY <2>1, StillPays, ZenonT(30) DEF PreparedInv
  <2> HIDE DEF hashed
  <2> QED
    BY <2>1, <2>6, <2>7 DEF PreparedInv
<1>6. CASE Prepared!SignFails
  BY <1>6 DEF Prepared!SignFails, PreparedInv
<1>7. CASE Prepared!Again
  BY <1>7 DEF Prepared!Again, PreparedInv
<1>8. CASE UNCHANGED Prepared!vars
  <2>1. UNCHANGED <<place, burn, fees, answer, signed>>
    BY <1>8 DEF Prepared!vars
  <2>2. /\ InWords(answer.intent) => InWords(answer.intent)'
        /\ Pays(answer.intent) => Pays(answer.intent)'
    BY <2>1, StillPays, ZenonT(30)
  <2> QED
    BY <2>1, <2>2, ZenonT(30) DEF PreparedInv, Prepared!signing_hash
<1> QED
  BY <1>1, <1>2, <1>3, <1>4, <1>5, <1>6, <1>7, <1>8, ZenonT(30) DEF Prepared!Next

\* Whatever Circle answers, the two signers only ever sign an authorization that verify let
\* through (verify.rs), and such an authorization pays the burn: to its recipient on its
\* domain, for exactly its amount, with the fees of both legs within the operator's limit.
THEOREM SignersPayTheBurn ==
  ASSUME Prepared!Assumption
  PROVE  Prepared!Spec => []Prepared!SignedPaysTheBurn
<1>1. Prepared!Init => PreparedInv
  BY DEF Prepared!Init, PreparedInv
<1>2. PreparedInv /\ [Prepared!Next]_Prepared!vars => PreparedInv'
  BY PreparedStep
<1>3. PreparedInv => Prepared!SignedPaysTheBurn
  <2> SUFFICES ASSUME PreparedInv, NEW n \in DOMAIN signed
               PROVE  /\ signed[n] = Prepared!signing_hash(signed[n][2]) /\ Pays(signed[n][2])
    BY Zenon DEF Prepared!SignedPaysTheBurn, Pays
  <2> DEFINE hashed == Prepared!signing_hash(answer.intent)
  <2>1. signed[n] = hashed
    <3>1. signed \in Seq({hashed})
      BY DEF PreparedInv
    <3> HIDE DEF hashed
    <3> QED
      BY <3>1
  <2>2. signed[n][2] = answer.intent
    BY <2>1 DEF Prepared!signing_hash
  <2>3. place \in {"sign", "submit"}
    <3>1. signed # <<>>
      OBVIOUS
    <3> QED
      BY <3>1 DEF PreparedInv
  <2> QED
    BY <2>1, <2>2, <2>3, ZenonT(30) DEF PreparedInv
<1> QED
  BY <1>1, <1>2, <1>3, PTL DEF Prepared!Spec

=============================================================================
