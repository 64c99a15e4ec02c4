------------------------- MODULE RunDeliveryLemmas --------------------------
(***************************************************************************)
(* What every step of the delivery substrate does to the log, to the       *)
(* tails and to what has arrived, for any number of replicas and events,   *)
(* any batch and channel size, and any number of crashes.                  *)
(*                                                                         *)
(* The invariants come in layers, each kept on top of the ones before: the *)
(* log itself (LogInv); what a tail holds and has sent (TailInv); without  *)
(* the mesh fast path, the order of what went out (OrderInv); and without  *)
(* the fast path and the sweep, what has arrived (ArrivalInv).  That a     *)
(* read leaves no gap (BatchesDense) is a fact about finite sets, which    *)
(* module RunDeliveryProofs supplies together with the theorems.           *)
(***************************************************************************)
EXTENDS RunDelivery, TLAPS

Top == nextSeq[RunKey]

(* The log: every row is of the run key and numbered by the allocator, no  *)
(* number is used twice, and no hint or cursor is ahead of the allocator.  *)
LogInv ==
    /\ \A r \in outbox : r.key = RunKey /\ r.seq <= Top
    /\ \A r, q \in outbox : r.seq = q.seq => r = q
    /\ \A hint \in mesh : hint[2].seq <= Top
    /\ \A c \in Consumers : cursor[RunKey][c] # NoCursor => cursor[RunKey][c] <= Top

(* Nothing a subscription holds is ahead of the allocator.                 *)
WithinLog(s, n) ==
    /\ s.pos <= n
    /\ \A b \in s.batch : b.seq <= n
    /\ \A i \in 1 .. Len(s.hints) : s.hints[i].seq <= n
    /\ \A i \in 1 .. Len(s.out) : s.out[i].seq <= n

(* A batch has no gaps from the position on: every retained row up to one  *)
(* of its rows is in it.                                                   *)
BatchDense(s, log) ==
    /\ \A b, q \in s.batch : b.seq = q.seq => b = q
    /\ \A b \in s.batch, q \in log :
          (s.pos < q.seq /\ q.seq <= b.seq) => q \in s.batch

(* A read takes the first rows after the position, up to its limit: what   *)
(* it takes has no gaps.                                                   *)
BatchesDense ==
    \A c \in Consumers :
        /\ NextRows(c) \subseteq outbox
        /\ \A b \in NextRows(c) : b.seq > sub[c].pos
        /\ \A b \in NextRows(c), q \in outbox :
              (sub[c].pos < q.seq /\ q.seq <= b.seq) => q \in NextRows(c)

Sent(s, e) == \E i \in 1 .. Len(s.sent) : s.sent[i].event = e

(* What the window remembers was sent, and so was what the position has    *)
(* passed.                                                                 *)
PassedSent(s, log) ==
    /\ \A e \in s.dedup : Sent(s, e)
    /\ \A r \in log : (s.startPos < r.seq /\ r.seq <= s.pos) => Sent(s, r.event)

TailOf(s, n, log) == WithinLog(s, n) /\ BatchDense(s, log) /\ PassedSent(s, log)

TailInv == \A c \in Consumers : TailOf(sub[c], Top, outbox)

Ascending(q) == \A i, j \in 1 .. Len(q) : i < j => q[i].seq < q[j].seq

(* On the durable path the position separates what went out, in order,     *)
(* from what is still to go.                                               *)
OrderOf(s) ==
    /\ s.hints = <<>>
    /\ \A b \in s.batch : b.seq > s.pos
    /\ Ascending(s.sent)
    /\ \A i \in 1 .. Len(s.sent) : s.sent[i].seq <= s.pos
    /\ Ascending(s.out)
    /\ \A i \in 1 .. Len(s.out) : s.out[i].seq <= s.pos

OrderInv == ~MeshWired => mesh = {} /\ \A c \in Consumers : OrderOf(sub[c])

InOut(s, r) == \E i \in 1 .. Len(s.out) : s.out[i] = r

(* Of the rows after a replica joined, those up to its cursor have         *)
(* arrived; those up to its position have arrived or are in its hands.     *)
ArrivalOf(s, log, start, acked, arrived) ==
    /\ s.batch \subseteq log
    /\ \A i \in 1 .. Len(s.sent) : s.sent[i] \in log
    /\ start # NoCursor =>
          /\ acked # NoCursor
          /\ \A r \in log : r.seq > start =>
                /\ r.seq <= acked => r.event \in arrived
                /\ r.seq <= s.pos => r \in s.batch \/ InOut(s, r) \/ r.event \in arrived

ArrivalInv ==
    (~MeshWired /\ spent.elapses = 0) =>
        /\ old.rows = {} /\ old.cursors = {}
        /\ \A r, q \in outbox : r.event = q.event => r = q
        /\ \A c \in Consumers :
              ArrivalOf(sub[c], outbox, joined[c], cursor[RunKey][c], handled[c])

-----------------------------------------------------------------------------
(* What each step does to the subscription of one replica, field by field. *)

SameTail(s, t) == t.startPos = s.startPos /\ t.pos = s.pos /\ t.batch = s.batch

SameChannel(s, t) ==
    t.dedup = s.dedup /\ t.hints = s.hints /\ t.out = s.out /\ t.sent = s.sent

DeliveredTo(s, t, r) ==
    IF r.event \in s.dedup
      THEN t.dedup = s.dedup /\ t.out = s.out /\ t.sent = s.sent
      ELSE /\ t.dedup = s.dedup \cup {r.event}
           /\ t.out = Append(s.out, r)
           /\ t.sent = Append(s.sent, r)

Others(c) == \A d \in Consumers : d # c => sub'[d] = sub[d]

(* A subscription as it begins, or as it is left by a stop.                *)
Fresh(t, n) ==
    /\ t.startPos = n /\ t.pos = n /\ t.batch = {} /\ t.dedup = {}
    /\ t.hints = <<>> /\ t.out = <<>> /\ t.sent = <<>>

LEMMA FreshSubscription ==
    ASSUME NEW phase \in {"down", "deaf", "read", "send", "select"}, NEW n \in Nat
    PROVE  /\ Subscription(phase, n) \in Subscriptions
           /\ Fresh(Subscription(phase, n), n)
  BY DEF Subscription, Subscriptions, Fresh

LEMMA DeliveredFields ==
    ASSUME NEW s \in Subscriptions, NEW r \in Rows
    PROVE  /\ Delivered(s, r) \in Subscriptions
           /\ DeliveredTo(s, Delivered(s, r), r)
           /\ SameTail(s, Delivered(s, r))
           /\ Delivered(s, r).hints = s.hints
<1>1. r.event \in EventIDs
  BY Zenon DEF Rows
<1>2. s.dedup \cup {r.event} \in SUBSET EventIDs
  BY Zenon, <1>1 DEF Subscriptions
<1>3. Append(s.out, r) \in Seq(Rows) /\ Append(s.sent, r) \in Seq(Rows)
  BY DEF Subscriptions
<1> QED
  BY Zenon, <1>2, <1>3 DEF Delivered, DeliveredTo, SameTail, Subscriptions

LEMMA PastRowFields ==
    ASSUME NEW s \in Subscriptions, NEW r \in s.batch
    PROVE  /\ PastRow(s, r) \in Subscriptions
           /\ PastRow(s, r).startPos = s.startPos
           /\ PastRow(s, r).pos = IF r.seq > s.pos THEN r.seq ELSE s.pos
           /\ PastRow(s, r).batch = s.batch \ {r}
           /\ SameChannel(s, PastRow(s, r))
<1>1. r \in Rows /\ r.seq \in Nat
  BY Zenon DEF Subscriptions, Rows, Seqs
<1> QED
  BY Zenon, <1>1 DEF PastRow, SameChannel, Subscriptions

(* t is s but for the batch, the window, the inbox, the channel.           *)
Becomes(s, t, batch, dedup, hints, out) ==
    /\ t \in Subscriptions
    /\ t.startPos = s.startPos /\ t.pos = s.pos /\ t.sent = s.sent
    /\ t.batch = batch /\ t.dedup = dedup /\ t.hints = hints /\ t.out = out

LEMMA NewHints ==
    ASSUME NEW s \in Subscriptions, NEW h \in Seq(Rows)
    PROVE  Becomes(s, [s EXCEPT !.hints = h], s.batch, s.dedup, h, s.out)
  BY Zenon DEF Becomes, Subscriptions

LEMMA NewHintsRead ==
    ASSUME NEW s \in Subscriptions, NEW h \in Seq(Rows)
    PROVE  Becomes(s, [s EXCEPT !.hints = h, !.phase = "read"], s.batch, s.dedup, h, s.out)
  BY Zenon DEF Becomes, Subscriptions

LEMMA NewOut ==
    ASSUME NEW s \in Subscriptions, NEW o \in Seq(Rows)
    PROVE  Becomes(s, [s EXCEPT !.out = o], s.batch, s.dedup, s.hints, o)
  BY Zenon DEF Becomes, Subscriptions

LEMMA NewDedup ==
    ASSUME NEW s \in Subscriptions, NEW d \in SUBSET EventIDs
    PROVE  Becomes(s, [s EXCEPT !.dedup = d], s.batch, d, s.hints, s.out)
  BY Zenon DEF Becomes, Subscriptions

LEMMA NewPhase ==
    ASSUME NEW s \in Subscriptions, NEW p \in {"down", "deaf", "read", "send", "select"}
    PROVE  Becomes(s, [s EXCEPT !.phase = p], s.batch, s.dedup, s.hints, s.out)
  BY Zenon DEF Becomes, Subscriptions

LEMMA NewBatch ==
    ASSUME NEW s \in Subscriptions, NEW p \in {"down", "deaf", "read", "send", "select"},
           NEW b \in SUBSET Rows, NEW f \in BOOLEAN
    PROVE  Becomes(s, [s EXCEPT !.phase = p, !.batch = b, !.full = f],
                  b, s.dedup, s.hints, s.out)
  BY Zenon DEF Becomes, Subscriptions

LEMMA HandleFastPathFacts ==
    ASSUME TypeOK, NEW hint \in mesh, HandleFastPath(hint[1], hint[2])
    PROVE  /\ hint[1] \in Consumers /\ hint[2] \in Rows
           /\ sub' \in [Consumers -> Subscriptions]
           /\ Others(hint[1])
           /\ SameTail(sub[hint[1]], sub'[hint[1]])
           /\ sub'[hint[1]].dedup = sub[hint[1]].dedup
           /\ sub'[hint[1]].out = sub[hint[1]].out
           /\ sub'[hint[1]].sent = sub[hint[1]].sent
           /\ \/ sub'[hint[1]].hints = sub[hint[1]].hints
              \/ sub'[hint[1]].hints = Append(sub[hint[1]].hints, hint[2])
<1> DEFINE c == hint[1]
           r == hint[2]
           t == [sub[c] EXCEPT !.hints = Append(@, r)]
<1>1. c \in Consumers /\ r \in Rows /\ sub \in [Consumers -> Subscriptions]
  BY Zenon DEF TypeOK
<1>2. sub[c] \in Subscriptions
  BY Zenon, <1>1
<1>3. /\ t \in Subscriptions /\ SameTail(sub[c], t) /\ t.dedup = sub[c].dedup
      /\ t.out = sub[c].out /\ t.sent = sub[c].sent /\ t.hints = Append(sub[c].hints, r)
  <2>1. Append(sub[c].hints, r) \in Seq(Rows)
    BY <1>1, <1>2 DEF Subscriptions
  <2> QED
    BY ZenonT(30), <1>2, <2>1, NewHints DEF Becomes, SameTail
<1>4. sub' = sub \/ sub' = [sub EXCEPT ![c] = t]
  BY Zenon DEF HandleFastPath
<1> HIDE DEF t
<1> QED
  BY Zenon, <1>1, <1>3, <1>4 DEF Others, SameTail

LEMMA RestartFacts ==
    ASSUME TypeOK, NEW c \in Consumers, NEW phase \in {"down", "deaf", "read"},
           NEW n \in Nat, sub' = [sub EXCEPT ![c] = Subscription(phase, n)]
    PROVE  sub' \in [Consumers -> Subscriptions] /\ Others(c) /\ Fresh(sub'[c], n)
<1>1. Subscription(phase, n) \in Subscriptions /\ Fresh(Subscription(phase, n), n)
  BY Zenon, FreshSubscription
<1> QED
  BY Zenon, <1>1 DEF TypeOK, Others

(* Read, wait and poll: the channel is left alone.                         *)
LEMMA ReadFacts ==
    ASSUME TypeOK, NEW c \in Consumers, ReadRows(c)
    PROVE  /\ sub' \in [Consumers -> Subscriptions] /\ Others(c)
           /\ sub'[c].startPos = sub[c].startPos /\ sub'[c].pos = sub[c].pos
           /\ sub'[c].batch = NextRows(c) /\ NextRows(c) \in SUBSET Rows
           /\ SameChannel(sub[c], sub'[c])
<1> DEFINE p == IF NextRows(c) = {} THEN "select" ELSE "send"
           f == Cardinality(NextRows(c)) = ReplayBatch
           t == [sub[c] EXCEPT !.phase = p, !.batch = NextRows(c), !.full = f]
<1>1. sub \in [Consumers -> Subscriptions] /\ sub[c] \in Subscriptions
  BY Zenon DEF TypeOK
<1>2. NextRows(c) \in SUBSET Rows
  BY Zenon DEF NextRows, RowsAfter, TypeOK, OutboxTypeOK
<1>3. p \in {"select", "send"} /\ f \in BOOLEAN
  BY Zenon
<1>4. sub' = [sub EXCEPT ![c] = t]
  BY Zenon DEF ReadRows
<1>5. /\ t \in Subscriptions /\ t.startPos = sub[c].startPos /\ t.pos = sub[c].pos
      /\ t.batch = NextRows(c) /\ SameChannel(sub[c], t)
  <2> HIDE DEF p, f
  <2>1. p \in {"down", "deaf", "read", "send", "select"}
    BY Zenon, <1>3
  <2>2. Becomes(sub[c], t, NextRows(c), sub[c].dedup, sub[c].hints, sub[c].out)
    BY Zenon, <1>1, <1>2, <1>3, <2>1, NewBatch
  <2> HIDE DEF t
  <2> QED
    BY Zenon, <2>2 DEF Becomes, SameChannel
<1> HIDE DEF t
<1> QED
  BY Zenon, <1>1, <1>2, <1>4, <1>5 DEF Others

LEMMA WaitFacts ==
    ASSUME TypeOK, NEW c \in Consumers, ReadFails(c) \/ Poll(c)
    PROVE  /\ sub' \in [Consumers -> Subscriptions] /\ Others(c)
           /\ SameTail(sub[c], sub'[c]) /\ SameChannel(sub[c], sub'[c])
<1>1. sub \in [Consumers -> Subscriptions] /\ sub[c] \in Subscriptions
  BY Zenon DEF TypeOK
<1>2. ASSUME NEW p \in {"read", "select"}, sub' = [sub EXCEPT ![c].phase = p]
      PROVE  /\ sub' \in [Consumers -> Subscriptions] /\ Others(c)
             /\ SameTail(sub[c], sub'[c]) /\ SameChannel(sub[c], sub'[c])
  <2> DEFINE t == [sub[c] EXCEPT !.phase = p]
  <2>1. t \in Subscriptions /\ SameTail(sub[c], t) /\ SameChannel(sub[c], t)
    <3>1. p \in {"down", "deaf", "read", "send", "select"}
      BY Zenon
    <3>2. Becomes(sub[c], t, sub[c].batch, sub[c].dedup, sub[c].hints, sub[c].out)
      BY Zenon, <1>1, <3>1, NewPhase
    <3> HIDE DEF t
    <3> QED
      BY Zenon, <3>2 DEF Becomes, SameTail, SameChannel
  <2>2. sub' = [sub EXCEPT ![c] = t]
    BY Zenon, <1>2
  <2> HIDE DEF t
  <2> QED
    BY Zenon, <1>1, <2>1, <2>2 DEF Others
<1> QED
  BY Zenon, <1>2 DEF ReadFails, Poll

LEMMA SendFacts ==
    ASSUME TypeOK, NEW c \in Consumers, SendRow(c)
    PROVE  /\ sub' \in [Consumers -> Subscriptions] /\ Others(c)
           /\ \E r \in sub[c].batch :
                 /\ r \in Rows
                 /\ \A q \in sub[c].batch : r.seq <= q.seq
                 /\ sub'[c].startPos = sub[c].startPos
                 /\ sub'[c].pos = IF r.seq > sub[c].pos THEN r.seq ELSE sub[c].pos
                 /\ sub'[c].batch = sub[c].batch \ {r}
                 /\ sub'[c].hints = sub[c].hints
                 /\ DeliveredTo(sub[c], sub'[c], r)
<1>1. sub \in [Consumers -> Subscriptions] /\ sub[c] \in Subscriptions
  BY DEF TypeOK
<1>2. PICK r \in sub[c].batch :
        /\ \A q \in sub[c].batch : r.seq <= q.seq
        /\ sub' = [sub EXCEPT ![c] = Delivered(PastRow(sub[c], r), r)]
  BY Zenon DEF SendRow
<1> DEFINE p == PastRow(sub[c], r)
           t == Delivered(p, r)
<1>3. r \in Rows
  BY Zenon, <1>1 DEF Subscriptions
<1>4. /\ p \in Subscriptions /\ p.startPos = sub[c].startPos
      /\ p.pos = IF r.seq > sub[c].pos THEN r.seq ELSE sub[c].pos
      /\ p.batch = sub[c].batch \ {r} /\ SameChannel(sub[c], p)
  BY Zenon, <1>1, PastRowFields
<1>5. t \in Subscriptions /\ DeliveredTo(p, t, r) /\ SameTail(p, t) /\ t.hints = p.hints
  <2> HIDE DEF p
  <2> QED
    BY Zenon, <1>3, <1>4, DeliveredFields
<1>6. sub' = [sub EXCEPT ![c] = t]
  BY Zenon, <1>2
<1> HIDE DEF p, t
<1>7. DeliveredTo(sub[c], t, r)
  BY Zenon, <1>4, <1>5 DEF DeliveredTo, SameChannel
<1>8. sub'[c] = t
  BY Zenon, <1>1, <1>6
<1> QED
  BY Zenon, <1>1, <1>2, <1>3, <1>4, <1>5, <1>6, <1>7, <1>8 DEF Others, SameTail, SameChannel

LEMMA TakeHintFacts ==
    ASSUME TypeOK, NEW c \in Consumers, TakeHint(c)
    PROVE  /\ sub' \in [Consumers -> Subscriptions] /\ Others(c)
           /\ sub[c].hints # <<>> /\ Head(sub[c].hints) \in Rows
           /\ SameTail(sub[c], sub'[c])
           /\ sub'[c].hints = Tail(sub[c].hints)
           /\ DeliveredTo(sub[c], sub'[c], Head(sub[c].hints))
<1> DEFINE h == Tail(sub[c].hints)
           r == Head(sub[c].hints)
           p == [sub[c] EXCEPT !.hints = h, !.phase = "read"]
           t == Delivered(p, r)
<1>1. sub \in [Consumers -> Subscriptions] /\ sub[c] \in Subscriptions
  BY DEF TypeOK
<1>2. sub[c].hints # <<>> /\ sub' = [sub EXCEPT ![c] = t]
  BY Zenon DEF TakeHint
<1>3. h \in Seq(Rows) /\ r \in Rows
  BY <1>1, <1>2 DEF Subscriptions
<1>4. /\ p \in Subscriptions /\ SameTail(sub[c], p) /\ p.dedup = sub[c].dedup
      /\ p.out = sub[c].out /\ p.sent = sub[c].sent /\ p.hints = h
  <2> HIDE DEF h
  <2> QED
    BY ZenonT(30), <1>1, <1>3, NewHintsRead DEF Becomes, SameTail
<1>5. t \in Subscriptions /\ DeliveredTo(p, t, r) /\ SameTail(p, t) /\ t.hints = p.hints
  <2> HIDE DEF p, r
  <2> QED
    BY Zenon, <1>3, <1>4, DeliveredFields
<1> HIDE DEF p, t, r, h
<1>6. DeliveredTo(sub[c], t, r) /\ SameTail(sub[c], t)
  BY Zenon, <1>4, <1>5 DEF DeliveredTo, SameTail
<1>7. sub'[c] = t /\ Others(c) /\ sub' \in [Consumers -> Subscriptions]
  BY Zenon, <1>1, <1>2, <1>5 DEF Others
<1> QED
  BY Zenon, <1>2, <1>3, <1>4, <1>5, <1>6, <1>7 DEF r, h

LEMMA ExpiryFacts ==
    ASSUME TypeOK, NEW c \in Consumers, NEW e \in EventIDs, WindowExpires(c, e)
    PROVE  /\ sub' \in [Consumers -> Subscriptions] /\ Others(c)
           /\ SameTail(sub[c], sub'[c])
           /\ sub'[c].dedup = sub[c].dedup \ {e} /\ sub'[c].hints = sub[c].hints
           /\ sub'[c].out = sub[c].out /\ sub'[c].sent = sub[c].sent
<1> DEFINE d == sub[c].dedup \ {e}
           t == [sub[c] EXCEPT !.dedup = d]
<1>1. sub \in [Consumers -> Subscriptions] /\ sub[c] \in Subscriptions
  BY Zenon DEF TypeOK
<1>2. d \in SUBSET EventIDs
  BY Zenon, <1>1 DEF Subscriptions
<1>3. /\ t \in Subscriptions /\ SameTail(sub[c], t) /\ t.dedup = d
      /\ t.hints = sub[c].hints /\ t.out = sub[c].out /\ t.sent = sub[c].sent
  <2> HIDE DEF d
  <2> QED
    BY <1>1, <1>2, NewDedup DEF Becomes, SameTail
<1>4. sub' = [sub EXCEPT ![c] = t]
  BY Zenon DEF WindowExpires
<1> HIDE DEF t
<1> QED
  BY Zenon, <1>1, <1>3, <1>4 DEF Others

LEMMA ConsumeFacts ==
    ASSUME TypeOK, NEW c \in Consumers, NEW acked \in BOOLEAN, Consume(c, acked)
    PROVE  /\ sub' \in [Consumers -> Subscriptions] /\ Others(c)
           /\ SameTail(sub[c], sub'[c])
           /\ sub'[c].dedup = sub[c].dedup /\ sub'[c].hints = sub[c].hints
           /\ sub[c].out # <<>> /\ Head(sub[c].out) \in Rows
           /\ sub'[c].out = Tail(sub[c].out) /\ sub'[c].sent = sub[c].sent
<1> DEFINE o == Tail(sub[c].out)
           t == [sub[c] EXCEPT !.out = o]
<1>1. sub \in [Consumers -> Subscriptions] /\ sub[c] \in Subscriptions
  BY Zenon DEF TypeOK
<1>2. sub[c].out # <<>> /\ sub' = [sub EXCEPT ![c] = t]
  BY Zenon DEF Consume
<1>3. o \in Seq(Rows) /\ Head(sub[c].out) \in Rows
  BY <1>1, <1>2 DEF Subscriptions
<1>4. /\ t \in Subscriptions /\ SameTail(sub[c], t) /\ t.dedup = sub[c].dedup
      /\ t.hints = sub[c].hints /\ t.out = o /\ t.sent = sub[c].sent
  <2> HIDE DEF o
  <2> QED
    BY <1>1, <1>3, NewOut DEF Becomes, SameTail
<1> HIDE DEF t
<1> QED
  BY Zenon, <1>1, <1>2, <1>3, <1>4 DEF Others

(* Subscribe leaves the replica at the cursor it has, or is given, now.    *)
LEMMA SubscribeFacts ==
    ASSUME TypeOK, NEW c \in Consumers, Subscribe(c)
    PROVE  \E n \in Nat :
              /\ n = IF cursor[RunKey][c] = NoCursor THEN Top ELSE cursor[RunKey][c]
              /\ sub' \in [Consumers -> Subscriptions] /\ Others(c) /\ Fresh(sub'[c], n)
              /\ outbox' = outbox /\ nextSeq' = nextSeq
              /\ cursor' \in [Keys -> [Consumers -> Nat \cup {NoCursor}]]
              /\ cursor'[RunKey][c] = n
              /\ \A d \in Consumers : d # c => cursor'[RunKey][d] = cursor[RunKey][d]
              /\ joined' = [joined EXCEPT ![c] = IF @ = NoCursor THEN n ELSE @]
<1> DEFINE stored == cursor[RunKey][c]
           n == IF stored = NoCursor THEN Top ELSE stored
<1>1. /\ cursor \in [Keys -> [Consumers -> Nat \cup {NoCursor}]] /\ RunKey \in Keys
      /\ Top \in Nat
  BY Zenon, RunKeyAssumption DEF TypeOK, OutboxTypeOK, Top
<1>2. n \in Nat
  BY Zenon, <1>1
<1>3. /\ sub' = [sub EXCEPT ![c] = Subscription("read", n)]
      /\ joined' = [joined EXCEPT ![c] = IF @ = NoCursor THEN n ELSE @]
  BY Zenon DEF Subscribe, Top
<1>4. sub' \in [Consumers -> Subscriptions] /\ Others(c) /\ Fresh(sub'[c], n)
  <2> HIDE DEF n
  <2> QED
    BY Zenon, <1>2, <1>3, RestartFacts
<1>5. /\ outbox' = outbox /\ nextSeq' = nextSeq
      /\ cursor' = cursor \/ cursor' = [cursor EXCEPT ![RunKey][c] = Top]
      /\ stored # NoCursor => cursor' = cursor
      /\ stored = NoCursor => cursor' = [cursor EXCEPT ![RunKey][c] = Top]
  BY Zenon DEF Subscribe, PinCursor, outboxVars, Top
<1>6. /\ cursor' \in [Keys -> [Consumers -> Nat \cup {NoCursor}]]
      /\ cursor'[RunKey][c] = n
      /\ \A d \in Consumers : d # c => cursor'[RunKey][d] = cursor[RunKey][d]
  BY <1>1, <1>5
<1> QED
  BY Zenon, <1>2, <1>3, <1>4, <1>5, <1>6

LEMMA PublishFacts ==
    ASSUME TypeOK, NEW e \in EventIDs, NEW peers \in SUBSET Consumers, Publish(e, peers)
    PROVE  \E r \in Rows :
              /\ r.key = RunKey /\ r.seq = Top + 1 /\ r.event = e
              /\ ~Produced(e)
              /\ outbox' = outbox \cup {r} /\ Top' = Top + 1
              /\ nextSeq' \in [Keys -> Nat] /\ cursor' = cursor /\ sub' = sub
              /\ mesh' = mesh \cup (peers \X {r})
              /\ ~MeshWired => peers = {}
<1> DEFINE r == Row(RunKey, Top + 1, e)
<1>1. nextSeq \in [Keys -> Nat] /\ RunKey \in Keys /\ Top \in Nat
  BY Zenon, RunKeyAssumption DEF TypeOK, OutboxTypeOK, Top
<1>2. r \in Rows /\ r.key = RunKey /\ r.seq = Top + 1 /\ r.event = e
  BY <1>1 DEF Row, Rows, Seqs
<1>3. /\ nextSeq' = [nextSeq EXCEPT ![RunKey] = @ + 1] /\ outbox' = outbox \cup {r}
      /\ cursor' = cursor /\ sub' = sub /\ mesh' = mesh \cup (peers \X {r})
      /\ ~Produced(e) /\ (~MeshWired => peers = {})
  BY Zenon DEF Publish, AppendRow, Top
<1>4. nextSeq' \in [Keys -> Nat] /\ Top' = Top + 1
  BY <1>1, <1>3 DEF Top
<1> HIDE DEF r
<1> QED
  BY Zenon, <1>2, <1>3, <1>4

LEMMA ConsumeCursor ==
    ASSUME TypeOK, NEW c \in Consumers, NEW acked \in BOOLEAN, Consume(c, acked)
    PROVE  /\ outbox' = outbox /\ nextSeq' = nextSeq
           /\ cursor' \in [Keys -> [Consumers -> Nat \cup {NoCursor}]]
           /\ \A d \in Consumers : d # c => cursor'[RunKey][d] = cursor[RunKey][d]
           /\ \/ cursor'[RunKey][c] = cursor[RunKey][c]
              \/ cursor'[RunKey][c] = Head(sub[c].out).seq
<1> DEFINE r == Head(sub[c].out)
<1>1. cursor \in [Keys -> [Consumers -> Nat \cup {NoCursor}]] /\ RunKey \in Keys
  BY Zenon, RunKeyAssumption DEF TypeOK, OutboxTypeOK
<1>2. r \in Rows /\ r.seq \in Nat
  BY Zenon, ConsumeFacts DEF Rows, Seqs
<1>3. /\ outbox' = outbox /\ nextSeq' = nextSeq
      /\ \/ cursor' = cursor
         \/ cursor' = [cursor EXCEPT ![RunKey][c] = Advanced(@, r.seq)]
  BY Zenon DEF Consume, SaveCursor, outboxVars
<1> HIDE DEF r
<1>4. /\ Advanced(cursor[RunKey][c], r.seq) \in Nat \cup {NoCursor}
      /\ \/ Advanced(cursor[RunKey][c], r.seq) = cursor[RunKey][c]
         \/ Advanced(cursor[RunKey][c], r.seq) = r.seq
  BY Zenon, <1>1, <1>2 DEF Advanced
<1> QED
  BY <1>1, <1>3, <1>4 DEF r

-----------------------------------------------------------------------------
(* Types                                                                   *)

LEMMA TypeInit == Init => TypeOK
<1> SUFFICES ASSUME Init PROVE TypeOK
  BY Zenon
<1>1. OutboxTypeOK
  BY Zenon DEF Init, OutboxInit, OutboxTypeOK
<1>2. sub \in [Consumers -> Subscriptions]
  BY Zenon, FreshSubscription DEF Init
<1>3. spent \in [crashes : 0 .. MaxCrashes, expiries : 0 .. MaxExpiries,
                 elapses : 0 .. MaxElapses]
  BY BoundsAssumption DEF Init
<1> QED
  BY Zenon, <1>1, <1>2, <1>3 DEF Init, TypeOK

LEMMA TypeStep == TypeOK /\ [Next]_vars => TypeOK'
<1> SUFFICES ASSUME TypeOK, [Next]_vars PROVE TypeOK'
  BY Zenon
<1> USE DEF TypeOK, OutboxTypeOK, outboxVars
<1>1. ASSUME NEW e \in EventIDs, NEW peers \in SUBSET Consumers, Publish(e, peers)
      PROVE  TypeOK'
  <2>1. PICK r \in Rows :
          /\ outbox' = outbox \cup {r} /\ nextSeq' \in [Keys -> Nat] /\ cursor' = cursor
          /\ sub' = sub /\ mesh' = mesh \cup (peers \X {r})
    BY SMTT(30), <1>1, PublishFacts
  <2>2. handled' \in [Consumers -> SUBSET EventIDs]
    BY Zenon, <1>1 DEF Publish, OnLocalBus
  <2> QED
    BY Zenon, <1>1, <2>1, <2>2 DEF Publish
<1>2. ASSUME NEW e \in EventIDs, PublishFails(e) PROVE TypeOK'
  BY Zenon, <1>2 DEF PublishFails, OnLocalBus
<1>3. ASSUME NEW hint \in mesh, HandleFastPath(hint[1], hint[2]) PROVE TypeOK'
  <2>1. sub' \in [Consumers -> Subscriptions]
    BY Zenon, <1>3, HandleFastPathFacts
  <2> QED
    BY Zenon, <1>3, <2>1 DEF HandleFastPath
<1>4. ASSUME NEW c \in Consumers, Subscribe(c) PROVE TypeOK'
  <2>1. PICK n \in Nat :
          /\ sub' \in [Consumers -> Subscriptions]
          /\ outbox' = outbox /\ nextSeq' = nextSeq
          /\ cursor' \in [Keys -> [Consumers -> Nat \cup {NoCursor}]]
          /\ joined' = [joined EXCEPT ![c] = IF @ = NoCursor THEN n ELSE @]
    BY Zenon, <1>4, SubscribeFacts
  <2>2. joined' \in [Consumers -> Nat \cup {NoCursor}]
    BY Zenon, <2>1
  <2>3. old' \in [rows : SUBSET Rows, cursors : SUBSET Consumers]
    BY Zenon, <1>4 DEF Subscribe
  <2> QED
    BY Zenon, <1>4, <2>1, <2>2, <2>3 DEF Subscribe
<1>5. ASSUME NEW c \in Consumers, SubscribeFails(c) PROVE TypeOK'
  <2>1. sub' \in [Consumers -> Subscriptions]
    BY Zenon, <1>5, RestartFacts DEF SubscribeFails
  <2> QED
    BY Zenon, <1>5, <2>1 DEF SubscribeFails
<1>6. ASSUME NEW c \in Consumers, Crash(c) PROVE TypeOK'
  <2>1. sub' \in [Consumers -> Subscriptions]
    BY Zenon, <1>6, RestartFacts DEF Crash
  <2>2. spent' \in [crashes : 0 .. MaxCrashes, expiries : 0 .. MaxExpiries,
                    elapses : 0 .. MaxElapses]
    BY <1>6, BoundsAssumption DEF Crash
  <2> QED
    BY Zenon, <1>6, <2>1, <2>2 DEF Crash
<1>7. ASSUME NEW c \in Consumers, Tailing(c) \/ ReadFails(c) PROVE TypeOK'
  <2>1. sub' \in [Consumers -> Subscriptions]
    BY Zenon, <1>7, ReadFacts, WaitFacts, SendFacts DEF Tailing
  <2> QED
    BY Zenon, <1>7, <2>1 DEF Tailing, ReadFails, ReadRows, SendRow, Poll
<1>8. ASSUME NEW c \in Consumers, TakeHint(c) PROVE TypeOK'
  <2>1. sub' \in [Consumers -> Subscriptions]
    BY Zenon, <1>8, TakeHintFacts
  <2> QED
    BY Zenon, <1>8, <2>1 DEF TakeHint
<1>9. ASSUME NEW c \in Consumers, NEW e \in EventIDs, WindowExpires(c, e) PROVE TypeOK'
  <2>1. sub' \in [Consumers -> Subscriptions]
    BY Zenon, <1>9, ExpiryFacts
  <2>2. spent' \in [crashes : 0 .. MaxCrashes, expiries : 0 .. MaxExpiries,
                    elapses : 0 .. MaxElapses]
    BY <1>9, BoundsAssumption DEF WindowExpires
  <2> QED
    BY Zenon, <1>9, <2>1, <2>2 DEF WindowExpires
<1>10. ASSUME NEW c \in Consumers, NEW acked \in BOOLEAN, Consume(c, acked) PROVE TypeOK'
  <2>1. sub' \in [Consumers -> Subscriptions] /\ Head(sub[c].out) \in Rows
    BY Zenon, <1>10, ConsumeFacts
  <2>2. /\ outbox' = outbox /\ nextSeq' = nextSeq
        /\ cursor' \in [Keys -> [Consumers -> Nat \cup {NoCursor}]]
    BY Zenon, <1>10, ConsumeCursor
  <2>3. handled' \in [Consumers -> SUBSET EventIDs]
    BY Zenon, <1>10, <2>1 DEF Consume, Rows
  <2>4. old' \in [rows : SUBSET Rows, cursors : SUBSET Consumers]
    <3>1. old' = old \/ old' = [old EXCEPT !.cursors = @ \ {c}]
      BY Zenon, <1>10 DEF Consume
    <3>2. old \in [rows : SUBSET Rows, cursors : SUBSET Consumers]
      BY Zenon
    <3> QED
      BY <3>1, <3>2
  <2> QED
    BY Zenon, <1>10, <2>1, <2>2, <2>3, <2>4 DEF Consume
<1>11. CASE RetentionElapses
  <2>1. spent' \in [crashes : 0 .. MaxCrashes, expiries : 0 .. MaxExpiries,
                    elapses : 0 .. MaxElapses]
    BY <1>11, BoundsAssumption DEF RetentionElapses
  <2> QED
    BY Zenon, <1>11, <2>1 DEF RetentionElapses
<1>12. CASE SweepOutbox
  BY Zenon, <1>12 DEF SweepOutbox, SweepRows
<1>13. CASE SweepCursor
  BY ZenonT(30), <1>13 DEF SweepCursor, SweepCursors
<1>14. CASE UNCHANGED vars
  BY Zenon, <1>14 DEF vars
<1> QED
  BY ZenonT(30), <1>1, <1>2, <1>3, <1>4, <1>5, <1>6, <1>7, <1>8, <1>9, <1>10, <1>11, <1>12, <1>13,
     <1>14 DEF Next

(* Every reachable state of the substrate is well typed: in particular a   *)
(* subscription always starts from a cursor that was written (Subscribe,   *)
(* EnsureCursor).                                                          *)
THEOREM TypeCorrect == Spec => []TypeOK
  BY TypeInit, TypeStep, PTL DEF Spec

-----------------------------------------------------------------------------
(* The log, and what the tails hold of it                                  *)

LEMMA AppendElements ==
    ASSUME NEW q \in Seq(Rows), NEW r \in Rows
    PROVE  /\ Len(q) \in Nat /\ Len(Append(q, r)) = Len(q) + 1
           /\ Append(q, r)[Len(q) + 1] = r
           /\ \A i \in 1 .. Len(q) : Append(q, r)[i] = q[i]
           /\ \A i \in 1 .. Len(Append(q, r)) : i \in 1 .. Len(q) \/ i = Len(q) + 1
  OBVIOUS

LEMMA TailElements ==
    ASSUME NEW q \in Seq(Rows), q # <<>>
    PROVE  /\ Tail(q) \in Seq(Rows) /\ Len(q) \in Nat /\ 1 \in 1 .. Len(q)
           /\ Len(Tail(q)) = Len(q) - 1 /\ Head(q) = q[1]
           /\ \A i \in 1 .. Len(Tail(q)) : i + 1 \in 1 .. Len(q) /\ Tail(q)[i] = q[i + 1]
           /\ \A i \in 1 .. Len(q) : i = 1 \/ (i - 1 \in 1 .. Len(Tail(q)) /\ Tail(q)[i - 1] = q[i])
<1>1. /\ Tail(q) \in Seq(Rows) /\ Len(q) \in Nat /\ Len(q) > 0
      /\ Len(Tail(q)) = Len(q) - 1 /\ Head(q) = q[1]
      /\ \A i \in 1 .. Len(q) - 1 : Tail(q)[i] = q[i + 1]
  OBVIOUS
<1>2. \A i \in 1 .. Len(q) : i = 1 \/ i - 1 \in 1 .. Len(q) - 1
  BY <1>1
<1>3. \A i \in 1 .. Len(q) : i = 1 \/ Tail(q)[i - 1] = q[i]
  BY <1>1, <1>2
<1> QED
  BY <1>1, <1>2, <1>3

LEMMA SentGrows ==
    ASSUME NEW s \in Subscriptions, NEW t \in Subscriptions, NEW r \in Rows,
           DeliveredTo(s, t, r), \A e \in s.dedup : Sent(s, e)
    PROVE  /\ \A e \in EventIDs : Sent(s, e) => Sent(t, e)
           /\ \A e \in t.dedup : Sent(t, e)
           /\ Sent(t, r.event)
<1>1. CASE r.event \in s.dedup
  BY ZenonT(30), <1>1 DEF DeliveredTo, Sent
<1>2. CASE r.event \notin s.dedup
  <2>1. t.sent = Append(s.sent, r) /\ t.dedup = s.dedup \cup {r.event}
    BY Zenon, <1>2 DEF DeliveredTo
  <2>2. s.sent \in Seq(Rows) /\ Len(s.sent) \in Nat
    BY DEF Subscriptions
  <2>3. /\ Len(t.sent) = Len(s.sent) + 1 /\ t.sent[Len(s.sent) + 1] = r
        /\ \A i \in 1 .. Len(s.sent) : t.sent[i] = s.sent[i]
    BY <2>1, <2>2, AppendElements
  <2>4. Sent(t, r.event)
    BY <2>2, <2>3 DEF Sent
  <2>5. \A e : Sent(s, e) => Sent(t, e)
    BY <2>2, <2>3 DEF Sent
  <2> QED
    BY Zenon, <2>1, <2>4, <2>5
<1> QED
  BY Zenon, <1>1, <1>2

LEMMA RowFields == \A r \in Rows : r.seq \in Nat /\ r.seq > 0 /\ r.event \in EventIDs
  BY DEF Rows, Seqs

LEMMA SubFields ==
    ASSUME NEW s \in Subscriptions
    PROVE  /\ s.pos \in Nat /\ s.startPos \in Nat /\ s.batch \subseteq Rows
           /\ s.dedup \subseteq EventIDs
           /\ s.hints \in Seq(Rows) /\ s.out \in Seq(Rows) /\ s.sent \in Seq(Rows)
           /\ Len(s.hints) \in Nat /\ Len(s.out) \in Nat /\ Len(s.sent) \in Nat
           /\ \A i \in 1 .. Len(s.hints) : s.hints[i] \in Rows /\ s.hints[i].seq \in Nat
           /\ \A i \in 1 .. Len(s.out) : s.out[i] \in Rows /\ s.out[i].seq \in Nat
           /\ \A i \in 1 .. Len(s.sent) : s.sent[i] \in Rows /\ s.sent[i].seq \in Nat
           /\ \A b \in s.batch : b.seq \in Nat
<1>1. /\ s.pos \in Nat /\ s.startPos \in Nat /\ s.batch \subseteq Rows
      /\ s.dedup \subseteq EventIDs
      /\ s.hints \in Seq(Rows) /\ s.out \in Seq(Rows) /\ s.sent \in Seq(Rows)
  BY Zenon DEF Subscriptions
<1>2. ASSUME NEW q \in Seq(Rows)
      PROVE  Len(q) \in Nat /\ \A i \in 1 .. Len(q) : q[i] \in Rows /\ q[i].seq \in Nat
  BY RowFields
<1> QED
  BY Zenon, <1>1, <1>2, RowFields

LEMMA LogGrows ==
    ASSUME NEW s \in Subscriptions, NEW n \in Nat, NEW log \in SUBSET Rows,
           NEW r \in Rows, r.seq = n + 1, TailOf(s, n, log)
    PROVE  TailOf(s, n + 1, log \cup {r})
<1>1. WithinLog(s, n + 1)
  BY SMTT(30), SubFields DEF TailOf, WithinLog
<1>2. BatchDense(s, log \cup {r})
  BY SubFields DEF TailOf, WithinLog, BatchDense
<1>3. PassedSent(s, log \cup {r})
  BY SubFields DEF TailOf, WithinLog, PassedSent
<1> QED
  BY Zenon, <1>1, <1>2, <1>3 DEF TailOf

LEMMA LogShrinks ==
    ASSUME NEW s, NEW n, NEW log, NEW less \in SUBSET log, TailOf(s, n, log)
    PROVE  TailOf(s, n, less)
  BY Zenon DEF TailOf, BatchDense, PassedSent

LEMMA FreshTail ==
    ASSUME NEW t, NEW m \in Nat, NEW n \in Nat, m <= n, NEW log \in SUBSET Rows, Fresh(t, m)
    PROVE  TailOf(t, n, log)
<1>1. WithinLog(t, n) /\ BatchDense(t, log)
  BY DEF Fresh, WithinLog, BatchDense
<1>2. PassedSent(t, log)
  BY RowFields DEF Fresh, PassedSent
<1> QED
  BY Zenon, <1>1, <1>2 DEF TailOf

(* One row of a batch goes out: the rows it lets the position pass are     *)
(* itself only.                                                            *)
LEMMA SendTail ==
    ASSUME NEW s \in Subscriptions, NEW t \in Subscriptions, NEW n \in Nat,
           NEW log \in SUBSET Rows, TailOf(s, n, log), NEW r \in s.batch,
           \A q \in s.batch : r.seq <= q.seq,
           t.startPos = s.startPos,
           t.pos = IF r.seq > s.pos THEN r.seq ELSE s.pos,
           t.batch = s.batch \ {r}, t.hints = s.hints, DeliveredTo(s, t, r)
    PROVE  TailOf(t, n, log)
<1>1. r \in Rows /\ r.seq \in Nat /\ r.seq <= n
  BY Zenon, SubFields DEF TailOf, WithinLog
<1>2. /\ \A e \in EventIDs : Sent(s, e) => Sent(t, e)
      /\ \A e \in t.dedup : Sent(t, e)
      /\ Sent(t, r.event)
  BY Zenon, <1>1, SentGrows DEF TailOf, PassedSent
<1>3. s.pos \in Nat /\ s.pos <= t.pos /\ t.pos <= n /\ t.pos \in Nat
  BY <1>1, SubFields DEF TailOf, WithinLog
<1>4. \A i \in 1 .. Len(t.out) : t.out[i].seq <= n
  <2>1. CASE t.out = s.out
    BY Zenon, <2>1 DEF TailOf, WithinLog
  <2>2. CASE t.out = Append(s.out, r)
    <3>1. s.out \in Seq(Rows) /\ \A i \in 1 .. Len(s.out) : s.out[i].seq <= n
      BY Zenon, SubFields DEF TailOf, WithinLog
    <3> SUFFICES ASSUME NEW i \in 1 .. Len(t.out) PROVE t.out[i].seq <= n
      BY Zenon
    <3> QED
      BY <1>1, <2>2, <3>1, AppendElements
  <2> QED
    BY Zenon, <2>1, <2>2 DEF DeliveredTo
<1>5. WithinLog(t, n)
  BY Zenon, <1>3, <1>4 DEF TailOf, WithinLog
<1>6. BatchDense(t, log)
  <2>1. \A b, q \in t.batch : b.seq = q.seq => b = q
    BY Zenon DEF TailOf, BatchDense
  <2>2. ASSUME NEW b \in t.batch, NEW q \in log, t.pos < q.seq, q.seq <= b.seq
        PROVE  q \in t.batch
    <3>1. q.seq \in Nat
      BY Zenon, RowFields
    <3>2. q \in s.batch
      BY <1>3, <2>2, <3>1 DEF TailOf, BatchDense
    <3>3. q # r
      BY <1>1, <1>3, <2>2, <3>1
    <3> QED
      BY Zenon, <3>2, <3>3
  <2> QED
    BY Zenon, <2>1, <2>2 DEF BatchDense
<1>7. PassedSent(t, log)
  <2> SUFFICES ASSUME NEW q \in log, t.startPos < q.seq, q.seq <= t.pos
               PROVE  Sent(t, q.event)
    BY Zenon, <1>2 DEF PassedSent
  <2>1. q.seq \in Nat /\ q.event \in EventIDs
    BY Zenon, RowFields
  <2>2. CASE q.seq <= s.pos
    BY Zenon, <1>2, <2>1, <2>2 DEF TailOf, PassedSent
  <2>3. CASE q.seq > s.pos
    <3>1. q.seq <= r.seq
      BY <1>1, <1>3, <2>1, <2>3
    <3>2. q \in s.batch
      BY ZenonT(30), <1>3, <2>1, <2>3, <3>1 DEF TailOf, BatchDense
    <3>3. q = r
      BY <1>1, <2>1, <3>1, <3>2 DEF TailOf, BatchDense
    <3> QED
      BY Zenon, <1>2, <3>3
  <2> QED
    BY <1>3, <2>1, <2>2, <2>3
<1> QED
  BY Zenon, <1>5, <1>6, <1>7 DEF TailOf

LEMMA HintTail ==
    ASSUME NEW s \in Subscriptions, NEW t \in Subscriptions, NEW n \in Nat,
           NEW log \in SUBSET Rows, TailOf(s, n, log), s.hints # <<>>,
           SameTail(s, t), t.hints = Tail(s.hints), DeliveredTo(s, t, Head(s.hints))
    PROVE  TailOf(t, n, log)
<1> DEFINE r == Head(s.hints)
<1>1. s.hints \in Seq(Rows) /\ \A i \in 1 .. Len(s.hints) : s.hints[i].seq <= n
  BY Zenon, SubFields DEF TailOf, WithinLog
<1>2. r \in Rows /\ r.seq <= n
  BY <1>1, TailElements
<1>3. \A i \in 1 .. Len(t.hints) : t.hints[i].seq <= n
  BY <1>1, TailElements
<1> HIDE DEF r
<1>4. \A i \in 1 .. Len(t.out) : t.out[i].seq <= n
  <2>1. s.out \in Seq(Rows) /\ \A i \in 1 .. Len(s.out) : s.out[i].seq <= n
    BY Zenon, SubFields DEF TailOf, WithinLog
  <2>2. t.out = s.out \/ t.out = Append(s.out, r)
    BY Zenon DEF DeliveredTo, r
  <2>3. CASE t.out = s.out
    BY Zenon, <2>1, <2>3
  <2>4. CASE t.out = Append(s.out, r)
    <3> SUFFICES ASSUME NEW i \in 1 .. Len(t.out) PROVE t.out[i].seq <= n
      BY Zenon
    <3>1. i \in 1 .. Len(s.out) \/ i = Len(s.out) + 1
      BY Zenon, <1>2, <2>1, <2>4, AppendElements
    <3>2. \A j \in 1 .. Len(s.out) : t.out[j] = s.out[j]
      BY SMTT(30), <1>2, <2>1, <2>4, AppendElements
    <3>3. t.out[Len(s.out) + 1] = r
      BY SMTT(30), <1>2, <2>1, <2>4, AppendElements
    <3> QED
      BY Zenon, <1>2, <2>1, <3>1, <3>2, <3>3
  <2> QED
    BY Zenon, <2>2, <2>3, <2>4
<1>5. WithinLog(t, n) /\ BatchDense(t, log)
  BY Zenon, <1>3, <1>4 DEF TailOf, WithinLog, BatchDense, SameTail
<1>6. /\ \A e \in EventIDs : Sent(s, e) => Sent(t, e)
      /\ \A e \in t.dedup : Sent(t, e)
  BY Zenon, <1>2, SentGrows DEF TailOf, PassedSent, r
<1>7. PassedSent(t, log)
  BY Zenon, <1>6, RowFields DEF TailOf, PassedSent, SameTail
<1> QED
  BY Zenon, <1>5, <1>7 DEF TailOf

(* A batch just read: the first rows past the position, none left out.     *)
LEMMA NextRowsDense ==
    ASSUME BatchesDense, NEW c \in Consumers
    PROVE  /\ NextRows(c) \subseteq outbox
           /\ \A b \in NextRows(c) : b.seq > sub[c].pos
           /\ \A b \in NextRows(c), q \in outbox :
                 (sub[c].pos < q.seq /\ q.seq <= b.seq) => q \in NextRows(c)
BY Zenon DEF BatchesDense

LEMMA LogStep == TypeOK /\ LogInv /\ TailInv /\ [Next]_vars => LogInv'
<1> SUFFICES ASSUME TypeOK, LogInv, TailInv, [Next]_vars PROVE LogInv'
  BY Zenon
<1> DEFINE Quiet == /\ outbox' = outbox /\ nextSeq' = nextSeq
                    /\ mesh' \subseteq mesh
<1>1. Top \in Nat /\ outbox \subseteq Rows /\ mesh \subseteq (Consumers \X Rows)
  BY Zenon, RunKeyAssumption DEF Top, TypeOK, OutboxTypeOK
<1>2. ASSUME Quiet, \A c \in Consumers : cursor'[RunKey][c] # NoCursor =>
                       cursor'[RunKey][c] <= Top
      PROVE  LogInv'
  BY Zenon, <1>2 DEF LogInv, Top
<1>3. ASSUME NEW e \in EventIDs, NEW peers \in SUBSET Consumers, Publish(e, peers)
      PROVE  LogInv'
  <2>1. PICK r \in Rows :
          /\ r.key = RunKey /\ r.seq = Top + 1
          /\ outbox' = outbox \cup {r} /\ Top' = Top + 1 /\ cursor' = cursor
          /\ mesh' = mesh \cup (peers \X {r})
    BY <1>3, PublishFacts
  <2>3. \A q \in outbox : q.seq \in Nat /\ q.seq <= Top
    BY Zenon, <1>1, RowFields DEF LogInv
  <2>4. /\ \A q \in outbox' : q.key = RunKey /\ q.seq <= Top'
        /\ \A p, q \in outbox' : p.seq = q.seq => p = q
    BY <1>1, <2>1, <2>3 DEF LogInv
  <2>5. \A hint \in mesh' : hint[2].seq <= Top'
    <3> SUFFICES ASSUME NEW hint \in mesh' PROVE hint[2].seq <= Top'
      BY Zenon
    <3>1. CASE hint \in mesh
      <4>1. hint[2].seq \in Nat /\ hint[2].seq <= Top
        BY Zenon, <1>1, <3>1, RowFields DEF LogInv
      <4> QED
        BY <1>1, <2>1, <4>1
    <3>2. CASE hint \in peers \X {r}
      <4>1. hint[2] = r
        BY Zenon, <3>2
      <4> QED
        BY <1>1, <2>1, <4>1
    <3> QED
      BY Zenon, <2>1, <3>1, <3>2
  <2>6. \A c \in Consumers : cursor'[RunKey][c] # NoCursor => cursor'[RunKey][c] <= Top'
    <3> SUFFICES ASSUME NEW c \in Consumers, cursor[RunKey][c] # NoCursor
                 PROVE  cursor[RunKey][c] <= Top + 1
      BY Zenon, <2>1
    <3>1. cursor[RunKey][c] \in Nat /\ cursor[RunKey][c] <= Top
      BY RunKeyAssumption DEF LogInv, TypeOK, OutboxTypeOK
    <3> QED
      BY <1>1, <3>1
  <2> QED
    BY Zenon, <2>4, <2>5, <2>6 DEF LogInv
<1>4. CASE Quiet /\ cursor' = cursor
  BY Zenon, <1>2, <1>4 DEF LogInv
<1>5. ASSUME NEW c \in Consumers, Subscribe(c) PROVE LogInv'
  <2>1. PICK n \in Nat :
          /\ n = IF cursor[RunKey][c] = NoCursor THEN Top ELSE cursor[RunKey][c]
          /\ outbox' = outbox /\ nextSeq' = nextSeq /\ cursor'[RunKey][c] = n
          /\ \A d \in Consumers : d # c => cursor'[RunKey][d] = cursor[RunKey][d]
    BY Zenon, <1>5, SubscribeFacts
  <2>2. n <= Top
    BY <1>1, <2>1 DEF LogInv
  <2>3. Quiet
    BY Zenon, <1>5, <2>1 DEF Subscribe
  <2> QED
    BY Zenon, <1>2, <2>1, <2>2, <2>3 DEF LogInv
<1>6. ASSUME NEW c \in Consumers, NEW acked \in BOOLEAN, Consume(c, acked) PROVE LogInv'
  <2>1. /\ outbox' = outbox /\ nextSeq' = nextSeq
        /\ \A d \in Consumers : d # c => cursor'[RunKey][d] = cursor[RunKey][d]
        /\ \/ cursor'[RunKey][c] = cursor[RunKey][c]
           \/ cursor'[RunKey][c] = Head(sub[c].out).seq
    BY Zenon, <1>6, ConsumeCursor
  <2>2. sub[c] \in Subscriptions /\ sub[c].out # <<>> /\ sub[c].out \in Seq(Rows)
    BY Zenon, <1>6, ConsumeFacts DEF TypeOK, Subscriptions
  <2>3. Head(sub[c].out).seq <= Top
    BY Zenon, <2>2, TailElements DEF TailInv, TailOf, WithinLog
  <2>4. Quiet
    BY Zenon, <1>6, <2>1 DEF Consume
  <2> QED
    BY Zenon, <1>2, <2>1, <2>3, <2>4 DEF LogInv
<1>7. CASE SweepOutbox
  <2>1. outbox' \subseteq outbox /\ nextSeq' = nextSeq /\ cursor' = cursor /\ mesh' = mesh
    BY Zenon, <1>7 DEF SweepOutbox, SweepRows
  <2> QED
    BY Zenon, <2>1 DEF LogInv, Top
<1>8. CASE SweepCursor
  <2>1. Quiet /\ \A c \in Consumers : cursor'[RunKey][c] \in {NoCursor, cursor[RunKey][c]}
    BY Zenon, <1>8, RunKeyAssumption DEF SweepCursor, SweepCursors
  <2> QED
    BY Zenon, <1>2, <2>1 DEF LogInv
<1>9. ASSUME NEW hint \in mesh, HandleFastPath(hint[1], hint[2]) PROVE Quiet /\ cursor' = cursor
  BY Zenon, <1>9 DEF HandleFastPath, outboxVars
<1> QED
  BY ZenonT(30), <1>3, <1>4, <1>5, <1>6, <1>7, <1>8, <1>9
  DEF Next, vars, outboxVars, PublishFails, SubscribeFails, Crash, Tailing, ReadRows,
      SendRow, Poll, ReadFails, TakeHint, WindowExpires, RetentionElapses

LEMMA TailStep == TypeOK /\ LogInv /\ TailInv /\ BatchesDense /\ [Next]_vars => TailInv'
<1> SUFFICES ASSUME TypeOK, LogInv, TailInv, BatchesDense, [Next]_vars, NEW c \in Consumers
             PROVE  TailOf(sub'[c], Top', outbox')
  BY Zenon DEF TailInv
<1>1. /\ Top \in Nat /\ outbox \in SUBSET Rows /\ sub[c] \in Subscriptions
      /\ TailOf(sub[c], Top, outbox)
  BY Zenon, RunKeyAssumption DEF Top, TypeOK, OutboxTypeOK, TailInv
<1>2. sub' \in [Consumers -> Subscriptions]
  BY Zenon, TypeStep DEF TypeOK
<1>3. sub'[c] \in Subscriptions
  BY Zenon, <1>2
<1> DEFINE SameLog == outbox' = outbox /\ nextSeq' = nextSeq
           Goal == TailOf(sub'[c], Top', outbox')
<1>4. CASE SameLog /\ sub'[c] = sub[c]
  BY Zenon, <1>1, <1>4 DEF Top
<1>5. ASSUME NEW e \in EventIDs, NEW peers \in SUBSET Consumers, Publish(e, peers)
      PROVE  Goal
  BY <1>1, <1>5, PublishFacts, LogGrows
<1>6. ASSUME NEW n \in Nat, n <= Top, SameLog, Fresh(sub'[c], n) PROVE Goal
  BY Zenon, <1>1, <1>6, FreshTail DEF Top
<1>7. ASSUME NEW d \in Consumers, Subscribe(d) PROVE Goal
  <2>1. PICK n \in Nat :
          /\ n = IF cursor[RunKey][d] = NoCursor THEN Top ELSE cursor[RunKey][d]
          /\ Others(d) /\ Fresh(sub'[d], n) /\ outbox' = outbox /\ nextSeq' = nextSeq
    BY Zenon, <1>7, SubscribeFacts
  <2>2. n <= Top
    BY <1>1, <2>1 DEF LogInv
  <2> QED
    BY Zenon, <1>4, <1>6, <2>1, <2>2 DEF Others
<1>8. ASSUME NEW d \in Consumers, SubscribeFails(d) \/ Crash(d) PROVE Goal
  <2>1. Others(d) /\ Fresh(sub'[d], 0) /\ SameLog
    BY Zenon, <1>8, RestartFacts DEF SubscribeFails, Crash, outboxVars
  <2> QED
    BY <1>1, <1>4, <1>6, <2>1 DEF Others
<1>9. ASSUME NEW hint \in mesh, HandleFastPath(hint[1], hint[2]) PROVE Goal
  <2>1. SameLog
    BY Zenon, <1>9 DEF HandleFastPath, outboxVars
  <2>2. CASE hint[1] # c
    BY Zenon, <1>4, <1>9, <2>1, <2>2, HandleFastPathFacts DEF Others
  <2>3. CASE hint[1] = c
    <3>1. /\ hint[2] \in Rows /\ SameTail(sub[c], sub'[c]) /\ sub'[c].dedup = sub[c].dedup
          /\ sub'[c].out = sub[c].out /\ sub'[c].sent = sub[c].sent
          /\ \/ sub'[c].hints = sub[c].hints
             \/ sub'[c].hints = Append(sub[c].hints, hint[2])
      BY Zenon, <1>9, <2>3, HandleFastPathFacts
    <3>2. sub[c].hints \in Seq(Rows) /\ \A i \in 1 .. Len(sub[c].hints) : sub[c].hints[i].seq <= Top
      BY Zenon, <1>1, SubFields DEF TailOf, WithinLog
    <3>3. hint[2].seq <= Top
      BY Zenon DEF LogInv
    <3>4. ASSUME NEW i \in 1 .. Len(sub'[c].hints) PROVE sub'[c].hints[i].seq <= Top
      <4>1. CASE sub'[c].hints = sub[c].hints
        BY ZenonT(30), <3>2, <3>4, <4>1
      <4>2. CASE sub'[c].hints = Append(sub[c].hints, hint[2])
        <5>1. i \in 1 .. Len(sub[c].hints) \/ i = Len(sub[c].hints) + 1
          BY SMTT(30), <3>1, <3>2, <3>4, <4>2, AppendElements
        <5> QED
          BY SMTT(30), <3>1, <3>2, <3>3, <4>2, <5>1, AppendElements
      <4> QED
        BY Zenon, <3>1, <4>1, <4>2
    <3>5. TailOf(sub'[c], Top, outbox)
      BY <1>1, <3>1, <3>4 DEF TailOf, WithinLog, BatchDense, PassedSent, Sent, SameTail
    <3> QED
      BY Zenon, <2>1, <3>5 DEF Top
  <2> QED
    BY Zenon, <2>2, <2>3
<1>10. ASSUME NEW d \in Consumers, ReadRows(d) PROVE Goal
  <2>1. /\ Others(d) /\ sub'[d].startPos = sub[d].startPos /\ sub'[d].pos = sub[d].pos
        /\ sub'[d].batch = NextRows(d) /\ SameChannel(sub[d], sub'[d])
    BY Zenon, <1>10, ReadFacts
  <2>2. SameLog
    BY Zenon, <1>10 DEF ReadRows, outboxVars
  <2>3. CASE d # c
    BY Zenon, <1>4, <2>1, <2>2, <2>3 DEF Others
  <2>4. CASE d = c
    <3>1. /\ NextRows(c) \subseteq outbox
          /\ \A b \in NextRows(c), q \in outbox :
                (sub[c].pos < q.seq /\ q.seq <= b.seq) => q \in NextRows(c)
      BY Zenon, NextRowsDense
    <3>2. BatchDense(sub'[c], outbox)
      BY Zenon, <2>1, <2>4, <3>1 DEF BatchDense, LogInv
    <3>3. WithinLog(sub'[c], Top)
      BY ZenonT(30), <1>1, <2>1, <2>4, <3>1 DEF TailOf, WithinLog, LogInv, SameChannel
    <3>4. PassedSent(sub'[c], outbox)
      BY SMTT(30), <1>1, <2>1, <2>4 DEF TailOf, PassedSent, Sent, SameChannel
    <3>5. TailOf(sub'[c], Top, outbox)
      BY Zenon, <3>2, <3>3, <3>4 DEF TailOf
    <3> QED
      BY Zenon, <2>2, <3>5 DEF Top
  <2> QED
    BY Zenon, <2>3, <2>4
<1>11. ASSUME NEW d \in Consumers, ReadFails(d) \/ Poll(d) PROVE Goal
  <2>1. Others(d) /\ SameTail(sub[d], sub'[d]) /\ SameChannel(sub[d], sub'[d])
    BY Zenon, <1>11, WaitFacts
  <2>2. SameLog
    BY Zenon, <1>11 DEF ReadFails, Poll, outboxVars
  <2>3. CASE d # c
    BY Zenon, <1>4, <2>1, <2>2, <2>3 DEF Others
  <2>4. CASE d = c
    <3>1. WithinLog(sub'[c], Top) /\ BatchDense(sub'[c], outbox)
      BY ZenonT(30), <1>1, <2>1, <2>4 DEF TailOf, WithinLog, BatchDense, SameTail, SameChannel
    <3>2. PassedSent(sub'[c], outbox)
      BY SMTT(30), <1>1, <2>1, <2>4 DEF TailOf, PassedSent, Sent, SameTail, SameChannel
    <3> QED
      BY Zenon, <2>2, <3>1, <3>2 DEF Top, TailOf
  <2> QED
    BY <2>3, <2>4
<1>12. ASSUME NEW d \in Consumers, SendRow(d) PROVE Goal
  <2>1. SameLog
    BY Zenon, <1>12 DEF SendRow, outboxVars
  <2>2. CASE d # c
    BY Zenon, <1>4, <1>12, <2>1, <2>2, SendFacts DEF Others
  <2>3. CASE d = c
    <3>1. PICK r \in sub[c].batch :
            /\ \A q \in sub[c].batch : r.seq <= q.seq
            /\ sub'[c].startPos = sub[c].startPos
            /\ sub'[c].pos = IF r.seq > sub[c].pos THEN r.seq ELSE sub[c].pos
            /\ sub'[c].batch = sub[c].batch \ {r}
            /\ sub'[c].hints = sub[c].hints
            /\ DeliveredTo(sub[c], sub'[c], r)
      BY Zenon, <1>12, <2>3, SendFacts
    <3>2. TailOf(sub'[c], Top, outbox)
      BY Zenon, <1>1, <1>3, <3>1, SendTail
    <3> QED
      BY Zenon, <2>1, <3>2 DEF Top
  <2> QED
    BY <2>2, <2>3
<1>13. ASSUME NEW d \in Consumers, TakeHint(d) PROVE Goal
  <2>1. SameLog
    BY Zenon, <1>13 DEF TakeHint, outboxVars
  <2>2. CASE d # c
    BY Zenon, <1>4, <1>13, <2>1, <2>2, TakeHintFacts DEF Others
  <2>3. CASE d = c
    <3>1. /\ sub[c].hints # <<>> /\ SameTail(sub[c], sub'[c])
          /\ sub'[c].hints = Tail(sub[c].hints)
          /\ DeliveredTo(sub[c], sub'[c], Head(sub[c].hints))
      BY Zenon, <1>13, <2>3, TakeHintFacts
    <3>2. TailOf(sub'[c], Top, outbox)
      BY Zenon, <1>1, <1>3, <3>1, HintTail
    <3> QED
      BY <2>1, <3>2 DEF Top
  <2> QED
    BY <2>2, <2>3
<1>14. ASSUME NEW d \in Consumers, NEW e \in EventIDs, WindowExpires(d, e) PROVE Goal
  <2>1. /\ Others(d) /\ SameTail(sub[d], sub'[d])
        /\ sub'[d].dedup = sub[d].dedup \ {e} /\ sub'[d].hints = sub[d].hints
        /\ sub'[d].out = sub[d].out /\ sub'[d].sent = sub[d].sent
    BY Zenon, <1>14, ExpiryFacts
  <2>2. SameLog
    BY Zenon, <1>14 DEF WindowExpires, outboxVars
  <2>3. CASE d # c
    BY Zenon, <1>4, <2>1, <2>2, <2>3 DEF Others
  <2>4. CASE d = c
    <3>1. WithinLog(sub'[c], Top) /\ BatchDense(sub'[c], outbox)
      BY ZenonT(30), <1>1, <2>1, <2>4 DEF TailOf, WithinLog, BatchDense, SameTail
    <3>2. PassedSent(sub'[c], outbox)
      BY SMTT(30), <1>1, <2>1, <2>4 DEF TailOf, PassedSent, Sent, SameTail
    <3>3. TailOf(sub'[c], Top, outbox)
      BY Zenon, <3>1, <3>2 DEF TailOf
    <3> QED
      BY Zenon, <2>2, <3>3 DEF Top
  <2> QED
    BY Zenon, <2>3, <2>4
<1>15. ASSUME NEW d \in Consumers, NEW acked \in BOOLEAN, Consume(d, acked) PROVE Goal
  <2>1. SameLog
    BY Zenon, <1>15, ConsumeCursor
  <2>2. CASE d # c
    BY Zenon, <1>4, <1>15, <2>1, <2>2, ConsumeFacts DEF Others
  <2>3. CASE d = c
    <3>1. /\ SameTail(sub[c], sub'[c])
          /\ sub'[c].dedup = sub[c].dedup /\ sub'[c].hints = sub[c].hints
          /\ sub[c].out # <<>>
          /\ sub'[c].out = Tail(sub[c].out) /\ sub'[c].sent = sub[c].sent
      BY Zenon, <1>15, <2>3, ConsumeFacts
    <3>2. sub[c].out \in Seq(Rows) /\ \A i \in 1 .. Len(sub[c].out) : sub[c].out[i].seq <= Top
      BY ZenonT(30), <1>1, SubFields DEF TailOf, WithinLog
    <3>3. \A i \in 1 .. Len(sub'[c].out) : sub'[c].out[i].seq <= Top
      BY SMTT(30), <3>1, <3>2, TailElements
    <3>4. TailOf(sub'[c], Top, outbox)
      BY <1>1, <3>1, <3>3 DEF TailOf, WithinLog, BatchDense, PassedSent, Sent, SameTail
    <3> QED
      BY Zenon, <2>1, <3>4 DEF Top
  <2> QED
    BY Zenon, <2>2, <2>3
<1>16. CASE SweepOutbox
  <2>1. outbox' \in SUBSET outbox /\ Top' = Top /\ sub' = sub
    BY Zenon, <1>16 DEF SweepOutbox, SweepRows, Top
  <2> QED
    BY Zenon, <1>1, <2>1, LogShrinks
<1>17. CASE SweepCursor
  BY Zenon, <1>4, <1>17 DEF SweepCursor, SweepCursors
<1> QED
  BY SMTT(30), <1>4, <1>5, <1>7, <1>8, <1>9, <1>10, <1>11, <1>12, <1>13, <1>14, <1>15, <1>16, <1>17
  DEF Next, vars, outboxVars, Tailing, PublishFails, RetentionElapses

-----------------------------------------------------------------------------
(* The durable path keeps the produce order                                *)

LEMMA AscendingAppend ==
    ASSUME NEW q \in Seq(Rows), NEW r \in Rows, Ascending(q), NEW n \in Nat, n < r.seq,
           \A i \in 1 .. Len(q) : q[i].seq <= n
    PROVE  /\ Ascending(Append(q, r))
           /\ \A i \in 1 .. Len(Append(q, r)) : Append(q, r)[i].seq <= r.seq
<1> DEFINE a == Append(q, r)
<1>1. /\ Len(q) \in Nat /\ Len(a) = Len(q) + 1 /\ a[Len(q) + 1] = r
      /\ \A i \in 1 .. Len(q) : a[i] = q[i]
      /\ \A i \in 1 .. Len(a) : i \in 1 .. Len(q) \/ i = Len(q) + 1
  BY Zenon, AppendElements
<1>2. r.seq \in Nat /\ \A i \in 1 .. Len(q) : q[i].seq \in Nat /\ q[i].seq < r.seq
  BY SMTT(30), RowFields
<1> HIDE DEF a
<1>3. ASSUME NEW i \in 1 .. Len(a), NEW j \in 1 .. Len(a), i < j
      PROVE  a[i].seq < a[j].seq
  <2>1. i \in 1 .. Len(q)
    BY <1>1, <1>3
  <2>2. CASE j \in 1 .. Len(q)
    BY Zenon, <1>1, <1>3, <2>1, <2>2 DEF Ascending
  <2>3. CASE j = Len(q) + 1
    BY Zenon, <1>1, <1>2, <2>1, <2>3
  <2> QED
    BY Zenon, <1>1, <2>2, <2>3
<1>4. ASSUME NEW i \in 1 .. Len(a) PROVE a[i].seq <= r.seq
  <2>1. CASE i \in 1 .. Len(q)
    BY SMTT(30), <1>1, <1>2, <2>1
  <2>2. CASE i = Len(q) + 1
    BY <1>1, <1>2, <2>2
  <2> QED
    BY Zenon, <1>1, <2>1, <2>2
<1> QED
  BY Zenon, <1>3, <1>4 DEF Ascending, a

LEMMA AscendingTail ==
    ASSUME NEW q \in Seq(Rows), q # <<>>, Ascending(q)
    PROVE  Ascending(Tail(q)) /\ \A i \in 1 .. Len(Tail(q)) : Head(q).seq < Tail(q)[i].seq
<1>1. /\ Len(q) \in Nat /\ 1 \in 1 .. Len(q) /\ Head(q) = q[1]
      /\ \A i \in 1 .. Len(Tail(q)) : i + 1 \in 1 .. Len(q) /\ Tail(q)[i] = q[i + 1]
  BY Zenon, TailElements
<1>2. ASSUME NEW i \in 1 .. Len(Tail(q)), NEW j \in 1 .. Len(Tail(q)), i < j
      PROVE  Tail(q)[i].seq < Tail(q)[j].seq
  <2>1. i + 1 \in 1 .. Len(q) /\ j + 1 \in 1 .. Len(q) /\ i + 1 < j + 1
    BY <1>1, <1>2
  <2>2. q[i + 1].seq < q[j + 1].seq
    BY Zenon, <2>1 DEF Ascending
  <2> QED
    BY Zenon, <1>1, <2>2
<1>3. ASSUME NEW i \in 1 .. Len(Tail(q)) PROVE Head(q).seq < Tail(q)[i].seq
  <2>1. i + 1 \in 1 .. Len(q) /\ 1 < i + 1
    BY <1>1
  <2>2. q[1].seq < q[i + 1].seq
    BY Zenon, <1>1, <2>1 DEF Ascending
  <2> QED
    BY Zenon, <1>1, <2>2
<1> QED
  BY Zenon, <1>2, <1>3 DEF Ascending

LEMMA OrderSend ==
    ASSUME NEW s \in Subscriptions, NEW t \in Subscriptions, OrderOf(s),
           \A b, q \in s.batch : b.seq = q.seq => b = q,
           NEW r \in s.batch, \A q \in s.batch : r.seq <= q.seq,
           t.pos = IF r.seq > s.pos THEN r.seq ELSE s.pos,
           t.batch = s.batch \ {r}, t.hints = s.hints, DeliveredTo(s, t, r)
    PROVE  OrderOf(t)
<1>1. /\ r \in Rows /\ r.seq \in Nat /\ s.pos \in Nat /\ \A b \in s.batch : b.seq \in Nat
      /\ s.sent \in Seq(Rows) /\ s.out \in Seq(Rows)
  BY Zenon, SubFields
<1>2. r.seq > s.pos /\ t.pos = r.seq
  BY Zenon, <1>1 DEF OrderOf
<1>3. \A b \in t.batch : b.seq > t.pos
  BY <1>1, <1>2
<1>4. CASE t.sent = s.sent /\ t.out = s.out
  <2>1. /\ \A i \in 1 .. Len(s.sent) : s.sent[i].seq <= r.seq
        /\ \A i \in 1 .. Len(s.out) : s.out[i].seq <= r.seq
    <3>1. /\ \A i \in 1 .. Len(s.sent) : s.sent[i] \in Rows /\ s.sent[i].seq <= s.pos
          /\ \A i \in 1 .. Len(s.out) : s.out[i] \in Rows /\ s.out[i].seq <= s.pos
      BY SMTT(30), SubFields DEF OrderOf
    <3>2. \A q \in Rows : q.seq <= s.pos => q.seq <= r.seq
      BY <1>1, <1>2, RowFields
    <3> QED
      BY Zenon, <3>1, <3>2
  <2> QED
    BY Zenon, <1>2, <1>3, <1>4, <2>1 DEF OrderOf
<1>5. CASE t.sent = Append(s.sent, r) /\ t.out = Append(s.out, r)
  <2>1. Ascending(t.sent) /\ \A i \in 1 .. Len(t.sent) : t.sent[i].seq <= r.seq
    <3>1. Ascending(s.sent) /\ \A i \in 1 .. Len(s.sent) : s.sent[i].seq <= s.pos
      BY Zenon DEF OrderOf
    <3>2. s.pos < r.seq
      BY Zenon, <1>1, <1>2
    <3>3. /\ Ascending(Append(s.sent, r))
          /\ \A i \in 1 .. Len(Append(s.sent, r)) : Append(s.sent, r)[i].seq <= r.seq
      BY Zenon, <1>1, <3>1, <3>2, AscendingAppend
    <3> QED
      BY Zenon, <1>5, <3>3
  <2>2. Ascending(t.out) /\ \A i \in 1 .. Len(t.out) : t.out[i].seq <= r.seq
    <3>1. Ascending(s.out) /\ \A i \in 1 .. Len(s.out) : s.out[i].seq <= s.pos
      BY Zenon DEF OrderOf
    <3>2. s.pos < r.seq
      BY <1>1, <1>2
    <3>3. /\ Ascending(Append(s.out, r))
          /\ \A i \in 1 .. Len(Append(s.out, r)) : Append(s.out, r)[i].seq <= r.seq
      BY Zenon, <1>1, <3>1, <3>2, AscendingAppend
    <3> QED
      BY Zenon, <1>5, <3>3
  <2> QED
    BY Zenon, <1>2, <1>3, <2>1, <2>2 DEF OrderOf
<1> QED
  BY Zenon, <1>4, <1>5 DEF DeliveredTo

LEMMA OrderStep ==
    TypeOK /\ LogInv /\ TailInv /\ BatchesDense /\ OrderInv /\ [Next]_vars => OrderInv'
<1> SUFFICES ASSUME TypeOK, LogInv, TailInv, BatchesDense, OrderInv, [Next]_vars, ~MeshWired
             PROVE  mesh' = {} /\ \A c \in Consumers : OrderOf(sub'[c])
  BY Zenon DEF OrderInv
<1>1. mesh = {} /\ \A c \in Consumers : OrderOf(sub[c])
  BY Zenon DEF OrderInv
<1>2. mesh' = {}
  <2>1. ASSUME NEW e \in EventIDs, NEW peers \in SUBSET Consumers, Publish(e, peers)
        PROVE  mesh' = {}
    BY Zenon, <1>1, <2>1, PublishFacts
  <2>2. CASE mesh' = mesh
    BY Zenon, <1>1, <2>2
  <2> QED
    BY ZenonT(30), <1>1, <2>1, <2>2
    DEF Next, vars, PublishFails, Subscribe, SubscribeFails, Crash, Tailing, ReadRows,
        SendRow, Poll, ReadFails, TakeHint, WindowExpires, Consume, RetentionElapses,
        SweepOutbox, SweepCursor
<1>3. ASSUME NEW c \in Consumers PROVE OrderOf(sub'[c])
  <2>1. sub[c] \in Subscriptions /\ sub'[c] \in Subscriptions /\ OrderOf(sub[c])
    BY Zenon, <1>1, TypeStep DEF TypeOK
  <2>2. CASE sub'[c] = sub[c]
    BY Zenon, <2>1, <2>2
  <2>3. ASSUME NEW n, Fresh(sub'[c], n) PROVE OrderOf(sub'[c])
    BY <2>3 DEF Fresh, OrderOf, Ascending
  <2>4. CASE SameTail(sub[c], sub'[c]) /\ sub'[c].hints = sub[c].hints
             /\ sub'[c].out = sub[c].out /\ sub'[c].sent = sub[c].sent
    BY Zenon, <2>1, <2>4 DEF SameTail, OrderOf
  <2>5. ASSUME NEW d \in Consumers, Subscribe(d) PROVE OrderOf(sub'[c])
    BY Zenon, <2>2, <2>3, <2>5, SubscribeFacts DEF Others
  <2>6. ASSUME NEW d \in Consumers, SubscribeFails(d) \/ Crash(d) PROVE OrderOf(sub'[c])
    <3>1. Others(d) /\ Fresh(sub'[d], 0)
      BY Zenon, <2>6, RestartFacts DEF SubscribeFails, Crash
    <3> QED
      BY Zenon, <2>2, <2>3, <3>1 DEF Others
  <2>7. ASSUME NEW d \in Consumers, ReadRows(d) PROVE OrderOf(sub'[c])
    <3>1. CASE d # c
      BY Zenon, <2>2, <2>7, <3>1, ReadFacts DEF Others
    <3>2. CASE d = c
      <4>1. /\ sub'[c].pos = sub[c].pos /\ sub'[c].batch = NextRows(c)
            /\ SameChannel(sub[c], sub'[c])
        BY Zenon, <2>7, <3>2, ReadFacts
      <4>2. \A b \in NextRows(c) : b.seq > sub[c].pos
        BY Zenon, NextRowsDense
      <4> QED
        BY Zenon, <2>1, <4>1, <4>2 DEF SameChannel, OrderOf
    <3> QED
      BY Zenon, <3>1, <3>2
  <2>8. ASSUME NEW d \in Consumers, ReadFails(d) \/ Poll(d) PROVE OrderOf(sub'[c])
    BY Zenon, <2>2, <2>4, <2>8, WaitFacts DEF Others, SameChannel
  <2>9. ASSUME NEW d \in Consumers, SendRow(d) PROVE OrderOf(sub'[c])
    <3>1. CASE d # c
      BY Zenon, <2>2, <2>9, <3>1, SendFacts DEF Others
    <3>2. CASE d = c
      <4>1. PICK r \in sub[c].batch :
              /\ \A q \in sub[c].batch : r.seq <= q.seq
              /\ sub'[c].pos = IF r.seq > sub[c].pos THEN r.seq ELSE sub[c].pos
              /\ sub'[c].batch = sub[c].batch \ {r}
              /\ sub'[c].hints = sub[c].hints
              /\ DeliveredTo(sub[c], sub'[c], r)
        BY Zenon, <2>9, <3>2, SendFacts
      <4>2. \A b, q \in sub[c].batch : b.seq = q.seq => b = q
        BY Zenon DEF TailInv, TailOf, BatchDense
      <4> QED
        BY Zenon, <2>1, <4>1, <4>2, OrderSend
    <3> QED
      BY <3>1, <3>2
  <2>10. ASSUME NEW d \in Consumers, TakeHint(d) PROVE FALSE
    BY Zenon, <1>1, <2>10, TakeHintFacts DEF OrderOf
  <2>11. ASSUME NEW d \in Consumers, NEW e \in EventIDs, WindowExpires(d, e)
         PROVE  OrderOf(sub'[c])
    BY Zenon, <2>2, <2>4, <2>11, ExpiryFacts DEF Others
  <2>12. ASSUME NEW d \in Consumers, NEW acked \in BOOLEAN, Consume(d, acked)
         PROVE  OrderOf(sub'[c])
    <3>1. CASE d # c
      BY Zenon, <2>2, <2>12, <3>1, ConsumeFacts DEF Others
    <3>2. CASE d = c
      <4>1. /\ SameTail(sub[c], sub'[c]) /\ sub'[c].hints = sub[c].hints
            /\ sub[c].out # <<>> /\ sub'[c].out = Tail(sub[c].out)
            /\ sub'[c].sent = sub[c].sent
        BY Zenon, <2>12, <3>2, ConsumeFacts
      <4>2. sub[c].out \in Seq(Rows) /\ Ascending(sub[c].out)
            /\ \A i \in 1 .. Len(sub[c].out) : sub[c].out[i].seq <= sub[c].pos
        BY Zenon, <2>1, SubFields DEF OrderOf
      <4>3. Ascending(sub'[c].out)
        BY Zenon, <4>1, <4>2, AscendingTail
      <4>4. \A i \in 1 .. Len(sub'[c].out) : sub'[c].out[i].seq <= sub[c].pos
        BY <4>1, <4>2, TailElements
      <4> QED
        BY Zenon, <2>1, <4>1, <4>3, <4>4 DEF OrderOf, SameTail
    <3> QED
      BY Zenon, <3>1, <3>2
  <2> QED
    BY SMTT(30), <1>1, <2>2, <2>5, <2>6, <2>7, <2>8, <2>9, <2>10, <2>11, <2>12
    DEF Next, vars, Tailing, Publish, PublishFails, RetentionElapses, SweepOutbox, SweepCursor
<1> QED
  BY Zenon, <1>2, <1>3

-----------------------------------------------------------------------------
(* The durable path loses nothing                                          *)

LEMMA ArrivalSame ==
    ASSUME NEW s, NEW t, NEW log, NEW start, NEW acked, NEW arrived, NEW more,
           ArrivalOf(s, log, start, acked, arrived), arrived \subseteq more,
           t.pos = s.pos, t.batch = s.batch, t.out = s.out, t.sent = s.sent
    PROVE  ArrivalOf(t, log, start, acked, more)
  BY Zenon DEF ArrivalOf, InOut

LEMMA ArrivalGrows ==
    ASSUME NEW s \in Subscriptions, NEW log \in SUBSET Rows, NEW start,
           NEW acked \in Nat \cup {NoCursor}, NEW arrived, NEW more, NEW r \in Rows,
           NEW n \in Nat, r.seq = n + 1, s.pos <= n, acked # NoCursor => acked <= n,
           ArrivalOf(s, log, start, acked, arrived), arrived \subseteq more
    PROVE  ArrivalOf(s, log \cup {r}, start, acked, more)
<1>1. s.pos \in Nat /\ r.seq \in Nat
  BY Zenon, SubFields, RowFields
<1>2. ~(r.seq <= s.pos) /\ (acked # NoCursor => ~(r.seq <= acked))
  BY <1>1
<1> QED
  BY Zenon, <1>2 DEF ArrivalOf

(* On the durable path the window never hides a row: its event went out    *)
(* only with the row itself, and that is behind the position.              *)
LEMMA ArrivalSend ==
    ASSUME NEW s \in Subscriptions, NEW t \in Subscriptions, NEW log \in SUBSET Rows,
           NEW start, NEW acked, NEW arrived,
           ArrivalOf(s, log, start, acked, arrived),
           OrderOf(s), BatchDense(s, log), \A e \in s.dedup : Sent(s, e),
           \A p, q \in log : p.event = q.event => p = q,
           NEW r \in s.batch, \A q \in s.batch : r.seq <= q.seq,
           t.pos = IF r.seq > s.pos THEN r.seq ELSE s.pos,
           t.batch = s.batch \ {r}, DeliveredTo(s, t, r)
    PROVE  ArrivalOf(t, log, start, acked, arrived)
<1>1. /\ r \in Rows /\ r \in log /\ r.seq \in Nat /\ s.pos \in Nat
      /\ s.sent \in Seq(Rows) /\ s.out \in Seq(Rows)
  BY Zenon, SubFields DEF ArrivalOf
<1>2. r.seq > s.pos /\ t.pos = r.seq
  BY Zenon, <1>1 DEF OrderOf
<1>3. r.event \notin s.dedup
  <2> SUFFICES ASSUME r.event \in s.dedup PROVE FALSE
    BY Zenon
  <2>1. PICK i \in 1 .. Len(s.sent) : s.sent[i].event = r.event
    BY Zenon DEF Sent
  <2>2. s.sent[i] = r
    BY Zenon, <1>1, <2>1 DEF ArrivalOf
  <2>3. s.sent[i].seq <= s.pos
    BY Zenon DEF OrderOf
  <2> QED
    BY <1>1, <1>2, <2>2, <2>3
<1>4. t.sent = Append(s.sent, r) /\ t.out = Append(s.out, r)
  BY Zenon, <1>3 DEF DeliveredTo
<1>5. ASSUME NEW i \in 1 .. Len(t.sent) PROVE t.sent[i] \in log
  <2>1. i \in 1 .. Len(s.sent) \/ i = Len(s.sent) + 1
    BY Zenon, <1>1, <1>4, <1>5, AppendElements
  <2> QED
    BY <1>1, <1>4, <2>1, AppendElements DEF ArrivalOf
<1>6. InOut(t, r) /\ \A q : InOut(s, q) => InOut(t, q)
  <2>1. /\ Len(s.out) \in Nat /\ Len(t.out) = Len(s.out) + 1 /\ t.out[Len(s.out) + 1] = r
        /\ \A i \in 1 .. Len(s.out) : t.out[i] = s.out[i]
    BY SMTT(30), <1>1, <1>4, AppendElements
  <2>2. Len(s.out) + 1 \in 1 .. Len(t.out) /\ \A i \in 1 .. Len(s.out) : i \in 1 .. Len(t.out)
    BY SMTT(30), <2>1
  <2> QED
    BY ZenonT(30), <2>1, <2>2 DEF InOut
<1>7. ASSUME NEW q \in log, start # NoCursor, q.seq > start, q.seq <= t.pos
      PROVE  q \in t.batch \/ InOut(t, q) \/ q.event \in arrived
  <2>1. q.seq \in Nat
    BY Zenon, RowFields
  <2>2. CASE q.seq <= s.pos
    <3>1. q \in s.batch \/ InOut(s, q) \/ q.event \in arrived
      BY Zenon, <1>7, <2>2 DEF ArrivalOf
    <3> QED
      BY Zenon, <1>6, <3>1
  <2>3. CASE q.seq > s.pos
    BY Zenon, <1>1, <1>2, <1>6, <1>7, <2>1, <2>3 DEF BatchDense
  <2> QED
    BY <1>1, <2>1, <2>2, <2>3
<1>8. start # NoCursor =>
        /\ acked # NoCursor
        /\ \A q \in log : (q.seq > start /\ q.seq <= acked) => q.event \in arrived
  BY Zenon DEF ArrivalOf
<1>9. t.batch \subseteq log
  BY Zenon DEF ArrivalOf
<1> QED
  BY Zenon, <1>5, <1>7, <1>8, <1>9 DEF ArrivalOf

(* Consuming the head of the channel accounts for every row up to it.      *)
LEMMA ArrivalConsume ==
    ASSUME NEW s \in Subscriptions, NEW t \in Subscriptions, NEW log \in SUBSET Rows,
           NEW start \in Nat \cup {NoCursor}, NEW acked \in Nat \cup {NoCursor},
           NEW saved \in Nat \cup {NoCursor}, NEW arrived,
           ArrivalOf(s, log, start, acked, arrived), OrderOf(s),
           SameTail(s, t), t.sent = s.sent, s.out # <<>>, t.out = Tail(s.out),
           saved = acked \/ saved = Head(s.out).seq
    PROVE  ArrivalOf(t, log, start, saved, arrived \cup {Head(s.out).event})
<1> DEFINE r == Head(s.out)
           more == arrived \cup {r.event}
<1>1. s.out \in Seq(Rows) /\ s.pos \in Nat /\ \A b \in s.batch : b.seq \in Nat
  BY Zenon, SubFields
<1>2. /\ r = s.out[1] /\ 1 \in 1 .. Len(s.out)
      /\ \A i \in 1 .. Len(s.out) : i = 1 \/ (i - 1 \in 1 .. Len(t.out) /\ t.out[i - 1] = s.out[i])
  BY <1>1, TailElements
<1>3. \A i \in 1 .. Len(t.out) : r.seq < t.out[i].seq
  BY Zenon, <1>1, AscendingTail DEF OrderOf
<1>4. r \in Rows /\ r.seq \in Nat /\ r.seq <= s.pos
  <2>1. r \in Rows
    BY <1>1, <1>2
  <2>2. r.seq <= s.pos
    BY Zenon, <1>2 DEF OrderOf
  <2> QED
    BY Zenon, <2>1, <2>2, RowFields
<1>5. \A q : InOut(s, q) => q = r \/ InOut(t, q)
  BY Zenon, <1>2 DEF InOut
<1>6. \A q : InOut(t, q) => r.seq < q.seq
  BY Zenon, <1>3 DEF InOut
<1>7. ASSUME NEW q \in log, start # NoCursor, q.seq > start, q.seq <= s.pos
      PROVE  q \in s.batch \/ InOut(t, q) \/ q.event \in more
  BY Zenon, <1>5, <1>7 DEF ArrivalOf
<1>8. ASSUME NEW q \in log, start # NoCursor, q.seq > start, q.seq <= r.seq
      PROVE  q.event \in more
  <2>1. q.seq \in Nat /\ q.seq <= s.pos
    BY SMTT(30), <1>1, <1>4, <1>8, RowFields
  <2>2. q \notin s.batch
    BY SMTT(30), <1>1, <2>1 DEF OrderOf
  <2>3. ~InOut(t, q)
    BY <1>4, <1>6, <1>8, <2>1
  <2> QED
    BY ZenonT(30), <1>7, <1>8, <2>1, <2>2, <2>3
<1>9. ASSUME NEW q \in log, start # NoCursor, q.seq > start, q.seq <= saved
      PROVE  q.event \in more
  <2>1. CASE saved = r.seq
    BY Zenon, <1>8, <1>9, <2>1
  <2>2. CASE saved = acked
    BY Zenon, <1>9, <2>2 DEF ArrivalOf
  <2> QED
    BY Zenon, <2>1, <2>2
<1>10. start # NoCursor => saved # NoCursor
  BY Zenon, <1>4, NoCursorAssumption DEF ArrivalOf
<1> HIDE DEF more
<1>11. ArrivalOf(t, log, start, saved, more)
  BY Zenon, <1>7, <1>9, <1>10 DEF ArrivalOf, SameTail
<1> QED
  BY Zenon, <1>11 DEF more

LEMMA HandledGrows ==
    ASSUME TypeOK, [Next]_vars, NEW c \in Consumers
    PROVE  handled[c] \subseteq handled'[c]
<1>1. handled \in [Consumers -> SUBSET EventIDs]
  BY Zenon DEF TypeOK
<1>2. CASE handled' = handled
  BY Zenon, <1>2
<1>3. ASSUME NEW e, OnLocalBus(e) PROVE handled[c] \subseteq handled'[c]
  BY Zenon, <1>1, <1>3 DEF OnLocalBus
<1>4. ASSUME NEW d \in Consumers, NEW e, handled' = [handled EXCEPT ![d] = @ \cup {e}]
      PROVE  handled[c] \subseteq handled'[c]
  BY Zenon, <1>1, <1>4
<1> QED
  BY ZenonT(30), <1>2, <1>3, <1>4
  DEF Next, vars, Publish, PublishFails, HandleFastPath, Subscribe, SubscribeFails, Crash,
      Tailing, ReadRows, SendRow, Poll, ReadFails, TakeHint, WindowExpires, Consume,
      RetentionElapses, SweepOutbox, SweepCursor

LEMMA ArrivalStep ==
    TypeOK /\ LogInv /\ TailInv /\ BatchesDense /\ OrderInv /\ ArrivalInv /\ [Next]_vars
       => ArrivalInv'
<1> SUFFICES ASSUME TypeOK, LogInv, TailInv, BatchesDense, OrderInv, ArrivalInv, [Next]_vars,
                    ~MeshWired, spent'.elapses = 0
             PROVE  /\ old'.rows = {} /\ old'.cursors = {}
                    /\ \A r, q \in outbox' : r.event = q.event => r = q
                    /\ \A c \in Consumers :
                          ArrivalOf(sub'[c], outbox', joined'[c], cursor'[RunKey][c], handled'[c])
  BY Zenon DEF ArrivalInv
<1>0. spent.elapses = 0 /\ ~RetentionElapses
  <2>1. spent.elapses \in Nat /\ (RetentionElapses => spent'.elapses = spent.elapses + 1)
    BY BoundsAssumption DEF TypeOK, RetentionElapses
  <2>2. ~RetentionElapses
    BY <2>1
  <2>3. spent'.elapses = spent.elapses
    BY Zenon, <2>2
    DEF Next, vars, TypeOK, Publish, PublishFails, HandleFastPath, Subscribe, SubscribeFails,
        Crash, Tailing, ReadRows, SendRow, Poll, ReadFails, TakeHint, WindowExpires, Consume,
        SweepOutbox, SweepCursor
  <2> QED
    BY Zenon, <2>2, <2>3
<1>1. /\ old.rows = {} /\ old.cursors = {}
      /\ \A r, q \in outbox : r.event = q.event => r = q
      /\ \A c \in Consumers :
            ArrivalOf(sub[c], outbox, joined[c], cursor[RunKey][c], handled[c])
  BY Zenon, <1>0 DEF ArrivalInv
<1>2. ~RetentionElapses /\ ~SweepOutbox /\ ~SweepCursor
  BY Zenon, <1>0, <1>1 DEF SweepOutbox, SweepCursor
<1>3. old'.rows = {} /\ old'.cursors = {}
  <2>1. old' = old \/ \E c \in Consumers : old' = [old EXCEPT !.cursors = @ \ {c}]
    BY Zenon, <1>2
    DEF Next, vars, Publish, PublishFails, HandleFastPath, Subscribe, SubscribeFails, Crash,
        Tailing, ReadRows, SendRow, Poll, ReadFails, TakeHint, WindowExpires, Consume
  <2> QED
    BY Zenon, <1>1, <2>1 DEF TypeOK
<1>4. \A r, q \in outbox' : r.event = q.event => r = q
  <2>1. ASSUME NEW e \in EventIDs, NEW peers \in SUBSET Consumers, Publish(e, peers)
        PROVE  \A r, q \in outbox' : r.event = q.event => r = q
    BY <1>1, <2>1, PublishFacts DEF Produced
  <2>2. CASE outbox' = outbox
    BY Zenon, <1>1, <2>2
  <2> QED
    BY ZenonT(30), <1>2, <2>1, <2>2, SubscribeFacts, ConsumeCursor
    DEF Next, vars, outboxVars, PublishFails, HandleFastPath, SubscribeFails, Crash,
        Tailing, ReadRows, SendRow, Poll, ReadFails, TakeHint, WindowExpires
<1>5. ASSUME NEW c \in Consumers
      PROVE  ArrivalOf(sub'[c], outbox', joined'[c], cursor'[RunKey][c], handled'[c])
  <2> DEFINE Goal == ArrivalOf(sub'[c], outbox', joined'[c], cursor'[RunKey][c], handled'[c])
             Steady == /\ outbox' = outbox /\ joined'[c] = joined[c]
                       /\ cursor'[RunKey][c] = cursor[RunKey][c]
  <2>1. /\ sub[c] \in Subscriptions /\ sub'[c] \in Subscriptions
        /\ outbox \in SUBSET Rows /\ joined[c] \in Nat \cup {NoCursor}
        /\ cursor[RunKey][c] \in Nat \cup {NoCursor} /\ Top \in Nat
        /\ joined \in [Consumers -> Nat \cup {NoCursor}]
    BY TypeStep, RunKeyAssumption DEF TypeOK, OutboxTypeOK, Top
  <2>2. /\ ArrivalOf(sub[c], outbox, joined[c], cursor[RunKey][c], handled[c])
        /\ handled[c] \subseteq handled'[c] /\ OrderOf(sub[c])
        /\ TailOf(sub[c], Top, outbox)
    BY Zenon, <1>1, HandledGrows DEF OrderInv, TailInv
  <2>3. ASSUME Steady, sub'[c].pos = sub[c].pos, sub'[c].batch = sub[c].batch,
               sub'[c].out = sub[c].out, sub'[c].sent = sub[c].sent
        PROVE  Goal
    BY Zenon, <2>2, <2>3, ArrivalSame
  <2>4. ASSUME NEW e \in EventIDs, NEW peers \in SUBSET Consumers, Publish(e, peers)
        PROVE  Goal
    <3>1. PICK r \in Rows :
            r.seq = Top + 1 /\ outbox' = outbox \cup {r} /\ cursor' = cursor /\ sub' = sub
      BY Zenon, <2>4, PublishFacts
    <3>2. joined' = joined
      BY Zenon, <2>4 DEF Publish
    <3>3. sub[c].pos <= Top /\ (cursor[RunKey][c] # NoCursor => cursor[RunKey][c] <= Top)
      BY Zenon, <2>2 DEF TailOf, WithinLog, LogInv
    <3>4. ArrivalOf(sub[c], outbox \cup {r}, joined[c], cursor[RunKey][c], handled'[c])
      BY Zenon, <2>1, <2>2, <3>1, <3>3, ArrivalGrows
    <3> QED
      BY Zenon, <3>1, <3>2, <3>4
  <2>5. ASSUME NEW d \in Consumers, Subscribe(d) PROVE Goal
    <3>1. PICK n \in Nat :
            /\ n = IF cursor[RunKey][d] = NoCursor THEN Top ELSE cursor[RunKey][d]
            /\ Others(d) /\ Fresh(sub'[d], n) /\ outbox' = outbox
            /\ cursor'[RunKey][d] = n
            /\ \A b \in Consumers : b # d => cursor'[RunKey][b] = cursor[RunKey][b]
            /\ joined' = [joined EXCEPT ![d] = IF @ = NoCursor THEN n ELSE @]
      BY Zenon, <2>5, SubscribeFacts
    <3>2. CASE d # c
      BY ZenonT(30), <2>1, <2>3, <3>1, <3>2 DEF Others
    <3>3. CASE d = c
      <4>1. joined'[c] = IF joined[c] = NoCursor THEN n ELSE joined[c]
        BY Zenon, <2>1, <3>1, <3>3
      <4>2. \A r \in outbox : (r.seq > joined'[c] /\ r.seq <= n) => r.event \in handled'[c]
        <5>1. CASE joined[c] = NoCursor
          BY <2>1, <4>1, <5>1, RowFields
        <5>2. CASE joined[c] # NoCursor
          <6>1. n = cursor[RunKey][c]
            BY Zenon, <2>2, <3>1, <3>3, <5>2 DEF ArrivalOf
          <6> QED
            BY Zenon, <2>2, <4>1, <5>2, <6>1 DEF ArrivalOf
        <5> QED
          BY ZenonT(30), <5>1, <5>2
      <4>3. n # NoCursor
        BY Zenon, NoCursorAssumption
      <4> QED
        BY <3>1, <3>3, <4>2, <4>3 DEF ArrivalOf, Fresh
    <3> QED
      BY Zenon, <3>2, <3>3
  <2>6. ASSUME NEW d \in Consumers, SubscribeFails(d) \/ Crash(d) PROVE Goal
    <3>1. Others(d) /\ Fresh(sub'[d], 0) /\ Steady
      BY <2>6, RestartFacts DEF SubscribeFails, Crash, outboxVars
    <3>2. CASE d # c
      BY ZenonT(30), <2>3, <3>1, <3>2 DEF Others
    <3>3. CASE d = c
      <4>1. \A r \in outbox : ~(r.seq <= 0)
        BY <2>1, RowFields
      <4> QED
        BY SMTT(30), <2>2, <3>1, <3>3, <4>1 DEF ArrivalOf, Fresh
    <3> QED
      BY Zenon, <3>2, <3>3
  <2>7. ASSUME NEW d \in Consumers, ReadRows(d) PROVE Goal
    <3>1. /\ Others(d) /\ sub'[d].pos = sub[d].pos /\ sub'[d].batch = NextRows(d)
          /\ SameChannel(sub[d], sub'[d])
      BY Zenon, <2>7, ReadFacts
    <3>2. Steady
      BY Zenon, <2>7 DEF ReadRows, outboxVars
    <3>3. CASE d # c
      BY Zenon, <2>3, <3>1, <3>2, <3>3 DEF Others
    <3>4. CASE d = c
      <4>1. NextRows(c) \subseteq outbox
        BY Zenon, NextRowsDense
      <4>2. \A r \in outbox : r.seq <= sub[c].pos => r \notin sub[c].batch
        <5>1. sub[c].pos \in Nat
          BY <2>1, SubFields
        <5>2. \A r \in sub[c].batch : r.seq > sub[c].pos
          BY Zenon, <2>2 DEF OrderOf
        <5>3. \A r \in outbox : r.seq \in Nat
          BY Zenon, <2>1, RowFields
        <5>4. \A r \in outbox : r.seq <= sub[c].pos => ~(r.seq > sub[c].pos)
          BY <5>1, <5>3
        <5> QED
          BY Zenon, <5>2, <5>4
      <4> QED
        BY ZenonT(30), <2>2, <3>1, <3>2, <3>4, <4>1, <4>2 DEF ArrivalOf, InOut, SameChannel
    <3> QED
      BY <3>3, <3>4
  <2>8. ASSUME NEW d \in Consumers, ReadFails(d) \/ Poll(d) PROVE Goal
    <3>1. Steady
      BY Zenon, <2>8 DEF ReadFails, Poll, outboxVars
    <3> QED
      BY Zenon, <2>3, <2>8, <3>1, WaitFacts DEF Others, SameTail, SameChannel
  <2>9. ASSUME NEW d \in Consumers, SendRow(d) PROVE Goal
    <3>1. Steady
      BY Zenon, <2>9 DEF SendRow, outboxVars
    <3>2. CASE d # c
      BY Zenon, <2>3, <2>9, <3>1, <3>2, SendFacts DEF Others
    <3>3. CASE d = c
      <4>1. PICK r \in sub[c].batch :
              /\ \A q \in sub[c].batch : r.seq <= q.seq
              /\ sub'[c].pos = IF r.seq > sub[c].pos THEN r.seq ELSE sub[c].pos
              /\ sub'[c].batch = sub[c].batch \ {r}
              /\ DeliveredTo(sub[c], sub'[c], r)
        BY Zenon, <2>9, <3>3, SendFacts
      <4>2. BatchDense(sub[c], outbox) /\ \A e \in sub[c].dedup : Sent(sub[c], e)
        BY <2>2 DEF TailOf, PassedSent
      <4>3. ArrivalOf(sub'[c], outbox, joined[c], cursor[RunKey][c], handled[c])
        BY Zenon, <1>1, <2>1, <2>2, <4>1, <4>2, ArrivalSend
      <4> QED
        BY Zenon, <2>2, <3>1, <4>3, ArrivalSame
    <3> QED
      BY <3>2, <3>3
  <2>10. ASSUME NEW d \in Consumers, TakeHint(d) PROVE FALSE
    BY Zenon, <2>10, TakeHintFacts DEF OrderInv, OrderOf
  <2>11. ASSUME NEW d \in Consumers, NEW e \in EventIDs, WindowExpires(d, e) PROVE Goal
    <3>1. Steady
      BY Zenon, <2>11 DEF WindowExpires, outboxVars
    <3> QED
      BY Zenon, <2>3, <2>11, <3>1, ExpiryFacts DEF Others, SameTail
  <2>12. ASSUME NEW d \in Consumers, NEW acked \in BOOLEAN, Consume(d, acked) PROVE Goal
    <3>1. /\ outbox' = outbox /\ joined' = joined
          /\ \A b \in Consumers : b # d => cursor'[RunKey][b] = cursor[RunKey][b]
          /\ \/ cursor'[RunKey][d] = cursor[RunKey][d]
             \/ cursor'[RunKey][d] = Head(sub[d].out).seq
      BY Zenon, <2>12, ConsumeCursor DEF Consume
    <3>2. CASE d # c
      BY Zenon, <2>3, <2>12, <3>1, <3>2, ConsumeFacts DEF Others
    <3>3. CASE d = c
      <4>1. /\ SameTail(sub[c], sub'[c]) /\ sub'[c].sent = sub[c].sent
            /\ sub[c].out # <<>> /\ sub'[c].out = Tail(sub[c].out)
        BY Zenon, <2>12, <3>3, ConsumeFacts
      <4>2. handled'[c] = handled[c] \cup {Head(sub[c].out).event}
        BY Zenon, <2>12, <3>3 DEF Consume, TypeOK
      <4>3. cursor'[RunKey][c] \in Nat \cup {NoCursor}
        BY Zenon, <2>12, ConsumeCursor, RunKeyAssumption
      <4>4. ArrivalOf(sub'[c], outbox, joined[c], cursor'[RunKey][c],
                      handled[c] \cup {Head(sub[c].out).event})
        BY ZenonT(30), <2>1, <2>2, <3>1, <3>3, <4>1, <4>3, ArrivalConsume
      <4> QED
        BY Zenon, <3>1, <4>2, <4>4
    <3> QED
      BY Zenon, <3>2, <3>3
  <2>13. ASSUME NEW hint \in mesh, HandleFastPath(hint[1], hint[2]) PROVE FALSE
    BY Zenon DEF OrderInv
  <2>14. ASSUME NEW e \in EventIDs, PublishFails(e) PROVE Goal
    <3>1. Steady /\ sub' = sub
      BY Zenon, <2>14 DEF PublishFails, outboxVars
    <3> QED
      BY Zenon, <2>3, <3>1
  <2>15. CASE UNCHANGED vars
    <3>1. Steady /\ sub' = sub
      BY Zenon, <2>15 DEF vars, outboxVars
    <3> QED
      BY Zenon, <2>3, <3>1
  <2> QED
    BY ZenonT(30), <1>2, <2>4, <2>5, <2>6, <2>7, <2>8, <2>9, <2>10, <2>11, <2>12, <2>13, <2>14, <2>15
    DEF Next, Tailing
<1> QED
  BY Zenon, <1>3, <1>4, <1>5

=============================================================================
