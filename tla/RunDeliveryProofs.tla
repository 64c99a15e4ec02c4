------------------------- MODULE RunDeliveryProofs -------------------------
(***************************************************************************)
(* The delivery substrate keeps its promises for any number of replicas    *)
(* and events, any batch and channel size, and any number of crashes:      *)
(* from the steps of RunDeliveryLemmas, and from the two places where      *)
(* counting matters, how many rows a read takes (BatchesDense) and how     *)
(* often an event went out (CountInv).                                     *)
(***************************************************************************)
EXTENDS RunDeliveryLemmas, FiniteSetTheorems

FiniteLog == IsFiniteSet(outbox)

(* An event went out once for every time the window forgot it, and once    *)
(* more when the window has it now.                                        *)
TimesSent(s, e) == Cardinality({i \in 1 .. Len(s.sent) : s.sent[i].event = e})

CountOf(s, n) ==
    \A e \in EventIDs : TimesSent(s, e) <= (IF e \in s.dedup THEN 1 ELSE 0) + n

CountInv == \A c \in Consumers : CountOf(sub[c], spent.expiries)

-----------------------------------------------------------------------------
(* The log and the tails                                                   *)

LEMMA ReadDense ==
    ASSUME TypeOK, LogInv, FiniteLog, NEW c \in Consumers
    PROVE  /\ NextRows(c) \subseteq outbox
           /\ \A b \in NextRows(c) : b.seq > sub[c].pos
           /\ \A b \in NextRows(c), q \in outbox :
                 (sub[c].pos < q.seq /\ q.seq <= b.seq) => q \in NextRows(c)
<1> DEFINE after == RowsAfter(RunKey, sub[c].pos)
           below(r) == {q \in after : q.seq < r.seq}
<1>1. after \subseteq outbox /\ outbox \subseteq Rows /\ IsFiniteSet(outbox)
  BY Zenon DEF RowsAfter, FiniteLog, TypeOK, OutboxTypeOK
<1>2. IsFiniteSet(after)
  BY Zenon, <1>1, FS_Subset
<1>3. \A r \in after : IsFiniteSet(below(r)) /\ Cardinality(below(r)) \in Nat
  BY Zenon, <1>2, FS_Subset, FS_CardinalityType
<1>4. NextRows(c) = {r \in after : Cardinality(below(r)) < ReplayBatch}
  BY Zenon DEF NextRows
<1>5. ASSUME NEW b \in NextRows(c), NEW q \in outbox, sub[c].pos < q.seq, q.seq <= b.seq
      PROVE  q \in NextRows(c)
  <2>1. q \in after /\ b \in after
    BY Zenon, <1>4, <1>5 DEF RowsAfter, LogInv
  <2>2. below(q) \subseteq below(b)
    <3>1. q.seq \in Nat /\ b.seq \in Nat /\ \A r \in after : r.seq \in Nat
      BY ZenonT(30), <1>1, <2>1, RowFields
    <3> QED
      BY <1>5, <3>1
  <2>3. Cardinality(below(q)) <= Cardinality(below(b))
    BY SMTT(30), <1>3, <2>1, <2>2, FS_Subset
  <2>4. Cardinality(below(b)) < ReplayBatch /\ ReplayBatch \in Nat
    BY Zenon, <1>4, BufferAssumption DEF Seqs
  <2>5. Cardinality(below(q)) \in Nat /\ Cardinality(below(b)) \in Nat
    BY Zenon, <1>3, <2>1
  <2>6. Cardinality(below(q)) < ReplayBatch
    BY SMTT(30), <2>3, <2>4, <2>5
  <2> QED
    BY Zenon, <1>4, <2>1, <2>6
<1>6. NextRows(c) \subseteq outbox /\ \A b \in NextRows(c) : b.seq > sub[c].pos
  BY Zenon, <1>1, <1>4 DEF RowsAfter
<1> QED
  BY Zenon, <1>5, <1>6

LEMMA Dense == TypeOK /\ LogInv /\ FiniteLog => BatchesDense
BY Zenon, ReadDense DEF BatchesDense

LEMMA FiniteStep == TypeOK /\ FiniteLog /\ [Next]_vars => FiniteLog'
<1> SUFFICES ASSUME TypeOK, FiniteLog, [Next]_vars PROVE FiniteLog'
  BY Zenon
<1>1. ASSUME NEW e \in EventIDs, NEW peers \in SUBSET Consumers, Publish(e, peers)
      PROVE  FiniteLog'
  <2>1. PICK r \in Rows : outbox' = outbox \cup {r}
    BY Zenon, <1>1, PublishFacts
  <2> QED
    BY Zenon, <2>1, FS_AddElement DEF FiniteLog
<1>2. CASE outbox' \subseteq outbox
  BY Zenon, <1>2, FS_Subset DEF FiniteLog
<1>3. ASSUME NEW c \in Consumers, Subscribe(c) PROVE outbox' = outbox
  BY Zenon, <1>3, SubscribeFacts
<1>4. ASSUME NEW c \in Consumers, NEW acked \in BOOLEAN, Consume(c, acked) PROVE outbox' = outbox
  BY Zenon, <1>4, ConsumeCursor
<1>5. CASE SweepOutbox
  <2>1. outbox' \subseteq outbox
    BY Zenon, <1>5 DEF SweepOutbox, SweepRows
  <2> QED
    BY Zenon, <1>2, <2>1
<1>6. CASE outbox' = outbox
  BY Zenon, <1>2, <1>6
<1>7. ASSUME NEW c \in Consumers, Tailing(c) \/ ReadFails(c) \/ TakeHint(c) PROVE FiniteLog'
  BY Zenon, <1>6, <1>7 DEF Tailing, ReadRows, SendRow, Poll, ReadFails, TakeHint, outboxVars
<1>8. ASSUME NEW c \in Consumers,
             SubscribeFails(c) \/ Crash(c) \/ \E e \in EventIDs : WindowExpires(c, e)
      PROVE  FiniteLog'
  BY Zenon, <1>6, <1>8 DEF SubscribeFails, Crash, WindowExpires, outboxVars
<1>9. ASSUME NEW e \in EventIDs, PublishFails(e) PROVE FiniteLog'
  BY Zenon, <1>6, <1>9 DEF PublishFails, outboxVars
<1>10. ASSUME NEW hint \in mesh, HandleFastPath(hint[1], hint[2]) PROVE FiniteLog'
  BY Zenon, <1>6, <1>10 DEF HandleFastPath, outboxVars
<1>11. ASSUME RetentionElapses \/ SweepCursor PROVE FiniteLog'
  BY Zenon, <1>6, <1>11 DEF RetentionElapses, SweepCursor, SweepCursors, outboxVars
<1>12. CASE UNCHANGED vars
  BY Zenon, <1>6, <1>12 DEF vars, outboxVars
<1> QED
  BY ZenonT(60), <1>1, <1>3, <1>4, <1>5, <1>6, <1>7, <1>8, <1>9, <1>10, <1>11, <1>12 DEF Next

LEMMA TailInvariant == Spec => [](TypeOK /\ LogInv /\ TailInv /\ BatchesDense)
<1>1. Init => LogInv /\ FiniteLog /\ TailInv
  <2> SUFFICES ASSUME Init PROVE LogInv /\ FiniteLog /\ TailInv
    BY Zenon
  <2>1. TypeOK
    BY Zenon, TypeInit
  <2>2. outbox = {} /\ mesh = {} /\ \A c \in Consumers : cursor[RunKey][c] = NoCursor
    BY Zenon, RunKeyAssumption DEF Init, OutboxInit
  <2>3. LogInv /\ FiniteLog
    BY Zenon, <2>2, FS_EmptySet DEF LogInv, FiniteLog
  <2>4. \A c \in Consumers : Fresh(sub[c], 0)
    BY Zenon, FreshSubscription DEF Init
  <2>5. TailInv
    BY SMTT(30), <2>1, <2>4, FreshTail, RunKeyAssumption DEF TailInv, Top, TypeOK, OutboxTypeOK
  <2> QED
    BY Zenon, <2>3, <2>5
<1> QED
  BY <1>1, TypeInit, TypeStep, LogStep, TailStep, FiniteStep, Dense, PTL DEF Spec

(* The tail never passes a retained row it has not put on the channel, for *)
(* any batch and channel size, whatever hints, dedup hits, expiries,       *)
(* crashes and sweeps do (tail, drainFrom, deliver).                       *)
THEOREM NothingSkipped == Spec => []NothingPassedUnsent
<1>1. TypeOK /\ TailInv => NothingPassedUnsent
  BY ZenonT(30) DEF TailInv, TailOf, PassedSent, Sent, NothingPassedUnsent
<1> QED
  BY <1>1, TailInvariant, PTL

LEMMA OrderInvariant == Spec => []OrderInv
<1>1. Init => OrderInv
  <2>1. Init => mesh = {} /\ \A c \in Consumers : Fresh(sub[c], 0)
    BY FreshSubscription DEF Init
  <2> QED
    BY <2>1 DEF OrderInv, OrderOf, Fresh, Ascending
<1> QED
  BY <1>1, OrderStep, TailInvariant, PTL DEF Spec

(* Without the fast path a connection delivers in produce order, crashes,  *)
(* expiries, failed reads and sweeps notwithstanding (drainFrom).          *)
THEOREM DurableOrder == Spec => [](~MeshWired => ProduceOrder)
<1>1. OrderInv => (~MeshWired => ProduceOrder)
  BY Zenon DEF OrderInv, OrderOf, Ascending, ProduceOrder
<1> QED
  BY <1>1, OrderInvariant, PTL

(* Without the fast path, and until rows outlive the retention, every row  *)
(* produced after a replica first subscribed has reached its bus or is     *)
(* still on its way, whatever crashes, restarts, failed reads, failed      *)
(* acknowledgements and expiries happen, for any batch and channel size    *)
(* (tail, consume, Ack).                                                   *)
THEOREM DurableDelivery ==
    Spec => []((~MeshWired /\ spent.elapses = 0) => NoLostRow)
<1>1. Init => ArrivalInv
  <2>1. Init => /\ old.rows = {} /\ old.cursors = {} /\ outbox = {}
                /\ \A c \in Consumers : Fresh(sub[c], 0) /\ joined[c] = NoCursor
    BY FreshSubscription DEF Init, OutboxInit
  <2> QED
    BY <2>1 DEF ArrivalInv, ArrivalOf, Fresh
<1>2. TypeOK /\ LogInv /\ ArrivalInv => ((~MeshWired /\ spent.elapses = 0) => NoLostRow)
  <2> SUFFICES ASSUME TypeOK, LogInv, ArrivalInv, ~MeshWired, spent.elapses = 0,
                      NEW c \in Consumers, NEW r \in outbox, joined[c] # NoCursor,
                      r.seq > joined[c], ~Pending(c, r)
               PROVE  r.event \in handled[c]
    BY Zenon DEF NoLostRow
  <2>1. /\ sub[c] \in Subscriptions /\ r \in Rows
        /\ ArrivalOf(sub[c], outbox, joined[c], cursor[RunKey][c], handled[c])
        /\ cursor[RunKey][c] \in Nat \cup {NoCursor}
    BY RunKeyAssumption DEF ArrivalInv, TypeOK, OutboxTypeOK
  <2>2. CASE Live(c)
    <3>1. sub[c].pos \in Nat /\ r.seq \in Nat
      BY Zenon, <2>1, SubFields, RowFields
    <3>2. r.seq <= sub[c].pos /\ r \notin sub[c].batch /\ ~InOut(sub[c], r)
      BY <2>2, <3>1 DEF Pending, InOut
    <3> QED
      BY Zenon, <2>1, <3>2 DEF ArrivalOf
  <2>3. CASE ~Live(c)
    <3>1. r.seq \in Nat
      BY Zenon, <2>1, RowFields
    <3>2. r.seq <= cursor[RunKey][c]
      BY <2>1, <2>3, <3>1 DEF Pending
    <3> QED
      BY Zenon, <2>1, <3>2 DEF ArrivalOf
  <2> QED
    BY Zenon, <2>2, <2>3
<1> QED
  BY <1>1, <1>2, ArrivalStep, OrderInvariant, TailInvariant, PTL DEF Spec

-----------------------------------------------------------------------------
(* How often an event goes out                                             *)

LEMMA CountDelivered ==
    ASSUME NEW s \in Subscriptions, NEW t \in Subscriptions, NEW n \in Nat,
           NEW r \in Rows, CountOf(s, n), DeliveredTo(s, t, r)
    PROVE  CountOf(t, n)
<1>1. CASE r.event \in s.dedup
  BY Zenon, <1>1 DEF DeliveredTo, CountOf, TimesSent
<1>2. CASE r.event \notin s.dedup
  <2> SUFFICES ASSUME NEW e \in EventIDs
               PROVE  TimesSent(t, e) <= (IF e \in t.dedup THEN 1 ELSE 0) + n
    BY Zenon DEF CountOf
  <2> DEFINE S == {i \in 1 .. Len(s.sent) : s.sent[i].event = e}
             T == {i \in 1 .. Len(t.sent) : t.sent[i].event = e}
             x == Len(s.sent) + 1
  <2>1. t.sent = Append(s.sent, r) /\ t.dedup = s.dedup \cup {r.event}
    BY Zenon, <1>2 DEF DeliveredTo
  <2>2. /\ Len(s.sent) \in Nat /\ Len(t.sent) = x /\ t.sent[x] = r
        /\ \A i \in 1 .. Len(s.sent) : t.sent[i] = s.sent[i]
    BY SMTT(30), <2>1, SubFields, AppendElements
  <2>3. IsFiniteSet(S) /\ Cardinality(S) \in Nat
    <3>1. IsFiniteSet(1 .. Len(s.sent))
      BY SMTT(30), <2>2, FS_Interval
    <3> QED
      BY ZenonT(30), <3>1, FS_Subset, FS_CardinalityType
  <2>4. Cardinality(S) <= (IF e \in s.dedup THEN 1 ELSE 0) + n
    BY Zenon DEF CountOf, TimesSent
  <2>5. CASE e = r.event
    <3>1. T = S \cup {x} /\ x \notin S
      <4>1. 1 .. x = (1 .. Len(s.sent)) \cup {x} /\ x \notin 1 .. Len(s.sent)
        BY <2>2
      <4> QED
        BY ZenonT(30), <2>2, <2>5, <4>1
    <3> HIDE DEF S, T, x
    <3>2. Cardinality(T) = Cardinality(S) + 1
      BY Zenon, <2>3, <3>1, FS_AddElement
    <3>3. Cardinality(T) <= 1 + n
      BY SMTT(30), <1>2, <2>3, <2>4, <2>5, <3>2
    <3> QED
      BY Zenon, <2>1, <2>5, <3>3 DEF TimesSent, T
  <2>6. CASE e # r.event
    <3>1. \A i \in 1 .. x : i \in 1 .. Len(s.sent) \/ i = x
      BY <2>2
    <3>2. ASSUME NEW i \in T PROVE i \in S
      <4>1. i \in 1 .. x /\ t.sent[i].event = e
        BY Zenon, <2>2
      <4>2. i # x
        BY ZenonT(30), <2>2, <2>6, <4>1
      <4> QED
        BY SMTT(30), <2>2, <3>1, <4>1, <4>2
    <3>3. T = S
      <4>1. S \subseteq T
        BY <2>2
      <4> QED
        BY Zenon, <3>2, <4>1
    <3> QED
      BY ZenonT(30), <2>1, <2>4, <2>6, <3>3 DEF TimesSent
  <2> QED
    BY Zenon, <2>5, <2>6
<1> QED
  BY Zenon, <1>1, <1>2

LEMMA CountFresh ==
    ASSUME NEW t, NEW m, NEW n \in Nat, Fresh(t, m)
    PROVE  CountOf(t, n)
<1> SUFFICES ASSUME NEW e \in EventIDs
             PROVE  TimesSent(t, e) <= (IF e \in t.dedup THEN 1 ELSE 0) + n
  BY Zenon DEF CountOf
<1>1. {i \in 1 .. Len(t.sent) : t.sent[i].event = e} = {}
  BY DEF Fresh
<1>2. TimesSent(t, e) = 0
  BY Zenon, <1>1, FS_EmptySet DEF TimesSent
<1> QED
  BY <1>2

LEMMA CountSame ==
    ASSUME NEW s, NEW t, NEW n, CountOf(s, n), t.dedup = s.dedup, t.sent = s.sent
    PROVE  CountOf(t, n)
  BY ZenonT(30) DEF CountOf, TimesSent

LEMMA CountStep == TypeOK /\ CountInv /\ [Next]_vars => CountInv'
<1> SUFFICES ASSUME TypeOK, CountInv, [Next]_vars, NEW c \in Consumers
             PROVE  CountOf(sub'[c], spent'.expiries)
  BY Zenon DEF CountInv
<1>1. sub[c] \in Subscriptions /\ CountOf(sub[c], spent.expiries) /\ spent.expiries \in Nat
  BY BoundsAssumption DEF TypeOK, CountInv
<1>2. sub'[c] \in Subscriptions
  BY Zenon, TypeStep DEF TypeOK
<1> DEFINE Goal == CountOf(sub'[c], spent'.expiries)
           Same == spent'.expiries = spent.expiries
<1>3. CASE Same /\ sub'[c] = sub[c]
  BY Zenon, <1>1, <1>3
<1>4. ASSUME NEW m, Same, Fresh(sub'[c], m) PROVE Goal
  BY Zenon, <1>1, <1>4, CountFresh
<1>5. CASE Same /\ sub'[c].dedup = sub[c].dedup /\ sub'[c].sent = sub[c].sent
  BY Zenon, <1>1, <1>5, CountSame
<1>6. ASSUME NEW r \in Rows, Same, DeliveredTo(sub[c], sub'[c], r) PROVE Goal
  BY ZenonT(30), <1>1, <1>2, <1>6, CountDelivered
<1>7. ASSUME NEW d \in Consumers, Subscribe(d) PROVE Goal
  BY ZenonT(30), <1>3, <1>4, <1>7, SubscribeFacts DEF Subscribe, Others
<1>8. ASSUME NEW d \in Consumers, SubscribeFails(d) PROVE Goal
  BY ZenonT(30), <1>3, <1>4, <1>8, RestartFacts DEF SubscribeFails, Others
<1>9. ASSUME NEW d \in Consumers, Crash(d) PROVE Goal
  <2>1. Same
    BY Zenon, <1>9 DEF Crash, TypeOK
  <2>2. Others(d) /\ Fresh(sub'[d], 0)
    BY Zenon, <1>9, RestartFacts DEF Crash
  <2> QED
    BY SMTT(30), <1>3, <1>4, <2>1, <2>2 DEF Others
<1>10. ASSUME NEW hint \in mesh, HandleFastPath(hint[1], hint[2]) PROVE Goal
  BY ZenonT(30), <1>3, <1>5, <1>10, HandleFastPathFacts DEF HandleFastPath, Others
<1>11. ASSUME NEW d \in Consumers, ReadRows(d) PROVE Goal
  BY ZenonT(30), <1>3, <1>5, <1>11, ReadFacts DEF ReadRows, Others, SameChannel
<1>12. ASSUME NEW d \in Consumers, ReadFails(d) \/ Poll(d) PROVE Goal
  BY SMTT(30), <1>3, <1>5, <1>12, WaitFacts DEF ReadFails, Poll, Others, SameChannel
<1>13. ASSUME NEW d \in Consumers, SendRow(d) PROVE Goal
  <2>1. Same /\ Others(d) /\ \E r \in Rows : DeliveredTo(sub[d], sub'[d], r)
    BY ZenonT(30), <1>13, SendFacts DEF SendRow
  <2> QED
    BY SMTT(30), <1>3, <1>6, <2>1 DEF Others
<1>14. ASSUME NEW d \in Consumers, TakeHint(d) PROVE Goal
  <2>1. Same /\ Others(d) /\ \E r \in Rows : DeliveredTo(sub[d], sub'[d], r)
    BY ZenonT(30), <1>14, TakeHintFacts DEF TakeHint
  <2> QED
    BY <1>3, <1>6, <2>1 DEF Others
<1>15. ASSUME NEW d \in Consumers, NEW e \in EventIDs, WindowExpires(d, e) PROVE Goal
  <2>1. spent'.expiries = spent.expiries + 1
    BY Zenon, <1>15 DEF WindowExpires, TypeOK
  <2>2. /\ Others(d) /\ sub'[d].dedup = sub[d].dedup \ {e} /\ sub'[d].sent = sub[d].sent
    BY ZenonT(30), <1>15, ExpiryFacts
  <2>3. /\ sub'[c].sent = sub[c].sent
        /\ sub'[c].dedup = sub[c].dedup \/ sub'[c].dedup = sub[c].dedup \ {e}
    BY Zenon, <2>2 DEF Others
  <2> SUFFICES ASSUME NEW f \in EventIDs
               PROVE  TimesSent(sub'[c], f)
                        <= (IF f \in sub'[c].dedup THEN 1 ELSE 0) + (spent.expiries + 1)
    BY Zenon, <2>1 DEF CountOf
  <2>4. TimesSent(sub[c], f) <= (IF f \in sub[c].dedup THEN 1 ELSE 0) + spent.expiries
    BY Zenon, <1>1 DEF CountOf
  <2>5. TimesSent(sub'[c], f) = TimesSent(sub[c], f)
    BY ZenonT(30), <2>3 DEF TimesSent
  <2>6. TimesSent(sub[c], f) \in Nat
    <3>1. Len(sub[c].sent) \in Nat
      BY ZenonT(30), <1>1, SubFields
    <3>2. IsFiniteSet(1 .. Len(sub[c].sent))
      BY SMTT(30), <3>1, FS_Interval
    <3> QED
      BY SMTT(30), <3>2, FS_Subset, FS_CardinalityType DEF TimesSent
  <2> QED
    BY SMTT(30), <1>1, <2>4, <2>5, <2>6
<1>16. ASSUME NEW d \in Consumers, NEW acked \in BOOLEAN, Consume(d, acked) PROVE Goal
  BY SMTT(30), <1>3, <1>5, <1>16, ConsumeFacts DEF Consume, Others
<1>17. CASE RetentionElapses
  <2>1. Same /\ sub' = sub
    BY Zenon, <1>17 DEF RetentionElapses, TypeOK
  <2> QED
    BY ZenonT(30), <1>3, <2>1
<1> QED
  BY SMTT(30), <1>3, <1>7, <1>8, <1>9, <1>10, <1>11, <1>12, <1>13, <1>14, <1>15, <1>16, <1>17
  DEF Next, vars, Tailing, Publish, PublishFails, SweepOutbox, SweepCursor

(* Within one connection an event goes out at most once more than the      *)
(* window forgot something, by hint and by row together, for any number of *)
(* replicas and events (deliver, eventDedup).                              *)
THEOREM DedupHolds == Spec => []DeliveredOnce
<1>1. Init => CountInv
  <2>1. Init => \A c \in Consumers : Fresh(sub[c], 0) /\ spent.expiries = 0
    BY FreshSubscription DEF Init
  <2> QED
    BY ZenonT(30), <2>1, CountFresh DEF CountInv
<1>2. TypeOK /\ CountInv => DeliveredOnce
  <2> SUFFICES ASSUME TypeOK, CountInv, NEW c \in Consumers, NEW e \in EventIDs
               PROVE  TimesSent(sub[c], e) <= 1 + spent.expiries
    BY Zenon DEF DeliveredOnce, TimesSent
  <2>1. TimesSent(sub[c], e) <= (IF e \in sub[c].dedup THEN 1 ELSE 0) + spent.expiries
    BY Zenon DEF CountInv, CountOf
  <2>2. spent.expiries \in Nat
    BY BoundsAssumption DEF TypeOK
  <2>3. TimesSent(sub[c], e) \in Nat
    <3>1. Len(sub[c].sent) \in Nat
      BY Zenon, SubFields DEF TypeOK
    <3>2. IsFiniteSet(1 .. Len(sub[c].sent))
      BY <3>1, FS_Interval
    <3> QED
      BY ZenonT(30), <3>2, FS_Subset, FS_CardinalityType DEF TimesSent
  <2> QED
    BY SMTT(30), <2>1, <2>2, <2>3
<1> QED
  BY <1>1, <1>2, CountStep, TypeCorrect, PTL DEF Spec

=============================================================================
