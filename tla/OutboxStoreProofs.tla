------------------------- MODULE OutboxStoreProofs -------------------------
(***************************************************************************)
(* Proofs about the Postgres outbox store, for any keys, events, consumers *)
(* and sessions.                                                           *)
(*                                                                         *)
(* The inductive invariant says what the row lock buys: whoever holds a    *)
(* key's lock is alone, and is about to commit the seq right after the     *)
(* committed one; and everything a reader may have taken as a position is  *)
(* at or below the committed seq.                                          *)
(***************************************************************************)
EXTENDS OutboxStore, TLAPS

(* The lock holder of a key has the next seq, and there is one holder.     *)
LockHolderIsNext ==
    \A p \in Producers : HoldsRowLock(p) => tx[p].seq = nextSeq[tx[p].key] + 1

OneLockHolder ==
    \A p, q \in Producers :
        (p # q /\ HoldsRowLock(p) /\ HoldsRowLock(q)) => tx[p].key # tx[q].key

(* A row that awaits its commit has an EventID nobody else has.            *)
InsertedIsFresh ==
    \A p \in Producers : tx[p].step = "inserted" =>
        /\ ~ Produced(tx[p].event)
        /\ \A q \in Producers :
              (q # p /\ tx[q].step = "inserted") => tx[q].event # tx[p].event

(* Rows, cursors and start positions were all handed out by the allocator. *)
RowsAllocated == \A r \in outbox : r.seq <= nextSeq[r.key]

CursorsAllocated ==
    \A k \in Keys, c \in Consumers :
        cursor[k][c] # NoCursor => cursor[k][c] <= nextSeq[k]

StartsAllocated ==
    \A s \in Subscribers :
        start[s].step = "ready" => start[s].pos <= nextSeq[start[s].key]

StoreInv ==
    /\ TypeOK
    /\ LockHolderIsNext
    /\ OneLockHolder
    /\ InsertedIsFresh
    /\ RowsAllocated
    /\ OneRowPerEvent
    /\ CursorsAllocated
    /\ StartsAllocated

-----------------------------------------------------------------------------
(* Facts about one state                                                   *)

(* An Append past its first statement is an open transaction: its key,     *)
(* event and seq are defined.                                              *)
LEMMA OpenTx ==
    ASSUME TypeOK, NEW p \in Producers, tx[p] # Idle
    PROVE  /\ tx[p] \in OpenTransactions
           /\ tx[p].key \in Keys
           /\ tx[p].event \in EventIDs
           /\ tx[p].seq \in Nat
BY Zenon DEF TypeOK, OpenTransactions

LEMMA OpenTxStep ==
    ASSUME TypeOK, NEW p \in Producers, tx[p].step # "idle"
    PROVE  tx[p] # Idle
BY DEF Idle

LEMMA OpenStart ==
    ASSUME TypeOK, NEW s \in Subscribers, start[s].step # "absent"
    PROVE  /\ start[s] \in OpenStarts
           /\ start[s].key \in Keys
           /\ start[s].pos \in Nat
BY DEF TypeOK, OpenStarts, Absent

-----------------------------------------------------------------------------
(* The invariant is inductive                                              *)

LEMMA InitInv == Init => StoreInv
<1> SUFFICES ASSUME Init PROVE StoreInv
    BY Zenon
<1> USE DEF Init, OutboxInit
<1>1. TypeOK
    BY Zenon DEF TypeOK, OutboxTypeOK
<1>2. \A p \in Producers : tx[p].step = "idle"
    BY Zenon DEF Idle
<1>3. \A s \in Subscribers : start[s].step = "absent"
    BY Zenon DEF Absent
<1> QED
    BY Zenon, <1>1, <1>2, <1>3 DEF StoreInv, LockHolderIsNext, OneLockHolder,
       InsertedIsFresh, HoldsRowLock, RowsAllocated, OneRowPerEvent,
       CursorsAllocated, StartsAllocated

(* A step that leaves the tables alone and moves one transaction to a      *)
(* state without the row lock.                                             *)
LEMMA BeginAppendInv ==
    ASSUME StoreInv, NEW p \in Producers, NEW k \in Keys, NEW e \in EventIDs,
           BeginAppend(p, k, e)
    PROVE  StoreInv'
<1> DEFINE t == [step |-> "checked", key |-> k, event |-> e, seq |-> 0]
<1>1. /\ tx' = [tx EXCEPT ![p] = t]
      /\ UNCHANGED <<outbox, nextSeq, cursor, start>>
    BY Zenon DEF BeginAppend
<1>2. t \in OpenTransactions /\ t.step = "checked"
    BY Zenon DEF OpenTransactions
<1> HIDE DEF t
<1>3. TypeOK'
    BY Zenon, <1>1, <1>2 DEF StoreInv, TypeOK, OutboxTypeOK
<1>4. /\ tx'[p].step = "checked"
      /\ \A q \in Producers : q # p => tx'[q] = tx[q]
    BY Zenon, <1>1, <1>2 DEF StoreInv, TypeOK
<1>5. LockHolderIsNext' /\ OneLockHolder' /\ InsertedIsFresh'
    BY <1>1, <1>4 DEF StoreInv, LockHolderIsNext, OneLockHolder,
       InsertedIsFresh, HoldsRowLock, Produced
<1> QED
    BY Zenon, <1>1, <1>3, <1>5 DEF StoreInv, RowsAllocated, OneRowPerEvent,
       CursorsAllocated, StartsAllocated

LEMMA AllocateSeqInv ==
    ASSUME StoreInv, NEW p \in Producers, AllocateSeq(p)
    PROVE  StoreInv'
<1>1. /\ tx[p].step = "checked"
      /\ \A q \in Producers : HoldsRowLock(q) => tx[q].key # tx[p].key
      /\ UNCHANGED <<outbox, nextSeq, cursor, start>>
    BY Zenon DEF AllocateSeq
<1>update. tx' = [tx EXCEPT ![p].step = "allocated",
                            ![p].seq = nextSeq[tx[p].key] + 1]
    BY Zenon DEF AllocateSeq
<1>2. tx[p] \in OpenTransactions /\ tx[p].key \in Keys
    BY Zenon, <1>1, OpenTx, OpenTxStep DEF StoreInv
<1>3. nextSeq[tx[p].key] + 1 \in Nat
    BY <1>2 DEF StoreInv, TypeOK, OutboxTypeOK
<1>4. tx'[p] = [step |-> "allocated", key |-> tx[p].key,
                event |-> tx[p].event, seq |-> nextSeq[tx[p].key] + 1]
    BY Zenon, <1>update, <1>2 DEF StoreInv, TypeOK, OpenTransactions
<1>5. tx'[p] \in OpenTransactions
    BY <1>2, <1>3, <1>4 DEF OpenTransactions
<1>6. \A q \in Producers : q # p => tx'[q] = tx[q]
    BY Zenon, <1>update DEF StoreInv, TypeOK
<1>7. TypeOK'
    <2>1. tx' \in [Producers -> OpenTransactions \cup {Idle}]
        BY Zenon, <1>update, <1>5, <1>6 DEF StoreInv, TypeOK
    <2> QED
        BY Zenon, <1>1, <2>1 DEF StoreInv, TypeOK, OutboxTypeOK
<1>8. LockHolderIsNext'
    BY <1>1, <1>4, <1>6 DEF StoreInv, LockHolderIsNext, HoldsRowLock
<1>9. OneLockHolder'
    BY <1>1, <1>4, <1>6 DEF StoreInv, OneLockHolder, HoldsRowLock
<1>10. InsertedIsFresh'
    BY <1>1, <1>4, <1>6 DEF StoreInv, InsertedIsFresh, Produced
<1> QED
    BY Zenon, <1>1, <1>7, <1>8, <1>9, <1>10 DEF StoreInv, RowsAllocated,
       OneRowPerEvent, CursorsAllocated, StartsAllocated

LEMMA InsertRowInv ==
    ASSUME StoreInv, NEW p \in Producers, InsertRow(p)
    PROVE  StoreInv'
<1> DEFINE outcome == IF Produced(tx[p].event) THEN "lost" ELSE "inserted"
<1>1. /\ tx[p].step = "allocated"
      /\ \A q \in Producers :
            tx[q].step = "inserted" => tx[q].event # tx[p].event
      /\ tx' = [tx EXCEPT ![p].step = outcome]
      /\ UNCHANGED <<outbox, nextSeq, cursor, start>>
    BY Zenon DEF InsertRow
<1>2. tx[p] \in OpenTransactions
    BY Zenon, <1>1, OpenTx, OpenTxStep DEF StoreInv
<1>3. outcome \in {"lost", "inserted"}
    BY Zenon
<1>4. outcome = "inserted" => ~ Produced(tx[p].event)
    BY Zenon
<1> HIDE DEF outcome
<1>5. tx'[p] = [step |-> outcome, key |-> tx[p].key,
                event |-> tx[p].event, seq |-> tx[p].seq]
    BY Zenon, <1>1, <1>2 DEF StoreInv, TypeOK, OpenTransactions
<1>6. tx'[p] \in OpenTransactions
    BY <1>2, <1>3, <1>5 DEF OpenTransactions
<1>7. \A q \in Producers : q # p => tx'[q] = tx[q]
    BY Zenon, <1>1 DEF StoreInv, TypeOK
<1>8. TypeOK'
    <2>1. tx' \in [Producers -> OpenTransactions \cup {Idle}]
        BY Zenon, <1>1, <1>6, <1>7 DEF StoreInv, TypeOK
    <2> QED
        BY Zenon, <1>1, <2>1 DEF StoreInv, TypeOK, OutboxTypeOK
<1>9. LockHolderIsNext'
    BY <1>1, <1>5, <1>7 DEF StoreInv, LockHolderIsNext, HoldsRowLock
<1>10. OneLockHolder'
    BY <1>1, <1>5, <1>7 DEF StoreInv, OneLockHolder, HoldsRowLock
<1>11. InsertedIsFresh'
    BY <1>1, <1>4, <1>5, <1>7 DEF StoreInv, InsertedIsFresh, Produced
<1> QED
    BY Zenon, <1>1, <1>8, <1>9, <1>10, <1>11 DEF StoreInv, RowsAllocated,
       OneRowPerEvent, CursorsAllocated, StartsAllocated

(* A transaction that ends holds no lock and has no row to commit; the     *)
(* others are as they were.                                                *)
LEMMA CloseTx ==
    ASSUME TypeOK, NEW p \in Producers, tx' = [tx EXCEPT ![p] = Idle]
    PROVE  /\ tx' \in [Producers -> OpenTransactions \cup {Idle}]
           /\ tx'[p].step = "idle"
           /\ \A q \in Producers : q # p => tx'[q] = tx[q]
<1>1. tx'[p] = Idle /\ \A q \in Producers : q # p => tx'[q] = tx[q]
    BY Zenon DEF TypeOK
<1>2. Idle.step = "idle"
    BY Zenon DEF Idle
<1> QED
    BY Zenon, <1>1, <1>2 DEF TypeOK

(* The commit of a lock holder's allocation moves its key's committed seq  *)
(* up by one and frees the key.  The other lock holders have other keys,   *)
(* so their next seq did not move.                                         *)
LEMMA CommitAllocation ==
    ASSUME StoreInv, NEW p \in Producers, HoldsRowLock(p),
           tx' = [tx EXCEPT ![p] = Idle],
           nextSeq' = [nextSeq EXCEPT ![tx[p].key] = tx[p].seq],
           UNCHANGED <<cursor, start>>
    PROVE  /\ tx[p].key \in Keys
           /\ tx[p].seq = nextSeq[tx[p].key] + 1
           /\ nextSeq'[tx[p].key] = tx[p].seq
           /\ nextSeq' \in [Keys -> Nat]
           /\ \A j \in Keys : nextSeq[j] <= nextSeq'[j]
           /\ LockHolderIsNext'
           /\ OneLockHolder'
           /\ CursorsAllocated'
           /\ StartsAllocated'
<1> DEFINE k == tx[p].key
           n == tx[p].seq
<1>1. /\ tx'[p].step = "idle"
      /\ \A q \in Producers : q # p => tx'[q] = tx[q]
    BY Zenon, CloseTx DEF StoreInv
<1>2. k \in Keys /\ n \in Nat
    BY Zenon, OpenTx, OpenTxStep DEF StoreInv, HoldsRowLock
<1>3. nextSeq[k] \in Nat /\ n = nextSeq[k] + 1
    BY Zenon, <1>2 DEF StoreInv, LockHolderIsNext, TypeOK, OutboxTypeOK
<1>4. /\ nextSeq'[k] = n
      /\ \A j \in Keys : j # k => nextSeq'[j] = nextSeq[j]
      /\ nextSeq \in [Keys -> Nat] /\ nextSeq' \in [Keys -> Nat]
      /\ \A j \in Keys : nextSeq[j] <= nextSeq'[j]
    BY <1>2, <1>3 DEF StoreInv, TypeOK, OutboxTypeOK
<1>5. LockHolderIsNext'
    <2> SUFFICES ASSUME NEW q \in Producers, HoldsRowLock(q)'
                 PROVE  tx'[q].seq = nextSeq'[tx'[q].key] + 1
        BY Zenon DEF LockHolderIsNext
    <2>1. q # p /\ tx'[q] = tx[q] /\ HoldsRowLock(q)
        BY Zenon, <1>1 DEF HoldsRowLock
    <2>2. tx[q].key # k
        BY Zenon, <2>1 DEF StoreInv, OneLockHolder
    <2>3. tx[q].key \in Keys
        BY Zenon, <2>1, OpenTx, OpenTxStep DEF HoldsRowLock, StoreInv
    <2> QED
        BY Zenon, <1>4, <2>1, <2>2, <2>3 DEF StoreInv, LockHolderIsNext
<1>6. OneLockHolder'
    BY <1>1 DEF StoreInv, OneLockHolder, HoldsRowLock
<1>7. CursorsAllocated'
    <2> SUFFICES ASSUME NEW j \in Keys, NEW c \in Consumers,
                        cursor[j][c] # NoCursor
                 PROVE  cursor[j][c] <= nextSeq'[j]
        BY Zenon DEF CursorsAllocated
    <2>1. cursor[j][c] \in Nat /\ cursor[j][c] <= nextSeq[j]
        BY DEF StoreInv, CursorsAllocated, TypeOK, OutboxTypeOK
    <2> QED
        BY <1>4, <2>1
<1>8. StartsAllocated'
    <2> SUFFICES ASSUME NEW s \in Subscribers, start[s].step = "ready"
                 PROVE  start[s].pos <= nextSeq'[start[s].key]
        BY Zenon DEF StartsAllocated
    <2>1. start[s].key \in Keys /\ start[s].pos \in Nat
        BY Zenon, OpenStart DEF StoreInv
    <2>2. start[s].pos <= nextSeq[start[s].key]
        BY Zenon DEF StoreInv, StartsAllocated
    <2> QED
        BY <1>4, <2>1, <2>2
<1> QED
    BY Zenon, <1>2, <1>3, <1>4, <1>5, <1>6, <1>7, <1>8

LEMMA CommitAppendInv ==
    ASSUME StoreInv, NEW p \in Producers, CommitAppend(p)
    PROVE  StoreInv'
<1> DEFINE k == tx[p].key
           n == tx[p].seq
           r == Row(k, n, tx[p].event)
<1>1. /\ tx[p].step = "inserted"
      /\ outbox' = outbox \cup {r}
      /\ UNCHANGED <<cursor, start>>
    BY Zenon DEF CommitAppend
<1>2. /\ tx' \in [Producers -> OpenTransactions \cup {Idle}]
      /\ tx'[p].step = "idle"
      /\ \A q \in Producers : q # p => tx'[q] = tx[q]
    BY Zenon, CloseTx DEF CommitAppend, StoreInv
<1>3. tx[p].event \in EventIDs /\ n \in Nat
    BY Zenon, <1>1, OpenTx, OpenTxStep DEF StoreInv
<1>4. /\ k \in Keys /\ n = nextSeq[k] + 1 /\ nextSeq'[k] = n
      /\ nextSeq' \in [Keys -> Nat]
      /\ \A j \in Keys : nextSeq[j] <= nextSeq'[j]
      /\ LockHolderIsNext' /\ OneLockHolder'
      /\ CursorsAllocated' /\ StartsAllocated'
    BY Zenon, CommitAllocation DEF CommitAppend, HoldsRowLock
<1>5. r \in Rows /\ r.key = k /\ r.seq = n /\ r.event = tx[p].event
    <2>1. n \in Seqs
        BY <1>3, <1>4 DEF Seqs, StoreInv, TypeOK, OutboxTypeOK
    <2> QED
        BY Zenon, <1>3, <1>4, <2>1 DEF Row, Rows
<1> HIDE DEF r
<1>6. TypeOK'
    BY Zenon, <1>1, <1>2, <1>4, <1>5 DEF StoreInv, TypeOK, OutboxTypeOK
<1>7. InsertedIsFresh'
    <2> SUFFICES ASSUME NEW q \in Producers, tx'[q].step = "inserted"
                 PROVE  /\ ~ Produced(tx[q].event)'
                        /\ \A o \in Producers :
                              (o # q /\ tx'[o].step = "inserted")
                                 => tx'[o].event # tx'[q].event
        BY Zenon, <1>2 DEF InsertedIsFresh, Produced
    <2>1. q # p /\ tx'[q] = tx[q]
        BY Zenon, <1>2
    <2>2. ~ Produced(tx[q].event) /\ tx[q].event # tx[p].event
        BY Zenon, <1>1, <2>1 DEF StoreInv, InsertedIsFresh
    <2>3. ~ Produced(tx[q].event)'
        <3>1. ~ \E x \in outbox' : x.event = tx'[q].event
            BY Zenon, <1>1, <1>5, <2>1, <2>2 DEF Produced
        <3> QED
            BY Zenon, <3>1 DEF Produced
    <2>4. ASSUME NEW o \in Producers, o # q, tx'[o].step = "inserted"
          PROVE  tx'[o].event # tx'[q].event
        BY Zenon, <1>2, <2>1, <2>4 DEF StoreInv, InsertedIsFresh
    <2> QED
        BY Zenon, <2>3, <2>4
<1>8. \A x \in outbox : x.key \in Keys /\ x.seq \in Nat
                        /\ nextSeq[x.key] \in Nat /\ nextSeq'[x.key] \in Nat
    BY Zenon, <1>4 DEF StoreInv, TypeOK, OutboxTypeOK, Rows, Seqs
<1>9. RowsAllocated'
    <2> SUFFICES ASSUME NEW x \in outbox' PROVE x.seq <= nextSeq'[x.key]
        BY Zenon DEF RowsAllocated
    <2>1. CASE x \in outbox
        BY <1>4, <1>8, <2>1 DEF StoreInv, RowsAllocated
    <2>2. CASE x = r
        BY <1>3, <1>4, <1>5, <2>2
    <2> QED
        BY Zenon, <1>1, <2>1, <2>2
<1>10. OneRowPerEvent'
    <2>1. ASSUME NEW x \in outbox
          PROVE  x.event # r.event /\ ~ (x.key = r.key /\ x.seq = r.seq)
        <3>1. x.event # r.event
            BY Zenon, <1>1, <1>5 DEF StoreInv, InsertedIsFresh, Produced
        <3>2. x.key = k => x.seq # n
            BY <1>4, <1>8 DEF StoreInv, RowsAllocated
        <3> QED
            BY Zenon, <1>5, <3>1, <3>2
    <2> QED
        BY <1>1, <2>1 DEF StoreInv, OneRowPerEvent
<1> QED
    BY Zenon, <1>4, <1>6, <1>7, <1>9, <1>10 DEF StoreInv

(* A transaction that ends without a row: the loser of the EventID race    *)
(* with its allocation committed, or a rolled-back one with nothing.       *)
LEMMA EndWithoutRow ==
    ASSUME StoreInv, NEW p \in Producers, tx' = [tx EXCEPT ![p] = Idle],
           UNCHANGED <<outbox, cursor, start>>,
           \/ UNCHANGED nextSeq
           \/ /\ HoldsRowLock(p)
              /\ nextSeq' = [nextSeq EXCEPT ![tx[p].key] = tx[p].seq]
    PROVE  StoreInv'
<1>1. /\ tx' \in [Producers -> OpenTransactions \cup {Idle}]
      /\ tx'[p].step = "idle"
      /\ \A q \in Producers : q # p => tx'[q] = tx[q]
    BY Zenon, CloseTx DEF StoreInv
<1>2. InsertedIsFresh' /\ OneRowPerEvent'
    BY <1>1 DEF StoreInv, InsertedIsFresh, OneRowPerEvent, Produced
<1>3. CASE UNCHANGED nextSeq
    <2>1. TypeOK'
        BY Zenon, <1>1, <1>3 DEF StoreInv, TypeOK, OutboxTypeOK
    <2>2. LockHolderIsNext' /\ OneLockHolder'
        BY <1>1, <1>3 DEF StoreInv, LockHolderIsNext, OneLockHolder,
           HoldsRowLock
    <2>3. RowsAllocated' /\ CursorsAllocated' /\ StartsAllocated'
        BY Zenon, <1>3 DEF StoreInv, RowsAllocated, CursorsAllocated,
           StartsAllocated
    <2> QED
        BY Zenon, <1>2, <2>1, <2>2, <2>3 DEF StoreInv
<1>4. CASE /\ HoldsRowLock(p)
           /\ nextSeq' = [nextSeq EXCEPT ![tx[p].key] = tx[p].seq]
    <2>1. /\ nextSeq' \in [Keys -> Nat]
          /\ \A j \in Keys : nextSeq[j] <= nextSeq'[j]
          /\ LockHolderIsNext' /\ OneLockHolder'
          /\ CursorsAllocated' /\ StartsAllocated'
        BY Zenon, <1>4, CommitAllocation
    <2>2. TypeOK'
        BY Zenon, <1>1, <2>1 DEF StoreInv, TypeOK, OutboxTypeOK
    <2>3. \A x \in outbox : x.key \in Keys /\ x.seq \in Nat
        BY Zenon DEF StoreInv, TypeOK, OutboxTypeOK, Rows, Seqs
    <2>4. RowsAllocated'
        BY <2>1, <2>3 DEF StoreInv, RowsAllocated, TypeOK, OutboxTypeOK
    <2> QED
        BY Zenon, <1>2, <2>1, <2>2, <2>4 DEF StoreInv
<1> QED
    BY Zenon, <1>3, <1>4

LEMMA RereadWinnerInv ==
    ASSUME StoreInv, NEW p \in Producers, RereadWinner(p)
    PROVE  StoreInv'
<1>1. CASE Produced(tx[p].event)
    BY Zenon, <1>1, EndWithoutRow DEF RereadWinner, HoldsRowLock
<1>2. CASE ~ Produced(tx[p].event)
    BY Zenon, <1>2, EndWithoutRow DEF RereadWinner
<1> QED
    BY Zenon, <1>1, <1>2

LEMMA RollbackInv ==
    ASSUME StoreInv, NEW p \in Producers, Rollback(p)
    PROVE  StoreInv'
BY Zenon, EndWithoutRow DEF Rollback

(* What a step outside Append has to show: new cursors and new start       *)
(* positions are at or below the committed seq of their key.               *)
LEMMA OutsideAppend ==
    ASSUME StoreInv, UNCHANGED <<nextSeq, tx>>, outbox' \subseteq outbox,
           cursor' \in [Keys -> [Consumers -> Nat \cup {NoCursor}]],
           start' \in [Subscribers -> OpenStarts \cup {Absent}],
           CursorsAllocated', StartsAllocated'
    PROVE  StoreInv'
<1>1. TypeOK'
    BY Zenon DEF StoreInv, TypeOK, OutboxTypeOK
<1>2. LockHolderIsNext' /\ OneLockHolder'
    BY Zenon DEF StoreInv, LockHolderIsNext, OneLockHolder, HoldsRowLock
<1>3. InsertedIsFresh'
    BY Zenon DEF StoreInv, InsertedIsFresh, Produced
<1>4. RowsAllocated' /\ OneRowPerEvent'
    BY Zenon DEF StoreInv, RowsAllocated, OneRowPerEvent
<1> QED
    BY Zenon, <1>1, <1>2, <1>3, <1>4 DEF StoreInv

(* One subscriber's state changes, to one whose position, if it has one,   *)
(* is allocated.                                                           *)
LEMMA MoveStart ==
    ASSUME StoreInv, NEW s \in Subscribers, NEW st \in OpenStarts \cup {Absent},
           start' = [start EXCEPT ![s] = st], UNCHANGED nextSeq,
           st.step = "ready" => st.pos <= nextSeq[st.key]
    PROVE  /\ start' \in [Subscribers -> OpenStarts \cup {Absent}]
           /\ StartsAllocated'
<1>1. start' \in [Subscribers -> OpenStarts \cup {Absent}]
    BY Zenon DEF StoreInv, TypeOK
<1>2. start'[s] = st /\ \A q \in Subscribers : q # s => start'[q] = start[q]
    BY Zenon DEF StoreInv, TypeOK
<1> QED
    BY Zenon, <1>1, <1>2 DEF StoreInv, StartsAllocated

LEMMA ReadyState ==
    ASSUME NEW k \in Keys, NEW n \in Nat
    PROVE  /\ Ready(k, n) \in OpenStarts
           /\ Ready(k, n).step = "ready"
           /\ Ready(k, n).key = k
           /\ Ready(k, n).pos = n
BY Zenon DEF Ready, OpenStarts

LEMMA AbsentState == Absent.step = "absent"
BY Zenon DEF Absent

LEMMA LoadCursorInv ==
    ASSUME StoreInv, NEW s \in Subscribers, NEW k \in Keys,
           NEW fromStart \in BOOLEAN, LoadCursor(s, k, fromStart)
    PROVE  StoreInv'
<1> DEFINE stored == cursor[k][Identity[s]]
           missing == [step |-> "missing", key |-> k, pos |-> 0]
           st == IF stored # NoCursor THEN Ready(k, stored)
                 ELSE IF fromStart THEN Ready(k, 0) ELSE missing
<1>1. Identity[s] \in Consumers
    BY Zenon, IdentityAssumption
<1>2. /\ nextSeq[k] \in Nat
      /\ stored # NoCursor => stored \in Nat /\ stored <= nextSeq[k]
    BY <1>1 DEF StoreInv, TypeOK, OutboxTypeOK, CursorsAllocated
<1>3. missing \in OpenStarts /\ missing.step = "missing"
    BY Zenon DEF OpenStarts
<1>4. /\ st \in OpenStarts
      /\ st.step = "ready" => st.pos <= nextSeq[st.key]
    <2> HIDE DEF stored, missing
    <2>1. CASE stored # NoCursor
        BY Zenon, <1>2, <2>1, ReadyState
    <2>2. CASE stored = NoCursor /\ fromStart
        BY <1>2, <2>2, ReadyState
    <2>3. CASE stored = NoCursor /\ ~ fromStart
        BY Zenon, <1>3, <2>3
    <2> QED
        BY Zenon, <2>1, <2>2, <2>3
<1>5. start' = [start EXCEPT ![s] = st] /\ UNCHANGED <<outbox, nextSeq, cursor, tx>>
    BY Zenon DEF LoadCursor
<1> HIDE DEF st
<1>6. /\ start' \in [Subscribers -> OpenStarts \cup {Absent}]
      /\ StartsAllocated'
    BY Zenon, <1>4, <1>5, MoveStart
<1>7. CursorsAllocated' /\ cursor' \in [Keys -> [Consumers -> Nat \cup {NoCursor}]]
    BY Zenon, <1>5 DEF StoreInv, CursorsAllocated, TypeOK, OutboxTypeOK
<1> QED
    BY Zenon, <1>5, <1>6, <1>7, OutsideAppend

(* One cursor moves to an allocated position.                              *)
LEMMA MoveCursor ==
    ASSUME StoreInv, NEW k \in Keys, NEW c \in Consumers,
           NEW n \in Nat, n <= nextSeq[k],
           cursor' = [cursor EXCEPT ![k][c] = n], UNCHANGED nextSeq
    PROVE  /\ cursor' \in [Keys -> [Consumers -> Nat \cup {NoCursor}]]
           /\ CursorsAllocated'
<1>1. cursor \in [Keys -> [Consumers -> Nat \cup {NoCursor}]]
    BY Zenon DEF StoreInv, TypeOK, OutboxTypeOK
<1>2. cursor' \in [Keys -> [Consumers -> Nat \cup {NoCursor}]]
    BY Zenon, <1>1
<1>3. \A j \in Keys, d \in Consumers :
         cursor'[j][d] = IF j = k /\ d = c THEN n ELSE cursor[j][d]
    BY Zenon, <1>1
<1> QED
    BY Zenon, <1>2, <1>3 DEF StoreInv, CursorsAllocated

LEMMA InitCursorInv ==
    ASSUME StoreInv, NEW s \in Subscribers, InitCursor(s)
    PROVE  StoreInv'
<1> DEFINE k == start[s].key
           c == Identity[s]
<1>1. c \in Consumers
    BY Zenon, IdentityAssumption
<1>2. start[s].step = "missing" /\ UNCHANGED <<outbox, nextSeq, tx>>
    BY Zenon DEF InitCursor
<1>3. start[s] \in OpenStarts /\ k \in Keys
    BY Zenon, <1>2, OpenStart DEF StoreInv
<1>4. nextSeq[k] \in Nat
    BY Zenon, <1>3 DEF StoreInv, TypeOK, OutboxTypeOK
<1>5. CASE cursor[k][c] = NoCursor
    <2> DEFINE n == nextSeq[k]
    <2>1. /\ cursor' = [cursor EXCEPT ![k][c] = n]
          /\ start' = [start EXCEPT ![s] = Ready(k, n)]
        BY Zenon, <1>5 DEF InitCursor
    <2>n. n \in Nat /\ n <= nextSeq[k]
        BY <1>4
    <2> HIDE DEF k, c, n
    <2>2. /\ start' \in [Subscribers -> OpenStarts \cup {Absent}]
          /\ StartsAllocated'
        <3>1. /\ Ready(k, n) \in OpenStarts
              /\ Ready(k, n).pos <= nextSeq[Ready(k, n).key]
            BY Zenon, <1>3, <2>n, ReadyState
        <3> QED
            BY Zenon, <1>2, <2>1, <3>1, MoveStart
    <2>3. /\ cursor' \in [Keys -> [Consumers -> Nat \cup {NoCursor}]]
          /\ CursorsAllocated'
        BY Zenon, <1>1, <1>2, <1>3, <2>n, <2>1, MoveCursor
    <2> QED
        BY Zenon, <1>2, <2>2, <2>3, OutsideAppend
<1>6. CASE cursor[k][c] # NoCursor
    <2> DEFINE st == [step |-> "conflict", key |-> k, pos |-> start[s].pos]
    <2>1. start' = [start EXCEPT ![s].step = "conflict"] /\ UNCHANGED cursor
        BY Zenon, <1>6 DEF InitCursor
    <2>2. start' = [start EXCEPT ![s] = st]
        <3>1. [start[s] EXCEPT !.step = "conflict"] = st
            BY <1>3 DEF OpenStarts
        <3> HIDE DEF st
        <3> QED
            BY Zenon, <2>1, <3>1
    <2>3. st \in OpenStarts /\ st.step = "conflict"
        BY Zenon, <1>3 DEF OpenStarts
    <2> HIDE DEF st
    <2>4. /\ start' \in [Subscribers -> OpenStarts \cup {Absent}]
          /\ StartsAllocated'
        BY Zenon, <1>2, <2>2, <2>3, MoveStart
    <2>5. /\ cursor' \in [Keys -> [Consumers -> Nat \cup {NoCursor}]]
          /\ CursorsAllocated'
        BY Zenon, <1>2, <2>1 DEF StoreInv, CursorsAllocated, TypeOK, OutboxTypeOK
    <2> QED
        BY <1>2, <2>4, <2>5, OutsideAppend
<1> QED
    BY Zenon, <1>5, <1>6

LEMMA RereadCursorInv ==
    ASSUME StoreInv, NEW s \in Subscribers, RereadCursor(s)
    PROVE  StoreInv'
<1> DEFINE k == start[s].key
           stored == cursor[k][Identity[s]]
           st == IF stored = NoCursor THEN Absent ELSE Ready(k, stored)
<1>1. /\ start[s].step = "conflict"
      /\ start' = [start EXCEPT ![s] = st]
      /\ UNCHANGED <<outbox, nextSeq, cursor, tx>>
    BY Zenon DEF RereadCursor
<1>2. k \in Keys /\ Identity[s] \in Consumers
    BY Zenon, <1>1, OpenStart, IdentityAssumption DEF StoreInv
<1>3. stored # NoCursor => stored \in Nat /\ stored <= nextSeq[k]
    BY <1>2 DEF StoreInv, TypeOK, OutboxTypeOK, CursorsAllocated
<1>4. /\ st \in OpenStarts \cup {Absent}
      /\ st.step = "ready" => st.pos <= nextSeq[st.key]
    <2> HIDE DEF stored
    <2> QED
        BY <1>2, <1>3, ReadyState, AbsentState
<1> HIDE DEF st
<1>5. /\ start' \in [Subscribers -> OpenStarts \cup {Absent}]
      /\ StartsAllocated'
    BY Zenon, <1>1, <1>4, MoveStart
<1>6. /\ cursor' \in [Keys -> [Consumers -> Nat \cup {NoCursor}]]
      /\ CursorsAllocated'
    BY Zenon, <1>1 DEF StoreInv, CursorsAllocated, TypeOK, OutboxTypeOK
<1> QED
    BY Zenon, <1>1, <1>5, <1>6, OutsideAppend

LEMMA UnsubscribeInv ==
    ASSUME StoreInv, NEW s \in Subscribers, Unsubscribe(s)
    PROVE  StoreInv'
<1>1. /\ start' = [start EXCEPT ![s] = Absent]
      /\ UNCHANGED <<outbox, nextSeq, cursor, tx>>
    BY Zenon DEF Unsubscribe
<1>2. /\ start' \in [Subscribers -> OpenStarts \cup {Absent}]
      /\ StartsAllocated'
    BY Zenon, <1>1, MoveStart, AbsentState
<1>3. /\ cursor' \in [Keys -> [Consumers -> Nat \cup {NoCursor}]]
      /\ CursorsAllocated'
    BY Zenon, <1>1 DEF StoreInv, CursorsAllocated, TypeOK, OutboxTypeOK
<1> QED
    BY Zenon, <1>1, <1>2, <1>3, OutsideAppend

(* GREATEST keeps the larger of two allocated positions.                   *)
LEMMA AckInv ==
    ASSUME StoreInv, NEW s \in Subscribers, NEW r \in outbox, Ack(s, r)
    PROVE  StoreInv'
<1> DEFINE k == r.key
           c == Identity[s]
           n == Advanced(cursor[k][c], r.seq)
<1>1. /\ cursor' = [cursor EXCEPT ![k][c] = n]
      /\ UNCHANGED <<outbox, nextSeq, tx, start>>
    BY Zenon DEF Ack, SaveCursor
<1>2. /\ k \in Keys /\ c \in Consumers /\ r.seq \in Nat
      /\ nextSeq[k] \in Nat /\ r.seq <= nextSeq[k]
    BY Zenon, IdentityAssumption DEF StoreInv, TypeOK, OutboxTypeOK, Rows, Seqs,
       RowsAllocated
<1>3. n \in Nat /\ n <= nextSeq[k]
    BY <1>2 DEF StoreInv, TypeOK, OutboxTypeOK, CursorsAllocated, Advanced
<1> HIDE DEF k, c, n
<1>4. /\ cursor' \in [Keys -> [Consumers -> Nat \cup {NoCursor}]]
      /\ CursorsAllocated'
    BY Zenon, <1>1, <1>2, <1>3, MoveCursor
<1>5. /\ start' \in [Subscribers -> OpenStarts \cup {Absent}]
      /\ StartsAllocated'
    BY Zenon, <1>1 DEF StoreInv, StartsAllocated, TypeOK
<1> QED
    BY Zenon, <1>1, <1>4, <1>5, OutsideAppend

LEMMA SweepOutboxInv ==
    ASSUME StoreInv, NEW swept \in SUBSET outbox, SweepOutbox(swept)
    PROVE  StoreInv'
<1>1. outbox' \subseteq outbox /\ UNCHANGED <<nextSeq, cursor, tx, start>>
    BY Zenon DEF SweepOutbox, SweepRows
<1>2. /\ cursor' \in [Keys -> [Consumers -> Nat \cup {NoCursor}]]
      /\ start' \in [Subscribers -> OpenStarts \cup {Absent}]
      /\ CursorsAllocated' /\ StartsAllocated'
    BY Zenon, <1>1 DEF StoreInv, TypeOK, OutboxTypeOK, CursorsAllocated,
       StartsAllocated
<1> QED
    BY Zenon, <1>1, <1>2, OutsideAppend

LEMMA SweepCursorInv ==
    ASSUME StoreInv, NEW swept \in SUBSET (Keys \X Consumers),
           SweepCursor(swept)
    PROVE  StoreInv'
<1>1. /\ cursor' = [k \in Keys |-> [c \in Consumers |->
                       IF <<k, c>> \in swept THEN NoCursor ELSE cursor[k][c]]]
      /\ UNCHANGED <<outbox, nextSeq, tx, start>>
    BY Zenon DEF SweepCursor, SweepCursors
<1>2. /\ cursor' \in [Keys -> [Consumers -> Nat \cup {NoCursor}]]
      /\ CursorsAllocated'
    BY Zenon, <1>1 DEF StoreInv, TypeOK, OutboxTypeOK, CursorsAllocated
<1>3. /\ start' \in [Subscribers -> OpenStarts \cup {Absent}]
      /\ StartsAllocated'
    BY Zenon, <1>1 DEF StoreInv, TypeOK, StartsAllocated
<1> QED
    BY Zenon, <1>1, <1>2, <1>3, OutsideAppend

LEMMA StutterInv == StoreInv /\ UNCHANGED vars => StoreInv'
<1> SUFFICES ASSUME StoreInv, UNCHANGED vars PROVE StoreInv'
    BY Zenon
<1>1. /\ outbox' = outbox /\ nextSeq' = nextSeq /\ cursor' = cursor
      /\ tx' = tx /\ start' = start
    BY Zenon DEF vars
<1>2. TypeOK' /\ RowsAllocated' /\ CursorsAllocated' /\ StartsAllocated'
    BY Zenon, <1>1 DEF StoreInv, TypeOK, OutboxTypeOK, RowsAllocated, CursorsAllocated,
       StartsAllocated
<1>3. LockHolderIsNext' /\ OneLockHolder'
    BY Zenon, <1>1 DEF StoreInv, LockHolderIsNext, OneLockHolder, HoldsRowLock
<1>4. InsertedIsFresh' /\ OneRowPerEvent'
    BY Zenon, <1>1 DEF StoreInv, InsertedIsFresh, OneRowPerEvent, Produced
<1> QED
    BY Zenon, <1>2, <1>3, <1>4 DEF StoreInv

LEMMA NextInv == StoreInv /\ [Next]_vars => StoreInv'
<1> SUFFICES ASSUME StoreInv, [Next]_vars PROVE StoreInv'
    BY Zenon
<1>1. ASSUME NEW p \in Producers, NEW k \in Keys, NEW e \in EventIDs,
             BeginAppend(p, k, e)
      PROVE  StoreInv'
    BY Zenon, <1>1, BeginAppendInv
<1>2. ASSUME NEW p \in Producers, AppendStep(p) PROVE StoreInv'
    BY Zenon, <1>2, AllocateSeqInv, InsertRowInv, CommitAppendInv, RereadWinnerInv
       DEF AppendStep
<1>3. ASSUME NEW p \in Producers, Rollback(p) PROVE StoreInv'
    BY Zenon, <1>3, RollbackInv
<1>4. ASSUME NEW s \in Subscribers, NEW k \in Topics[s], NEW fromStart \in BOOLEAN,
             LoadCursor(s, k, fromStart)
      PROVE  StoreInv'
    BY Zenon, <1>4, LoadCursorInv, TopicsAssumption
<1>5. ASSUME NEW s \in Subscribers,
             InitCursor(s) \/ RereadCursor(s) \/ Unsubscribe(s)
      PROVE  StoreInv'
    BY Zenon, <1>5, InitCursorInv, RereadCursorInv, UnsubscribeInv
<1>6. ASSUME NEW s \in Subscribers, NEW r \in outbox, Ack(s, r)
      PROVE  StoreInv'
    BY Zenon, <1>6, AckInv
<1>7. ASSUME NEW swept \in SUBSET outbox, SweepOutbox(swept) PROVE StoreInv'
    BY Zenon, <1>7, SweepOutboxInv
<1>8. ASSUME NEW swept \in SUBSET (Keys \X Consumers), SweepCursor(swept)
      PROVE  StoreInv'
    BY Zenon, <1>8, SweepCursorInv
<1>9. CASE UNCHANGED vars
    BY Zenon, <1>9, StutterInv
<1> QED
    BY Zenon, <1>1, <1>2, <1>3, <1>4, <1>5, <1>6, <1>7, <1>8, <1>9 DEF Next

(* The store invariant holds in every reachable state: Append's row lock   *)
(* serialises the producers of a key.                                      *)
THEOREM StoreInvariant == Spec => []StoreInv
BY InitInv, NextInv, PTL DEF Spec

-----------------------------------------------------------------------------
(* What follows from it                                                    *)

(* Type correctness of the tables and of the sessions in progress.         *)
THEOREM TypeCorrect == Spec => []TypeOK
<1>1. StoreInv => TypeOK
    BY Zenon DEF StoreInv
<1> QED
    BY <1>1, StoreInvariant, PTL

(* Append is idempotent under any race: an EventID has at most one row and *)
(* a position of a key at most one event.                                  *)
THEOREM AppendIdempotent == Spec => []OneRowPerEvent
<1>1. StoreInv => OneRowPerEvent
    BY Zenon DEF StoreInv
<1> QED
    BY <1>1, StoreInvariant, PTL

(* EnsureCursor's watermark never races a producer: an Append in flight    *)
(* commits past every cursor and every start position of its key.          *)
THEOREM WatermarkSafe == Spec => []NoInFlightBelowWatermark
<1>1. StoreInv => NoInFlightBelowWatermark
    <2> SUFFICES ASSUME StoreInv, NEW p \in Producers, HoldsRowLock(p)
                 PROVE  /\ \A c \in Consumers :
                              cursor[tx[p].key][c] # NoCursor
                                 => cursor[tx[p].key][c] < tx[p].seq
                        /\ \A s \in Subscribers :
                              (start[s].step = "ready"
                                 /\ start[s].key = tx[p].key)
                                 => start[s].pos < tx[p].seq
        BY Zenon DEF NoInFlightBelowWatermark
    <2> DEFINE k == tx[p].key
    <2>1. k \in Keys
        BY Zenon, OpenTx, OpenTxStep DEF StoreInv, HoldsRowLock
    <2>2. nextSeq[k] \in Nat /\ tx[p].seq = nextSeq[k] + 1
        BY Zenon, <2>1 DEF StoreInv, LockHolderIsNext, TypeOK, OutboxTypeOK
    <2>3. ASSUME NEW c \in Consumers, cursor[k][c] # NoCursor
          PROVE  cursor[k][c] < tx[p].seq
        <3>1. cursor[k][c] \in Nat /\ cursor[k][c] <= nextSeq[k]
            BY <2>1, <2>3 DEF StoreInv, TypeOK, OutboxTypeOK, CursorsAllocated
        <3> HIDE DEF k
        <3> QED
            BY <2>2, <3>1
    <2>4. ASSUME NEW s \in Subscribers, start[s].step = "ready",
                 start[s].key = k
          PROVE  start[s].pos < tx[p].seq
        <3>1. start[s].pos \in Nat /\ start[s].pos <= nextSeq[k]
            BY Zenon, <2>4, OpenStart DEF StoreInv, StartsAllocated
        <3> HIDE DEF k
        <3> QED
            BY <2>2, <3>1
    <2> QED
        BY Zenon, <2>3, <2>4
<1> QED
    BY <1>1, StoreInvariant, PTL

(* What a commit does to the tables, as the log sees it.                   *)
LEMMA CommitIsAppendRow ==
    ASSUME StoreInv, NEW p \in Producers, CommitAppend(p)
    PROVE  /\ tx[p].key \in Keys /\ tx[p].event \in EventIDs
           /\ AppendRow(tx[p].key, tx[p].event)
<1>1. tx[p].step = "inserted" /\ HoldsRowLock(p)
    BY Zenon DEF CommitAppend, HoldsRowLock
<1>2. tx[p].key \in Keys /\ tx[p].event \in EventIDs
    BY Zenon, <1>1, OpenTx, OpenTxStep DEF StoreInv
<1>3. tx[p].seq = nextSeq[tx[p].key] + 1 /\ ~ Produced(tx[p].event)
    BY Zenon, <1>1 DEF StoreInv, LockHolderIsNext, InsertedIsFresh
<1> QED
    BY Zenon, <1>2, <1>3 DEF CommitAppend, AppendRow

(* Every step of the store is a step of the atomic log or changes none of  *)
(* its tables.                                                             *)
LEMMA StepRefines == StoreInv /\ [Next]_vars => [OutboxNext]_outboxVars
<1> SUFFICES ASSUME StoreInv, [Next]_vars PROVE [OutboxNext]_outboxVars
    BY Zenon
<1>1. ASSUME NEW p \in Producers, CommitAppend(p) PROVE OutboxNext
    BY Zenon, <1>1, CommitIsAppendRow DEF OutboxNext
<1>2. ASSUME NEW p \in Producers, RereadWinner(p)
      PROVE  [OutboxNext]_outboxVars
    <2>1. CASE Produced(tx[p].event)
        <3>1. HoldsRowLock(p) /\ tx[p].step # "idle"
            BY Zenon, <1>2 DEF RereadWinner, HoldsRowLock
        <3>2. tx[p].key \in Keys
            BY Zenon, <3>1, OpenTx, OpenTxStep DEF StoreInv
        <3>3. tx[p].seq = nextSeq[tx[p].key] + 1
            BY Zenon, <3>1 DEF StoreInv, LockHolderIsNext
        <3>4. BurnSeq(tx[p].key)
            BY Zenon, <1>2, <2>1, <3>3 DEF RereadWinner, BurnSeq
        <3> QED
            BY Zenon, <3>2, <3>4 DEF OutboxNext
    <2>2. CASE ~ Produced(tx[p].event)
        BY Zenon, <1>2, <2>2 DEF RereadWinner, outboxVars
    <2> QED
        BY Zenon, <2>1, <2>2
<1>3. ASSUME NEW p \in Producers,
             \/ \E k \in Keys, e \in EventIDs : BeginAppend(p, k, e)
             \/ AllocateSeq(p) \/ InsertRow(p) \/ Rollback(p)
      PROVE  UNCHANGED outboxVars
    BY Zenon, <1>3 DEF BeginAppend, AllocateSeq, InsertRow, Rollback, outboxVars
<1>4. ASSUME NEW s \in Subscribers,
             \/ \E k \in Topics[s], fromStart \in BOOLEAN :
                   LoadCursor(s, k, fromStart)
             \/ RereadCursor(s) \/ Unsubscribe(s)
      PROVE  UNCHANGED outboxVars
    BY Zenon, <1>4 DEF LoadCursor, RereadCursor, Unsubscribe, outboxVars
<1>5. ASSUME NEW s \in Subscribers, InitCursor(s)
      PROVE  [OutboxNext]_outboxVars
    <2> DEFINE k == start[s].key
               c == Identity[s]
    <2>1. k \in Keys /\ c \in Consumers
        BY Zenon, <1>5, OpenStart, IdentityAssumption DEF InitCursor, StoreInv
    <2>2. CASE cursor[k][c] = NoCursor
        <3>1. PinCursor(k, c)
            BY Zenon, <1>5, <2>2 DEF InitCursor, PinCursor
        <3> QED
            BY Zenon, <2>1, <3>1 DEF OutboxNext
    <2>3. CASE cursor[k][c] # NoCursor
        BY Zenon, <1>5, <2>3 DEF InitCursor, outboxVars
    <2> QED
        BY Zenon, <2>2, <2>3
<1>6. ASSUME NEW s \in Subscribers, NEW r \in outbox, Ack(s, r)
      PROVE  OutboxNext
    <2>1. r.key \in Keys /\ Identity[s] \in Consumers
        BY Zenon, IdentityAssumption DEF StoreInv, TypeOK, OutboxTypeOK, Rows
    <2>2. r.seq \in 1 .. nextSeq[r.key]
        BY <2>1 DEF StoreInv, TypeOK, OutboxTypeOK, Rows, Seqs, RowsAllocated
    <2>3. SaveCursor(r.key, Identity[s], r.seq)
        BY Zenon, <1>6 DEF Ack
    <2> QED
        BY Zenon, <2>1, <2>2, <2>3 DEF OutboxNext
<1>7. ASSUME NEW swept \in SUBSET outbox, SweepOutbox(swept) PROVE OutboxNext
    BY Zenon, <1>7 DEF SweepOutbox, OutboxNext
<1>8. ASSUME NEW swept \in SUBSET (Keys \X Consumers), SweepCursor(swept)
      PROVE  OutboxNext
    BY Zenon, <1>8 DEF SweepCursor, OutboxNext
<1>9. CASE UNCHANGED vars
    BY Zenon, <1>9 DEF vars, outboxVars
<1> QED
    BY Zenon, <1>1, <1>2, <1>3, <1>4, <1>5, <1>6, <1>7, <1>8, <1>9
       DEF Next, AppendStep

(* The Postgres store implements the atomic log and cursor table.          *)
THEOREM Refinement == Spec => ImplementsOutbox
<1>1. Init => OutboxInit
    BY Zenon DEF Init
<1> QED
    BY <1>1, StepRefines, StoreInvariant, PTL
       DEF Spec, ImplementsOutbox, OutboxSpec

-----------------------------------------------------------------------------
(* Action properties, read off the atomic log's steps                      *)

(* Rows of a key become visible in seq order, each at the new committed    *)
(* seq: no reader's position is ever overtaken by a late commit.           *)
THEOREM CommitOrder == Spec => CommitOrderIsSeqOrder
<1> DEFINE A == \A r \in outbox' \ outbox :
                    /\ r.seq > nextSeq[r.key]
                    /\ nextSeq'[r.key] = r.seq
<1>1. StoreInv /\ [Next]_vars => [A]_vars
    <2> SUFFICES ASSUME StoreInv, [Next]_vars PROVE A
        BY Zenon
    <2>1. [OutboxNext]_outboxVars
        BY Zenon, StepRefines
    <2>2. ASSUME NEW k \in Keys, NEW e \in EventIDs, AppendRow(k, e) PROVE A
        <3>1. nextSeq[k] \in Nat /\ nextSeq'[k] = nextSeq[k] + 1
            BY Zenon, <2>2 DEF AppendRow, StoreInv, TypeOK, OutboxTypeOK
        <3>2. \A r \in outbox' \ outbox : r.key = k /\ r.seq = nextSeq[k] + 1
            BY <2>2 DEF AppendRow, Row
        <3> QED
            BY <3>1, <3>2
    <2>3. CASE outbox' \subseteq outbox
        BY Zenon, <2>3
    <2> QED
        BY Zenon, <2>1, <2>2, <2>3 DEF OutboxNext, outboxVars, BurnSeq, PinCursor,
           SaveCursor, SweepRows, SweepCursors
<1> QED
    BY <1>1, StoreInvariant, PTL DEF Spec, CommitOrderIsSeqOrder

(* A stored cursor never moves backwards, in whatever order subscribers    *)
(* and acknowledgements of one consumer id interleave.                     *)
THEOREM CursorsMoveForward == Spec => CursorMonotonic
<1> DEFINE A == \A k \in Keys, c \in Consumers :
                    (cursor[k][c] # NoCursor /\ cursor'[k][c] # NoCursor)
                       => cursor'[k][c] >= cursor[k][c]
<1>1. StoreInv /\ [Next]_vars => [A]_vars
    <2> SUFFICES ASSUME StoreInv, [Next]_vars PROVE A
        BY Zenon
    <2>1. [OutboxNext]_outboxVars
        BY StepRefines
    <2>2. cursor \in [Keys -> [Consumers -> Nat \cup {NoCursor}]]
        BY Zenon DEF StoreInv, TypeOK, OutboxTypeOK
    <2>3. CASE UNCHANGED cursor
        BY <2>2, <2>3
    <2>4. ASSUME NEW k \in Keys, NEW c \in Consumers, PinCursor(k, c)
          PROVE  A
        BY <2>2, <2>4 DEF PinCursor
    <2>5. ASSUME NEW k \in Keys, NEW c \in Consumers,
                 NEW n \in 1 .. nextSeq[k], SaveCursor(k, c, n)
          PROVE  A
        <3>1. nextSeq[k] \in Nat
            BY Zenon DEF StoreInv, TypeOK, OutboxTypeOK
        <3>2. \A j \in Keys, d \in Consumers :
                 cursor'[j][d] = IF j = k /\ d = c
                                   THEN Advanced(cursor[j][d], n)
                                   ELSE cursor[j][d]
            BY Zenon, <2>2, <2>5 DEF SaveCursor
        <3> QED
            BY <2>2, <3>1, <3>2 DEF Advanced
    <2>6. ASSUME NEW swept \in SUBSET (Keys \X Consumers), SweepCursors(swept)
          PROVE  A
        BY <2>2, <2>6 DEF SweepCursors
    <2> QED
        BY Zenon, <2>1, <2>3, <2>4, <2>5, <2>6 DEF OutboxNext, outboxVars, AppendRow,
           BurnSeq, SweepRows
<1> QED
    BY <1>1, StoreInvariant, PTL DEF Spec, CursorMonotonic

=============================================================================
