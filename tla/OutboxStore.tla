---------------------------- MODULE OutboxStore ----------------------------
(***************************************************************************)
(* The Postgres outbox store (component/node/delivery_store_pg.go), one    *)
(* action per SQL statement or per statement pair whose interleaving with  *)
(* other sessions cannot be observed.                                      *)
(*                                                                         *)
(* Append is a transaction of up to four statements.  The allocator upsert *)
(* takes the key's mesh_key_seq row lock and holds it until the end of the *)
(* transaction; the outbox insert waits for any other open transaction     *)
(* that inserted the same event_id.  outbox and nextSeq are the committed  *)
(* contents of the tables, so a step of an open transaction changes only   *)
(* that transaction's own record.                                          *)
(*                                                                         *)
(* EnsureCursor runs its statements outside any transaction, so another    *)
(* subscriber, an Ack or the retention sweep may run between them.         *)
(***************************************************************************)
EXTENDS Outbox, FiniteSets

CONSTANTS
    Producers,    \* sessions running Append
    Subscribers,  \* sessions running EnsureCursor
    Identity,     \* the consumer id each subscriber presents
    Topics,       \* the keys each subscriber may subscribe to
    MaxSeq        \* bound on the seqs allocated per key

ASSUME IdentityAssumption == Identity \in [Subscribers -> Consumers]
ASSUME TopicsAssumption == Topics \in [Subscribers -> SUBSET Keys]

VARIABLES
    tx,           \* the Append each producer has in progress
    start         \* the EnsureCursor each subscriber has in progress or done

vars == <<outbox, nextSeq, cursor, tx, start>>

Idle == [step |-> "idle"]

(* An open Append: "checked" after the EventID lookup found nothing,       *)
(* "allocated" while it holds the key's row lock, "inserted" once its row  *)
(* awaits the commit, "lost" when the insert found the EventID taken.      *)
OpenTransactions ==
    [step : {"checked", "allocated", "inserted", "lost"},
     key : Keys, event : EventIDs, seq : Nat]

Absent == [step |-> "absent"]

(* A subscription being resolved: "missing" after the cursor lookup found  *)
(* no row, "conflict" after the watermark insert found one, "ready" with   *)
(* the position EnsureCursor returned.                                     *)
OpenStarts == [step : {"missing", "conflict", "ready"}, key : Keys, pos : Nat]

TypeOK ==
    /\ OutboxTypeOK
    /\ tx \in [Producers -> OpenTransactions \cup {Idle}]
    /\ start \in [Subscribers -> OpenStarts \cup {Absent}]

Init ==
    /\ OutboxInit
    /\ tx = [p \in Producers |-> Idle]
    /\ start = [s \in Subscribers |-> Absent]

-----------------------------------------------------------------------------
(* Append                                                                  *)

HoldsRowLock(p) == tx[p].step \in {"allocated", "inserted", "lost"}

(* BEGIN and the idempotency lookup.  An EventID that is already there     *)
(* ends the transaction on the spot and changes nothing, so only the miss  *)
(* is a step.  Each open transaction may still allocate one seq.           *)
BeginAppend(p, k, e) ==
    /\ tx[p] = Idle
    /\ ~ Produced(e)
    /\ nextSeq[k] + Cardinality({q \in Producers : tx[q] # Idle}) < MaxSeq
    /\ tx' = [tx EXCEPT ![p] =
                 [step |-> "checked", key |-> k, event |-> e, seq |-> 0]]
    /\ UNCHANGED <<outbox, nextSeq, cursor, start>>

(* Slips: the allocator row is not locked; its RETURNING is not scanned.   *)
AllocateSeq_NoLock(p) ==
    /\ tx[p].step = "checked"
    /\ tx' = [tx EXCEPT ![p].step = "allocated",
                        ![p].seq = nextSeq[tx[p].key] + 1]
    /\ UNCHANGED <<outbox, nextSeq, cursor, start>>

AllocateSeq_NoScan(p) ==
    /\ tx[p].step = "checked"
    /\ \A q \in Producers :
           HoldsRowLock(q) => tx[q].key # tx[p].key
    /\ tx' = [tx EXCEPT ![p].step = "allocated"]
    /\ UNCHANGED <<outbox, nextSeq, cursor, start>>

(* The mesh_key_seq upsert: waits for the row lock, reads the committed    *)
(* value and keeps the lock.                                               *)
AllocateSeq(p) ==
    /\ tx[p].step = "checked"
    /\ \A q \in Producers :
           HoldsRowLock(q) => tx[q].key # tx[p].key
    /\ tx' = [tx EXCEPT ![p].step = "allocated",
                        ![p].seq = nextSeq[tx[p].key] + 1]
    /\ UNCHANGED <<outbox, nextSeq, cursor, start>>

(* Slip: no unique index on event_id to conflict with.                     *)
InsertRow_NoConflict(p) ==
    /\ tx[p].step = "allocated"
    /\ tx' = [tx EXCEPT ![p].step = "inserted"]
    /\ UNCHANGED <<outbox, nextSeq, cursor, start>>

(* INSERT ... ON CONFLICT (event_id) DO NOTHING: waits while another open  *)
(* transaction holds the same event_id in the unique index.                *)
InsertRow(p) ==
    /\ tx[p].step = "allocated"
    /\ \A q \in Producers :
           tx[q].step = "inserted" => tx[q].event # tx[p].event
    /\ tx' = [tx EXCEPT ![p].step =
                 IF Produced(tx[p].event) THEN "lost" ELSE "inserted"]
    /\ UNCHANGED <<outbox, nextSeq, cursor, start>>

CommitAppend(p) ==
    /\ tx[p].step = "inserted"
    /\ outbox' = outbox \cup {Row(tx[p].key, tx[p].seq, tx[p].event)}
    /\ nextSeq' = [nextSeq EXCEPT ![tx[p].key] = tx[p].seq]
    /\ tx' = [tx EXCEPT ![p] = Idle]
    /\ UNCHANGED <<cursor, start>>

(* Slip: the loser waits for a winner's row that may be gone.              *)
RereadWinner_Waits(p) ==
    /\ tx[p].step = "lost"
    /\ Produced(tx[p].event)
    /\ nextSeq' = [nextSeq EXCEPT ![tx[p].key] = tx[p].seq]
    /\ tx' = [tx EXCEPT ![p] = Idle]
    /\ UNCHANGED <<outbox, cursor, start>>

(* The loser of the EventID race re-reads the winner's seq and commits its *)
(* unused allocation; a winner already swept away is an error and the      *)
(* transaction rolls back.                                                 *)
RereadWinner(p) ==
    /\ tx[p].step = "lost"
    /\ nextSeq' = IF Produced(tx[p].event)
                     THEN [nextSeq EXCEPT ![tx[p].key] = tx[p].seq]
                     ELSE nextSeq
    /\ tx' = [tx EXCEPT ![p] = Idle]
    /\ UNCHANGED <<outbox, cursor, start>>

(* Any statement may fail, and the producer may die: the deferred Rollback *)
(* or the lost session drops the transaction and its lock.                 *)
Rollback(p) ==
    /\ tx[p] # Idle
    /\ tx' = [tx EXCEPT ![p] = Idle]
    /\ UNCHANGED <<outbox, nextSeq, cursor, start>>

-----------------------------------------------------------------------------
(* EnsureCursor, SaveCursor, SweepOlderThan                                *)

Ready(k, n) == [step |-> "ready", key |-> k, pos |-> n]

(* The cursor lookup.  A row is resumed from exactly; without one,         *)
(* fromStart (WithReplayBacklog) answers 0 and writes nothing.             *)
LoadCursor(s, k, fromStart) ==
    LET stored == cursor[k][Identity[s]] IN
    /\ start[s] = Absent
    /\ start' = [start EXCEPT ![s] =
           IF stored # NoCursor THEN Ready(k, stored)
           ELSE IF fromStart THEN Ready(k, 0)
           ELSE [step |-> "missing", key |-> k, pos |-> 0]]
    /\ UNCHANGED <<outbox, nextSeq, cursor, tx>>

(* Slip: the watermark is taken for the next seq to be allocated.          *)
InitCursor_PastNext(s) ==
    LET k == start[s].key
        c == Identity[s] IN
    /\ start[s].step = "missing"
    /\ IF cursor[k][c] = NoCursor
         THEN /\ cursor' = [cursor EXCEPT ![k][c] = nextSeq[k] + 1]
              /\ start' = [start EXCEPT ![s] = Ready(k, nextSeq[k] + 1)]
         ELSE /\ start' = [start EXCEPT ![s].step = "conflict"]
              /\ UNCHANGED cursor
    /\ UNCHANGED <<outbox, nextSeq, tx>>

(* INSERT the watermark ON CONFLICT DO NOTHING RETURNING cursor_seq.       *)
InitCursor(s) ==
    LET k == start[s].key
        c == Identity[s] IN
    /\ start[s].step = "missing"
    /\ IF cursor[k][c] = NoCursor
         THEN /\ cursor' = [cursor EXCEPT ![k][c] = nextSeq[k]]
              /\ start' = [start EXCEPT ![s] = Ready(k, nextSeq[k])]
         ELSE /\ start' = [start EXCEPT ![s].step = "conflict"]
              /\ UNCHANGED cursor
    /\ UNCHANGED <<outbox, nextSeq, tx>>

(* The loser of the init race resumes from the winner's row, or fails when *)
(* a sweep has deleted it in between.                                      *)
RereadCursor(s) ==
    LET k == start[s].key
        c == Identity[s] IN
    /\ start[s].step = "conflict"
    /\ start' = [start EXCEPT ![s] =
           IF cursor[k][c] = NoCursor THEN Absent ELSE Ready(k, cursor[k][c])]
    /\ UNCHANGED <<outbox, nextSeq, cursor, tx>>

(* The subscription ends, or EnsureCursor fails or dies half way.          *)
Unsubscribe(s) ==
    /\ start[s] # Absent
    /\ start' = [start EXCEPT ![s] = Absent]
    /\ UNCHANGED <<outbox, nextSeq, cursor, tx>>

(* A consumer acknowledges a row it was delivered: a retained position of  *)
(* its key past the one its subscription started from.                     *)
Ack(s, r) ==
    /\ start[s].step = "ready"
    /\ r \in RowsAfter(start[s].key, start[s].pos)
    /\ SaveCursor(r.key, Identity[s], r.seq)
    /\ UNCHANGED <<tx, start>>

(* The two DELETEs of the retention sweep are separate statements.  Ages   *)
(* are not modelled here: any rows, or any cursors, may be the old ones.   *)
SweepOutbox(swept) ==
    /\ SweepRows(swept)
    /\ UNCHANGED <<tx, start>>

SweepCursor(swept) ==
    /\ SweepCursors(swept)
    /\ UNCHANGED <<tx, start>>

-----------------------------------------------------------------------------

AppendStep(p) ==
    AllocateSeq(p) \/ InsertRow(p) \/ CommitAppend(p) \/ RereadWinner(p)

Next ==
    \/ \E p \in Producers, k \in Keys, e \in EventIDs : BeginAppend(p, k, e)
    \/ \E p \in Producers : AppendStep(p)
    \/ \E p \in Producers : Rollback(p)
    \/ \E s \in Subscribers : \E k \in Topics[s], fromStart \in BOOLEAN :
           LoadCursor(s, k, fromStart)
    \/ \E s \in Subscribers : InitCursor(s)
    \/ \E s \in Subscribers : RereadCursor(s)
    \/ \E s \in Subscribers : Unsubscribe(s)
    \/ \E s \in Subscribers, r \in outbox : Ack(s, r)
    \/ \E swept \in SUBSET outbox : SweepOutbox(swept)
    \/ \E swept \in SUBSET (Keys \X Consumers) : SweepCursor(swept)

Spec == Init /\ [][Next]_vars

(* A producer that does not fail executes its next statement once the      *)
(* locks it waits for are free.  Lock queues are first come, first served, *)
(* and a lock holder never waits again but in InsertRow.                   *)
FairSpec == Spec /\ \A p \in Producers : SF_vars(AppendStep(p))

-----------------------------------------------------------------------------
(* Properties                                                              *)

(* The store is an atomic log and cursor table (the outboxStore interface, *)
(* delivery_substrate.go:141-170).                                         *)
ImplementsOutbox == OutboxSpec

(* Per key, rows become visible in seq order: a commit never exposes a row *)
(* at or below a position some reader of the key may already have passed.  *)
(* The tail's position and every cursor lean on this ("per-key commit      *)
(* order equals seq order", EnsureCursor).                                 *)
CommitOrderIsSeqOrder ==
    [][\A r \in outbox' \ outbox :
          /\ r.seq > nextSeq[r.key]
          /\ nextSeq'[r.key] = r.seq]_vars

(* An EventID names at most one retained row, and a position of a key at   *)
(* most one event: a racing duplicate produce collapses to one row.        *)
OneRowPerEvent ==
    \A r1, r2 \in outbox :
        (r1.event = r2.event \/ (r1.key = r2.key /\ r1.seq = r2.seq)) => r1 = r2

(* No append in flight can land at or below a pinned or acknowledged       *)
(* cursor, nor below the position a subscription starts from: what is      *)
(* produced after Subscribe returns is always past its start (Subscribe's  *)
(* promise that the watermark init never races a producer into losing      *)
(* events).                                                                *)
NoInFlightBelowWatermark ==
    \A p \in Producers : HoldsRowLock(p) =>
        /\ \A c \in Consumers :
              cursor[tx[p].key][c] # NoCursor => cursor[tx[p].key][c] < tx[p].seq
        /\ \A s \in Subscribers :
              (start[s].step = "ready" /\ start[s].key = tx[p].key)
                 => start[s].pos < tx[p].seq

(* A persisted cursor moves backwards only by being swept away, whatever   *)
(* order acknowledgements and watermark inits arrive in (SaveCursor).      *)
CursorMonotonic ==
    [][\A k \in Keys, c \in Consumers :
          (cursor[k][c] # NoCursor /\ cursor'[k][c] # NoCursor)
             => cursor'[k][c] >= cursor[k][c]]_vars

(* Every Append that is not abandoned ends: the row locks and the waits on *)
(* the event_id index never form a cycle, and the loser of a race always   *)
(* gets an answer, even when the winner's row has been swept.              *)
AppendsFinish ==
    \A p \in Producers : (tx[p] # Idle) ~> (tx[p] = Idle)

=============================================================================
