------------------------------- MODULE Outbox -------------------------------
(***************************************************************************)
(* What the durable store of the delivery substrate promises               *)
(* (component/node/delivery_substrate.go, interface outboxStore): an       *)
(* append-only log per routing key, numbered by a per-key allocator, and   *)
(* one persisted cursor per (key, consumer).                               *)
(*                                                                         *)
(* Every operation is one atomic step here.  OutboxStore.tla is the        *)
(* Postgres implementation, statement by statement; it is shown to         *)
(* implement this specification.  RunDelivery.tla runs the substrate on    *)
(* top of this specification.                                              *)
(***************************************************************************)
EXTENDS Naturals

CONSTANTS
    Keys,        \* routing keys, "<kind>:<id>"
    EventIDs,    \* the stable dedup keys producers choose
    Consumers,   \* logical consumer ids
    NoCursor     \* "no mesh_cursor row"

ASSUME NoCursorAssumption == NoCursor \notin Nat

VARIABLES
    outbox,      \* mesh_outbox: the committed, not yet swept rows
    nextSeq,     \* mesh_key_seq: highest committed seq of each key, 0 = no row
    cursor       \* mesh_cursor: acknowledged seq of each (key, consumer)

outboxVars == <<outbox, nextSeq, cursor>>

Seqs == Nat \ {0}

Row(k, s, e) == [key |-> k, seq |-> s, event |-> e]

Rows == [key : Keys, seq : Seqs, event : EventIDs]

OutboxTypeOK ==
    /\ outbox \subseteq Rows
    /\ nextSeq \in [Keys -> Nat]
    /\ cursor \in [Keys -> [Consumers -> Nat \cup {NoCursor}]]

OutboxInit ==
    /\ outbox = {}
    /\ nextSeq = [k \in Keys |-> 0]
    /\ cursor = [k \in Keys |-> [c \in Consumers |-> NoCursor]]

-----------------------------------------------------------------------------

Produced(e) == \E r \in outbox : r.event = e

(* A new event becomes a row at the next position of its key.              *)
AppendRow(k, e) ==
    /\ ~ Produced(e)
    /\ nextSeq' = [nextSeq EXCEPT ![k] = @ + 1]
    /\ outbox' = outbox \cup {Row(k, nextSeq[k] + 1, e)}
    /\ UNCHANGED cursor

(* A producer that lost the EventID race commits its allocation unused:    *)
(* the seq is a gap no row will ever fill.                                 *)
BurnSeq(k) ==
    /\ nextSeq' = [nextSeq EXCEPT ![k] = @ + 1]
    /\ UNCHANGED <<outbox, cursor>>

(* ReadAfter: the retained rows of k past a position.  Callers take them   *)
(* in ascending seq order.                                                 *)
RowsAfter(k, s) == {r \in outbox : r.key = k /\ r.seq > s}

(* A brand-new consumer is pinned at the high watermark of its key.        *)
PinCursor(k, c) ==
    /\ cursor[k][c] = NoCursor
    /\ cursor' = [cursor EXCEPT ![k][c] = nextSeq[k]]
    /\ UNCHANGED <<outbox, nextSeq>>

(* Slip: the acknowledged seq overwrites the stored one.                   *)
Advanced_Overwrites(stored, s) == s

(* GREATEST(stored, acknowledged).                                         *)
Advanced(stored, s) ==
    IF stored = NoCursor \/ stored < s THEN s ELSE stored

SaveCursor(k, c, s) ==
    /\ cursor' = [cursor EXCEPT ![k][c] = Advanced(@, s)]
    /\ UNCHANGED <<outbox, nextSeq>>

(* Retention deletes rows and cursors, never an allocator row.             *)
SweepRows(swept) ==
    /\ outbox' = outbox \ swept
    /\ UNCHANGED <<nextSeq, cursor>>

SweepCursors(swept) ==
    /\ cursor' = [k \in Keys |-> [c \in Consumers |->
                      IF <<k, c>> \in swept THEN NoCursor ELSE cursor[k][c]]]
    /\ UNCHANGED <<outbox, nextSeq>>

(* A consumer acknowledges only positions the store handed out.            *)
OutboxNext ==
    \/ \E k \in Keys, e \in EventIDs : AppendRow(k, e)
    \/ \E k \in Keys : BurnSeq(k)
    \/ \E k \in Keys, c \in Consumers : PinCursor(k, c)
    \/ \E k \in Keys, c \in Consumers :
           \E s \in 1 .. nextSeq[k] : SaveCursor(k, c, s)
    \/ \E swept \in SUBSET outbox : SweepRows(swept)
    \/ \E swept \in SUBSET (Keys \X Consumers) : SweepCursors(swept)

OutboxSpec == OutboxInit /\ [][OutboxNext]_outboxVars

=============================================================================
