---------------------------- MODULE RunDelivery ----------------------------
(***************************************************************************)
(* The durable delivery substrate carrying the run lifecycle events:       *)
(* Substrate (component/node/delivery_substrate.go) with its per-          *)
(* subscription dedup window (dedup.go), the mesh fast-path hints          *)
(* (eventbridge_fastpath.go), the retention sweep (delivery_retention.go)  *)
(* and the RunDelivery component that publishes and consumes               *)
(* (run_delivery.go).  The store is the atomic one of Outbox.tla, which    *)
(* OutboxStore.tla implements.                                             *)
(*                                                                         *)
(* A replica's subscription is a tail goroutine that reads the outbox and  *)
(* feeds a bounded channel, and a consume goroutine that re-publishes each *)
(* deliverable on the local bus and acknowledges its seq.  The goroutines, *)
(* the producers, the mesh and the sweep interleave freely; a replica may  *)
(* die and come back between any two steps.                                *)
(***************************************************************************)
EXTENDS Outbox, Sequences, FiniteSets

CONSTANTS
    RunKey,            \* runLifecycleKey
    Origin,            \* the node that produces each event
    MeshWired,         \* is the EventBridge fast path wired?
    SubscribeMayFail,  \* may Subscribe meet a store error?
    ReplayBatch,       \* substrateReplayBatch
    ChannelBuffer,     \* substrateChannelBuffer, of the channel and the inbox
    MaxCrashes,        \* bound on replica deaths
    MaxExpiries,       \* bound on dedup entries that outlive their TTL
    MaxElapses         \* bound on retention windows that go by

ASSUME RunKeyAssumption == RunKey \in Keys
ASSUME MeshWiredAssumption == MeshWired \in BOOLEAN
ASSUME BufferAssumption == ReplayBatch \in Seqs /\ ChannelBuffer \in Seqs
ASSUME BoundsAssumption ==
    MaxCrashes \in Nat /\ MaxExpiries \in Nat /\ MaxElapses \in Nat

VARIABLES
    fresh,     \* run events that have not happened yet
    sub,       \* each replica's subscription: tail goroutine and channels
    mesh,      \* fast-path hints in flight
    handled,   \* history: events that reached each replica's local bus
    joined,    \* history: watermark when the replica first subscribed
    old,       \* rows and cursors older than the retention watermark
    spent      \* how much of each bound has been used

vars == <<outboxVars, fresh, sub, mesh, handled, joined, old, spent>>

(* phase   "down": process not running, or not yet subscribed;             *)
(*         "deaf": running, its Subscribe failed; "read": about to call    *)
(*         ReadAfter; "send": delivering a batch; "select": waiting for a  *)
(*         hint, a wake or the poll tick                                   *)
(* batch   the rows read and not yet delivered; full, whether there were   *)
(*         ReplayBatch of them                                             *)
(* sent    history: what went to the channel, in order                     *)
Subscriptions ==
    [phase : {"down", "deaf", "read", "send", "select"},
     startPos : Nat, pos : Nat, batch : SUBSET Rows, full : BOOLEAN,
     dedup : SUBSET EventIDs, hints : Seq(Rows), out : Seq(Rows),
     sent : Seq(Rows)]

Subscription(phase, n) ==
    [phase |-> phase, startPos |-> n, pos |-> n, batch |-> {}, full |-> FALSE,
     dedup |-> {}, hints |-> <<>>, out |-> <<>>, sent |-> <<>>]

Live(c) == sub[c].phase \in {"read", "send", "select"}

TypeOK ==
    /\ OutboxTypeOK
    /\ fresh \subseteq EventIDs
    /\ sub \in [Consumers -> Subscriptions]
    /\ mesh \subseteq (Consumers \X Rows)
    /\ handled \in [Consumers -> SUBSET EventIDs]
    /\ joined \in [Consumers -> Nat \cup {NoCursor}]
    /\ old \in [rows : SUBSET Rows, cursors : SUBSET Consumers]
    /\ spent \in [crashes : 0 .. MaxCrashes, expiries : 0 .. MaxExpiries,
                  elapses : 0 .. MaxElapses]

Init ==
    /\ OutboxInit
    /\ fresh = EventIDs
    /\ sub = [c \in Consumers |-> Subscription("down", 0)]
    /\ mesh = {}
    /\ handled = [c \in Consumers |-> {}]
    /\ joined = [c \in Consumers |-> NoCursor]
    /\ old = [rows |-> {}, cursors |-> {}]
    /\ spent = [crashes |-> 0, expiries |-> 0, elapses |-> 0]

-----------------------------------------------------------------------------
(* Producer side                                                           *)

(* The event is on its producer's own bus before anything else.            *)
OnLocalBus(e) ==
    handled' = [c \in Consumers |->
                    IF c = Origin[e] THEN handled[c] \cup {e} ELSE handled[c]]

(* onLocalEvent, publish and Substrate.Publish: Append commits, then the   *)
(* hint is offered to the peers this node is connected to; a producer that *)
(* dies after the commit offers it to none.  The EventID carries the       *)
(* occurrence's timestamp, so an event is published at most once.          *)
Publish(e, peers) ==
    /\ e \in fresh
    /\ fresh' = fresh \ {e}
    /\ AppendRow(RunKey, e)
    /\ peers # {} => MeshWired
    /\ Origin[e] \notin peers
    /\ mesh' = mesh \cup (peers \X {Row(RunKey, nextSeq[RunKey] + 1, e)})
    /\ OnLocalBus(e)
    /\ UNCHANGED <<sub, joined, old, spent>>

(* A store error on the way is logged by publishDeliverable, and that is   *)
(* all: the event has no row.                                              *)
PublishFails(e) ==
    /\ e \in fresh
    /\ fresh' = fresh \ {e}
    /\ OnLocalBus(e)
    /\ UNCHANGED <<outboxVars, sub, mesh, joined, old, spent>>

(* HandleFastPath on the receiving node: into the inbox of its live        *)
(* subscription, dropped when there is none or its inbox is full.  A hint  *)
(* the mesh loses is one that is never taken from here.                    *)
HandleFastPath(c, r) ==
    /\ <<c, r>> \in mesh
    /\ mesh' = mesh \ {<<c, r>>}
    /\ sub' = IF Live(c) /\ Len(sub[c].hints) < ChannelBuffer
                THEN [sub EXCEPT ![c].hints = Append(@, r)]
                ELSE sub
    /\ UNCHANGED <<outboxVars, fresh, handled, joined, old, spent>>

-----------------------------------------------------------------------------
(* Subscription                                                            *)

(* Slips: a restarted consumer starts at the watermark, its cursor         *)
(* ignored; a brand-new one starts from a cursor it never wrote.           *)
Subscribe_AtWatermark(c) ==
    LET stored == cursor[RunKey][c]
        n == nextSeq[RunKey] IN
    /\ sub[c].phase = "down"
    /\ IF stored = NoCursor THEN PinCursor(RunKey, c) ELSE UNCHANGED outboxVars
    /\ sub' = [sub EXCEPT ![c] = Subscription("read", n)]
    /\ joined' = [joined EXCEPT ![c] = IF @ = NoCursor THEN n ELSE @]
    /\ old' = IF stored = NoCursor
                THEN [old EXCEPT !.cursors = @ \ {c}] ELSE old
    /\ UNCHANGED <<fresh, mesh, handled, spent>>

Subscribe_Unpinned(c) ==
    LET stored == cursor[RunKey][c] IN
    /\ sub[c].phase = "down"
    /\ sub' = [sub EXCEPT ![c] = Subscription("read", stored)]
    /\ joined' = [joined EXCEPT ![c] = IF @ = NoCursor THEN stored ELSE @]
    /\ UNCHANGED <<outboxVars, fresh, mesh, handled, old, spent>>

(* startConsumer and Subscribe: EnsureCursor resumes the stored cursor or  *)
(* pins a brand-new one at the high watermark; then the tail starts with   *)
(* an empty dedup window.                                                  *)
Subscribe(c) ==
    LET stored == cursor[RunKey][c]
        n == IF stored = NoCursor THEN nextSeq[RunKey] ELSE stored IN
    /\ sub[c].phase = "down"
    /\ IF stored = NoCursor THEN PinCursor(RunKey, c) ELSE UNCHANGED outboxVars
    /\ sub' = [sub EXCEPT ![c] = Subscription("read", n)]
    /\ joined' = [joined EXCEPT ![c] = IF @ = NoCursor THEN n ELSE @]
    /\ old' = IF stored = NoCursor
                THEN [old EXCEPT !.cursors = @ \ {c}] ELSE old
    /\ UNCHANGED <<fresh, mesh, handled, spent>>

(* A Subscribe that meets a store error is logged and never tried again by *)
(* this process.                                                           *)
SubscribeFails(c) ==
    /\ SubscribeMayFail
    /\ sub[c].phase = "down"
    /\ sub' = [sub EXCEPT ![c] = Subscription("deaf", 0)]
    /\ UNCHANGED <<outboxVars, fresh, mesh, handled, joined, old, spent>>

(* The process stops or dies: position, window, inbox and channel go.      *)
Crash(c) ==
    /\ sub[c].phase # "down"
    /\ spent.crashes < MaxCrashes
    /\ sub' = [sub EXCEPT ![c] = Subscription("down", 0)]
    /\ spent' = [spent EXCEPT !.crashes = @ + 1]
    /\ UNCHANGED <<outboxVars, fresh, mesh, handled, joined, old>>

-----------------------------------------------------------------------------
(* The tail goroutine                                                      *)

(* Slip: reads from the row after the next one.                            *)
NextRows_SkipsOne(c) ==
    LET after == RowsAfter(RunKey, sub[c].pos + 1)
    IN  {r \in after :
            Cardinality({q \in after : q.seq < r.seq}) < ReplayBatch}

(* ReadAfter: the first ReplayBatch rows past pos.                         *)
NextRows(c) ==
    LET after == RowsAfter(RunKey, sub[c].pos)
    IN  {r \in after :
            Cardinality({q \in after : q.seq < r.seq}) < ReplayBatch}

ReadRows(c) ==
    /\ sub[c].phase = "read"
    /\ sub' = [sub EXCEPT
          ![c].phase = IF NextRows(c) = {} THEN "select" ELSE "send",
          ![c].batch = NextRows(c),
          ![c].full = Cardinality(NextRows(c)) = ReplayBatch]
    /\ UNCHANGED <<outboxVars, fresh, mesh, handled, joined, old, spent>>

(* A failed read is logged; the loop goes on to wait.                      *)
ReadFails(c) ==
    /\ sub[c].phase = "read"
    /\ sub' = [sub EXCEPT ![c].phase = "select"]
    /\ UNCHANGED <<outboxVars, fresh, mesh, handled, joined, old, spent>>

(* What delivering r does to a subscription: the window records it, and    *)
(* unless the window already had it, it goes to the channel.               *)
HasRoom(s, r) == r.event \in s.dedup \/ Len(s.out) < ChannelBuffer

(* Slip: the window is consulted and not written.                          *)
Delivered_Unrecorded(s, r) ==
    IF r.event \in s.dedup THEN s
    ELSE [s EXCEPT !.out = Append(@, r), !.sent = Append(@, r)]

Delivered(s, r) ==
    IF r.event \in s.dedup THEN s
    ELSE [s EXCEPT !.dedup = @ \cup {r.event},
                   !.out = Append(@, r),
                   !.sent = Append(@, r)]

(* One row of the batch in drainFrom, in ascending order: the position     *)
(* moves past the row, the send waits for room in the channel.  After the  *)
(* last row a full batch is followed by another read.                      *)
PastRow(s, r) ==
    LET rest == s.batch \ {r} IN
    [s EXCEPT !.pos = IF r.seq > @ THEN r.seq ELSE @,
              !.batch = rest,
              !.phase = IF rest # {} THEN "send"
                        ELSE IF s.full THEN "read" ELSE "select"]

(* Slip: the batch is delivered in no particular order.                    *)
SendRow_Unsorted(c) ==
    /\ sub[c].phase = "send"
    /\ \E r \in sub[c].batch :
          /\ HasRoom(sub[c], r)
          /\ sub' = [sub EXCEPT ![c] = Delivered(PastRow(sub[c], r), r)]
    /\ UNCHANGED <<outboxVars, fresh, mesh, handled, joined, old, spent>>

SendRow(c) ==
    /\ sub[c].phase = "send"
    /\ \E r \in sub[c].batch :
          /\ \A q \in sub[c].batch : r.seq <= q.seq
          /\ HasRoom(sub[c], r)
          /\ sub' = [sub EXCEPT ![c] = Delivered(PastRow(sub[c], r), r)]
    /\ UNCHANGED <<outboxVars, fresh, mesh, handled, joined, old, spent>>

(* Slip: a hint moves the position as a durable row does.                  *)
TakeHint_MovesPos(c) ==
    LET s == sub[c]
        r == Head(s.hints)
        taken == [s EXCEPT !.hints = Tail(@), !.phase = "read",
                           !.pos = IF r.seq > @ THEN r.seq ELSE @]
    IN  /\ s.phase = "select"
        /\ s.hints # <<>>
        /\ HasRoom(s, r)
        /\ sub' = [sub EXCEPT ![c] = Delivered(taken, r)]
        /\ UNCHANGED <<outboxVars, fresh, mesh, handled, joined, old, spent>>

(* A hint reaches the select: delivered ahead of its durable row.  The     *)
(* position does not move.                                                 *)
TakeHint(c) ==
    LET s == sub[c]
        r == Head(s.hints)
        taken == [s EXCEPT !.hints = Tail(@), !.phase = "read"]
    IN  /\ s.phase = "select"
        /\ s.hints # <<>>
        /\ HasRoom(s, r)
        /\ sub' = [sub EXCEPT ![c] = Delivered(taken, r)]
        /\ UNCHANGED <<outboxVars, fresh, mesh, handled, joined, old, spent>>

(* The poll tick, or the wake of a local Publish.                          *)
Poll(c) ==
    /\ sub[c].phase = "select"
    /\ sub' = [sub EXCEPT ![c].phase = "read"]
    /\ UNCHANGED <<outboxVars, fresh, mesh, handled, joined, old, spent>>

(* eventDedup forgets an id once its TTL has passed.                       *)
WindowExpires(c, e) ==
    /\ Live(c)
    /\ e \in sub[c].dedup
    /\ spent.expiries < MaxExpiries
    /\ sub' = [sub EXCEPT ![c].dedup = @ \ {e}]
    /\ spent' = [spent EXCEPT !.expiries = @ + 1]
    /\ UNCHANGED <<outboxVars, fresh, mesh, handled, joined, old>>

-----------------------------------------------------------------------------
(* The consume goroutine                                                   *)

(* Re-publish on the local bus (a deliverable of this node's own is not:   *)
(* the bus has had it), then Ack the deliverable's seq.  The Ack may fail  *)
(* and is then only logged.                                                *)
Consume(c, acked) ==
    LET r == Head(sub[c].out) IN
    /\ Live(c)
    /\ sub[c].out # <<>>
    /\ sub' = [sub EXCEPT ![c].out = Tail(@)]
    /\ handled' = [handled EXCEPT ![c] = @ \cup {r.event}]
    /\ IF acked THEN /\ SaveCursor(RunKey, c, r.seq)
                     /\ old' = [old EXCEPT !.cursors = @ \ {c}]
                ELSE UNCHANGED <<outboxVars, old>>
    /\ UNCHANGED <<fresh, mesh, joined, spent>>

-----------------------------------------------------------------------------
(* Retention                                                               *)

(* MEMQL_MESH_OUTBOX_RETENTION goes by: everything stored is now past it.  *)
RetentionElapses ==
    /\ spent.elapses < MaxElapses
    /\ old' = [rows |-> outbox,
               cursors |-> {c \in Consumers : cursor[RunKey][c] # NoCursor}]
    /\ spent' = [spent EXCEPT !.elapses = @ + 1]
    /\ UNCHANGED <<outboxVars, fresh, sub, mesh, handled, joined>>

(* SweepOlderThan: two DELETEs, rows first, each its own transaction.      *)
SweepOutbox ==
    /\ old.rows # {}
    /\ SweepRows(old.rows)
    /\ old' = [old EXCEPT !.rows = {}]
    /\ UNCHANGED <<fresh, sub, mesh, handled, joined, spent>>

SweepCursor ==
    /\ old.cursors # {}
    /\ old.rows = {}
    /\ SweepCursors({RunKey} \X old.cursors)
    /\ old' = [old EXCEPT !.cursors = {}]
    /\ UNCHANGED <<fresh, sub, mesh, handled, joined, spent>>

-----------------------------------------------------------------------------

Tailing(c) == ReadRows(c) \/ SendRow(c) \/ Poll(c)

Next ==
    \/ \E e \in EventIDs, peers \in SUBSET Consumers : Publish(e, peers)
    \/ \E e \in EventIDs : PublishFails(e)
    \/ \E hint \in mesh : HandleFastPath(hint[1], hint[2])
    \/ \E c \in Consumers : Subscribe(c)
    \/ \E c \in Consumers : SubscribeFails(c)
    \/ \E c \in Consumers : Crash(c)
    \/ \E c \in Consumers : Tailing(c)
    \/ \E c \in Consumers : ReadFails(c)
    \/ \E c \in Consumers : TakeHint(c)
    \/ \E c \in Consumers, e \in EventIDs : WindowExpires(c, e)
    \/ \E c \in Consumers, acked \in BOOLEAN : Consume(c, acked)
    \/ RetentionElapses
    \/ SweepOutbox
    \/ SweepCursor

Spec == Init /\ [][Next]_vars

(* A dead replica is restarted and subscribes; the tail goroutine keeps    *)
(* polling, and its reads do not fail for ever; the consume goroutine      *)
(* drains its channel.                                                     *)
FairSpec ==
    /\ Spec
    /\ \A c \in Consumers :
          /\ WF_vars(Subscribe(c))
          /\ SF_vars(ReadRows(c))
          /\ WF_vars(SendRow(c))
          /\ WF_vars(Poll(c))
          /\ WF_vars(Consume(c, TRUE) \/ Consume(c, FALSE))

-----------------------------------------------------------------------------
(* Properties                                                              *)

(* Row r is still on its way to replica c: ahead of the tail, or read and  *)
(* not yet consumed; and for a replica that is down, past the cursor it    *)
(* will resume from.                                                       *)
Pending(c, r) ==
    IF Live(c)
      THEN \/ r.seq > sub[c].pos
           \/ r \in sub[c].batch
           \/ \E i \in 1 .. Len(sub[c].out) : sub[c].out[i] = r
      ELSE cursor[RunKey][c] = NoCursor \/ r.seq > cursor[RunKey][c]

(* At-least-once: a row produced after a replica first subscribed, and     *)
(* still retained, has reached its local bus or is still on its way,       *)
(* whatever crashes and restarts happen ("delivered to every active        *)
(* subscriber of its key at least once ... surviving consumer restart and  *)
(* mesh churn", delivery_substrate.go:25-28).                              *)
NoLostRow ==
    \A c \in Consumers, r \in outbox :
        (joined[c] # NoCursor /\ r.key = RunKey /\ r.seq > joined[c])
            => r.event \in handled[c] \/ Pending(c, r)

(* The tail never moves past a retained row it has not put on the channel  *)
(* in this connection, hints, dedup and expiries notwithstanding: the      *)
(* position advances on the durable path only (tail, drainFrom).           *)
NothingPassedUnsent ==
    \A c \in Consumers, r \in outbox :
        (/\ Live(c)
         /\ sub[c].startPos < r.seq
         /\ r.seq <= sub[c].pos
         /\ r.key = RunKey)
            => \E i \in 1 .. Len(sub[c].sent) : sub[c].sent[i].event = r.event

(* Within one connection the consumer sees the events of the key in        *)
(* produce order (delivery_substrate.go:31-33).                            *)
ProduceOrder ==
    \A c \in Consumers : Live(c) =>
        \A i, j \in 1 .. Len(sub[c].sent) :
            i < j => sub[c].sent[i].seq < sub[c].sent[j].seq

(* Within one connection an event is delivered once, by hint or by durable *)
(* row, and again only after the window has forgotten it: "consumers dedup *)
(* by EventID using the existing time-windowed eventDedup"                 *)
(* (delivery_substrate.go:28-30).                                          *)
DeliveredOnce ==
    \A c \in Consumers, e \in EventIDs :
        Cardinality({i \in 1 .. Len(sub[c].sent) : sub[c].sent[i].event = e})
            <= 1 + spent.expiries

(* Every row produced after a replica first subscribed eventually reaches  *)
(* its local bus.                                                          *)
RowsArrive ==
    \A c \in Consumers, e \in EventIDs :
        (/\ joined[c] # NoCursor
         /\ \E r \in outbox : r.event = e /\ r.seq > joined[c])
            ~> (e \in handled[c])

=============================================================================
