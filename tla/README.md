# Formal models of memql's cluster coordination

memql runs as a cluster of node processes (BFFs, agents, workers) over one
PostgreSQL database and a best-effort mesh between the nodes. Most of the code
is sequential work inside one request. What is hard to test is the code by
which replicas that share nothing but the database agree on who does what, and
make sure that it is done: durable delivery of events, claims on executions,
the outbound queue, the election of the cron owner, and the drives of a
pipeline run with the Kubernetes Jobs they start. That is what is modelled
here. The modules are translated from the code, not from its comments; where a
comment promises more than the code does, section 6 says so.

## 1. Inventory

| Part | State | Operations | What makes it hard |
|---|---|---|---|
| Durable outbox store (`component/node/delivery_store_pg.go`) | `mesh_outbox`, `mesh_key_seq`, `mesh_cursor` | Append, ReadAfter, EnsureCursor, SaveCursor, SweepOlderThan | several statements per call, row lock and unique index, rollback, two subscribers of one identity |
| Delivery substrate (`delivery_substrate.go`, `dedup.go`) | subscriptions: position, batch, dedup window, channel, hint inbox | Publish, Subscribe, Ack, HandleFastPath, tail, drainFrom | two delivery paths for one event, bounded channels, failed reads, expiring dedup entries |
| Mesh fast path (`eventbridge_fastpath.go`) | hints in flight | emit, deliver | loss, delay, reordering |
| Run-event delivery (`run_delivery.go`) | one subscription per replica | run, publishDeliverable, startConsumer, consume, cleanup | crash between re-publish and acknowledgement, failed Subscribe |
| Outbox retention (`delivery_retention.go`) | the sweep's cutoff | sweep | deletes rows and cursors under live readers, in two statements |
| Cluster execution guard (`component/automations/cluster_guard.go`) | claim rows, in-memory fail-open window | Claim, ClaimWithTTL, strict claim, ReleaseClaim, prune, allowUnguarded | lost answers, leases of different length on one key, window edges |
| Outbound worker (`component/outbound/worker.go`) | request rows, scan cursors, claims | drainOnce, processRow, admit, recordFailure, stamp | stale pages, crash between stamps, failed stamps, starvation by unusable rows |
| Cron leader (`component/automations/cron_leader.go`) | gates, session, advisory locks | poll, ensureConn, demote, closeConn, cleanup, ScopedGate | sessions lost unnoticed, lock taken with its answer lost, order of closing |
| Scheduler, executor, run journal (`component/automations`) | cron entries, run journal | fire, execute, resume, relay | the gate is read before the work, resume after a crash |
| Substrate RPC, stream channels (`substrate_rpc.go`, `stream_channel.go`) | pending calls, chunk streams | Call, Serve, Publish, SubscribeStream | late replies, duplicate requests, the terminal chunk overtaking data |
| Event bus (`component/events/bus.go`) | subscriptions | Subscribe, Publish, Close | unsubscribe and close against delivery in flight |
| Mesh bridge (`eventbridge.go`, `forward_inflight.go`) | peers, relay routes, calls in flight | relay, forward, cancel | loops, hop counts, cancel before begin |
| Work dispatch and sweep (`integrations/work`) | run rows, run claims | HandleRunEvent, dispatchRun, SweepWaiting, FailRun | duplicate events, fences, abandoned runs |
| Pipeline run (`component/pipelinerun`, `component/workjournal`) | run row with its lease, step rows, work run, each drive's memory | claim, renew, plan, openWork, execStep, acknowledge, conclude, cancel, recover | takeover of a slow driver, crash between two rows, a late cancel, a failed acknowledgement |
| Pipeline step runner (`integrations/pipelinesteps`) | creation Secret, Job, stop markers | Run, claimCreation, POST, Ack, CancelRun, cleanup | answers lost, POSTs that arrive late, two Runs of one attempt, cleanup against creation |
| Worker sessions, upload sessions, data sync, file transactions | session tables, sync state, staged files | register, append, drain, commit | replacement, restart, partial failure |
| Graph engine, language, identity, servers, packages, integrations, tools, clients | - | - | sequential, data dependent, or I/O |

How they interact. `RunDelivery` publishes run events to the substrate, which
appends them to the outbox store and hints at them over the mesh; every
executing replica subscribes and passes them to its bus, where the work
dispatcher claims the run through the guard. Automations claim their
executions through the same guard; the outbound worker claims each delivery
attempt there, with a lease. Scheduled automations run where the cron leader's
gate is open. A pipeline run's driver hands each attempt of a step to a
runner, and relies on what the runner promises of it.

What correctness means, per part: the store is an atomic log with monotone
cursors; a subscriber gets every row produced after it joined, once per
connection and in order; a claim gives its holder exclusive execution while it
lasts, and the fail-open path stays bounded; an outbound request settles and no
attempt of it runs twice while the lease covers it; a lease has at most one open gate, and again and
again has one; an attempt of a pipeline step becomes at most one Job, and none
behind a confirmed cleanup while the late-POST window holds; a pipeline run's rows, work and attempts agree
when it concludes. `PROJECT.json` lists the hazards line by line; for a part
that is not modelled it names the principal files only.

## 2. Plan

Order, the most important behaviour first. Items 1-7 are done.

1. `Outbox` (abstract store) and `OutboxStore` (the SQL statements), with the
   refinement between them, checked and proved.
2. `RunDelivery`: substrate, fast path, retention and consumer over the
   abstract store, checked and proved.
3. `ClaimTable` and `ExecutionGuard`, checked and proved.
4. `OutboundWorker`, composed with `ClaimTable`, checked and proved.
5. `CronLeader`, checked and proved.
6. `Attempt` (what the runner promises) and `JobCreation` (the Kubernetes
   calls), with the refinement between them, checked and proved.
7. `PipelineRun` over `Attempt`'s promise, checked and proved.
8. `StreamChannel` and `SubstrateRPC` over the subscription interface of 2: no
   data chunk after the terminal one is lost, a call is answered or times out,
   a late answer is dropped.
9. `WorkDispatch`: run claims (`ClaimTable`), the start fence and the sweep.
   A run is dispatched once per park, and an abandoned run ends.
10. `Scheduler`: `CronLeader`'s gate and `ExecutionGuard`'s claim composed.
11. `EventBus` and mesh relay; worker and upload sessions; data sync; file
    transactions.

## 3. Modules

`Outbox.tla` is the abstract store: `outbox` (a set of rows), `nextSeq` per key
and `cursor` per key and consumer, with one atomic operation per call of the
`outboxStore` interface. It is both the specification that `OutboxStore`
implements and the store `RunDelivery` runs on.

`OutboxStore.tla` models `pgOutboxStore`. `tx[p]` is where a producer's
transaction stands (checked, allocated with the row lock, inserted, conflict);
`start[s]` where an `EnsureCursor` stands between its three statements. An
uncommitted row is visible to nobody, but a second insert of its `event_id`
waits for it. `nextSeq` is the *committed* value of the allocator row, which is
what a concurrent `EnsureCursor` reads. The refinement mapping is the identity
on the three tables: a commit is the abstract append.

`RunDelivery.tla` has, per replica, the tail goroutine (`phase`, `pos`,
`batch`), its dedup window, the hint inbox and the channel, both bounded, and
the consume goroutine (`Consume`: re-publish, then acknowledge). An event a
replica produced itself is acknowledged and not re-published. `mesh` holds
hints in flight: the producer sends each connected peer one, they are taken in
any order, and one that is never taken is lost. `old` marks what the retention
sweep may delete. `handled`, `joined` and `sent` are history.

`ClaimTable.tla` is the ledger `automation_execution_claims` and the fail-open
window, without callers. Time is kept as ages capped at `AgeCap`. A lease of 0
is a row without `expires_at`. `ExecutionGuard.tla` adds arbitrary callers: won
and refused claims, errors whose statement committed and errors whose did not,
release, crash, prune.

`OutboundWorker.tla` has the request rows, and per replica the drain: status
being scanned, page read and its age, row in hand, outcome. `Tick` moves time;
it passes only while workers wait or deliver. A webhook's delivery ends within
`HTTPTimeout`; one of the requests in `Email` goes on for as long as the mail
server takes, since `smtp.SendMail` has no deadline. Requests are numbered in
`createdAt` order, `Backlog` are those staged before the replicas started, and
the scan cursor is a position in that order; as in the engine, every full page
comes with a cursor, the last one included, so that a page may be empty.
`exposed` is history: the requests that were claimed from a page so old that
the lease does not span its age and a delivery (`Outdated`), that were
delivered for longer than `HTTPTimeout`, or that the guard let through without
a claim.

`CronLeader.tla` has, per node, the gates, the session and the phase of the
poll; `lock` is the server's view. A session the client discarded may hold its
locks a while longer (`Ghost`); one the server dropped is `lost` until the node
uses it. PostgreSQL itself is external.

`Attempt.tla` is what the workbench promises the driver of one attempt of a
step: started at most once, and not behind a confirmed acknowledgement or
cancel, unless the attempt is `overtaken`. `JobCreation.tla` is how it keeps
the promise: `at[a]` is where a Run or a cleanup call stands between two API
calls, `secret` the attempt's Secret with the annotation that claims the
creation, `post[r]` the fate of a Run's Job POST, `marker` and `runMarker` the
stop markers. A compare-and-swap is a read (`current`) that every later write
spoils. `WindowPasses` is the end of the late-POST window, which may come while
a POST is still out: `late` records that. The refinement mapping reads
`command` off `made` and `job`, `acked` and `cancelled` off the cleanup calls
that were confirmed, and `overtaken` off `late`.

`PipelineRun.tla` is one run: `row` (status, holder, a lease that ages, the
cancel request, the result), `work` and `steps` (the journal), and `drive[d]`,
what a replica's drive remembers, which outlives its lease. Row and journal
writes are fenced to the holder and are one step; calls to the runner are not
fenced, and the runner is `Attempt`'s promise, per attempt that is not
overtaken. The plan may skip a step (`skip` on its row): it is settled as
skipped and does not keep the run from passing. A read of the lease that fails
(`stillHolds`) leaves a step without its receipt, and the drive goes on.

The `MC*` modules only define constants for the configurations. Definitions
whose name ends in a `_Suffix` (`AllocateSeq_NoLock`, ...) are deliberately
wrong variants of the definition after them, commented "Slip". They are not
part of any specification; replacing the right one by them breaks the property
`PROJECT.json` names, which shows that the property depends on that code.

## 4. Runs

All in `tlc -config <run>.cfg <module>`, `PROJECT.json` lists the properties.

| Run | Instance | What it shows |
|---|---|---|
| OutboxStore | 2 keys, 2 events, 2 producers, 2 subscribers of one identity on one key, 2 positions | one row per event, visibility in seq order, every append ends; nothing commits below a cursor, cursors advance, the statements implement the abstract store |
| RunDeliveryDurable | 2 replicas, 2 events, 2 crashes, no mesh | every row arrives, in order, across restarts |
| RunDeliveryMesh | 3 events, hints, 1 crash, 1 expiry, 1 retention window, Subscribe may fail | an event once per dedup window; the tail never steps over a retained row unsent |
| Guard | 2 replicas, 2 keys (one strict with two leases, one given back), 3 storage errors | at most one covered execution, and the fail-open bound |
| OutboundPages | 1 replica, pages of 1, first row undeliverable, 1 requeue, 1 claim error | no starvation, the request settles, attempts stay capped |
| OutboundFaults | 2 replicas, 2 requests in a page, the first an email, 1 crash, 1 failed stamp | one holder per attempt while the leases run; a crash or a failed stamp strands one request at most; of a request the lease covered, no attempt runs twice while nothing fails, a sent row stays sent, attempts never go down |
| CronLeader | 3 nodes, 2 leases, 2 lost sessions, 2 faults | one open gate per lease, its lock behind it, no stranded lock, failover |
| JobCreation | 2 Runs, 1 cleanup call of either kind | one Job at most, `Attempt` implemented, a POST that outlives the window included, every cleanup confirmed in the end |
| PipelineRun | 2 replicas, 1 step that the plan may skip, 2 attempts, 1 fault, a cancel at any time | attempts never overlap, receipts stand, run and work agree, a success is real and clean, a conclusion is quiet, a claimed run concludes |
| RunDeliveryHintAck, OutboundWedged, OutboundTwice | | counterexamples, section 6 |

Why the bounds are enough. The races of the store are between two transactions
on one key or on two, with a subscriber of the key between its statements; two
of each reach them all, and subscribers of one key meet every append to it.
`RunDelivery` needs a row before and a row after the one a hint carries, a
channel of one so that it is full with one row, and a batch of two so that
partial and full batches both occur. Claims need ages on both sides of each
threshold, hence an `AgeCap` one past the largest; three errors are one more
than two budgets of one. In the outbound runs one tick stands for the whole
delivery timeout. With a lease of 2 ticks (OutboundFaults) the second row of a
page is claimed while the lease still spans it, or, behind an email, when it no
longer does; with a lease of 1 (OutboundTwice) a page of two webhooks outlasts
it; `MaxAttempts` 2 (OutboundPages) gives a first attempt, a retry and an exhausted one.
Two Runs and a cleanup are a creator, its competitor or successor, and what
stops them. A pipeline run needs a drive that is left behind and one that
follows it, and a second attempt to overlap with the first; its steps share
nothing but the run row and the cancel, so one stands for all, which the proofs
do not assume. Where symmetry is used (Guard, OutboundFaults: replicas;
RunDeliveryMesh: events) the members are interchangeable and no liveness is
checked. Every bound is a named constant, and is checked where the step it
bounds is enabled.

Deadlock is checked except in RunDeliveryMesh, where a replica whose Subscribe
failed waits for a restart that the crash bound no longer allows, and in
JobCreation and PipelineRun, where everything may be over.

## 5. Fairness

* `OutboxStore`: strong fairness of each producer's next statement. PostgreSQL
  queues lock waiters in order, so a statement that can run again and again
  gets its turn.
* `RunDelivery`: weak fairness of Subscribe (the orchestrator restarts a dead
  replica), of the tail's sends and poll (`time.Ticker`) and of the consumer;
  strong fairness of the read, which the tail retries at each poll and which
  does not fail for ever. Nothing is assumed of hints or of the sweep. Crashes
  are finite in number.
* `OutboundWorker`: weak fairness of each replica's work, of backoff and of
  time, strong fairness of each status's scan, which every poll repeats.
* `CronLeader`: weak fairness of the node's own steps (the poll ticker) and of
  the server's ending of a session whose client is gone. Faults are finite.
* `JobCreation`: weak fairness of the API server and the clocks, and of each
  cleanup call, which its driver repeats; strong fairness of a cleanup's delete
  of the Job, which is retried at once against heartbeats seconds apart.
  Nothing of a Run: it may stop, or freeze, anywhere.
* `PipelineRun`: weak fairness of each drive in memory, of the recovery's
  claim (`RecoverRuns` ticks), of the ageing of a lease whose holder does not
  drive, and of the end of a command that runs. Faults are finite; a cancel is
  never assumed.

## 6. Where comments and code disagree

Each of these three runs checks a promise found in a comment and ends in a
counterexample; `PROJECT.json` quotes the lines.

* RunDeliveryHintAck: `consume` acknowledges what came by hint, so a hint does
  advance the cursor; a crash before the earlier rows are read skips them.
* OutboundWedged: a replica that dies after the `sending` stamp leaves a row no
  scan reads again. The claim recovers; the row does not. `StrandedBounded`
  says how wide the gap is: one such request per crash or failed stamp, and
  none without.
* OutboundTwice: a page is read once and its rows are processed one after the
  other; the claim of a row is made with the attempts of that read, and the row
  is not looked at again. When the deliveries before it outlast the lease, a
  peer may have delivered the row and its claim lapsed: the attempt then runs a
  second time, on two live replicas. A page is 50 rows of up to 10 s each, the
  lease 300 s. `OneRunPerAttempt` and `NoStaleStamp` say what is kept, for
  every size of page and lease: both hold of every request that is not in
  `exposed`.

Other limits, met while choosing the constants of the passing runs:

* With the mesh on, a hint can overtake an unread row, so `ProduceOrder` is
  checked on the durable path only.
* `DeliveredOnce` counts expired dedup entries: when the durable read lags
  behind a hint by the whole window, the event is delivered again.
* The retention sweep deletes the cursor of a live consumer of a quiet key.
  Its next restart starts at the watermark and can miss retained rows, so
  `NoLostRow` is checked without sweeps (`MaxElapses = 0`).
* `exposed` also has every request whose email took longer than `HTTPTimeout`
  (transport.go:78; the lease's comment in config.go:44 counts on that bound),
  and every request that was waved through without a claim. Delivery of these
  is at least once.
* `ClaimedConcludes` has one exception. `openWork` names the work on the run row
  (driver.go:691) before it creates it (driver.go:700). A drive that dies in
  between, followed by a cancel or a refusal, leaves a run whose conclusion
  closes a work run that does not exist; every recovery fails at the same call.
* The late-POST window can be beaten, as retirement.go:40-43 says: by a process
  frozen between its last look at the markers and its POST, and by a clock that
  runs ahead. `JobCreation` lets either happen. The attempt is then `overtaken`:
  its Job may start behind a confirmed cleanup, still only once.
  `PipelineRun`'s properties of the runner (`AttemptsApart`,
  `CleanUnlessCancelled`, `ConcludedIsQuiet`) are about attempts that no late
  POST overtakes.
* `OneOpenGate` excepts a node whose session the server has dropped: its gate
  stays open until its next poll, beside the new leader's.
* `CleanUnlessCancelled` excepts a run that was asked to cancel: when an
  acknowledgement fails and a cancel comes late, the run may conclude as a
  success with that attempt unacknowledged (driver.go:530), where the log line
  of driver.go:1799 says that the run is kept unfinished.
* A cancel of a pipeline run lists Jobs before Secrets (retirement.go:157); a
  Job made in between is not in its inventory. `ImplementsAttempt` therefore
  promises of a confirmed cancel only that nothing starts after it, not that
  nothing is left.

## 7. Proofs

TLAPS checks them for every value of the constants that satisfies the named
`ASSUME`s. `Zenon` in a `BY` marks a leaf that is first-order reasoning without
arithmetic; `SMTT(30)` and `ZenonT(30)` give a large leaf more time.

`OutboxStoreProofs.tla`. The inductive invariant `StoreInv` adds to `TypeOK`
and `OneRowPerEvent`: the holder of a key's row lock has the next position
(`LockHolderIsNext`) and is alone (`OneLockHolder`), an inserted row's event is
neither committed nor inserted elsewhere (`InsertedIsFresh`), and every row,
cursor and subscription start is at or below the committed allocator value
(`RowsAllocated`, `CursorsAllocated`, `StartsAllocated`). None of the
properties is inductive alone: that a commit lands past every cursor needs that
cursors are allocated *and* that its own position is the next one. From it:
`TypeCorrect`, `AppendIdempotent`, `WatermarkSafe`, `CommitOrder`,
`CursorsMoveForward`, and `Refinement`, by which each statement is an abstract
step or a stutter.

`RunDeliveryLemmas.tla` and `RunDeliveryProofs.tla`. The first has what each
step keeps; the second adds the two arguments that count (a read takes a dense
batch, `BatchesDense`; how often an event went out, `CountInv`) and draws the
conclusions. `TypeCorrect` is inductive by itself. The tail's
argument, `TailInv`, says of each connection that position, batch and channel
lie within the log, that a batch is dense (it has every retained row between
the position and its last row, each position once), and that every retained row
between start and position was sent, as was every event in the dedup window;
with `LogInv` (rows and cursors are allocated) it is inductive with hints,
expiries, sweeps and crashes, and gives `NothingSkipped`. `CountInv` bounds the
sends of an event by the expiries plus whether the window still has it:
`DedupHolds`. Without the fast path `OrderInv` adds that hints are absent and
that the channel, the rows sent and the batch ascend around the position:
`DurableOrder`. `ArrivalInv` then says that the rows up to the cursor have
arrived and those up to the position have arrived, or are in the batch or on
the channel. Acknowledging the head of the channel is sound only because
everything below it is neither in the batch nor behind it on the channel, which
is `OrderInv`; a hint breaks exactly this, and RunDeliveryHintAck is the
counterexample. `DurableDelivery` holds until something outlives the retention
(`spent.elapses = 0`), the limit of section 6.

`ExecutionGuardProofs.tla`. `GuardInv` says that an execution its claim covers
has its own row, of its own age and lease, in the ledger (`CoveredOwnsRow`). No
caller's lease makes such a row winnable, no prune removes it, and a release
removes it only together with the execution. Two covered executions of one key
are then one row: `ExecutionsExcluded`. It uses that leases are below the age
cap (`TtlsAssumption`), and that only claims without a lease are given back, no
later than the retention (`PolicyAssumption`), as their callers do.
`UnguardedAdmissionsBounded` rests on `BudgetInv`: of the admissions a process
remembers, the last `count` are those of the current window, and the at most
`UnguardedMax` before them are the only others young enough to count, because a
window restarts only when it is older than its length. `GuardTypeCorrect` needs
nothing more.

`OutboundWorkerProofs.tla`. Nothing is assumed of the sizes of page, lease and
timeout but that ages are counted past them (`WorkerBoundsAssumption`).
`HolderInv` says that the ledger row of an attempt in hand, as long as it has
been in hand no longer than the lease, names its holder and the worker's lease
and is as old as the attempt has been in hand; so it can be neither taken over
nor pruned, whatever else happens: `OneHolder`. `OutboundTypeCorrect` needs
`AttemptsInv`: an outcome adds one to the attempts of a snapshot that may be
old, so everything that may still be delivered (pending and retrying rows,
pages read, rows in hand) has to be below the cap plus the requeues so far.

`NoStaleStamps` and `OneRun` are about the requests that are not `exposed`. The
hard case is a row processed long after its page was read. `PageInv` says that
such a row is as it was read, or is exposed, or its attempt is fenced by a
claim made since the page was read. When the row's turn comes, such a claim has
not lapsed, or the page is `Outdated` and the claim that is made from it
exposes the request. The argument holds across crashes, failed stamps,
unanswered claims, requeues, takeovers and the prune. `RunsInv` then counts: a
delivery that has begun is that of a row in hand, or has left its row sent or
at a later attempt, so nothing open can begin it again.

`FewStranded`: a request that enters `Stranded` was left by the one replica
that crashed or failed its stamp in that very step, since every outcome that is
written takes its row out of `sending` (`OutcomeSettles`).

`CronLeaderProofs.tla`. `LeaderInv` relates phase, session, lock and gate:
gates are closed before a session is given up, a lost session owns nothing, an
open gate on a live session is owned, and an owned lock is led unless its node
is about to give its session up. From it `GatesHoldLocks`, `LocksNotStranded`
and `SingleLeader`: two gates of one lease on sessions the server still has
would be owned by one session.

`JobCreationProofs.tla`. While no stop marker stands, whoever may send a POST
or has sent one is the Run the Secret names (`ClaimInv`), so there is one such
Run at most; a marker is written before any cleanup may drop the Secret, and a
Run reads it last before its POST (`CleanupInv`, `CancelInv`). `MadeInv` draws
the conclusion, `StartedOnceHolds`, late POSTs included; `Refinement` shows that
every step is a step of `Attempt` or a stutter, so nothing starts behind a
confirmed cleanup unless its POST outlived the window.
`CreationTypeCorrect` is a conjunct of the invariant.

`PipelineRunProofs.tla`. The invariant has four
parts beside the type (`PipelineTypeCorrect`): what the rows say of the
runner's attempts (`RowsInv`), what any drive remembers, one that lost its
lease included (`MemoryInv`), what the holder knows of the rows (`HolderInv`),
and what a conclusion rests on (`ResultInv`). The memory of a drive that was
left behind is the reason it has to be so large: its calls to the runner are
not fenced. That a skipped step was never handed over rests on the plan's skip
staying on its row while drives come and go, and on no drive having an attempt
of it to send. From it `AttemptsApartHolds`, `SuccessIsRealHolds`,
`WorkAgreesHolds`, `CleanHolds`, and the action properties `ReceiptsStandHolds`
and `ConcludedIsQuietHolds`.

Only model-checked:

* all liveness (`AppendsFinish`, `RowsArrive`, `RequestsSettle`, `LeaseIsLed`,
  `CleanupConfirms`, `ClaimedConcludes`), which is outside the prover's reach.

## 8. Not modelled

* Payloads, topics, headers, log lines and metrics.
* The outbound transports and the individual admission checks: their verdict is
  a nondeterministic input.
* How hints travel between peers: only that they may be lost, late and
  reordered.
* Clock differences between replicas. The claim statement and its lease use the
  database's clock, as the model does; the prune's cutoff comes from the
  replica's clock, which the model takes to agree with it. The late-POST window
  is the exception: a fast clock is one of the ways to end it early.
* A `Publish` that fails is logged and its event dropped
  (`run_delivery.go:251`): the model's `PublishFails` has no later effect to
  state a property about.
* The stream channels' terminal chunk, which may arrive by hint before the data
  (`stream_channel.go:213`), section 2, item 8.
* The time-to-live after which Kubernetes removes a finished Job
  (`jobspec.go:272`), taken to be longer than a driver's absence, and how several
  Runs watch one Job that stands.
* Qualification runs: their fence beside the heartbeat (lease.go:452-458), which
  cancels the drive, and their rule that some step must have been executed
  (driver.go:2310).
* Which earlier run a plan carries a passed step over from: a step it skips is
  a nondeterministic input.
* The order of a pipeline's stages and what its steps do: steps run in any
  order, side by side.
* The parts with status `not_modelled` in `PROJECT.json`, for the reasons given
  there: planned (section 2, items 8-11), sequential evaluation of data beyond
  a small-instance check, or pure I/O.
