--------------------------- MODULE OutboundWorker ---------------------------
(***************************************************************************)
(* The outbound delivery worker (component/outbound/worker.go): every      *)
(* replica polls the staged requests a page at a time, claims one          *)
(* (request, attempts) pair, stamps it "sending", delivers it and stamps   *)
(* the outcome.  The rows of a page are read once and processed one after  *)
(* the other, so a row may have moved on when its turn comes.              *)
(*                                                                         *)
(* A tick is long against a database round trip and short against a        *)
(* delivery: ticks pass while workers wait or deliver.  A webhook's POST   *)
(* ends within HTTPTimeout of them; an email's SMTP exchange has no        *)
(* deadline.                                                               *)
(***************************************************************************)
EXTENDS ClaimTable, FiniteSets

CONSTANTS
    NumRequests,    \* requests, numbered in createdAt order
    Backlog,        \* the requests staged before the replicas started
    Egress,         \* the <<node, request>> pairs mediumEnabledHere accepts
    Email,          \* the requests that go out as email, not by webhook
    PageSize,       \* paginate 50
    MaxAttempts,    \* cfg.MaxAttempts
    ClaimTTL,       \* cfg.ClaimTTL, in ticks
    HTTPTimeout,    \* cfg.HTTPTimeout, in ticks
    MaxRequeues,    \* bound on an operator's requeues
    MaxCrashes,     \* bound on replica crashes and stops
    MaxStampErrors, \* bound on stamps that fail
    MaxClaimErrors  \* bound on claims that end in a storage error

Requests == 1 .. NumRequests
AttemptCounts == 0 .. MaxAttempts + MaxRequeues

ASSUME WorkerBoundsAssumption ==
    /\ NumRequests \in Nat /\ PageSize \in Nat \ {0} /\ MaxAttempts \in Nat \ {0}
    /\ ClaimTTL \in Nat /\ HTTPTimeout \in Nat /\ MaxRequeues \in Nat
    /\ MaxCrashes \in Nat /\ MaxStampErrors \in Nat /\ MaxClaimErrors \in Nat
    /\ HTTPTimeout < AgeCap /\ ClaimTTL < AgeCap
ASSUME KeysAssumption == ClaimKeys = Requests \X AttemptCounts
ASSUME EgressAssumption == Egress \subseteq Nodes \X Requests
ASSUME RequestsAssumption == Email \subseteq Requests /\ Backlog \subseteq Requests

VARIABLES
    rows,      \* the outboundRequest rows
    worker,    \* each replica's drain
    cursor,    \* scanCursors: where each replica's next page starts
    alarm,     \* what starts a replica's next drain: ticker and wake
    runs,      \* history: deliveries begun per (request, attempts)
    exposed,   \* history: requests a lease did not cover to the end
    spent      \* what has been used of the bounds

vars == <<claims, window, rows, worker, cursor, alarm, runs, exposed, spent>>

Statuses == {"unstaged", "pending", "sending", "retrying", "sent", "failed"}
Scanned == {"pending", "retrying"}

(* What a scan reads of a row; due says that nextAttemptAt has passed.     *)
Snapshots == [id : Requests, attempts : AttemptCounts, due : BOOLEAN]

(* One page of a drain, and the row being processed: scan is the status    *)
(* read, page the rows still to process, next the cursor of the page after *)
(* this one, id and attempts the row in hand; age and held are the ticks   *)
(* since the page was read and since the row was taken in hand.            *)
Drains ==
    [phase : {"idle", "scan", "page", "claimed", "sending", "stamp"}, scan : Scanned,
     page : SUBSET Snapshots, next : 0 .. NumRequests, id : 0 .. NumRequests,
     attempts : AttemptCounts, guarded : BOOLEAN, age : Ages, held : Ages,
     outcome : {"none", "ok", "permanent", "retryable", "refused"}]

Drain(phase, status) ==
    [phase |-> phase, scan |-> status, page |-> {}, next |-> 0, id |-> 0,
     attempts |-> 0, guarded |-> FALSE, age |-> 0, held |-> 0, outcome |-> "none"]

Resting == Drain("idle", "pending")

(* How often a delivery of one attempt is begun matters up to twice.       *)
RunCounts == 0 .. 2

TypeOK ==
    /\ ClaimsTypeOK
    /\ rows \in [Requests -> [status : Statuses, attempts : AttemptCounts, due : BOOLEAN]]
    /\ worker \in [Nodes -> Drains]
    /\ cursor \in [Nodes -> [Scanned -> 0 .. NumRequests]]
    /\ alarm \in [Nodes -> [ticker : BOOLEAN, wake : BOOLEAN]]
    /\ runs \in [ClaimKeys -> RunCounts]
    /\ exposed \subseteq Requests
    /\ spent \in [requeues : 0 .. MaxRequeues, crashes : 0 .. MaxCrashes,
                  stamps : 0 .. MaxStampErrors, claims : 0 .. MaxClaimErrors]

Init ==
    /\ ClaimsInit
    /\ rows = [r \in Requests |-> [status |-> IF r \in Backlog THEN "pending" ELSE "unstaged",
                                   attempts |-> 0, due |-> FALSE]]
    /\ worker = [n \in Nodes |-> Resting]
    /\ cursor = [n \in Nodes |-> [s \in Scanned |-> 0]]
    /\ alarm = [n \in Nodes |-> [ticker |-> TRUE, wake |-> FALSE]]
    /\ runs = [k \in ClaimKeys |-> 0]
    /\ exposed = {}
    /\ spent = [requeues |-> 0, crashes |-> 0, stamps |-> 0, claims |-> 0]

-----------------------------------------------------------------------------
(* The rows, from outside                                                  *)

(* stageOutboundRequest, on the replica whose bus then wakes its worker.   *)
Stage(n, r) ==
    /\ rows[r].status = "unstaged"
    /\ rows' = [rows EXCEPT ![r].status = "pending"]
    /\ alarm' = [alarm EXCEPT ![n].wake = TRUE]
    /\ UNCHANGED <<claims, window, worker, cursor, runs, exposed, spent>>

(* nextAttemptAt passes.                                                   *)
BackoffElapses(r) ==
    /\ rows[r].status = "retrying" /\ ~rows[r].due
    /\ rows' = [rows EXCEPT ![r].due = TRUE]
    /\ UNCHANGED <<claims, window, worker, cursor, alarm, runs, exposed, spent>>

(* An operator sets a failed row back to pending; attempts stay.           *)
Requeue(r) ==
    /\ rows[r].status = "failed"
    /\ spent.requeues < MaxRequeues
    /\ rows' = [rows EXCEPT ![r].status = "pending"]
    /\ spent' = [spent EXCEPT !.requeues = @ + 1]
    /\ UNCHANGED <<claims, window, worker, cursor, alarm, runs, exposed>>

-----------------------------------------------------------------------------
(* loop and drainOnce                                                      *)

(* The poll ticker has fired since the last drain began, or a wake waits.  *)
StartDrain(n) ==
    /\ worker[n].phase = "idle"
    /\ worker' = [worker EXCEPT ![n] = Drain("scan", "pending")]
    /\ \/ alarm[n].ticker /\ alarm' = [alarm EXCEPT ![n].ticker = FALSE]
       \/ alarm[n].wake /\ alarm' = [alarm EXCEPT ![n].wake = FALSE]
    /\ UNCHANGED <<claims, window, rows, cursor, runs, exposed, spent>>

(* The rows of a status past a cursor, in creation order, a page of them,  *)
(* and the cursor the engine mints with it: its last row, for any page     *)
(* that is full, and none for a short one.                                 *)
Following(status, c) == {r \in Requests : rows[r].status = status /\ r > c}
PageOf(s) == {r \in s : Cardinality({q \in s : q < r}) < PageSize}

(* Slip: every scan starts at the oldest row.                              *)
PageCursor_Restarts(s) == 0

PageCursor(s) ==
    IF Cardinality(PageOf(s)) < PageSize THEN 0
    ELSE CHOOSE r \in PageOf(s) : \A q \in PageOf(s) : q <= r

Snapshot(r) == [id |-> r, attempts |-> rows[r].attempts, due |-> rows[r].due]

Scan(n) ==
    LET status == worker[n].scan
        s == Following(status, cursor[n][status])
    IN  /\ worker[n].phase = "scan"
        /\ worker' = [worker EXCEPT ![n] =
              [Drain("page", status) EXCEPT
                  !.page = {Snapshot(r) : r \in PageOf(s)},
                  !.next = PageCursor(s)]]
        /\ UNCHANGED <<claims, window, rows, cursor, alarm, runs, exposed, spent>>

(* The scan fails: drainOnce returns.                                      *)
ScanFails(n) ==
    /\ worker[n].phase = "scan"
    /\ worker' = [worker EXCEPT ![n] = Resting]
    /\ UNCHANGED <<claims, window, rows, cursor, alarm, runs, exposed, spent>>

(* The page is done: keep its cursor, unless that is the one it started    *)
(* from, and turn to the other status or to rest.                          *)
EndPage(n) ==
    LET status == worker[n].scan
        next == worker[n].next
    IN  /\ worker[n].phase = "page" /\ worker[n].page = {}
        /\ cursor' = [cursor EXCEPT ![n][status] =
                         IF next = @ THEN 0 ELSE next]
        /\ worker' = [worker EXCEPT ![n] =
                         IF status = "pending" THEN Drain("scan", "retrying") ELSE Resting]
        /\ UNCHANGED <<claims, window, rows, alarm, runs, exposed, spent>>

-----------------------------------------------------------------------------
(* processRow                                                              *)

(* s is the row of the page whose turn it is.                              *)
Turn(n, s) ==
    /\ worker[n].phase = "page"
    /\ s \in worker[n].page
    /\ \A q \in worker[n].page : s.id <= q.id

(* The row is due, and this node egresses its medium.                      *)
Eligible(n, s) ==
    /\ worker[n].scan = "retrying" => s.due
    /\ <<n, s.id>> \in Egress

KeyOf(s) == <<s.id, s.attempts>>

NextRow(n) == [worker[n] EXCEPT !.page = {q \in @ : q.id # worker[n].id},
                 !.phase = "page", !.id = 0, !.attempts = 0, !.guarded = FALSE,
                 !.held = 0, !.outcome = "none"]

PassOver(n, s) == worker' = [worker EXCEPT ![n].page = @ \ {s}]

InHand(n, s, guarded) ==
    worker' = [worker EXCEPT ![n].phase = "claimed", ![n].id = s.id,
                 ![n].attempts = s.attempts, ![n].guarded = guarded]

(* Not due, another node's medium, or a peer's live claim.                 *)
Skip(n, s) ==
    /\ Turn(n, s)
    /\ Eligible(n, s) => ~Winnable(KeyOf(s), ClaimTTL)
    /\ PassOver(n, s)
    /\ UNCHANGED <<claims, window, rows, cursor, alarm, runs, exposed, spent>>

(* The page is so old that a claim made after it was read may have lapsed, *)
(* or will have before a delivery that begins now ends.                    *)
Outdated(w) == w.age + HTTPTimeout > ClaimTTL

Claim(n, s) ==
    /\ Turn(n, s)
    /\ Eligible(n, s)
    /\ TakeClaim(n, KeyOf(s), ClaimTTL)
    /\ InHand(n, s, TRUE)
    /\ exposed' = IF Outdated(worker[n]) THEN exposed \cup {s.id} ELSE exposed
    /\ UNCHANGED <<window, rows, cursor, alarm, runs, spent>>

(* The claim ends in a storage error, committed or not: the guard admits   *)
(* the row without a claim, or, its budget spent, refuses.                 *)
ClaimErrs(n, s) ==
    /\ Turn(n, s)
    /\ Eligible(n, s)
    /\ spent.claims < MaxClaimErrors
    /\ spent' = [spent EXCEPT !.claims = @ + 1]
    /\ TakeClaim(n, KeyOf(s), ClaimTTL) \/ UNCHANGED claims
    /\ \/ AllowUnguarded(n) /\ InHand(n, s, FALSE) /\ exposed' = exposed \cup {s.id}
       \/ UNCHANGED <<window, exposed>> /\ PassOver(n, s)
    /\ UNCHANGED <<rows, cursor, alarm, runs>>

(* admit refuses the row by policy, or cannot resolve its target now.      *)
NotAdmitted(n, outcome) ==
    /\ worker[n].phase = "claimed"
    /\ outcome \in {"refused", "retryable"}
    /\ worker' = [worker EXCEPT ![n].phase = "stamp", ![n].outcome = outcome]
    /\ UNCHANGED <<claims, window, rows, cursor, alarm, runs, exposed, spent>>

(* A stamp that fails is logged, and that is all.                          *)
Stamped(r, row, written) ==
    IF written
      THEN rows' = [rows EXCEPT ![r] = row] /\ UNCHANGED spent
      ELSE /\ spent.stamps < MaxStampErrors
           /\ spent' = [spent EXCEPT !.stamps = @ + 1]
           /\ UNCHANGED rows

(* admit accepts: "sending" is stamped, whatever the row's status is now,  *)
(* and the delivery begins.                                                *)
Send(n, written) ==
    LET r == worker[n].id
        k == <<r, worker[n].attempts>>
    IN  /\ worker[n].phase = "claimed"
        /\ Stamped(r, [rows[r] EXCEPT !.status = "sending"], written)
        /\ worker' = [worker EXCEPT ![n].phase = "sending"]
        /\ runs' = [runs EXCEPT ![k] = IF @ < 2 THEN @ + 1 ELSE @]
        /\ UNCHANGED <<claims, window, cursor, alarm, exposed>>

Deliver(n, outcome) ==
    /\ worker[n].phase = "sending"
    /\ outcome \in {"ok", "permanent", "retryable"}
    /\ worker' = [worker EXCEPT ![n].phase = "stamp", ![n].outcome = outcome]
    /\ UNCHANGED <<claims, window, rows, cursor, alarm, runs, exposed, spent>>

(* Slips: a failed delivery is retried without being charged; the attempts *)
(* are not capped; a permanent failure is not stamped.                     *)
Outcome_Uncharged(w) ==
    LET row == rows[w.id]
    IN  CASE w.outcome = "ok" -> [row EXCEPT !.status = "sent"]
          [] w.outcome \in {"refused", "permanent"} ->
                [row EXCEPT !.status = "failed", !.attempts = w.attempts]
          [] OTHER ->
                [status |-> "retrying", attempts |-> w.attempts, due |-> FALSE]

Outcome_Uncapped(w) ==
    LET row == rows[w.id]
        failures == w.attempts + 1
    IN  CASE w.outcome = "ok" -> [row EXCEPT !.status = "sent"]
          [] w.outcome = "refused" ->
                [row EXCEPT !.status = "failed", !.attempts = w.attempts]
          [] w.outcome = "permanent" ->
                [row EXCEPT !.status = "failed", !.attempts = failures]
          [] OTHER ->
                [status |-> "retrying", attempts |-> failures, due |-> FALSE]

Outcome_Unstamped(w) ==
    LET row == rows[w.id]
        failures == w.attempts + 1
    IN  CASE w.outcome = "ok" -> [row EXCEPT !.status = "sent"]
          [] w.outcome = "refused" ->
                [row EXCEPT !.status = "failed", !.attempts = w.attempts]
          [] w.outcome = "permanent" -> row
          [] OTHER ->
                IF failures >= MaxAttempts
                  THEN [row EXCEPT !.status = "failed", !.attempts = failures]
                  ELSE [status |-> "retrying", attempts |-> failures, due |-> FALSE]

(* The row an outcome leaves: the attempts are those of the snapshot, plus *)
(* one for a failed delivery; a policy refusal charges none.               *)
Outcome(w) ==
    LET row == rows[w.id]
        failures == w.attempts + 1
    IN  CASE w.outcome = "ok" -> [row EXCEPT !.status = "sent"]
          [] w.outcome = "refused" ->
                [row EXCEPT !.status = "failed", !.attempts = w.attempts]
          [] OTHER ->
                IF w.outcome = "permanent" \/ failures >= MaxAttempts
                  THEN [row EXCEPT !.status = "failed", !.attempts = failures]
                  ELSE [status |-> "retrying", attempts |-> failures, due |-> FALSE]

StampOutcome(n, written) ==
    /\ worker[n].phase = "stamp"
    /\ Stamped(worker[n].id, Outcome(worker[n]), written)
    /\ worker' = [worker EXCEPT ![n] = NextRow(n)]
    /\ UNCHANGED <<claims, window, cursor, alarm, runs, exposed>>

-----------------------------------------------------------------------------

(* The replica dies, or stops: Stop cancels the context the delivery and   *)
(* its stamps run under.  Claims stay; the process starts over.            *)
Crash(n) ==
    /\ spent.crashes < MaxCrashes
    /\ spent' = [spent EXCEPT !.crashes = @ + 1]
    /\ worker' = [worker EXCEPT ![n] = Resting]
    /\ cursor' = [cursor EXCEPT ![n] = [s \in Scanned |-> 0]]
    /\ alarm' = [alarm EXCEPT ![n] = [ticker |-> TRUE, wake |-> FALSE]]
    /\ ForgetWindow(n)
    /\ UNCHANGED <<claims, rows, runs, exposed>>

Prune ==
    /\ PruneClaims
    /\ UNCHANGED <<window, rows, worker, cursor, alarm, runs, exposed, spent>>

(* A delivery goes on for one more tick: a webhook's until its timeout, an *)
(* email's for as long as the mail server takes.                           *)
GoesOn(w) == w.phase = "sending" /\ (w.id \in Email \/ w.held < HTTPTimeout)

Tick ==
    /\ \A n \in Nodes : worker[n].phase = "idle" \/ GoesOn(worker[n])
    /\ AgeClaims
    /\ worker' = [n \in Nodes |->
          IF worker[n].phase = "sending"
            THEN [worker[n] EXCEPT !.age = Older(@), !.held = Older(@)]
            ELSE worker[n]]
    /\ exposed' = exposed \cup
          {worker[n].id : n \in {m \in Nodes : /\ worker[m].phase = "sending"
                                             /\ worker[m].held >= HTTPTimeout}}
    /\ alarm' = [n \in Nodes |-> [alarm[n] EXCEPT !.ticker = TRUE]]
    /\ UNCHANGED <<rows, cursor, runs, spent>>

(* What a replica does while nothing fails under it.                       *)
Work(n) ==
    \/ StartDrain(n)
    \/ Scan(n)
    \/ EndPage(n)
    \/ \E s \in worker[n].page : Skip(n, s) \/ Claim(n, s)
    \/ \E outcome \in {"refused", "retryable"} : NotAdmitted(n, outcome)
    \/ Send(n, TRUE)
    \/ \E outcome \in {"ok", "permanent", "retryable"} : Deliver(n, outcome)
    \/ StampOutcome(n, TRUE)

Next ==
    \/ \E n \in Nodes, r \in Requests : Stage(n, r)
    \/ \E r \in Requests : BackoffElapses(r) \/ Requeue(r)
    \/ \E n \in Nodes :
          \/ Work(n)
          \/ ScanFails(n)
          \/ \E s \in worker[n].page : ClaimErrs(n, s)
          \/ Send(n, FALSE)
          \/ StampOutcome(n, FALSE)
          \/ Crash(n)
    \/ Prune
    \/ Tick

Spec == Init /\ [][Next]_vars

(* Polls keep coming, a scan tried over and over is answered once, backoffs*)
(* end and time passes.                                                    *)
FairSpec ==
    /\ Spec
    /\ \A n \in Nodes : WF_vars(Work(n))
    /\ \A n \in Nodes, status \in Scanned :
          SF_vars(Scan(n) /\ worker[n].scan = status)
    /\ \A r \in Requests : WF_vars(BackoffElapses(r))
    /\ WF_vars(Tick)

-----------------------------------------------------------------------------
(* Properties                                                              *)

(* No two replicas hold the same attempt of a request at the same time, as *)
(* long as neither has held it for longer than the lease, which an email's *)
(* delivery can (processRow claims before any side effect); a claim the    *)
(* guard waved through in an outage aside.                                 *)
OneHolderPerAttempt ==
    \A m, n \in Nodes :
        LET covered(w) == /\ w.phase \in {"claimed", "sending", "stamp"}
                          /\ w.guarded /\ w.held <= ClaimTTL
        IN  ( /\ m # n /\ covered(worker[m]) /\ covered(worker[n])
              /\ worker[m].id = worker[n].id )
            => worker[m].attempts # worker[n].attempts

(* deliveryClaimName's promise, "two live replicas never run the same      *)
(* attempt": as long as no replica died, no stamp failed and no claim went *)
(* unanswered, the delivery of an attempt begins once, on one replica.     *)
NeverRunTwice ==
    spent.crashes = 0 /\ spent.stamps = 0 /\ spent.claims = 0
        => \A k \in ClaimKeys : runs[k] <= 1

(* What the code keeps of that promise: it holds of every request that the *)
(* lease covered.  Not covered is one that was claimed from a page so old  *)
(* that the lease does not span its age and a delivery, that was delivered *)
(* for longer than HTTPTimeout, or that was admitted without a claim       *)
(* (drainOnce reads a page once and processRow acts on what it read).      *)
OneRunPerAttempt ==
    spent.crashes = 0 /\ spent.stamps = 0
        => \A k \in ClaimKeys : k[1] \notin exposed => runs[k] <= 1

(* A row that was sent stays sent, and no stamp takes back an attempt, for *)
(* every request that the lease covered, although a stamp writes what the  *)
(* page read long before gives it (stamp): crashes, failed stamps,         *)
(* takeovers and prunes included.                                          *)
NoStaleStamp ==
    [][\A r \in Requests \ exposed :
          /\ rows[r].status = "sent" => rows'[r].status = "sent"
          /\ rows'[r].attempts >= rows[r].attempts]_vars

(* The requests no scan reads again: stamped "sending", and no replica is  *)
(* delivering them or about to stamp the outcome.                          *)
Stranded ==
    {r \in Requests :
        /\ rows[r].status = "sending"
        /\ \A n \in Nodes : worker[n].id = r => worker[n].phase \notin {"sending", "stamp"}}

(* Only a replica that died or a stamp that failed strands a request, and  *)
(* each of those one at most: however pages, takeovers and requeues        *)
(* interleave, whoever stamps "sending" also stamps an outcome over it     *)
(* (processRow, stamp, Stop).                                              *)
StrandedBounded == Cardinality(Stranded) <= spent.crashes + spent.stamps

(* "the row is never wedged" (Worker): every staged request some replica   *)
(* egresses ends sent or failed.                                           *)
RequestsSettle ==
    \A r \in {q \in Requests : \E n \in Nodes : <<n, q>> \in Egress} :
        rows[r].status \in {"pending", "retrying"}
            ~> rows[r].status \in {"sent", "failed"}

=============================================================================
