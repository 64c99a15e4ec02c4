------------------------ MODULE OutboundWorkerProofs ------------------------
(***************************************************************************)
(* What TLAPS proves of OutboundWorker, for every number of replicas and   *)
(* requests, page size, lease, timeout and retention: the state has its    *)
(* type (no row is ever charged past the attempts the code and the         *)
(* operator allow), no two replicas hold the same attempt on leases that   *)
(* have not run out, a crash or a failed stamp leaves one request at       *)
(* "sending" at most, and of every request that a lease covered (it is not *)
(* in exposed) no stamp is stale and no attempt is run twice.              *)
(*                                                                         *)
(* The type is not inductive alone: an outcome adds one to the attempts of *)
(* a snapshot, so AttemptsInv says that whatever may still be delivered is *)
(* below the limit.  OneHolderPerAttempt needs HolderInv: the ledger row   *)
(* of a covered attempt names its holder and is as old as the row has been *)
(* in hand, so neither a takeover nor the prune can touch it.              *)
(* NoStaleStamp needs PageInv: every row of a page still to be processed   *)
(* is as it was read, or exposed, or fenced by a claim made since the page *)
(* was read, which the lease then still covers when the row's turn comes,  *)
(* unless the page is Outdated by then, and a claim from it exposes.       *)
(***************************************************************************)
EXTENDS OutboundWorker, FiniteSetTheorems, WellFoundedInduction, TLAPS

(* A replica has a row in hand from the claim to the outcome's stamp.      *)
Holding(w) == w.phase \in {"claimed", "sending", "stamp"}

(* The lease has not run out on the row in hand, if it was claimed.        *)
Covered(w) == Holding(w) /\ w.guarded /\ w.held <= ClaimTTL

(* A covered row is what the ledger says: claimed by its holder, on the    *)
(* worker's lease, as old as the row has been in hand.                     *)
LedgerRow(n, w) == [by |-> n, ttl |-> ClaimTTL, age |-> w.held]

HolderOf(n, w, ledger) ==
    /\ Holding(w) => w.id \in Requests
    /\ w.phase # "sending" /\ w.phase # "stamp" => w.held = 0
    /\ Covered(w) => ledger[KeyOf(w)] = LedgerRow(n, w)

HolderInv == \A n \in Nodes : HolderOf(n, worker[n], claims)

(* No row is charged more attempts than the code and the operator allow,   *)
(* and one that may still be delivered is below that.                      *)
ChargedRow(row, limit) ==
    /\ row.attempts <= limit
    /\ row.status \in {"unstaged", "pending", "retrying"} => row.attempts < limit

ChargedDrain(w, limit) ==
    /\ \A s \in w.page : s.attempts < limit
    /\ Holding(w) => w.attempts < limit

Limit == MaxAttempts + spent.requeues

AttemptsInv ==
    /\ \A r \in Requests : ChargedRow(rows[r], Limit)
    /\ \A n \in Nodes : ChargedDrain(worker[n], Limit)

-----------------------------------------------------------------------------
(* The page and its cursor                                                 *)

LEMMA SmallestOf ==
    ASSUME NEW S \in SUBSET Nat, S # {}
    PROVE  \E x \in S : \A y \in S : x <= y
<1> DEFINE R == OpToRel(<, Nat)
<1>1. \E x \in S : \A y \in S : ~(<<y, x>> \in R)
  <2> HIDE DEF R
  <2>1. IsWellFoundedOn(R, Nat)
    BY Zenon, NatLessThanWellFounded DEF R
  <2> QED
    BY Zenon, <2>1, WFMin
<1>2. PICK x \in S : \A y \in S : ~(<<y, x>> \in R)
  BY Zenon, <1>1
<1>3. ASSUME NEW y \in S PROVE x <= y
  <2>1. x \in Nat /\ y \in Nat
    BY Zenon
  <2>2. ~(y < x)
    BY Zenon, <1>2, <2>1 DEF OpToRel
  <2> QED
    BY <2>1, <2>2
<1> QED
  BY Zenon, <1>3

LEMMA LargestOf ==
    ASSUME NEW n \in Nat, NEW S \in SUBSET (1 .. n), S # {}
    PROVE  \E x \in S : \A y \in S : y <= x
<1> DEFINE T == {n - x : x \in S}
<1>1. T \in SUBSET Nat /\ T # {}
  <2>1. \A x \in S : x \in 1 .. n
    BY Zenon
  <2>2. \A x \in 1 .. n : n - x \in Nat
    OBVIOUS
  <2>3. \A x \in S : n - x \in Nat
    BY Zenon, <2>1, <2>2
  <2> QED
    BY Zenon, <2>3
<1>2. PICK t \in T : \A u \in T : t <= u
  <2> HIDE DEF T
  <2> QED
    BY Zenon, <1>1, SmallestOf
<1>3. PICK x \in S : t = n - x
  BY Zenon
<1>4. \A y \in S : n - x <= n - y
  BY Zenon, <1>2, <1>3
<1>5. \A y \in S : y <= x
  BY <1>4
<1> QED
  BY Zenon, <1>5

(* The cursor a page leaves is a row of it, or none.                       *)
LEMMA PageCursorType ==
    ASSUME NEW s \in SUBSET Requests
    PROVE  PageOf(s) \subseteq s /\ PageCursor(s) \in 0 .. NumRequests
<1>1. PageOf(s) \subseteq s /\ NumRequests \in Nat /\ PageSize \in Nat \ {0}
  BY Zenon, WorkerBoundsAssumption DEF PageOf
<1>2. CASE Cardinality(PageOf(s)) < PageSize
  BY <1>1, <1>2 DEF PageCursor
<1>3. CASE ~(Cardinality(PageOf(s)) < PageSize)
  <2>1. PageOf(s) # {}
    BY <1>1, <1>3, FS_EmptySet
  <2>2. PageOf(s) \in SUBSET (1 .. NumRequests)
    BY Zenon, <1>1 DEF Requests
  <2>3. \E r \in PageOf(s) : \A q \in PageOf(s) : q <= r
    BY Zenon, <1>1, <2>1, <2>2, LargestOf
  <2>4. PageCursor(s) \in PageOf(s)
    BY Zenon, <1>3, <2>3 DEF PageCursor
  <2> QED
    BY <1>1, <2>2, <2>4
<1> QED
  BY Zenon, <1>1, <1>2, <1>3

-----------------------------------------------------------------------------
(* What each step does to a drain                                          *)

Others(n) == \A m \in Nodes : m # n => worker'[m] = worker[m]

(* n's drain moves, and it is still a drain.                               *)
Moves(n) == worker' \in [Nodes -> Drains] /\ Others(n)

(* w has no row in hand and no page.                                       *)
Empty(w) == ~Holding(w) /\ w.page = {} /\ w.held = 0

SameHand(v, w) ==
    /\ w.id = v.id /\ w.attempts = v.attempts /\ w.guarded = v.guarded
    /\ w.held = v.held /\ w.age = v.age

LEMMA DrainFields ==
    ASSUME NEW w \in Drains
    PROVE  /\ w.page \in SUBSET Snapshots /\ w.id \in 0 .. NumRequests
           /\ w.attempts \in AttemptCounts /\ w.guarded \in BOOLEAN
           /\ w.held \in Ages /\ w.held \in Nat /\ w.age \in Ages /\ w.age \in Nat
           /\ w.scan \in Scanned /\ w.next \in 0 .. NumRequests
<1>1. /\ w.page \in SUBSET Snapshots /\ w.id \in 0 .. NumRequests
      /\ w.attempts \in AttemptCounts /\ w.guarded \in BOOLEAN
      /\ w.held \in Ages /\ w.age \in Ages /\ w.scan \in Scanned
      /\ w.next \in 0 .. NumRequests
  BY Zenon DEF Drains
<1> QED
  BY <1>1, ClaimBoundsAssumption DEF Ages

LEMMA EmptyDrain ==
    ASSUME NEW phase \in {"idle", "scan", "page"}, NEW status \in Scanned
    PROVE  /\ Drain(phase, status) \in Drains /\ Empty(Drain(phase, status))
           /\ Drain(phase, status).phase = phase
  BY WorkerBoundsAssumption, ClaimBoundsAssumption
  DEF Drain, Drains, Empty, Holding, AttemptCounts, Ages

LEMMA RestingDrain == Resting \in Drains /\ Empty(Resting)
  BY Zenon, EmptyDrain DEF Resting, Scanned

LEMMA MovesTo ==
    ASSUME TypeOK, NEW n \in Nodes, NEW w \in Drains, worker' = [worker EXCEPT ![n] = w]
    PROVE  Moves(n) /\ worker'[n] = w
  BY Zenon DEF TypeOK, Moves, Others

LEMMA ScanFacts ==
    ASSUME TypeOK, NEW n \in Nodes, Scan(n)
    PROVE  /\ Moves(n) /\ ~Holding(worker'[n]) /\ worker'[n].held = 0
           /\ \A t \in worker'[n].page : \E r \in Requests :
                 rows[r].status \in Scanned /\ t.attempts = rows[r].attempts
<1> DEFINE status == worker[n].scan
           s == Following(status, cursor[n][status])
           d == Drain("page", status)
           w == [d EXCEPT !.page = {Snapshot(r) : r \in PageOf(s)}, !.next = PageCursor(s)]
<1>1. worker' = [worker EXCEPT ![n] = w]
  BY Zenon DEF Scan
<1>2. status \in Scanned
  BY Zenon, DrainFields DEF TypeOK
<1>3. s \in SUBSET Requests /\ \A r \in s : rows[r].status = status
  BY Zenon DEF Following
<1>4. PageOf(s) \subseteq s /\ PageCursor(s) \in 0 .. NumRequests
  <2> HIDE DEF s
  <2> QED
    BY Zenon, <1>3, PageCursorType
<1>5. d \in Drains /\ Empty(d) /\ d.phase = "page"
  BY Zenon, <1>2, EmptyDrain
<1> HIDE DEF s, d, status
<1>6. \A r \in PageOf(s) : Snapshot(r) \in Snapshots /\ Snapshot(r).attempts = rows[r].attempts
  BY Zenon, <1>3, <1>4 DEF Snapshot, Snapshots, TypeOK
<1>7. /\ w \in Drains /\ w.phase = "page" /\ w.held = 0
      /\ w.page = {Snapshot(r) : r \in PageOf(s)}
  <2> DEFINE p == {Snapshot(r) : r \in PageOf(s)}
             c == PageCursor(s)
  <2>1. p \in SUBSET Snapshots /\ c \in 0 .. NumRequests
    BY Zenon, <1>4, <1>6
  <2> HIDE DEF p, c
  <2>2. w = [d EXCEPT !.page = p, !.next = c]
    BY Zenon DEF p, c
  <2>3. w \in Drains /\ w.phase = "page" /\ w.held = 0 /\ w.page = p
    BY Zenon, <1>5, <2>1, <2>2 DEF Drains, Empty
  <2> QED
    BY Zenon, <2>3 DEF p
<1> HIDE DEF w
<1>8. Moves(n) /\ worker'[n] = w
  BY Zenon, <1>1, <1>7, MovesTo
<1>9. \A t \in w.page : \E r \in Requests :
         rows[r].status \in Scanned /\ t.attempts = rows[r].attempts
  BY Zenon, <1>2, <1>3, <1>4, <1>6, <1>7
<1> QED
  BY Zenon, <1>7, <1>8, <1>9 DEF Holding

LEMMA RestFacts ==
    ASSUME TypeOK, NEW n \in Nodes, StartDrain(n) \/ ScanFails(n) \/ EndPage(n) \/ Crash(n)
    PROVE  Moves(n) /\ Empty(worker'[n])
<1>1. \E w \in Drains : Empty(w) /\ worker' = [worker EXCEPT ![n] = w]
  <2>1. CASE StartDrain(n)
    BY Zenon, <2>1, EmptyDrain DEF StartDrain, Scanned
  <2>2. CASE EndPage(n)
    <3>1. Drain("scan", "retrying") \in Drains /\ Empty(Drain("scan", "retrying"))
      BY Zenon, EmptyDrain DEF Scanned
    <3> QED
      BY Zenon, <2>2, <3>1, RestingDrain DEF EndPage
  <2> QED
    BY Zenon, <2>1, <2>2, RestingDrain DEF ScanFails, Crash
<1> QED
  BY Zenon, <1>1, MovesTo

LEMMA PassOverFacts ==
    ASSUME TypeOK, NEW n \in Nodes, NEW s, PassOver(n, s)
    PROVE  /\ Moves(n) /\ worker'[n].phase = worker[n].phase
           /\ SameHand(worker[n], worker'[n]) /\ worker'[n].page \subseteq worker[n].page
<1> DEFINE w == [worker[n] EXCEPT !.page = @ \ {s}]
<1>1. worker[n] \in Drains /\ worker' = [worker EXCEPT ![n] = w]
  BY Zenon DEF PassOver, TypeOK
<1>2. /\ w \in Drains /\ w.phase = worker[n].phase /\ SameHand(worker[n], w)
      /\ w.page \subseteq worker[n].page
  BY Zenon, <1>1 DEF Drains, SameHand
<1> HIDE DEF w
<1> QED
  BY Zenon, <1>1, <1>2, MovesTo

LEMMA InHandFacts ==
    ASSUME TypeOK, NEW n \in Nodes, NEW s \in Snapshots, NEW guarded \in BOOLEAN,
           InHand(n, s, guarded)
    PROVE  /\ Moves(n) /\ worker'[n].phase = "claimed" /\ worker'[n].id = s.id
           /\ worker'[n].attempts = s.attempts /\ worker'[n].guarded = guarded
           /\ worker'[n].held = worker[n].held /\ worker'[n].age = worker[n].age
           /\ worker'[n].page = worker[n].page
           /\ s.id \in Requests /\ s.attempts \in AttemptCounts
<1> DEFINE w == [worker[n] EXCEPT !.phase = "claimed", !.id = s.id,
                    !.attempts = s.attempts, !.guarded = guarded]
<1>1. worker[n] \in Drains /\ worker' = [worker EXCEPT ![n] = w]
  BY Zenon DEF InHand, TypeOK
<1>2. s.id \in Requests /\ s.attempts \in AttemptCounts /\ s.id \in 0 .. NumRequests
  BY WorkerBoundsAssumption DEF Snapshots, Requests
<1>3. /\ w \in Drains /\ w.phase = "claimed" /\ w.id = s.id /\ w.attempts = s.attempts
      /\ w.guarded = guarded /\ w.held = worker[n].held /\ w.page = worker[n].page
      /\ w.age = worker[n].age
  BY Zenon, <1>1, <1>2 DEF Drains
<1> HIDE DEF w
<1> QED
  BY Zenon, <1>1, <1>2, <1>3, MovesTo

LEMMA PhaseFacts ==
    ASSUME TypeOK, NEW n \in Nodes, NEW phase \in {"sending", "stamp"},
           NEW outcome \in {"none", "ok", "permanent", "retryable", "refused"},
           \/ worker' = [worker EXCEPT ![n].phase = phase]
           \/ worker' = [worker EXCEPT ![n].phase = phase, ![n].outcome = outcome]
    PROVE  /\ Moves(n) /\ worker'[n].phase = phase
           /\ SameHand(worker[n], worker'[n]) /\ worker'[n].page = worker[n].page
<1> DEFINE v == [worker[n] EXCEPT !.phase = phase]
           w == [worker[n] EXCEPT !.phase = phase, !.outcome = outcome]
<1>1. worker[n] \in Drains /\ (worker' = [worker EXCEPT ![n] = v] \/ worker' = [worker EXCEPT ![n] = w])
  BY Zenon DEF TypeOK
<1>2. v \in Drains /\ v.phase = phase /\ SameHand(worker[n], v) /\ v.page = worker[n].page
  BY Zenon, <1>1 DEF Drains, SameHand
<1>3. w \in Drains /\ w.phase = phase /\ SameHand(worker[n], w) /\ w.page = worker[n].page
  BY Zenon, <1>1 DEF Drains, SameHand
<1> HIDE DEF v, w
<1> QED
  BY <1>1, <1>2, <1>3, MovesTo

LEMMA NextRowFacts ==
    ASSUME TypeOK, NEW n \in Nodes, worker' = [worker EXCEPT ![n] = NextRow(n)]
    PROVE  /\ Moves(n) /\ ~Holding(worker'[n]) /\ worker'[n].held = 0
           /\ worker'[n].page \subseteq worker[n].page /\ worker'[n].age = worker[n].age
<1>1. worker[n] \in Drains /\ 0 \in AttemptCounts /\ 0 \in 0 .. NumRequests /\ 0 \in Ages
  BY WorkerBoundsAssumption, ClaimBoundsAssumption DEF AttemptCounts, TypeOK, Ages
<1>2. /\ NextRow(n) \in Drains /\ NextRow(n).phase = "page" /\ NextRow(n).held = 0
      /\ NextRow(n).page \subseteq worker[n].page /\ NextRow(n).age = worker[n].age
  BY Zenon, <1>1 DEF NextRow, Drains
<1> QED
  BY Zenon, <1>2, MovesTo DEF Holding

LEMMA OlderAge ==
    ASSUME NEW age \in Ages
    PROVE  Older(age) \in Ages /\ (age < AgeCap => Older(age) = age + 1)
  BY ClaimBoundsAssumption DEF Older, Ages

LEMMA TickFacts ==
    ASSUME TypeOK, Tick
    PROVE  /\ worker' \in [Nodes -> Drains]
           /\ \A n \in Nodes :
                 \/ worker'[n] = worker[n] /\ worker[n].phase = "idle" /\ ~Holding(worker[n])
                 \/ /\ worker[n].phase = "sending" /\ worker'[n].phase = "sending"
                    /\ worker'[n].held = Older(worker[n].held)
                    /\ worker'[n].age = Older(worker[n].age)
                    /\ worker'[n].id = worker[n].id /\ worker'[n].page = worker[n].page
                    /\ worker'[n].attempts = worker[n].attempts
                    /\ worker'[n].guarded = worker[n].guarded
<1> DEFINE w(n) == [worker[n] EXCEPT !.age = Older(@), !.held = Older(@)]
<1>1. worker' = [n \in Nodes |-> IF worker[n].phase = "sending" THEN w(n) ELSE worker[n]]
  BY Zenon DEF Tick
<1>2. ASSUME NEW n \in Nodes, worker[n].phase = "sending"
      PROVE  /\ w(n) \in Drains /\ w(n).phase = "sending"
             /\ w(n).held = Older(worker[n].held) /\ w(n).age = Older(worker[n].age)
             /\ w(n).id = worker[n].id /\ w(n).page = worker[n].page
             /\ w(n).attempts = worker[n].attempts /\ w(n).guarded = worker[n].guarded
  <2>1. worker[n] \in Drains
    BY Zenon DEF TypeOK
  <2>2. Older(worker[n].held) \in Ages /\ Older(worker[n].age) \in Ages
    BY Zenon, <2>1, DrainFields, OlderAge
  <2> QED
    BY Zenon, <1>2, <2>1, <2>2 DEF Drains
<1>3. ASSUME NEW n \in Nodes, worker[n].phase # "sending"
      PROVE  worker[n] \in Drains /\ worker[n].phase = "idle" /\ ~Holding(worker[n])
  BY Zenon, <1>3 DEF Tick, GoesOn, TypeOK, Holding
<1> HIDE DEF w
<1> QED
  BY Zenon, <1>1, <1>2, <1>3

-----------------------------------------------------------------------------
(* The claims                                                              *)

(* A covered attempt can be neither taken over nor pruned.                 *)
LEMMA HeldIsSafe ==
    ASSUME NEW n \in Nodes, NEW w \in Drains, NEW k \in ClaimKeys,
           w.held <= ClaimTTL, claims[k] = LedgerRow(n, w)
    PROVE  ~Winnable(k, ClaimTTL) /\ claims[k] # NoClaim /\ ~Prunable(claims[k])
<1>1. /\ w.held \in Nat /\ w.held <= ClaimTTL /\ ClaimTTL \in Nat /\ w.held <= AgeCap
      /\ Retention \in Nat /\ AgeCap \in Nat
  BY DrainFields, WorkerBoundsAssumption, ClaimBoundsAssumption
<1>2. claims[k].age = w.held /\ claims[k].ttl = ClaimTTL
  BY DEF LedgerRow
<1>3. LedgerRow(n, w) \in ClaimRows
  BY <1>1, ClaimBoundsAssumption DEF LedgerRow, ClaimRows, Ages
<1>4. claims[k] # NoClaim
  BY Zenon, <1>3, NoClaimAssumption
<1>5. ~Lapsed(claims[k], ClaimTTL)
  BY <1>1, <1>2 DEF Lapsed
<1>6. ~Prunable(claims[k])
  BY <1>1, <1>2 DEF Prunable
<1> QED
  BY Zenon, <1>4, <1>5, <1>6 DEF Winnable

LEMMA HeldKey ==
    ASSUME NEW w, w.id \in Requests, w.attempts \in AttemptCounts
    PROVE  KeyOf(w) \in ClaimKeys
  BY Zenon, KeysAssumption DEF KeyOf

LEMMA TakeClaimFacts ==
    ASSUME ClaimsTypeOK, NEW n \in Nodes, NEW k \in ClaimKeys, TakeClaim(n, k, ClaimTTL)
    PROVE  /\ claims' \in [ClaimKeys -> ClaimRows \cup {NoClaim}]
           /\ Winnable(k, ClaimTTL)
           /\ claims'[k] = [by |-> n, ttl |-> ClaimTTL, age |-> 0]
           /\ \A j \in ClaimKeys : j # k => claims'[j] = claims[j]
<1> DEFINE row == [by |-> n, ttl |-> ClaimTTL, age |-> 0]
<1>1. row \in ClaimRows
  BY WorkerBoundsAssumption, ClaimBoundsAssumption DEF ClaimRows, Ages
<1>2. claims \in [ClaimKeys -> ClaimRows \cup {NoClaim}] /\ claims' = [claims EXCEPT ![k] = row]
  BY Zenon DEF TakeClaim, ClaimsTypeOK
<1> HIDE DEF row
<1>3. /\ claims' \in [ClaimKeys -> ClaimRows \cup {NoClaim}] /\ claims'[k] = row
      /\ \A j \in ClaimKeys : j # k => claims'[j] = claims[j]
  BY Zenon, <1>1, <1>2
<1> QED
  BY Zenon, <1>3 DEF row, TakeClaim

LEMMA PruneFacts ==
    ASSUME ClaimsTypeOK, PruneClaims
    PROVE  /\ claims' \in [ClaimKeys -> ClaimRows \cup {NoClaim}]
           /\ \A k \in ClaimKeys :
                 claims[k] # NoClaim /\ ~Prunable(claims[k]) => claims'[k] = claims[k]
  BY Zenon DEF PruneClaims, ClaimsTypeOK

LEMMA AgeFacts ==
    ASSUME ClaimsTypeOK, AgeClaims
    PROVE  /\ ClaimsTypeOK'
           /\ \A k \in ClaimKeys : \A n \in Nodes, ttl \in Nat, age \in Ages :
                 /\ claims[k] = [by |-> n, ttl |-> ttl, age |-> age]
                 /\ age < AgeCap
                 => claims'[k] = [by |-> n, ttl |-> ttl, age |-> age + 1]
<1> DEFINE aged(row) == [row EXCEPT !.age = Older(@)]
<1>1. /\ claims' = [k \in ClaimKeys |-> IF claims[k] = NoClaim THEN NoClaim ELSE aged(claims[k])]
      /\ window' = [n \in Nodes |-> IF window[n] = NoWindow THEN NoWindow ELSE aged(window[n])]
  BY Zenon DEF AgeClaims
<1>2. \A row \in ClaimRows : aged(row) \in ClaimRows
  BY Zenon, OlderAge DEF ClaimRows
<1>3. \A row \in Windows : aged(row) \in Windows
  BY Zenon, OlderAge DEF Windows
<1>4. ASSUME NEW n \in Nodes, NEW ttl \in Nat, NEW age \in Ages, age < AgeCap
      PROVE  /\ [by |-> n, ttl |-> ttl, age |-> age] \in ClaimRows
             /\ aged([by |-> n, ttl |-> ttl, age |-> age]) = [by |-> n, ttl |-> ttl, age |-> age + 1]
  BY <1>4, OlderAge DEF ClaimRows
<1> HIDE DEF aged
<1>5. ClaimsTypeOK'
  BY Zenon, <1>1, <1>2, <1>3 DEF ClaimsTypeOK
<1>6. ASSUME NEW k \in ClaimKeys, NEW n \in Nodes, NEW ttl \in Nat, NEW age \in Ages,
             claims[k] = [by |-> n, ttl |-> ttl, age |-> age], age < AgeCap
      PROVE  claims'[k] = [by |-> n, ttl |-> ttl, age |-> age + 1]
  <2>1. claims[k] # NoClaim
    BY ZenonT(30), <1>4, <1>6, NoClaimAssumption
  <2> QED
    BY Zenon, <1>1, <1>4, <1>6, <2>1
<1> QED
  BY Zenon, <1>5, <1>6

LEMMA UnguardedType ==
    ASSUME ClaimsTypeOK, NEW n \in Nodes, AllowUnguarded(n)
    PROVE  window' \in [Nodes -> Windows \cup {NoWindow}]
<1>1. CurrentWindow(n) \in Windows
  BY ClaimBoundsAssumption DEF CurrentWindow, Windows, Ages, ClaimsTypeOK
<1>2. [CurrentWindow(n) EXCEPT !.count = @ + 1] \in Windows
  BY <1>1 DEF Windows
<1> QED
  BY Zenon, <1>2 DEF AllowUnguarded, ClaimsTypeOK

-----------------------------------------------------------------------------
(* The holder                                                              *)

LEMMA HolderNone ==
    ASSUME NEW n, NEW w, NEW ledger, ~Holding(w), w.held = 0
    PROVE  HolderOf(n, w, ledger)
  BY Zenon DEF HolderOf, Covered

LEMMA HolderStep == TypeOK /\ HolderInv /\ [Next]_vars => HolderInv'
<1> SUFFICES ASSUME TypeOK, HolderInv, [Next]_vars, NEW m \in Nodes
             PROVE  HolderOf(m, worker'[m], claims')
  BY Zenon DEF HolderInv
<1> DEFINE Goal == HolderOf(m, worker'[m], claims')
<1>1. /\ worker[m] \in Drains /\ HolderOf(m, worker[m], claims) /\ ClaimsTypeOK
      /\ worker \in [Nodes -> Drains]
  BY Zenon DEF HolderInv, TypeOK
<1>2. ASSUME NEW n \in Nodes PROVE worker[n].held \in Nat /\ worker[n].page \in SUBSET Snapshots
  BY Zenon, <1>1, DrainFields
<1>3. ASSUME Covered(worker[m])
      PROVE  /\ KeyOf(worker[m]) \in ClaimKeys
             /\ claims[KeyOf(worker[m])] = LedgerRow(m, worker[m])
             /\ ~Winnable(KeyOf(worker[m]), ClaimTTL)
             /\ claims[KeyOf(worker[m])] # NoClaim
             /\ ~Prunable(claims[KeyOf(worker[m])])
  <2>1. KeyOf(worker[m]) \in ClaimKeys
    BY Zenon, <1>1, <1>3, DrainFields, HeldKey DEF HolderOf, Covered
  <2>2. claims[KeyOf(worker[m])] = LedgerRow(m, worker[m])
    BY Zenon, <1>1, <1>3 DEF HolderOf
  <2> QED
    BY Zenon, <1>1, <1>3, <2>1, <2>2, HeldIsSafe DEF Covered
<1>4. ASSUME worker'[m] = worker[m],
             Covered(worker[m]) =>
                claims'[KeyOf(worker[m])] = claims[KeyOf(worker[m])]
      PROVE  Goal
  BY Zenon, <1>1, <1>4 DEF HolderOf
<1>5. ASSUME NEW n \in Nodes, Others(n), n # m, claims' = claims PROVE Goal
  BY Zenon, <1>4, <1>5 DEF Others
<1>6. ASSUME NEW n \in Nodes, NEW s \in worker[n].page, Turn(n, s), TakeClaim(n, KeyOf(s), ClaimTTL)
      PROVE  /\ KeyOf(s) \in ClaimKeys
             /\ claims'[KeyOf(s)] = [by |-> n, ttl |-> ClaimTTL, age |-> 0]
             /\ Covered(worker[m]) =>
                   claims'[KeyOf(worker[m])] = claims[KeyOf(worker[m])]
  <2>1. KeyOf(s) \in ClaimKeys
    BY Zenon, <1>2, KeysAssumption DEF Snapshots, KeyOf
  <2>2. /\ Winnable(KeyOf(s), ClaimTTL)
        /\ claims'[KeyOf(s)] = [by |-> n, ttl |-> ClaimTTL, age |-> 0]
        /\ \A j \in ClaimKeys : j # KeyOf(s) => claims'[j] = claims[j]
    BY Zenon, <1>1, <1>6, <2>1, TakeClaimFacts
  <2> QED
    BY Zenon, <1>3, <2>1, <2>2
<1>7. ASSUME NEW n \in Nodes, StartDrain(n) \/ ScanFails(n) \/ EndPage(n) \/ Crash(n)
      PROVE  Goal
  <2>1. Others(n) /\ Empty(worker'[n]) /\ claims' = claims
    BY Zenon, <1>7, RestFacts DEF Moves, StartDrain, ScanFails, EndPage, Crash
  <2> QED
    BY Zenon, <1>5, <2>1, HolderNone DEF Empty
<1>8. ASSUME NEW n \in Nodes, Scan(n) PROVE Goal
  <2>1. Others(n) /\ ~Holding(worker'[n]) /\ worker'[n].held = 0 /\ claims' = claims
    BY Zenon, <1>8, ScanFacts DEF Moves, Scan
  <2> QED
    BY Zenon, <1>5, <2>1, HolderNone
<1>9. ASSUME NEW n \in Nodes, NEW s \in worker[n].page, Turn(n, s), PassOver(n, s),
             claims' = claims \/ TakeClaim(n, KeyOf(s), ClaimTTL)
      PROVE  Goal
  <2>1. /\ Others(n) /\ worker'[n].phase = worker[n].phase
        /\ SameHand(worker[n], worker'[n]) /\ worker[n].phase = "page"
    BY Zenon, <1>9, PassOverFacts DEF Moves, Turn
  <2>2. Covered(worker[m]) =>
           claims'[KeyOf(worker[m])] = claims[KeyOf(worker[m])]
    BY Zenon, <1>6, <1>9
  <2>3. CASE n # m
    BY Zenon, <1>4, <2>1, <2>2, <2>3 DEF Others
  <2>4. CASE n = m
    <3>1. worker'[m].held = 0 /\ ~Holding(worker'[m])
      BY Zenon, <1>1, <2>1, <2>4 DEF HolderOf, SameHand, Holding
    <3> QED
      BY Zenon, <3>1, HolderNone
  <2> QED
    BY Zenon, <2>3, <2>4
<1>10. ASSUME NEW n \in Nodes, NEW s \in worker[n].page, Claim(n, s) PROVE Goal
  <2>1. s \in Snapshots /\ Turn(n, s) /\ TakeClaim(n, KeyOf(s), ClaimTTL) /\ InHand(n, s, TRUE)
    BY Zenon, <1>2, <1>10 DEF Claim
  <2>2. /\ Others(n) /\ worker'[n].phase = "claimed" /\ worker'[n].id = s.id
        /\ worker'[n].attempts = s.attempts /\ worker'[n].held = worker[n].held
        /\ s.id \in Requests
    BY Zenon, <2>1, InHandFacts DEF Moves
  <2>3. /\ claims'[KeyOf(s)] = [by |-> n, ttl |-> ClaimTTL, age |-> 0]
        /\ Covered(worker[m]) =>
              claims'[KeyOf(worker[m])] = claims[KeyOf(worker[m])]
    BY Zenon, <1>6, <2>1
  <2>4. CASE n # m
    BY Zenon, <1>4, <2>2, <2>3, <2>4 DEF Others
  <2>5. CASE n = m
    <3>1. worker[n].held = 0
      BY Zenon, <1>1, <2>1, <2>5 DEF HolderOf, Turn
    <3>2. KeyOf(worker'[n]) = KeyOf(s)
      BY Zenon, <2>2 DEF KeyOf
    <3> QED
      BY Zenon, <2>2, <2>3, <2>5, <3>1, <3>2 DEF HolderOf, LedgerRow
  <2> QED
    BY <2>4, <2>5
<1>11. ASSUME NEW n \in Nodes, NEW s \in worker[n].page, ClaimErrs(n, s) PROVE Goal
  <2>1. CASE PassOver(n, s)
    BY Zenon, <1>9, <1>11, <2>1 DEF ClaimErrs
  <2>2. CASE InHand(n, s, FALSE)
    <3>1. s \in Snapshots /\ Turn(n, s) /\ (TakeClaim(n, KeyOf(s), ClaimTTL) \/ claims' = claims)
      BY Zenon, <1>2, <1>11 DEF ClaimErrs
    <3>2. /\ Others(n) /\ worker'[n].phase = "claimed" /\ worker'[n].id = s.id
          /\ worker'[n].held = worker[n].held /\ ~worker'[n].guarded /\ s.id \in Requests
      BY Zenon, <2>2, <3>1, InHandFacts DEF Moves
    <3>3. Covered(worker[m]) =>
             claims'[KeyOf(worker[m])] = claims[KeyOf(worker[m])]
      BY Zenon, <1>6, <3>1
    <3>4. CASE n # m
      BY Zenon, <1>4, <3>2, <3>3, <3>4 DEF Others
    <3>5. CASE n = m
      <4>1. worker[n].held = 0
        BY Zenon, <1>1, <3>1, <3>5 DEF HolderOf, Turn
      <4> QED
        BY Zenon, <3>2, <3>5, <4>1 DEF HolderOf, Covered
    <3> QED
      BY <3>4, <3>5
  <2> QED
    BY Zenon, <1>11, <2>1, <2>2 DEF ClaimErrs
<1>12. ASSUME NEW n \in Nodes, NEW phase \in {"sending", "stamp"}, Holding(worker[n]),
              NEW outcome \in {"none", "ok", "permanent", "retryable", "refused"},
              \/ worker' = [worker EXCEPT ![n].phase = phase]
              \/ worker' = [worker EXCEPT ![n].phase = phase, ![n].outcome = outcome],
              claims' = claims
       PROVE  Goal
  <2>1. Others(n) /\ worker'[n].phase = phase /\ SameHand(worker[n], worker'[n])
    BY ZenonT(30), <1>12, PhaseFacts DEF Moves
  <2>2. CASE n = m
    BY Zenon, <1>1, <1>12, <2>1, <2>2 DEF HolderOf, Covered, Holding, SameHand, LedgerRow, KeyOf
  <2> QED
    BY Zenon, <1>5, <1>12, <2>1, <2>2
<1>13. ASSUME NEW n \in Nodes, NEW written \in BOOLEAN, Send(n, written) PROVE Goal
  BY Zenon, <1>12, <1>13 DEF Send, Holding
<1>14. ASSUME NEW n \in Nodes, NEW outcome, NotAdmitted(n, outcome) \/ Deliver(n, outcome)
       PROVE  Goal
  BY Zenon, <1>12, <1>14 DEF NotAdmitted, Deliver, Holding
<1>15. ASSUME NEW n \in Nodes, NEW written \in BOOLEAN, StampOutcome(n, written) PROVE Goal
  <2>1. Others(n) /\ ~Holding(worker'[n]) /\ worker'[n].held = 0 /\ claims' = claims
    BY Zenon, <1>15, NextRowFacts DEF Moves, StampOutcome
  <2> QED
    BY Zenon, <1>5, <2>1, HolderNone
<1>16. CASE Prune
  <2>1. worker' = worker /\ \A k \in ClaimKeys :
           claims[k] # NoClaim /\ ~Prunable(claims[k]) => claims'[k] = claims[k]
    BY Zenon, <1>1, <1>16, PruneFacts DEF Prune
  <2> QED
    BY Zenon, <1>3, <1>4, <2>1
<1>17. CASE Tick
  <2>1. CASE worker'[m] = worker[m] /\ ~Holding(worker[m])
    BY Zenon, <1>4, <2>1 DEF Covered
  <2>2. CASE /\ worker[m].phase = "sending" /\ worker'[m].phase = "sending"
             /\ worker'[m].held = Older(worker[m].held)
             /\ worker'[m].id = worker[m].id /\ worker'[m].attempts = worker[m].attempts
             /\ worker'[m].guarded = worker[m].guarded
    <3>1. worker[m].id \in Requests
      BY Zenon, <1>1, <2>2 DEF HolderOf, Holding
    <3>2. ASSUME Covered(worker'[m])
          PROVE  claims'[KeyOf(worker'[m])] = LedgerRow(m, worker'[m])
      <4>1. worker[m].held \in Ages /\ worker'[m].held <= ClaimTTL
        BY Zenon, <1>1, <3>2, DrainFields DEF Covered
      <4>2. /\ worker[m].held < AgeCap /\ worker[m].held <= ClaimTTL /\ ClaimTTL \in Nat
            /\ worker'[m].held = worker[m].held + 1
        BY <2>2, <4>1, WorkerBoundsAssumption, ClaimBoundsAssumption DEF Ages, Older
      <4>3. Covered(worker[m]) /\ KeyOf(worker'[m]) = KeyOf(worker[m])
        BY Zenon, <2>2, <3>2, <4>2 DEF Covered, Holding, KeyOf
      <4>4. /\ KeyOf(worker[m]) \in ClaimKeys
            /\ claims[KeyOf(worker[m])] = [by |-> m, ttl |-> ClaimTTL, age |-> worker[m].held]
        BY Zenon, <1>3, <4>3 DEF LedgerRow
      <4>5. claims'[KeyOf(worker[m])] = [by |-> m, ttl |-> ClaimTTL, age |-> worker[m].held + 1]
        BY Zenon, <1>1, <1>17, <4>1, <4>2, <4>4, AgeFacts DEF Tick
      <4> QED
        BY Zenon, <4>2, <4>3, <4>5 DEF LedgerRow
    <3> QED
      BY Zenon, <2>2, <3>1, <3>2 DEF HolderOf
  <2> QED
    BY Zenon, <1>17, <2>1, <2>2, TickFacts
<1>18. CASE worker' = worker /\ claims' = claims
  BY Zenon, <1>4, <1>18
<1>19. ASSUME NEW n \in Nodes, Work(n) PROVE Goal
  <2>1. ASSUME NEW s \in worker[n].page, Skip(n, s) PROVE Goal
    BY Zenon, <1>9, <2>1 DEF Skip
  <2> QED
    BY ZenonT(30), <1>7, <1>8, <1>10, <1>13, <1>14, <1>15, <1>19, <2>1 DEF Work
<1> QED
  BY Zenon, <1>7, <1>11, <1>13, <1>15, <1>16, <1>17, <1>18, <1>19
  DEF Next, vars, Stage, BackoffElapses, Requeue

-----------------------------------------------------------------------------
(* The rows                                                                *)

RowsOf == [status : Statuses, attempts : AttemptCounts, due : BOOLEAN]

LEMMA RowFields ==
    ASSUME NEW row \in RowsOf
    PROVE  /\ row.attempts \in Nat /\ row.attempts \in AttemptCounts
           /\ row.status \in Statuses /\ row.due \in BOOLEAN
  BY WorkerBoundsAssumption DEF RowsOf, AttemptCounts

LEMMA LimitType ==
    ASSUME TypeOK
    PROVE  Limit \in Nat /\ Limit \in AttemptCounts /\ 0 < Limit /\ MaxAttempts <= Limit
  BY WorkerBoundsAssumption DEF Limit, TypeOK, AttemptCounts

LEMMA RowWithStatus ==
    ASSUME NEW row \in RowsOf, NEW status \in Statuses
    PROVE  /\ [row EXCEPT !.status = status] \in RowsOf
           /\ [row EXCEPT !.status = status].attempts = row.attempts
           /\ [row EXCEPT !.status = status].status = status
  BY Zenon DEF RowsOf

LEMMA RowFailed ==
    ASSUME NEW row \in RowsOf, NEW attempts \in AttemptCounts
    PROVE  /\ [row EXCEPT !.status = "failed", !.attempts = attempts] \in RowsOf
           /\ [row EXCEPT !.status = "failed", !.attempts = attempts].attempts = attempts
           /\ [row EXCEPT !.status = "failed", !.attempts = attempts].status = "failed"
  BY Zenon DEF RowsOf, Statuses

(* An outcome charges one attempt at most, and only a row below the cap is *)
(* retried (processRow, recordFailure).                                    *)
LEMMA OutcomeCharges ==
    ASSUME NEW w \in Drains, NEW limit \in AttemptCounts, MaxAttempts <= limit,
           rows[w.id] \in RowsOf, ChargedRow(rows[w.id], limit), w.attempts < limit
    PROVE  Outcome(w) \in RowsOf /\ ChargedRow(Outcome(w), limit)
<1> DEFINE row == rows[w.id]
           failures == w.attempts + 1
<1>1. /\ w.attempts \in Nat /\ limit \in Nat /\ failures <= limit
      /\ failures \in AttemptCounts /\ w.attempts \in AttemptCounts /\ MaxAttempts \in Nat
      /\ row \in RowsOf /\ row.attempts <= limit
  BY DrainFields, WorkerBoundsAssumption DEF AttemptCounts, ChargedRow
<1> HIDE DEF row, failures
<1>2. CASE w.outcome = "ok"
  <2> DEFINE t == [row EXCEPT !.status = "sent"]
  <2>1. Outcome(w) = t
    BY Zenon, <1>2 DEF Outcome, row
  <2>2. row \in RowsOf /\ "sent" \in Statuses
    BY Zenon, <1>1 DEF Statuses
  <2>3. t \in RowsOf /\ t.attempts = row.attempts /\ t.status = "sent"
    BY Zenon, <2>2, RowWithStatus
  <2> HIDE DEF t
  <2> QED
    BY Zenon, <1>1, <2>1, <2>3 DEF ChargedRow
<1>3. CASE w.outcome = "refused"
  <2> DEFINE t == [row EXCEPT !.status = "failed", !.attempts = w.attempts]
  <2>1. Outcome(w) = t
    BY Zenon, <1>3 DEF Outcome, row
  <2>2. row \in RowsOf /\ w.attempts \in AttemptCounts
    BY Zenon, <1>1
  <2>3. t \in RowsOf /\ t.attempts = w.attempts /\ t.status = "failed"
    BY Zenon, <2>2, RowFailed
  <2> HIDE DEF t
  <2> QED
    BY <1>1, <2>1, <2>3 DEF ChargedRow
<1>4. CASE w.outcome \notin {"ok", "refused"}
  <2>1. CASE w.outcome = "permanent" \/ failures >= MaxAttempts
    <3> DEFINE t == [row EXCEPT !.status = "failed", !.attempts = failures]
    <3>1. Outcome(w) = t
      BY Zenon, <1>4, <2>1 DEF Outcome, row, failures
    <3>2. row \in RowsOf /\ failures \in AttemptCounts
      BY Zenon, <1>1
    <3>3. t \in RowsOf /\ t.attempts = failures /\ t.status = "failed"
      BY Zenon, <3>2, RowFailed
    <3> HIDE DEF t
    <3> QED
      BY Zenon, <1>1, <3>1, <3>3 DEF ChargedRow
  <2>2. CASE ~(w.outcome = "permanent" \/ failures >= MaxAttempts)
    <3>1. Outcome(w) = [status |-> "retrying", attempts |-> failures, due |-> FALSE]
      BY Zenon, <1>4, <2>2 DEF Outcome, row, failures
    <3>2. failures \in Nat /\ failures < limit
      BY <1>1, <2>2 DEF failures
    <3> QED
      BY <1>1, <3>1, <3>2 DEF ChargedRow, RowsOf, Statuses
  <2> QED
    BY Zenon, <2>1, <2>2
<1> QED
  BY Zenon, <1>2, <1>3, <1>4

(* Every row stays charged within the limit, a requeue raising it by one.  *)
RowsKept == rows' \in [Requests -> RowsOf] /\ \A r \in Requests : ChargedRow(rows'[r], Limit')

LEMMA RowKept ==
    ASSUME TypeOK, AttemptsInv, NEW r \in Requests, NEW row \in RowsOf,
           ChargedRow(row, Limit'), Limit' \in Nat, Limit <= Limit',
           rows' = [rows EXCEPT ![r] = row]
    PROVE  RowsKept
<1>1. rows \in [Requests -> RowsOf] /\ Limit \in Nat
  BY Zenon, LimitType DEF TypeOK, RowsOf
<1>2. ASSUME NEW q \in Requests PROVE ChargedRow(rows'[q], Limit')
  <2>1. CASE q = r
    BY Zenon, <1>1, <2>1
  <2>2. CASE q # r
    <3>1. rows'[q] = rows[q] /\ ChargedRow(rows[q], Limit) /\ rows[q].attempts \in Nat
      BY Zenon, <1>1, <2>2, RowFields DEF AttemptsInv
    <3> QED
      BY <1>1, <3>1 DEF ChargedRow
  <2> QED
    BY Zenon, <2>1, <2>2
<1> QED
  BY Zenon, <1>1, <1>2 DEF RowsKept

LEMMA RowsStep ==
    ASSUME TypeOK, HolderInv, AttemptsInv, [Next]_vars
    PROVE  RowsKept /\ Limit' \in Nat /\ Limit <= Limit'
<1>1. /\ rows \in [Requests -> RowsOf] /\ Limit \in Nat /\ Limit \in AttemptCounts
      /\ 0 < Limit /\ MaxAttempts <= Limit
      /\ \A r \in Requests : rows[r] \in RowsOf /\ ChargedRow(rows[r], Limit)
  BY Zenon, LimitType DEF TypeOK, RowsOf, AttemptsInv
<1>2. ASSUME Limit' = Limit, rows' = rows PROVE RowsKept
  BY Zenon, <1>1, <1>2 DEF RowsKept
<1>3. ASSUME spent' = spent \/ spent'.requeues = spent.requeues PROVE Limit' = Limit
  BY Zenon, <1>3 DEF Limit
<1>4. ASSUME NEW n \in Nodes, NEW r \in Requests, Stage(n, r) PROVE RowsKept /\ Limit' = Limit
  <2> DEFINE row == [rows[r] EXCEPT !.status = "pending"]
  <2>1. rows' = [rows EXCEPT ![r] = row] /\ Limit' = Limit /\ rows[r].status = "unstaged"
    BY Zenon, <1>3, <1>4 DEF Stage
  <2>2. row \in RowsOf /\ ChargedRow(row, Limit)
    BY Zenon, <1>1, <2>1, RowWithStatus DEF ChargedRow, Statuses
  <2> HIDE DEF row
  <2>3. ChargedRow(row, Limit') /\ Limit' \in Nat /\ Limit <= Limit'
    BY <1>1, <2>1, <2>2
  <2> QED
    BY Zenon, <2>1, <2>2, <2>3, RowKept
<1>5. ASSUME NEW r \in Requests, BackoffElapses(r) PROVE RowsKept /\ Limit' = Limit
  <2> DEFINE row == [rows[r] EXCEPT !.due = TRUE]
  <2>1. rows' = [rows EXCEPT ![r] = row] /\ Limit' = Limit
    BY Zenon, <1>3, <1>5 DEF BackoffElapses
  <2>2. row \in RowsOf /\ ChargedRow(row, Limit)
    BY Zenon, <1>1 DEF ChargedRow, RowsOf
  <2> HIDE DEF row
  <2>3. ChargedRow(row, Limit') /\ Limit' \in Nat /\ Limit <= Limit'
    BY <1>1, <2>1, <2>2
  <2> QED
    BY Zenon, <2>1, <2>2, <2>3, RowKept
<1>6. ASSUME NEW r \in Requests, Requeue(r) PROVE RowsKept /\ Limit' = Limit + 1
  <2> DEFINE row == [rows[r] EXCEPT !.status = "pending"]
  <2>1. rows' = [rows EXCEPT ![r] = row] /\ spent' = [spent EXCEPT !.requeues = @ + 1]
    BY Zenon, <1>6 DEF Requeue
  <2>2. Limit' = Limit + 1
    BY <2>1, WorkerBoundsAssumption DEF Limit, TypeOK
  <2>3. row \in RowsOf /\ row.attempts = rows[r].attempts /\ row.attempts \in Nat
    BY Zenon, <1>1, RowWithStatus, RowFields DEF Statuses
  <2> HIDE DEF row
  <2>4. ChargedRow(row, Limit')
    BY <1>1, <2>2, <2>3 DEF ChargedRow
  <2>5. Limit' \in Nat /\ Limit <= Limit'
    BY <1>1, <2>2
  <2> QED
    BY Zenon, <2>1, <2>2, <2>3, <2>4, <2>5, RowKept
<1>7. ASSUME NEW r \in Requests, NEW row \in RowsOf, ChargedRow(row, Limit),
             NEW written \in BOOLEAN, Stamped(r, row, written)
      PROVE  RowsKept /\ Limit' = Limit
  <2>1. CASE written
    BY <1>1, <1>3, <1>7, <2>1, RowKept DEF Stamped
  <2>2. CASE ~written
    <3>1. spent'.requeues = spent.requeues /\ rows' = rows
      BY Zenon, <1>7, <2>2 DEF Stamped, TypeOK
    <3> QED
      BY Zenon, <1>2, <1>3, <3>1
  <2> QED
    BY Zenon, <2>1, <2>2
<1>8. ASSUME NEW n \in Nodes, Holding(worker[n])
      PROVE  worker[n].id \in Requests /\ worker[n] \in Drains /\ worker[n].attempts < Limit
  BY Zenon, <1>8 DEF HolderInv, HolderOf, AttemptsInv, ChargedDrain, TypeOK
<1>9. ASSUME NEW n \in Nodes, NEW written \in BOOLEAN, Send(n, written)
      PROVE  RowsKept /\ Limit' = Limit
  <2> DEFINE r == worker[n].id
             row == [rows[r] EXCEPT !.status = "sending"]
  <2>1. r \in Requests /\ Stamped(r, row, written)
    BY Zenon, <1>8, <1>9 DEF Send, Holding
  <2>2. row \in RowsOf /\ ChargedRow(row, Limit)
    BY Zenon, <1>1, <2>1, RowWithStatus DEF ChargedRow, Statuses
  <2> HIDE DEF row, r
  <2> QED
    BY Zenon, <1>7, <2>1, <2>2
<1>10. ASSUME NEW n \in Nodes, NEW written \in BOOLEAN, StampOutcome(n, written)
       PROVE  RowsKept /\ Limit' = Limit
  <2>1. /\ worker[n].id \in Requests /\ worker[n] \in Drains /\ worker[n].attempts < Limit
        /\ Stamped(worker[n].id, Outcome(worker[n]), written)
    BY Zenon, <1>8, <1>10 DEF StampOutcome, Holding
  <2>2. Outcome(worker[n]) \in RowsOf /\ ChargedRow(Outcome(worker[n]), Limit)
    BY Zenon, <1>1, <2>1, OutcomeCharges
  <2> QED
    BY Zenon, <1>7, <2>1, <2>2
<1>11. ASSUME NEW n \in Nodes, Crash(n) PROVE spent'.requeues = spent.requeues /\ rows' = rows
  BY Zenon, <1>11 DEF Crash, TypeOK
<1>12. ASSUME NEW n \in Nodes, NEW s, ClaimErrs(n, s)
       PROVE  spent'.requeues = spent.requeues /\ rows' = rows
  BY Zenon, <1>12 DEF ClaimErrs, TypeOK
<1>13. (RowsKept /\ Limit' = Limit) \/ (RowsKept /\ Limit' = Limit + 1)
  BY ZenonT(30), <1>2, <1>3, <1>4, <1>5, <1>6, <1>9, <1>10, <1>11, <1>12
  DEF Next, vars, Work, StartDrain, Scan, ScanFails, EndPage, Skip, Claim, NotAdmitted,
      Deliver, Prune, Tick
<1> QED
  BY <1>1, <1>13

LEMMA AttemptsStep == TypeOK /\ HolderInv /\ AttemptsInv /\ [Next]_vars => AttemptsInv'
<1> SUFFICES ASSUME TypeOK, HolderInv, AttemptsInv, [Next]_vars PROVE AttemptsInv'
  BY Zenon
<1>1. /\ \A r \in Requests : ChargedRow(rows'[r], Limit')
      /\ Limit \in Nat /\ Limit' \in Nat /\ Limit <= Limit'
  BY Zenon, RowsStep, LimitType DEF RowsKept
<1>2. ASSUME NEW m \in Nodes PROVE ChargedDrain(worker'[m], Limit')
  <2> DEFINE Goal == ChargedDrain(worker'[m], Limit')
  <2>1. /\ worker[m] \in Drains /\ worker[m].page \in SUBSET Snapshots
        /\ worker[m].attempts \in Nat /\ \A s \in worker[m].page : s.attempts \in Nat
        /\ ChargedDrain(worker[m], Limit)
    BY SMTT(30), DrainFields, WorkerBoundsAssumption
    DEF TypeOK, AttemptsInv, Snapshots, AttemptCounts
  <2>2. /\ \A s \in worker[m].page : s.attempts < Limit'
        /\ Holding(worker[m]) => worker[m].attempts < Limit'
    BY <1>1, <2>1 DEF ChargedDrain
  <2>3. ASSUME worker'[m].page \subseteq worker[m].page,
               Holding(worker'[m]) =>
                  Holding(worker[m]) /\ worker'[m].attempts = worker[m].attempts
        PROVE  Goal
    BY Zenon, <2>2, <2>3 DEF ChargedDrain
  <2>4. ASSUME worker'[m] = worker[m] PROVE Goal
    BY Zenon, <2>3, <2>4
  <2>5. ASSUME NEW n \in Nodes, StartDrain(n) \/ ScanFails(n) \/ EndPage(n) \/ Crash(n)
        PROVE  Goal
    BY Zenon, <2>3, <2>4, <2>5, RestFacts DEF Moves, Others, Empty
  <2>6. ASSUME NEW n \in Nodes, Scan(n) PROVE Goal
    <3>1. /\ Others(n) /\ ~Holding(worker'[n])
          /\ \A t \in worker'[n].page : \E r \in Requests :
                rows[r].status \in Scanned /\ t.attempts = rows[r].attempts
      BY Zenon, <2>6, ScanFacts DEF Moves
    <3>2. \A r \in Requests : rows[r].status \in Scanned => rows[r].attempts < Limit
      BY Zenon DEF AttemptsInv, ChargedRow, Scanned
    <3>3. Limit' = Limit
      BY Zenon, <2>6 DEF Scan, Limit
    <3>4. CASE n = m
      BY Zenon, <3>1, <3>2, <3>3, <3>4 DEF ChargedDrain
    <3> QED
      BY Zenon, <2>4, <3>1, <3>4 DEF Others
  <2>7. ASSUME NEW n \in Nodes, NEW s, PassOver(n, s) PROVE Goal
    BY Zenon, <2>3, <2>4, <2>7, PassOverFacts DEF Moves, Others, SameHand, Holding
  <2>8. ASSUME NEW n \in Nodes, NEW s \in worker[n].page, NEW guarded \in BOOLEAN,
               InHand(n, s, guarded)
        PROVE  Goal
    <3>1. s \in Snapshots
      BY Zenon, DrainFields DEF TypeOK
    <3>2. /\ Others(n) /\ worker'[n].attempts = s.attempts
          /\ worker'[n].page = worker[n].page
      BY Zenon, <2>8, <3>1, InHandFacts DEF Moves
    <3>3. CASE n = m
      BY Zenon, <2>2, <3>2, <3>3 DEF ChargedDrain
    <3> QED
      BY Zenon, <2>4, <3>2, <3>3 DEF Others
  <2>9. ASSUME NEW n \in Nodes, Holding(worker[n]), NEW phase \in {"sending", "stamp"},
               NEW outcome \in {"none", "ok", "permanent", "retryable", "refused"},
               \/ worker' = [worker EXCEPT ![n].phase = phase]
               \/ worker' = [worker EXCEPT ![n].phase = phase, ![n].outcome = outcome]
        PROVE  Goal
    <3>1. Others(n) /\ SameHand(worker[n], worker'[n]) /\ worker'[n].page = worker[n].page
      BY Zenon, <2>9, PhaseFacts DEF Moves
    <3> QED
      BY Zenon, <2>3, <2>4, <2>9, <3>1 DEF Others, SameHand
  <2>10. ASSUME NEW n \in Nodes, NEW written \in BOOLEAN, Send(n, written) PROVE Goal
    BY Zenon, <2>9, <2>10 DEF Send, Holding
  <2>11. ASSUME NEW n \in Nodes, NEW outcome, NotAdmitted(n, outcome) \/ Deliver(n, outcome)
         PROVE  Goal
    BY Zenon, <2>9, <2>11 DEF NotAdmitted, Deliver, Holding
  <2>12. ASSUME NEW n \in Nodes, NEW written \in BOOLEAN, StampOutcome(n, written) PROVE Goal
    BY Zenon, <2>3, <2>4, <2>12, NextRowFacts DEF StampOutcome, Moves, Others
  <2>13. CASE Tick
    BY Zenon, <2>3, <2>4, <2>13, TickFacts DEF Holding
  <2>14. ASSUME NEW n \in Nodes, NEW s \in worker[n].page, Skip(n, s) \/ Claim(n, s) \/ ClaimErrs(n, s)
         PROVE  Goal
    BY Zenon, <2>7, <2>8, <2>14 DEF Skip, Claim, ClaimErrs
  <2>15. ASSUME NEW n \in Nodes, Work(n) PROVE Goal
    BY ZenonT(30), <2>5, <2>6, <2>10, <2>11, <2>12, <2>14, <2>15 DEF Work
  <2> QED
    BY ZenonT(30), <2>4, <2>5, <2>10, <2>12, <2>13, <2>14, <2>15
    DEF Next, vars, Stage, BackoffElapses, Requeue, Prune
<1> QED
  BY Zenon, <1>1, <1>2 DEF AttemptsInv

-----------------------------------------------------------------------------
(* The type                                                                *)

LEMMA WorkerType ==
    ASSUME TypeOK, [Next]_vars
    PROVE  worker' \in [Nodes -> Drains]
<1>1. worker \in [Nodes -> Drains]
  BY Zenon DEF TypeOK
<1>2. ASSUME NEW n \in Nodes, NEW s \in worker[n].page, Skip(n, s) \/ Claim(n, s) \/ ClaimErrs(n, s)
      PROVE  worker' \in [Nodes -> Drains]
  <2>1. s \in Snapshots
    BY Zenon, DrainFields DEF TypeOK
  <2> QED
    BY Zenon, <1>2, <2>1, PassOverFacts, InHandFacts DEF Skip, Claim, ClaimErrs, Moves
<1>3. ASSUME NEW n \in Nodes, NEW written \in BOOLEAN, Send(n, written) \/ StampOutcome(n, written)
      PROVE  worker' \in [Nodes -> Drains]
  BY Zenon, <1>3, PhaseFacts, NextRowFacts DEF Send, StampOutcome, Moves
<1>4. ASSUME NEW n \in Nodes, NEW outcome, NotAdmitted(n, outcome) \/ Deliver(n, outcome)
      PROVE  worker' \in [Nodes -> Drains]
  BY Zenon, <1>4, PhaseFacts DEF NotAdmitted, Deliver, Moves
<1>5. ASSUME NEW n \in Nodes,
             StartDrain(n) \/ ScanFails(n) \/ EndPage(n) \/ Crash(n) \/ Scan(n)
      PROVE  worker' \in [Nodes -> Drains]
  BY Zenon, <1>5, RestFacts, ScanFacts DEF Moves
<1> QED
  BY ZenonT(30), <1>1, <1>2, <1>3, <1>4, <1>5, TickFacts
  DEF Next, vars, Work, Stage, BackoffElapses, Requeue, Prune

LEMMA ClaimsType ==
    ASSUME TypeOK, [Next]_vars
    PROVE  ClaimsTypeOK'
<1>1. ClaimsTypeOK /\ claims \in [ClaimKeys -> ClaimRows \cup {NoClaim}]
      /\ window \in [Nodes -> Windows \cup {NoWindow}]
  BY Zenon DEF TypeOK, ClaimsTypeOK
<1>2. ASSUME NEW n \in Nodes, NEW s \in worker[n].page, TakeClaim(n, KeyOf(s), ClaimTTL)
      PROVE  claims' \in [ClaimKeys -> ClaimRows \cup {NoClaim}]
  <2>1. s \in Snapshots
    BY DrainFields DEF TypeOK
  <2>2. KeyOf(s) \in ClaimKeys
    BY Zenon, <2>1, KeysAssumption DEF Snapshots, KeyOf
  <2> QED
    BY Zenon, <1>1, <1>2, <2>2, TakeClaimFacts
<1>3. ASSUME NEW n \in Nodes, ForgetWindow(n)
      PROVE  window' \in [Nodes -> Windows \cup {NoWindow}]
  BY Zenon, <1>1, <1>3 DEF ForgetWindow
<1>4. ASSUME NEW n \in Nodes, NEW s \in worker[n].page, Claim(n, s) \/ ClaimErrs(n, s)
      PROVE  ClaimsTypeOK'
  <2>1. claims' \in [ClaimKeys -> ClaimRows \cup {NoClaim}]
    BY Zenon, <1>1, <1>2, <1>4 DEF Claim, ClaimErrs
  <2>2. window' \in [Nodes -> Windows \cup {NoWindow}]
    BY Zenon, <1>1, <1>4, UnguardedType DEF Claim, ClaimErrs
  <2> QED
    BY Zenon, <2>1, <2>2 DEF ClaimsTypeOK
<1>5. ASSUME NEW n \in Nodes, Crash(n) PROVE ClaimsTypeOK'
  BY Zenon, <1>1, <1>3, <1>5 DEF Crash, ClaimsTypeOK
<1>6. CASE Prune
  BY Zenon, <1>1, <1>6, PruneFacts DEF Prune, ClaimsTypeOK
<1>7. CASE Tick
  BY Zenon, <1>1, <1>7, AgeFacts DEF Tick
<1>8. CASE claims' = claims /\ window' = window
  BY Zenon, <1>1, <1>8 DEF ClaimsTypeOK
<1> QED
  BY ZenonT(30), <1>4, <1>5, <1>6, <1>7, <1>8
  DEF Next, vars, Work, Stage, BackoffElapses, Requeue, StartDrain, Scan, ScanFails,
      EndPage, Skip, NotAdmitted, Send, Deliver, StampOutcome

LEMMA BookkeepingType ==
    ASSUME TypeOK, HolderInv, [Next]_vars
    PROVE  /\ cursor' \in [Nodes -> [Scanned -> 0 .. NumRequests]]
           /\ alarm' \in [Nodes -> [ticker : BOOLEAN, wake : BOOLEAN]]
           /\ runs' \in [ClaimKeys -> RunCounts]
           /\ exposed' \subseteq Requests
           /\ spent' \in [requeues : 0 .. MaxRequeues, crashes : 0 .. MaxCrashes,
                          stamps : 0 .. MaxStampErrors, claims : 0 .. MaxClaimErrors]
<1>1. /\ cursor \in [Nodes -> [Scanned -> 0 .. NumRequests]]
      /\ alarm \in [Nodes -> [ticker : BOOLEAN, wake : BOOLEAN]]
      /\ runs \in [ClaimKeys -> RunCounts]
      /\ spent \in [requeues : 0 .. MaxRequeues, crashes : 0 .. MaxCrashes,
                    stamps : 0 .. MaxStampErrors, claims : 0 .. MaxClaimErrors]
      /\ NumRequests \in Nat /\ exposed \subseteq Requests
  BY Zenon, WorkerBoundsAssumption DEF TypeOK
<1>2. cursor' \in [Nodes -> [Scanned -> 0 .. NumRequests]]
  <2>1. ASSUME NEW n \in Nodes, EndPage(n)
        PROVE  cursor' \in [Nodes -> [Scanned -> 0 .. NumRequests]]
    <3>1. worker[n].scan \in Scanned /\ worker[n].next \in 0 .. NumRequests
      BY Zenon, DrainFields DEF TypeOK
    <3> DEFINE v == IF worker[n].next = cursor[n][worker[n].scan] THEN 0 ELSE worker[n].next
    <3>2. v \in 0 .. NumRequests
      BY <1>1, <3>1
    <3>3. cursor' = [cursor EXCEPT ![n] = [@ EXCEPT ![worker[n].scan] = v]]
      BY Zenon, <1>1, <2>1, <3>1 DEF EndPage
    <3> HIDE DEF v
    <3> QED
      BY Zenon, <1>1, <3>1, <3>2, <3>3
  <2>2. ASSUME NEW n \in Nodes, Crash(n)
        PROVE  cursor' \in [Nodes -> [Scanned -> 0 .. NumRequests]]
    BY SMTT(30), <1>1, <2>2 DEF Crash
  <2> QED
    BY ZenonT(30), <1>1, <2>1, <2>2
    DEF Next, vars, Work, Stage, BackoffElapses, Requeue, StartDrain, Scan, ScanFails, Skip,
        Claim, ClaimErrs, NotAdmitted, Send, Deliver, StampOutcome, Prune, Tick
<1>3. alarm' \in [Nodes -> [ticker : BOOLEAN, wake : BOOLEAN]]
  <2>1. ASSUME NEW n \in Nodes, NEW a \in [ticker : BOOLEAN, wake : BOOLEAN],
               alarm' = [alarm EXCEPT ![n] = a]
        PROVE  alarm' \in [Nodes -> [ticker : BOOLEAN, wake : BOOLEAN]]
    BY Zenon, <1>1, <2>1
  <2>2. CASE Tick
    BY Zenon, <1>1, <2>2 DEF Tick
  <2>3. ASSUME NEW n \in Nodes, NEW r, Stage(n, r)
        PROVE  alarm' \in [Nodes -> [ticker : BOOLEAN, wake : BOOLEAN]]
    <3>1. [alarm[n] EXCEPT !.wake = TRUE] \in [ticker : BOOLEAN, wake : BOOLEAN]
      BY <1>1, Zenon
    <3>2. alarm' = [alarm EXCEPT ![n] = [alarm[n] EXCEPT !.wake = TRUE]]
      BY Zenon, <1>1, <2>3 DEF Stage
    <3> QED
      BY Zenon, <2>1, <3>1, <3>2
  <2>4. ASSUME NEW n \in Nodes, StartDrain(n) \/ Crash(n)
        PROVE  alarm' \in [Nodes -> [ticker : BOOLEAN, wake : BOOLEAN]]
    <3>1. /\ [alarm[n] EXCEPT !.wake = FALSE] \in [ticker : BOOLEAN, wake : BOOLEAN]
          /\ [alarm[n] EXCEPT !.ticker = FALSE] \in [ticker : BOOLEAN, wake : BOOLEAN]
          /\ [ticker |-> TRUE, wake |-> FALSE] \in [ticker : BOOLEAN, wake : BOOLEAN]
      BY <1>1, Zenon
    <3>2. \/ alarm' = [alarm EXCEPT ![n] = [alarm[n] EXCEPT !.wake = FALSE]]
          \/ alarm' = [alarm EXCEPT ![n] = [alarm[n] EXCEPT !.ticker = FALSE]]
          \/ alarm' = [alarm EXCEPT ![n] = [ticker |-> TRUE, wake |-> FALSE]]
      BY Zenon, <1>1, <2>4 DEF StartDrain, Crash
    <3> QED
      BY Zenon, <2>1, <3>1, <3>2
  <2> QED
    BY ZenonT(30), <1>1, <2>2, <2>3, <2>4
    DEF Next, vars, Work, BackoffElapses, Requeue, Scan, ScanFails, EndPage, Skip,
        Claim, ClaimErrs, NotAdmitted, Send, Deliver, StampOutcome, Prune
<1>4. runs' \in [ClaimKeys -> RunCounts]
  <2>1. ASSUME NEW n \in Nodes, NEW written \in BOOLEAN, Send(n, written)
        PROVE  runs' \in [ClaimKeys -> RunCounts]
    <3> DEFINE k == KeyOf(worker[n])
    <3>1. worker[n] \in Drains /\ worker[n].id \in Requests
      BY Zenon, <2>1 DEF Send, HolderInv, HolderOf, Holding, TypeOK
    <3>2. k \in ClaimKeys
      BY Zenon, <3>1, DrainFields, HeldKey
    <3>3. runs' = [runs EXCEPT ![k] = IF @ < 2 THEN @ + 1 ELSE @]
      BY Zenon, <2>1 DEF Send, KeyOf
    <3> HIDE DEF k
    <3>4. runs[k] \in 0 .. 2
      BY Zenon, <1>1, <3>2 DEF RunCounts
    <3>5. (IF runs[k] < 2 THEN runs[k] + 1 ELSE runs[k]) \in RunCounts
      BY <3>4 DEF RunCounts
    <3> QED
      BY Zenon, <1>1, <3>2, <3>3, <3>5
  <2> QED
    BY ZenonT(30), <1>1, <2>1
    DEF Next, vars, Work, Stage, BackoffElapses, Requeue, StartDrain, Scan, ScanFails, EndPage,
        Skip, Claim, ClaimErrs, NotAdmitted, Deliver, StampOutcome, Crash, Prune, Tick
<1>5. spent' \in [requeues : 0 .. MaxRequeues, crashes : 0 .. MaxCrashes,
                  stamps : 0 .. MaxStampErrors, claims : 0 .. MaxClaimErrors]
  <2> DEFINE S == [requeues : 0 .. MaxRequeues, crashes : 0 .. MaxCrashes,
                   stamps : 0 .. MaxStampErrors, claims : 0 .. MaxClaimErrors]
  <2>1. /\ spent.requeues < MaxRequeues => spent.requeues + 1 \in 0 .. MaxRequeues
        /\ spent.crashes < MaxCrashes => spent.crashes + 1 \in 0 .. MaxCrashes
        /\ spent.stamps < MaxStampErrors => spent.stamps + 1 \in 0 .. MaxStampErrors
        /\ spent.claims < MaxClaimErrors => spent.claims + 1 \in 0 .. MaxClaimErrors
    BY <1>1, WorkerBoundsAssumption
  <2>2. ASSUME NEW r \in Requests, Requeue(r) PROVE spent' \in S
    BY Zenon, <1>1, <2>1, <2>2 DEF Requeue
  <2>3. ASSUME NEW n \in Nodes, Crash(n) PROVE spent' \in S
    BY Zenon, <1>1, <2>1, <2>3 DEF Crash
  <2>4. ASSUME NEW n \in Nodes, NEW s \in worker[n].page, ClaimErrs(n, s) PROVE spent' \in S
    BY Zenon, <1>1, <2>1, <2>4 DEF ClaimErrs
  <2>5. ASSUME NEW r, NEW row, NEW written \in BOOLEAN, Stamped(r, row, written)
        PROVE  spent' \in S
    BY Zenon, <1>1, <2>1, <2>5 DEF Stamped
  <2>6. ASSUME NEW n \in Nodes, NEW written \in BOOLEAN, Send(n, written) \/ StampOutcome(n, written)
        PROVE  spent' \in S
    BY <2>5, <2>6 DEF Send, StampOutcome
  <2>7. ASSUME spent' = spent PROVE spent' \in S
    BY Zenon, <1>1, <2>7
  <2> HIDE DEF S
  <2>8. ASSUME NEW n \in Nodes, Work(n) PROVE spent' \in S
    BY Zenon, <2>6, <2>7, <2>8
    DEF Work, StartDrain, Scan, EndPage, Skip, Claim, NotAdmitted, Deliver
  <2>9. spent' \in S
    BY ZenonT(30), <2>2, <2>3, <2>4, <2>6, <2>7, <2>8
    DEF Next, vars, Stage, BackoffElapses, ScanFails, Prune, Tick
  <2> QED
    BY Zenon, <2>9 DEF S
<1>6. exposed' \subseteq Requests
  <2>1. ASSUME NEW n \in Nodes, NEW s \in worker[n].page, Claim(n, s) \/ ClaimErrs(n, s)
        PROVE  exposed' \subseteq Requests
    <3>1. s \in Snapshots
      BY Zenon, DrainFields DEF TypeOK
    <3>2. s.id \in Requests
      BY Zenon, <3>1 DEF Snapshots
    <3> QED
      BY Zenon, <1>1, <2>1, <3>2 DEF Claim, ClaimErrs
  <2>2. CASE Tick
    <3>1. \A n \in Nodes : worker[n].phase = "sending" => worker[n].id \in Requests
      BY Zenon DEF HolderInv, HolderOf, Holding
    <3>2. exposed' = exposed \cup
             {worker[n].id : n \in {m \in Nodes : /\ worker[m].phase = "sending"
                                                /\ worker[m].held >= HTTPTimeout}}
      BY Zenon, <2>2 DEF Tick
    <3> QED
      BY <1>1, <3>1, <3>2
  <2> QED
    BY ZenonT(30), <1>1, <2>1, <2>2
    DEF Next, vars, Work, Stage, BackoffElapses, Requeue, StartDrain, Scan, ScanFails, EndPage,
        Skip, NotAdmitted, Send, Deliver, StampOutcome, Crash, Prune
<1> QED
  BY Zenon, <1>2, <1>3, <1>4, <1>5, <1>6

-----------------------------------------------------------------------------
(* The theorems                                                            *)

IInv == TypeOK /\ HolderInv /\ AttemptsInv

LEMMA Inductive == Spec => []IInv
<1>1. Init => IInv
  <2> SUFFICES ASSUME Init PROVE IInv
    BY Zenon
  <2>1. 0 \in AttemptCounts /\ 0 \in Nat /\ 0 \in 0 .. NumRequests /\ 0 \in RunCounts
    BY WorkerBoundsAssumption DEF AttemptCounts, RunCounts
  <2>2. spent \in [requeues : 0 .. MaxRequeues, crashes : 0 .. MaxCrashes,
                   stamps : 0 .. MaxStampErrors, claims : 0 .. MaxClaimErrors]
    BY WorkerBoundsAssumption DEF Init
  <2>3. TypeOK
    BY Zenon, <2>1, <2>2, RestingDrain
    DEF Init, TypeOK, ClaimsInit, ClaimsTypeOK, Statuses
  <2>4. HolderInv
    BY Zenon, RestingDrain, HolderNone DEF Init, HolderInv, Empty
  <2>5. Limit = MaxAttempts /\ 0 < MaxAttempts
    BY WorkerBoundsAssumption DEF Init, Limit
  <2>6. AttemptsInv
    <3>1. \A r \in Requests : rows[r].attempts = 0
      BY Zenon DEF Init
    <3>2. \A r \in Requests : ChargedRow(rows[r], Limit)
      BY <2>5, <3>1, WorkerBoundsAssumption DEF ChargedRow
    <3>3. \A n \in Nodes : ChargedDrain(worker[n], Limit)
      BY Zenon, RestingDrain DEF Init, ChargedDrain, Empty
    <3> QED
      BY Zenon, <3>2, <3>3 DEF AttemptsInv
  <2> QED
    BY Zenon, <2>3, <2>4, <2>6 DEF IInv
<1>2. IInv /\ [Next]_vars => IInv'
  <2> SUFFICES ASSUME IInv, [Next]_vars PROVE IInv'
    BY Zenon
  <2>1. TypeOK /\ HolderInv /\ AttemptsInv
    BY Zenon DEF IInv
  <2>2. TypeOK'
    BY Zenon, <2>1, RowsStep, WorkerType, ClaimsType, BookkeepingType DEF TypeOK, RowsKept, RowsOf
  <2> QED
    BY Zenon, <2>1, <2>2, HolderStep, AttemptsStep DEF IInv
<1> QED
  BY <1>1, <1>2, PTL DEF Spec

(* The rows, drains, cursors, claims and budgets keep their types; with    *)
(* the cap of recordFailure, no request is ever charged more than          *)
(* MaxAttempts and one attempt for every requeue, although outcomes        *)
(* are computed from snapshots and stamps may fail.                        *)
THEOREM OutboundTypeCorrect == Spec => []TypeOK
<1>1. IInv => TypeOK
  BY Zenon DEF IInv
<1> QED
  BY <1>1, Inductive, PTL

(* No two replicas hold the same attempt of a request at the same time for *)
(* as long as the lease of each runs, whatever the page size, the lease    *)
(* and the delivery timeout: crashes, failed stamps, claims that err after *)
(* committing, requeues and the prune never let a second replica in        *)
(* (processRow, ClaimExecution).                                           *)
THEOREM OneHolder == Spec => []OneHolderPerAttempt
<1>1. IInv => OneHolderPerAttempt
  <2> SUFFICES ASSUME HolderInv, NEW m \in Nodes, NEW n \in Nodes, m # n,
                      Covered(worker[m]), Covered(worker[n]),
                      worker[m].id = worker[n].id, worker[m].attempts = worker[n].attempts
               PROVE  FALSE
    BY Zenon DEF IInv, OneHolderPerAttempt, Covered, Holding
  <2>1. KeyOf(worker[m]) = KeyOf(worker[n])
    BY Zenon DEF KeyOf
  <2>2. LedgerRow(m, worker[m]) = LedgerRow(n, worker[n])
    BY Zenon, <2>1 DEF HolderInv, HolderOf
  <2>3. LedgerRow(m, worker[m]).by = m /\ LedgerRow(n, worker[n]).by = n
    BY Zenon DEF LedgerRow
  <2> QED
    BY Zenon, <2>2, <2>3
<1> QED
  BY <1>1, Inductive, PTL

-----------------------------------------------------------------------------
(* Pages that have grown old                                               *)

(* The row a snapshot was read from has not been settled since.            *)
StillOpen(s, table) ==
    /\ table[s.id].attempts = s.attempts
    /\ table[s.id].status \in {"pending", "retrying", "sending"}

(* The snapshot's attempt is claimed, by a claim at most one delivery      *)
(* older than the page.                                                    *)
Fenced(s, w, ledger) ==
    \E n \in Nodes, age \in Ages :
        /\ ledger[KeyOf(s)] = [by |-> n, ttl |-> ClaimTTL, age |-> age]
        /\ age <= HTTPTimeout + w.age

(* The row in hand is w's, for no longer than a webhook's delivery takes.  *)
HeldOK(w, table) ==
    /\ w.guarded /\ w.held <= HTTPTimeout /\ HTTPTimeout <= ClaimTTL
    /\ StillOpen(w, table)

(* Of the requests that are covered: the row in hand is as it was read,    *)
(* and so is every row of a page that is not outdated, or it is fenced.    *)
PageOK(w, table, ledger, bare) ==
    /\ w.phase = "idle" => w.page = {}
    /\ Holding(w) /\ w.id \notin bare => HeldOK(w, table)
    /\ ~Outdated(w) => \A s \in w.page :
          s.id \notin bare => StillOpen(s, table) \/ Fenced(s, w, ledger)

PageInv == \A n \in Nodes : PageOK(worker[n], rows, claims, exposed)

LEMMA ScanPage ==
    ASSUME TypeOK, NEW n \in Nodes, Scan(n)
    PROVE  PageOK(worker'[n], rows', claims', exposed')
<1> DEFINE status == worker[n].scan
           s == Following(status, cursor[n][status])
           page == {Snapshot(r) : r \in PageOf(s)}
<1>1. worker'[n].page = page /\ worker'[n].phase = "page" /\ rows' = rows
  BY Zenon DEF Scan, TypeOK, Drain
<1>2. PageOf(s) \subseteq s /\ \A r \in s : rows[r].status = status
  BY Zenon DEF Following, PageOf
<1>3. status \in Scanned
  BY Zenon, DrainFields DEF TypeOK
<1> HIDE DEF s, status
<1>4. \A t \in page : StillOpen(t, rows)
  <2>1. ASSUME NEW r \in PageOf(s) PROVE StillOpen(Snapshot(r), rows)
    <3>1. Snapshot(r).id = r /\ Snapshot(r).attempts = rows[r].attempts
      BY Zenon DEF Snapshot
    <3>2. rows[r].status \in {"pending", "retrying"}
      BY Zenon, <1>2, <1>3 DEF Scanned
    <3> QED
      BY Zenon, <3>1, <3>2 DEF StillOpen
  <2> QED
    BY Zenon, <2>1
<1> HIDE DEF page
<1> QED
  BY Zenon, <1>1, <1>4 DEF PageOK, Holding

LEMMA NextRowPage ==
    ASSUME TypeOK, NEW n \in Nodes, worker' = [worker EXCEPT ![n] = NextRow(n)]
    PROVE  /\ worker'[n].page = {q \in worker[n].page : q.id # worker[n].id}
           /\ worker'[n].phase = "page"
<1>1. worker[n] \in Drains /\ worker'[n] = NextRow(n)
  BY Zenon DEF TypeOK
<1>2. /\ NextRow(n).page = {q \in worker[n].page : q.id # worker[n].id}
      /\ NextRow(n).phase = "page"
  BY Zenon, <1>1 DEF NextRow, Drains
<1> QED
  BY Zenon, <1>1, <1>2

(* The claim on a snapshot of a page that is not outdated stands.          *)
LEMMA FencedIsSafe ==
    ASSUME NEW w \in Drains, ~Outdated(w), NEW k \in ClaimKeys,
           NEW n \in Nodes, NEW age \in Ages, age <= HTTPTimeout + w.age,
           claims[k] = [by |-> n, ttl |-> ClaimTTL, age |-> age]
    PROVE  /\ age <= ClaimTTL /\ age < AgeCap
           /\ ~Winnable(k, ClaimTTL)
           /\ claims[k] # NoClaim /\ ~Prunable(claims[k])
<1>1. /\ w.age \in Nat /\ HTTPTimeout \in Nat /\ ClaimTTL \in Nat /\ ClaimTTL < AgeCap
      /\ age \in Nat /\ AgeCap \in Nat /\ Retention \in Nat
  BY DrainFields, WorkerBoundsAssumption, ClaimBoundsAssumption DEF Ages
<1>2. age <= ClaimTTL /\ age < AgeCap
  BY <1>1 DEF Outdated
<1>3. claims[k].age = age /\ claims[k].ttl = ClaimTTL
  OBVIOUS
<1>4. claims[k] # NoClaim
  <2>1. [by |-> n, ttl |-> ClaimTTL, age |-> age] \in ClaimRows
    BY Zenon, <1>1 DEF ClaimRows
  <2> QED
    BY Zenon, <2>1, NoClaimAssumption
<1>5. ~Lapsed(claims[k], ClaimTTL) /\ ~Prunable(claims[k])
  BY <1>1, <1>2, <1>3 DEF Lapsed, Prunable
<1> QED
  BY Zenon, <1>2, <1>4, <1>5 DEF Winnable

LEMMA FencedGrows ==
    ASSUME NEW s, NEW v \in Drains, NEW w \in Drains, NEW ledger, NEW book,
           Fenced(s, v, ledger), v.age <= w.age, book[KeyOf(s)] = ledger[KeyOf(s)]
    PROVE  Fenced(s, w, book)
<1>1. PICK n \in Nodes, age \in Ages :
         /\ ledger[KeyOf(s)] = [by |-> n, ttl |-> ClaimTTL, age |-> age]
         /\ age <= HTTPTimeout + v.age
  BY Zenon DEF Fenced
<1>2. age <= HTTPTimeout + w.age
  <2>1. age \in Nat /\ HTTPTimeout \in Nat /\ v.age \in Nat /\ w.age \in Nat
    BY DrainFields, ClaimBoundsAssumption, WorkerBoundsAssumption DEF Ages
  <2> QED
    BY <1>1, <2>1
<1> QED
  BY Zenon, <1>1, <1>2 DEF Fenced

(* What a step may do to a page without harm: let rows go, and leave every *)
(* other one either open or fenced.                                        *)
LEMMA PageKept ==
    ASSUME NEW v \in Drains, NEW w \in Drains, NEW table, NEW book, NEW bare,
           PageOK(v, rows, claims, exposed), exposed \subseteq bare,
           w.page \subseteq v.page, v.age <= w.age,
           w.phase = "idle" => w.page = {},
           Holding(w) /\ w.id \notin bare => HeldOK(w, table),
           ~Outdated(v) /\ ~Outdated(w) => \A s \in w.page :
               /\ s.id \notin bare
               /\ StillOpen(s, rows) \/ Fenced(s, v, claims)
               => StillOpen(s, table) \/ Fenced(s, w, book)
    PROVE  PageOK(w, table, book, bare)
<1>1. ~Outdated(w) => ~Outdated(v)
  <2>1. v.age \in Nat /\ w.age \in Nat /\ HTTPTimeout \in Nat /\ ClaimTTL \in Nat
    BY DrainFields, WorkerBoundsAssumption
  <2> QED
    BY <2>1 DEF Outdated
<1> QED
  BY Zenon, <1>1 DEF PageOK

(* Two replicas never have the same covered request in hand.               *)
LEMMA OneInHand ==
    ASSUME TypeOK, HolderInv, PageInv, NEW m \in Nodes, NEW n \in Nodes,
           Holding(worker[m]), Holding(worker[n]), worker[m].id = worker[n].id,
           worker[m].id \notin exposed
    PROVE  m = n
<1>1. HeldOK(worker[m], rows) /\ HeldOK(worker[n], rows)
  BY Zenon DEF PageInv, PageOK
<1>2. worker[m].held \in Nat /\ worker[n].held \in Nat /\ HTTPTimeout \in Nat /\ ClaimTTL \in Nat
  BY Zenon, DrainFields, WorkerBoundsAssumption DEF TypeOK
<1>3. worker[m].held <= ClaimTTL /\ worker[n].held <= ClaimTTL
  BY <1>1, <1>2 DEF HeldOK
<1>4. KeyOf(worker[m]) = KeyOf(worker[n])
  BY Zenon, <1>1 DEF HeldOK, StillOpen, KeyOf
<1>5. LedgerRow(m, worker[m]) = LedgerRow(n, worker[n])
  BY Zenon, <1>1, <1>3, <1>4 DEF HolderInv, HolderOf, Covered, HeldOK
<1>6. LedgerRow(m, worker[m]).by = m /\ LedgerRow(n, worker[n]).by = n
  BY Zenon DEF LedgerRow
<1> QED
  BY Zenon, <1>5, <1>6

(* A row changes in place, and the snapshots of it stay as good as before. *)
LEMMA RowChange ==
    ASSUME TypeOK, NEW r \in Requests, NEW row, rows' = [rows EXCEPT ![r] = row]
    PROVE  /\ rows'[r] = row
           /\ \A q \in Requests : q # r => rows'[q] = rows[q]
  BY Zenon DEF TypeOK

LEMMA RowDue ==
    ASSUME NEW row \in RowsOf
    PROVE  /\ [row EXCEPT !.due = TRUE].attempts = row.attempts
           /\ [row EXCEPT !.due = TRUE].status = row.status
  BY Zenon DEF RowsOf

(* What was not covered once is never again called covered.                *)
LEMMA ExposedStays ==
    ASSUME [Next]_vars
    PROVE  exposed \subseteq exposed'
<1>1. CASE Tick
  BY Zenon, <1>1 DEF Tick
<1>2. ASSUME NEW n \in Nodes, NEW s, Claim(n, s) \/ ClaimErrs(n, s)
      PROVE  exposed \subseteq exposed'
  BY Zenon, <1>2 DEF Claim, ClaimErrs
<1> QED
  BY ZenonT(30), <1>1, <1>2
  DEF Next, vars, Work, Stage, BackoffElapses, Requeue, StartDrain, Scan, ScanFails, EndPage,
      Skip, NotAdmitted, Send, Deliver, StampOutcome, Crash, Prune

LEMMA PageStep ==
    ASSUME TypeOK, HolderInv, PageInv, [Next]_vars, TypeOK'
    PROVE  PageInv'
<1> SUFFICES ASSUME NEW m \in Nodes PROVE PageOK(worker'[m], rows', claims', exposed')
  BY Zenon DEF PageInv
<1> DEFINE Goal == PageOK(worker'[m], rows', claims', exposed')
           v == worker[m]
           w == worker'[m]
<1>1. /\ v \in Drains /\ w \in Drains /\ HolderOf(m, v, claims)
      /\ PageOK(v, rows, claims, exposed) /\ ClaimsTypeOK /\ exposed \subseteq exposed'
  BY Zenon, ExposedStays DEF TypeOK, HolderInv, PageInv
<1>2. ASSUME NEW n \in Nodes, NEW s \in worker[n].page
      PROVE  s \in Snapshots /\ s.id \in Requests /\ KeyOf(s) \in ClaimKeys
  <2>1. s \in Snapshots
    BY Zenon, DrainFields DEF TypeOK
  <2> QED
    BY Zenon, <2>1, KeysAssumption DEF Snapshots, KeyOf
<1>3. ASSUME NEW n \in Nodes, Holding(worker[n])
      PROVE  /\ worker[n] \in Drains /\ worker[n].id \in Requests
             /\ worker[n].id \notin exposed' =>
                   /\ HeldOK(worker[n], rows) /\ worker[n].held \in Ages
                   /\ claims[KeyOf(worker[n])] = LedgerRow(n, worker[n])
  <2>1. worker[n] \in Drains /\ worker[n].id \in Requests /\ worker[n].held \in Ages
    BY Zenon, <1>3, DrainFields DEF TypeOK, HolderInv, HolderOf
  <2>2. ASSUME worker[n].id \notin exposed'
        PROVE  HeldOK(worker[n], rows) /\ claims[KeyOf(worker[n])] = LedgerRow(n, worker[n])
    <3>1. HeldOK(worker[n], rows)
      BY Zenon, <1>1, <1>3, <2>2 DEF PageInv, PageOK
    <3>2. worker[n].held <= ClaimTTL
      <4>1. worker[n].held \in Nat /\ HTTPTimeout \in Nat /\ ClaimTTL \in Nat
        BY Zenon, <2>1, DrainFields, WorkerBoundsAssumption
      <4> QED
        BY <3>1, <4>1 DEF HeldOK
    <3> QED
      BY Zenon, <1>3, <3>1, <3>2 DEF HolderInv, HolderOf, Covered, HeldOK
  <2> QED
    BY Zenon, <2>1, <2>2
<1>4. v.age \in Nat /\ w.age \in Nat /\ v.age <= v.age
  <2>1. v.age \in Nat /\ w.age \in Nat
    BY Zenon, <1>1, DrainFields
  <2> QED
    BY <2>1
<1>5. ASSUME w.page = {}, ~Holding(w) PROVE Goal
  BY Zenon, <1>5 DEF PageOK
(* The page of a replica that does not move, or only moves on.             *)
<1>6. ASSUME w.page \subseteq v.page, SameHand(v, w), w.phase = "idle" => v.phase = "idle",
             Holding(w) => Holding(v),
             Holding(v) /\ v.id \notin exposed' => StillOpen(v, rows'),
             ~Outdated(v) => \A s \in v.page :
                 /\ s.id \notin exposed'
                 /\ StillOpen(s, rows) \/ Fenced(s, v, claims)
                 => StillOpen(s, rows') \/ Fenced(s, v, claims')
      PROVE  Goal
  <2>1. v.age <= w.age
    BY Zenon, <1>4, <1>6 DEF SameHand
  <2>2. \A s \in w.page : Fenced(s, v, claims') => Fenced(s, w, claims')
    BY Zenon, <1>1, <2>1, FencedGrows
  <2>3. Holding(w) /\ w.id \notin exposed' => HeldOK(w, rows')
    <3> SUFFICES ASSUME Holding(w), w.id \notin exposed' PROVE HeldOK(w, rows')
      BY Zenon
    <3>1. HeldOK(v, rows) /\ StillOpen(v, rows')
      BY Zenon, <1>3, <1>6 DEF SameHand
    <3> QED
      BY Zenon, <1>6, <3>1 DEF HeldOK, StillOpen, SameHand
  <2>4. w.phase = "idle" => w.page = {}
    BY Zenon, <1>1, <1>6 DEF PageOK
  <2> HIDE DEF v, w
  <2> QED
    BY Zenon, <1>1, <1>6, <2>1, <2>2, <2>3, <2>4, PageKept DEF w
<1>7. ASSUME w = v, rows' = rows,
             ~Outdated(v) => \A s \in v.page :
                 Fenced(s, v, claims) => Fenced(s, v, claims')
      PROVE  Goal
  <2>1. Holding(v) /\ v.id \notin exposed' => StillOpen(v, rows')
    BY Zenon, <1>3, <1>7 DEF HeldOK
  <2> QED
    BY Zenon, <1>6, <1>7, <2>1 DEF SameHand
<1>8. ASSUME w = v, rows' = rows, claims' = claims PROVE Goal
  BY Zenon, <1>7, <1>8
<1>9. ASSUME NEW n \in Nodes, Others(n), n # m PROVE w = v
  BY Zenon, <1>9 DEF Others
<1> HIDE DEF v, w
(* A row changes under a replica that does not move.                       *)
<1>10. ASSUME NEW r \in Requests, NEW row, rows' = [rows EXCEPT ![r] = row], claims' = claims,
              w = v,
              r \notin exposed' => \A s \in v.page : s.id = r /\ StillOpen(s, rows) =>
                  StillOpen(s, rows') \/ Fenced(s, v, claims),
              r \notin exposed' /\ Holding(v) /\ v.id = r => StillOpen(v, rows')
       PROVE  Goal
  <2>1. \A q \in Requests : q # r => rows'[q] = rows[q]
    BY Zenon, <1>10, RowChange
  <2>2. ASSUME NEW s \in v.page, s.id \notin exposed', StillOpen(s, rows)
        PROVE  StillOpen(s, rows') \/ Fenced(s, v, claims')
    BY Zenon, <1>2, <1>10, <2>1, <2>2 DEF StillOpen, v
  <2>3. Holding(v) /\ v.id \notin exposed' => StillOpen(v, rows')
    BY Zenon, <1>3, <1>10, <2>1 DEF HeldOK, StillOpen, v
  <2> QED
    BY Zenon, <1>6, <1>10, <2>2, <2>3 DEF SameHand
<1>11. ASSUME NEW n \in Nodes, StartDrain(n) \/ ScanFails(n) \/ EndPage(n) \/ Crash(n)
       PROVE  Goal
  <2>1. /\ Others(n) /\ Empty(worker'[n]) /\ claims' = claims /\ rows' = rows
    BY Zenon, <1>11, RestFacts DEF Moves, StartDrain, ScanFails, EndPage, Crash
  <2>2. CASE n = m
    BY Zenon, <1>5, <2>1, <2>2 DEF Empty, w
  <2> QED
    BY Zenon, <1>8, <1>9, <2>1, <2>2
<1>12. ASSUME NEW n \in Nodes, Scan(n) PROVE Goal
  <2>1. Others(n) /\ claims' = claims /\ rows' = rows
    BY Zenon, <1>12, ScanFacts DEF Moves, Scan
  <2>2. CASE n = m
    BY Zenon, <1>12, <2>2, ScanPage
  <2> QED
    BY Zenon, <1>8, <1>9, <2>1, <2>2
(* A claim taken, whether answered or not, fences every snapshot of it.    *)
<1>13. ASSUME NEW n \in Nodes, NEW s \in worker[n].page,
              TakeClaim(n, KeyOf(s), ClaimTTL) \/ claims' = claims
       PROVE  \A t \in v.page : Fenced(t, v, claims) => Fenced(t, v, claims')
  <2> SUFFICES ASSUME NEW t \in v.page, Fenced(t, v, claims), claims' # claims
               PROVE  Fenced(t, v, claims')
    BY Zenon, <1>13
  <2>1. KeyOf(s) \in ClaimKeys /\ KeyOf(t) \in ClaimKeys
    BY Zenon, <1>2 DEF v
  <2>2. /\ claims'[KeyOf(s)] = [by |-> n, ttl |-> ClaimTTL, age |-> 0]
        /\ \A j \in ClaimKeys : j # KeyOf(s) => claims'[j] = claims[j]
    BY Zenon, <1>1, <1>13, <2>1, TakeClaimFacts
  <2>3. CASE KeyOf(t) = KeyOf(s)
    <3>1. 0 \in Ages /\ 0 <= HTTPTimeout + v.age
      BY <1>4, ClaimBoundsAssumption, WorkerBoundsAssumption DEF Ages
    <3> QED
      BY Zenon, <2>2, <2>3, <3>1 DEF Fenced
  <2> QED
    BY Zenon, <1>1, <1>4, <2>1, <2>2, <2>3, FencedGrows
<1>14. ASSUME NEW n \in Nodes, NEW s \in worker[n].page, Turn(n, s), PassOver(n, s),
              TakeClaim(n, KeyOf(s), ClaimTTL) \/ claims' = claims, rows' = rows
       PROVE  Goal
  <2>1. /\ Others(n) /\ worker'[n].phase = worker[n].phase /\ worker[n].phase = "page"
        /\ SameHand(worker[n], worker'[n]) /\ worker'[n].page \subseteq worker[n].page
    BY Zenon, <1>14, PassOverFacts DEF Moves, Turn
  <2>2. \A t \in v.page : Fenced(t, v, claims) => Fenced(t, v, claims')
    BY Zenon, <1>13, <1>14
  <2>3. CASE n = m
    <3>1. /\ w.phase = "page" /\ SameHand(v, w) /\ w.page \subseteq v.page
          /\ ~Holding(w) /\ ~Holding(v)
      BY Zenon, <2>1, <2>3 DEF Holding, v, w
    <3> QED
      BY Zenon, <1>6, <1>14, <2>2, <3>1
  <2> QED
    BY Zenon, <1>7, <1>9, <1>14, <2>1, <2>2, <2>3
<1>15. ASSUME NEW n \in Nodes, NEW s \in worker[n].page, NEW guarded \in BOOLEAN, Turn(n, s),
              TakeClaim(n, KeyOf(s), ClaimTTL) \/ claims' = claims, rows' = rows,
              InHand(n, s, guarded),
              s.id \notin exposed' =>
                 guarded /\ ~Outdated(worker[n]) /\ TakeClaim(n, KeyOf(s), ClaimTTL)
       PROVE  Goal
  <2>1. s \in Snapshots /\ KeyOf(s) \in ClaimKeys
    BY Zenon, <1>2
  <2>2. /\ Others(n) /\ worker'[n].phase = "claimed" /\ worker'[n].id = s.id
        /\ worker'[n].attempts = s.attempts /\ worker'[n].guarded = guarded
        /\ worker'[n].held = worker[n].held /\ worker'[n].age = worker[n].age
        /\ worker'[n].page = worker[n].page
    BY Zenon, <1>15, <2>1, InHandFacts DEF Moves
  <2>3. \A t \in v.page : Fenced(t, v, claims) => Fenced(t, v, claims')
    BY Zenon, <1>13, <1>15
  <2>4. CASE n = m
    <3>1. /\ ~Holding(v) /\ Holding(w) /\ w.id = s.id /\ w.attempts = s.attempts
          /\ w.guarded = guarded /\ w.page = v.page /\ s \in v.page /\ w.phase # "idle"
          /\ w.held = v.held /\ w.age = v.age /\ v.held = 0
      BY Zenon, <1>1, <1>15, <2>2, <2>4 DEF Holding, Turn, HolderOf, v, w
    <3>2. v.age <= w.age
      BY Zenon, <1>4, <3>1
    <3>3. ASSUME s.id \notin exposed' PROVE HeldOK(w, rows')
      <4>1. ~Outdated(v) /\ Winnable(KeyOf(s), ClaimTTL) /\ w.guarded
        BY Zenon, <1>15, <2>4, <3>1, <3>3 DEF TakeClaim, v
      <4>2. ~Fenced(s, v, claims)
        <5> SUFFICES ASSUME Fenced(s, v, claims) PROVE FALSE
          OBVIOUS
        <5>1. PICK a \in Nodes, age \in Ages :
                 /\ claims[KeyOf(s)] = [by |-> a, ttl |-> ClaimTTL, age |-> age]
                 /\ age <= HTTPTimeout + v.age
          BY Zenon DEF Fenced
        <5> QED
          BY Zenon, <1>1, <2>1, <4>1, <5>1, FencedIsSafe
      <4>3. StillOpen(s, rows)
        BY Zenon, <1>1, <3>1, <3>3, <4>1, <4>2 DEF PageOK
      <4>4. StillOpen(w, rows')
        BY Zenon, <1>15, <3>1, <4>3 DEF StillOpen
      <4>5. w.held <= HTTPTimeout /\ HTTPTimeout <= ClaimTTL
        BY <1>4, <3>1, <4>1, WorkerBoundsAssumption DEF Outdated
      <4> QED
        BY Zenon, <4>1, <4>4, <4>5 DEF HeldOK
    <3>4. \A t \in w.page : Fenced(t, v, claims) => Fenced(t, w, claims')
      BY Zenon, <1>1, <2>3, <3>1, <3>2, FencedGrows
    <3> QED
      BY Zenon, <1>1, <1>15, <3>1, <3>2, <3>3, <3>4, PageKept DEF w
  <2> QED
    BY Zenon, <1>7, <1>9, <1>15, <2>2, <2>3, <2>4
<1>16. ASSUME NEW n \in Nodes, NEW s \in worker[n].page,
              Skip(n, s) \/ Claim(n, s) \/ ClaimErrs(n, s)
       PROVE  Goal
  <2>1. CASE Skip(n, s)
    BY Zenon, <1>14, <2>1 DEF Skip
  <2>2. CASE Claim(n, s)
    <3>1. s.id \notin exposed' => ~Outdated(worker[n])
      BY Zenon, <2>2 DEF Claim
    <3> QED
      BY Zenon, <1>15, <2>2, <3>1 DEF Claim
  <2>3. CASE ClaimErrs(n, s)
    <3>1. \/ PassOver(n, s)
          \/ InHand(n, s, FALSE) /\ s.id \in exposed'
      BY Zenon, <2>3 DEF ClaimErrs
    <3> QED
      BY Zenon, <1>14, <1>15, <2>3, <3>1 DEF ClaimErrs
  <2> QED
    BY Zenon, <1>16, <2>1, <2>2, <2>3

<1>17. ASSUME NEW n \in Nodes, NEW phase \in {"sending", "stamp"}, Holding(worker[n]),
              NEW outcome \in {"none", "ok", "permanent", "retryable", "refused"},
              \/ worker' = [worker EXCEPT ![n].phase = phase]
              \/ worker' = [worker EXCEPT ![n].phase = phase, ![n].outcome = outcome],
              claims' = claims,
              \/ rows' = rows
              \/ rows' = [rows EXCEPT ![worker[n].id] = [rows[worker[n].id] EXCEPT !.status = "sending"]]
       PROVE  Goal
  <2>1. /\ Others(n) /\ worker'[n].phase = phase /\ SameHand(worker[n], worker'[n])
        /\ worker'[n].page = worker[n].page
    BY ZenonT(30), <1>17, PhaseFacts DEF Moves
  <2>2. ASSUME NEW s, s.id \in Requests, StillOpen(s, rows) PROVE StillOpen(s, rows')
    <3>1. CASE rows' = rows
      BY Zenon, <2>2, <3>1
    <3>2. CASE rows' = [rows EXCEPT ![worker[n].id] = [rows[worker[n].id] EXCEPT !.status = "sending"]]
      <4> DEFINE r == worker[n].id
                 row == [rows[r] EXCEPT !.status = "sending"]
      <4>1. r \in Requests /\ rows[r] \in RowsOf
        BY Zenon, <1>3, <1>17 DEF TypeOK, RowsOf
      <4>2. row.attempts = rows[r].attempts /\ row.status = "sending"
        BY Zenon, <4>1, RowWithStatus DEF Statuses
      <4> HIDE DEF r, row
      <4>3. rows'[r] = row /\ \A q \in Requests : q # r => rows'[q] = rows[q]
        BY Zenon, <3>2, <4>1, RowChange DEF r, row
      <4> QED
        BY Zenon, <2>2, <4>2, <4>3 DEF StillOpen
    <3> QED
      BY Zenon, <1>17, <3>1, <3>2
  <2>3. /\ w.page \subseteq v.page /\ SameHand(v, w) /\ (Holding(w) => Holding(v))
        /\ w.phase = "idle" => v.phase = "idle"
    BY Zenon, <1>17, <2>1 DEF Others, SameHand, Holding, v, w
  <2>4. \A s \in v.page : StillOpen(s, rows) => StillOpen(s, rows')
    BY Zenon, <1>2, <2>2 DEF v
  <2>5. Holding(v) /\ v.id \notin exposed' => StillOpen(v, rows')
    BY Zenon, <1>3, <2>2 DEF HeldOK, v
  <2> QED
    BY Zenon, <1>6, <1>17, <2>3, <2>4, <2>5
<1>18. ASSUME NEW n \in Nodes, NEW written \in BOOLEAN, StampOutcome(n, written) PROVE Goal
  <2>1. /\ Holding(worker[n]) /\ claims' = claims /\ worker' = [worker EXCEPT ![n] = NextRow(n)]
        /\ rows' = rows \/ rows' = [rows EXCEPT ![worker[n].id] = Outcome(worker[n])]
    BY Zenon, <1>18 DEF StampOutcome, Stamped, Holding
  <2>2. Others(n) /\ ~Holding(worker'[n]) /\ worker'[n].age = worker[n].age
    BY Zenon, <2>1, NextRowFacts DEF Moves
  <2>3. /\ worker[n].id \in Requests
        /\ worker[n].id \notin exposed' =>
              /\ HeldOK(worker[n], rows) /\ worker[n].held \in Ages
              /\ claims[KeyOf(worker[n])] = LedgerRow(n, worker[n])
    BY Zenon, <1>3, <2>1
  <2>4. CASE n = m
    <3>1. w.page = {q \in v.page : q.id # v.id} /\ w.phase = "page" /\ ~Holding(w)
      BY Zenon, <2>1, <2>2, <2>4, NextRowPage DEF v, w
    <3>2. w.page \subseteq v.page /\ v.age <= w.age
      BY Zenon, <1>4, <2>2, <2>4, <3>1 DEF v, w
    <3>3. \A q \in Requests : q # v.id => rows'[q] = rows[q]
      BY Zenon, <2>1, <2>3, <2>4, RowChange DEF v
    <3>4. ASSUME NEW t \in w.page, StillOpen(t, rows) \/ Fenced(t, v, claims)
          PROVE  StillOpen(t, rows') \/ Fenced(t, w, claims')
      <4>1. t.id \in Requests /\ t.id # v.id
        BY Zenon, <1>2, <3>1 DEF v
      <4> QED
        BY Zenon, <1>1, <2>1, <3>2, <3>3, <3>4, <4>1, FencedGrows DEF StillOpen
    <3> QED
      BY Zenon, <1>1, <3>1, <3>2, <3>4, PageKept DEF w
  <2>5. CASE n # m
    <3>1. w = v
      BY Zenon, <1>9, <2>2, <2>5
    <3>2. CASE rows' = rows
      BY Zenon, <1>8, <2>1, <3>1, <3>2
    <3>3. CASE rows' = [rows EXCEPT ![worker[n].id] = Outcome(worker[n])]
      <4>1. ASSUME worker[n].id \notin exposed',
                   NEW s \in v.page, s.id = worker[n].id, StillOpen(s, rows)
            PROVE  Fenced(s, v, claims)
        <5>1. HeldOK(worker[n], rows) /\ claims[KeyOf(worker[n])] = LedgerRow(n, worker[n])
              /\ worker[n].held \in Ages
          BY Zenon, <2>3, <4>1
        <5>2. KeyOf(s) = KeyOf(worker[n])
          BY Zenon, <4>1, <5>1 DEF HeldOK, StillOpen, KeyOf
        <5>3. claims[KeyOf(s)] = [by |-> n, ttl |-> ClaimTTL, age |-> worker[n].held]
          BY Zenon, <5>1, <5>2 DEF LedgerRow
        <5>4. worker[n].held <= HTTPTimeout + v.age
          BY <1>4, <5>1, WorkerBoundsAssumption, ClaimBoundsAssumption DEF HeldOK, Ages
        <5> QED
          BY Zenon, <5>1, <5>3, <5>4 DEF Fenced
      <4>2. worker[n].id \notin exposed' => ~(Holding(v) /\ v.id = worker[n].id)
        BY Zenon, <1>1, <2>1, <2>5, OneInHand DEF v
      <4> QED
        BY Zenon, <1>10, <2>1, <2>3, <3>1, <3>3, <4>1, <4>2
    <3> QED
      BY Zenon, <2>1, <3>2, <3>3
  <2> QED
    BY Zenon, <2>4, <2>5
<1>19. ASSUME NEW r \in Requests,
              BackoffElapses(r) \/ Requeue(r) \/ \E n \in Nodes : Stage(n, r)
       PROVE  Goal
  <2>1. w = v /\ claims' = claims
    BY Zenon, <1>19 DEF BackoffElapses, Requeue, Stage, v, w
  <2>2. CASE BackoffElapses(r)
    <3> DEFINE row == [rows[r] EXCEPT !.due = TRUE]
    <3>1. rows' = [rows EXCEPT ![r] = row]
      BY Zenon, <2>2 DEF BackoffElapses
    <3>2. row.attempts = rows[r].attempts /\ row.status = rows[r].status
      <4>1. rows[r] \in RowsOf
        BY Zenon DEF TypeOK, RowsOf
      <4> QED
        BY Zenon, <4>1, RowDue
    <3> HIDE DEF row
    <3>3. rows'[r] = row
      BY Zenon, <3>1, RowChange
    <3>4. ASSUME NEW s, s.id = r, StillOpen(s, rows) PROVE StillOpen(s, rows')
      BY Zenon, <3>2, <3>3, <3>4 DEF StillOpen
    <3> QED
      BY Zenon, <1>3, <1>10, <2>1, <3>1, <3>4 DEF HeldOK, v
  <2>3. CASE rows[r].status \in {"unstaged", "failed"}
    <3> DEFINE row == [rows[r] EXCEPT !.status = "pending"]
    <3>1. rows' = [rows EXCEPT ![r] = row]
      BY Zenon, <1>19, <2>3 DEF BackoffElapses, Requeue, Stage
    <3>2. ASSUME NEW s, s.id = r PROVE ~StillOpen(s, rows)
      BY Zenon, <2>3, <3>2 DEF StillOpen
    <3> HIDE DEF row
    <3> QED
      BY Zenon, <1>3, <1>10, <2>1, <3>1, <3>2 DEF HeldOK, v
  <2> QED
    BY Zenon, <1>19, <2>2, <2>3 DEF Requeue, Stage
<1>20. CASE Prune
  <2>1. /\ w = v /\ rows' = rows
        /\ \A k \in ClaimKeys :
              claims[k] # NoClaim /\ ~Prunable(claims[k]) => claims'[k] = claims[k]
    BY Zenon, <1>1, <1>20, PruneFacts DEF Prune, v, w
  <2>2. ASSUME NEW s \in v.page, ~Outdated(v), Fenced(s, v, claims)
        PROVE  Fenced(s, v, claims')
    <3>1. PICK a \in Nodes, age \in Ages :
             /\ claims[KeyOf(s)] = [by |-> a, ttl |-> ClaimTTL, age |-> age]
             /\ age <= HTTPTimeout + v.age
      BY Zenon, <2>2 DEF Fenced
    <3>2. KeyOf(s) \in ClaimKeys
      BY Zenon, <1>2 DEF v
    <3>3. claims'[KeyOf(s)] = claims[KeyOf(s)]
      BY Zenon, <1>1, <2>1, <2>2, <3>1, <3>2, FencedIsSafe
    <3> QED
      BY Zenon, <1>1, <1>4, <2>2, <3>3, FencedGrows
  <2> QED
    BY Zenon, <1>7, <2>1, <2>2
<1>21. CASE Tick
  <2>1. CASE w = v /\ v.phase = "idle" /\ ~Holding(v)
    BY Zenon, <1>1, <1>5, <2>1 DEF PageOK
  <2>2. CASE /\ v.phase = "sending" /\ w.phase = "sending"
             /\ w.held = Older(v.held) /\ w.age = Older(v.age)
             /\ w.id = v.id /\ w.page = v.page /\ w.attempts = v.attempts
             /\ w.guarded = v.guarded
    <3>1. Holding(v) /\ Holding(w) /\ rows' = rows /\ AgeClaims
      BY Zenon, <1>21, <2>2 DEF Holding, Tick
    <3>2. /\ v.age \in Ages /\ v.held \in Ages /\ v.held \in Nat /\ HTTPTimeout \in Nat
          /\ AgeCap \in Nat /\ HTTPTimeout < AgeCap /\ ClaimTTL \in Nat /\ ClaimTTL < AgeCap
      BY Zenon, <1>1, DrainFields, WorkerBoundsAssumption, ClaimBoundsAssumption
    <3>3. v.age <= w.age /\ (~Outdated(v) => w.age = v.age + 1)
      BY <1>4, <2>2, <3>2 DEF Outdated, Older, Ages
    <3>4. ASSUME w.id \notin exposed' PROVE HeldOK(w, rows')
      <4>1. HeldOK(v, rows)
        BY Zenon, <1>3, <2>2, <3>1, <3>4 DEF v
      <4>2. exposed' = exposed \cup
               {worker[n].id : n \in {k \in Nodes : /\ worker[k].phase = "sending"
                                                  /\ worker[k].held >= HTTPTimeout}}
        BY Zenon, <1>21 DEF Tick
      <4>3. ~(v.held >= HTTPTimeout)
        BY Zenon, <2>2, <3>4, <4>2 DEF v
      <4>4. w.held <= HTTPTimeout
        BY <2>2, <3>2, <4>3 DEF Older
      <4> QED
        BY Zenon, <2>2, <3>1, <4>1, <4>4 DEF HeldOK, StillOpen
    <3>5. ASSUME NEW s \in v.page, ~Outdated(v), Fenced(s, v, claims)
          PROVE  Fenced(s, w, claims')
      <4>1. PICK a \in Nodes, age \in Ages :
               /\ claims[KeyOf(s)] = [by |-> a, ttl |-> ClaimTTL, age |-> age]
               /\ age <= HTTPTimeout + v.age
        BY Zenon, <3>5 DEF Fenced
      <4>2. KeyOf(s) \in ClaimKeys
        BY Zenon, <1>2 DEF v
      <4>3. age < AgeCap
        BY Zenon, <1>1, <3>5, <4>1, <4>2, FencedIsSafe
      <4>4. age + 1 \in Ages /\ age + 1 <= HTTPTimeout + w.age
        BY <1>4, <3>2, <3>3, <3>5, <4>1, <4>3 DEF Ages
      <4>5. claims'[KeyOf(s)] = [by |-> a, ttl |-> ClaimTTL, age |-> age + 1]
        BY Zenon, <1>1, <3>1, <3>2, <4>1, <4>2, <4>3, AgeFacts
      <4> QED
        BY Zenon, <4>4, <4>5 DEF Fenced
    <3> QED
      BY Zenon, <1>1, <2>2, <3>1, <3>3, <3>4, <3>5, PageKept DEF w
  <2> QED
    BY Zenon, <1>21, <2>1, <2>2, TickFacts DEF v, w
<1>22. ASSUME NEW n \in Nodes, NEW written \in BOOLEAN, Send(n, written) PROVE Goal
  BY Zenon, <1>17, <1>22 DEF Send, Stamped, Holding
<1>23. ASSUME NEW n \in Nodes, NEW outcome, NotAdmitted(n, outcome) \/ Deliver(n, outcome)
       PROVE  Goal
  BY Zenon, <1>17, <1>23 DEF NotAdmitted, Deliver, Holding
<1>24. CASE UNCHANGED vars
  BY Zenon, <1>8, <1>24 DEF vars, v, w
<1>25. ASSUME NEW n \in Nodes, Work(n) PROVE Goal
  BY ZenonT(30), <1>11, <1>12, <1>16, <1>18, <1>22, <1>23, <1>25 DEF Work
<1> QED
  BY ZenonT(30), <1>11, <1>16, <1>18, <1>19, <1>20, <1>21, <1>22, <1>24, <1>25 DEF Next

(* What no step may do to a row: NoStaleStamp, of one step.                *)
SettledKept ==
    \A r \in Requests \ exposed :
        /\ rows[r].status = "sent" => rows'[r].status = "sent"
        /\ rows'[r].attempts >= rows[r].attempts

(* An outcome keeps the attempts of an open row, or adds one.              *)
LEMMA OutcomeOf ==
    ASSUME NEW w \in Drains, rows[w.id] \in RowsOf, rows[w.id].attempts = w.attempts
    PROVE  /\ Outcome(w).attempts >= w.attempts
           /\ w.outcome = "ok" => Outcome(w).status = "sent"
           /\ w.outcome \in {"permanent", "retryable"} => Outcome(w).attempts > w.attempts
<1> DEFINE row == rows[w.id]
           failures == w.attempts + 1
<1>1. /\ w.attempts \in Nat /\ w.attempts \in AttemptCounts /\ failures > w.attempts
      /\ failures \in Nat /\ row.attempts >= w.attempts
  BY DrainFields, WorkerBoundsAssumption DEF AttemptCounts
<1>2. row \in RowsOf /\ row.attempts = w.attempts
  OBVIOUS
<1> HIDE DEF row, failures
<1>3. CASE w.outcome = "ok"
  <2> DEFINE t == [row EXCEPT !.status = "sent"]
  <2>1. Outcome(w) = t
    BY Zenon, <1>3 DEF Outcome, row
  <2>2. t.attempts = row.attempts /\ t.status = "sent"
    BY Zenon, <1>2, RowWithStatus DEF Statuses
  <2> HIDE DEF t
  <2> QED
    BY Zenon, <1>1, <1>3, <2>1, <2>2
<1>4. CASE w.outcome = "refused"
  <2> DEFINE t == [row EXCEPT !.status = "failed", !.attempts = w.attempts]
  <2>1. Outcome(w) = t
    BY Zenon, <1>4 DEF Outcome, row
  <2>2. t.attempts = w.attempts
    BY Zenon, <1>1, <1>2, RowFailed
  <2> HIDE DEF t
  <2> QED
    BY Zenon, <1>1, <1>2, <1>4, <2>1, <2>2
<1>5. CASE w.outcome \notin {"ok", "refused"}
  <2>1. \/ Outcome(w) = [row EXCEPT !.status = "failed", !.attempts = failures]
        \/ Outcome(w) = [status |-> "retrying", attempts |-> failures, due |-> FALSE]
    BY Zenon, <1>5 DEF Outcome, row, failures
  <2>2. [row EXCEPT !.status = "failed", !.attempts = failures].attempts = failures
    BY Zenon, <1>2 DEF RowsOf
  <2>3. [status |-> "retrying", attempts |-> failures, due |-> FALSE].attempts = failures
    BY Zenon
  <2>4. Outcome(w).attempts = failures
    BY Zenon, <2>1, <2>2, <2>3
  <2> QED
    BY <1>1, <1>5, <2>4
<1> QED
  BY Zenon, <1>3, <1>4, <1>5

LEMMA SettledStep ==
    ASSUME TypeOK, HolderInv, PageInv, [Next]_vars
    PROVE  SettledKept
<1>1. rows \in [Requests -> RowsOf] /\ \A r \in Requests : rows[r].attempts >= rows[r].attempts
  <2>1. rows \in [Requests -> RowsOf]
    BY Zenon DEF TypeOK, RowsOf
  <2>2. \A r \in Requests : rows[r].attempts \in Nat
    BY Zenon, <2>1, RowFields
  <2> QED
    BY <2>1, <2>2
<1>2. CASE rows' = rows
  BY Zenon, <1>1, <1>2 DEF SettledKept
<1>3. ASSUME NEW r \in Requests, NEW row, rows' = [rows EXCEPT ![r] = row],
             r \notin exposed => rows[r].status # "sent" /\ row.attempts >= rows[r].attempts
      PROVE  SettledKept
  BY Zenon, <1>1, <1>3, RowChange DEF SettledKept
<1>4. ASSUME NEW r \in Requests, NEW status \in Statuses,
             r \notin exposed => rows[r].status # "sent",
             rows' = [rows EXCEPT ![r] = [rows[r] EXCEPT !.status = status]]
      PROVE  SettledKept
  <2> DEFINE row == [rows[r] EXCEPT !.status = status]
  <2>1. row.attempts >= rows[r].attempts
    BY Zenon, <1>1, RowWithStatus
  <2> HIDE DEF row
  <2>2. rows' = [rows EXCEPT ![r] = row]
    BY Zenon, <1>4 DEF row
  <2> QED
    BY Zenon, <1>3, <1>4, <2>1, <2>2
<1>5. ASSUME NEW n \in Nodes, Holding(worker[n])
      PROVE  /\ worker[n] \in Drains /\ worker[n].id \in Requests
             /\ worker[n].id \notin exposed =>
                   /\ rows[worker[n].id].status # "sent"
                   /\ rows[worker[n].id].attempts = worker[n].attempts
  BY Zenon, <1>5 DEF TypeOK, HolderInv, HolderOf, PageInv, PageOK, HeldOK, StillOpen
<1>6. ASSUME NEW n \in Nodes, NEW written \in BOOLEAN, Send(n, written) PROVE SettledKept
  <2>1. /\ Holding(worker[n])
        /\ \/ rows' = rows
           \/ rows' = [rows EXCEPT ![worker[n].id] = [rows[worker[n].id] EXCEPT !.status = "sending"]]
    BY Zenon, <1>6 DEF Send, Stamped, Holding
  <2> QED
    BY Zenon, <1>2, <1>4, <1>5, <2>1 DEF Statuses
<1>7. ASSUME NEW n \in Nodes, NEW written \in BOOLEAN, StampOutcome(n, written) PROVE SettledKept
  <2>1. /\ Holding(worker[n])
        /\ rows' = rows \/ rows' = [rows EXCEPT ![worker[n].id] = Outcome(worker[n])]
    BY Zenon, <1>7 DEF StampOutcome, Stamped, Holding
  <2>2. worker[n].id \notin exposed => Outcome(worker[n]).attempts >= rows[worker[n].id].attempts
    BY Zenon, <1>1, <1>5, <2>1, OutcomeOf
  <2> QED
    BY Zenon, <1>2, <1>3, <1>5, <2>1, <2>2
<1>8. ASSUME NEW r \in Requests,
             BackoffElapses(r) \/ Requeue(r) \/ \E n \in Nodes : Stage(n, r)
      PROVE  SettledKept
  <2>1. CASE BackoffElapses(r)
    <3> DEFINE row == [rows[r] EXCEPT !.due = TRUE]
    <3>1. rows' = [rows EXCEPT ![r] = row] /\ rows[r].status # "sent"
      BY Zenon, <2>1 DEF BackoffElapses
    <3>2. row.attempts >= rows[r].attempts
      BY Zenon, <1>1 DEF RowsOf
    <3> HIDE DEF row
    <3> QED
      BY Zenon, <1>3, <3>1, <3>2
  <2>2. CASE Requeue(r) \/ \E n \in Nodes : Stage(n, r)
    BY Zenon, <1>4, <2>2 DEF Requeue, Stage, Statuses
  <2> QED
    BY Zenon, <1>8, <2>1, <2>2
<1>9. ASSUME NEW n \in Nodes, Work(n) PROVE SettledKept
  BY ZenonT(30), <1>2, <1>6, <1>7, <1>9
  DEF Work, StartDrain, Scan, EndPage, Skip, Claim, NotAdmitted, Deliver
<1> QED
  BY ZenonT(30), <1>2, <1>6, <1>7, <1>8, <1>9
  DEF Next, vars, ScanFails, ClaimErrs, Crash, Prune, Tick

LEMMA PagesInductive == Spec => [](IInv /\ PageInv)
<1>1. Init => PageInv
  <2> SUFFICES ASSUME Init, NEW n \in Nodes PROVE PageOK(worker[n], rows, claims, exposed)
    BY Zenon DEF PageInv
  <2>1. worker[n].page = {} /\ ~Holding(worker[n])
    BY Zenon, RestingDrain DEF Init, Empty
  <2> QED
    BY Zenon, <2>1 DEF PageOK
<1>2. IInv /\ PageInv /\ [Next]_vars /\ IInv' => PageInv'
  BY Zenon, PageStep DEF IInv
<1> QED
  BY <1>1, <1>2, Inductive, PTL DEF Spec

(* Of every request that a lease covered, a sent row stays sent and no     *)
(* stamp takes back an attempt, although processRow acts on a page it read *)
(* earlier and stamps whatever the row is by then: for every page size,    *)
(* lease and timeout, crashes, failed stamps, unanswered claims, requeues, *)
(* takeovers and the prune included (processRow, recordFailure,            *)
(* stampFailed, stamp).                                                    *)
THEOREM NoStaleStamps == Spec => NoStaleStamp
<1>1. IInv /\ PageInv /\ [Next]_vars => SettledKept
  BY Zenon, SettledStep DEF IInv
<1> QED
  BY <1>1, PagesInductive, PTL DEF Spec, NoStaleStamp, SettledKept

-----------------------------------------------------------------------------
(* Deliveries begun                                                        *)

(* A delivery of k is over: its row is sent, or charged for it.            *)
Ran(k) == rows[k[1]].status = "sent" \/ rows[k[1]].attempts > k[2]

(* n delivers k, or has and still has to stamp the outcome.                *)
RunningOn(n, k) ==
    /\ KeyOf(worker[n]) = k
    /\ \/ worker[n].phase = "sending"
       \/ worker[n].phase = "stamp" /\ worker[n].outcome \in {"ok", "permanent", "retryable"}

(* Undisturbed, an attempt whose delivery has begun, once, is still being  *)
(* delivered or is settled.                                                *)
RunOnce(k) ==
    \/ runs[k] = 0
    \/ runs[k] = 1 /\ (Ran(k) \/ \E n \in Nodes : RunningOn(n, k))

RunsInv ==
    spent.crashes = 0 /\ spent.stamps = 0
        => \A k \in ClaimKeys : k[1] \notin exposed => RunOnce(k)

LEMMA RanStays ==
    ASSUME TypeOK, TypeOK', SettledKept, NEW k \in ClaimKeys, k[1] \notin exposed, Ran(k)
    PROVE  Ran(k)'
<1>1. k[1] \in Requests /\ k[2] \in AttemptCounts
  BY KeysAssumption
<1>2. rows[k[1]] \in RowsOf /\ rows'[k[1]] \in RowsOf
  BY Zenon, <1>1 DEF TypeOK, RowsOf
<1>3. rows[k[1]].attempts \in Nat /\ rows'[k[1]].attempts \in Nat /\ k[2] \in Nat
  BY <1>1, <1>2, RowFields, WorkerBoundsAssumption DEF AttemptCounts
<1>4. /\ rows[k[1]].status = "sent" => rows'[k[1]].status = "sent"
      /\ rows'[k[1]].attempts >= rows[k[1]].attempts
  BY Zenon, <1>1 DEF SettledKept
<1>5. CASE rows[k[1]].attempts > k[2]
  <2>1. rows'[k[1]].attempts > k[2]
    BY <1>3, <1>4, <1>5
  <2> QED
    BY Zenon, <2>1 DEF Ran
<1> QED
  BY Zenon, <1>4, <1>5 DEF Ran

LEMMA DeliverFacts ==
    ASSUME TypeOK, NEW n \in Nodes, NEW outcome, Deliver(n, outcome)
    PROVE  /\ Moves(n) /\ SameHand(worker[n], worker'[n]) /\ worker'[n].phase = "stamp"
           /\ worker'[n].outcome \in {"ok", "permanent", "retryable"}
<1>1. /\ worker[n] \in Drains /\ outcome \in {"ok", "permanent", "retryable"}
      /\ worker' = [worker EXCEPT ![n].phase = "stamp", ![n].outcome = outcome]
  BY Zenon DEF TypeOK, Deliver
<1>2. Moves(n) /\ SameHand(worker[n], worker'[n]) /\ worker'[n].phase = "stamp"
  BY Zenon, <1>1, PhaseFacts
<1>3. worker'[n] = [worker[n] EXCEPT !.phase = "stamp", !.outcome = outcome]
  BY Zenon, <1>1 DEF TypeOK
<1>4. worker'[n].outcome = outcome
  BY Zenon, <1>1, <1>3 DEF Drains
<1> QED
  BY Zenon, <1>1, <1>2, <1>4

(* Neither a crash nor a failed stamp is ever forgotten.                   *)
LEMMA Undisturbed ==
    ASSUME TypeOK, [Next]_vars, spent'.crashes = 0, spent'.stamps = 0
    PROVE  /\ spent.crashes = 0 /\ spent.stamps = 0
           /\ \A n \in Nodes : ~Crash(n) /\ ~Send(n, FALSE) /\ ~StampOutcome(n, FALSE)
<1>1. spent \in [requeues : 0 .. MaxRequeues, crashes : 0 .. MaxCrashes,
                 stamps : 0 .. MaxStampErrors, claims : 0 .. MaxClaimErrors]
  BY Zenon DEF TypeOK
<1>2. spent.crashes \in Nat /\ spent.stamps \in Nat
  BY <1>1
<1>3. ASSUME NEW n \in Nodes, Crash(n) PROVE FALSE
  <2>1. spent'.crashes = spent.crashes + 1
    BY <1>1, <1>3 DEF Crash
  <2> QED
    BY <1>2, <2>1
<1>4. ASSUME NEW n \in Nodes, Send(n, FALSE) \/ StampOutcome(n, FALSE) PROVE FALSE
  <2>1. spent' = [spent EXCEPT !.stamps = @ + 1]
    BY Zenon, <1>4 DEF Send, StampOutcome, Stamped
  <2>2. spent'.stamps = spent.stamps + 1
    BY <1>1, <2>1
  <2> QED
    BY <1>2, <2>2
<1>5. ASSUME NEW r \in Requests, Requeue(r)
      PROVE  spent'.crashes = spent.crashes /\ spent'.stamps = spent.stamps
  BY Zenon, <1>1, <1>5 DEF Requeue
<1>6. ASSUME NEW n \in Nodes, NEW s, ClaimErrs(n, s)
      PROVE  spent'.crashes = spent.crashes /\ spent'.stamps = spent.stamps
  BY Zenon, <1>1, <1>6 DEF ClaimErrs
<1>7. ASSUME NEW n \in Nodes, Work(n) PROVE spent' = spent
  BY ZenonT(30), <1>7
  DEF Work, StartDrain, Scan, EndPage, Skip, Claim, NotAdmitted, Send, Deliver,
      StampOutcome, Stamped
<1>8. spent'.crashes = spent.crashes /\ spent'.stamps = spent.stamps
  BY ZenonT(30), <1>3, <1>4, <1>5, <1>6, <1>7
  DEF Next, vars, Stage, BackoffElapses, ScanFails, Prune, Tick
<1> QED
  BY Zenon, <1>3, <1>4, <1>8

LEMMA RunsStep ==
    ASSUME TypeOK, HolderInv, PageInv, RunsInv, [Next]_vars, TypeOK'
    PROVE  RunsInv'
<1> SUFFICES ASSUME spent'.crashes = 0, spent'.stamps = 0,
                    NEW k \in ClaimKeys, k[1] \notin exposed'
             PROVE  RunOnce(k)'
  BY Zenon DEF RunsInv
<1> DEFINE Goal == RunOnce(k)'
<1>0. SettledKept /\ k[1] \notin exposed
  BY Zenon, SettledStep, ExposedStays
<1>1. /\ RunOnce(k) /\ worker \in [Nodes -> Drains] /\ rows \in [Requests -> RowsOf]
      /\ \A n \in Nodes : ~Crash(n) /\ ~Send(n, FALSE) /\ ~StampOutcome(n, FALSE)
  BY Zenon, <1>0, Undisturbed DEF RunsInv, TypeOK, RowsOf
<1>2. ASSUME Ran(k) PROVE Ran(k)'
  BY Zenon, <1>0, <1>2, RanStays
<1>3. ASSUME NEW n \in Nodes, Holding(worker[n]), KeyOf(worker[n]) = k
      PROVE  /\ worker[n].id \in Requests /\ StillOpen(worker[n], rows)
             /\ worker[n].attempts \in Nat /\ k[1] = worker[n].id /\ k[2] = worker[n].attempts
  <2>1. worker[n].attempts \in Nat
    BY <1>1, DrainFields, WorkerBoundsAssumption DEF AttemptCounts
  <2>2. k[1] = worker[n].id /\ k[2] = worker[n].attempts
    BY Zenon, <1>3 DEF KeyOf
  <2> QED
    BY Zenon, <1>0, <1>3, <2>1, <2>2 DEF HolderInv, HolderOf, PageInv, PageOK, HeldOK
<1>4. ASSUME runs' = runs, \A n \in Nodes : RunningOn(n, k) => RunningOn(n, k)' \/ Ran(k)'
      PROVE  Goal
  BY Zenon, <1>1, <1>2, <1>4 DEF RunOnce
<1>5. ASSUME NEW n \in Nodes, Others(n), runs' = runs,
             RunningOn(n, k) => RunningOn(n, k)' \/ Ran(k)'
      PROVE  Goal
  BY Zenon, <1>4, <1>5 DEF Others, RunningOn, KeyOf
(* A replica that delivers nothing may move as it likes.                   *)
<1>6. ASSUME NEW n \in Nodes, Others(n), runs' = runs,
             worker[n].phase \notin {"sending", "stamp"}
      PROVE  Goal
  BY Zenon, <1>5, <1>6 DEF RunningOn
<1>7. ASSUME NEW n \in Nodes, StartDrain(n) \/ ScanFails(n) \/ EndPage(n) PROVE Goal
  <2>1. Others(n) /\ runs' = runs /\ worker[n].phase \notin {"sending", "stamp"}
    BY Zenon, <1>7, RestFacts DEF Moves, StartDrain, ScanFails, EndPage
  <2> QED
    BY Zenon, <1>6, <2>1
<1>8. ASSUME NEW n \in Nodes, Scan(n) PROVE Goal
  <2>1. Others(n) /\ runs' = runs /\ worker[n].phase \notin {"sending", "stamp"}
    BY Zenon, <1>8, ScanFacts DEF Moves, Scan
  <2> QED
    BY Zenon, <1>6, <2>1
<1>9. ASSUME NEW n \in Nodes, NEW s \in worker[n].page, Skip(n, s) \/ Claim(n, s) \/ ClaimErrs(n, s)
      PROVE  Goal
  <2>1. worker[n].phase \notin {"sending", "stamp"} /\ runs' = runs
    BY Zenon, <1>9 DEF Skip, Claim, ClaimErrs, Turn
  <2>2. s \in Snapshots
    BY Zenon, <1>1, DrainFields
  <2>3. PassOver(n, s) \/ \E guarded \in BOOLEAN : InHand(n, s, guarded)
    BY Zenon, <1>9 DEF Skip, Claim, ClaimErrs
  <2>4. Others(n)
    BY Zenon, <2>2, <2>3, PassOverFacts, InHandFacts DEF Moves
  <2> QED
    BY Zenon, <1>6, <2>1, <2>4
<1>10. ASSUME NEW n \in Nodes, NEW outcome, NotAdmitted(n, outcome) PROVE Goal
  <2>1. worker[n].phase \notin {"sending", "stamp"} /\ runs' = runs
    BY Zenon, <1>10 DEF NotAdmitted
  <2>2. Others(n)
    BY ZenonT(30), <1>10, PhaseFacts DEF Moves, NotAdmitted
  <2> QED
    BY Zenon, <1>6, <2>1, <2>2
<1>11. ASSUME NEW n \in Nodes, NEW outcome, Deliver(n, outcome) PROVE Goal
  <2>1. Others(n) /\ runs' = runs /\ (RunningOn(n, k) => RunningOn(n, k)')
    BY Zenon, <1>11, DeliverFacts DEF Moves, Deliver, SameHand, RunningOn, KeyOf
  <2> QED
    BY Zenon, <1>5, <2>1
<1>12. ASSUME NEW n \in Nodes, Send(n, TRUE) PROVE Goal
  <2> DEFINE j == KeyOf(worker[n])
  <2>1. /\ worker[n].phase = "claimed" /\ Holding(worker[n])
        /\ worker' = [worker EXCEPT ![n].phase = "sending"]
        /\ runs' = [runs EXCEPT ![j] = IF @ < 2 THEN @ + 1 ELSE @]
    BY Zenon, <1>12 DEF Send, KeyOf, Holding
  <2>2. Others(n) /\ worker'[n].phase = "sending" /\ SameHand(worker[n], worker'[n])
    BY ZenonT(30), <2>1, PhaseFacts DEF Moves
  <2>3. runs \in [ClaimKeys -> RunCounts]
    BY Zenon DEF TypeOK
  <2>4. CASE k = j
    <3>1. ~Ran(k)
      <4>1. /\ rows[k[1]].status # "sent" /\ rows[k[1]].attempts = k[2] /\ k[2] \in Nat
        BY Zenon, <1>3, <2>1, <2>4 DEF StillOpen
      <4> QED
        BY <4>1 DEF Ran
    <3>2. ASSUME NEW m \in Nodes, RunningOn(m, k) PROVE FALSE
      <4>1. Holding(worker[m]) /\ worker[m].id = worker[n].id
        <5>1. Holding(worker[m]) /\ KeyOf(worker[m]) = KeyOf(worker[n])
          BY Zenon, <2>4, <3>2 DEF RunningOn, Holding
        <5> QED
          BY <5>1 DEF KeyOf
      <4>2. m = n
        BY Zenon, <1>0, <1>3, <2>1, <2>4, <4>1, OneInHand
      <4> QED
        BY Zenon, <2>1, <3>2, <4>2 DEF RunningOn
    <3>3. runs[k] = 0
      BY Zenon, <1>1, <3>1, <3>2 DEF RunOnce
    <3>4. runs'[k] = 1
      BY <2>1, <2>3, <2>4, <3>3
    <3>5. RunningOn(n, k)'
      BY Zenon, <2>2, <2>4 DEF RunningOn, SameHand, KeyOf
    <3> QED
      BY Zenon, <3>4, <3>5 DEF RunOnce
  <2>5. CASE k # j
    <3>1. runs'[k] = runs[k]
      BY Zenon, <2>1, <2>3, <2>5
    <3>2. ASSUME NEW m \in Nodes, RunningOn(m, k) PROVE RunningOn(m, k)'
      BY Zenon, <2>1, <2>2, <3>2 DEF Others, RunningOn, KeyOf
    <3> QED
      BY Zenon, <1>1, <1>2, <3>1, <3>2 DEF RunOnce
  <2> QED
    BY Zenon, <2>4, <2>5
<1>13. ASSUME NEW n \in Nodes, StampOutcome(n, TRUE) PROVE Goal
  <2>1. /\ Holding(worker[n]) /\ runs' = runs
        /\ worker' = [worker EXCEPT ![n] = NextRow(n)]
        /\ rows' = [rows EXCEPT ![worker[n].id] = Outcome(worker[n])]
    BY Zenon, <1>13 DEF StampOutcome, Stamped, Holding
  <2>2. Others(n)
    BY Zenon, <2>1, NextRowFacts DEF Moves
  <2>3. ASSUME RunningOn(n, k) PROVE Ran(k)'
    <3>1. k[1] = worker[n].id /\ k[2] = worker[n].attempts
      BY Zenon, <2>3 DEF RunningOn, KeyOf
    <3>2. /\ worker[n].id \in Requests /\ worker[n] \in Drains
          /\ rows[worker[n].id] \in RowsOf /\ rows[worker[n].id].attempts = worker[n].attempts
      BY Zenon, <1>1, <1>3, <2>1, <2>3 DEF StillOpen, RunningOn
    <3>3. rows'[worker[n].id] = Outcome(worker[n])
      BY Zenon, <2>1, <3>2, RowChange
    <3>4. worker[n].outcome \in {"ok", "permanent", "retryable"}
      BY Zenon, <1>13, <2>3 DEF RunningOn, StampOutcome
    <3>5. Outcome(worker[n]).status = "sent" \/ Outcome(worker[n]).attempts > worker[n].attempts
      BY Zenon, <3>2, <3>4, OutcomeOf
    <3>6. rows'[k[1]] = Outcome(worker[n])
      BY Zenon, <3>1, <3>3
    <3>7. Outcome(worker[n]).status = "sent" \/ Outcome(worker[n]).attempts > k[2]
      BY Zenon, <3>1, <3>5
    <3> QED
      BY <3>6, <3>7 DEF Ran
  <2> QED
    BY Zenon, <1>5, <2>1, <2>2, <2>3
<1>14. CASE Tick
  <2>1. runs' = runs
    BY Zenon, <1>14 DEF Tick
  <2>2. ASSUME NEW n \in Nodes, RunningOn(n, k) PROVE RunningOn(n, k)'
    <3>1. CASE worker'[n] = worker[n] /\ ~Holding(worker[n])
      BY Zenon, <2>2, <3>1 DEF RunningOn, Holding
    <3>2. CASE /\ worker'[n].phase = "sending" /\ worker'[n].id = worker[n].id
               /\ worker'[n].attempts = worker[n].attempts
      BY Zenon, <2>2, <3>2 DEF RunningOn, KeyOf
    <3> QED
      BY Zenon, <1>14, <3>1, <3>2, TickFacts
  <2> QED
    BY Zenon, <1>4, <2>1, <2>2
<1>15. CASE worker' = worker /\ runs' = runs
  BY Zenon, <1>4, <1>15 DEF RunningOn
<1>16. ASSUME NEW n \in Nodes, Work(n) PROVE Goal
  BY ZenonT(30), <1>7, <1>8, <1>9, <1>10, <1>11, <1>12, <1>13, <1>16 DEF Work
<1> QED
  BY ZenonT(30), <1>1, <1>7, <1>9, <1>14, <1>15, <1>16
  DEF Next, vars, Stage, BackoffElapses, Requeue, Prune

(* As long as no replica died and no stamp failed, the delivery of an      *)
(* attempt begins once, on one replica, for every request that a lease     *)
(* covered: whatever the page size, the lease and the timeout, and whether *)
(* or not other claims went unanswered (deliveryClaimName, processRow).    *)
THEOREM OneRun == Spec => []OneRunPerAttempt
<1>1. Init => RunsInv
  BY Zenon DEF Init, RunsInv, RunOnce
<1>2. IInv /\ PageInv /\ RunsInv /\ [Next]_vars /\ IInv' => RunsInv'
  BY Zenon, RunsStep DEF IInv
<1>3. RunsInv => OneRunPerAttempt
  <2>1. \A k \in ClaimKeys : RunOnce(k) => runs[k] <= 1
    BY DEF RunOnce
  <2> QED
    BY Zenon, <2>1 DEF RunsInv, OneRunPerAttempt
<1> QED
  BY <1>1, <1>2, <1>3, PagesInductive, PTL DEF Spec

-----------------------------------------------------------------------------
(* Requests left behind                                                    *)

(* n delivers r, or has and still has to stamp the outcome.                *)
AtIt(n, r) == worker[n].id = r /\ worker[n].phase \in {"sending", "stamp"}

Mishaps == spent.crashes + spent.stamps

LEMMA StrandedFinite ==
    /\ Stranded \subseteq Requests /\ IsFiniteSet(Stranded) /\ Cardinality(Stranded) \in Nat
    /\ IsFiniteSet(Stranded') /\ Cardinality(Stranded') \in Nat
<1>1. Stranded \subseteq Requests /\ Stranded' \subseteq Requests
  BY Zenon DEF Stranded
<1>2. IsFiniteSet(Requests)
  BY FS_Interval, WorkerBoundsAssumption DEF Requests
<1> QED
  BY Zenon, <1>1, <1>2, FS_Subset, FS_CardinalityType

(* What a step does to no other request than those of X leaves no other    *)
(* one behind.                                                             *)
LEMMA StrandedWithin ==
    ASSUME NEW X,
           \A r \in Requests \ X : rows'[r].status = "sending" => rows[r].status = "sending",
           \A n \in Nodes, r \in Requests \ X : AtIt(n, r) => AtIt(n, r)'
    PROVE  Stranded' \subseteq Stranded \cup X
<1> SUFFICES ASSUME NEW r \in Stranded', r \notin X PROVE r \in Stranded
  BY Zenon
<1>1. /\ r \in Requests /\ rows'[r].status = "sending"
      /\ \A n \in Nodes : ~AtIt(n, r)'
  BY Zenon DEF Stranded, AtIt
<1>2. rows[r].status = "sending" /\ \A n \in Nodes : ~AtIt(n, r)
  BY Zenon, <1>1
<1> QED
  BY Zenon, <1>1, <1>2 DEF Stranded, AtIt

LEMMA StrandedNoMore ==
    ASSUME StrandedBounded, Mishaps \in Nat, Mishaps' \in Nat,
           Stranded' \subseteq Stranded, Mishaps <= Mishaps'
    PROVE  StrandedBounded'
<1>1. Cardinality(Stranded') <= Cardinality(Stranded)
  BY Zenon, StrandedFinite, FS_Subset
<1>2. Cardinality(Stranded) <= Mishaps
  BY Zenon DEF StrandedBounded, Mishaps
<1>3. Cardinality(Stranded') <= Mishaps'
  BY <1>1, <1>2, StrandedFinite
<1> QED
  BY Zenon, <1>3 DEF StrandedBounded, Mishaps

LEMMA StrandedOneMore ==
    ASSUME StrandedBounded, Mishaps \in Nat, NEW x,
           Stranded' \subseteq Stranded \cup {x}, Mishaps' = Mishaps + 1
    PROVE  StrandedBounded'
<1>1. /\ IsFiniteSet(Stranded \cup {x})
      /\ Cardinality(Stranded \cup {x}) =
            IF x \in Stranded THEN Cardinality(Stranded) ELSE Cardinality(Stranded) + 1
  BY Zenon, StrandedFinite, FS_AddElement
<1>2. Cardinality(Stranded') <= Cardinality(Stranded \cup {x})
  BY Zenon, <1>1, FS_Subset
<1>3. Cardinality(Stranded) <= Mishaps
  BY Zenon DEF StrandedBounded, Mishaps
<1>4. Cardinality(Stranded') <= Mishaps'
  BY <1>1, <1>2, <1>3, StrandedFinite
<1> QED
  BY Zenon, <1>4 DEF StrandedBounded, Mishaps

(* No outcome leaves a row as it was during the delivery.                  *)
LEMMA OutcomeSettles ==
    ASSUME NEW w \in Drains, rows[w.id] \in RowsOf
    PROVE  Outcome(w).status # "sending"
<1> DEFINE row == rows[w.id]
           failures == w.attempts + 1
<1> HIDE DEF row, failures
<1>1. row \in RowsOf
  BY Zenon DEF row
<1>2. \/ Outcome(w) = [row EXCEPT !.status = "sent"]
      \/ Outcome(w) = [row EXCEPT !.status = "failed", !.attempts = w.attempts]
      \/ Outcome(w) = [row EXCEPT !.status = "failed", !.attempts = failures]
      \/ Outcome(w) = [status |-> "retrying", attempts |-> failures, due |-> FALSE]
  BY Zenon DEF Outcome, row, failures
<1>3. /\ [row EXCEPT !.status = "sent"].status = "sent"
      /\ [row EXCEPT !.status = "failed", !.attempts = w.attempts].status = "failed"
      /\ [row EXCEPT !.status = "failed", !.attempts = failures].status = "failed"
      /\ [status |-> "retrying", attempts |-> failures, due |-> FALSE].status = "retrying"
  BY Zenon, <1>1 DEF RowsOf
<1>4. Outcome(w).status \in {"sent", "failed", "retrying"}
  BY Zenon, <1>2, <1>3
<1> QED
  BY <1>4

LEMMA MishapsOf ==
    ASSUME TypeOK, [Next]_vars
    PROVE  /\ Mishaps \in Nat
           /\ (\E n \in Nodes : Crash(n) \/ Send(n, FALSE) \/ StampOutcome(n, FALSE))
                 => Mishaps' = Mishaps + 1
           /\ (\A n \in Nodes : ~Crash(n) /\ ~Send(n, FALSE) /\ ~StampOutcome(n, FALSE))
                 => Mishaps' = Mishaps
<1>1. spent \in [requeues : 0 .. MaxRequeues, crashes : 0 .. MaxCrashes,
                 stamps : 0 .. MaxStampErrors, claims : 0 .. MaxClaimErrors]
  BY Zenon DEF TypeOK
<1>2. spent.crashes \in Nat /\ spent.stamps \in Nat /\ Mishaps \in Nat
  BY <1>1 DEF Mishaps
<1>3. ASSUME NEW n \in Nodes, Crash(n) \/ Send(n, FALSE) \/ StampOutcome(n, FALSE)
      PROVE  Mishaps' = Mishaps + 1
  <2>1. \/ spent' = [spent EXCEPT !.crashes = @ + 1]
        \/ spent' = [spent EXCEPT !.stamps = @ + 1]
    BY Zenon, <1>3 DEF Crash, Send, StampOutcome, Stamped
  <2>2. \/ spent'.crashes = spent.crashes + 1 /\ spent'.stamps = spent.stamps
        \/ spent'.crashes = spent.crashes /\ spent'.stamps = spent.stamps + 1
    BY <1>1, <2>1
  <2> QED
    BY <1>2, <2>2 DEF Mishaps
<1>4. ASSUME \A n \in Nodes : ~Crash(n) /\ ~Send(n, FALSE) /\ ~StampOutcome(n, FALSE)
      PROVE  Mishaps' = Mishaps
  <2>1. ASSUME spent'.crashes = spent.crashes, spent'.stamps = spent.stamps
        PROVE  Mishaps' = Mishaps
    BY Zenon, <2>1 DEF Mishaps
  <2>2. ASSUME NEW r \in Requests, Requeue(r) PROVE Mishaps' = Mishaps
    BY Zenon, <1>1, <2>1, <2>2 DEF Requeue
  <2>3. ASSUME NEW n \in Nodes, NEW s, ClaimErrs(n, s) PROVE Mishaps' = Mishaps
    BY Zenon, <1>1, <2>1, <2>3 DEF ClaimErrs
  <2>4. ASSUME NEW n \in Nodes, Work(n) PROVE spent' = spent
    BY ZenonT(30), <2>4
    DEF Work, StartDrain, Scan, EndPage, Skip, Claim, NotAdmitted, Send, Deliver,
        StampOutcome, Stamped
  <2> QED
    BY ZenonT(30), <1>4, <2>1, <2>2, <2>3, <2>4
    DEF Next, vars, Stage, BackoffElapses, ScanFails, Prune, Tick
<1> QED
  BY Zenon, <1>2, <1>3, <1>4

LEMMA StrandedStep ==
    ASSUME TypeOK, HolderInv, StrandedBounded, [Next]_vars
    PROVE  StrandedBounded'
<1>1. worker \in [Nodes -> Drains] /\ rows \in [Requests -> RowsOf]
  BY Zenon DEF TypeOK, RowsOf
<1>2. Mishaps \in Nat /\ Mishaps' \in Nat /\ Mishaps <= Mishaps'
  <2>1. Mishaps \in Nat /\ (Mishaps' = Mishaps \/ Mishaps' = Mishaps + 1)
    BY Zenon, MishapsOf
  <2> QED
    BY <2>1
<1>3. ASSUME Stranded' \subseteq Stranded PROVE StrandedBounded'
  BY Zenon, <1>2, <1>3, StrandedNoMore
<1>4. ASSUME NEW n \in Nodes, Crash(n) \/ StampOutcome(n, FALSE), NEW x,
             Stranded' \subseteq Stranded \cup {x}
      PROVE  StrandedBounded'
  BY Zenon, <1>2, <1>4, MishapsOf, StrandedOneMore
<1>5. ASSUME NEW n \in Nodes, Others(n)
      PROVE  \A m \in Nodes, r \in Requests : m # n /\ AtIt(m, r) => AtIt(m, r)'
  BY Zenon, <1>5 DEF Others, AtIt
(* The rows stay, and n keeps what it is at.                               *)
<1>6. ASSUME NEW n \in Nodes, Others(n), rows' = rows,
             \A r \in Requests : AtIt(n, r) => AtIt(n, r)'
      PROVE  StrandedBounded'
  <2>1. Stranded' \subseteq Stranded \cup {}
    BY Zenon, <1>5, <1>6, StrandedWithin
  <2> QED
    BY Zenon, <1>3, <2>1
<1>7. ASSUME NEW n \in Nodes, Others(n), rows' = rows, worker[n].phase \notin {"sending", "stamp"}
      PROVE  StrandedBounded'
  BY Zenon, <1>6, <1>7 DEF AtIt
<1>8. ASSUME NEW n \in Nodes, StartDrain(n) \/ ScanFails(n) \/ EndPage(n) \/ Scan(n)
      PROVE  StrandedBounded'
  <2>1. Others(n)
    BY Zenon, <1>8, RestFacts, ScanFacts DEF Moves
  <2>2. rows' = rows /\ worker[n].phase \notin {"sending", "stamp"}
    BY Zenon, <1>8 DEF StartDrain, ScanFails, EndPage, Scan
  <2> QED
    BY Zenon, <1>7, <2>1, <2>2
<1>9. ASSUME NEW n \in Nodes, NEW s \in worker[n].page,
             Skip(n, s) \/ Claim(n, s) \/ ClaimErrs(n, s)
      PROVE  StrandedBounded'
  <2>1. worker[n].phase \notin {"sending", "stamp"} /\ rows' = rows
    BY Zenon, <1>9 DEF Skip, Claim, ClaimErrs, Turn
  <2>2. s \in Snapshots
    BY Zenon, <1>1, DrainFields
  <2>3. PassOver(n, s) \/ \E guarded \in BOOLEAN : InHand(n, s, guarded)
    BY Zenon, <1>9 DEF Skip, Claim, ClaimErrs
  <2>4. Others(n)
    BY Zenon, <2>2, <2>3, PassOverFacts, InHandFacts DEF Moves
  <2> QED
    BY Zenon, <1>7, <2>1, <2>4
<1>10. ASSUME NEW n \in Nodes, NEW phase \in {"sending", "stamp"},
              NEW outcome \in {"none", "ok", "permanent", "retryable", "refused"},
              \/ worker' = [worker EXCEPT ![n].phase = phase]
              \/ worker' = [worker EXCEPT ![n].phase = phase, ![n].outcome = outcome]
       PROVE  Others(n) /\ \A r : worker[n].id = r => AtIt(n, r)'
  <2>1. Others(n) /\ worker'[n].phase = phase /\ SameHand(worker[n], worker'[n])
    BY ZenonT(30), <1>10, PhaseFacts DEF Moves
  <2> QED
    BY Zenon, <2>1 DEF SameHand, AtIt
<1>11. ASSUME NEW n \in Nodes, NEW outcome, NotAdmitted(n, outcome) \/ Deliver(n, outcome)
       PROVE  StrandedBounded'
  <2>1. rows' = rows /\ Others(n) /\ \A r : worker[n].id = r => AtIt(n, r)'
    BY Zenon, <1>10, <1>11 DEF NotAdmitted, Deliver
  <2> QED
    BY Zenon, <1>6, <2>1 DEF AtIt
<1>12. ASSUME NEW n \in Nodes, NEW written \in BOOLEAN, Send(n, written) PROVE StrandedBounded'
  <2> PICK x : x = worker[n].id
    BY Zenon
  <2> DEFINE row == [rows[x] EXCEPT !.status = "sending"]
  <2>1. /\ worker[n].phase = "claimed" /\ worker' = [worker EXCEPT ![n].phase = "sending"]
        /\ rows' = rows \/ rows' = [rows EXCEPT ![x] = row]
    BY Zenon, <1>12 DEF Send, Stamped
  <2>2. Others(n) /\ AtIt(n, x)'
    BY Zenon, <1>10, <2>1
  <2>3. x \in Requests
    BY Zenon, <2>1 DEF HolderInv, HolderOf, Holding
  <2> HIDE DEF row
  <2>4. \A r \in Requests \ {x} : rows'[r] = rows[r]
    BY Zenon, <2>1, <2>3, RowChange
  <2>5. \A m \in Nodes, r \in Requests : AtIt(m, r) => AtIt(m, r)'
    <3>1. \A r : ~AtIt(n, r)
      BY <2>1 DEF AtIt
    <3> QED
      BY Zenon, <1>5, <2>2, <3>1
  <2>6. Stranded' \subseteq Stranded \cup {x}
    BY Zenon, <2>4, <2>5, StrandedWithin
  <2>7. x \notin Stranded'
    BY Zenon, <2>2 DEF Stranded, AtIt
  <2> QED
    BY Zenon, <1>3, <2>6, <2>7
<1>13. ASSUME NEW n \in Nodes, NEW x, x = worker[n].id, Others(n),
              \A r \in Requests \ {x} : rows'[r] = rows[r]
       PROVE  Stranded' \subseteq Stranded \cup {x}
  BY Zenon, <1>5, <1>13, StrandedWithin DEF AtIt
<1>14. ASSUME NEW n \in Nodes, NEW written \in BOOLEAN, StampOutcome(n, written)
       PROVE  StrandedBounded'
  <2> DEFINE x == worker[n].id
  <2>1. /\ Holding(worker[n]) /\ worker' = [worker EXCEPT ![n] = NextRow(n)]
        /\ IF written THEN rows' = [rows EXCEPT ![x] = Outcome(worker[n])] ELSE rows' = rows
    BY Zenon, <1>14 DEF StampOutcome, Stamped, Holding
  <2>2. Others(n)
    BY Zenon, <2>1, NextRowFacts DEF Moves
  <2>3. x \in Requests
    BY Zenon, <2>1 DEF HolderInv, HolderOf
  <2>4. \A r \in Requests \ {x} : rows'[r] = rows[r]
    BY Zenon, <2>1, <2>3, RowChange
  <2>5. Stranded' \subseteq Stranded \cup {x}
    BY Zenon, <1>13, <2>2, <2>4
  <2>6. CASE written
    <3>1. rows'[x] = Outcome(worker[n])
      BY Zenon, <2>1, <2>3, <2>6, RowChange
    <3>2. Outcome(worker[n]).status # "sending"
      BY Zenon, <1>1, <2>3, OutcomeSettles
    <3>3. x \notin Stranded'
      BY Zenon, <3>1, <3>2 DEF Stranded
    <3> QED
      BY Zenon, <1>3, <2>5, <3>3
  <2>7. CASE ~written
    <3>1. StampOutcome(n, FALSE)
      BY Zenon, <1>14, <2>7
    <3> QED
      BY Zenon, <1>4, <2>5, <3>1
  <2> QED
    BY Zenon, <2>6, <2>7
<1>15. ASSUME NEW n \in Nodes, Crash(n) PROVE StrandedBounded'
  <2>1. Others(n) /\ rows' = rows
    BY Zenon, <1>15, RestFacts DEF Moves, Crash
  <2>2. Stranded' \subseteq Stranded \cup {worker[n].id}
    BY Zenon, <1>13, <2>1
  <2> QED
    BY Zenon, <1>4, <1>15, <2>2
<1>16. ASSUME NEW r \in Requests, NEW row, rows' = [rows EXCEPT ![r] = row],
              row.status # "sending", worker' = worker
       PROVE  StrandedBounded'
  <2>1. \A q \in Requests : rows'[q].status = "sending" => rows[q].status = "sending"
    BY Zenon, <1>16, RowChange
  <2>2. \A n \in Nodes, q \in Requests : AtIt(n, q) => AtIt(n, q)'
    BY Zenon, <1>16 DEF AtIt
  <2>3. Stranded' \subseteq Stranded \cup {}
    BY Zenon, <2>1, <2>2, StrandedWithin
  <2> QED
    BY Zenon, <1>3, <2>3
<1>17. ASSUME NEW r \in Requests,
              BackoffElapses(r) \/ Requeue(r) \/ \E n \in Nodes : Stage(n, r)
       PROVE  StrandedBounded'
  <2>1. CASE BackoffElapses(r)
    <3> DEFINE row == [rows[r] EXCEPT !.due = TRUE]
    <3>1. rows' = [rows EXCEPT ![r] = row] /\ worker' = worker /\ rows[r].status = "retrying"
      BY Zenon, <2>1 DEF BackoffElapses
    <3>2. row.status # "sending"
      BY Zenon, <1>1, <3>1, RowDue
    <3> HIDE DEF row
    <3> QED
      BY Zenon, <1>16, <3>1, <3>2
  <2>2. CASE Requeue(r) \/ \E n \in Nodes : Stage(n, r)
    <3> DEFINE row == [rows[r] EXCEPT !.status = "pending"]
    <3>1. rows' = [rows EXCEPT ![r] = row] /\ worker' = worker
      BY Zenon, <2>2 DEF Requeue, Stage
    <3>2. row.status = "pending"
      BY Zenon, <1>1, RowWithStatus DEF Statuses
    <3> HIDE DEF row
    <3> QED
      BY Zenon, <1>16, <3>1, <3>2
  <2> QED
    BY Zenon, <1>17, <2>1, <2>2
<1>18. CASE Tick
  <2>1. rows' = rows
    BY Zenon, <1>18 DEF Tick
  <2>2. ASSUME NEW n \in Nodes, NEW r \in Requests, AtIt(n, r) PROVE AtIt(n, r)'
    BY Zenon, <1>18, <2>2, TickFacts DEF AtIt, Holding
  <2>3. Stranded' \subseteq Stranded \cup {}
    BY Zenon, <2>1, <2>2, StrandedWithin
  <2> QED
    BY Zenon, <1>3, <2>3
<1>19. CASE worker' = worker /\ rows' = rows
  <2>1. Stranded' = Stranded
    BY Zenon, <1>19 DEF Stranded
  <2> QED
    BY Zenon, <1>3, <2>1
<1>20. ASSUME NEW n \in Nodes, Work(n) PROVE StrandedBounded'
  BY ZenonT(30), <1>8, <1>9, <1>11, <1>12, <1>14, <1>20 DEF Work
<1> QED
  BY ZenonT(30), <1>8, <1>9, <1>12, <1>14, <1>15, <1>17, <1>18, <1>19, <1>20
  DEF Next, vars, Prune

(* A crash or a failed stamp leaves one request at "sending" at most, and  *)
(* nothing else leaves any, for any sizing of pages, leases and timeouts:  *)
(* the gap that OutboundWedged shows is never wider (processRow, Stop,     *)
(* stamp).                                                                 *)
THEOREM FewStranded == Spec => []StrandedBounded
<1>1. Init => StrandedBounded
  <2> SUFFICES ASSUME Init PROVE StrandedBounded
    OBVIOUS
  <2>1. Stranded = {}
    BY Zenon DEF Init, Stranded
  <2>2. Cardinality(Stranded) = 0 /\ spent.crashes + spent.stamps = 0
    BY <2>1, FS_EmptySet DEF Init
  <2> QED
    BY <2>2 DEF StrandedBounded
<1>2. IInv /\ StrandedBounded /\ [Next]_vars => StrandedBounded'
  BY Zenon, StrandedStep DEF IInv
<1> QED
  BY <1>1, <1>2, Inductive, PTL DEF Spec

=============================================================================
