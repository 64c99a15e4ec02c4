----------------------------- MODULE ClaimTable -----------------------------
(***************************************************************************)
(* The claim ledger of the cluster (table automation_execution_claims) and *)
(* the guard in front of it (component/automations/cluster_guard.go): what *)
(* one claim, one release, one prune and one admission without a claim do. *)
(* ExecutionGuard.tla runs arbitrary callers against it, OutboundWorker.tla*)
(* the outbound delivery worker.                                           *)
(*                                                                         *)
(* Time is kept as ages, in ticks.  claimed_at is the row's age;           *)
(* expires_at < now() is age > ttl, where a ttl of 0 stands for a NULL     *)
(* expires_at (a claim without lease).  Past AgeCap every comparison the   *)
(* code makes has the same answer, so ages stop there.                     *)
(***************************************************************************)
EXTENDS Naturals

CONSTANTS
    Nodes,             \* replicas, by claimed_by
    ClaimKeys,         \* (automation_name, dedup_key) pairs
    NoClaim,           \* "no row"
    NoWindow,          \* a windowStart never set
    Retention,         \* clusterGuardDefaultRetention, in ticks
    UnguardedMax,      \* unguardedMax; 0 = unlimited
    UnguardedWindow,   \* unguardedWindow, in ticks
    AgeCap             \* ages past every threshold are the same

ASSUME ClaimBoundsAssumption ==
    /\ Retention \in Nat /\ UnguardedMax \in Nat /\ UnguardedWindow \in Nat
    /\ AgeCap \in Nat /\ AgeCap > Retention /\ AgeCap > UnguardedWindow

VARIABLES
    claims,            \* the ledger: a row or NoClaim per key
    window             \* each node's in-memory unguarded window

Ages == 0 .. AgeCap

ClaimRows == [by : Nodes, ttl : Nat, age : Ages]

ASSUME NoClaimAssumption == NoClaim \notin ClaimRows

Windows == [age : Ages, count : Nat]

ASSUME NoWindowAssumption == NoWindow \notin Windows

ClaimsTypeOK ==
    /\ claims \in [ClaimKeys -> ClaimRows \cup {NoClaim}]
    /\ window \in [Nodes -> Windows \cup {NoWindow}]

ClaimsInit ==
    /\ claims = [k \in ClaimKeys |-> NoClaim]
    /\ window = [n \in Nodes |-> NoWindow]

-----------------------------------------------------------------------------

(* Slip: a stored lease is judged by the caller's ttl.                     *)
Lapsed_ByCaller(row, ttl) == row.age > ttl

(* The ON CONFLICT ... WHERE of a leased claim: the stored expiry decides; *)
(* a row without one is judged by its age and the caller's own ttl.        *)
Lapsed(row, ttl) == row.age > (IF row.ttl > 0 THEN row.ttl ELSE ttl)

(* Slip: DO UPDATE without its WHERE.                                      *)
Winnable_NoWhere(k, ttl) == claims[k] = NoClaim \/ ttl > 0

(* Will the statement affect a row?  Without a lease: ON CONFLICT DO       *)
(* NOTHING.                                                                *)
Winnable(k, ttl) ==
    claims[k] # NoClaim => (ttl > 0 /\ Lapsed(claims[k], ttl))

(* The insert or the takeover, committed.                                  *)
TakeClaim(n, k, ttl) ==
    /\ Winnable(k, ttl)
    /\ claims' = [claims EXCEPT ![k] = [by |-> n, ttl |-> ttl, age |-> 0]]

(* ReleaseClaim: DELETE ... WHERE claimed_by is this node.                 *)
DropClaim(n, k) ==
    claims' = IF claims[k] # NoClaim /\ claims[k].by = n
                THEN [claims EXCEPT ![k] = NoClaim] ELSE claims

(* prune: past the retention, and past its own expiry if it has one.       *)
Prunable(row) == row.age > Retention /\ (row.ttl = 0 \/ row.age > row.ttl)

PruneClaims ==
    claims' = [k \in ClaimKeys |->
                  IF claims[k] # NoClaim /\ Prunable(claims[k])
                    THEN NoClaim ELSE claims[k]]

(* Slip: the age comparison the wrong way round.                           *)
CurrentWindow_Reversed(n) ==
    IF window[n] = NoWindow \/ window[n].age < UnguardedWindow
      THEN [age |-> 0, count |-> 0] ELSE window[n]

(* allowUnguarded: a fixed window per node, restarted by the first         *)
(* admission after it has run out.                                         *)
CurrentWindow(n) ==
    IF window[n] = NoWindow \/ window[n].age > UnguardedWindow
      THEN [age |-> 0, count |-> 0] ELSE window[n]

(* Slip: the budget counted down, in a window that starts at zero.         *)
AllowUnguarded_CountsDown(n) ==
    IF UnguardedMax = 0 THEN UNCHANGED window
    ELSE /\ CurrentWindow(n).count < UnguardedMax
         /\ window' = [window EXCEPT ![n] =
                          [CurrentWindow(n) EXCEPT !.count = @ - 1]]

AllowUnguarded(n) ==
    IF UnguardedMax = 0 THEN UNCHANGED window
    ELSE /\ CurrentWindow(n).count < UnguardedMax
         /\ window' = [window EXCEPT ![n] =
                          [CurrentWindow(n) EXCEPT !.count = @ + 1]]

(* The process restarts: its window is gone.                               *)
ForgetWindow(n) == window' = [window EXCEPT ![n] = NoWindow]

Older(age) == IF age < AgeCap THEN age + 1 ELSE age

AgeClaims ==
    /\ claims' = [k \in ClaimKeys |->
                     IF claims[k] = NoClaim THEN NoClaim
                     ELSE [claims[k] EXCEPT !.age = Older(@)]]
    /\ window' = [n \in Nodes |->
                     IF window[n] = NoWindow THEN NoWindow
                     ELSE [window[n] EXCEPT !.age = Older(@)]]

=============================================================================
