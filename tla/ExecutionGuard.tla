--------------------------- MODULE ExecutionGuard ---------------------------
(***************************************************************************)
(* ClusterExecutionGuard (component/automations/cluster_guard.go) under    *)
(* arbitrary callers: replicas that claim a key before executing, execute, *)
(* end, give a claim back, crash; a database whose answers get lost; the   *)
(* prune.  Claim, ClaimWithTTL and the strict claimer of work runs are the *)
(* same statement with different ttls and different answers to an error.   *)
(***************************************************************************)
EXTENDS ClaimTable, FiniteSets, Sequences

CONSTANTS
    Ttls,         \* the ttls callers of each key use; 0 is Claim
    Strict,       \* the keys claimed through StrictClusterClaimer
    Releasable,   \* the keys whose callers give claims back
    StartWait,    \* how long claimed work may wait to begin, in ticks
    MaxErrors     \* bound on claims that end in a storage error

ASSUME TtlsAssumption ==
    /\ Ttls \in [ClaimKeys -> SUBSET Nat]
    /\ \A k \in ClaimKeys : \A ttl \in Ttls[k] : ttl < AgeCap
ASSUME PolicyAssumption ==
    /\ Strict \subseteq ClaimKeys
    /\ Releasable \subseteq ClaimKeys
    /\ \A k \in Releasable : Ttls[k] \subseteq {0}
    /\ StartWait \in Nat /\ StartWait <= Retention
ASSUME MaxErrorsAssumption == MaxErrors \in Nat

VARIABLES
    running,      \* executions that hold, or held, a confirmed claim
    admitted,     \* history: ages of each process's unguarded admissions
    errors        \* storage errors so far

vars == <<claims, window, running, admitted, errors>>

(* An execution remembers how long ago, and for how long, it claimed.      *)
Executions == [node : Nodes, key : ClaimKeys, ttl : Nat, age : Ages]

TypeOK ==
    /\ ClaimsTypeOK
    /\ running \subseteq Executions
    /\ admitted \in [Nodes -> Seq(Ages)]
    /\ errors \in 0 .. MaxErrors

Init ==
    /\ ClaimsInit
    /\ running = {}
    /\ admitted = [n \in Nodes |-> <<>>]
    /\ errors = 0

-----------------------------------------------------------------------------

Started(n, k, ttl) == [node |-> n, key |-> k, ttl |-> ttl, age |-> 0]

(* The statement affected a row: this node executes.  (A statement that    *)
(* affects none answers false and changes nothing.)                        *)
ClaimWon(n, k, ttl) ==
    /\ TakeClaim(n, k, ttl)
    /\ running' = running \cup {Started(n, k, ttl)}
    /\ UNCHANGED <<window, admitted, errors>>

(* A storage error: the statement did not commit, or it did and the answer *)
(* was lost on the way back.                                               *)
StorageError(n, k, ttl) ==
    /\ errors < MaxErrors
    /\ errors' = errors + 1
    /\ TakeClaim(n, k, ttl) \/ UNCHANGED claims

(* The strict claimer refuses; so does the other one once its budget is    *)
(* spent; and so do both when RowsAffected does not answer.                *)
ClaimRefused(n, k, ttl) ==
    /\ StorageError(n, k, ttl)
    /\ UNCHANGED <<window, running, admitted>>

(* Fail-open: the caller executes without a claim, on the budget.          *)
ClaimUnguarded(n, k, ttl) ==
    /\ k \notin Strict
    /\ StorageError(n, k, ttl)
    /\ AllowUnguarded(n)
    /\ admitted' = [admitted EXCEPT ![n] = Append(@, 0)]
    /\ UNCHANGED running

Finish(e) ==
    /\ e \in running
    /\ running' = running \ {e}
    /\ UNCHANGED <<claims, window, admitted, errors>>

(* Claimed work that could not begin gives its claim back; it waits for    *)
(* its beginning (the firing gate of an email rule) a bounded time.        *)
Release(e) ==
    /\ e \in running
    /\ e.key \in Releasable
    /\ e.age <= StartWait
    /\ DropClaim(e.node, e.key)
    /\ running' = running \ {e}
    /\ UNCHANGED <<window, admitted, errors>>

Crash(n) ==
    /\ running' = {e \in running : e.node # n}
    /\ ForgetWindow(n)
    /\ admitted' = [admitted EXCEPT ![n] = <<>>]
    /\ UNCHANGED <<claims, errors>>

Prune ==
    /\ PruneClaims
    /\ UNCHANGED <<window, running, admitted, errors>>

(* Past the window an admission's age no longer matters.                   *)
Past(age) == IF age <= UnguardedWindow THEN age + 1 ELSE age

Tick ==
    /\ AgeClaims
    /\ running' = {[e EXCEPT !.age = Older(@)] : e \in running}
    /\ admitted' = [n \in Nodes |->
                         [i \in 1 .. Len(admitted[n]) |-> Past(admitted[n][i])]]
    /\ UNCHANGED errors

Next ==
    \/ \E n \in Nodes, k \in ClaimKeys : \E ttl \in Ttls[k] :
           \/ ClaimWon(n, k, ttl)
           \/ ClaimRefused(n, k, ttl)
           \/ ClaimUnguarded(n, k, ttl)
    \/ \E e \in running : Finish(e) \/ Release(e)
    \/ \E n \in Nodes : Crash(n)
    \/ Prune
    \/ Tick

Spec == Init /\ [][Next]_vars

-----------------------------------------------------------------------------
(* Properties                                                              *)

(* Until when an execution can count on its claim: its own lease; without  *)
(* one, the retention, or the shortest lease another caller of the key may *)
(* judge it by.                                                            *)
Covered(e) ==
    IF e.ttl > 0 THEN e.age <= e.ttl
    ELSE /\ e.age <= Retention
         /\ \A ttl \in Ttls[e.key] \ {0} : e.age <= ttl

(* Two confirmed executions of one key are never both covered by their     *)
(* claims: callers with different ttls, takeovers, prunes, releases and    *)
(* lost answers notwithstanding (claimWithTTL: "the stored expiry also     *)
(* prevents cleanup, or a caller with a shorter TTL, from shortening a     *)
(* live claim").                                                           *)
OneCoveredExecution ==
    \A e1, e2 \in running :
        (e1.key = e2.key /\ Covered(e1) /\ Covered(e2)) => e1 = e2

(* The admissions without a claim in the last UnguardedWindow ticks.       *)
Recent(n) == {i \in 1 .. Len(admitted[n]) : admitted[n][i] <= UnguardedWindow}

(* In any span of UnguardedWindow ticks one process admits at most two     *)
(* windows' worth of executions without a claim: the fixed window of       *)
(* allowUnguarded bounds the fail-open path.                               *)
UnguardedBounded ==
    UnguardedMax > 0 => \A n \in Nodes : Cardinality(Recent(n)) <= 2 * UnguardedMax

=============================================================================
