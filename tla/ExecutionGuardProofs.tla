------------------------ MODULE ExecutionGuardProofs ------------------------
(***************************************************************************)
(* The execution guard keeps confirmed executions of a key apart, for any  *)
(* number of replicas and keys, any mix of ttls and any retention.         *)
(*                                                                         *)
(* The argument: an execution covered by its claim is the one the ledger's *)
(* row was written for, node, ttl and age alike.  Takeover, prune and      *)
(* release each need the row to be in a state a covered execution rules    *)
(* out, and ticks age the two together.                                    *)
(***************************************************************************)
EXTENDS ExecutionGuard, FiniteSetTheorems, TLAPS

(* The ttl of an execution is one its key's callers use.                   *)
TtlsUsed == \A e \in running : e.ttl \in Ttls[e.key]

(* The ledger holds the row of every covered execution.                    *)
CoveredOwnsRow ==
    \A e \in running : Covered(e) =>
        claims[e.key] = [by |-> e.node, ttl |-> e.ttl, age |-> e.age]

GuardInv ==
    /\ ClaimsTypeOK
    /\ running \subseteq Executions
    /\ TtlsUsed
    /\ CoveredOwnsRow

(* An execution its claim covers finds the ledger's row unwinnable,        *)
(* whatever ttl another caller brings.                                     *)
LEMMA CoveredBlocksClaims ==
    ASSUME GuardInv, NEW e \in running, Covered(e), NEW ttl \in Ttls[e.key]
    PROVE  ~Winnable(e.key, ttl)
<1>1. e \in Executions /\ e.key \in ClaimKeys /\ e.ttl \in Nat /\ e.age \in Ages
      /\ e.node \in Nodes
  BY Zenon DEF GuardInv, Executions
<1>2. ttl \in Nat
  BY Zenon, <1>1, TtlsAssumption
<1>3. claims[e.key] = [by |-> e.node, ttl |-> e.ttl, age |-> e.age]
  BY Zenon DEF GuardInv, CoveredOwnsRow
<1>4. claims[e.key] \in ClaimRows /\ claims[e.key] # NoClaim
  BY <1>1, <1>3, NoClaimAssumption DEF ClaimRows
<1>5. CASE e.ttl > 0
  <2>1. e.age <= e.ttl
    BY Zenon, <1>5 DEF Covered
  <2> QED
    BY <1>1, <1>3, <1>4, <1>5, <2>1 DEF Winnable, Lapsed, Ages
<1>6. CASE ~(e.ttl > 0)
  <2>1. ttl > 0 => e.age <= ttl
    BY <1>2, <1>6 DEF Covered
  <2> QED
    BY <1>1, <1>2, <1>3, <1>4, <1>6, <2>1 DEF Winnable, Lapsed, Ages
<1> QED
  BY Zenon, <1>5, <1>6

(* Nor may the prune delete it.                                            *)
LEMMA CoveredBlocksPrune ==
    ASSUME GuardInv, NEW e \in running, Covered(e)
    PROVE  ~Prunable(claims[e.key])
<1>1. e \in Executions /\ e.ttl \in Nat /\ e.age \in Nat
  BY DEF GuardInv, Executions, Ages
<1>2. claims[e.key] = [by |-> e.node, ttl |-> e.ttl, age |-> e.age]
  BY Zenon DEF GuardInv, CoveredOwnsRow
<1>3. claims[e.key].ttl = e.ttl /\ claims[e.key].age = e.age
  BY <1>2
<1> QED
  BY <1>1, <1>3, ClaimBoundsAssumption DEF Prunable, Covered

(* Writing a claim leaves the rows of covered executions alone.            *)
LEMMA TakeClaimKeepsRows ==
    ASSUME GuardInv, NEW n \in Nodes, NEW k \in ClaimKeys, NEW ttl \in Ttls[k],
           TakeClaim(n, k, ttl)
    PROVE  /\ claims' \in [ClaimKeys -> ClaimRows \cup {NoClaim}]
           /\ claims'[k] = [by |-> n, ttl |-> ttl, age |-> 0]
           /\ \A e \in running : Covered(e) =>
                 e.key # k /\ claims'[e.key] = claims[e.key]
<1>1. ttl \in Nat /\ 0 \in Ages
  BY TtlsAssumption, ClaimBoundsAssumption DEF Ages
<1>2. [by |-> n, ttl |-> ttl, age |-> 0] \in ClaimRows
  BY Zenon, <1>1 DEF ClaimRows
<1>3. claims \in [ClaimKeys -> ClaimRows \cup {NoClaim}]
  BY Zenon DEF GuardInv, ClaimsTypeOK
<1>4. \A e \in running : Covered(e) => e.key # k
  BY Zenon, CoveredBlocksClaims DEF TakeClaim
<1>5. \A e \in running : e.key \in ClaimKeys
  BY Zenon DEF GuardInv, Executions
<1> QED
  BY Zenon, <1>2, <1>3, <1>4, <1>5 DEF TakeClaim

(* Older never makes a coverage return.                                    *)
LEMMA OlderAge ==
    ASSUME NEW age \in Ages
    PROVE  /\ Older(age) \in Ages
           /\ \A bound \in Nat :
                 (bound < AgeCap /\ Older(age) <= bound) => age <= bound
  BY ClaimBoundsAssumption DEF Older, Ages

LEMMA CoveredBefore ==
    ASSUME NEW e \in Executions, e.ttl \in Ttls[e.key],
           Covered([e EXCEPT !.age = Older(@)])
    PROVE  Covered(e)
<1> DEFINE f == [e EXCEPT !.age = Older(@)]
<1>1. f.ttl = e.ttl /\ f.key = e.key /\ f.age = Older(e.age)
  BY Zenon DEF Executions
<1>2. e.key \in ClaimKeys /\ e.ttl \in Nat /\ e.age \in Ages /\ e.ttl < AgeCap
  BY Zenon, TtlsAssumption DEF Executions
<1>3. \A bound \in Nat : (bound < AgeCap /\ Older(e.age) <= bound) => e.age <= bound
  BY Zenon, <1>2, OlderAge
<1>4. \A ttl \in Ttls[e.key] : ttl \in Nat /\ ttl < AgeCap
  BY Zenon, <1>2, TtlsAssumption
<1>5. Retention \in Nat /\ Retention < AgeCap
  BY Zenon, ClaimBoundsAssumption
<1>6. Covered(f)
  BY Zenon
<1> HIDE DEF f
<1> QED
  BY Zenon, <1>1, <1>2, <1>3, <1>4, <1>5, <1>6 DEF Covered

LEMMA GuardInit == Init => GuardInv
  BY Zenon DEF Init, ClaimsInit, GuardInv, ClaimsTypeOK, TtlsUsed, CoveredOwnsRow

LEMMA AllowUnguardedType ==
    ASSUME ClaimsTypeOK, NEW n \in Nodes, AllowUnguarded(n)
    PROVE  window' \in [Nodes -> Windows \cup {NoWindow}]
<1>1. 0 \in Ages
  BY ClaimBoundsAssumption DEF Ages
<1>2. CurrentWindow(n) \in Windows
  BY Zenon, <1>1 DEF CurrentWindow, ClaimsTypeOK, Windows
<1>3. [CurrentWindow(n) EXCEPT !.count = @ + 1] \in Windows
  BY <1>2 DEF Windows
<1> QED
  BY Zenon, <1>3 DEF AllowUnguarded, ClaimsTypeOK

LEMMA ClaimWonInv ==
    ASSUME GuardInv, NEW n \in Nodes, NEW k \in ClaimKeys, NEW ttl \in Ttls[k],
           ClaimWon(n, k, ttl)
    PROVE  GuardInv'
<1> DEFINE s == Started(n, k, ttl)
<1>1. TakeClaim(n, k, ttl) /\ running' = running \cup {s} /\ window' = window
  BY Zenon DEF ClaimWon
<1>2. s \in Executions /\ s.key = k /\ s.ttl = ttl /\ s.node = n /\ s.age = 0
  BY TtlsAssumption, ClaimBoundsAssumption DEF Started, Executions, Ages
<1>3. ClaimsTypeOK' /\ claims'[k] = [by |-> n, ttl |-> ttl, age |-> 0]
  BY Zenon, <1>1, TakeClaimKeepsRows DEF GuardInv, ClaimsTypeOK
<1>4. \A e \in running : Covered(e) => claims'[e.key] = claims[e.key]
  BY Zenon, <1>1, TakeClaimKeepsRows
<1> HIDE DEF s
<1>5. running' \subseteq Executions /\ TtlsUsed'
  BY Zenon, <1>1, <1>2 DEF GuardInv, TtlsUsed
<1>6. CoveredOwnsRow'
  BY Zenon, <1>1, <1>2, <1>3, <1>4 DEF GuardInv, CoveredOwnsRow, Covered
<1> QED
  BY Zenon, <1>3, <1>5, <1>6 DEF GuardInv

(* A storage error may leave a claim nobody knows of; it takes no row from *)
(* a covered execution.                                                    *)
LEMMA StorageErrorInv ==
    ASSUME GuardInv, NEW n \in Nodes, NEW k \in ClaimKeys, NEW ttl \in Ttls[k],
           StorageError(n, k, ttl), running' = running,
           window' \in [Nodes -> Windows \cup {NoWindow}]
    PROVE  GuardInv'
<1>1. CASE TakeClaim(n, k, ttl)
  <2>1. ClaimsTypeOK'
    BY Zenon, <1>1, TakeClaimKeepsRows DEF ClaimsTypeOK
  <2>2. \A e \in running : Covered(e) => claims'[e.key] = claims[e.key]
    BY Zenon, <1>1, TakeClaimKeepsRows
  <2> QED
    BY Zenon, <2>1, <2>2 DEF GuardInv, CoveredOwnsRow, TtlsUsed, Covered
<1>2. CASE UNCHANGED claims
  BY Zenon, <1>2 DEF GuardInv, CoveredOwnsRow, TtlsUsed, Covered, ClaimsTypeOK
<1> QED
  BY Zenon, <1>1, <1>2 DEF StorageError

LEMMA ReleaseInv ==
    ASSUME GuardInv, NEW r \in running, Release(r)
    PROVE  GuardInv'
<1>1. /\ r.key \in Releasable /\ r.age <= StartWait
      /\ DropClaim(r.node, r.key) /\ running' = running \ {r} /\ window' = window
  BY Zenon DEF Release
<1>2. r \in Executions /\ r.key \in ClaimKeys /\ r.age \in Nat /\ r.ttl \in Ttls[r.key]
  BY DEF GuardInv, Executions, Ages, TtlsUsed
<1>3. Covered(r)
  BY <1>1, <1>2, PolicyAssumption, ClaimBoundsAssumption DEF Covered
<1>4. \A e \in running' : Covered(e) => e.key # r.key
  <2> SUFFICES ASSUME NEW e \in running', Covered(e), e.key = r.key
               PROVE  e = r
    BY Zenon, <1>1
  <2>1. e \in Executions /\ e \in running
    BY Zenon, <1>1 DEF GuardInv
  <2>2. [by |-> e.node, ttl |-> e.ttl, age |-> e.age]
        = [by |-> r.node, ttl |-> r.ttl, age |-> r.age]
    BY Zenon, <1>3, <2>1 DEF GuardInv, CoveredOwnsRow
  <2>3. e.node = r.node /\ e.ttl = r.ttl /\ e.age = r.age
    BY Zenon, <2>2
  <2> QED
    BY <1>2, <2>1, <2>3 DEF Executions
<1>5. ClaimsTypeOK'
  BY Zenon, <1>1, <1>2 DEF DropClaim, GuardInv, ClaimsTypeOK
<1>6. \A e \in running' : Covered(e) => claims'[e.key] = claims[e.key]
  BY Zenon, <1>1, <1>2, <1>4 DEF DropClaim, GuardInv, ClaimsTypeOK, Executions
<1> QED
  BY Zenon, <1>1, <1>5, <1>6 DEF GuardInv, CoveredOwnsRow, TtlsUsed, Covered

LEMMA PruneInv ==
    ASSUME GuardInv, Prune
    PROVE  GuardInv'
<1>1. \A e \in running : e.key \in ClaimKeys
  BY Zenon DEF GuardInv, Executions
<1>2. ClaimsTypeOK'
  BY Zenon DEF Prune, PruneClaims, GuardInv, ClaimsTypeOK
<1>3. \A e \in running : Covered(e) => claims'[e.key] = claims[e.key]
  BY Zenon, <1>1, CoveredBlocksPrune DEF Prune, PruneClaims
<1> QED
  BY Zenon, <1>2, <1>3 DEF Prune, GuardInv, CoveredOwnsRow, TtlsUsed, Covered

LEMMA TickInv ==
    ASSUME GuardInv, Tick
    PROVE  GuardInv'
<1>1. ClaimsTypeOK'
  <2>1. \A row \in ClaimRows : [row EXCEPT !.age = Older(@)] \in ClaimRows
    BY Zenon, OlderAge DEF ClaimRows
  <2>2. \A w \in Windows : [w EXCEPT !.age = Older(@)] \in Windows
    BY Zenon, OlderAge DEF Windows
  <2> QED
    BY Zenon, <2>1, <2>2 DEF Tick, AgeClaims, GuardInv, ClaimsTypeOK
<1>2. \A e \in Executions :
        LET f == [e EXCEPT !.age = Older(@)] IN
        /\ f \in Executions /\ f.key = e.key /\ f.ttl = e.ttl /\ f.node = e.node
        /\ f.age = Older(e.age)
  BY Zenon, OlderAge DEF Executions
<1>3. running' = {[e EXCEPT !.age = Older(@)] : e \in running}
  BY Zenon DEF Tick
<1>4. running' \subseteq Executions /\ TtlsUsed'
  <2> SUFFICES ASSUME NEW f \in running'
               PROVE  f \in Executions /\ f.ttl \in Ttls[f.key]
    BY Zenon DEF TtlsUsed
  <2>1. PICK e \in running : f = [e EXCEPT !.age = Older(@)]
    BY Zenon, <1>3
  <2>2. e \in Executions /\ e.ttl \in Ttls[e.key]
    BY Zenon DEF GuardInv, TtlsUsed
  <2> QED
    BY Zenon, <1>2, <2>1, <2>2
<1>5. ASSUME NEW f \in running', Covered(f)
      PROVE  claims'[f.key] = [by |-> f.node, ttl |-> f.ttl, age |-> f.age]
  <2>1. PICK e \in running : f = [e EXCEPT !.age = Older(@)]
    BY <1>3
  <2>2. e \in Executions /\ e.ttl \in Ttls[e.key] /\ e.key \in ClaimKeys
    BY Zenon DEF GuardInv, TtlsUsed, Executions
  <2>3. claims[e.key] = [by |-> e.node, ttl |-> e.ttl, age |-> e.age]
    BY Zenon, <1>5, <2>1, <2>2, CoveredBefore DEF GuardInv, CoveredOwnsRow
  <2>4. claims[e.key] \in ClaimRows /\ claims[e.key] # NoClaim
    BY <2>2, <2>3, NoClaimAssumption DEF Executions, ClaimRows
  <2>5. claims'[e.key] = [claims[e.key] EXCEPT !.age = Older(@)]
    BY Zenon, <2>2, <2>4 DEF Tick, AgeClaims
  <2>6. claims'[e.key] = [by |-> e.node, ttl |-> e.ttl, age |-> Older(e.age)]
    BY <2>3, <2>5
  <2> QED
    BY Zenon, <1>2, <2>1, <2>2, <2>6
<1>6. CoveredOwnsRow'
  BY Zenon, <1>5 DEF CoveredOwnsRow, Covered
<1> QED
  BY Zenon, <1>1, <1>4, <1>6 DEF GuardInv

LEMMA GuardStep == GuardInv /\ [Next]_vars => GuardInv'
<1> SUFFICES ASSUME GuardInv, [Next]_vars PROVE GuardInv'
  BY Zenon
<1>1. ASSUME NEW n \in Nodes, NEW k \in ClaimKeys, NEW ttl \in Ttls[k],
             ClaimWon(n, k, ttl)
      PROVE  GuardInv'
  BY Zenon, <1>1, ClaimWonInv
<1>2. ASSUME NEW n \in Nodes, NEW k \in ClaimKeys, NEW ttl \in Ttls[k],
             ClaimRefused(n, k, ttl)
      PROVE  GuardInv'
  BY Zenon, <1>2, StorageErrorInv DEF ClaimRefused, GuardInv, ClaimsTypeOK
<1>3. ASSUME NEW n \in Nodes, NEW k \in ClaimKeys, NEW ttl \in Ttls[k],
             ClaimUnguarded(n, k, ttl)
      PROVE  GuardInv'
  BY Zenon, <1>3, StorageErrorInv, AllowUnguardedType DEF ClaimUnguarded, GuardInv
<1>4. ASSUME NEW e \in running, Finish(e) PROVE GuardInv'
  BY Zenon, <1>4 DEF Finish, GuardInv, CoveredOwnsRow, TtlsUsed, Covered, ClaimsTypeOK
<1>5. ASSUME NEW e \in running, Release(e) PROVE GuardInv'
  BY Zenon, <1>5, ReleaseInv
<1>6. ASSUME NEW n \in Nodes, Crash(n) PROVE GuardInv'
  <2>1. running' \subseteq running /\ claims' = claims
    BY Zenon, <1>6 DEF Crash
  <2>2. ClaimsTypeOK'
    BY Zenon, <1>6 DEF Crash, ForgetWindow, GuardInv, ClaimsTypeOK
  <2> QED
    BY Zenon, <2>1, <2>2 DEF GuardInv, CoveredOwnsRow, TtlsUsed, Covered
<1>7. CASE Prune
  BY Zenon, <1>7, PruneInv
<1>8. CASE Tick
  BY Zenon, <1>8, TickInv
<1>9. CASE UNCHANGED vars
  BY Zenon, <1>9 DEF vars, GuardInv, CoveredOwnsRow, TtlsUsed, Covered, ClaimsTypeOK
<1> QED
  BY Zenon, <1>1, <1>2, <1>3, <1>4, <1>5, <1>6, <1>7, <1>8, <1>9 DEF Next

LEMMA GuardInvariant == Spec => []GuardInv
  BY GuardInit, GuardStep, PTL DEF Spec

(* Confirmed executions of one key exclude one another while their claims  *)
(* cover them, for every set of replicas, every assignment of ttls to keys *)
(* and every retention (cluster_guard.go, claimWithTTL, ReleaseClaim and   *)
(* prune together).                                                        *)
THEOREM ExecutionsExcluded == Spec => []OneCoveredExecution
<1>1. GuardInv => OneCoveredExecution
  <2> SUFFICES ASSUME GuardInv, NEW e1 \in running, NEW e2 \in running,
                      e1.key = e2.key, Covered(e1), Covered(e2)
               PROVE  e1 = e2
    BY Zenon DEF OneCoveredExecution
  <2>1. e1 \in Executions /\ e2 \in Executions
    BY Zenon DEF GuardInv
  <2>2. [by |-> e1.node, ttl |-> e1.ttl, age |-> e1.age]
        = [by |-> e2.node, ttl |-> e2.ttl, age |-> e2.age]
    BY Zenon DEF GuardInv, CoveredOwnsRow
  <2>3. e1.node = e2.node /\ e1.ttl = e2.ttl /\ e1.age = e2.age
    BY Zenon, <2>2
  <2> QED
    BY <2>1, <2>3 DEF Executions
<1> QED
  BY <1>1, GuardInvariant, PTL

-----------------------------------------------------------------------------
(* Admissions without a claim.  The process keeps only the window it is    *)
(* in.  Of the admissions so far, oldest first, the last count ones are    *)
(* the window's; all before them are older than it, and all but            *)
(* UnguardedMax of those are out of the span the property looks at.        *)

(* What holds of the i-th of len admissions, of age a, when the window has *)
(* the given count and age.                                                *)
Placed(a, i, len, count, age) ==
    /\ a > UnguardedWindow \/ a + UnguardedWindow >= age
    /\ i <= len - count => a > UnguardedWindow \/ a > age
    /\ i <= len - count - UnguardedMax => a > UnguardedWindow

BudgetOf(adm, w) ==
    IF w = NoWindow THEN adm = <<>>
    ELSE /\ w.count <= UnguardedMax
         /\ \A i \in 1 .. Len(adm) : Placed(adm[i], i, Len(adm), w.count, w.age)

BudgetInv ==
    /\ TypeOK
    /\ UnguardedMax > 0 => \A n \in Nodes : BudgetOf(admitted[n], window[n])

(* The arithmetic of the three things that move an admission: a further    *)
(* one in the same window, the first one of the next window, a tick.       *)
LEMMA PlacedMoves ==
    ASSUME NEW a \in Nat, NEW i \in Nat, NEW len \in Nat, i <= len,
           NEW count \in Nat, count <= UnguardedMax, NEW age \in Ages,
           Placed(a, i, len, count, age)
    PROVE  /\ Placed(a, i, len + 1, count + 1, age)
           /\ age > UnguardedWindow => Placed(a, i, len + 1, 1, 0)
           /\ Placed(Past(a), i, len, count, Older(age))
<1>1. /\ UnguardedMax \in Nat /\ UnguardedWindow \in Nat
      /\ AgeCap \in Nat /\ AgeCap > UnguardedWindow /\ age \in Nat /\ age <= AgeCap
  BY ClaimBoundsAssumption DEF Ages
<1>2. Placed(a, i, len + 1, count + 1, age)
  BY <1>1 DEF Placed
<1>3. age > UnguardedWindow => Placed(a, i, len + 1, 1, 0)
  BY <1>1 DEF Placed
<1>4. /\ Older(age) \in Nat /\ Older(age) <= age + 1
      /\ Past(a) \in Nat /\ (Past(a) > UnguardedWindow \/ Past(a) = a + 1)
      /\ a > UnguardedWindow => Past(a) > UnguardedWindow
  BY <1>1 DEF Older, Past
<1>5. Placed(Past(a), i, len, count, Older(age))
  BY <1>1, <1>4 DEF Placed
<1> QED
  BY Zenon, <1>2, <1>3, <1>5

(* One admission, in the current window or in a new one, keeps the count.  *)
LEMMA AdmissionKeepsBudget ==
    ASSUME BudgetInv, UnguardedMax > 0, NEW n \in Nodes, AllowUnguarded(n)
    PROVE  BudgetOf(Append(admitted[n], 0), window'[n])
<1> DEFINE adm == admitted[n]
           new == Append(adm, 0)
           cur == CurrentWindow(n)
<1>1. adm \in Seq(Ages) /\ window[n] \in Windows \cup {NoWindow}
  BY Zenon DEF BudgetInv, TypeOK, ClaimsTypeOK
<1>2. 0 \in Ages /\ Ages \subseteq Nat /\ UnguardedWindow \in Nat /\ UnguardedMax \in Nat
  BY ClaimBoundsAssumption DEF Ages
<1>3. cur \in Windows /\ cur.count \in Nat /\ cur.age \in Ages
  BY Zenon, <1>1, <1>2 DEF CurrentWindow, Windows
<1>4. /\ cur.count < UnguardedMax
      /\ window'[n] = [age |-> cur.age, count |-> cur.count + 1]
  BY <1>3 DEF AllowUnguarded, BudgetInv, TypeOK, ClaimsTypeOK, Windows
<1>5. window'[n] # NoWindow /\ window'[n].count = cur.count + 1 /\ window'[n].age = cur.age
  BY <1>3, <1>4, NoWindowAssumption DEF Windows
<1>6. Len(adm) \in Nat /\ \A i \in 1 .. Len(adm) : adm[i] \in Nat
  BY <1>1, ClaimBoundsAssumption DEF Ages
<1>7. /\ Len(new) = Len(adm) + 1 /\ new[Len(adm) + 1] = 0
      /\ \A i \in 1 .. Len(adm) : new[i] = adm[i]
  BY <1>1
<1>8. BudgetOf(adm, window[n])
  BY Zenon DEF BudgetInv
<1>9. cur.age <= UnguardedWindow
      /\ \A i \in 1 .. Len(adm) : Placed(adm[i], i, Len(adm) + 1, cur.count + 1, cur.age)
  <2>1. CASE window[n] = NoWindow
    <3>1. adm = <<>> /\ cur = [age |-> 0, count |-> 0]
      BY Zenon, <1>8, <2>1 DEF BudgetOf, CurrentWindow
    <3> QED
      BY <1>2, <3>1
  <2>2. CASE window[n] # NoWindow /\ window[n].age > UnguardedWindow
    <3>1. cur = [age |-> 0, count |-> 0]
      BY Zenon, <2>2 DEF CurrentWindow
    <3>2. cur.age = 0 /\ cur.count + 1 = 1
      BY <3>1
    <3>3. window[n].age \in Ages /\ window[n].count \in Nat
      BY Zenon, <1>1, <2>2 DEF Windows
    <3>4. \A i \in 1 .. Len(adm) : Placed(adm[i], i, Len(adm) + 1, 1, 0)
      BY SMTT(30), <1>6, <1>8, <2>2, <3>3, PlacedMoves DEF BudgetOf
    <3> QED
      BY <1>2, <3>2, <3>4
  <2>3. CASE window[n] # NoWindow /\ ~(window[n].age > UnguardedWindow)
    <3>1. cur = window[n]
      BY Zenon, <2>3 DEF CurrentWindow
    <3>2. window[n].age \in Ages /\ window[n].count \in Nat
      BY Zenon, <1>1, <2>3 DEF Windows
    <3>3. \A i \in 1 .. Len(adm) :
             Placed(adm[i], i, Len(adm) + 1, window[n].count + 1, window[n].age)
      BY SMTT(30), <1>6, <1>8, <2>3, <3>2, PlacedMoves DEF BudgetOf
    <3>4. window[n].age <= UnguardedWindow
      BY <2>3, <3>2, ClaimBoundsAssumption DEF Ages
    <3> QED
      BY Zenon, <3>1, <3>3, <3>4
  <2> QED
    BY Zenon, <2>1, <2>2, <2>3
<1> HIDE DEF cur, adm, new
<1>10. Placed(0, Len(adm) + 1, Len(adm) + 1, cur.count + 1, cur.age)
  BY <1>2, <1>3, <1>6, <1>9 DEF Placed
<1>11. \A i \in 1 .. Len(new) : Placed(new[i], i, Len(new), cur.count + 1, cur.age)
  BY <1>6, <1>7, <1>9, <1>10
<1>12. BudgetOf(new, window'[n])
  BY <1>2, <1>3, <1>4, <1>5, <1>11 DEF BudgetOf
<1> QED
  BY Zenon, <1>12 DEF new, adm

LEMMA TickKeepsBudget ==
    ASSUME BudgetInv, UnguardedMax > 0, NEW n \in Nodes, Tick
    PROVE  BudgetOf(admitted'[n], window'[n])
<1> DEFINE adm == admitted[n]
           w == window[n]
           aged == admitted'[n]
<1>1. adm \in Seq(Ages) /\ w \in Windows \cup {NoWindow} /\ BudgetOf(adm, w)
  BY Zenon DEF BudgetInv, TypeOK, ClaimsTypeOK
<1>2. Len(adm) \in Nat /\ \A i \in 1 .. Len(adm) : adm[i] \in Nat
  BY SMTT(30), <1>1, ClaimBoundsAssumption DEF Ages
<1>3. /\ aged = [i \in 1 .. Len(adm) |-> Past(adm[i])]
      /\ window'[n] = IF w = NoWindow THEN NoWindow ELSE [w EXCEPT !.age = Older(@)]
  BY Zenon DEF Tick, AgeClaims
<1>4. Len(aged) = Len(adm) /\ \A i \in 1 .. Len(adm) : aged[i] = Past(adm[i])
  BY <1>2, <1>3
<1>5. CASE w = NoWindow
  <2>1. adm = <<>> /\ window'[n] = NoWindow
    BY Zenon, <1>1, <1>3, <1>5 DEF BudgetOf
  <2>2. aged = <<>>
    BY <1>3, <2>1
  <2> QED
    BY Zenon, <2>1, <2>2 DEF BudgetOf
<1>6. CASE w # NoWindow
  <2>1. w \in Windows /\ w.age \in Ages /\ w.count \in Nat
    BY Zenon, <1>1, <1>6 DEF Windows
  <2>2. window'[n] = [age |-> Older(w.age), count |-> w.count]
    BY Zenon, <1>3, <1>6, <2>1 DEF Windows
  <2>3. Older(w.age) \in Ages
    BY Zenon, <2>1, OlderAge
  <2>4. window'[n] # NoWindow /\ window'[n].age = Older(w.age) /\ window'[n].count = w.count
    BY <2>1, <2>2, <2>3, NoWindowAssumption DEF Windows
  <2> HIDE DEF adm, w, aged
  <2>5. \A i \in 1 .. Len(adm) : Placed(Past(adm[i]), i, Len(adm), w.count, Older(w.age))
    BY <1>1, <1>2, <1>6, <2>1, PlacedMoves DEF BudgetOf
  <2>6. BudgetOf(aged, window'[n])
    BY Zenon, <1>1, <1>4, <1>6, <2>4, <2>5 DEF BudgetOf
  <2> QED
    BY Zenon, <2>6 DEF aged
<1> QED
  BY Zenon, <1>5, <1>6

LEMMA TypeStep == TypeOK /\ GuardInv' /\ [Next]_vars => TypeOK'
<1> SUFFICES ASSUME TypeOK, GuardInv', [Next]_vars PROVE TypeOK'
  BY Zenon
<1>1. ClaimsTypeOK' /\ running' \subseteq Executions
  BY Zenon DEF GuardInv
<1>2. Ages \subseteq Nat /\ 0 \in Ages /\ \A age \in Ages : Past(age) \in Ages
  BY ClaimBoundsAssumption DEF Ages, Past
<1>3. admitted' \in [Nodes -> Seq(Ages)]
  <2>1. CASE UNCHANGED admitted
    BY Zenon, <2>1 DEF TypeOK
  <2>2. ASSUME NEW n \in Nodes, NEW k \in ClaimKeys, NEW ttl \in Ttls[k],
               ClaimUnguarded(n, k, ttl)
        PROVE  admitted' \in [Nodes -> Seq(Ages)]
    BY <1>2, <2>2 DEF ClaimUnguarded, TypeOK
  <2>3. ASSUME NEW n \in Nodes, Crash(n) PROVE admitted' \in [Nodes -> Seq(Ages)]
    BY <2>3 DEF Crash, TypeOK
  <2>4. CASE Tick
    <3> SUFFICES ASSUME NEW n \in Nodes PROVE admitted'[n] \in Seq(Ages)
      BY Zenon, <2>4 DEF Tick
    <3>1. admitted[n] \in Seq(Ages) /\ Len(admitted[n]) \in Nat
      BY DEF TypeOK
    <3>2. \A i \in 1 .. Len(admitted[n]) : Past(admitted[n][i]) \in Ages
      BY SMTT(30), <3>1, ClaimBoundsAssumption DEF Ages, Past
    <3>3. admitted'[n] = [i \in 1 .. Len(admitted[n]) |-> Past(admitted[n][i])]
      BY Zenon, <2>4 DEF Tick
    <3> QED
      BY <3>1, <3>2, <3>3
  <2> QED
    BY Zenon, <2>1, <2>2, <2>3, <2>4
    DEF Next, vars, ClaimWon, ClaimRefused, Finish, Release, Prune
<1>4. errors' \in 0 .. MaxErrors
  <2>1. CASE errors' = errors
    BY Zenon, <2>1 DEF TypeOK
  <2>2. CASE errors < MaxErrors /\ errors' = errors + 1
    BY <2>2, MaxErrorsAssumption DEF TypeOK
  <2> QED
    BY Zenon, <2>1, <2>2
    DEF Next, vars, ClaimWon, ClaimRefused, ClaimUnguarded, StorageError, Finish,
        Release, Crash, Prune, Tick
<1> QED
  BY Zenon, <1>1, <1>3, <1>4 DEF TypeOK

LEMMA BudgetStep == BudgetInv /\ TypeOK' /\ [Next]_vars => BudgetInv'
<1> SUFFICES ASSUME BudgetInv, TypeOK', [Next]_vars, UnguardedMax > 0, NEW n \in Nodes
             PROVE  BudgetOf(admitted'[n], window'[n])
  BY Zenon DEF BudgetInv
<1>1. BudgetOf(admitted[n], window[n])
  BY Zenon DEF BudgetInv
<1>2. CASE admitted'[n] = admitted[n] /\ window'[n] = window[n]
  BY Zenon, <1>1, <1>2
<1>3. ASSUME NEW m \in Nodes, AllowUnguarded(m),
             admitted' = [admitted EXCEPT ![m] = Append(@, 0)]
      PROVE  BudgetOf(admitted'[n], window'[n])
  <2>1. CASE m = n
    BY Zenon, <1>3, <2>1, AdmissionKeepsBudget DEF BudgetInv, TypeOK
  <2>2. CASE m # n
    <3>1. admitted'[n] = admitted[n] /\ window'[n] = window[n]
      BY Zenon, <1>3, <2>2, ClaimBoundsAssumption DEF AllowUnguarded, BudgetInv, TypeOK, ClaimsTypeOK
    <3> QED
      BY Zenon, <1>1, <3>1
  <2> QED
    BY Zenon, <2>1, <2>2
<1>4. ASSUME NEW m \in Nodes, Crash(m) PROVE BudgetOf(admitted'[n], window'[n])
  <2>1. CASE m = n
    BY Zenon, <1>4, <2>1 DEF Crash, ForgetWindow, BudgetInv, TypeOK, ClaimsTypeOK, BudgetOf
  <2>2. CASE m # n
    <3>1. admitted'[n] = admitted[n] /\ window'[n] = window[n]
      BY Zenon, <1>4, <2>2 DEF Crash, ForgetWindow, BudgetInv, TypeOK, ClaimsTypeOK
    <3> QED
      BY <1>1, <3>1
  <2> QED
    BY <2>1, <2>2
<1>5. CASE Tick
  BY Zenon, <1>5, TickKeepsBudget
<1> QED
  BY Zenon, <1>2, <1>3, <1>4, <1>5
  DEF Next, vars, ClaimWon, ClaimRefused, ClaimUnguarded, Finish, Release, Prune

(* Every reachable state of the guard is well typed.                       *)
THEOREM GuardTypeCorrect == Spec => []TypeOK
<1>1. Init => TypeOK
  BY MaxErrorsAssumption DEF Init, ClaimsInit, TypeOK, ClaimsTypeOK
<1> QED
  BY <1>1, TypeStep, GuardInvariant, PTL DEF Spec

(* One process admits at most two budgets of executions without a claim in *)
(* any span as long as its window, for every budget, window length and     *)
(* number of replicas (cluster_guard.go, allowUnguarded).                  *)
THEOREM UnguardedAdmissionsBounded == Spec => []UnguardedBounded
<1>1. Init => BudgetInv
  <2>1. Init => TypeOK
    BY MaxErrorsAssumption DEF Init, ClaimsInit, TypeOK, ClaimsTypeOK
  <2> QED
    BY Zenon, <2>1 DEF Init, ClaimsInit, BudgetInv, BudgetOf
<1>2. BudgetInv => UnguardedBounded
  <2> SUFFICES ASSUME BudgetInv, UnguardedMax > 0, NEW n \in Nodes
               PROVE  Cardinality(Recent(n)) <= 2 * UnguardedMax
    BY Zenon DEF UnguardedBounded
  <2> DEFINE adm == admitted[n]
             count == IF window[n] = NoWindow THEN 0 ELSE window[n].count
             span == Len(adm) - (2 * UnguardedMax) + 1 .. Len(adm)
  <2>1. adm \in Seq(Nat) /\ Len(adm) \in Nat /\ UnguardedMax \in Nat /\ UnguardedWindow \in Nat
    BY ClaimBoundsAssumption DEF BudgetInv, TypeOK, Ages
  <2>2. /\ count \in Nat /\ count <= UnguardedMax
        /\ \A i \in 1 .. Len(adm) :
              i <= Len(adm) - count - UnguardedMax => adm[i] > UnguardedWindow
    BY <2>1 DEF BudgetInv, TypeOK, ClaimsTypeOK, BudgetOf, Placed, Windows
  <2>3. Recent(n) \subseteq span
    <3> HIDE DEF count
    <3> SUFFICES ASSUME NEW i \in Recent(n) PROVE i \in span
      BY Zenon
    <3>1. i \in 1 .. Len(adm) /\ adm[i] <= UnguardedWindow /\ adm[i] \in Nat
      BY <2>1 DEF Recent
    <3>2. ~(i <= Len(adm) - count - UnguardedMax)
      BY <2>1, <2>2, <3>1
    <3> QED
      BY <2>1, <2>2, <3>1, <3>2
  <2>4. IsFiniteSet(span) /\ Cardinality(span) = 2 * UnguardedMax
    <3> HIDE DEF adm
    <3>1. Len(adm) - (2 * UnguardedMax) + 1 \in Int /\ Len(adm) \in Int
      BY <2>1
    <3> QED
      BY SMTT(30), <2>1, <3>1, FS_Interval
  <2>5. Cardinality(Recent(n)) <= Cardinality(span)
    BY Zenon, <2>3, <2>4, FS_Subset
  <2> QED
    BY Zenon, <2>4, <2>5
<1> QED
  BY <1>1, <1>2, BudgetStep, GuardTypeCorrect, PTL DEF Spec

=============================================================================
