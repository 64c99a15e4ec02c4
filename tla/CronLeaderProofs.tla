-------------------------- MODULE CronLeaderProofs --------------------------
(***************************************************************************)
(* The election keeps open gates and advisory locks together, for any      *)
(* number of nodes, leases, faults and lost sessions; and it has a single  *)
(* leader per lease among the nodes whose session the server still has.    *)
(***************************************************************************)
EXTENDS CronLeader, TLAPS

(* A node without a session leads nothing and owns nothing.                *)
NoSessionNoLease ==
    \A n \in Nodes, k \in Leases :
        conn[n] = "none" => (gate[n][k] = FALSE /\ lock[k] # n)

(* Nor does a session lost at the server own anything.                     *)
LostOwnsNothing ==
    \A n \in Nodes, k \in Leases : conn[n] = "lost" => lock[k] # n

(* The gates are closed by the time the session is given up.               *)
ClosedBeforeRelease ==
    \A n \in Nodes, k \in Leases :
        poll[n] \in {"close", "halt", "stopped"} => gate[n][k] = FALSE

(* A poll under way has a session; a stopped node has none.                *)
SessionsByPhase ==
    \A n \in Nodes : /\ poll[n] = "stopped" => conn[n] = "none"
                     /\ poll[n] \in {"ping", "locking"} => conn[n] # "none"

(* Unless it is about to give its session up, a node owns only what it     *)
(* leads.                                                                  *)
OwnedIsLed ==
    \A n \in Nodes, k \in Leases :
        (poll[n] \in {"rest", "ping", "locking", "stopped"} /\ lock[k] = n)
            => gate[n][k] = TRUE

OpenIsOwned ==
    \A n \in Nodes, k \in Leases :
        (gate[n][k] = TRUE /\ conn[n] = "up") => lock[k] = n

LeaderInv ==
    /\ TypeOK
    /\ NoSessionNoLease
    /\ LostOwnsNothing
    /\ ClosedBeforeRelease
    /\ SessionsByPhase
    /\ OwnedIsLed
    /\ OpenIsOwned

USE DEF Phases

LEMMA LeaderInit == Init => LeaderInv
  BY OwnersAssumption, FaultsAssumption
  DEF Init, LeaderInv, TypeOK, NoSessionNoLease, LostOwnsNothing, ClosedBeforeRelease,
      SessionsByPhase, OwnedIsLed, OpenIsOwned

(* The end of a session leaves its node owner of nothing and everybody     *)
(* else's locks where they were.                                           *)
LEMMA HandoverOwners ==
    ASSUME TypeOK, NEW n \in Nodes, NEW owner \in {NoOwner, Ghost}, Handover(n, owner)
    PROVE  /\ lock' \in [Leases -> Nodes \cup {NoOwner, Ghost}]
           /\ \A k \in Leases : lock'[k] # n
           /\ \A k \in Leases, m \in Nodes : m # n => (lock'[k] = m <=> lock[k] = m)
  BY OwnersAssumption DEF Handover, TypeOK

(* The steps of a poll that neither open nor close a gate.                 *)
LEMMA QuietPollInv ==
    ASSUME LeaderInv, NEW n \in Nodes,
           \/ EnsureConn(n) \/ ConnectFails(n) \/ Ping(n) \/ PingFails(n)
           \/ PollEnds(n) \/ Start(n)
    PROVE  LeaderInv'
<1> USE DEF LeaderInv, To
<1>1. CASE EnsureConn(n)
  BY <1>1 DEF EnsureConn, TypeOK, NoSessionNoLease, LostOwnsNothing,
      ClosedBeforeRelease, SessionsByPhase, OwnedIsLed, OpenIsOwned
<1>2. CASE ConnectFails(n)
  BY <1>2, FaultsAssumption DEF ConnectFails, Fault, TypeOK, NoSessionNoLease,
      LostOwnsNothing, ClosedBeforeRelease, SessionsByPhase, OwnedIsLed,
      OpenIsOwned
<1>3. CASE Ping(n)
  <2>1. {k \in Competes[n] : ~gate[n][k]} \in SUBSET Leases
    BY CompetesAssumption
  <2> QED
    BY <1>3, <2>1 DEF Ping, TypeOK, NoSessionNoLease, LostOwnsNothing,
      ClosedBeforeRelease, SessionsByPhase, OwnedIsLed, OpenIsOwned
<1>4. CASE PingFails(n)
  BY <1>4, FaultsAssumption DEF PingFails, Fault, TypeOK, NoSessionNoLease,
      LostOwnsNothing, ClosedBeforeRelease, SessionsByPhase, OwnedIsLed,
      OpenIsOwned
<1>5. CASE PollEnds(n)
  BY <1>5 DEF PollEnds, TypeOK, NoSessionNoLease, LostOwnsNothing,
      ClosedBeforeRelease, SessionsByPhase, OwnedIsLed, OpenIsOwned
<1>6. CASE Start(n)
  BY <1>6 DEF Start, TypeOK, NoSessionNoLease, LostOwnsNothing,
      ClosedBeforeRelease, SessionsByPhase, OwnedIsLed, OpenIsOwned
<1> QED
  BY <1>1, <1>2, <1>3, <1>4, <1>5, <1>6

(* A lock and its gate are taken together.                                 *)
LEMMA TryLockInv ==
    ASSUME LeaderInv, NEW n \in Nodes, NEW j \in Leases, TryLock(n, j)
    PROVE  LeaderInv'
<1>1. /\ poll[n] = "locking" /\ conn[n] = "up"
      /\ conn' = conn /\ poll' = poll /\ losses' = losses /\ faults' = faults
      /\ todo' = [todo EXCEPT ![n] = @ \ {j}]
  BY DEF TryLock
<1>2. CASE lock[j] \in {NoOwner, n}
  <2>1. lock' = [lock EXCEPT ![j] = n] /\ gate' = [gate EXCEPT ![n][j] = TRUE]
    BY <1>2 DEF TryLock
  <2>2. /\ gate'[n][j] = TRUE
        /\ \A m \in Nodes, k \in Leases :
              (m # n \/ k # j) => gate'[m][k] = gate[m][k]
    BY Zenon, <2>1 DEF LeaderInv, TypeOK
  <2>3. \A k \in Leases : lock'[k] = IF k = j THEN n ELSE lock[k]
    BY <2>1 DEF LeaderInv, TypeOK
  <2>4. gate' \in [Nodes -> [Leases -> BOOLEAN]]
    BY <2>1 DEF LeaderInv, TypeOK
  <2>5. TypeOK'
    BY <1>1, <2>1, <2>4 DEF LeaderInv, TypeOK
  <2>6. NoSessionNoLease' /\ LostOwnsNothing' /\ ClosedBeforeRelease'
    <3>1. NoSessionNoLease'
      BY <1>1, <2>2, <2>3 DEF LeaderInv, NoSessionNoLease
    <3>2. LostOwnsNothing'
      BY <1>1, <2>3 DEF LeaderInv, LostOwnsNothing
    <3>3. ClosedBeforeRelease'
      BY <1>1, <2>2 DEF LeaderInv, ClosedBeforeRelease
    <3> QED
      BY <3>1, <3>2, <3>3
  <2>7. OwnedIsLed'
    BY <1>1, <2>2, <2>3 DEF LeaderInv, OwnedIsLed
  <2>8. OpenIsOwned'
    BY <1>1, <1>2, <2>2, <2>3, OwnersAssumption DEF LeaderInv, OpenIsOwned
  <2>9. SessionsByPhase'
    BY <1>1 DEF LeaderInv, SessionsByPhase
  <2> QED
    BY <2>5, <2>6, <2>7, <2>8, <2>9 DEF LeaderInv
<1>3. CASE lock[j] \notin {NoOwner, n}
  <2>1. lock' = lock /\ gate' = gate
    BY <1>3 DEF TryLock
  <2> QED
    BY <1>1, <2>1 DEF LeaderInv, TypeOK, NoSessionNoLease, LostOwnsNothing,
      ClosedBeforeRelease, SessionsByPhase, OwnedIsLed, OpenIsOwned
<1> QED
  BY <1>2, <1>3

(* A lock taken without the answer arriving is on a session to be given up.*)
LEMMA TryLockFailsInv ==
    ASSUME LeaderInv, NEW n \in Nodes, NEW j \in Leases, TryLockFails(n, j)
    PROVE  LeaderInv'
<1>1. /\ poll[n] = "locking" /\ poll' = [poll EXCEPT ![n] = "demote"]
      /\ conn' = conn /\ gate' = gate /\ losses' = losses
      /\ todo' = [todo EXCEPT ![n] = {}]
  BY DEF TryLockFails, To
<1>2. /\ faults' \in 0 .. MaxFaults
      /\ \/ lock' = lock
         \/ conn[n] # "lost" /\ lock[j] = NoOwner /\ lock' = [lock EXCEPT ![j] = n]
  BY FaultsAssumption DEF TryLockFails, Fault, LeaderInv, TypeOK
<1>3. CASE lock' = lock
  BY <1>1, <1>2, <1>3 DEF LeaderInv, TypeOK, NoSessionNoLease, LostOwnsNothing,
    ClosedBeforeRelease, SessionsByPhase, OwnedIsLed, OpenIsOwned
<1>4. CASE conn[n] # "lost" /\ lock[j] = NoOwner /\ lock' = [lock EXCEPT ![j] = n]
  <2>1. \A k \in Leases : lock'[k] = IF k = j THEN n ELSE lock[k]
    BY <1>4 DEF LeaderInv, TypeOK
  <2>2. conn[n] # "none"
    BY <1>1 DEF LeaderInv, SessionsByPhase
  <2>3. TypeOK'
    BY <1>1, <1>2, <1>4 DEF LeaderInv, TypeOK
  <2>4. NoSessionNoLease' /\ LostOwnsNothing' /\ ClosedBeforeRelease'
    BY <1>1, <1>4, <2>1, <2>2
    DEF LeaderInv, TypeOK, NoSessionNoLease, LostOwnsNothing, ClosedBeforeRelease
  <2>5. OwnedIsLed'
    BY <1>1, <2>1 DEF LeaderInv, TypeOK, OwnedIsLed
  <2>6. OpenIsOwned'
    BY <1>1, <1>4, <2>1, OwnersAssumption DEF LeaderInv, OpenIsOwned
  <2>7. SessionsByPhase'
    BY <1>1 DEF LeaderInv, TypeOK, SessionsByPhase
  <2> QED
    BY <2>3, <2>4, <2>5, <2>6, <2>7 DEF LeaderInv
<1> QED
  BY <1>2, <1>3, <1>4

(* Closing every gate of a node that is about to give its session up.      *)
LEMMA CloseGatesInv ==
    ASSUME LeaderInv, NEW n \in Nodes, Demote(n) \/ Cleanup(n)
    PROVE  LeaderInv'
<1>1. /\ gate' = [gate EXCEPT ![n] = [k \in Leases |-> FALSE]]
      /\ conn' = conn /\ todo' = todo /\ lock' = lock /\ losses' = losses
      /\ faults' \in 0 .. MaxFaults
      /\ poll[n] # "stopped"
      /\ \E phase \in {"close", "halt"} : poll' = [poll EXCEPT ![n] = phase]
  BY FaultsAssumption DEF Demote, Cleanup, To, Fault, LeaderInv, TypeOK
<1>2. \A m \in Nodes, k \in Leases :
         gate'[m][k] = IF m = n THEN FALSE ELSE gate[m][k]
  BY <1>1 DEF LeaderInv, TypeOK
<1>3. TypeOK'
  BY <1>1 DEF LeaderInv, TypeOK
<1>4. NoSessionNoLease' /\ LostOwnsNothing'
  BY <1>1, <1>2 DEF LeaderInv, NoSessionNoLease, LostOwnsNothing
<1>5. ClosedBeforeRelease' /\ SessionsByPhase' /\ OwnedIsLed'
  BY <1>1, <1>2
  DEF LeaderInv, TypeOK, ClosedBeforeRelease, SessionsByPhase, OwnedIsLed
<1>6. OpenIsOwned'
  BY <1>1, <1>2 DEF LeaderInv, OpenIsOwned
<1> QED
  BY <1>3, <1>4, <1>5, <1>6 DEF LeaderInv

(* A node without open gates gives its session up.                         *)
LEMMA ReleaseSessionInv ==
    ASSUME LeaderInv, NEW n \in Nodes, CloseConn(n) \/ Crash(n)
    PROVE  LeaderInv'
<1>1. PICK owner \in {NoOwner, Ghost} : Handover(n, owner)
  BY DEF CloseConn, Crash
<1>2. /\ lock' \in [Leases -> Nodes \cup {NoOwner, Ghost}]
      /\ \A k \in Leases : lock'[k] # n
      /\ \A k \in Leases, m \in Nodes : m # n => (lock'[k] = m <=> lock[k] = m)
  BY <1>1, HandoverOwners DEF LeaderInv
<1>3. /\ conn' = [conn EXCEPT ![n] = "none"] /\ losses' = losses
      /\ faults' \in 0 .. MaxFaults
      /\ \E phase \in {"rest", "stopped"} : poll' = [poll EXCEPT ![n] = phase]
  BY FaultsAssumption DEF CloseConn, Crash, To, Fault, LeaderInv, TypeOK
<1>4. /\ todo' \in [Nodes -> SUBSET Leases] /\ gate' \in [Nodes -> [Leases -> BOOLEAN]]
      /\ \A k \in Leases : gate'[n][k] = FALSE
      /\ \A m \in Nodes, k \in Leases : m # n => gate'[m][k] = gate[m][k]
  <2>1. CASE CloseConn(n)
    <3>1. gate' = gate /\ todo' = todo /\ poll[n] \in {"close", "halt"}
      BY <2>1 DEF CloseConn
    <3> QED
      BY <3>1 DEF LeaderInv, TypeOK, ClosedBeforeRelease
  <2>2. CASE Crash(n)
    <3>1. /\ gate' = [gate EXCEPT ![n] = [k \in Leases |-> FALSE]]
          /\ todo' = [todo EXCEPT ![n] = {}]
      BY <2>2 DEF Crash
    <3> QED
      BY <3>1 DEF LeaderInv, TypeOK
  <2> QED
    BY Zenon, <2>1, <2>2
<1>5. TypeOK'
  <2>1. conn' \in [Nodes -> {"none", "up", "lost"}] /\ poll' \in [Nodes -> Phases]
    BY <1>3 DEF LeaderInv, TypeOK
  <2>2. losses' \in 0 .. MaxLosses
    BY <1>3 DEF LeaderInv, TypeOK
  <2> QED
    BY <1>2, <1>3, <1>4, <2>1, <2>2 DEF TypeOK
<1>6. NoSessionNoLease' /\ LostOwnsNothing'
  BY <1>2, <1>3, <1>4 DEF LeaderInv, TypeOK, NoSessionNoLease, LostOwnsNothing
<1>7. ClosedBeforeRelease' /\ SessionsByPhase' /\ OwnedIsLed'
  BY <1>2, <1>3, <1>4
  DEF LeaderInv, TypeOK, ClosedBeforeRelease, SessionsByPhase, OwnedIsLed
<1>8. OpenIsOwned'
  BY <1>2, <1>3, <1>4 DEF LeaderInv, TypeOK, OpenIsOwned
<1> QED
  BY <1>5, <1>6, <1>7, <1>8 DEF LeaderInv

LEMMA SessionLostInv ==
    ASSUME LeaderInv, NEW n \in Nodes, SessionLost(n)
    PROVE  LeaderInv'
<1>1. /\ lock' \in [Leases -> Nodes \cup {NoOwner, Ghost}]
      /\ \A k \in Leases : lock'[k] # n
      /\ \A k \in Leases, m \in Nodes : m # n => (lock'[k] = m <=> lock[k] = m)
  BY HandoverOwners DEF LeaderInv, SessionLost
<1>2. /\ conn[n] = "up" /\ conn' = [conn EXCEPT ![n] = "lost"]
      /\ losses' \in 0 .. MaxLosses /\ losses' > 0
      /\ gate' = gate /\ poll' = poll /\ todo' = todo /\ faults' = faults
  BY FaultsAssumption DEF SessionLost, LeaderInv, TypeOK
<1>3. TypeOK'
  BY <1>1, <1>2 DEF LeaderInv, TypeOK
<1>4. NoSessionNoLease' /\ LostOwnsNothing' /\ ClosedBeforeRelease'
  BY <1>1, <1>2
  DEF LeaderInv, TypeOK, NoSessionNoLease, LostOwnsNothing, ClosedBeforeRelease
<1>5. SessionsByPhase' /\ OwnedIsLed' /\ OpenIsOwned'
  BY <1>1, <1>2
  DEF LeaderInv, TypeOK, SessionsByPhase, OwnedIsLed, OpenIsOwned
<1> QED
  BY <1>3, <1>4, <1>5 DEF LeaderInv

LEMMA GhostEndsInv ==
    ASSUME LeaderInv, NEW j \in Leases, GhostEnds(j)
    PROVE  LeaderInv'
<1>1. \A m \in Nodes, k \in Leases : lock'[k] = m <=> lock[k] = m
  BY OwnersAssumption DEF GhostEnds, LeaderInv, TypeOK
<1>2. lock' \in [Leases -> Nodes \cup {NoOwner, Ghost}]
  BY DEF GhostEnds, LeaderInv, TypeOK
<1>3. /\ gate' = gate /\ conn' = conn /\ poll' = poll /\ todo' = todo
      /\ losses' = losses /\ faults' = faults
  BY DEF GhostEnds
<1> QED
  BY <1>1, <1>2, <1>3 DEF LeaderInv, TypeOK, NoSessionNoLease, LostOwnsNothing,
    ClosedBeforeRelease, SessionsByPhase, OwnedIsLed, OpenIsOwned

LEMMA LeaderStep == LeaderInv /\ [Next]_vars => LeaderInv'
<1> SUFFICES ASSUME LeaderInv, [Next]_vars PROVE LeaderInv'
  OBVIOUS
<1>1. CASE UNCHANGED vars
  BY <1>1 DEF vars, LeaderInv, TypeOK, NoSessionNoLease, LostOwnsNothing,
    ClosedBeforeRelease, SessionsByPhase, OwnedIsLed, OpenIsOwned
<1>2. CASE Next
  BY <1>2, QuietPollInv, TryLockInv, TryLockFailsInv, CloseGatesInv,
     ReleaseSessionInv, SessionLostInv, GhostEndsInv DEF Next
<1> QED
  BY <1>1, <1>2

LEMMA LeaderInvariant == Spec => []LeaderInv
  BY LeaderInit, LeaderStep, PTL DEF Spec

(* Every open gate of a connected node has the advisory lock behind it     *)
(* (cron_leader.go, poll and closeConn), whatever fails and however often. *)
THEOREM GatesHoldLocks == Spec => []OpenGateHoldsLock
<1>1. LeaderInv => OpenGateHoldsLock
  BY DEF LeaderInv, TypeOK, OpenIsOwned, OpenGateHoldsLock
<1> QED
  BY <1>1, LeaderInvariant, PTL

(* No node at rest keeps a lock it does not lead with (closeConn discards  *)
(* the session of a query whose answer was lost).                          *)
THEOREM LocksNotStranded == Spec => []NoStrandedLock
<1>1. LeaderInv => NoStrandedLock
  BY DEF LeaderInv, OwnedIsLed, NoStrandedLock
<1> QED
  BY <1>1, LeaderInvariant, PTL

(* A lease has one leader among the nodes the server has not cut off:     *)
(* failed pings and queries, lost answers, demotions, stops and crashes    *)
(* never leave two gates open.                                             *)
THEOREM SingleLeader == Spec => []OneOpenGate
<1>1. LeaderInv => OneOpenGate
  <2> SUFFICES ASSUME LeaderInv, NEW m \in Nodes, NEW n \in Nodes, NEW k \in Leases,
                      gate[m][k], gate[n][k], conn[m] # "lost", conn[n] # "lost"
               PROVE  m = n
    BY DEF OneOpenGate
  <2>1. gate[m][k] = TRUE /\ gate[n][k] = TRUE
    BY DEF LeaderInv, TypeOK
  <2>2. conn[m] # "none" /\ conn[n] # "none"
    BY <2>1 DEF LeaderInv, NoSessionNoLease
  <2>3. conn[m] = "up" /\ conn[n] = "up"
    BY <2>2 DEF LeaderInv, TypeOK
  <2> QED
    BY <2>1, <2>3 DEF LeaderInv, OpenIsOwned
<1> QED
  BY <1>1, LeaderInvariant, PTL

=============================================================================
