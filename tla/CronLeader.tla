----------------------------- MODULE CronLeader -----------------------------
(***************************************************************************)
(* The election of the node that runs scheduled automations                *)
(* (component/automations/cron_leader.go).  Each node keeps one database   *)
(* session and tries, every poll, to take on it the advisory lock of every *)
(* lease it competes for; a lease's gate is open while the node believes   *)
(* it holds the lock.  The scheduler fires a cron entry where its gate is  *)
(* open (scheduler.go, scheduleLeaderOK).                                  *)
(*                                                                         *)
(* PostgreSQL is external.  What the code relies on: a lock belongs to a   *)
(* session, and ends with it.  A session the client has discarded may live *)
(* on at the server for a while, and one the server has lost may go        *)
(* unnoticed by the client until it next uses it.                          *)
(***************************************************************************)
EXTENDS Naturals

CONSTANTS
    Nodes,
    Leases,        \* the lock keys: the general one and those of the scopes
    Competes,      \* the leases each node has registered
    NoOwner,       \* a lock nobody holds
    Ghost,         \* a session discarded by its client, not yet by the server
    MaxLosses,     \* bound on sessions lost at the server
    MaxFaults      \* bound on failed connects, pings, queries; crashes; stops

ASSUME CompetesAssumption == Competes \in [Nodes -> SUBSET Leases]
ASSUME OwnersAssumption == NoOwner \notin Nodes /\ Ghost \notin Nodes /\ Ghost # NoOwner
ASSUME FaultsAssumption == MaxLosses \in Nat /\ MaxFaults \in Nat

VARIABLES
    gate,      \* leases: the atomic flags the scheduler reads
    conn,      \* each node's session: "none", "up", or "lost" unnoticed
    poll,      \* where each node's poll stands (cl.mu is held but at "rest")
    todo,      \* the keys a poll has still to try
    lock,      \* the server's owner of each advisory lock
    losses,
    faults

vars == <<gate, conn, poll, todo, lock, losses, faults>>

Phases == {"rest", "ping", "locking", "demote", "close", "halt", "stopped"}

TypeOK ==
    /\ gate \in [Nodes -> [Leases -> BOOLEAN]]
    /\ conn \in [Nodes -> {"none", "up", "lost"}]
    /\ poll \in [Nodes -> Phases]
    /\ todo \in [Nodes -> SUBSET Leases]
    /\ lock \in [Leases -> Nodes \cup {NoOwner, Ghost}]
    /\ losses \in 0 .. MaxLosses
    /\ faults \in 0 .. MaxFaults

Init ==
    /\ gate = [n \in Nodes |-> [k \in Leases |-> FALSE]]
    /\ conn = [n \in Nodes |-> "none"]
    /\ poll = [n \in Nodes |-> "rest"]
    /\ todo = [n \in Nodes |-> {}]
    /\ lock = [k \in Leases |-> NoOwner]
    /\ losses = 0
    /\ faults = 0

Fault == faults < MaxFaults /\ faults' = faults + 1

To(n, phase) == poll' = [poll EXCEPT ![n] = phase]

(* The server's side of the end of n's session.                            *)
Handover(n, owner) ==
    lock' = [k \in Leases |-> IF lock[k] = n THEN owner ELSE lock[k]]

-----------------------------------------------------------------------------
(* poll                                                                    *)

(* Slip: a lost session is replaced behind the gates' back.                *)
EnsureConn_Reconnects(n) ==
    /\ poll[n] = "rest"
    /\ conn' = [conn EXCEPT ![n] = "up"]
    /\ To(n, "ping")
    /\ UNCHANGED <<gate, todo, lock, losses, faults>>

(* ensureConn: the session there is, or a new one.                         *)
EnsureConn(n) ==
    /\ poll[n] = "rest"
    /\ conn' = [conn EXCEPT ![n] = IF @ = "none" THEN "up" ELSE @]
    /\ To(n, "ping")
    /\ UNCHANGED <<gate, todo, lock, losses, faults>>

ConnectFails(n) ==
    /\ poll[n] = "rest" /\ conn[n] = "none"
    /\ Fault
    /\ To(n, "demote")
    /\ UNCHANGED <<gate, conn, todo, lock, losses>>

(* The session answers: every lease not held is tried next.                *)
Ping(n) ==
    /\ poll[n] = "ping" /\ conn[n] = "up"
    /\ todo' = [todo EXCEPT ![n] = {k \in Competes[n] : ~gate[n][k]}]
    /\ To(n, "locking")
    /\ UNCHANGED <<gate, conn, lock, losses, faults>>

(* A lost session does not answer; a live one may not in time.             *)
PingFails(n) ==
    /\ poll[n] = "ping"
    /\ IF conn[n] = "lost" THEN UNCHANGED faults ELSE Fault
    /\ To(n, "demote")
    /\ UNCHANGED <<gate, conn, todo, lock, losses>>

(* pg_try_advisory_lock, answered.                                         *)
TryLock(n, k) ==
    /\ poll[n] = "locking" /\ conn[n] = "up"
    /\ k \in todo[n]
    /\ todo' = [todo EXCEPT ![n] = @ \ {k}]
    /\ IF lock[k] \in {NoOwner, n}
         THEN /\ lock' = [lock EXCEPT ![k] = n]
              /\ gate' = [gate EXCEPT ![n][k] = TRUE]
         ELSE UNCHANGED <<lock, gate>>
    /\ UNCHANGED <<conn, poll, losses, faults>>

(* Its answer does not come; a live session may have taken the lock.       *)
TryLockFails(n, k) ==
    /\ poll[n] = "locking"
    /\ k \in todo[n]
    /\ IF conn[n] = "lost" THEN UNCHANGED <<lock, faults>>
       ELSE /\ Fault
            /\ \/ lock[k] = NoOwner /\ lock' = [lock EXCEPT ![k] = n]
               \/ UNCHANGED lock
    /\ todo' = [todo EXCEPT ![n] = {}]
    /\ To(n, "demote")
    /\ UNCHANGED <<gate, conn, losses>>

PollEnds(n) ==
    /\ poll[n] = "locking" /\ todo[n] = {}
    /\ To(n, "rest")
    /\ UNCHANGED <<gate, conn, todo, lock, losses, faults>>

-----------------------------------------------------------------------------
(* demote, cleanup and closeConn                                           *)

(* Slip: the session goes and the flags stay.                              *)
Demote_KeepsGates(n) ==
    /\ poll[n] = "demote"
    /\ To(n, "close")
    /\ UNCHANGED <<gate, conn, todo, lock, losses, faults>>

(* Every gate closes before the session goes.                              *)
Demote(n) ==
    /\ poll[n] = "demote"
    /\ gate' = [gate EXCEPT ![n] = [k \in Leases |-> FALSE]]
    /\ To(n, "close")
    /\ UNCHANGED <<conn, todo, lock, losses, faults>>

(* cleanup, the stop hook.                                                 *)
Cleanup(n) ==
    /\ poll[n] = "rest"
    /\ Fault
    /\ gate' = [gate EXCEPT ![n] = [k \in Leases |-> FALSE]]
    /\ To(n, "halt")
    /\ UNCHANGED <<conn, todo, lock, losses>>

(* Slips: the session goes back to its pool, locks and all; the closed     *)
(* session stays the one the next poll uses.                               *)
CloseConn_ToPool(n) ==
    /\ poll[n] \in {"close", "halt"}
    /\ conn' = [conn EXCEPT ![n] = "none"]
    /\ To(n, IF poll[n] = "halt" THEN "stopped" ELSE "rest")
    /\ UNCHANGED <<gate, todo, lock, losses, faults>>

CloseConn_KeepsConn(n) ==
    /\ poll[n] \in {"close", "halt"}
    /\ Handover(n, NoOwner) \/ Handover(n, Ghost)
    /\ To(n, IF poll[n] = "halt" THEN "stopped" ELSE "rest")
    /\ UNCHANGED <<gate, conn, todo, losses, faults>>

(* pg_advisory_unlock_all and the discard of the session.  Where neither   *)
(* reaches the server, the locks stay with a session nobody uses.          *)
CloseConn(n) ==
    /\ poll[n] \in {"close", "halt"}
    /\ Handover(n, NoOwner) \/ Handover(n, Ghost)
    /\ conn' = [conn EXCEPT ![n] = "none"]
    /\ To(n, IF poll[n] = "halt" THEN "stopped" ELSE "rest")
    /\ UNCHANGED <<gate, todo, losses, faults>>

Start(n) ==
    /\ poll[n] = "stopped"
    /\ To(n, "rest")
    /\ UNCHANGED <<gate, conn, todo, lock, losses, faults>>

(* The process dies at any point; its flags and its session die with it.   *)
Crash(n) ==
    /\ poll[n] # "stopped"
    /\ Fault
    /\ gate' = [gate EXCEPT ![n] = [k \in Leases |-> FALSE]]
    /\ conn' = [conn EXCEPT ![n] = "none"]
    /\ todo' = [todo EXCEPT ![n] = {}]
    /\ Handover(n, NoOwner) \/ Handover(n, Ghost)
    /\ To(n, "stopped")
    /\ UNCHANGED losses

-----------------------------------------------------------------------------
(* The server                                                              *)

(* It drops a session: a failover, a reset, a backend terminated.          *)
SessionLost(n) ==
    /\ conn[n] = "up"
    /\ losses < MaxLosses
    /\ losses' = losses + 1
    /\ conn' = [conn EXCEPT ![n] = "lost"]
    /\ Handover(n, NoOwner)
    /\ UNCHANGED <<gate, poll, todo, faults>>

(* It notices that a client is gone.                                       *)
GhostEnds(k) ==
    /\ lock[k] = Ghost
    /\ lock' = [lock EXCEPT ![k] = NoOwner]
    /\ UNCHANGED <<gate, conn, poll, todo, losses, faults>>

-----------------------------------------------------------------------------

(* What a node does of itself, once it runs and while nothing fails.       *)
Step(n) ==
    \/ EnsureConn(n)
    \/ Ping(n)
    \/ conn[n] = "lost" /\ PingFails(n)
    \/ \E k \in Leases : TryLock(n, k)
    \/ conn[n] = "lost" /\ \E k \in Leases : TryLockFails(n, k)
    \/ PollEnds(n)
    \/ Demote(n)
    \/ CloseConn(n)
    \/ Start(n)

Next ==
    \/ \E n \in Nodes :
          \/ EnsureConn(n) \/ ConnectFails(n)
          \/ Ping(n) \/ PingFails(n)
          \/ \E k \in Leases : TryLock(n, k) \/ TryLockFails(n, k)
          \/ PollEnds(n)
          \/ Demote(n) \/ Cleanup(n) \/ CloseConn(n)
          \/ Start(n) \/ Crash(n)
          \/ SessionLost(n)
    \/ \E k \in Leases : GhostEnds(k)

Spec == Init /\ [][Next]_vars

(* Nodes keep polling, and the server ends the sessions of clients gone.   *)
FairSpec ==
    /\ Spec
    /\ \A n \in Nodes : WF_vars(Step(n))
    /\ \A k \in Leases : WF_vars(GhostEnds(k))

-----------------------------------------------------------------------------
(* Properties                                                              *)

(* While a node's session lives, an open gate has the lock behind it: of   *)
(* the nodes that may fire a lease, at most one is not cut off from the    *)
(* server.                                                                 *)
OpenGateHoldsLock ==
    \A n \in Nodes, k \in Leases :
        (gate[n][k] /\ conn[n] = "up") => lock[k] = n

(* A node at rest holds the lock of no lease whose gate it keeps closed:   *)
(* a lock taken by a query whose answer was lost is given up with the      *)
(* session ("including a key acquired just before a query's response was   *)
(* lost", closeConn), so it does not keep the lease from every node.       *)
NoStrandedLock ==
    \A n \in Nodes, k \in Leases :
        (poll[n] \in {"rest", "stopped"} /\ lock[k] = n) => gate[n][k]

(* "better to skip a maintenance cron than double-run a non-idempotent     *)
(* one" (CronLeader): no lease has its gate open on two nodes at once.     *)
(* The exception is a node whose session the server has dropped: it finds  *)
(* out at the Ping of its next poll, and until then its gate is open.      *)
OneOpenGate ==
    \A m, n \in Nodes, k \in Leases :
        ( /\ gate[m][k] /\ conn[m] # "lost"
          /\ gate[n][k] /\ conn[n] # "lost" ) => m = n

(* Failover: a lease some node competes for never stays without a leader.  *)
LeaseIsLed ==
    \A k \in {j \in Leases : \E n \in Nodes : j \in Competes[n]} :
        []<>(\E n \in Nodes : gate[n][k])

=============================================================================
