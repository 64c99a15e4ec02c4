----------------------------- MODULE JobCreation -----------------------------
(***************************************************************************)
(* How one attempt of a pipeline step becomes at most one Kubernetes Job   *)
(* (integrations/pipelinesteps: runner.go, creation.go, retirement.go,     *)
(* cleanup_receipt.go).  The agent forwards the attempt to any workbench   *)
(* replica, and forwards it again when it loses sight of the first; every  *)
(* forward is a Run.  The Runs share what the API server holds: the        *)
(* attempt's Secret, whose annotation says whether a Job POST may have     *)
(* left; the Job; and the stop markers that cleanups leave behind.         *)
(*                                                                         *)
(* An API call is one step.  A compare-and-swap on a resourceVersion is a  *)
(* read that every later write of the object spoils, so versions need no   *)
(* numbers.  A POST leaves its creator, arrives later or never, and is     *)
(* answered or not.  How the Runs share a Job that stands is left out: one *)
(* that watches it may end at any time.                                    *)
(*                                                                         *)
(* Replicas read the time on clocks of their own: a Run may find another's *)
(* claim fresh or stale, and the run's ceiling passed, whenever it looks.  *)
(***************************************************************************)
EXTENDS Naturals

CONSTANTS
    Runs,         \* the Runs the agent's forwards start
    Cleaners,     \* the driver's acknowledgements (Ack) and cancels (CancelRun)
    None,         \* no Run
    MaxMade       \* bound on Jobs made under the attempt's name

Actors == Runs \cup Cleaners

ASSUME ActorsAssumption == Runs \cap Cleaners = {} /\ None \notin Runs
ASSUME BoundsAssumption == MaxMade \in Nat

VARIABLES
    at,         \* where each Run and each cleanup call stands
    recovers,   \* the Runs a recovering driver sent (RecoverOnly)
    cancels,    \* the cleanup calls that cancel the pipeline run
    prepared,   \* secretPrepared: the Runs that made or found the Secret
    current,    \* the actors whose read of the Secret no write has spoiled
    sawJob,     \* the cleanups that read the Job as standing
    secret,     \* the attempt's Secret: absent, queued, or creating by a Run
    job,        \* the attempt's Job
    post,       \* each Run's Job POST: none sent, in flight, its fate, or over
    marker,     \* the attempt's stop marker: none, new, or latePostWindow old
    runMarker,  \* whether the pipeline run's stop marker stands
    made,       \* history: Jobs made under the attempt's name
    late        \* history: whether a POST was still out when the window passed

vars == <<at, recovers, cancels, prepared, current, sawJob, secret, job, post, marker, runMarker, made, late>>

memory == <<recovers, prepared>>

CleanupSteps == {"c_job", "c_mark", "c_secret", "c_dropSecret", "c_dropJob"}
RunSteps ==
    CleanupSteps \cup
    {"idle", "read", "rmeta", "rjob", "check0", "secret", "check1", "meta", "cas",
     "first2", "last2", "post", "sent", "watch", "abandon", "done"}
CleanerSteps ==
    CleanupSteps \cup
    {"idle", "c_run", "c_listJobs", "c_listSecrets", "c_noJob", "c_noSecret", "confirmed"}

Absent == [state |-> "absent", by |-> None]
Queued == [state |-> "queued", by |-> None]
Creating(r) == [state |-> "creating", by |-> r]

TypeOK ==
    /\ at \in [Actors -> RunSteps \cup CleanerSteps]
    /\ \A r \in Runs : at[r] \in RunSteps
    /\ \A c \in Cleaners : at[c] \in CleanerSteps
    /\ recovers \subseteq Runs /\ cancels \subseteq Cleaners
    /\ prepared \subseteq Runs /\ current \subseteq Actors /\ sawJob \subseteq Actors
    /\ secret \in {Absent, Queued} \cup {Creating(r) : r \in Runs}
    /\ job \in {"none", "up", "deleting"}
    /\ post \in [Runs -> {"none", "flight", "made", "exists", "refused", "rejected", "over"}]
    /\ marker \in {"none", "new", "aged"} /\ runMarker \in BOOLEAN
    /\ made \in 0 .. MaxMade /\ late \in BOOLEAN

Init ==
    /\ at = [a \in Actors |-> "idle"]
    /\ recovers = {} /\ cancels = {} /\ prepared = {} /\ current = {} /\ sawJob = {}
    /\ secret = Absent
    /\ job = "none"
    /\ post = [r \in Runs |-> "none"]
    /\ marker = "none" /\ runMarker = FALSE
    /\ made = 0 /\ late = FALSE

-----------------------------------------------------------------------------
(* From here a Run makes no Job any more, and what it remembers is not     *)
(* read again.                                                             *)
Idles == {"rjob", "watch", "abandon", "c_job", "done"}

Goto(a, step) ==
    /\ at' = [at EXCEPT ![a] = step]
    /\ recovers' = IF step \in Idles THEN recovers \ {a} ELSE recovers
    /\ prepared' = IF step \in Idles THEN prepared \ {a} ELSE prepared

(* Every write of the Secret spoils the reads made of it.                  *)
WriteSecret(new) == secret' = new /\ current' = {}

(* Slip: the claim goes back with its creator's name still in it.          *)
Released_KeepsName(r) ==
    IF secret = Creating(r) THEN [secret EXCEPT !.state = "queued"] ELSE secret

(* A Run's claim goes back to queued; another's is never touched.          *)
Released(r) == IF secret = Creating(r) THEN Queued ELSE secret

-----------------------------------------------------------------------------
(* execute.                                                                *)

Forward(r) ==
    /\ at[r] = "idle"
    /\ at' = [at EXCEPT ![r] = "read"]
    /\ recovers' \in {recovers, recovers \cup {r}}
    /\ UNCHANGED <<cancels, prepared, current, sawJob, secret, job, post, marker, runMarker, made, late>>

(* The Job is read: one that stands is waited on or claimed; no Job after  *)
(* a POST that was not answered is an uncertain outcome.                   *)
ReadJob(r) ==
    /\ at[r] = "read"
    /\ Goto(r, IF job # "none" THEN "watch"
               ELSE IF post[r] # "none" THEN "done"
               ELSE IF r \in recovers THEN "rmeta" ELSE "check0")
    /\ UNCHANGED <<cancels, current, sawJob, secret, job, post, marker, runMarker, made, late>>

(* A recovery goes on from a queued Secret or its own claim only; another  *)
(* Run's claim is waited on while fresh and uncertain once stale.          *)
RecoverMeta(r) ==
    /\ at[r] = "rmeta"
    /\ \/ secret = Absent /\ Goto(r, "rjob")
       \/ secret \in {Queued, Creating(r)} /\ Goto(r, "check0")
       \/ /\ secret \notin {Absent, Queued, Creating(r)}
          /\ \E next \in {"read", "done"} : Goto(r, next)
    /\ UNCHANGED <<cancels, current, sawJob, secret, job, post, marker, runMarker, made, late>>

(* The Job is read again after a Secret that proves nothing.               *)
RecoverJob(r) ==
    /\ at[r] = "rjob"
    /\ Goto(r, IF job # "none" THEN "watch" ELSE "done")
    /\ UNCHANGED <<cancels, current, sawJob, secret, job, post, marker, runMarker, made, late>>

(* A Run that holds or waits on the Job ends with it: settled by the one   *)
(* that holds it, or deleted under it.                                     *)
EndWatch(r) ==
    /\ at[r] = "watch"
    /\ Goto(r, "done")
    /\ UNCHANGED <<cancels, current, sawJob, secret, job, post, marker, runMarker, made, late>>

-----------------------------------------------------------------------------
(* create: the Secret, the creation claim, the POST.                       *)

(* checkRetirement before the Secret and before the claim.  The markers    *)
(* are never taken away, so its two reads may be one step here.            *)
CheckRetirement(r) ==
    /\ \/ at[r] = "check0" /\ Goto(r, IF runMarker \/ marker # "none" THEN "abandon" ELSE "secret")
       \/ at[r] = "check1" /\ Goto(r, IF runMarker \/ marker # "none" THEN "abandon" ELSE "meta")
       \/ at[r] \in {"check0", "check1"} /\ Goto(r, "done")
    /\ UNCHANGED <<cancels, current, sawJob, secret, job, post, marker, runMarker, made, late>>

(* cloudAdmitted, asked before anything else: a hold leaves the queued     *)
(* record, so that a recovery can tell the wait from a command sent.       *)
AdmissionHeld(r) ==
    /\ at[r] = "secret"
    /\ at' = [at EXCEPT ![r] = "read"]
    /\ prepared' = prepared \cup ({r} \ recovers)
    /\ IF secret = Absent /\ r \notin recovers \cup prepared
       THEN WriteSecret(Queued)
       ELSE UNCHANGED <<secret, current>>
    /\ UNCHANGED <<recovers, cancels, sawJob, job, post, marker, runMarker, made, late>>

(* CreateSecret: the queued record, unless one stands; a recovery makes    *)
(* none, and a Run that has been here makes it again only if all it left   *)
(* was the admission's.                                                    *)
CreateSecret(r) ==
    /\ at[r] = "secret"
    /\ at' = [at EXCEPT ![r] = "check1"]
    /\ prepared' = prepared \cup {r}
    /\ \/ secret = Absent /\ r \notin recovers /\ WriteSecret(Queued)
       \/ (secret # Absent \/ r \in recovers \cup prepared) /\ UNCHANGED <<secret, current>>
    /\ UNCHANGED <<recovers, cancels, sawJob, job, post, marker, runMarker, made, late>>

(* The run's ceiling found passed: a Run that prepared the Secret cleans   *)
(* the attempt up (deleteSecret), any other only answers.                  *)
CeilingPassed(r) ==
    /\ at[r] \in {"secret", "check1"}
    /\ IF r \in prepared
       THEN Goto(r, "c_job") /\ WriteSecret(Released(r))
       ELSE Goto(r, "done") /\ UNCHANGED <<secret, current>>
    /\ UNCHANGED <<cancels, sawJob, job, post, marker, runMarker, made, late>>

(* claimCreation reads the Secret.                                         *)
ClaimMeta(r) ==
    /\ at[r] = "meta"
    /\ \/ secret = Creating(r) /\ Goto(r, "first2") /\ UNCHANGED current
       \/ secret = Queued /\ Goto(r, "cas") /\ current' = current \cup {r}
       \/ secret = Absent /\ Goto(r, "rjob") /\ UNCHANGED current
       \/ /\ secret \notin {Absent, Queued, Creating(r)}
          /\ \E next \in {"read", "rjob"} : Goto(r, next)
          /\ UNCHANGED current
    /\ UNCHANGED <<cancels, sawJob, secret, job, post, marker, runMarker, made, late>>

(* SetCreationState on the Secret as read.  A conflict, or an answer that  *)
(* is lost, sends the Run back to the Job; it knows its own claim again by *)
(* its value.                                                              *)
ClaimCreation(r) ==
    /\ at[r] = "cas"
    /\ \/ r \in current /\ WriteSecret(Creating(r)) /\ (\E next \in {"first2", "read"} : Goto(r, next))
       \/ Goto(r, "read") /\ current' = current \ {r} /\ UNCHANGED secret
    /\ UNCHANGED <<cancels, sawJob, job, post, marker, runMarker, made, late>>

(* Slip: the attempt's marker is read first and the run's last.            *)
StopSeen_AttemptFirst(n) == IF n = 1 THEN marker # "none" ELSE runMarker

(* checkRetirement before the POST reads the attempt's marker last.        *)
StopSeen(n) == IF n = 1 THEN runMarker ELSE marker # "none"

(* A marker sends the Run to abandon, which gives its unused claim back; a *)
(* read that fails gives it back and answers.                              *)
CheckBeforePost(r) ==
    /\ \/ at[r] = "first2" /\ Goto(r, IF StopSeen(1) THEN "abandon" ELSE "last2") /\ UNCHANGED <<secret, current>>
       \/ at[r] = "last2" /\ Goto(r, IF StopSeen(2) THEN "abandon" ELSE "post") /\ UNCHANGED <<secret, current>>
       \/ at[r] \in {"first2", "last2"} /\ Goto(r, "done") /\ WriteSecret(Released(r))
    /\ UNCHANGED <<cancels, sawJob, job, post, marker, runMarker, made, late>>

(* cloudAdmitted once more: a hold gives the unused claim back.            *)
CloudHeld(r) ==
    /\ at[r] = "post"
    /\ Goto(r, IF secret \in {Queued, Creating(r)} THEN "read" ELSE "done")
    /\ WriteSecret(Released(r))
    /\ UNCHANGED <<cancels, sawJob, job, post, marker, runMarker, made, late>>

SendPost(r) ==
    /\ at[r] = "post"
    /\ Goto(r, "sent")
    /\ post' = [post EXCEPT ![r] = "flight"]
    /\ UNCHANGED <<cancels, current, sawJob, secret, job, marker, runMarker, made, late>>

(* Slip: an unanswered POST gives the claim back, as a refused one does.   *)
PostUnanswered_Releases(r) ==
    /\ at[r] = "sent"
    /\ Goto(r, "read") /\ WriteSecret(Released(r))
    /\ post' = [post EXCEPT ![r] = "none"]
    /\ UNCHANGED <<cancels, sawJob, job, marker, runMarker, made, late>>

(* No answer, a 5xx or one that cannot be read: the POST may have landed   *)
(* or may land yet, and the claim stays.                                   *)
PostUnanswered(r) ==
    /\ at[r] = "sent"
    /\ Goto(r, "read")
    /\ post' = [post EXCEPT ![r] = IF @ = "flight" THEN @ ELSE "over"]
    /\ UNCHANGED <<cancels, current, sawJob, secret, job, marker, runMarker, made, late>>

(* The POST's answer: the Job, new or already there; a refusal by quota or *)
(* throttling, after which releaseRejectedCreation lets the Run try again; *)
(* any other rejection, after which the attempt is cleaned up.             *)
PostAnswered(r) ==
    /\ at[r] = "sent"
    /\ \/ /\ post[r] \in {"made", "exists"}
          /\ Goto(r, "watch")
          /\ post' = [post EXCEPT ![r] = "over"]
          /\ UNCHANGED <<secret, current>>
       \/ /\ post[r] = "refused"
          /\ \E next \in {"check1", "read"} : Goto(r, IF secret \in {Queued, Creating(r)} THEN next ELSE "done")
          /\ post' = [post EXCEPT ![r] = "none"]
          /\ WriteSecret(Released(r))
       \/ /\ post[r] = "rejected"
          /\ Goto(r, "c_job")
          /\ post' = [post EXCEPT ![r] = "none"]
          /\ WriteSecret(Released(r))
    /\ UNCHANGED <<cancels, sawJob, job, marker, runMarker, made, late>>

-----------------------------------------------------------------------------
(* Cancelled Runs, and what stops an attempt.                              *)

(* Where a Run notices that its context has ended.                         *)
CancelSteps == {"read", "rmeta", "rjob", "check0", "secret", "check1", "meta", "first2", "last2", "sent", "watch"}

(* WorkbenchForwardCancel, or a cancel of the pipeline run on this replica *)
(* (cancelLocalRun).                                                       *)
CancelRun(r) ==
    /\ at[r] \in CancelSteps
    /\ Goto(r, "abandon")
    /\ post' = [post EXCEPT ![r] = IF @ \in {"none", "flight"} THEN @ ELSE "over"]
    /\ UNCHANGED <<cancels, current, sawJob, secret, job, marker, runMarker, made, late>>

(* abandon: a persisted outcome stands; otherwise an unused claim goes     *)
(* back and the attempt is cleaned up.                                     *)
Abandon(r) ==
    /\ at[r] = "abandon"
    /\ \/ job # "none" /\ Goto(r, "done") /\ UNCHANGED <<secret, current>>
       \/ /\ Goto(r, "c_job")
          /\ IF post[r] = "none" THEN WriteSecret(Released(r)) ELSE UNCHANGED <<secret, current>>
    /\ UNCHANGED <<cancels, sawJob, job, post, marker, runMarker, made, late>>

(* A replica's crash ends its Runs, wherever they stand.                   *)
Crash(r) ==
    /\ at[r] \notin {"idle", "done"}
    /\ Goto(r, "done")
    /\ post' = [post EXCEPT ![r] = IF @ \in {"none", "flight"} THEN @ ELSE "over"]
    /\ current' = current \ {r} /\ sawJob' = sawJob \ {r}
    /\ UNCHANGED <<cancels, secret, job, marker, runMarker, made, late>>

StartOf(c) == IF c \in cancels THEN "c_run" ELSE "c_job"

(* A cleanup that cannot confirm: a Run answers all the same; the driver's *)
(* call is made again by its next recovery.                                *)
GiveUp(a) == Goto(a, IF a \in Runs THEN "done" ELSE StartOf(a))

StartCleanup(c) ==
    /\ at[c] = "idle"
    /\ \/ Goto(c, "c_job") /\ UNCHANGED cancels
       \/ Goto(c, "c_run") /\ cancels' = cancels \cup {c}
    /\ UNCHANGED <<current, sawJob, secret, job, post, marker, runMarker, made, late>>

(* cleanupRun: the run's marker, then the inventory of Jobs and Secrets.   *)
StopRun(c) ==
    /\ at[c] = "c_run"
    /\ Goto(c, "c_listJobs")
    /\ runMarker' = TRUE
    /\ UNCHANGED <<cancels, current, sawJob, secret, job, post, marker, made, late>>

ListResources(c) ==
    /\ \/ at[c] = "c_listJobs" /\ Goto(c, IF job # "none" THEN "c_job" ELSE "c_listSecrets")
       \/ at[c] = "c_listSecrets" /\ Goto(c, IF secret # Absent THEN "c_job" ELSE "confirmed")
    /\ UNCHANGED <<cancels, current, sawJob, secret, job, post, marker, runMarker, made, late>>

(* cleanupReceipt: the Job, the attempt's marker, the Secret, in this      *)
(* order.                                                                  *)
SeeJob(a) ==
    /\ at[a] = "c_job"
    /\ Goto(a, "c_mark")
    /\ sawJob' = IF job # "none" THEN sawJob \cup {a} ELSE sawJob \ {a}
    /\ UNCHANGED <<cancels, current, secret, job, post, marker, runMarker, made, late>>

RetireAttempt(a) ==
    /\ at[a] = "c_mark"
    /\ Goto(a, "c_secret")
    /\ marker' = IF marker = "none" THEN "new" ELSE marker
    /\ UNCHANGED <<cancels, current, sawJob, secret, job, post, runMarker, made, late>>

(* Slip: the claim of a stopped attempt is never taken for spent.          *)
LatePostPossible_Always == TRUE

(* A POST that passed the fence may still land behind the marker.          *)
LatePostPossible == marker # "aged"

(* A claim with no Job is left alone while its POST may still land.        *)
SeeSecret(a) ==
    /\ at[a] = "c_secret"
    /\ \/ secret = Absent /\ Goto(a, "c_dropJob") /\ UNCHANGED current
       \/ /\ secret.state = "creating" /\ a \notin sawJob /\ LatePostPossible
          /\ GiveUp(a) /\ UNCHANGED current
       \/ /\ secret = Queued \/ (secret.state = "creating" /\ (a \in sawJob \/ ~LatePostPossible))
          /\ Goto(a, "c_dropSecret")
          /\ current' = current \cup {a}
    /\ UNCHANGED <<cancels, sawJob, secret, job, post, marker, runMarker, made, late>>

(* DeleteObservedSecret refuses a Secret that changed since it was read.   *)
DropSecret(a) ==
    /\ at[a] = "c_dropSecret"
    /\ IF secret = Absent \/ a \in current
       THEN Goto(a, "c_dropJob") /\ WriteSecret(Absent) /\ UNCHANGED sawJob
       ELSE GiveUp(a) /\ sawJob' = sawJob \ {a} /\ UNCHANGED <<secret, current>>
    /\ UNCHANGED <<cancels, job, post, marker, runMarker, made, late>>

(* DeleteObservedJob deletes in the foreground.  A cleanup that is not the *)
(* driver's answers the same whether the deletion is seen to end or not.   *)
DropJob(a) ==
    /\ at[a] = "c_dropJob"
    /\ Goto(a, IF a \in Runs THEN "done" ELSE "c_noJob")
    /\ job' = IF a \in sawJob /\ job = "up" THEN "deleting" ELSE job
    /\ sawJob' = sawJob \ {a}
    /\ UNCHANGED <<cancels, current, secret, post, marker, runMarker, made, late>>

(* The Job changed since it was read: a heartbeat, its status, an outcome. *)
DropJobConflict(a) ==
    /\ at[a] = "c_dropJob" /\ a \in sawJob /\ job # "none"
    /\ GiveUp(a) /\ sawJob' = sawJob \ {a}
    /\ UNCHANGED <<cancels, current, secret, job, post, marker, runMarker, made, late>>

(* receiptResourcesAbsent: first the Job, then the Secret, or the call's   *)
(* time is up.                                                             *)
SeeAbsent(c) ==
    /\ \/ at[c] = "c_noJob" /\ (IF job = "none" THEN Goto(c, "c_noSecret") ELSE GiveUp(c))
       \/ at[c] = "c_noSecret" /\ (IF secret = Absent THEN Goto(c, "confirmed") ELSE GiveUp(c))
    /\ UNCHANGED <<cancels, current, sawJob, secret, job, post, marker, runMarker, made, late>>

-----------------------------------------------------------------------------
(* The API server, the clocks, the Job's own end.                          *)

Fate(r, how) == [post EXCEPT ![r] = IF at[r] = "sent" THEN how ELSE "over"]

(* The Job's name admits one Job at a time.                                *)
PostArrives(r) ==
    /\ post[r] = "flight"
    /\ \/ /\ job # "none"
          /\ post' = Fate(r, "exists") /\ UNCHANGED <<job, made>>
       \/ /\ job = "none" /\ made < MaxMade
          /\ post' = Fate(r, "made")
          /\ job' = "up" /\ made' = made + 1
    /\ UNCHANGED <<at, memory, cancels, current, sawJob, secret, marker, runMarker, late>>

(* Refused by quota or throttling, rejected otherwise, or lost on the way. *)
PostFails(r) ==
    /\ post[r] = "flight"
    /\ \E how \in {"refused", "rejected", "over"} : post' = Fate(r, how)
    /\ UNCHANGED <<at, memory, cancels, current, sawJob, secret, job, marker, runMarker, made, late>>

DeletionEnds ==
    /\ job = "deleting" /\ job' = "none"
    /\ UNCHANGED <<at, memory, cancels, current, sawJob, secret, post, marker, runMarker, made, late>>

(* latePostWindow after the marker.  A POST leaves within one call of the  *)
(* read that found no marker and lands within the API server's bound of    *)
(* that, so none is out any more, unless its process froze between the     *)
(* two, or the clock that measures the window runs ahead.                  *)
WindowPasses ==
    /\ marker = "new"
    /\ marker' = "aged"
    /\ late' = \E r \in Runs : at[r] = "post" \/ post[r] = "flight"
    /\ UNCHANGED <<at, memory, cancels, current, sawJob, secret, job, post, runMarker, made>>

-----------------------------------------------------------------------------
Cleanup(a) == SeeJob(a) \/ RetireAttempt(a) \/ SeeSecret(a) \/ DropSecret(a) \/ DropJob(a)

RunStep(r) ==
    \/ ReadJob(r) \/ RecoverMeta(r) \/ RecoverJob(r) \/ EndWatch(r)
    \/ CheckRetirement(r) \/ AdmissionHeld(r) \/ CreateSecret(r) \/ CeilingPassed(r)
    \/ ClaimMeta(r) \/ ClaimCreation(r) \/ CheckBeforePost(r)
    \/ CloudHeld(r) \/ SendPost(r) \/ PostUnanswered(r) \/ PostAnswered(r)
    \/ CancelRun(r) \/ Abandon(r) \/ Crash(r)
    \/ Cleanup(r) \/ DropJobConflict(r)

CleanerStep(c) == StopRun(c) \/ ListResources(c) \/ Cleanup(c) \/ SeeAbsent(c)

ClusterStep ==
    \/ \E r \in Runs : PostArrives(r) \/ PostFails(r)
    \/ DeletionEnds \/ WindowPasses

Next ==
    \/ \E r \in Runs : Forward(r) \/ RunStep(r)
    \/ \E c \in Cleaners : StartCleanup(c) \/ CleanerStep(c) \/ DropJobConflict(c)
    \/ ClusterStep

Spec == Init /\ [][Next]_vars

(* Nothing of a Run: it may stop anywhere.  The API server, the clocks and *)
(* the cleanups go on.  A cleanup whose delete meets a changed Job is      *)
(* tried again at once, against heartbeats seconds apart.                  *)
Fairness ==
    /\ WF_vars(ClusterStep)
    /\ \A c \in Cleaners : WF_vars(CleanerStep(c)) /\ SF_vars(DropJob(c))

FairSpec == Spec /\ Fairness

-----------------------------------------------------------------------------
(* However forwards, recoveries, cancels, lost answers, crashes and late   *)
(* POSTs interleave, at most one Job is ever made for an attempt, so its   *)
(* command runs at most once (creation.go: a creating claim is never       *)
(* replayed).                                                              *)
StartedOnce == made <= 1

(* The Job an attempt's driver relies on, as module Attempt promises it.   *)
A == INSTANCE Attempt WITH
    command <- IF made = 0 THEN "never" ELSE IF job # "none" THEN "standing" ELSE "over",
    acked <- \E c \in Cleaners \ cancels : at[c] = "confirmed",
    cancelled <- \E c \in cancels : at[c] = "confirmed",
    overtaken <- late

(* Claims, markers and cleanups together keep the promise: no Job starts   *)
(* once an acknowledgement or a cancel was confirmed, and a confirmed      *)
(* acknowledgement left no Job, unless a POST that had passed the fence    *)
(* was still out when the late-POST window ran out, by a frozen process or *)
(* a fast clock; even then it is the attempt's one start (cleanupReceipt,  *)
(* latePostPossible).                                                      *)
ImplementsAttempt == A!Spec

(* Every cleanup the driver asks for is confirmed in the end, whatever the *)
(* Runs left behind: a claim nobody will ever resolve is spent once the    *)
(* window has passed (cleanupReceipt; the wait that had no end).           *)
CleanupConfirms == \A c \in Cleaners : at[c] # "idle" ~> at[c] = "confirmed"
=============================================================================
