---------------------------- MODULE PipelineRun -----------------------------
(***************************************************************************)
(* One pipeline run from its queued row to its conclusion                  *)
(* (component/pipelinerun: lease.go, driver.go, cancel.go, recover.go,     *)
(* with the journal of component/workjournal).  Agent replicas claim the   *)
(* run row and drive it; a drive that crashes, aborts or is left behind by *)
(* its lease is followed by another, which goes on from the rows.          *)
(*                                                                         *)
(* Every write of the run row and of the journal is a read of the row and  *)
(* a write fenced to the row's version (underLease, guardJournal), so it   *)
(* is one step that lands only with the writer's claim on the row.  Calls  *)
(* to the runner are not fenced: a drive may make one after its claim was  *)
(* taken over.  The runner is what module Attempt promises of an attempt   *)
(* (JobCreation implements it) that no late POST overtakes: its command    *)
(* starts at most once, and never behind a confirmed acknowledgement or    *)
(* cancel.                                                                 *)
(*                                                                         *)
(* A drive that finds its lease gone, or aborts, makes no further step.    *)
(* The stages' order and what a step runs are the workflow's, left out:    *)
(* the steps are command steps, run in any order and side by side, except  *)
(* those the plan skips.                                                   *)
(***************************************************************************)
EXTENDS Naturals, FiniteSets

CONSTANTS
    Drives,       \* the replicas' drives of the run, at most one per replica
    Steps,        \* the plan's steps
    None,         \* no holder
    MaxAttempts,  \* a step's attempts, as its retry rules give them
    MaxFaults     \* bound on crashes, aborts, pauses, failed calls and reads

ASSUME DrivesAssumption == None \notin Drives
ASSUME StepsAssumption == Steps # {}
ASSUME BoundsAssumption == MaxAttempts \in Nat \ {0} /\ MaxFaults \in Nat

VARIABLES
    row,      \* the run row
    work,     \* the work run's row: none, open, or closed with a result
    steps,    \* the journal's row of each step
    drive,    \* each drive's memory
    sent,     \* the attempts handed to the runner, by any drive
    command,  \* what became of each attempt's command
    acked,    \* the attempts whose cleanup the runner confirmed
    halted,   \* whether the runner confirmed a cancel of the run
    faults    \* crashes, aborts, pauses, failed calls and reads so far

runner == <<sent, command, acked, halted>>
vars == <<row, work, steps, drive, runner, faults>>

Numbers == 1 .. MaxAttempts
Attempts == Steps \X Numbers
Results == {"success", "failure", "cancelled"}

(* todo: the workflow has not come to it; send, resend: its intent is on   *)
(* the row; wait: Execute has not answered; ok, bad, unsure, failed,       *)
(* skipped, cancelled: the receipt to write; clean, ack: cleanup to        *)
(* confirm before the next attempt, or after the receipt; next: waiting    *)
(* for its next.                                                           *)
Places ==
    {"todo", "send", "resend", "wait", "ok", "bad", "unsure", "failed", "skipped", "cancelled",
     "clean", "ack", "next", "end"}
Stages ==
    {"idle", "steer", "plan", "open", "begin", "queue", "reack", "run", "sweep", "judge", "refused",
     "fence", "diverge", "stored", "stop", "close", "finish"}

NoRow == [at |-> "none", n |-> 0, how |-> "none", skip |-> FALSE]
Idle ==
    [at |-> "idle", go |-> [s \in Steps |-> "end"], try |-> [s \in Steps |-> 1], begun |-> {},
     cancelled |-> FALSE, unclean |-> FALSE, abandoned |-> FALSE, verdict |-> "none"]

RunRows ==
    [status : {"queued", "started", "completed"}, holder : Drives \cup {None}, stale : BOOLEAN,
     cancel : BOOLEAN, named : BOOLEAN, result : Results \cup {"none"}]
StepRows ==
    [at : {"none", "pending", "running", "between", "done"}, n : {0} \cup Numbers,
     how : {"none", "ok", "failed", "skipped", "cancelled"}, skip : BOOLEAN]
Memories ==
    [at : Stages, go : [Steps -> Places], try : [Steps -> Numbers], begun : SUBSET Steps,
     cancelled : BOOLEAN, unclean : BOOLEAN, abandoned : BOOLEAN, verdict : Results \cup {"none"}]

(* The rows, the drives' memory and the runner's state have their shapes.  *)
TypeOK ==
    /\ row \in RunRows
    /\ work \in {"none", "open"} \cup Results
    /\ steps \in [Steps -> StepRows]
    /\ drive \in [Drives -> Memories]
    /\ sent \subseteq Attempts /\ acked \subseteq Attempts /\ halted \in BOOLEAN
    /\ command \in [Attempts -> {"never", "running", "ok", "bad"}]
    /\ faults \in 0 .. MaxFaults

Init ==
    /\ row = [status |-> "queued", holder |-> None, stale |-> FALSE, cancel |-> FALSE,
              named |-> FALSE, result |-> "none"]
    /\ work = "none"
    /\ steps = [s \in Steps |-> NoRow]
    /\ drive = [d \in Drives |-> Idle]
    /\ sent = {} /\ acked = {} /\ halted = FALSE
    /\ command = [a \in Attempts |-> "never"]
    /\ faults = 0

Completed == row.status = "completed"
Fault == faults < MaxFaults /\ faults' = faults + 1

-----------------------------------------------------------------------------
(* The lease.                                                              *)

Driving(d) == drive[d].at # "idle"

(* owns, and a row that is not finished: what underLease writes on.        *)
Holds(d) == row.holder = d /\ ~Completed

(* A drive that was never claimed for, or whose replica is this one's own  *)
(* previous process, or whose heartbeat is old, may be followed.           *)
Claimable(d) == ~Completed /\ (row.holder \in {None, d} \/ row.stale)

Claim(d) ==
    /\ ~Driving(d) /\ Claimable(d)
    /\ row' = [row EXCEPT !.holder = d, !.stale = FALSE]
    /\ drive' = [drive EXCEPT ![d] = [Idle EXCEPT !.at = "steer", !.cancelled = row.cancel]]
    /\ UNCHANGED <<work, steps, runner, faults>>

(* A heartbeat, which brings the cancel request with it.                   *)
Renew(d) ==
    /\ Driving(d) /\ Holds(d)
    /\ row' = [row EXCEPT !.stale = FALSE]
    /\ drive' = [drive EXCEPT ![d].cancelled = @ \/ row.cancel]
    /\ UNCHANGED <<work, steps, runner, faults>>

(* A fresh read that finds another claim, or the run over, ends the drive. *)
LoseLease(d) ==
    /\ Driving(d) /\ ~Holds(d)
    /\ drive' = [drive EXCEPT ![d] = Idle]
    /\ UNCHANGED <<row, work, steps, runner, faults>>

(* The replica dies, or the drive aborts: a read that fails, a journal     *)
(* write that does not land or whose answer is lost (journalUnavailable).  *)
Abort(d) ==
    /\ Driving(d) /\ Fault
    /\ drive' = [drive EXCEPT ![d] = Idle]
    /\ UNCHANGED <<row, work, steps, runner>>

(* The lease ages while nobody drives, or while its holder is paused.      *)
LeaseAges ==
    /\ row.holder # None /\ ~row.stale /\ ~Completed
    /\ \/ ~Driving(row.holder) /\ UNCHANGED faults
       \/ Driving(row.holder) /\ Fault
    /\ row' = [row EXCEPT !.stale = TRUE]
    /\ UNCHANGED <<work, steps, drive, runner>>

(* A run nobody has claimed is concluded by the cancel itself.             *)
RequestCancel ==
    /\ ~Completed /\ ~row.cancel
    /\ row' = IF row.status = "queued" /\ row.holder = None
              THEN [row EXCEPT !.cancel = TRUE, !.status = "completed", !.result = "cancelled"]
              ELSE [row EXCEPT !.cancel = TRUE]
    /\ UNCHANGED <<work, steps, drive, runner, faults>>

(* The request's event reaches whichever replica has a drive of the run in *)
(* memory.                                                                 *)
SignalCancel(d) ==
    /\ Driving(d) /\ row.cancel /\ ~drive[d].cancelled
    /\ drive' = [drive EXCEPT ![d].cancelled = TRUE]
    /\ UNCHANGED <<row, work, steps, runner, faults>>

-----------------------------------------------------------------------------
(* steer: up to the work run.                                              *)

(* A verdict reached before this drive opened or resumed the work.         *)
Refused(d, v) == drive' = [drive EXCEPT ![d].at = "refused", ![d].verdict = v]

Steer(d) ==
    /\ drive[d].at = "steer"
    /\ \/ drive[d].cancelled /\ Refused(d, "cancelled") /\ UNCHANGED row
       \/ ~drive[d].cancelled /\ Refused(d, "failure") /\ UNCHANGED row
       \/ /\ ~drive[d].cancelled
          /\ row.status = "queued" => Holds(d)
          /\ row' = IF row.status = "queued" THEN [row EXCEPT !.status = "started"] ELSE row
          /\ drive' = [drive EXCEPT ![d].at = "plan"]
    /\ UNCHANGED <<work, steps, runner, faults>>

(* Slip: a plan that selects nothing always passes.                        *)
EmptyPlanVerdict_Passes == "success"

(* A plan that selects nothing passes only where no work was planned yet.  *)
EmptyPlanVerdict == IF row.named THEN "failure" ELSE "success"

Plan(d) ==
    /\ drive[d].at = "plan"
    /\ \/ drive[d].cancelled /\ Refused(d, "cancelled")
       \/ ~drive[d].cancelled /\ (\E v \in {"failure", EmptyPlanVerdict} : Refused(d, v))
       \/ ~drive[d].cancelled /\ drive' = [drive EXCEPT ![d].at = "open"]
    /\ UNCHANGED <<row, work, steps, runner, faults>>

(* The work is named on the run row before it is opened.                   *)
NameWork(d) ==
    /\ drive[d].at = "open" /\ Holds(d)
    /\ \A s \in Steps : steps[s].at = "none"
    /\ row' = [row EXCEPT !.named = TRUE]
    /\ drive' = [drive EXCEPT ![d].at = "begin"]
    /\ UNCHANGED <<work, steps, runner, faults>>

(* Begin: the goal and the run, then each step's pending row, with the     *)
(* skip the plan decided (not affected, passed in an earlier run).         *)
Begin(d) ==
    /\ drive[d].at = "begin" /\ Holds(d)
    /\ work' = "open"
    /\ drive' = [drive EXCEPT ![d].at = "queue"]
    /\ UNCHANGED <<row, steps, runner, faults>>

QueueStep(d) ==
    /\ drive[d].at = "queue" /\ Holds(d)
    /\ \/ /\ \E s \in Steps, skip \in BOOLEAN :
                /\ steps[s].at = "none"
                /\ steps' = [steps EXCEPT ![s] =
                               [at |-> "pending", n |-> 1, how |-> "none", skip |-> skip]]
          /\ UNCHANGED drive
       \/ /\ \A s \in Steps : steps[s].at # "none"
          /\ drive' = [drive EXCEPT ![d].at = "run", ![d].go = [s \in Steps |-> "todo"]]
          /\ UNCHANGED steps
    /\ UNCHANGED <<row, work, runner, faults>>

(* Slip: a step between two attempts goes on without its cleanup.          *)
ResumeAt_NoCleanup(r) ==
    CASE r.at = "done" -> "ack" [] r.at = "between" -> "next" [] OTHER -> "todo"

(* Every attempt whose end the rows record is acknowledged again first.    *)
ResumeAt(r) ==
    CASE r.at = "done" -> "ack" [] r.at = "between" -> "clean" [] OTHER -> "todo"

Resume(d) ==
    /\ drive[d].at = "open"
    /\ \A s \in Steps : steps[s].at # "none"
    /\ drive' = [drive EXCEPT ![d].at = "reack",
                              ![d].go = [s \in Steps |-> ResumeAt(steps[s])],
                              ![d].try = [s \in Steps |-> steps[s].n]]
    /\ UNCHANGED <<row, work, steps, runner, faults>>

InFlight == \E s \in Steps : steps[s].at \in {"running", "between"}

(* Rows that are not the plan's: what they leave unfinished fails, and     *)
(* what was in flight is abandoned.                                        *)
Diverge(d) ==
    /\ drive[d].at = "open"
    /\ \E s \in Steps : steps[s].at # "none"
    /\ drive' = [drive EXCEPT ![d].at = "diverge", ![d].verdict = "failure", ![d].abandoned = InFlight]
    /\ UNCHANGED <<row, work, steps, runner, faults>>

-----------------------------------------------------------------------------
(* The steps.                                                              *)

Move(d, s, place) == drive' = [drive EXCEPT ![d].go[s] = place]

(* runStep admits no attempt on a cancelled or an unclean drive.           *)
Admits(d) == ~drive[d].cancelled /\ ~drive[d].unclean

(* confirmReceiptCleanup: AcknowledgeReceipt, which the drive may make     *)
(* after another's claim; a failure stops it from starting anything more.  *)
Acknowledge(d, s) ==
    /\ drive[d].go[s] \in {"ack", "clean"}
    /\ \/ /\ acked' = acked \cup {<<s, drive[d].try[s]>>}
          /\ Move(d, s, IF drive[d].go[s] = "clean" /\ ~drive[d].unclean THEN "next" ELSE "end")
          /\ UNCHANGED faults
       \/ /\ Fault
          /\ drive' = [drive EXCEPT ![d].unclean = TRUE, ![d].go[s] = "end"]
          /\ UNCHANGED acked
    /\ UNCHANGED <<row, work, steps, sent, command, halted>>

(* openWork goes on once every recorded end is clean, and stops otherwise. *)
Reacked(d) ==
    /\ drive[d].at = "reack"
    /\ \A s \in Steps : drive[d].go[s] \notin {"ack", "clean"}
    /\ drive' = [drive EXCEPT ![d] = IF @.unclean THEN Idle ELSE [@ EXCEPT !.at = "run"]]
    /\ UNCHANGED <<row, work, steps, runner, faults>>

(* The intent of attempt n, which makes the step this drive's to settle.   *)
Intend(s, n) ==
    steps' = [steps EXCEPT ![s] = [at |-> "running", n |-> n, how |-> "none", skip |-> @.skip]]

(* The workflow's call never comes, or comes too late, or it blocks the    *)
(* step, or skips it as planned, or starts it.                             *)
Invoke(d, s) ==
    /\ drive[d].at = "run" /\ drive[d].go[s] = "todo"
    /\ \/ Move(d, s, "end") /\ UNCHANGED steps
       \/ Admits(d) /\ Move(d, s, "failed") /\ UNCHANGED steps
       \/ Admits(d) /\ steps[s].skip /\ Move(d, s, "skipped") /\ UNCHANGED steps
       \/ /\ Admits(d) /\ ~steps[s].skip /\ Holds(d)
          /\ Intend(s, drive[d].try[s])
          /\ drive' = [drive EXCEPT ![d].go[s] = IF steps[s].at = "running" THEN "resend" ELSE "send",
                                    ![d].begun = @ \cup {s}]
    /\ UNCHANGED <<row, work, runner, faults>>

(* The hand-over.  A recovery (RecoverOnly) starts nothing by itself.      *)
Execute(d, s) ==
    /\ drive[d].go[s] \in {"send", "resend"}
    /\ \/ drive[d].cancelled /\ Move(d, s, "cancelled") /\ UNCHANGED sent
       \/ ~drive[d].cancelled /\ Move(d, s, "failed") /\ UNCHANGED sent
       \/ /\ ~drive[d].cancelled
          /\ Move(d, s, "wait")
          /\ sent' = IF drive[d].go[s] = "send" THEN sent \cup {<<s, drive[d].try[s]>>} ELSE sent
    /\ UNCHANGED <<row, work, steps, command, acked, halted, faults>>

(* execStep's end: the cancel, before any answer; the command's own end;   *)
(* that nothing ran, or that nobody can tell; the deadline or an error.    *)
Answer(d, s) ==
    LET a == <<s, drive[d].try[s]>>
    IN  /\ drive[d].go[s] = "wait"
        /\ \/ drive[d].cancelled /\ Move(d, s, "cancelled") /\ UNCHANGED faults
           \/ /\ ~drive[d].cancelled /\ a \notin acked /\ command[a] \in {"ok", "bad"}
              /\ Move(d, s, command[a]) /\ UNCHANGED faults
           \/ /\ ~drive[d].cancelled /\ command[a] = "never"
              /\ Move(d, s, "bad") /\ UNCHANGED faults
           \/ /\ ~drive[d].cancelled /\ (command[a] = "never" \/ a \in acked)
              /\ Move(d, s, "unsure") /\ UNCHANGED faults
           \/ ~drive[d].cancelled /\ Move(d, s, "failed") /\ Fault
        /\ UNCHANGED <<row, work, steps, runner>>

How(place) == IF place \in {"ok", "skipped", "cancelled"} THEN place ELSE "failed"

Settling(d, s) == drive[d].go[s] \in {"ok", "bad", "unsure", "failed", "skipped", "cancelled"}

(* settle's second write.  Only a runner's answer is acknowledged.         *)
Settle(d, s) ==
    /\ steps' = [steps EXCEPT ![s] = [at |-> "done", n |-> drive[d].try[s],
                                       how |-> How(drive[d].go[s]), skip |-> @.skip]]
    /\ Move(d, s, IF drive[d].go[s] \in {"failed", "skipped", "cancelled"} THEN "end" ELSE "ack")

(* Slip: the receipt is written without the lease.                         *)
Receipt_Unfenced(d, s) ==
    /\ Settling(d, s)
    /\ Settle(d, s)
    /\ UNCHANGED <<row, work, runner, faults>>

(* settle: the intent first, for a step this drive has not begun.  A read  *)
(* of the lease that fails (stillHolds) writes nothing, and the drive goes *)
(* on without the step.                                                    *)
Receipt(d, s) ==
    /\ Settling(d, s)
    /\ \/ /\ Holds(d)
          /\ IF s \in drive[d].begun
             THEN Settle(d, s)
             ELSE /\ Intend(s, drive[d].try[s])
                  /\ drive' = [drive EXCEPT ![d].begun = @ \cup {s}]
          /\ UNCHANGED faults
       \/ Fault /\ Move(d, s, "end") /\ UNCHANGED steps
    /\ UNCHANGED <<row, work, runner>>

(* Slip: the retry rules are not asked.                                    *)
Retrying_Unbounded(d, s) ==
    /\ drive[d].go[s] = "bad" /\ Holds(d)
    /\ steps' = [steps EXCEPT ![s].at = "between"]
    /\ Move(d, s, "clean")
    /\ UNCHANGED <<row, work, runner, faults>>

(* Retrying: the attempt's end, durable before anything of the next.       *)
Retrying(d, s) ==
    /\ drive[d].go[s] = "bad" /\ drive[d].try[s] < MaxAttempts /\ Holds(d)
    /\ steps' = [steps EXCEPT ![s].at = "between"]
    /\ Move(d, s, "clean")
    /\ UNCHANGED <<row, work, runner, faults>>

(* beginNextAttempt: a cancel; a workflow, or a drive, that stops around   *)
(* the wait; the run's ceiling; or the next attempt's intent.              *)
NextAttempt(d, s) ==
    /\ drive[d].at = "run" /\ drive[d].go[s] = "next"
    /\ \/ drive[d].cancelled /\ Move(d, s, "cancelled") /\ UNCHANGED steps
       \/ Move(d, s, "end") /\ UNCHANGED steps
       \/ Admits(d) /\ Move(d, s, "failed") /\ UNCHANGED steps
       \/ /\ Admits(d) /\ Holds(d)
          /\ Intend(s, drive[d].try[s] + 1)
          /\ drive' = [drive EXCEPT ![d].go[s] = "send", ![d].try[s] = @ + 1, ![d].begun = @ \cup {s}]
    /\ UNCHANGED <<row, work, runner, faults>>

-----------------------------------------------------------------------------
(* The verdict, and conclude.                                              *)

StepsEnded(d) == \A s \in Steps : drive[d].go[s] = "end"

(* A cancelled run settles every step that has no receipt yet.             *)
WorkflowEnds(d) ==
    /\ drive[d].at = "run" /\ StepsEnded(d)
    /\ drive' = [drive EXCEPT ![d] =
          IF ~@.cancelled THEN [@ EXCEPT !.at = "judge"]
          ELSE [@ EXCEPT !.at = "sweep", !.go =
                   [s \in Steps |-> IF steps[s].at = "done" THEN "end" ELSE "cancelled"]]]
    /\ UNCHANGED <<row, work, steps, runner, faults>>

Swept(d) ==
    /\ drive[d].at = "sweep" /\ StepsEnded(d)
    /\ drive' = [drive EXCEPT ![d].at = "judge"]
    /\ UNCHANGED <<row, work, steps, runner, faults>>

(* A step that the plan skipped does not keep a run from passing.          *)
VerdictOfSteps(d) ==
    IF drive[d].cancelled /\ \E s \in Steps : steps[s].how = "cancelled" \/ steps[s].at # "done"
    THEN "cancelled"
    ELSE IF \A s \in Steps : steps[s].how \in {"ok", "skipped"} THEN "success" ELSE "failure"

(* Slip: a cleanup that failed does not keep the verdict back.             *)
Judge_Unclean(d) ==
    /\ drive[d].at = "judge"
    /\ drive' = [drive EXCEPT ![d].at = "fence", ![d].verdict = VerdictOfSteps(d)]
    /\ UNCHANGED <<row, work, steps, runner, faults>>

(* A cleanup that failed keeps the run unfinished, unless it is cancelled; *)
(* the workflow's own error is a failure.                                  *)
Judge(d) ==
    /\ drive[d].at = "judge"
    /\ \/ /\ drive[d].unclean /\ ~drive[d].cancelled
          /\ drive' = [drive EXCEPT ![d] = Idle]
       \/ /\ ~drive[d].unclean \/ drive[d].cancelled
          /\ drive' = [drive EXCEPT ![d].at = "fence", ![d].verdict = VerdictOfSteps(d)]
       \/ /\ ~drive[d].unclean /\ ~drive[d].cancelled
          /\ drive' = [drive EXCEPT ![d].at = "fence", ![d].verdict = "failure"]
    /\ UNCHANGED <<row, work, steps, runner, faults>>

(* conclude re-reads the lease; a drive that opened no work settles what   *)
(* an earlier one stored (settleStoredWork).                               *)
Fence(d) ==
    /\ drive[d].at \in {"refused", "fence"} /\ Holds(d)
    /\ drive' = [drive EXCEPT ![d] = IF @.at = "refused" /\ row.named
                                     THEN [@ EXCEPT !.at = "stored", !.abandoned = InFlight]
                                     ELSE [@ EXCEPT !.at = "stop"]]
    /\ UNCHANGED <<row, work, steps, runner, faults>>

(* The rows a drive never resumed: failed if they diverge from the plan,   *)
(* cancelled if the run is answered before it.  Reads of the lease that    *)
(* fail leave rows as they are, and the drive goes on.                     *)
SettleRows(d) ==
    /\ drive[d].at \in {"diverge", "stored"}
    /\ \/ /\ Holds(d)
          /\ \E s \in Steps :
                /\ steps[s].at \notin {"none", "done"}
                /\ IF s \in drive[d].begun
                   THEN /\ steps' = [steps EXCEPT ![s].at = "done", ![s].how =
                                       IF drive[d].at = "diverge" THEN "failed" ELSE "cancelled"]
                        /\ UNCHANGED drive
                   ELSE /\ Intend(s, steps[s].n)
                        /\ drive' = [drive EXCEPT ![d].begun = @ \cup {s}]
          /\ UNCHANGED faults
       \/ /\ IF \A s \in Steps : steps[s].at \in {"none", "done"} THEN UNCHANGED faults ELSE Fault
          /\ drive' = [drive EXCEPT ![d].at = IF @ = "diverge" THEN "fence" ELSE "stop"]
          /\ UNCHANGED steps
    /\ UNCHANGED <<row, work, runner>>

(* Slip: a cancel of the runner that fails is passed over.                 *)
CancelRunner_Unconfirmed(d) ==
    /\ drive[d].at = "stop"
    /\ drive' = [drive EXCEPT ![d].at = "close"]
    /\ \/ halted' = TRUE /\ UNCHANGED faults
       \/ Fault /\ UNCHANGED halted
    /\ UNCHANGED <<row, work, steps, sent, command, acked>>

(* cancelRunner, for a cancelled run and for one with abandoned attempts:  *)
(* a run whose executor cannot confirm stays unfinished.                   *)
CancelRunner(d) ==
    /\ drive[d].at = "stop"
    /\ IF drive[d].verdict = "cancelled" \/ drive[d].abandoned
       THEN \/ /\ halted' = TRUE
               /\ drive' = [drive EXCEPT ![d].at = "close"]
               /\ UNCHANGED faults
            \/ /\ Fault
               /\ drive' = [drive EXCEPT ![d] = Idle]
               /\ UNCHANGED halted
       ELSE /\ drive' = [drive EXCEPT ![d].at = "close"]
            /\ UNCHANGED <<halted, faults>>
    /\ UNCHANGED <<row, work, steps, sent, command, acked>>

(* Slip: the work run is closed without the lease.                         *)
CloseWork_Unfenced(d) ==
    /\ drive[d].at = "close"
    /\ drive' = [drive EXCEPT ![d].at = "finish"]
    /\ work' = IF row.named THEN drive[d].verdict ELSE work
    /\ UNCHANGED <<row, steps, runner, faults>>

(* Slip: a work run is closed only once.                                   *)
CloseWork_Once(d) ==
    /\ drive[d].at = "close" /\ Holds(d)
    /\ IF row.named /\ work # "open"
       THEN /\ drive' = [drive EXCEPT ![d] = Idle]
            /\ UNCHANGED work
       ELSE /\ drive' = [drive EXCEPT ![d].at = "finish"]
            /\ work' = IF row.named THEN drive[d].verdict ELSE work
    /\ UNCHANGED <<row, steps, runner, faults>>

(* The work run is closed before the run: updateWorkRun, which refuses a   *)
(* row that was never created, and a refused write ends the drive.         *)
CloseWork(d) ==
    /\ drive[d].at = "close" /\ Holds(d)
    /\ IF row.named /\ work = "none"
       THEN /\ drive' = [drive EXCEPT ![d] = Idle]
            /\ UNCHANGED work
       ELSE /\ drive' = [drive EXCEPT ![d].at = "finish"]
            /\ work' = IF row.named THEN drive[d].verdict ELSE work
    /\ UNCHANGED <<row, steps, runner, faults>>

Finish(d) ==
    /\ drive[d].at = "finish" /\ Holds(d)
    /\ row' = [row EXCEPT !.status = "completed", !.result = drive[d].verdict]
    /\ drive' = [drive EXCEPT ![d] = Idle]
    /\ UNCHANGED <<work, steps, runner, faults>>

-----------------------------------------------------------------------------
(* The step runner, as the drives use it: one command per attempt, behind  *)
(* calls that may still be under way when their drive is gone; an          *)
(* acknowledged attempt and a cancelled run start nothing (Attempt.tla).   *)

Starts(a) ==
    /\ a \in sent \ acked /\ ~halted /\ command[a] = "never"
    /\ command' = [command EXCEPT ![a] = "running"]
    /\ UNCHANGED <<row, work, steps, drive, sent, acked, halted, faults>>

Ends(a) ==
    /\ command[a] = "running"
    /\ \E end \in {"ok", "bad"} : command' = [command EXCEPT ![a] = end]
    /\ UNCHANGED <<row, work, steps, drive, sent, acked, halted, faults>>

-----------------------------------------------------------------------------
StepMove(d, s) ==
    \/ Acknowledge(d, s) \/ Invoke(d, s) \/ Execute(d, s) \/ Answer(d, s)
    \/ Receipt(d, s) \/ Retrying(d, s) \/ NextAttempt(d, s)

Advance(d) ==
    \/ LoseLease(d) \/ Steer(d) \/ Plan(d) \/ NameWork(d) \/ Begin(d) \/ QueueStep(d)
    \/ Resume(d) \/ Diverge(d) \/ Reacked(d) \/ WorkflowEnds(d) \/ Swept(d) \/ Judge(d) \/ Fence(d)
    \/ SettleRows(d) \/ CancelRunner(d) \/ CloseWork(d) \/ Finish(d)
    \/ \E s \in Steps : StepMove(d, s)

Next ==
    \/ \E d \in Drives : Claim(d) \/ Renew(d) \/ SignalCancel(d) \/ Abort(d) \/ Advance(d)
    \/ LeaseAges \/ RequestCancel
    \/ \E a \in Attempts : Starts(a) \/ Ends(a)

Spec == Init /\ [][Next]_vars

(* A drive in memory goes on; recovery claims a run that may be claimed    *)
(* (RecoverRuns); the lease of a drive that is gone ages; the cluster ends *)
(* the commands it started.                                                *)
FairSpec ==
    /\ Spec
    /\ \A d \in Drives : WF_vars(Advance(d))
    /\ WF_vars(\E d \in Drives : Claim(d))
    /\ WF_vars(LeaseAges /\ ~Driving(row.holder))
    /\ WF_vars(\E a \in Attempts : Ends(a))

-----------------------------------------------------------------------------
(* Two attempts of one step never stand in the cluster together: the next  *)
(* attempt's intent waits for the acknowledged cleanup of the one before,  *)
(* whichever drive, of whichever replica, sends either.                    *)
Standing(a) == command[a] # "never" /\ a \notin acked

AttemptsApart ==
    \A s \in Steps, m, n \in Numbers : m # n => ~(Standing(<<s, m>>) /\ Standing(<<s, n>>))

(* A step's receipt is final: no later write, of the drive that recorded   *)
(* it or of one that lost the lease while it waited, changes a done row.   *)
ReceiptsStand == [][\A s \in Steps : steps[s].at = "done" => steps'[s] = steps[s]]_vars

(* A run that passed with work named passed for a reason: the command of   *)
(* each of its steps ended well in the attempt its row records, or the     *)
(* plan skipped the step, and then no drive ever handed it to the runner.  *)
SuccessIsReal ==
    row.result = "success" /\ row.named =>
        \A s \in Steps :
            \/ steps[s].how = "ok" /\ command[<<s, steps[s].n>>] = "ok"
            \/ steps[s].how = "skipped" /\ steps[s].skip /\ \A n \in Numbers : <<s, n>> \notin sent

(* Nothing starts for a run that concluded as a success or a cancel, even  *)
(* from a call whose drive is long gone.                                   *)
ConcludedIsQuiet ==
    [][row.result \in {"success", "cancelled"} =>
           \A a \in Attempts : command[a] = "never" => command'[a] = "never"]_vars

(* A finished run's work run is closed, and says of the run what its row   *)
(* says, though several drives may have closed it before one finished.     *)
WorkAgrees == Completed /\ row.named => work = row.result

(* conclude's promise, "leaves the run unfinished, to be recovered and     *)
(* concluded again": a run that was claimed is concluded, whatever dies on *)
(* the way.  The exception: its work was named on the row and a refusal or *)
(* a cancel comes before any drive opens it, so that each conclusion tries *)
(* to close work that does not exist (openWork, closeWork).                *)
ClaimedConcludes ==
    (row.holder # None) ~> (Completed \/ [](row.named /\ work = "none"))

(* steer's promise, that a cleanup it could not confirm keeps the run      *)
(* unfinished: a run that passed has every attempt acknowledged.           *)
SuccessAcknowledged == row.result = "success" => \A a \in Attempts : ~Standing(a)

(* What the code keeps of that promise: it holds of a run that nobody      *)
(* asked to cancel, however its drives were cut short.                     *)
CleanUnlessCancelled == ~row.cancel => SuccessAcknowledged

=============================================================================
