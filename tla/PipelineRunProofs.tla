------------------------- MODULE PipelineRunProofs --------------------------
(***************************************************************************)
(* Safety of PipelineRun for every set of replicas and steps and every     *)
(* number of attempts and faults.  The inductive invariant IInv says what  *)
(* the rows say of the runner's attempts (RowsInv), what any drive         *)
(* remembers, the one that lost its lease included (MemoryInv), what the   *)
(* drive that holds the lease knows of the rows (HolderInv), and what a    *)
(* conclusion rests on (ResultInv).  A lemma for each action shows that it *)
(* survives; every safety property follows from it.                        *)
(***************************************************************************)
EXTENDS PipelineRun, TLAPS

(* The attempt a step's row names is its newest: the ones before it were   *)
(* acknowledged, and none after it was handed to the runner.  No attempt   *)
(* at all was of a step that the plan skips.                               *)
RowsInv ==
    \A s \in Steps :
        /\ steps[s].at = "none" <=> steps[s].n = 0
        /\ steps[s].at = "none" => ~steps[s].skip
        /\ steps[s].at = "between" => steps[s].n < MaxAttempts /\ ~steps[s].skip
        /\ steps[s].how = "ok" => steps[s].at = "done" /\ command[<<s, steps[s].n>>] = "ok"
        /\ steps[s].how = "skipped" => steps[s].at = "done" /\ steps[s].skip
        /\ \A m \in Numbers :
              /\ m < steps[s].n => <<s, m>> \in acked
              /\ <<s, m>> \in sent => m <= steps[s].n /\ ~steps[s].skip
              /\ command[<<s, m>>] # "never" => <<s, m>> \in sent

(* Of any drive, whether or not its lease still holds.                     *)
Remembers(d) ==
    /\ drive[d].cancelled => row.cancel
    /\ \A s \in Steps :
          /\ drive[d].go[s] # "end" => drive[d].at \in {"reack", "run", "sweep"}
          /\ drive[d].go[s] = "send" => drive[d].try[s] <= steps[s].n /\ ~steps[s].skip
          /\ drive[d].go[s] = "skipped" => steps[s].skip
          /\ drive[d].go[s] = "ok" => command[<<s, drive[d].try[s]>>] = "ok"
          /\ drive[d].go[s] = "next" => <<s, drive[d].try[s]>> \in acked

MemoryInv == \A d \in Drives : Remembers(d)

(* What a place of a step's goroutine says of the step's row.              *)
Matches(d, s) ==
    /\ steps[s].at # "none" /\ steps[s].n = drive[d].try[s]
    /\ drive[d].go[s] = "todo" => steps[s].at \in {"pending", "running"}
    /\ drive[d].go[s] \in {"send", "resend", "wait", "ok", "bad", "unsure"}
          => steps[s].at = "running" /\ ~steps[s].skip
    /\ drive[d].go[s] \in {"failed", "skipped", "cancelled"} => steps[s].at # "done"
    /\ drive[d].go[s] \in {"clean", "next"} => steps[s].at = "between"
    /\ drive[d].go[s] = "ack" => steps[s].at = "done"
    /\ drive[d].go[s] = "end" /\ ~drive[d].unclean /\ steps[s].how = "ok" => <<s, steps[s].n>> \in acked

(* Every step was skipped, or passed and its attempt is acknowledged or a  *)
(* cancel was asked for.                                                   *)
Passed ==
    \A s \in Steps :
        \/ steps[s].how = "skipped"
        \/ steps[s].how = "ok" /\ (row.cancel \/ <<s, steps[s].n>> \in acked)

Knows(d) ==
    /\ drive[d].at \in {"begin", "queue", "reack", "run", "sweep", "judge"} => row.named
    /\ drive[d].at \in {"steer", "plan", "open", "begin", "queue"} => \A s \in Steps : drive[d].try[s] = 1
    /\ drive[d].at = "begin" => \A s \in Steps : steps[s].at = "none"
    /\ drive[d].at = "queue" =>
          \A s \in Steps : steps[s].at \in {"none", "pending"} /\ steps[s].n \in {0, 1}
    /\ drive[d].at \in {"reack", "run", "sweep", "judge"} => \A s \in Steps : Matches(d, s)
    /\ drive[d].at = "refused" /\ drive[d].verdict = "success" => ~row.named
    /\ drive[d].at \in {"diverge", "stored"} => drive[d].verdict # "success"
    /\ drive[d].at \in {"fence", "stop", "close", "finish"} /\ drive[d].verdict = "success"
          => (row.named => Passed)
    /\ drive[d].at \in {"close", "finish"} /\ drive[d].verdict = "cancelled" => halted
    /\ drive[d].at = "finish" => (row.named => work = drive[d].verdict)

HolderInv == \A d \in Drives : Holds(d) => Knows(d)

ResultInv ==
    /\ ~row.named => \A s \in Steps : steps[s].at = "none"
    /\ row.holder = None => ~row.named /\ \A d \in Drives : drive[d] = Idle
    /\ row.result # "none" => Completed
    /\ row.result = "success" => (row.named => Passed)
    /\ row.result = "cancelled" => halted \/ row.holder = None
    /\ Completed => (row.named => work = row.result)

IInv == TypeOK /\ RowsInv /\ MemoryInv /\ HolderInv /\ ResultInv

-----------------------------------------------------------------------------
(* What all the actions have in common.                                    *)

(* What a drive knows stays true of rows and memory that stand.            *)
LEMMA MatchesStay ==
    ASSUME NEW d \in Drives, NEW s \in Steps, Matches(d, s), steps'[s] = steps[s], acked \subseteq acked',
           drive'[d].go[s] = drive[d].go[s], drive'[d].try[s] = drive[d].try[s],
           drive'[d].unclean = drive[d].unclean
    PROVE  Matches(d, s)'
    BY Zenon DEF Matches

LEMMA KnowledgeStays ==
    ASSUME NEW d \in Drives, Knows(d), UNCHANGED <<steps, work>>, row'.named = row.named,
           drive'[d].at = drive[d].at, drive'[d].verdict = drive[d].verdict, drive'[d].try = drive[d].try,
           halted => halted', Passed => Passed',
           \A s \in Steps : Matches(d, s) => Matches(d, s)'
    PROVE  Knows(d)'
    BY DEF Knows

LEMMA HolderStays ==
    ASSUME HolderInv, UNCHANGED <<row, work, steps, drive, acked, halted>>
    PROVE  HolderInv'
<1> SUFFICES ASSUME NEW d \in Drives, Holds(d)'
             PROVE  Knows(d)'
    BY Zenon DEF HolderInv
<1>1. Knows(d)
    BY Zenon DEF HolderInv, Holds, Completed
<1>2. \A s \in Steps : Matches(d, s) => Matches(d, s)'
    BY Zenon, MatchesStay
<1>3. Passed => Passed'
    BY Zenon DEF Passed
<1> QED
    BY Zenon, <1>1, <1>2, <1>3, KnowledgeStays

(* A drive's step that changes nothing but its own memory.                 *)
LEMMA MemoryOnly ==
    ASSUME IInv, NEW d \in Drives, row.holder # None,
           UNCHANGED <<row, work, steps, runner>>,
           \A e \in Drives \ {d} : drive'[e] = drive[e],
           TypeOK', Remembers(d)', Holds(d) => Knows(d)'
    PROVE  IInv'
<1>1. RowsInv'
    BY Zenon DEF IInv, RowsInv, runner
<1>2. MemoryInv'
    BY DEF IInv, MemoryInv, Remembers, runner
<1>3. HolderInv'
  <2> SUFFICES ASSUME NEW e \in Drives \ {d}, Holds(e)'
               PROVE  Knows(e)'
    BY Zenon DEF HolderInv, Holds, Completed
  <2>1. Knows(e) /\ drive'[e] = drive[e] /\ UNCHANGED <<row, work, steps, acked, halted>>
    BY Zenon DEF IInv, HolderInv, Holds, Completed, runner
  <2>2. \A s \in Steps : Matches(e, s) => Matches(e, s)'
    BY Zenon, <2>1, MatchesStay
  <2>3. Passed => Passed'
    BY Zenon, <2>1 DEF Passed
  <2> QED
    BY Zenon, <2>1, <2>2, <2>3, KnowledgeStays
<1>4. ResultInv'
    BY Zenon DEF IInv, ResultInv, Passed, Completed, runner
<1> QED
    BY Zenon, <1>1, <1>2, <1>3, <1>4 DEF IInv

(* What the plan skips is decided once, when a step's row is queued.       *)
SkipsStay == \A s \in Steps : steps[s].at = "none" \/ steps'[s].skip = steps[s].skip

(* Another drive's memory stays true while rows and runner only advance.   *)
LEMMA OthersRemember ==
    ASSUME IInv, NEW d \in Drives, row.cancel => row'.cancel,
           \A e \in Drives \ {d} : drive'[e] = drive[e],
           TypeOK', \A s \in Steps : steps[s].n <= steps'[s].n, SkipsStay,
           acked \subseteq acked', \A a \in Attempts : command[a] = "ok" => command'[a] = "ok"
    PROVE  \A e \in Drives \ {d} : Remembers(e)'
<1> SUFFICES ASSUME NEW e \in Drives \ {d}
             PROVE  Remembers(e)'
    BY Zenon
<1>1. Remembers(e) /\ drive'[e] = drive[e] /\ drive[e].try \in [Steps -> Numbers]
    BY Zenon DEF IInv, MemoryInv, TypeOK, Memories
<1>2. ASSUME NEW s \in Steps
      PROVE  /\ <<s, drive[e].try[s]>> \in Attempts /\ drive[e].try[s] \in Nat
             /\ steps[s].n \in Nat /\ steps'[s].n \in Nat /\ steps[s].n <= steps'[s].n
             /\ drive[e].try[s] # 0
    BY <1>1, BoundsAssumption DEF IInv, TypeOK, StepRows, Numbers, Attempts
<1>3. ASSUME NEW s \in Steps
      PROVE  /\ steps[s].at = "none" => steps[s].n = 0 /\ ~steps[s].skip
             /\ steps[s].at = "none" \/ steps'[s].skip = steps[s].skip
    BY Zenon DEF IInv, RowsInv, SkipsStay
<1> QED
    BY <1>1, <1>2, <1>3 DEF Remembers

(* A drive under way was claimed for.                                      *)
LEMMA DrivingHeld ==
    ASSUME IInv, NEW d \in Drives, drive[d].at # "idle" \/ (\E s \in Steps : drive[d].go[s] # "end")
    PROVE  row.holder # None
    BY DEF IInv, ResultInv, Idle

LEMMA RefusedKeeps ==
    ASSUME IInv, NEW d \in Drives, Steer(d) \/ Plan(d), row' = row,
           drive[d].at \in {"steer", "plan"}
    PROVE  IInv'
<1>1. TypeOK'
  <2>1. drive[d] \in Memories
    BY Zenon DEF IInv, TypeOK
  <2>2. PICK st \in {"refused", "plan", "open"}, v \in Results \cup {"none"} :
            drive' = [drive EXCEPT ![d].at = st, ![d].verdict = v]
    BY <2>1 DEF IInv, TypeOK, Steer, Plan, Refused, EmptyPlanVerdict, Memories, Results
  <2>3. [drive[d] EXCEPT !.at = st, !.verdict = v] \in Memories
    BY <2>1, Zenon DEF Memories, Stages
  <2>4. drive' \in [Drives -> Memories]
    BY Zenon, <2>2, <2>3 DEF IInv, TypeOK
  <2> QED
    BY Zenon, <2>4 DEF IInv, TypeOK, Steer, Plan, runner
<1>2. Remembers(d)'
    BY SMTT(30) DEF IInv, MemoryInv, Remembers, TypeOK, Memories, Steer, Plan, Refused, runner
<1>3. Holds(d) => Knows(d)'
  <2> SUFFICES ASSUME Holds(d) PROVE Knows(d)'
    BY Zenon
  <2>1. \A s \in Steps : drive[d].try[s] = 1
    BY Zenon DEF IInv, HolderInv, Knows
  <2>2. /\ drive'[d].at \in {"refused", "plan", "open"} /\ drive'[d].try = drive[d].try
        /\ drive'[d].at = "refused" /\ drive'[d].verdict = "success" => ~row.named
    BY DEF IInv, TypeOK, Memories, Steer, Plan, Refused, EmptyPlanVerdict
  <2> QED
    BY Zenon, <2>1, <2>2 DEF Knows
<1>4. row.holder # None
    BY Zenon, DrivingHeld
<1>5. \A e \in Drives \ {d} : drive'[e] = drive[e]
    BY Zenon DEF IInv, TypeOK, Steer, Plan, Refused
<1> QED
    BY Zenon, <1>1, <1>2, <1>3, <1>4, <1>5, MemoryOnly DEF Steer, Plan, runner

-----------------------------------------------------------------------------
(* The steps that end a drive or move it from one stage to the next.       *)

LEMMA IdleTyped == Idle \in Memories
<1>1. 1 \in Numbers
    BY BoundsAssumption DEF Numbers
<1>2. FALSE \in BOOLEAN
    BY Zenon
<1> QED
    BY Zenon, <1>1, <1>2 DEF Idle, Memories, Stages, Places

LEMMA StopsKeep ==
    ASSUME IInv, NEW d \in Drives, Driving(d), drive' = [drive EXCEPT ![d] = Idle],
           UNCHANGED <<row, work, steps, runner>>, faults' \in 0 .. MaxFaults
    PROVE  IInv'
<1>1. TypeOK'
    BY Zenon, IdleTyped DEF IInv, TypeOK, runner
<1>2. drive'[d] = Idle /\ \A e \in Drives \ {d} : drive'[e] = drive[e]
    BY Zenon DEF IInv, TypeOK
<1>3. Remembers(d)'
    BY <1>2 DEF Remembers, Idle
<1>4. Knows(d)'
    BY <1>2 DEF Knows, Idle
<1> QED
    BY Zenon, <1>1, <1>2, <1>3, <1>4, MemoryOnly, DrivingHeld DEF Driving

LEMMA FaultTyped ==
    ASSUME TypeOK, Fault
    PROVE  faults' \in 0 .. MaxFaults
    BY BoundsAssumption DEF TypeOK, Fault

LEMMA LoseLeaseKeeps ==
    ASSUME IInv, NEW d \in Drives, LoseLease(d) \/ Abort(d)
    PROVE  IInv'
    BY Zenon, StopsKeep, FaultTyped DEF IInv, TypeOK, LoseLease, Abort

LEMMA SignalCancelKeeps ==
    ASSUME IInv, NEW d \in Drives, SignalCancel(d)
    PROVE  IInv'
<1>1. drive[d] \in Memories /\ TRUE \in BOOLEAN
    BY Zenon DEF IInv, TypeOK
<1>2. [drive[d] EXCEPT !.cancelled = TRUE] \in Memories
    BY <1>1, Zenon DEF Memories
<1>3. TypeOK'
    BY Zenon, <1>2 DEF IInv, TypeOK, SignalCancel, runner
<1>4. /\ drive'[d] = [drive[d] EXCEPT !.cancelled = TRUE]
      /\ \A e \in Drives \ {d} : drive'[e] = drive[e]
    BY Zenon DEF IInv, TypeOK, SignalCancel
<1>5. Remembers(d)'
    BY SMTT(30), <1>1, <1>4 DEF IInv, MemoryInv, Remembers, Memories, SignalCancel, runner
<1>6. Holds(d) => Knows(d)'
    BY <1>1, <1>4, SMTT(30) DEF IInv, HolderInv, Knows, Matches, Passed, Memories, SignalCancel, runner
<1> QED
    BY Zenon, <1>3, <1>4, <1>5, <1>6, MemoryOnly, DrivingHeld DEF SignalCancel, Driving

(* A change of stage, with what the drive notes of the verdict.            *)
LEMMA StageKeeps ==
    ASSUME IInv, NEW d \in Drives, Driving(d), UNCHANGED <<row, work, steps, runner>>,
           Fault \/ UNCHANGED faults, NEW q, q \in Memories, drive' = [drive EXCEPT ![d] = q],
           q.go = drive[d].go, q.try = drive[d].try, q.cancelled = drive[d].cancelled,
           (\A s \in Steps : drive[d].go[s] = "end") \/ q.at = "run",
           Holds(d) => Knows(d)'
    PROVE  IInv'
<1>1. TypeOK'
  <2>1. faults' \in 0 .. MaxFaults
    BY Zenon, FaultTyped DEF IInv, TypeOK
  <2> QED
    BY Zenon, <2>1 DEF IInv, TypeOK, runner
<1>2. drive'[d] = q /\ \A e \in Drives \ {d} : drive'[e] = drive[e]
    BY Zenon DEF IInv, TypeOK
<1>3. Remembers(d)'
    BY <1>2 DEF IInv, MemoryInv, Remembers, runner
<1> QED
    BY Zenon, <1>1, <1>2, <1>3, MemoryOnly, DrivingHeld DEF Driving

(* The places are all "end" outside reack and run.                         *)
LEMMA NoStepUnderWay ==
    ASSUME IInv, NEW d \in Drives, drive[d].at \notin {"reack", "run", "sweep"}
    PROVE  \A s \in Steps : drive[d].go[s] = "end"
    BY Zenon DEF IInv, MemoryInv, Remembers

(* A drive's memory in another stage.                                      *)
AtStage(q, d, st) ==
    /\ q \in Memories /\ q.at = st /\ q.go = drive[d].go /\ q.try = drive[d].try
    /\ q.verdict = drive[d].verdict /\ q.cancelled = drive[d].cancelled /\ q.unclean = drive[d].unclean

LEMMA StageFacts ==
    ASSUME IInv, NEW d \in Drives, NEW st \in Stages
    PROVE  AtStage([drive[d] EXCEPT !.at = st], d, st)
<1>1. drive[d] \in Memories
    BY Zenon DEF IInv, TypeOK
<1> QED
    BY Zenon, <1>1 DEF AtStage, Memories

LEMMA DivergeKeeps ==
    ASSUME IInv, NEW d \in Drives, Diverge(d)
    PROVE  IInv'
<1> DEFINE q == [drive[d] EXCEPT !.at = "diverge", !.verdict = "failure", !.abandoned = InFlight]
<1>1. drive[d] \in Memories /\ InFlight \in BOOLEAN
    BY Zenon DEF IInv, TypeOK, InFlight
<1>2. /\ q \in Memories /\ q.at = "diverge" /\ q.verdict = "failure" /\ q.go = drive[d].go
      /\ q.try = drive[d].try /\ q.cancelled = drive[d].cancelled
    BY <1>1, Zenon DEF Memories, Stages, Results
<1>3. drive' = [drive EXCEPT ![d] = q] /\ drive'[d] = q
    BY Zenon DEF Diverge, IInv, TypeOK
<1>4. Knows(d)'
    BY <1>2, <1>3, Zenon DEF Knows
<1> HIDE DEF q
<1> QED
    BY <1>2, <1>3, <1>4, StageKeeps, NoStepUnderWay, Zenon DEF Diverge, Driving

(* The verdict is taken once no step is under way.                         *)
LEMMA JudgesKeeps ==
    ASSUME IInv, NEW d \in Drives, drive[d].at \in {"run", "sweep"}, StepsEnded(d),
           drive' = [drive EXCEPT ![d].at = "judge"], UNCHANGED <<row, work, steps, runner, faults>>
    PROVE  IInv'
<1> DEFINE q == [drive[d] EXCEPT !.at = "judge"]
<1>1. drive[d] \in Memories
    BY Zenon DEF IInv, TypeOK
<1>2. /\ q \in Memories /\ q.at = "judge" /\ q.go = drive[d].go
      /\ q.try = drive[d].try /\ q.cancelled = drive[d].cancelled /\ q.unclean = drive[d].unclean
    BY <1>1 DEF Memories, Stages
<1>3. drive' = [drive EXCEPT ![d] = q] /\ drive'[d] = q
    BY ZenonT(30) DEF IInv, TypeOK
<1> HIDE DEF q
<1>4. Holds(d) => Knows(d)'
    BY <1>2, <1>3, SMTT(30) DEF Knows, Matches, IInv, HolderInv, runner
<1> QED
    BY <1>2, <1>3, <1>4, StageKeeps, Zenon DEF StepsEnded, Driving

LEMMA SweptKeeps ==
    ASSUME IInv, NEW d \in Drives, Swept(d)
    PROVE  IInv'
    BY Zenon, JudgesKeeps DEF Swept

LEMMA WorkflowEndsKeeps ==
    ASSUME IInv, NEW d \in Drives, WorkflowEnds(d)
    PROVE  IInv'
<1>1. drive[d] \in Memories /\ drive[d].at = "run" /\ UNCHANGED <<row, work, steps, runner, faults>>
    BY Zenon DEF IInv, TypeOK, WorkflowEnds
<1>2. CASE ~drive[d].cancelled
    BY Zenon, <1>1, <1>2, JudgesKeeps DEF WorkflowEnds, IInv, TypeOK
<1>3. CASE drive[d].cancelled
  <2> DEFINE go == [s \in Steps |-> IF steps[s].at = "done" THEN "end" ELSE "cancelled"]
             q == [drive[d] EXCEPT !.at = "sweep", !.go = go]
  <2>1. drive' = [drive EXCEPT ![d] = q] /\ drive'[d] = q /\ \A e \in Drives \ {d} : drive'[e] = drive[e]
    BY Zenon, <1>3 DEF WorkflowEnds, IInv, TypeOK
  <2>2. /\ go \in [Steps -> Places]
        /\ \A s \in Steps : go[s] = IF steps[s].at = "done" THEN "end" ELSE "cancelled"
    BY Zenon DEF Places
  <2> HIDE DEF go
  <2>3. /\ q \in Memories /\ q.at = "sweep" /\ q.go = go /\ q.try = drive[d].try
        /\ q.cancelled = drive[d].cancelled /\ q.unclean = drive[d].unclean
    BY <1>1, <2>2, ZenonT(60) DEF Memories, Stages
  <2> HIDE DEF q
  <2>4. TypeOK'
    BY Zenon, <1>1, <2>1, <2>3 DEF IInv, TypeOK, runner
  <2>5. \A s \in Steps : drive'[d].go[s] = IF steps[s].at = "done" THEN "end" ELSE "cancelled"
    BY Zenon, <2>1, <2>2, <2>3
  <2>6. Remembers(d)'
    <3>1. (drive[d].cancelled => row.cancel) /\ UNCHANGED row
      BY Zenon, <1>1 DEF IInv, MemoryInv, Remembers
    <3>2. drive'[d].at = "sweep" /\ drive'[d].cancelled = drive[d].cancelled
          /\ \A s \in Steps : drive'[d].go[s] \in {"end", "cancelled"}
      BY Zenon, <2>1, <2>3, <2>5
    <3> QED
      BY <3>1, <3>2 DEF Remembers
  <2>7. Holds(d) => \A s \in Steps : Matches(d, s)'
    <3> SUFFICES ASSUME Holds(d), NEW s \in Steps PROVE Matches(d, s)'
      BY Zenon
    <3>1. Knows(d)
      BY Zenon DEF IInv, HolderInv
    <3>2. Matches(d, s) /\ drive[d].go[s] = "end"
      BY Zenon, <1>1, <3>1 DEF Knows, WorkflowEnds, StepsEnded
    <3>3. /\ drive'[d].go[s] = IF steps[s].at = "done" THEN "end" ELSE "cancelled"
          /\ drive'[d].try = drive[d].try /\ drive'[d].unclean = drive[d].unclean
          /\ UNCHANGED <<steps, acked>>
      BY Zenon, <1>1, <2>1, <2>3, <2>5 DEF runner
    <3>4. steps[s].how = "ok" => steps[s].at = "done"
      BY Zenon DEF IInv, RowsInv
    <3> QED
      BY <3>2, <3>3, <3>4 DEF Matches
  <2>8. Holds(d) => Knows(d)'
    BY Zenon, <1>1, <2>1, <2>3, <2>7 DEF IInv, HolderInv, Knows
  <2> QED
    BY <1>1, <2>1, <2>4, <2>6, <2>8, MemoryOnly, DrivingHeld, Zenon
<1> QED
    BY Zenon, <1>2, <1>3

LEMMA ReackedKeeps ==
    ASSUME IInv, NEW d \in Drives, Reacked(d)
    PROVE  IInv'
<1> DEFINE q == [drive[d] EXCEPT !.at = "run"]
<1>1. drive[d] \in Memories
    BY DEF IInv, TypeOK
<1>2. /\ q \in Memories /\ q.at = "run" /\ q.go = drive[d].go
      /\ q.try = drive[d].try /\ q.cancelled = drive[d].cancelled /\ q.unclean = drive[d].unclean
    BY Zenon, <1>1 DEF Memories, Stages
<1>3. CASE drive[d].unclean
    BY <1>3, StopsKeep, Zenon DEF Reacked, Driving, IInv, TypeOK
<1>4. CASE ~drive[d].unclean
  <2>1. drive' = [drive EXCEPT ![d] = q] /\ drive'[d] = q
    BY SMTT(30), <1>4 DEF Reacked, IInv, TypeOK
  <2> HIDE DEF q
  <2>2. Holds(d) => Knows(d)'
    BY <1>2, <2>1, SMTT(30) DEF Knows, Matches, IInv, HolderInv, Reacked, runner
  <2> QED
    BY <1>2, <2>1, <2>2, StageKeeps, Zenon DEF Reacked, Driving
<1> QED
    BY Zenon, <1>3, <1>4

LEMMA FenceKeeps ==
    ASSUME IInv, NEW d \in Drives, Fence(d)
    PROVE  IInv'
<1>1. drive[d] \in Memories /\ drive[d].verdict \in Results \cup {"none"}
      /\ Knows(d) /\ \A s \in Steps : drive[d].go[s] = "end"
    BY Zenon, NoStepUnderWay DEF IInv, TypeOK, HolderInv, Fence, Memories
<1>2. CASE drive[d].at = "refused" /\ row.named
  <2> DEFINE q == [drive[d] EXCEPT !.at = "stored", !.abandoned = InFlight]
  <2>1. InFlight \in BOOLEAN
    BY Zenon DEF InFlight
  <2>2. /\ q \in Memories /\ q.at = "stored" /\ q.verdict = drive[d].verdict /\ q.go = drive[d].go
        /\ q.try = drive[d].try /\ q.cancelled = drive[d].cancelled
    BY <1>1, <2>1, Zenon DEF Memories, Stages
  <2>3. drive' = [drive EXCEPT ![d] = q] /\ drive'[d] = q
    BY Zenon, <1>2 DEF Fence, IInv, TypeOK
  <2> HIDE DEF q
  <2>4. Knows(d)'
    BY <1>1, <1>2, <2>2, <2>3 DEF Knows
  <2> QED
    BY <1>1, <2>2, <2>3, <2>4, StageKeeps, Zenon DEF Fence, Driving
<1>3. CASE ~(drive[d].at = "refused" /\ row.named)
  <2> DEFINE q == [drive[d] EXCEPT !.at = "stop"]
  <2>1. /\ q \in Memories /\ q.at = "stop" /\ q.verdict = drive[d].verdict /\ q.go = drive[d].go
        /\ q.try = drive[d].try /\ q.cancelled = drive[d].cancelled
    BY Zenon, <1>1 DEF Memories, Stages
  <2>2. drive' = [drive EXCEPT ![d] = q] /\ drive'[d] = q
    BY <1>3, Zenon DEF Fence, IInv, TypeOK
  <2> HIDE DEF q
  <2>3. Knows(d)'
    BY Zenon, <1>1, <1>3, <2>1, <2>2 DEF Knows, Passed, Fence, runner
  <2> QED
    BY <1>1, <2>1, <2>2, <2>3, StageKeeps, Zenon DEF Fence, Driving
<1> QED
    BY Zenon, <1>2, <1>3

LEMMA JudgeKeeps ==
    ASSUME IInv, NEW d \in Drives, Judge(d)
    PROVE  IInv'
<1>1. drive[d] \in Memories /\ \A s \in Steps : drive[d].go[s] = "end"
    BY Zenon, NoStepUnderWay DEF IInv, TypeOK, Judge
<1>2. CASE drive' = [drive EXCEPT ![d] = Idle]
    BY <1>2, StopsKeep, Zenon DEF Judge, Driving, IInv, TypeOK
<1>3. ASSUME NEW v \in Results,
             drive' = [drive EXCEPT ![d].at = "fence", ![d].verdict = v],
             v = "success" => /\ \A s \in Steps : steps[s].how \in {"ok", "skipped"}
                              /\ ~drive[d].unclean \/ drive[d].cancelled
      PROVE  IInv'
  <2> DEFINE q == [drive[d] EXCEPT !.at = "fence", !.verdict = v]
  <2>1. /\ q \in Memories /\ q.at = "fence" /\ q.verdict = v /\ q.go = drive[d].go
        /\ q.try = drive[d].try /\ q.cancelled = drive[d].cancelled
    BY <1>1, Zenon DEF Memories, Stages
  <2>2. drive' = [drive EXCEPT ![d] = q] /\ drive'[d] = q
    BY <1>3, ZenonT(30) DEF IInv, TypeOK
  <2> HIDE DEF q
  <2>3. Holds(d) /\ v = "success" => Passed
    BY <1>1, <1>3, SMTT(30) DEF IInv, HolderInv, Knows, Matches, Passed, MemoryInv, Remembers, Judge
  <2>4. Holds(d) => Knows(d)'
    BY Zenon, <2>1, <2>2, <2>3 DEF Knows, Passed, Judge, runner
  <2> QED
    BY <1>1, <2>1, <2>2, <2>4, StageKeeps, Zenon DEF Judge, Driving
<1>4. VerdictOfSteps(d) \in Results
      /\ (VerdictOfSteps(d) = "success" => \A s \in Steps : steps[s].how \in {"ok", "skipped"})
    BY Zenon DEF VerdictOfSteps, Results
<1> QED
    BY Zenon, <1>2, <1>3, <1>4 DEF Judge, Results

LEMMA ResumeKeeps ==
    ASSUME IInv, NEW d \in Drives, Resume(d)
    PROVE  IInv'
<1> DEFINE go == [s \in Steps |-> ResumeAt(steps[s])]
           try == [s \in Steps |-> steps[s].n]
           q == [drive[d] EXCEPT !.at = "reack", !.go = go, !.try = try]
<1>1. drive[d] \in Memories
    BY DEF IInv, TypeOK
<1>2. go \in [Steps -> Places]
    BY Zenon DEF ResumeAt, Places
<1>3. \A s \in Steps : steps[s].n \in Numbers
    BY Zenon DEF IInv, TypeOK, StepRows, RowsInv, Resume
<1>4. try \in [Steps -> Numbers]
    BY Zenon, <1>3
<1>5. /\ q \in Memories /\ q.at = "reack" /\ q.go = go /\ q.try = try
      /\ q.cancelled = drive[d].cancelled
    BY <1>1, <1>2, <1>4, Zenon DEF Memories, Stages
<1>6. drive' = [drive EXCEPT ![d] = q] /\ drive'[d] = q /\ \A e \in Drives \ {d} : drive'[e] = drive[e]
    BY Zenon DEF Resume, IInv, TypeOK
<1>7. \A s \in Steps : go[s] = ResumeAt(steps[s]) /\ try[s] = steps[s].n
    BY Zenon
<1> HIDE DEF q, go, try
<1>8. TypeOK'
    BY <1>5, <1>6, ZenonT(30) DEF IInv, TypeOK, Resume, runner
<1>9. Remembers(d)'
    BY <1>5, <1>6, <1>7, Zenon DEF IInv, MemoryInv, Remembers, ResumeAt, Resume, runner
<1>10. ASSUME NEW s \in Steps
       PROVE  Matches(d, s)'
  <2>1. steps[s].at \in {"pending", "running", "between", "done"}
    BY Zenon DEF IInv, TypeOK, StepRows, Resume
  <2>2. drive'[d].try[s] = steps[s].n /\ drive'[d].go[s] = ResumeAt(steps[s])
    BY Zenon, <1>5, <1>6, <1>7
  <2>3. drive'[d].go[s] =
            IF steps[s].at = "done" THEN "ack" ELSE IF steps[s].at = "between" THEN "clean" ELSE "todo"
    BY Zenon, <2>1, <2>2 DEF ResumeAt
  <2>4. steps' = steps /\ drive'[d].go[s] \in {"ack", "clean", "todo"}
    BY <2>3, Zenon DEF Resume
  <2> QED
    BY Zenon, <2>1, <2>2, <2>3, <2>4 DEF Matches
<1>11. Holds(d) => row.named
    BY StepsAssumption, Zenon DEF IInv, ResultInv, Resume
<1>12. Holds(d) => Knows(d)'
    BY <1>5, <1>6, <1>10, <1>11, Zenon DEF Knows, Resume
<1> QED
    BY <1>6, <1>8, <1>9, <1>12, MemoryOnly, DrivingHeld, Zenon DEF Resume

-----------------------------------------------------------------------------
(* The steps of a step's goroutine.                                        *)

Moved(d, s, place) ==
    /\ drive' \in [Drives -> Memories]
    /\ \A e \in Drives \ {d} : drive'[e] = drive[e]
    /\ drive'[d].go[s] = place /\ \A x \in Steps \ {s} : drive'[d].go[x] = drive[d].go[x]
    /\ drive'[d].at = drive[d].at /\ drive'[d].try = drive[d].try
    /\ drive'[d].begun = drive[d].begun /\ drive'[d].verdict = drive[d].verdict
    /\ drive'[d].cancelled = drive[d].cancelled /\ drive'[d].unclean = drive[d].unclean

LEMMA MoveFacts ==
    ASSUME TypeOK, NEW d \in Drives, NEW s \in Steps, NEW place \in Places, Move(d, s, place)
    PROVE  Moved(d, s, place)
<1> DEFINE q == [drive[d] EXCEPT !.go[s] = place]
<1>1. drive[d] \in Memories /\ drive[d].go \in [Steps -> Places]
    BY Zenon DEF TypeOK, Memories
<1>2. /\ q \in Memories /\ q.go = [drive[d].go EXCEPT ![s] = place]
      /\ q.at = drive[d].at /\ q.try = drive[d].try
      /\ q.begun = drive[d].begun /\ q.verdict = drive[d].verdict
      /\ q.cancelled = drive[d].cancelled /\ q.unclean = drive[d].unclean
    BY Zenon, <1>1 DEF Memories
<1>3. drive' = [drive EXCEPT ![d] = q] /\ drive'[d] = q
    BY Zenon DEF Move, TypeOK
<1> HIDE DEF q
<1> QED
    BY Zenon, <1>1, <1>2, <1>3 DEF TypeOK, Moved

LEMMA MoveKeeps ==
    ASSUME IInv, NEW d \in Drives, NEW s \in Steps, NEW place \in Places, Move(d, s, place),
           UNCHANGED <<row, work, steps, runner>>, faults' \in 0 .. MaxFaults,
           drive[d].at \in {"reack", "run", "sweep"}, place \notin {"send", "next"},
           place = "ok" => command[<<s, drive[d].try[s]>>] = "ok",
           place = "skipped" => steps[s].skip,
           Holds(d) => Matches(d, s)'
    PROVE  IInv'
<1>0. Moved(d, s, place)
    BY Zenon, MoveFacts DEF IInv
<1>1. TypeOK'
    BY Zenon, <1>0 DEF IInv, TypeOK, runner, Moved
<1>2. Remembers(d)'
    BY <1>0, SMTT(30) DEF IInv, MemoryInv, Remembers, runner, Moved
<1>3. Holds(d) => \A x \in Steps \ {s} : Matches(d, x)'
    BY <1>0, SMTT(30) DEF IInv, HolderInv, Knows, Matches, runner, Moved
<1>4. Holds(d) => Knows(d)'
    BY <1>0, <1>3, SMTT(30) DEF IInv, HolderInv, Knows, Moved
<1> QED
    BY <1>0, <1>1, <1>2, <1>4, MemoryOnly, DrivingHeld, Zenon DEF Moved

(* What the holder knows of one step.                                      *)
LEMMA HolderMatches ==
    ASSUME IInv, NEW d \in Drives, NEW s \in Steps, Holds(d), drive[d].at \in {"reack", "run", "sweep", "judge"}
    PROVE  Matches(d, s)
    BY Zenon DEF IInv, HolderInv, Knows

LEMMA UnderWay ==
    ASSUME IInv, NEW d \in Drives, NEW s \in Steps, drive[d].go[s] # "end"
    PROVE  drive[d].at \in {"reack", "run", "sweep"}
    BY Zenon DEF IInv, MemoryInv, Remembers

(* A move to a receipt to write, or to the end, of a step not yet done.    *)
LEMMA GiveUpKeeps ==
    ASSUME IInv, NEW d \in Drives, NEW s \in Steps, NEW place \in {"failed", "skipped", "cancelled", "end"},
           Move(d, s, place), UNCHANGED <<row, work, steps, runner>>, faults' \in 0 .. MaxFaults,
           drive[d].at \in {"reack", "run", "sweep"},
           Holds(d) => steps[s].at # "done", place = "skipped" => steps[s].skip
    PROVE  IInv'
<1>1. place \in Places /\ place \notin {"send", "next", "ok"}
    BY Zenon DEF Places
<1>2. Holds(d) => steps[s].how # "ok"
    BY Zenon DEF IInv, RowsInv
<1>3. Holds(d) => Matches(d, s)'
  <2> SUFFICES ASSUME Holds(d) PROVE Matches(d, s)'
    BY Zenon
  <2>1. Matches(d, s) /\ steps' = steps
    BY Zenon, HolderMatches DEF runner
  <2>2. drive'[d].go[s] = place /\ drive'[d].try = drive[d].try
    BY Zenon, <1>1, MoveFacts DEF IInv, Moved
  <2> QED
    BY <1>2, <2>1, <2>2, Zenon DEF Matches
<1> QED
    BY <1>1, <1>3, MoveKeeps, Zenon

LEMMA AnswerKeeps ==
    ASSUME IInv, NEW d \in Drives, NEW s \in Steps, Answer(d, s)
    PROVE  IInv'
<1>1. drive[d].at \in {"reack", "run", "sweep"} /\ UNCHANGED <<row, work, steps, runner>>
    BY Zenon, UnderWay DEF Answer
<1>2. faults' \in 0 .. MaxFaults
    BY FaultTyped, Zenon DEF Answer, IInv, TypeOK
<1>3. Holds(d) => Matches(d, s) /\ steps[s].at = "running" /\ ~steps[s].skip
    BY <1>1, HolderMatches, Zenon DEF Matches, Answer
<1>4. CASE Move(d, s, "cancelled") \/ Move(d, s, "failed")
    BY <1>1, <1>2, <1>3, <1>4, GiveUpKeeps, Zenon
<1>5. ASSUME NEW place \in {"ok", "bad", "unsure"}, Move(d, s, place),
             place = "ok" => command[<<s, drive[d].try[s]>>] = "ok"
      PROVE  IInv'
  <2>1. place \in Places
    BY Zenon DEF Places
  <2>2. Moved(d, s, place)
    BY Zenon, <1>5, <2>1, MoveFacts DEF IInv
  <2>3. Holds(d) => Matches(d, s)'
    BY <1>1, <1>3, <2>2, Zenon DEF Matches, Moved
  <2> QED
    BY <1>1, <1>2, <1>5, <2>1, <2>3, MoveKeeps, Zenon
<1> QED
    BY Zenon, <1>4, <1>5 DEF Answer

(* Another drive's knowledge stays true while the rows stand and the       *)
(* runner only confirms more.                                              *)
LEMMA OthersKnow ==
    ASSUME IInv, NEW d \in Drives, UNCHANGED <<row, work, steps>>,
           \A e \in Drives \ {d} : drive'[e] = drive[e],
           acked \subseteq acked', halted => halted'
    PROVE  \A e \in Drives \ {d} : Holds(e) => Knows(e)'
<1> SUFFICES ASSUME NEW e \in Drives \ {d}, Holds(e)
             PROVE  Knows(e)'
    BY Zenon
<1>1. Knows(e) /\ drive'[e] = drive[e]
    BY ZenonT(30) DEF IInv, HolderInv
<1>2. \A s \in Steps : Matches(e, s) => Matches(e, s)'
    BY <1>1 DEF Matches
<1>3. Passed => Passed'
    BY Zenon DEF Passed
<1> QED
    BY <1>1, <1>2, <1>3, SMTT(30) DEF Knows

LEMMA ExecuteKeeps ==
    ASSUME IInv, NEW d \in Drives, NEW s \in Steps, Execute(d, s)
    PROVE  IInv'
<1>1. drive[d].at \in {"reack", "run", "sweep"} /\ UNCHANGED <<row, work, steps, command, acked, halted, faults>>
    BY Zenon, UnderWay DEF Execute
<1>2. Holds(d) => Matches(d, s) /\ steps[s].at = "running" /\ ~steps[s].skip
    BY <1>1, HolderMatches, Zenon DEF Matches, Execute
<1>3. CASE (Move(d, s, "cancelled") \/ Move(d, s, "failed")) /\ UNCHANGED sent
    BY <1>1, <1>2, <1>3, GiveUpKeeps, Zenon DEF IInv, TypeOK, runner
<1>4. CASE Move(d, s, "wait") /\ sent' = IF drive[d].go[s] = "send"
                                         THEN sent \cup {<<s, drive[d].try[s]>>} ELSE sent
  <2>1. Moved(d, s, "wait")
    BY Zenon, <1>4, MoveFacts DEF IInv, Places
  <2>2. <<s, drive[d].try[s]>> \in Attempts
    BY DEF IInv, TypeOK, Memories, Attempts
  <2>3. TypeOK'
    BY <1>1, <1>4, <2>1, <2>2, ZenonT(30) DEF IInv, TypeOK, Moved
  <2>4. RowsInv'
    BY <1>1, <1>4, SMTT(30) DEF IInv, RowsInv, MemoryInv, Remembers
  <2>5. Remembers(d)'
    BY <1>1, <2>1, SMTT(30) DEF IInv, MemoryInv, Remembers, Moved
  <2>6. \A e \in Drives \ {d} : Remembers(e)'
    BY <1>1, <2>1, SMTT(30) DEF IInv, MemoryInv, Remembers, Moved
  <2>7. Holds(d) => \A x \in Steps : Matches(d, x)'
    <3> SUFFICES ASSUME Holds(d), NEW x \in Steps PROVE Matches(d, x)'
      BY Zenon
    <3>1. Matches(d, x) /\ steps' = steps /\ acked' = acked
      BY Zenon, <1>1, HolderMatches
    <3>2. drive'[d].try = drive[d].try /\ drive'[d].unclean = drive[d].unclean
          /\ drive'[d].go[x] = IF x = s THEN "wait" ELSE drive[d].go[x]
      BY Zenon, <2>1 DEF Moved
    <3> QED
      BY <1>2, <3>1, <3>2, SMTT(30) DEF Matches
  <2>8. Holds(d) => Knows(d)'
    BY <1>1, <2>1, <2>7, Zenon DEF IInv, HolderInv, Knows, Moved
  <2>9. \A e \in Drives \ {d} : Holds(e) => Knows(e)'
    BY <1>1, <2>1, OthersKnow, Zenon DEF Moved
  <2>10. HolderInv' /\ MemoryInv'
    BY <1>1, <2>5, <2>6, <2>8, <2>9, ZenonT(30) DEF HolderInv, MemoryInv, Holds, Completed
  <2>11. ResultInv'
    BY <1>1, DrivingHeld, SMTT(30) DEF IInv, ResultInv, Passed, Completed
  <2> QED
    BY Zenon, <2>3, <2>4, <2>10, <2>11 DEF IInv
<1> QED
    BY Zenon, <1>3, <1>4 DEF Execute

LEMMA AcknowledgeKeeps ==
    ASSUME IInv, NEW d \in Drives, NEW s \in Steps, Acknowledge(d, s)
    PROVE  IInv'
<1>1. drive[d].at \in {"reack", "run", "sweep"} /\ UNCHANGED <<row, work, steps, sent, command, halted>>
    BY ZenonT(30), UnderWay DEF Acknowledge
<1>2. Holds(d) => Matches(d, s) /\ steps[s].at \in {"between", "done"}
    BY <1>1, HolderMatches DEF Matches, Acknowledge
<1>3. ASSUME NEW place \in {"next", "end"}, Move(d, s, place), UNCHANGED faults,
             acked' = acked \cup {<<s, drive[d].try[s]>>},
             place = "next" => drive[d].go[s] = "clean"
      PROVE  IInv'
  <2>1. Moved(d, s, place)
    BY Zenon, <1>3, MoveFacts DEF IInv, Places
  <2>2. <<s, drive[d].try[s]>> \in Attempts
    BY DEF IInv, TypeOK, Memories, Attempts
  <2>3. TypeOK'
    BY Zenon, <1>1, <1>3, <2>1, <2>2 DEF IInv, TypeOK, Moved
  <2>4. RowsInv'
    BY ZenonT(30), <1>1, <1>3 DEF IInv, RowsInv
  <2>5. Remembers(d)'
    BY SMTT(30), <1>1, <1>3, <2>1 DEF IInv, MemoryInv, Remembers, Moved
  <2>6. \A e \in Drives \ {d} : Remembers(e)'
    BY <1>1, <1>3, <2>1 DEF IInv, MemoryInv, Remembers, Moved
  <2>7. Holds(d) => Matches(d, s)'
    BY <1>1, <1>2, <1>3, <2>1, Zenon DEF Matches, Moved
  <2>8. Holds(d) => \A x \in Steps \ {s} : Matches(d, x)'
    <3> SUFFICES ASSUME NEW x \in Steps \ {s}, Holds(d) PROVE Matches(d, x)'
      BY Zenon
    <3>1. Matches(d, x)
      BY Zenon, <1>1, HolderMatches
    <3>2. /\ drive'[d].go[x] = drive[d].go[x] /\ drive'[d].try[x] = drive[d].try[x]
          /\ drive'[d].unclean = drive[d].unclean
      BY <2>1, Zenon DEF Moved
    <3>3. steps'[x] = steps[x] /\ acked \subseteq acked'
      BY ZenonT(30), <1>1, <1>3
    <3> QED
      BY Zenon, <3>1, <3>2, <3>3, MatchesStay
  <2>9. Holds(d) => Knows(d)'
    BY <1>1, <2>1, <2>7, <2>8 DEF IInv, HolderInv, Knows, Moved
  <2>10. \A e \in Drives \ {d} : Holds(e) => Knows(e)'
    BY Zenon, <1>1, <1>3, <2>1, OthersKnow DEF Moved
  <2>11. HolderInv' /\ MemoryInv'
    BY Zenon, <1>1, <2>5, <2>6, <2>9, <2>10 DEF HolderInv, MemoryInv, Holds, Completed
  <2>12. ResultInv'
    BY Zenon, <1>1, <1>3, DrivingHeld DEF IInv, ResultInv, Passed, Completed
  <2> QED
    BY Zenon, <2>3, <2>4, <2>11, <2>12 DEF IInv
<1>4. CASE Fault /\ drive' = [drive EXCEPT ![d].unclean = TRUE, ![d].go[s] = "end"] /\ UNCHANGED acked
  <2> DEFINE q == [drive[d] EXCEPT !.unclean = TRUE, !.go[s] = "end"]
  <2>1. drive[d] \in Memories /\ drive[d].go \in [Steps -> Places] /\ "end" \in Places
    BY Zenon DEF IInv, TypeOK, Memories, Places
  <2>2. TRUE \in BOOLEAN
    BY Zenon
  <2>3. /\ q \in Memories /\ q.go = [drive[d].go EXCEPT ![s] = "end"]
        /\ q.at = drive[d].at /\ q.try = drive[d].try /\ q.cancelled = drive[d].cancelled
    BY <2>1, <2>2, Zenon DEF Memories
  <2>4. q.unclean
    BY Zenon, <2>1 DEF Memories
  <2>5. drive' = [drive EXCEPT ![d] = q] /\ drive'[d] = q /\ \A e \in Drives \ {d} : drive'[e] = drive[e]
    BY <1>4, Zenon DEF IInv, TypeOK
  <2> HIDE DEF q
  <2>6. TypeOK'
    BY ZenonT(30), <1>1, <1>4, <2>3, <2>5, FaultTyped DEF IInv, TypeOK
  <2>7. Remembers(d)'
    <3>1. /\ Remembers(d) /\ acked' = acked
          /\ \A x \in Steps : q.go[x] = IF x = s THEN "end" ELSE drive[d].go[x]
      BY Zenon, <1>4, <2>1, <2>3 DEF IInv, MemoryInv
    <3>2. /\ drive'[d].cancelled = drive[d].cancelled /\ drive'[d].at = drive[d].at
          /\ drive'[d].try = drive[d].try
          /\ \A x \in Steps : drive'[d].go[x] = IF x = s THEN "end" ELSE drive[d].go[x]
      BY <2>3, <2>5, <3>1, ZenonT(30)
    <3> QED
      BY <1>1, <3>1, <3>2 DEF Remembers
  <2>8. Holds(d) => \A x \in Steps : Matches(d, x)'
    BY <1>1, <1>2, <1>4, <2>1, <2>3, <2>4, <2>5, SMTT(30) DEF IInv, HolderInv, Knows, Matches
  <2>9. Holds(d) => Knows(d)'
    BY <1>1, <2>3, <2>5, <2>8, Zenon DEF IInv, HolderInv, Knows
  <2> QED
    BY <1>1, <1>4, <2>5, <2>6, <2>7, <2>9, MemoryOnly, DrivingHeld, Zenon DEF runner
<1> QED
    BY <1>3, <1>4, Zenon DEF Acknowledge

-----------------------------------------------------------------------------
(* The steps that write: the holder's own.                                 *)

LEMMA HolderWrites ==
    ASSUME IInv, NEW d \in Drives, Holds(d), UNCHANGED <<row, runner>>,
           \A e \in Drives \ {d} : drive'[e] = drive[e],
           TypeOK', RowsInv', \A s \in Steps : steps[s].n <= steps'[s].n, SkipsStay,
           row.named \/ UNCHANGED steps, Remembers(d)', Knows(d)'
    PROVE  IInv'
<1>1. MemoryInv'
    BY Zenon, OthersRemember DEF MemoryInv, runner
<1>2. HolderInv'
    BY Zenon DEF HolderInv, Holds, Completed
<1>3. ResultInv'
    BY Zenon, DrivesAssumption DEF IInv, ResultInv, Holds, Completed
<1> QED
    BY Zenon, <1>1, <1>2, <1>3 DEF IInv

(* A row a step's may be replaced by.                                      *)
Follows(s, r) ==
    /\ r \in StepRows /\ r.at # "none" /\ r.n \in Numbers /\ steps[s].n <= r.n
    /\ r.at = "between" => r.n < MaxAttempts /\ ~r.skip
    /\ r.how = "ok" => r.at = "done" /\ command[<<s, r.n>>] = "ok"
    /\ r.how = "skipped" => r.at = "done" /\ r.skip
    /\ steps[s].at = "none" \/ r.skip = steps[s].skip
    /\ \A m \in Numbers : m < r.n => <<s, m>> \in acked

(* A drive's memory with one step moved.                                   *)
Beside(q, d, s, place, n) ==
    /\ q \in Memories /\ q.at = drive[d].at /\ q.verdict = drive[d].verdict
    /\ q.cancelled = drive[d].cancelled /\ q.unclean = drive[d].unclean
    /\ q.go[s] = place /\ q.try[s] = n
    /\ \A x \in Steps \ {s} : q.go[x] = drive[d].go[x] /\ q.try[x] = drive[d].try[x]

LEMMA RowWritten ==
    ASSUME IInv, NEW s \in Steps, NEW r, Follows(s, r), steps' = [steps EXCEPT ![s] = r],
           UNCHANGED runner
    PROVE  /\ RowsInv' /\ steps' \in [Steps -> StepRows]
           /\ steps'[s] = r /\ \A x \in Steps \ {s} : steps'[x] = steps[x]
           /\ (\A x \in Steps : steps[x].n <= steps'[x].n) /\ SkipsStay
<1> USE DEF Follows
<1>1. steps \in [Steps -> StepRows]
    BY Zenon DEF IInv, TypeOK
<1>2. steps' \in [Steps -> StepRows] /\ steps'[s] = r /\ \A x \in Steps \ {s} : steps'[x] = steps[x]
    BY Zenon, <1>1
<1>3. \A x \in Steps : steps[x].n \in Nat
    BY <1>1, BoundsAssumption DEF StepRows, Numbers
<1>4. \A x \in Steps : steps[x].n <= steps'[x].n
    BY <1>2, <1>3
<1>5. UNCHANGED <<sent, command, acked>> /\ r.n # 0 /\ r.n \in Nat /\ \A m \in Numbers : m \in Nat
    BY BoundsAssumption DEF runner, Numbers
<1>6. RowsInv'
  <2> SUFFICES ASSUME NEW x \in Steps
               PROVE  /\ steps'[x].at = "none" <=> steps'[x].n = 0
                      /\ steps'[x].at = "none" => ~steps'[x].skip
                      /\ steps'[x].at = "between" => steps'[x].n < MaxAttempts /\ ~steps'[x].skip
                      /\ steps'[x].how = "ok" => steps'[x].at = "done" /\ command[<<x, steps'[x].n>>] = "ok"
                      /\ steps'[x].how = "skipped" => steps'[x].at = "done" /\ steps'[x].skip
                      /\ \A m \in Numbers :
                            /\ m < steps'[x].n => <<x, m>> \in acked
                            /\ <<x, m>> \in sent => m <= steps'[x].n /\ ~steps'[x].skip
                            /\ command[<<x, m>>] # "never" => <<x, m>> \in sent
    BY <1>5 DEF RowsInv
  <2>1. CASE x = s
    <3>1. \A m \in Numbers :
             /\ <<s, m>> \in sent => m <= steps[s].n /\ ~steps[s].skip
             /\ command[<<s, m>>] # "never" => <<s, m>> \in sent
      BY Zenon DEF IInv, RowsInv
    <3>2. \A m \in Numbers : m <= steps[s].n => m <= r.n /\ steps[s].n # 0
      BY <1>3, <1>5, BoundsAssumption DEF Numbers
    <3>3. steps[s].n # 0 => r.skip = steps[s].skip
      BY Zenon DEF IInv, RowsInv
    <3> QED
      BY Zenon, <1>2, <1>5, <2>1, <3>1, <3>2, <3>3
  <2>2. CASE x # s
    BY Zenon, <1>2, <2>2 DEF IInv, RowsInv
  <2> QED
    BY Zenon, <2>1, <2>2
<1>7. SkipsStay
    BY Zenon, <1>2 DEF SkipsStay
<1> QED
    BY Zenon, <1>2, <1>4, <1>6, <1>7

(* What the holder's write of one step's row leaves to show.               *)
LEMMA StepWritten ==
    ASSUME IInv, NEW d \in Drives, NEW s \in Steps, NEW place, NEW r, NEW q,
           Holds(d), drive[d].at \in {"reack", "run", "sweep"}, UNCHANGED <<row, work, runner, faults>>,
           steps' = [steps EXCEPT ![s] = r], drive' = [drive EXCEPT ![d] = q],
           Follows(s, r), Beside(q, d, s, place, r.n), place # "next",
           place = "ok" => command[<<s, r.n>>] = "ok",
           place = "send" => ~r.skip, place = "skipped" => r.skip,
           Matches(d, s)'
    PROVE  IInv'
<1>1. /\ RowsInv' /\ steps' \in [Steps -> StepRows]
      /\ steps'[s] = r /\ \A x \in Steps \ {s} : steps'[x] = steps[x]
      /\ (\A x \in Steps : steps[x].n <= steps'[x].n) /\ SkipsStay
    BY RowWritten, Zenon
<1> USE DEF Follows, Beside
<1>2. drive' \in [Drives -> Memories] /\ drive'[d] = q /\ \A e \in Drives \ {d} : drive'[e] = drive[e]
    BY Zenon DEF IInv, TypeOK
<1>3. TypeOK'
    BY Zenon, <1>1, <1>2 DEF IInv, TypeOK, runner
<1>4. UNCHANGED <<sent, command, acked>> /\ \A x \in Steps : steps[x].n \in Nat /\ r.n \in Nat
    BY SMTT(30), BoundsAssumption DEF IInv, TypeOK, StepRows, runner, Numbers
<1>5. Remembers(d)'
    BY <1>1, <1>2, <1>4, SMTT(30) DEF IInv, MemoryInv, Remembers
<1>6. ASSUME NEW x \in Steps \ {s}
      PROVE  Matches(d, x)'
  <2>1. Matches(d, x)
    BY Zenon, HolderMatches
  <2>2. /\ steps'[x] = steps[x] /\ drive'[d].go[x] = drive[d].go[x]
        /\ drive'[d].try[x] = drive[d].try[x] /\ drive'[d].unclean = drive[d].unclean
    BY Zenon, <1>1, <1>2
  <2> QED
    BY Zenon, <1>4, <2>1, <2>2, MatchesStay
<1>7. row.named
    BY ZenonT(30) DEF IInv, HolderInv, Knows
<1>8. Knows(d)'
    BY SMTT(30), <1>2, <1>6, <1>7 DEF Knows, IInv, TypeOK, Memories, StepRows, RunRows
<1> QED
    BY Zenon, <1>1, <1>2, <1>3, <1>5, <1>7, <1>8, HolderWrites

(* What the holder finds on the row of the step it works on.               *)
LEMMA RowKnown ==
    ASSUME IInv, NEW d \in Drives, NEW s \in Steps, Holds(d), drive[d].at \in {"reack", "run", "sweep"}
    PROVE  /\ Matches(d, s) /\ steps[s] \in StepRows /\ drive[d].try[s] = steps[s].n
           /\ steps[s].n \in Numbers /\ steps[s].n \in Nat
           /\ \A m \in Numbers : m < steps[s].n => <<s, m>> \in acked
<1>1. Matches(d, s) /\ steps[s] \in StepRows
    BY Zenon, HolderMatches DEF IInv, TypeOK
<1>2. steps[s].n \in {0} \cup Numbers /\ steps[s].n # 0
    BY <1>1, Zenon DEF IInv, RowsInv, Matches, StepRows
<1> QED
    BY <1>1, <1>2, BoundsAssumption DEF IInv, RowsInv, Matches, Numbers

LEMMA BegunTyped ==
    ASSUME IInv, NEW d \in Drives, NEW s \in Steps
    PROVE  /\ drive[d] \in Memories /\ drive[d].go \in [Steps -> Places]
           /\ drive[d].try \in [Steps -> Numbers] /\ drive[d].begun \cup {s} \in SUBSET Steps
    BY Zenon DEF IInv, TypeOK, Memories

(* The intent, of the step's own attempt or of the next one.               *)
LEMMA IntendKeeps ==
    ASSUME IInv, NEW d \in Drives, NEW s \in Steps, NEW place \in Places, NEW n \in Numbers,
           NEW q, Beside(q, d, s, place, n), drive' = [drive EXCEPT ![d] = q],
           Holds(d), drive[d].at \in {"reack", "run", "sweep"}, UNCHANGED <<row, work, runner, faults>>,
           Intend(s, n),
           n = steps[s].n \/ (n = steps[s].n + 1 /\ <<s, steps[s].n>> \in acked),
           place \in {"send", "resend", "ok", "bad", "unsure", "failed", "skipped", "cancelled"},
           place \notin {"failed", "skipped", "cancelled"} => ~steps[s].skip,
           place = "skipped" => steps[s].skip,
           place = "ok" => command[<<s, n>>] = "ok"
    PROVE  IInv'
<1> DEFINE r == [at |-> "running", n |-> n, how |-> "none", skip |-> steps[s].skip]
<1>2. drive'[d] = q
    BY Zenon DEF IInv, TypeOK
<1>3. /\ r \in StepRows /\ r.at = "running" /\ r.n = n /\ r.how = "none" /\ r.skip = steps[s].skip
      /\ steps' = [steps EXCEPT ![s] = r] /\ steps'[s] = r
    BY Zenon DEF StepRows, Intend, IInv, TypeOK
<1> HIDE DEF r
<1>4. steps[s].n \in Nat /\ n \in Nat /\ steps[s].n <= n
      /\ \A m \in Numbers : m < n => <<s, m>> \in acked
  <2>1. steps[s].n \in Nat /\ n \in Nat /\ \A m \in Numbers : m \in Nat
    BY RowKnown, BoundsAssumption DEF Numbers
  <2>2. \A m \in Numbers : m < steps[s].n => <<s, m>> \in acked
    BY Zenon, RowKnown
  <2>3. CASE n = steps[s].n
    BY <2>1, <2>2, <2>3
  <2>4. CASE n = steps[s].n + 1 /\ <<s, steps[s].n>> \in acked
    <3>1. \A m \in Numbers : m < n => m < steps[s].n \/ m = steps[s].n
      BY <2>1, <2>4
    <3>2. steps[s].n <= n
      BY <2>1, <2>4
    <3> QED
      BY Zenon, <2>1, <2>2, <2>4, <3>1, <3>2
  <2> QED
    BY Zenon, <2>3, <2>4
<1>5. Matches(d, s)'
    BY Zenon, <1>2, <1>3 DEF Matches, Beside
<1>6. Follows(s, r)
    BY <1>3, <1>4, Zenon DEF Follows
<1> QED
    BY <1>3, <1>5, <1>6, StepWritten, Zenon

LEMMA InvokeKeeps ==
    ASSUME IInv, NEW d \in Drives, NEW s \in Steps, Invoke(d, s)
    PROVE  IInv'
<1>1. drive[d].at = "run" /\ drive[d].go[s] = "todo" /\ UNCHANGED <<row, work, runner, faults>>
    BY Zenon DEF Invoke
<1>2. Holds(d) => steps[s].at # "done"
    BY <1>1, HolderMatches, Zenon DEF Matches
<1>3. CASE (Move(d, s, "end") \/ Move(d, s, "failed")) /\ UNCHANGED steps
    BY <1>1, <1>2, <1>3, GiveUpKeeps, Zenon DEF IInv, TypeOK
<1>3a. CASE steps[s].skip /\ Move(d, s, "skipped") /\ UNCHANGED steps
    BY <1>1, <1>2, <1>3a, GiveUpKeeps, Zenon DEF IInv, TypeOK
<1>4. ASSUME NEW place \in {"send", "resend"}, Holds(d), Intend(s, drive[d].try[s]), ~steps[s].skip,
             drive' = [drive EXCEPT ![d].go[s] = place, ![d].begun = @ \cup {s}]
      PROVE  IInv'
  <2> DEFINE q == [drive[d] EXCEPT !.go[s] = place, !.begun = @ \cup {s}]
  <2>1. drive[d].try[s] \in Numbers /\ drive[d].try[s] = steps[s].n /\ place \in Places
    BY Zenon, <1>1, <1>4, RowKnown DEF Places
  <2>2. /\ q \in Memories /\ q.go = [drive[d].go EXCEPT ![s] = place] /\ q.try = drive[d].try
        /\ q.at = drive[d].at /\ q.verdict = drive[d].verdict
        /\ q.cancelled = drive[d].cancelled /\ q.unclean = drive[d].unclean
    BY <2>1, BegunTyped, ZenonT(30) DEF Memories
  <2>3. drive' = [drive EXCEPT ![d] = q]
    BY <1>4, Zenon DEF IInv, TypeOK
  <2> HIDE DEF q
  <2>4. Beside(q, d, s, place, drive[d].try[s])
    BY Zenon, <2>1, <2>2, BegunTyped DEF Beside
  <2> QED
    BY <1>1, <1>4, <2>1, <2>3, <2>4, IntendKeeps, Zenon
<1> QED
    BY Zenon, <1>3, <1>3a, <1>4 DEF Invoke

LEMMA NextAttemptKeeps ==
    ASSUME IInv, NEW d \in Drives, NEW s \in Steps, NextAttempt(d, s)
    PROVE  IInv'
<1>1. drive[d].at = "run" /\ drive[d].go[s] = "next" /\ UNCHANGED <<row, work, runner, faults>>
    BY Zenon DEF NextAttempt
<1>2. Holds(d) => Matches(d, s) /\ steps[s].at = "between"
    BY <1>1, HolderMatches, Zenon DEF Matches
<1>3. CASE (Move(d, s, "cancelled") \/ Move(d, s, "end") \/ Move(d, s, "failed")) /\ UNCHANGED steps
    BY <1>1, <1>2, <1>3, GiveUpKeeps, Zenon DEF IInv, TypeOK
<1>4. ASSUME Holds(d), Intend(s, drive[d].try[s] + 1),
             drive' = [drive EXCEPT ![d].go[s] = "send", ![d].try[s] = @ + 1, ![d].begun = @ \cup {s}]
      PROVE  IInv'
  <2> DEFINE n == drive[d].try[s] + 1
             q == [drive[d] EXCEPT !.go[s] = "send", !.try[s] = @ + 1, !.begun = @ \cup {s}]
  <2>1. drive[d].try[s] = steps[s].n /\ steps[s].n \in Numbers /\ steps[s].n < MaxAttempts
    BY <1>1, <1>2, <1>4, RowKnown, Zenon DEF IInv, RowsInv
  <2>2. n \in Numbers /\ "send" \in Places
    BY <2>1, BoundsAssumption DEF Numbers, Places
  <2>3. /\ q \in Memories /\ q.go = [drive[d].go EXCEPT ![s] = "send"]
        /\ q.try = [drive[d].try EXCEPT ![s] = n]
        /\ q.at = drive[d].at /\ q.verdict = drive[d].verdict
        /\ q.cancelled = drive[d].cancelled /\ q.unclean = drive[d].unclean
    BY <2>2, BegunTyped, ZenonT(60) DEF Memories
  <2>4. drive' = [drive EXCEPT ![d] = q]
    BY <1>4, ZenonT(30) DEF IInv, TypeOK
  <2>5. <<s, steps[s].n>> \in acked /\ n = steps[s].n + 1 /\ Intend(s, n) /\ ~steps[s].skip
    BY <1>1, <1>2, <1>4, <2>1, Zenon DEF IInv, MemoryInv, Remembers, RowsInv
  <2> HIDE DEF q, n
  <2>6. Beside(q, d, s, "send", n)
    BY <2>2, <2>3, BegunTyped DEF Beside
  <2>7. /\ "send" \in {"send", "resend", "ok", "bad", "unsure", "failed", "skipped", "cancelled"}
        /\ "send" # "skipped" /\ "send" # "ok" /\ drive[d].at \in {"reack", "run", "sweep"}
    BY Zenon, <1>1
  <2> QED
    BY <1>1, <1>4, <2>2, <2>4, <2>5, <2>6, <2>7, IntendKeeps, ZenonT(60)
<1> QED
    BY Zenon, <1>3, <1>4 DEF NextAttempt

(* A step's row and its place, written together.                           *)
LEMMA MoveWritten ==
    ASSUME IInv, NEW d \in Drives, NEW s \in Steps, NEW place \in Places, NEW r,
           Holds(d), drive[d].at \in {"reack", "run", "sweep"}, UNCHANGED <<row, work, runner, faults>>,
           steps' = [steps EXCEPT ![s] = r], Move(d, s, place),
           r \in StepRows, r.n = steps[s].n, r.at # "none",
           r.at = "between" => r.n < MaxAttempts /\ ~r.skip, r.skip = steps[s].skip,
           r.how = "ok" => r.at = "done" /\ command[<<s, r.n>>] = "ok",
           r.how = "skipped" => r.at = "done" /\ r.skip,
           place \in {"clean", "ack", "end"},
           place = "clean" => r.at = "between",
           place = "ack" => r.at = "done", place = "end" => r.how # "ok"
    PROVE  IInv'
<1> DEFINE q == [drive[d] EXCEPT !.go[s] = place]
<1>1. /\ q \in Memories /\ q.go = [drive[d].go EXCEPT ![s] = place] /\ q.try = drive[d].try
      /\ q.at = drive[d].at /\ q.verdict = drive[d].verdict
      /\ q.cancelled = drive[d].cancelled /\ q.unclean = drive[d].unclean
    BY SMTT(30), BegunTyped DEF Memories
<1>2. drive' = [drive EXCEPT ![d] = q] /\ drive'[d] = q
    BY Zenon DEF Move, IInv, TypeOK
<1> HIDE DEF q
<1>3. Follows(s, r) /\ drive[d].try[s] = r.n
    BY RowKnown DEF Follows
<1>4. Beside(q, d, s, place, r.n)
    BY <1>1, <1>3, BegunTyped, ZenonT(30) DEF Beside
<1>5. steps'[s] = r
    BY Zenon DEF IInv, TypeOK
<1>6. Matches(d, s)'
    BY <1>2, <1>4, <1>5, Zenon DEF Matches, Beside
<1> QED
    BY <1>2, <1>3, <1>4, <1>6, StepWritten, Zenon

LEMMA RetryingKeeps ==
    ASSUME IInv, NEW d \in Drives, NEW s \in Steps, Retrying(d, s)
    PROVE  IInv'
<1> DEFINE r == [steps[s] EXCEPT !.at = "between"]
<1>1. /\ drive[d].go[s] = "bad" /\ drive[d].try[s] < MaxAttempts /\ Holds(d)
      /\ UNCHANGED <<row, work, runner, faults>> /\ Move(d, s, "clean") /\ "clean" \in Places
    BY Zenon DEF Retrying, Places
<1>2. drive[d].at \in {"reack", "run", "sweep"}
    BY Zenon, <1>1, UnderWay
<1>3. steps[s].at = "running" /\ steps[s] \in StepRows /\ steps[s].n < MaxAttempts /\ ~steps[s].skip
    BY <1>1, <1>2, RowKnown, Zenon DEF Matches
<1>4. steps[s].how \notin {"ok", "skipped"}
    BY <1>3, Zenon DEF IInv, RowsInv
<1>5. /\ r \in StepRows /\ r.at = "between" /\ r.n = steps[s].n /\ r.how = steps[s].how
      /\ r.skip = steps[s].skip
    BY Zenon, <1>3 DEF StepRows
<1>6. steps' = [steps EXCEPT ![s] = r]
    BY Zenon DEF Retrying, IInv, TypeOK
<1> HIDE DEF r
<1> QED
    BY <1>1, <1>2, <1>3, <1>4, <1>5, <1>6, MoveWritten, Zenon

LEMMA ReceiptKeeps ==
    ASSUME IInv, NEW d \in Drives, NEW s \in Steps, Receipt(d, s)
    PROVE  IInv'
<1>1. Settling(d, s) /\ UNCHANGED <<row, work, runner>>
    BY Zenon DEF Receipt
<1>2. drive[d].at \in {"reack", "run", "sweep"}
    BY ZenonT(30), <1>1, UnderWay DEF Settling
<1>2a. Holds(d) => Matches(d, s) /\ steps[s].at # "done"
    BY <1>1, <1>2, HolderMatches, ZenonT(30) DEF Matches, Settling
<1>2b. CASE Fault /\ Move(d, s, "end") /\ UNCHANGED steps
    BY <1>1, <1>2, <1>2a, <1>2b, GiveUpKeeps, FaultTyped, Zenon DEF IInv
<1> SUFFICES ASSUME Holds(d), UNCHANGED faults,
                    \/ Settle(d, s)
                    \/ Intend(s, drive[d].try[s]) /\ drive' = [drive EXCEPT ![d].begun = @ \cup {s}]
             PROVE  IInv'
    BY <1>2b, Zenon DEF Receipt
<1>3. /\ drive[d].try[s] = steps[s].n /\ steps[s].n \in Numbers /\ drive[d].try[s] \in Numbers
      /\ (drive[d].go[s] = "ok" => command[<<s, steps[s].n>>] = "ok")
      /\ (drive[d].go[s] = "skipped" => steps[s].skip)
      /\ (drive[d].go[s] \in {"ok", "bad", "unsure"} => ~steps[s].skip)
    BY <1>1, <1>2, RowKnown DEF IInv, MemoryInv, Remembers, Matches
<1>4. CASE Settle(d, s)
  <2> DEFINE place == IF drive[d].go[s] \in {"failed", "skipped", "cancelled"} THEN "end" ELSE "ack"
             r == [at |-> "done", n |-> drive[d].try[s], how |-> How(drive[d].go[s]), skip |-> steps[s].skip]
  <2>1. /\ How(drive[d].go[s]) \in {"ok", "failed", "skipped", "cancelled"}
        /\ (How(drive[d].go[s]) = "ok" => drive[d].go[s] = "ok")
        /\ (How(drive[d].go[s]) = "skipped" => drive[d].go[s] = "skipped")
        /\ steps[s].skip \in BOOLEAN
    BY Zenon, <1>1 DEF How, Settling, IInv, TypeOK, StepRows
  <2>2. /\ r \in StepRows /\ r.at = "done" /\ r.n = steps[s].n /\ (r.how = "ok" => drive[d].go[s] = "ok")
        /\ (r.how = "skipped" => drive[d].go[s] = "skipped") /\ r.skip = steps[s].skip
    BY <1>3, <2>1, Zenon DEF StepRows
  <2>3. place \in Places /\ place \in {"ack", "end"} /\ (place = "end" => drive[d].go[s] # "ok")
    BY Zenon DEF Places
  <2>4. steps' = [steps EXCEPT ![s] = r] /\ Move(d, s, place)
    BY Zenon, <1>4 DEF Settle, IInv, TypeOK
  <2> HIDE DEF r, place
  <2> QED
    BY <1>1, <1>2, <1>3, <2>2, <2>3, <2>4, MoveWritten, Zenon
<1>5. CASE Intend(s, drive[d].try[s]) /\ drive' = [drive EXCEPT ![d].begun = @ \cup {s}]
  <2> DEFINE q == [drive[d] EXCEPT !.begun = @ \cup {s}]
  <2>1. /\ q \in Memories /\ q.go = drive[d].go /\ q.try = drive[d].try
        /\ q.at = drive[d].at /\ q.verdict = drive[d].verdict
        /\ q.cancelled = drive[d].cancelled /\ q.unclean = drive[d].unclean
    BY ZenonT(30), BegunTyped DEF Memories
  <2>2. drive' = [drive EXCEPT ![d] = q]
    BY Zenon, <1>5 DEF IInv, TypeOK
  <2> HIDE DEF q
  <2>3. Beside(q, d, s, drive[d].go[s], drive[d].try[s])
    BY Zenon, <2>1 DEF Beside
  <2>4. drive[d].go[s] \in Places
    BY Zenon, BegunTyped
  <2> QED
    BY <1>1, <1>2, <1>3, <1>5, <2>2, <2>3, <2>4, IntendKeeps, Zenon DEF Settling
<1> QED
    BY Zenon, <1>4, <1>5

-----------------------------------------------------------------------------
(* The steps that write the run row.                                       *)

LEMMA RowChanges ==
    ASSUME IInv, TypeOK', UNCHANGED <<work, steps, runner>>, ~Completed, ~Completed',
           row'.result = row.result, row.named => row'.named,
           row'.holder # None \/ (row'.named = row.named /\ row.holder = None /\ drive' = drive),
           MemoryInv', HolderInv'
    PROVE  IInv'
<1>1. RowsInv'
    BY Zenon DEF IInv, RowsInv, runner
<1>2. row'.result = "none"
    BY Zenon DEF IInv, ResultInv
<1>3. ResultInv'
    BY <1>2, Zenon DEF IInv, ResultInv
<1> QED
    BY Zenon, <1>1, <1>3 DEF IInv

LEMMA ClaimKeeps ==
    ASSUME IInv, NEW d \in Drives, Claim(d)
    PROVE  IInv'
<1> DEFINE q == [Idle EXCEPT !.at = "steer", !.cancelled = row.cancel]
           r == [row EXCEPT !.holder = d, !.stale = FALSE]
<1>1. FALSE \in BOOLEAN
    BY Zenon
<1>2. /\ r \in RunRows /\ r.holder = d /\ r.cancel = row.cancel /\ r.named = row.named
      /\ r.result = row.result /\ r.status = row.status
    BY <1>1, Zenon DEF IInv, TypeOK, RunRows
<1>3. row.cancel \in BOOLEAN
    BY Zenon DEF IInv, TypeOK, RunRows
<1>4. /\ q \in Memories /\ q.at = "steer" /\ q.cancelled = row.cancel
      /\ \A s \in Steps : q.go[s] = "end" /\ q.try[s] = 1
    BY <1>3, IdleTyped, Zenon DEF Memories, Stages, Idle
<1>5. row' = r /\ drive' = [drive EXCEPT ![d] = q] /\ drive'[d] = q
      /\ (\A e \in Drives \ {d} : drive'[e] = drive[e]) /\ UNCHANGED <<work, steps, runner, faults>>
      /\ ~Completed
    BY Zenon DEF Claim, Claimable, IInv, TypeOK
<1> HIDE DEF q, r
<1>6. TypeOK'
    BY <1>2, <1>4, <1>5, Zenon DEF IInv, TypeOK, runner
<1>7. Remembers(d)'
    BY <1>2, <1>4, <1>5, Zenon DEF Remembers
<1>8. steps' = steps /\ acked' = acked /\ command' = command
      /\ \A s \in Steps : steps[s].n \in Nat
    BY SMTT(30), <1>5, BoundsAssumption DEF IInv, TypeOK, StepRows, Numbers, runner
<1>9. MemoryInv'
    BY SMTT(30), <1>2, <1>5, <1>6, <1>7, <1>8, OthersRemember DEF MemoryInv, SkipsStay
<1>10. HolderInv'
    BY <1>2, <1>4, <1>5, SMTT(30) DEF HolderInv, Holds, Knows
<1> QED
    BY <1>2, <1>5, <1>6, <1>9, <1>10, RowChanges, DrivesAssumption, Zenon DEF Completed

LEMMA RenewKeeps ==
    ASSUME IInv, NEW d \in Drives, Renew(d)
    PROVE  IInv'
<1> DEFINE q == [drive[d] EXCEPT !.cancelled = @ \/ row.cancel]
           r == [row EXCEPT !.stale = FALSE]
<1>1. FALSE \in BOOLEAN /\ (drive[d].cancelled \/ row.cancel) \in BOOLEAN
    BY Zenon
<1>2. /\ r \in RunRows /\ r.holder = row.holder /\ r.cancel = row.cancel /\ r.named = row.named
      /\ r.result = row.result /\ r.status = row.status
    BY <1>1, Zenon DEF IInv, TypeOK, RunRows
<1>3. /\ q \in Memories /\ q.at = drive[d].at /\ q.cancelled = (drive[d].cancelled \/ row.cancel)
      /\ q.go = drive[d].go /\ q.try = drive[d].try /\ q.verdict = drive[d].verdict
      /\ q.unclean = drive[d].unclean
  <2>1. drive[d] \in Memories
    BY Zenon DEF IInv, TypeOK
  <2> QED
    BY <1>1, <2>1, ZenonT(60) DEF Memories
<1>4. row' = r /\ drive' = [drive EXCEPT ![d] = q] /\ drive'[d] = q
      /\ (\A e \in Drives \ {d} : drive'[e] = drive[e]) /\ UNCHANGED <<work, steps, runner, faults>>
      /\ Holds(d)
    BY Zenon DEF Renew, IInv, TypeOK
<1> HIDE DEF q, r
<1>5. TypeOK'
    BY Zenon, <1>2, <1>3, <1>4 DEF IInv, TypeOK, runner
<1>6. steps' = steps /\ acked' = acked /\ command' = command /\ halted' = halted /\ work' = work
      /\ \A s \in Steps : steps[s].n \in Nat
    BY <1>4, BoundsAssumption DEF IInv, TypeOK, StepRows, Numbers, runner
<1>7. Remembers(d) /\ Knows(d)
    BY ZenonT(30), <1>4 DEF IInv, MemoryInv, HolderInv
<1>8. Remembers(d)'
  <2>1. drive[d].cancelled => row.cancel
    BY Zenon, <1>7 DEF Remembers
  <2>2. drive'[d].cancelled = (drive[d].cancelled \/ row.cancel) /\ row'.cancel = row.cancel
    BY Zenon, <1>2, <1>3, <1>4
  <2>3. drive'[d].cancelled => row'.cancel
    BY <2>1, <2>2, Zenon
  <2>4. drive'[d].at = drive[d].at /\ drive'[d].go = drive[d].go /\ drive'[d].try = drive[d].try
    BY ZenonT(30), <1>3, <1>4
  <2> QED
    BY <1>6, <1>7, <2>3, <2>4 DEF Remembers
<1>9. MemoryInv'
    BY SMTT(30), <1>2, <1>4, <1>5, <1>6, <1>8, OthersRemember DEF MemoryInv, SkipsStay
<1>10. \A s \in Steps : Matches(d, s) => Matches(d, s)'
    BY <1>3, <1>4, <1>6, SMTT(30) DEF Matches
<1>11. Passed => Passed'
    BY Zenon, <1>2, <1>4, <1>6 DEF Passed
<1>12. Knows(d)'
  <2>1. /\ drive'[d].at = drive[d].at /\ drive'[d].verdict = drive[d].verdict
        /\ drive'[d].try = drive[d].try /\ row'.named = row.named
    BY Zenon, <1>2, <1>3, <1>4
  <2> QED
    BY Zenon, <1>6, <1>7, <1>10, <1>11, <2>1, KnowledgeStays
<1>13. HolderInv'
    BY Zenon, <1>2, <1>4, <1>12 DEF HolderInv, Holds
<1> QED
    BY <1>2, <1>4, <1>5, <1>9, <1>13, RowChanges, DrivesAssumption, Zenon DEF Completed, Holds

(* A change of the row that no drive's memory speaks of.                   *)
LEMMA RowOnly ==
    ASSUME IInv, NEW r \in RunRows, row' = r, UNCHANGED <<work, steps, drive, runner>>,
           faults' \in 0 .. MaxFaults, ~Completed, r.status = row.status,
           r.result = row.result, r.named = row.named, r.holder = row.holder, row.cancel => r.cancel
    PROVE  IInv'
<1>1. TypeOK'
    BY Zenon DEF IInv, TypeOK, runner
<1>2. UNCHANGED <<steps, drive, command, acked, halted, work>>
    BY ZenonT(30) DEF runner
<1>3. MemoryInv'
    BY SMTT(30), <1>2 DEF IInv, MemoryInv, Remembers
<1>4. \A d \in Drives, s \in Steps : Matches(d, s) => Matches(d, s)'
    BY <1>2 DEF Matches
<1>5. Passed => Passed'
    BY ZenonT(30), <1>2 DEF Passed
<1>6. \A d \in Drives : Knows(d) => Knows(d)'
    BY <1>2, <1>4, <1>5, SMTT(30) DEF Knows
<1>7. HolderInv'
    BY Zenon, <1>6 DEF IInv, HolderInv, Holds, Completed
<1> QED
    BY Zenon, <1>1, <1>2, <1>3, <1>7, RowChanges DEF Completed

LEMMA LeaseAgesKeeps ==
    ASSUME IInv, LeaseAges
    PROVE  IInv'
<1> DEFINE r == [row EXCEPT !.stale = TRUE]
<1>1. TRUE \in BOOLEAN
    BY Zenon
<1>2. /\ r \in RunRows /\ r.holder = row.holder /\ r.cancel = row.cancel /\ r.named = row.named
      /\ r.result = row.result /\ r.status = row.status
    BY <1>1, Zenon DEF IInv, TypeOK, RunRows
<1>3. faults' \in 0 .. MaxFaults
    BY Zenon, FaultTyped DEF LeaseAges, IInv, TypeOK
<1>4. row' = r /\ UNCHANGED <<work, steps, drive, runner>> /\ ~Completed
    BY Zenon DEF LeaseAges
<1> HIDE DEF r
<1> QED
    BY Zenon, <1>2, <1>3, <1>4, RowOnly

LEMMA RequestCancelKeeps ==
    ASSUME IInv, RequestCancel
    PROVE  IInv'
<1>1. TRUE \in BOOLEAN
    BY Zenon
<1>2. UNCHANGED <<work, steps, drive, runner, faults>> /\ ~Completed
    BY Zenon DEF RequestCancel
<1>3. CASE row.status = "queued" /\ row.holder = None
  <2> DEFINE r == [row EXCEPT !.cancel = TRUE, !.status = "completed", !.result = "cancelled"]
  <2>1. /\ r \in RunRows /\ r.holder = None /\ r.cancel /\ r.named = row.named
        /\ r.result = "cancelled" /\ r.status = "completed"
    BY <1>1, <1>3, Zenon DEF IInv, TypeOK, RunRows, Results
  <2>2. row' = r
    BY Zenon, <1>3 DEF RequestCancel
  <2> HIDE DEF r
  <2>3. TypeOK'
    BY Zenon, <1>2, <2>1, <2>2 DEF IInv, TypeOK, runner
  <2>4. RowsInv'
    BY ZenonT(30), <1>2 DEF IInv, RowsInv, runner
  <2>5. MemoryInv'
    BY <1>2, <2>1, <2>2, SMTT(30) DEF IInv, MemoryInv, Remembers, runner
  <2>6. HolderInv'
    BY Zenon, <2>1, <2>2 DEF HolderInv, Holds, Completed
  <2>7. ResultInv'
    BY <1>2, <1>3, <2>1, <2>2, Zenon DEF IInv, ResultInv, Completed
  <2> QED
    BY Zenon, <2>3, <2>4, <2>5, <2>6, <2>7 DEF IInv
<1>4. CASE ~(row.status = "queued" /\ row.holder = None)
  <2> DEFINE r == [row EXCEPT !.cancel = TRUE]
  <2>1. /\ r \in RunRows /\ r.holder = row.holder /\ r.cancel /\ r.named = row.named
        /\ r.result = row.result /\ r.status = row.status
    BY <1>1, Zenon DEF IInv, TypeOK, RunRows
  <2>2. row' = r
    BY Zenon, <1>4 DEF RequestCancel
  <2> HIDE DEF r
  <2> QED
    BY <1>2, <2>1, <2>2, RowOnly, Zenon DEF IInv, TypeOK
<1> QED
    BY Zenon, <1>3, <1>4

(* Steer, which may write that the run has started.                        *)
LEMMA SteerKeeps ==
    ASSUME IInv, NEW d \in Drives, Steer(d)
    PROVE  IInv'
<1>1. CASE row' = row
    BY Zenon, <1>1, RefusedKeeps DEF Steer
<1>2. CASE row' # row
  <2> DEFINE q == [drive[d] EXCEPT !.at = "plan"]
             r == [row EXCEPT !.status = "started"]
  <2>1. drive' = [drive EXCEPT ![d] = q] /\ row' = r /\ Holds(d) /\ drive[d].at = "steer"
        /\ UNCHANGED <<work, steps, runner, faults>>
    BY Zenon, <1>2 DEF Steer, IInv, TypeOK
  <2>2. /\ r \in RunRows /\ r.holder = row.holder /\ r.cancel = row.cancel /\ r.named = row.named
        /\ r.result = row.result /\ r.status = "started"
    BY Zenon DEF IInv, TypeOK, RunRows
  <2>3. /\ q \in Memories /\ q.at = "plan" /\ q.cancelled = drive[d].cancelled
        /\ q.go = drive[d].go /\ q.try = drive[d].try
    <3>1. "plan" \in Stages
      BY Zenon DEF Stages
    <3>2. AtStage(q, d, "plan")
      BY Zenon, <3>1, StageFacts
    <3> HIDE DEF q
    <3> QED
      BY Zenon, <3>2 DEF AtStage
  <2> HIDE DEF q, r
  <2>4. drive'[d] = q /\ \A e \in Drives \ {d} : drive'[e] = drive[e]
    BY Zenon, <2>1 DEF IInv, TypeOK
  <2>5. TypeOK'
    BY Zenon, <2>1, <2>2, <2>3 DEF IInv, TypeOK, runner
  <2>6. steps' = steps /\ acked' = acked /\ command' = command
        /\ \A s \in Steps : steps[s].n \in Nat
    BY <2>1, BoundsAssumption DEF IInv, TypeOK, StepRows, Numbers, runner
  <2>7. Remembers(d) /\ \A s \in Steps : drive[d].go[s] = "end"
    BY ZenonT(30), <2>1, NoStepUnderWay DEF IInv, MemoryInv
  <2>8. Remembers(d)'
    BY <2>1, <2>2, <2>3, <2>4, <2>6, <2>7, SMTT(30) DEF Remembers
  <2>9. MemoryInv'
    BY SMTT(30), <2>1, <2>2, <2>4, <2>5, <2>6, <2>8, OthersRemember DEF MemoryInv, SkipsStay
  <2>10. HolderInv'
    <3>1. \A s \in Steps : drive[d].try[s] = 1
      BY <2>1, Zenon DEF IInv, HolderInv, Knows
    <3> QED
      BY <2>1, <2>2, <2>3, <2>4, <3>1, SMTT(30) DEF HolderInv, Holds, Knows
  <2> QED
    BY <2>1, <2>2, <2>5, <2>9, <2>10, RowChanges, DrivesAssumption, Zenon DEF Completed, Holds
<1> QED
    BY Zenon, <1>1, <1>2

LEMMA NameWorkKeeps ==
    ASSUME IInv, NEW d \in Drives, NameWork(d)
    PROVE  IInv'
<1> DEFINE q == [drive[d] EXCEPT !.at = "begin"]
           r == [row EXCEPT !.named = TRUE]
<1>1. drive' = [drive EXCEPT ![d] = q] /\ row' = r /\ Holds(d) /\ drive[d].at = "open"
      /\ UNCHANGED <<work, steps, runner, faults>> /\ \A s \in Steps : steps[s].at = "none"
    BY Zenon DEF NameWork, IInv, TypeOK
<1>2. TRUE \in BOOLEAN
    BY Zenon
<1>3. /\ r \in RunRows /\ r.holder = row.holder /\ r.cancel = row.cancel /\ r.named
      /\ r.result = row.result /\ r.status = row.status
    BY <1>2, Zenon DEF IInv, TypeOK, RunRows
<1>4. /\ q \in Memories /\ q.at = "begin" /\ q.cancelled = drive[d].cancelled
      /\ q.go = drive[d].go /\ q.try = drive[d].try
  <2>1. "begin" \in Stages
    BY Zenon DEF Stages
  <2>2. AtStage(q, d, "begin")
    BY Zenon, <2>1, StageFacts
  <2> HIDE DEF q
  <2> QED
    BY Zenon, <2>2 DEF AtStage
<1> HIDE DEF q, r
<1>5. drive'[d] = q /\ \A e \in Drives \ {d} : drive'[e] = drive[e]
    BY Zenon, <1>1 DEF IInv, TypeOK
<1>6. TypeOK'
    BY Zenon, <1>1, <1>3, <1>4 DEF IInv, TypeOK, runner
<1>7. steps' = steps /\ acked' = acked /\ command' = command
      /\ \A s \in Steps : steps[s].n \in Nat
    BY <1>1, BoundsAssumption DEF IInv, TypeOK, StepRows, Numbers, runner
<1>8. Remembers(d) /\ \A s \in Steps : drive[d].go[s] = "end"
    BY ZenonT(30), <1>1, NoStepUnderWay DEF IInv, MemoryInv
<1>9. Remembers(d)'
    BY <1>1, <1>3, <1>4, <1>5, <1>7, <1>8, SMTT(30) DEF Remembers
<1>10. MemoryInv'
    BY SMTT(30), <1>1, <1>3, <1>5, <1>6, <1>7, <1>9, OthersRemember DEF MemoryInv, SkipsStay
<1>11. Knows(d)'
  <2>1. \A s \in Steps : drive[d].try[s] = 1
    BY ZenonT(30), <1>1 DEF IInv, HolderInv, Knows
  <2>2. /\ drive'[d].at = "begin" /\ row'.named /\ UNCHANGED steps
        /\ \A s \in Steps : drive'[d].try[s] = 1 /\ steps[s].at = "none"
    BY <1>1, <1>3, <1>4, <1>5, <2>1
  <2> QED
    BY Zenon, <2>2 DEF Knows
<1>12. HolderInv'
    BY Zenon, <1>1, <1>3, <1>11 DEF HolderInv, Holds
<1> QED
    BY <1>1, <1>3, <1>6, <1>10, <1>12, RowChanges, DrivesAssumption, Zenon DEF Completed, Holds

(* The holder's change of stage, with or without a write of the work run.  *)
LEMMA StageWritten ==
    ASSUME IInv, NEW d \in Drives, NEW q \in Memories, Holds(d),
           UNCHANGED <<row, steps, runner, faults>>, drive' = [drive EXCEPT ![d] = q],
           work' \in {"none", "open"} \cup Results,
           q.cancelled = drive[d].cancelled, \A s \in Steps : q.go[s] \in {"end", "todo"},
           (\E s \in Steps : q.go[s] = "todo") => q.at = "run", Knows(d)'
    PROVE  IInv'
<1>1. drive'[d] = q /\ \A e \in Drives \ {d} : drive'[e] = drive[e]
    BY Zenon DEF IInv, TypeOK
<1>2. TypeOK'
    BY Zenon DEF IInv, TypeOK, runner
<1>3. RowsInv'
    BY Zenon DEF IInv, RowsInv, runner
<1>4. Remembers(d)'
  <2>1. (drive[d].cancelled => row.cancel) /\ UNCHANGED row
    BY Zenon DEF IInv, MemoryInv, Remembers
  <2> QED
    BY Zenon, <1>1, <2>1 DEF Remembers
<1>5. \A s \in Steps : steps[s].n <= steps'[s].n
    BY BoundsAssumption DEF IInv, TypeOK, StepRows, Numbers
<1>6. SkipsStay
    BY Zenon DEF SkipsStay
<1> QED
    BY Zenon, <1>1, <1>2, <1>3, <1>4, <1>5, <1>6, HolderWrites

LEMMA BeginKeeps ==
    ASSUME IInv, NEW d \in Drives, Begin(d)
    PROVE  IInv'
<1> DEFINE q == [drive[d] EXCEPT !.at = "queue"]
<1>1. drive' = [drive EXCEPT ![d] = q] /\ drive'[d] = q /\ Holds(d) /\ drive[d].at = "begin"
      /\ UNCHANGED <<row, steps, runner, faults>> /\ work' = "open"
    BY Zenon DEF Begin, IInv, TypeOK
<1>2. /\ q \in Memories /\ q.at = "queue" /\ q.cancelled = drive[d].cancelled
      /\ q.go = drive[d].go /\ q.try = drive[d].try
  <2>1. "queue" \in Stages
    BY Zenon DEF Stages
  <2>2. AtStage(q, d, "queue")
    BY Zenon, <2>1, StageFacts
  <2> HIDE DEF q
  <2> QED
    BY Zenon, <2>2 DEF AtStage
<1> HIDE DEF q
<1>3. row.named /\ \A s \in Steps : drive[d].try[s] = 1 /\ steps[s].at = "none" /\ steps[s].n = 0
    BY <1>1, Zenon DEF IInv, HolderInv, Knows, RowsInv
<1>4. Knows(d)'
    BY <1>1, <1>2, <1>3 DEF Knows
<1> QED
    BY <1>1, <1>2, <1>4, StageWritten, NoStepUnderWay, Zenon

LEMMA QueueStepKeeps ==
    ASSUME IInv, NEW d \in Drives, QueueStep(d)
    PROVE  IInv'
<1>1. /\ drive[d].at = "queue" /\ Holds(d) /\ row.named /\ UNCHANGED <<row, work, runner, faults>>
      /\ \A s \in Steps : drive[d].go[s] = "end"
    BY Zenon, NoStepUnderWay DEF QueueStep, IInv, HolderInv, Knows
<1>2. ASSUME NEW s \in Steps, NEW skip \in BOOLEAN, steps[s].at = "none", UNCHANGED drive,
             steps' = [steps EXCEPT ![s] = [at |-> "pending", n |-> 1, how |-> "none", skip |-> skip]]
      PROVE  IInv'
  <2> DEFINE r == [at |-> "pending", n |-> 1, how |-> "none", skip |-> skip]
  <2>1. r \in StepRows /\ r.at = "pending" /\ r.n = 1 /\ r.how = "none" /\ 1 \in Numbers
        /\ steps' = [steps EXCEPT ![s] = r]
    BY <1>2, BoundsAssumption DEF StepRows, Numbers
  <2>2. steps[s].n = 0 /\ \A m \in Numbers : ~(m < 1)
    <3>1. steps[s].n = 0
      BY <1>2, Zenon DEF IInv, RowsInv
    <3>2. \A m \in Numbers : ~(m < 1)
      BY BoundsAssumption DEF Numbers
    <3> QED
      BY Zenon, <3>1, <3>2
  <2> HIDE DEF r
  <2>3. Follows(s, r)
    BY <1>2, <2>1, <2>2 DEF Follows
  <2>4. /\ RowsInv' /\ steps' \in [Steps -> StepRows]
        /\ steps'[s] = r /\ \A x \in Steps \ {s} : steps'[x] = steps[x]
        /\ (\A x \in Steps : steps[x].n <= steps'[x].n) /\ SkipsStay
    BY <1>1, <2>1, <2>3, RowWritten, Zenon
  <2>5. TypeOK'
    BY <1>1, <1>2, <2>4, Zenon DEF IInv, TypeOK, runner
  <2>6. Remembers(d)'
    BY Zenon, <1>1, <1>2 DEF IInv, MemoryInv, Remembers
  <2>7. Knows(d)'
    BY <1>1, <1>2, <2>1, <2>4, ZenonT(60) DEF IInv, HolderInv, Knows
  <2> QED
    BY <1>1, <1>2, <2>4, <2>5, <2>6, <2>7, HolderWrites, Zenon
<1>3. ASSUME \A s \in Steps : steps[s].at # "none", UNCHANGED steps,
             drive' = [drive EXCEPT ![d].at = "run", ![d].go = [s \in Steps |-> "todo"]]
      PROVE  IInv'
  <2> DEFINE go == [s \in Steps |-> "todo"]
             q == [drive[d] EXCEPT !.at = "run", !.go = go]
  <2>1. go \in [Steps -> Places] /\ \A s \in Steps : go[s] = "todo"
    BY Zenon DEF Places
  <2>2. drive' = [drive EXCEPT ![d] = q] /\ drive'[d] = q
    BY <1>3, Zenon DEF IInv, TypeOK
  <2> HIDE DEF go
  <2>3. /\ q \in Memories /\ q.at = "run" /\ q.go = go /\ q.try = drive[d].try
        /\ q.cancelled = drive[d].cancelled
    <3>1. drive[d] \in Memories /\ "run" \in Stages
      BY ZenonT(30), BegunTyped, StepsAssumption DEF Stages
    <3> QED
      BY <2>1, <3>1, ZenonT(60) DEF Memories
  <2> HIDE DEF q
  <2>4. \A s \in Steps : steps[s].at = "pending" /\ steps[s].n = 1 /\ drive[d].try[s] = 1
    BY SMTT(30), <1>1, <1>3 DEF IInv, HolderInv, Knows, RowsInv, TypeOK, Memories, StepRows, RunRows
  <2>5. \A s \in Steps : Matches(d, s)'
    BY <1>3, <2>1, <2>2, <2>3, <2>4 DEF Matches
  <2>6. Knows(d)'
    BY <1>1, <2>2, <2>3, <2>5, Zenon DEF Knows
  <2> QED
    <3>1. work' \in {"none", "open"} \cup Results
      BY Zenon, <1>1 DEF IInv, TypeOK
    <3> QED
      BY <1>1, <1>3, <2>1, <2>2, <2>3, <2>6, <3>1, StageWritten, ZenonT(60)
<1> QED
    BY Zenon, <1>2, <1>3 DEF QueueStep

-----------------------------------------------------------------------------
(* The conclusion.                                                         *)

LEMMA SettleRowsKeeps ==
    ASSUME IInv, NEW d \in Drives, SettleRows(d)
    PROVE  IInv'
<1>1. /\ drive[d].at \in {"diverge", "stored"} /\ UNCHANGED <<row, work, runner>>
      /\ \A s \in Steps : drive[d].go[s] = "end"
    BY Zenon, NoStepUnderWay DEF SettleRows
<1>2. Holds(d) => drive[d].verdict # "success"
    BY <1>1, Zenon DEF IInv, HolderInv, Knows
<1>3. ASSUME NEW s \in Steps, Holds(d), steps[s].at \notin {"none", "done"}, NEW r \in StepRows,
             NEW q \in Memories, drive' = [drive EXCEPT ![d] = q], steps' = [steps EXCEPT ![s] = r],
             r.n = steps[s].n, r.at \in {"running", "done"}, r.how \notin {"ok", "skipped"},
             r.skip = steps[s].skip, UNCHANGED faults,
             q.at = drive[d].at, q.verdict = drive[d].verdict, q.go = drive[d].go,
             q.cancelled = drive[d].cancelled
      PROVE  IInv'
  <2>1. steps[s].n \in Numbers /\ \A m \in Numbers : m < steps[s].n => <<s, m>> \in acked
    BY <1>3, Zenon DEF IInv, TypeOK, StepRows, RowsInv
  <2>2. steps[s].n \in Nat
    BY SMTT(30), <2>1, BoundsAssumption DEF Numbers
  <2>3. Follows(s, r)
    BY <1>3, <2>1, <2>2 DEF Follows
  <2>4. /\ RowsInv' /\ steps' \in [Steps -> StepRows]
        /\ (\A x \in Steps : steps[x].n <= steps'[x].n) /\ SkipsStay
    BY <1>1, <1>3, <2>3, RowWritten, Zenon
  <2>5. drive'[d] = q /\ \A e \in Drives \ {d} : drive'[e] = drive[e]
    BY Zenon, <1>3 DEF IInv, TypeOK
  <2>6. TypeOK'
    BY Zenon, <1>1, <1>3, <2>4 DEF IInv, TypeOK, runner
  <2>7. row.named
    BY Zenon, <1>3 DEF IInv, ResultInv
  <2>8. Remembers(d)'
    <3>1. (drive[d].cancelled => row.cancel) /\ UNCHANGED row
      BY Zenon, <1>1 DEF IInv, MemoryInv, Remembers
    <3>2. /\ drive'[d].cancelled = drive[d].cancelled
          /\ \A x \in Steps : drive'[d].go[x] = "end"
      BY <1>1, <1>3, <2>5
    <3> QED
      BY Zenon, <3>1, <3>2 DEF Remembers
  <2>9. Knows(d)'
    BY <1>1, <1>2, <1>3, <2>5, ZenonT(30) DEF Knows
  <2> QED
    BY Zenon, <1>1, <1>3, <2>4, <2>5, <2>6, <2>7, <2>8, <2>9, HolderWrites
<1>4. ASSUME NEW s \in Steps, Holds(d), steps[s].at \notin {"none", "done"}, UNCHANGED <<drive, faults>>,
             NEW how \in {"failed", "cancelled"},
             steps' = [steps EXCEPT ![s].at = "done", ![s].how = how]
      PROVE  IInv'
  <2> DEFINE r == [steps[s] EXCEPT !.at = "done", !.how = how]
  <2>1. /\ r \in StepRows /\ r.n = steps[s].n /\ r.at = "done" /\ r.how \notin {"ok", "skipped"}
        /\ r.skip = steps[s].skip
    BY <1>4, Zenon DEF IInv, TypeOK, StepRows
  <2>2. steps' = [steps EXCEPT ![s] = r]
    BY <1>4, Zenon DEF IInv, TypeOK
  <2>3. drive' = [drive EXCEPT ![d] = drive[d]] /\ drive[d] \in Memories
    BY Zenon, <1>4 DEF IInv, TypeOK
  <2> HIDE DEF r
  <2> QED
    BY <1>3, <1>4, <2>1, <2>2, <2>3, ZenonT(60)
<1>5. ASSUME NEW s \in Steps, Holds(d), steps[s].at \notin {"none", "done"}, Intend(s, steps[s].n),
             drive' = [drive EXCEPT ![d].begun = @ \cup {s}], UNCHANGED faults
      PROVE  IInv'
  <2> DEFINE r == [at |-> "running", n |-> steps[s].n, how |-> "none", skip |-> steps[s].skip]
             q == [drive[d] EXCEPT !.begun = @ \cup {s}]
  <2>1. /\ r \in StepRows /\ r.n = steps[s].n /\ r.at = "running" /\ r.how \notin {"ok", "skipped"}
        /\ r.skip = steps[s].skip
    BY Zenon DEF IInv, TypeOK, StepRows
  <2>2. steps' = [steps EXCEPT ![s] = r] /\ drive' = [drive EXCEPT ![d] = q]
    BY Zenon, <1>5 DEF IInv, TypeOK, Intend
  <2>3. /\ q \in Memories /\ q.at = drive[d].at /\ q.verdict = drive[d].verdict /\ q.go = drive[d].go
        /\ q.cancelled = drive[d].cancelled
    BY ZenonT(30), BegunTyped DEF Memories
  <2> HIDE DEF q, r
  <2> QED
    BY <1>3, <1>5, <2>1, <2>2, <2>3, Zenon
<1>6. ASSUME NEW st \in {"fence", "stop"}, UNCHANGED steps, drive' = [drive EXCEPT ![d].at = st],
             Fault \/ UNCHANGED faults
      PROVE  IInv'
  <2> DEFINE q == [drive[d] EXCEPT !.at = st]
  <2>1. /\ q \in Memories /\ q.at = st /\ q.verdict = drive[d].verdict /\ q.go = drive[d].go
        /\ q.try = drive[d].try /\ q.cancelled = drive[d].cancelled
    <3>1. st \in Stages
      BY Zenon DEF Stages
    <3>2. AtStage(q, d, st)
      BY Zenon, <3>1, StageFacts
    <3> HIDE DEF q
    <3> QED
      BY Zenon, <3>2 DEF AtStage
  <2>2. drive' = [drive EXCEPT ![d] = q] /\ drive'[d] = q
    BY Zenon, <1>6 DEF IInv, TypeOK
  <2> HIDE DEF q
  <2>3. Holds(d) => Knows(d)'
    BY Zenon, <1>2, <1>6, <2>1, <2>2 DEF Knows
  <2> QED
    BY <1>1, <1>6, <2>1, <2>2, <2>3, StageKeeps, Zenon DEF Driving
<1> QED
    BY <1>4, <1>5, <1>6, Zenon DEF SettleRows

LEMMA CancelRunnerKeeps ==
    ASSUME IInv, NEW d \in Drives, CancelRunner(d)
    PROVE  IInv'
<1> DEFINE q == [drive[d] EXCEPT !.at = "close"]
<1>1. drive[d].at = "stop" /\ UNCHANGED <<row, work, steps, sent, command, acked>>
      /\ \A s \in Steps : drive[d].go[s] = "end"
    BY Zenon, NoStepUnderWay DEF CancelRunner
<1>2. /\ q \in Memories /\ q.at = "close" /\ q.verdict = drive[d].verdict /\ q.go = drive[d].go
      /\ q.try = drive[d].try /\ q.cancelled = drive[d].cancelled
  <2>1. "close" \in Stages
    BY Zenon DEF Stages
  <2>2. AtStage(q, d, "close")
    BY Zenon, <2>1, StageFacts
  <2> HIDE DEF q
  <2> QED
    BY Zenon, <2>2 DEF AtStage
<1>3. CASE drive' = [drive EXCEPT ![d] = Idle] /\ Fault /\ UNCHANGED halted
    BY <1>1, <1>3, StopsKeep, FaultTyped, Zenon DEF Driving, IInv, runner
<1>4. CASE /\ drive' = [drive EXCEPT ![d].at = "close"] /\ drive[d].verdict # "cancelled"
           /\ UNCHANGED <<halted, faults>>
  <2>1. drive' = [drive EXCEPT ![d] = q] /\ drive'[d] = q
    BY Zenon, <1>4 DEF IInv, TypeOK
  <2> HIDE DEF q
  <2>2. Holds(d) => Knows(d)'
    BY SMTT(30), <1>1, <1>2, <1>4, <2>1 DEF IInv, HolderInv, Knows, Passed
  <2> QED
    BY <1>1, <1>2, <1>4, <2>1, <2>2, StageKeeps, Zenon DEF Driving, runner
<1>5. CASE drive' = [drive EXCEPT ![d].at = "close"] /\ halted' = TRUE /\ UNCHANGED faults
  <2>1. drive' = [drive EXCEPT ![d] = q] /\ drive'[d] = q /\ \A e \in Drives \ {d} : drive'[e] = drive[e]
    BY Zenon, <1>5 DEF IInv, TypeOK
  <2> HIDE DEF q
  <2>2. halted' \in BOOLEAN
    BY <1>5, Zenon
  <2>3. TypeOK'
    BY <1>1, <1>2, <1>5, <2>1, <2>2 DEF IInv, TypeOK
  <2>4. RowsInv'
    BY ZenonT(30), <1>1 DEF IInv, RowsInv
  <2>5. MemoryInv'
    BY SMTT(30), <1>1, <1>2, <2>1 DEF IInv, MemoryInv, Remembers
  <2>6. Holds(d) => Knows(d)'
    BY SMTT(30), <1>1, <1>2, <1>5, <2>1 DEF IInv, HolderInv, Knows, Passed
  <2>7. \A e \in Drives \ {d} : Holds(e) => Knows(e)'
    BY Zenon, <1>1, <1>5, <2>1, OthersKnow
  <2>8. HolderInv'
    BY Zenon, <1>1, <2>6, <2>7 DEF HolderInv, Holds, Completed
  <2>9. row.holder # None
    BY Zenon, <1>1, DrivingHeld
  <2>10. ResultInv'
    BY Zenon, <1>1, <1>5, <2>9 DEF IInv, ResultInv, Passed, Completed
  <2> QED
    BY Zenon, <2>3, <2>4, <2>5, <2>8, <2>10 DEF IInv
<1> QED
    BY <1>3, <1>4, <1>5, Zenon DEF CancelRunner

LEMMA CloseWorkKeeps ==
    ASSUME IInv, NEW d \in Drives, CloseWork(d)
    PROVE  IInv'
<1> DEFINE q == [drive[d] EXCEPT !.at = "finish"]
<1>1. drive[d].at = "close" /\ Holds(d) /\ UNCHANGED <<row, steps, runner, faults>>
      /\ \A s \in Steps : drive[d].go[s] = "end"
    BY Zenon, NoStepUnderWay DEF CloseWork
<1>2. CASE drive' = [drive EXCEPT ![d] = Idle] /\ UNCHANGED work
    BY <1>1, <1>2, StopsKeep, Zenon DEF Driving, IInv, TypeOK
<1>3. CASE /\ drive' = [drive EXCEPT ![d].at = "finish"]
           /\ work' = IF row.named THEN drive[d].verdict ELSE work
  <2>1. drive' = [drive EXCEPT ![d] = q] /\ drive'[d] = q
    BY Zenon, <1>3 DEF IInv, TypeOK
  <2>2. /\ q \in Memories /\ q.at = "finish" /\ q.verdict = drive[d].verdict /\ q.go = drive[d].go
        /\ q.cancelled = drive[d].cancelled
    <3>1. "finish" \in Stages
      BY Zenon DEF Stages
    <3>2. AtStage(q, d, "finish")
      BY Zenon, <3>1, StageFacts
    <3> HIDE DEF q
    <3> QED
      BY Zenon, <3>2 DEF AtStage
  <2>2a. drive[d].verdict \in Results \cup {"none"}
    BY Zenon DEF IInv, TypeOK, Memories
  <2> HIDE DEF q
  <2>3. work' \in {"none", "open"} \cup Results
    BY Zenon, <1>3, <2>2a DEF IInv, TypeOK
  <2>4. UNCHANGED <<row, steps, halted, acked>>
    BY Zenon, <1>1 DEF runner
  <2>5. Knows(d)'
    BY SMTT(30), <1>1, <1>3, <2>1, <2>2, <2>4 DEF IInv, HolderInv, Knows, Passed
  <2> QED
    BY <1>1, <2>1, <2>2, <2>3, <2>5, StageWritten, Zenon
<1> QED
    BY Zenon, <1>2, <1>3 DEF CloseWork

LEMMA FinishKeeps ==
    ASSUME IInv, NEW d \in Drives, Finish(d)
    PROVE  IInv'
<1> DEFINE r == [row EXCEPT !.status = "completed", !.result = drive[d].verdict]
<1>1. drive[d].at = "finish" /\ Holds(d) /\ UNCHANGED <<work, steps, runner, faults>> /\ Knows(d)
      /\ row' = r /\ drive' = [drive EXCEPT ![d] = Idle]
    BY Zenon DEF Finish, IInv, HolderInv
<1>2. /\ r \in RunRows /\ r.holder = row.holder /\ r.cancel = row.cancel /\ r.named = row.named
      /\ r.result = drive[d].verdict /\ r.status = "completed"
    BY Zenon DEF IInv, TypeOK, RunRows, Memories
<1> HIDE DEF r
<1>3. drive'[d] = Idle /\ \A e \in Drives \ {d} : drive'[e] = drive[e]
    BY Zenon, <1>1 DEF IInv, TypeOK
<1>4. TypeOK'
    BY Zenon, <1>1, <1>2, IdleTyped DEF IInv, TypeOK, runner
<1>5. UNCHANGED <<steps, sent, acked, command, halted, work>> /\ \A s \in Steps : steps[s].n \in Nat
    BY <1>1, BoundsAssumption DEF IInv, TypeOK, StepRows, Numbers, runner
<1>6. RowsInv'
    BY Zenon, <1>5 DEF IInv, RowsInv
<1>7. Remembers(d)'
    BY SMTT(30), <1>3 DEF Remembers, Idle
<1>8. MemoryInv'
    BY <1>2, <1>1, <1>3, <1>4, <1>5, <1>7, OthersRemember DEF MemoryInv, SkipsStay
<1>9. HolderInv'
    BY Zenon, <1>1, <1>2 DEF HolderInv, Holds, Completed
<1>10. Passed => Passed'
    BY Zenon, <1>1, <1>2, <1>5 DEF Passed
<1>11. row.holder # None
    BY Zenon, <1>1, DrivesAssumption DEF Holds
<1>12. ResultInv'
    BY <1>1, <1>2, <1>5, <1>10, <1>11, Zenon DEF IInv, ResultInv, Completed, Knows
<1> QED
    BY <1>4, <1>6, <1>8, <1>9, <1>12 DEF IInv

-----------------------------------------------------------------------------
(* The runner's own steps, and the induction.                              *)

LEMMA RunnerKeeps ==
    ASSUME IInv, NEW a \in Attempts, Starts(a) \/ Ends(a)
    PROVE  IInv'
<1>1. UNCHANGED <<row, work, steps, drive, sent, acked, halted, faults>>
    BY Zenon DEF Starts, Ends
<1>2. command' \in [Attempts -> {"never", "running", "ok", "bad"}]
    BY Zenon DEF Starts, Ends, IInv, TypeOK
<1>3. \A b \in Attempts : /\ command[b] = "ok" => command'[b] = "ok"
                          /\ command'[b] # "never" => command[b] # "never" \/ b \in sent
    BY Zenon DEF Starts, Ends, IInv, TypeOK
<1>4. TypeOK'
    BY Zenon, <1>1, <1>2 DEF IInv, TypeOK
<1>5. \A s \in Steps, m \in Numbers : <<s, m>> \in Attempts
    BY Zenon DEF Attempts
<1>6. \A s \in Steps : steps[s].how = "ok" => steps[s].n \in Numbers
    BY Zenon DEF IInv, TypeOK, StepRows, RowsInv
<1>7. \A d \in Drives, s \in Steps : drive[d].try[s] \in Numbers
    BY Zenon DEF IInv, TypeOK, Memories
<1>8. RowsInv'
    BY Zenon, <1>1, <1>3, <1>5, <1>6 DEF IInv, RowsInv
<1>9. MemoryInv'
    BY ZenonT(30), <1>1, <1>3, <1>5, <1>7 DEF IInv, MemoryInv, Remembers
<1>10. HolderInv'
    BY Zenon, <1>1, HolderStays DEF IInv
<1>11. ResultInv'
    BY <1>1, Zenon DEF IInv, ResultInv, Completed, Passed
<1> QED
    BY Zenon, <1>4, <1>8, <1>9, <1>10, <1>11 DEF IInv

LEMMA InitHolds == Init => IInv
<1> SUFFICES ASSUME Init PROVE IInv
    BY Zenon
<1>1. FALSE \in BOOLEAN
    BY Zenon
<1>2. drive \in [Drives -> Memories] /\ \A d \in Drives : drive[d] = Idle
    BY Zenon, IdleTyped DEF Init
<1>3. steps \in [Steps -> StepRows] /\ \A s \in Steps : steps[s] = NoRow
    BY Zenon DEF Init, NoRow, StepRows
<1>4. row \in RunRows
    BY Zenon, <1>1 DEF Init, RunRows
<1>5. TypeOK
  <2>1. halted \in BOOLEAN
    BY Zenon DEF Init
  <2>2. work \in {"none", "open"} \cup Results /\ sent \subseteq Attempts /\ acked \subseteq Attempts
        /\ command \in [Attempts -> {"never", "running", "ok", "bad"}] /\ faults \in 0 .. MaxFaults
    BY SMTT(30), BoundsAssumption DEF Init
  <2> QED
    BY Zenon, <1>2, <1>3, <1>4, <2>1, <2>2 DEF TypeOK
<1>6. RowsInv
    BY <1>3, BoundsAssumption DEF Init, RowsInv, NoRow, Numbers, Attempts
<1>7. MemoryInv
    BY <1>2, Zenon DEF Init, MemoryInv, Remembers, Idle
<1>8. HolderInv
    BY Zenon, DrivesAssumption DEF Init, HolderInv, Holds
<1>9. ResultInv
    BY Zenon, <1>2, <1>3 DEF Init, ResultInv, Completed, NoRow
<1> QED
    BY Zenon, <1>5, <1>6, <1>7, <1>8, <1>9 DEF IInv

LEMMA NextKeeps ==
    ASSUME IInv, [Next]_vars
    PROVE  IInv'
<1>1. CASE UNCHANGED vars
  <2>1. TypeOK' /\ RowsInv'
    BY Zenon, <1>1 DEF IInv, TypeOK, RowsInv, vars, runner
  <2>2. MemoryInv'
    BY ZenonT(30), <1>1 DEF IInv, MemoryInv, Remembers, vars, runner
  <2>2a. HolderInv'
    BY Zenon, <1>1, HolderStays DEF IInv, vars, runner
  <2>3. ResultInv'
    BY <1>1, Zenon DEF IInv, ResultInv, Completed, Passed, vars, runner
  <2> QED
    BY Zenon, <2>1, <2>2, <2>2a, <2>3 DEF IInv
<1>2. ASSUME NEW d \in Drives, Claim(d) \/ Renew(d) \/ SignalCancel(d) \/ Abort(d)
      PROVE  IInv'
    BY Zenon, <1>2, ClaimKeeps, RenewKeeps, SignalCancelKeeps, LoseLeaseKeeps
<1>3. ASSUME NEW d \in Drives, NEW s \in Steps, StepMove(d, s)
      PROVE  IInv'
    BY Zenon, <1>3, AcknowledgeKeeps, InvokeKeeps, ExecuteKeeps, AnswerKeeps, ReceiptKeeps, RetryingKeeps,
       NextAttemptKeeps DEF StepMove
<1>4. ASSUME NEW d \in Drives, Plan(d)
      PROVE  IInv'
    BY Zenon, <1>4, RefusedKeeps DEF Plan
<1>5. ASSUME NEW d \in Drives, Advance(d)
      PROVE  IInv'
    BY SMTT(30), <1>3, <1>4, <1>5, LoseLeaseKeeps, SteerKeeps, NameWorkKeeps, BeginKeeps, QueueStepKeeps,
       ResumeKeeps, DivergeKeeps, ReackedKeeps, WorkflowEndsKeeps, SweptKeeps, JudgeKeeps, FenceKeeps,
       SettleRowsKeeps, CancelRunnerKeeps, CloseWorkKeeps, FinishKeeps DEF Advance
<1> QED
    BY Zenon, <1>1, <1>2, <1>5, LeaseAgesKeeps, RequestCancelKeeps, RunnerKeeps DEF Next

(* The invariant: whatever the replicas' drives, the recoveries and the    *)
(* runner do, the holder's memory agrees with the rows, and the rows with  *)
(* what the runner was asked.                                              *)
THEOREM Inductive == Spec => []IInv
<1>1. IInv /\ [Next]_vars => IInv'
    BY Zenon, NextKeeps
<1> QED
    BY InitHolds, <1>1, PTL DEF Spec

(* Rows, drives and receipts keep their types; above all no drive numbers  *)
(* an attempt past the retries its step has left (execStep).               *)
THEOREM PipelineTypeCorrect == Spec => []TypeOK
<1>1. IInv => TypeOK
    BY Zenon DEF IInv
<1> QED
    BY <1>1, Inductive, PTL

(* Two attempts of a step never stand in the cluster together, for any     *)
(* number of replicas, recoveries and retries.                             *)
THEOREM AttemptsApartHolds == Spec => []AttemptsApart
<1>1. IInv => AttemptsApart
  <2> SUFFICES ASSUME IInv, NEW s \in Steps, NEW m \in Numbers, NEW n \in Numbers, m < n,
                      Standing(<<s, m>>), Standing(<<s, n>>)
               PROVE  FALSE
    BY BoundsAssumption DEF AttemptsApart, Numbers
  <2>1. n <= steps[s].n /\ (m < steps[s].n => <<s, m>> \in acked)
    BY Zenon DEF IInv, RowsInv, Standing
  <2>2. m \in Nat /\ n \in Nat /\ steps[s].n \in Nat
    BY BoundsAssumption DEF IInv, TypeOK, StepRows, Numbers
  <2> QED
    BY <2>1, <2>2 DEF Standing
<1> QED
    BY <1>1, Inductive, PTL

(* A run that passed passed for a reason, whatever its drives were cut     *)
(* short in: each step's command ended well in the attempt its row         *)
(* records, unless the plan skipped the step (verdictOfSteps), and then no *)
(* drive ever handed an attempt of it to the runner.                       *)
THEOREM SuccessIsRealHolds == Spec => []SuccessIsReal
<1>1. IInv => SuccessIsReal
    BY Zenon DEF IInv, ResultInv, Passed, RowsInv, SuccessIsReal
<1> QED
    BY <1>1, Inductive, PTL

(* A finished run and its work run tell the same story.                    *)
THEOREM WorkAgreesHolds == Spec => []WorkAgrees
<1>1. IInv => WorkAgrees
    BY Zenon DEF IInv, ResultInv, WorkAgrees
<1> QED
    BY <1>1, Inductive, PTL

(* No attempt handed to the runner is later than its step's row, and only  *)
(* the row's own may be short of its acknowledgement.                      *)
LEMMA OnlyTheNewest ==
    ASSUME IInv, NEW a \in sent, a \notin acked
    PROVE  \E s \in Steps : a = <<s, steps[s].n>> /\ steps[s].at # "none"
<1>1. PICK s \in Steps, m \in Numbers : a = <<s, m>>
    BY DEF IInv, TypeOK, Attempts
<1>2. m \in Nat /\ m # 0 /\ steps[s].n \in Nat
    BY BoundsAssumption DEF IInv, TypeOK, StepRows, Numbers
<1>3. m <= steps[s].n /\ ~(m < steps[s].n)
    BY <1>1, Zenon DEF IInv, RowsInv
<1>4. m = steps[s].n
    BY <1>2, <1>3
<1> QED
    BY <1>1, <1>2, <1>4, Zenon DEF IInv, RowsInv

(* A run that passed, and that nobody asked to cancel, left no attempt     *)
(* without its acknowledged cleanup.                                       *)
THEOREM CleanHolds == Spec => []CleanUnlessCancelled
<1>1. IInv => CleanUnlessCancelled
  <2> SUFFICES ASSUME IInv, ~row.cancel, row.result = "success", NEW a \in Attempts, Standing(a)
               PROVE  FALSE
    BY Zenon DEF CleanUnlessCancelled, SuccessAcknowledged
  <2>1. a \in sent /\ a \notin acked
    <3>1. PICK s \in Steps, m \in Numbers : a = <<s, m>>
      BY DEF Attempts
    <3> QED
      BY <3>1, Zenon DEF IInv, RowsInv, Standing
  <2>2. PICK s \in Steps : a = <<s, steps[s].n>> /\ steps[s].at # "none"
    BY Zenon, <2>1, OnlyTheNewest
  <2>3. row.named
    BY Zenon, <2>2 DEF IInv, ResultInv
  <2>4. steps[s].n \in Numbers
    BY Zenon, <2>2 DEF IInv, RowsInv, TypeOK, StepRows
  <2> QED
    BY ZenonT(30), <2>1, <2>2, <2>3, <2>4 DEF IInv, ResultInv, Passed, RowsInv
<1> QED
    BY <1>1, Inductive, PTL

(* A step's receipt is final, against every later write of any drive.      *)
THEOREM ReceiptsStandHolds == Spec => ReceiptsStand
<1>1. ASSUME IInv, [Next]_vars, NEW s \in Steps, steps[s].at = "done"
      PROVE  steps'[s] = steps[s]
  <2>1. ASSUME NEW d \in Drives, NEW x \in Steps, Holds(d), drive[d].go[x] # "end",
               drive[d].go[x] \in {"todo", "next", "bad"} \/ Settling(d, x)
        PROVE  x # s
    BY <1>1, <2>1, UnderWay, HolderMatches, ZenonT(60) DEF Matches, Settling
  <2>2. ASSUME NEW x \in Steps \ {s}, NEW r, steps' = [steps EXCEPT ![x] = r]
        PROVE  steps'[s] = steps[s]
    BY Zenon, <1>1, <2>2 DEF IInv, TypeOK
  <2>3. ASSUME NEW d \in Drives, NEW x \in Steps, StepMove(d, x)
        PROVE  steps'[s] = steps[s]
    <3>1. CASE Acknowledge(d, x) \/ Execute(d, x) \/ Answer(d, x)
      BY Zenon, <3>1 DEF Acknowledge, Execute, Answer
    <3>2. CASE Invoke(d, x) \/ NextAttempt(d, x)
      <4>1. \/ UNCHANGED steps
            \/ Holds(d) /\ (Intend(x, drive[d].try[x]) \/ Intend(x, drive[d].try[x] + 1))
        BY <3>2, Zenon DEF Invoke, NextAttempt
      <4>2. drive[d].go[x] \in {"todo", "next"}
        BY <3>2, Zenon DEF Invoke, NextAttempt
      <4> QED
        BY Zenon, <2>1, <2>2, <4>1, <4>2 DEF Intend
    <3>3. CASE Receipt(d, x)
      <4>1. CASE Settling(d, x) /\ Holds(d) /\ ((\E n : Intend(x, n)) \/ Settle(d, x))
        <5>1. x \in Steps \ {s}
          BY Zenon, <2>1, <4>1 DEF Settling
        <5> QED
          BY <2>2, <4>1, <5>1, Zenon DEF Intend, Settle
      <4> QED
        BY Zenon, <3>3, <4>1 DEF Receipt
    <3>4. CASE Retrying(d, x)
      <4>1. x # s /\ steps' = [steps EXCEPT ![x].at = "between"]
        BY Zenon, <2>1, <3>4 DEF Retrying
      <4> QED
        BY Zenon, <1>1, <4>1 DEF IInv, TypeOK
    <3> QED
      BY <2>3, <3>1, <3>2, <3>3, <3>4, Zenon DEF StepMove
  <2>4. ASSUME NEW d \in Drives, QueueStep(d) \/ SettleRows(d)
        PROVE  steps'[s] = steps[s]
    BY <1>1, <2>4, Zenon DEF QueueStep, SettleRows, Intend, IInv, TypeOK
  <2>5. ASSUME NEW d \in Drives, Advance(d)
        PROVE  steps'[s] = steps[s]
    BY <2>3, <2>4, <2>5, Zenon DEF Advance, LoseLease, Steer, Plan, NameWork, Begin, Resume, Diverge, Reacked,
       WorkflowEnds, Swept, Judge, Fence, CancelRunner, CloseWork, Finish
  <2>6. ASSUME NEW d \in Drives, Claim(d) \/ Renew(d) \/ SignalCancel(d) \/ Abort(d)
        PROVE  steps'[s] = steps[s]
    BY Zenon, <2>6 DEF Claim, Renew, SignalCancel, Abort
  <2>7. CASE UNCHANGED vars \/ LeaseAges \/ RequestCancel \/ \E a \in Attempts : Starts(a) \/ Ends(a)
    BY Zenon, <2>7 DEF vars, LeaseAges, RequestCancel, Starts, Ends
  <2> QED
    BY Zenon, <1>1, <2>5, <2>6, <2>7 DEF Next
<1>2. IInv /\ [Next]_vars => [\A s \in Steps : steps[s].at = "done" => steps'[s] = steps[s]]_vars
    BY Zenon, <1>1
<1> QED
    BY <1>2, Inductive, PTL DEF Spec, ReceiptsStand

(* Only the runner's own step starts a command.                            *)
LEMMA OnlyStartsStart ==
    ASSUME IInv, [Next]_vars, NEW b \in Attempts, command[b] = "never", command'[b] # "never"
    PROVE  Starts(b)
<1>1. ASSUME NEW d \in Drives, NEW s \in Steps, StepMove(d, s)
      PROVE  command' = command
    BY <1>1, Zenon DEF StepMove, Acknowledge, Invoke, Execute, Answer, Receipt, Retrying, NextAttempt,
       runner
<1>2. ASSUME NEW d \in Drives, Advance(d)
      PROVE  command' = command
    BY <1>1, <1>2, Zenon DEF Advance, LoseLease, Steer, Plan, NameWork, Begin, QueueStep, Resume, Diverge,
       Reacked, WorkflowEnds, Swept, Judge, Fence, SettleRows, CancelRunner, CloseWork, Finish, runner
<1>3. ASSUME NEW d \in Drives, Claim(d) \/ Renew(d) \/ SignalCancel(d) \/ Abort(d)
      PROVE  command' = command
    BY Zenon, <1>3 DEF Claim, Renew, SignalCancel, Abort, runner
<1>4. CASE UNCHANGED vars \/ LeaseAges \/ RequestCancel
    BY Zenon, <1>4 DEF vars, LeaseAges, RequestCancel, runner
<1>5. ASSUME NEW a \in Attempts, Starts(a) \/ Ends(a)
      PROVE  Starts(b)
    BY Zenon, <1>5 DEF Starts, Ends, IInv, TypeOK
<1> QED
    BY Zenon, <1>2, <1>3, <1>4, <1>5 DEF Next

(* Nothing starts for a run that concluded as a success or a cancel: what  *)
(* a passed step's row names has run, and a confirmed cancel lets nothing  *)
(* start any more.                                                         *)
THEOREM ConcludedIsQuietHolds == Spec => ConcludedIsQuiet
<1>1. ASSUME IInv, [Next]_vars, row.result \in {"success", "cancelled"},
             NEW b \in Attempts, command[b] = "never"
      PROVE  command'[b] = "never"
  <2> SUFFICES ASSUME command'[b] # "never"
               PROVE  FALSE
    BY Zenon
  <2>1. b \in sent /\ b \notin acked /\ ~halted
    BY Zenon, <1>1, OnlyStartsStart DEF Starts
  <2>2. PICK s \in Steps : b = <<s, steps[s].n>> /\ steps[s].at # "none"
    BY Zenon, <1>1, <2>1, OnlyTheNewest
  <2>3. row.named
    BY Zenon, <1>1, <2>2 DEF IInv, ResultInv
  <2>4. row.result = "success"
    BY Zenon, <1>1, <2>1, <2>3 DEF IInv, ResultInv
  <2>5. steps[s].how \in {"ok", "skipped"} /\ steps[s].n \in Numbers
    BY <1>1, <2>2, <2>3, <2>4, ZenonT(30) DEF IInv, ResultInv, Passed, RowsInv, TypeOK, StepRows
  <2> QED
    BY <1>1, <2>1, <2>2, <2>5, Zenon DEF IInv, RowsInv
<1>2. IInv /\ [Next]_vars =>
          [row.result \in {"success", "cancelled"} =>
              \A a \in Attempts : command[a] = "never" => command'[a] = "never"]_vars
    BY Zenon, <1>1
<1> QED
    BY <1>2, Inductive, PTL DEF Spec, ConcludedIsQuiet

=============================================================================
