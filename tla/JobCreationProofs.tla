------------------------- MODULE JobCreationProofs --------------------------
(***************************************************************************)
(* Proofs about module JobCreation, for any number of Runs and of cleanup  *)
(* calls: at most one Job is made for an attempt, and what is done with    *)
(* the attempt is what module Attempt promises.                            *)
(*                                                                         *)
(* The argument.  While no stop marker stands, whoever may send a POST or  *)
(* has sent one is the Run named by the Secret, so there is one such Run   *)
(* at most.  A marker is written before any cleanup may drop the Secret,   *)
(* and a Run reads it last before its POST, so none is armed after it.  A  *)
(* POST that outlives the window, which is late, was the one that could be *)
(* out when the marker was written, and stays the only one.                *)
(***************************************************************************)
EXTENDS JobCreation, TLAPS

(* A POST of the Run has left or will leave without another look.          *)
Armed(r) == at[r] = "post" \/ post[r] = "flight"

(* Nothing is armed but what was late; and nothing can be, because the     *)
(* attempt's marker stands, or the run's does and no Run is past its read. *)
Unarmed == \A r \in Runs : ~Armed(r)
Sealed == marker # "none" /\ (late \/ Unarmed)
Quiet == (late \/ Unarmed) /\ (marker # "none" \/ (runMarker /\ \A r \in Runs : at[r] # "last2"))

SpentSteps == CleanupSteps \cup {"sent", "read", "watch", "abandon", "done"}

PostInv ==
    \A r \in Runs :
        /\ post[r] # "none" => at[r] \in SpentSteps
        /\ post[r] \in {"made", "exists", "refused", "rejected"} => at[r] = "sent"
        /\ at[r] = "sent" => post[r] # "none"

ClaimInv ==
    \A r \in Runs :
        /\ Armed(r) => late \/ secret = Creating(r)
        /\ Armed(r) => \A q \in Runs \ {r} : ~Armed(q)
        /\ marker = "none" /\ (at[r] \in {"first2", "last2"} \/ post[r] # "none") => secret = Creating(r)
        /\ at[r] = "cas" /\ r \in current => secret = Queued

MadeInv ==
    /\ made = 0 \/ made = 1
    /\ made = 1 => Unarmed /\ (\E r \in Runs : post[r] \in {"made", "over"})
    /\ job # "none" => made = 1
    /\ sawJob # {} => made = 1

CleanupInv ==
    /\ marker = "aged" => late \/ Unarmed
    /\ late => marker = "aged"
    /\ \A a \in Actors :
        /\ at[a] \in {"c_secret", "c_dropSecret"} => marker # "none"
        /\ at[a] = "c_dropSecret" /\ a \in current => secret = Queued \/ made = 1 \/ marker = "aged"
        /\ at[a] \in {"c_dropJob", "c_noJob", "c_noSecret"} => Sealed
        /\ at[a] = "c_noSecret" => late \/ job = "none"

CancelInv ==
    \A c \in Cleaners :
        /\ at[c] \in {"c_run", "c_listJobs", "c_listSecrets"} => c \in cancels
        /\ at[c] \in {"c_listJobs", "c_listSecrets"} => runMarker
        /\ at[c] = "confirmed" => Quiet

IInv == TypeOK /\ PostInv /\ ClaimInv /\ MadeInv /\ CleanupInv /\ CancelInv

-----------------------------------------------------------------------------
LEMMA ForwardKeeps ==
    ASSUME IInv, NEW r \in Runs, Forward(r)
    PROVE  IInv'
<1> USE ActorsAssumption DEF IInv, Actors, Forward
<1>1. TypeOK'
    BY DEF TypeOK, RunSteps, CleanerSteps, CleanupSteps
<1>2. PostInv'
    BY Zenon DEF TypeOK, PostInv, SpentSteps, CleanupSteps
<1>3. ClaimInv'
    BY Zenon DEF TypeOK, ClaimInv, Armed
<1>4. MadeInv'
    BY Zenon DEF TypeOK, MadeInv, Armed, Unarmed
<1>5. CleanupInv'
    BY Zenon DEF TypeOK, CleanupInv, Armed, Unarmed, Sealed
<1>6. CancelInv'
    BY Zenon DEF TypeOK, CancelInv, Armed, Unarmed, Quiet
<1> QED BY Zenon, <1>1, <1>2, <1>3, <1>4, <1>5, <1>6

LEMMA ReadJobKeeps ==
    ASSUME IInv, NEW r \in Runs, ReadJob(r)
    PROVE  IInv'
<1> USE ActorsAssumption DEF IInv, Actors, ReadJob, Goto
<1>1. TypeOK'
    BY Zenon DEF TypeOK, RunSteps, CleanerSteps, CleanupSteps
<1>2. PostInv'
    BY Zenon DEF TypeOK, PostInv, SpentSteps, CleanupSteps
<1>3. ClaimInv'
    BY Zenon DEF TypeOK, ClaimInv, Armed
<1>4. MadeInv'
    BY Zenon DEF TypeOK, MadeInv, Armed, Unarmed
<1>5. CleanupInv'
    BY Zenon DEF TypeOK, CleanupInv, Armed, Unarmed, Sealed
<1>6. CancelInv'
    BY ZenonT(30) DEF TypeOK, CancelInv, Armed, Unarmed, Quiet
<1> QED BY Zenon, <1>1, <1>2, <1>3, <1>4, <1>5, <1>6

LEMMA RecoverMetaKeeps ==
    ASSUME IInv, NEW r \in Runs, RecoverMeta(r)
    PROVE  IInv'
<1> USE ActorsAssumption DEF IInv, Actors, RecoverMeta, Goto, Absent, Queued, Creating
<1>1. TypeOK'
    BY DEF TypeOK, RunSteps, CleanerSteps, CleanupSteps
<1>2. PostInv'
    BY DEF TypeOK, PostInv, SpentSteps, CleanupSteps
<1>3. ClaimInv'
    BY DEF TypeOK, ClaimInv, Armed
<1>4. MadeInv'
    BY DEF TypeOK, MadeInv, Armed, Unarmed
<1>5. CleanupInv'
    BY DEF TypeOK, CleanupInv, Armed, Unarmed, Sealed
<1>6. CancelInv'
    BY DEF TypeOK, CancelInv, Armed, Unarmed, Quiet
<1> QED BY Zenon, <1>1, <1>2, <1>3, <1>4, <1>5, <1>6

LEMMA RecoverJobKeeps ==
    ASSUME IInv, NEW r \in Runs, RecoverJob(r)
    PROVE  IInv'
<1> USE ActorsAssumption DEF IInv, Actors, RecoverJob, Goto
<1>1. TypeOK'
    BY Zenon DEF TypeOK, RunSteps, CleanerSteps, CleanupSteps
<1>2. PostInv'
    BY Zenon DEF TypeOK, PostInv, SpentSteps, CleanupSteps
<1>3. ClaimInv'
    BY Zenon DEF TypeOK, ClaimInv, Armed
<1>4. MadeInv'
    BY Zenon DEF TypeOK, MadeInv, Armed, Unarmed
<1>5. CleanupInv'
    BY Zenon DEF TypeOK, CleanupInv, Armed, Unarmed, Sealed
<1>6. CancelInv'
    BY Zenon DEF TypeOK, CancelInv, Armed, Unarmed, Quiet
<1> QED BY Zenon, <1>1, <1>2, <1>3, <1>4, <1>5, <1>6

LEMMA EndWatchKeeps ==
    ASSUME IInv, NEW r \in Runs, EndWatch(r)
    PROVE  IInv'
<1> USE ActorsAssumption DEF IInv, Actors, EndWatch, Goto
<1>1. TypeOK'
    BY Zenon DEF TypeOK, RunSteps, CleanerSteps, CleanupSteps
<1>2. PostInv'
    BY Zenon DEF TypeOK, PostInv, SpentSteps, CleanupSteps
<1>3. ClaimInv'
    BY Zenon DEF TypeOK, ClaimInv, Armed
<1>4. MadeInv'
    BY Zenon DEF TypeOK, MadeInv, Armed, Unarmed
<1>5. CleanupInv'
    BY Zenon DEF TypeOK, CleanupInv, Armed, Unarmed, Sealed
<1>6. CancelInv'
    BY Zenon DEF TypeOK, CancelInv, Armed, Unarmed, Quiet
<1> QED BY Zenon, <1>1, <1>2, <1>3, <1>4, <1>5, <1>6

LEMMA CheckRetirementKeeps ==
    ASSUME IInv, NEW r \in Runs, CheckRetirement(r)
    PROVE  IInv'
<1> USE ActorsAssumption DEF IInv, Actors, CheckRetirement, Goto
<1>1. TypeOK'
    BY DEF TypeOK, RunSteps, CleanerSteps, CleanupSteps
<1>2. PostInv'
    BY DEF TypeOK, PostInv, SpentSteps, CleanupSteps
<1>3. ClaimInv'
    BY DEF TypeOK, ClaimInv, Armed
<1>4. MadeInv'
    BY DEF TypeOK, MadeInv, Armed, Unarmed
<1>5. CleanupInv'
    BY DEF TypeOK, CleanupInv, Armed, Unarmed, Sealed
<1>6. CancelInv'
    BY DEF TypeOK, CancelInv, Armed, Unarmed, Quiet
<1> QED BY Zenon, <1>1, <1>2, <1>3, <1>4, <1>5, <1>6

LEMMA AdmissionHeldKeeps ==
    ASSUME IInv, NEW r \in Runs, AdmissionHeld(r)
    PROVE  IInv'
<1> USE ActorsAssumption DEF IInv, Actors, AdmissionHeld, WriteSecret, Absent, Queued
<1>1. TypeOK'
    BY DEF TypeOK, RunSteps, CleanerSteps, CleanupSteps
<1>2. PostInv'
    BY Zenon DEF TypeOK, PostInv, SpentSteps, CleanupSteps
<1>3. ClaimInv'
    BY DEF TypeOK, PostInv, ClaimInv, Armed, SpentSteps, CleanupSteps, Creating
<1>4. MadeInv'
    BY Zenon DEF TypeOK, MadeInv, Armed, Unarmed
<1>5. CleanupInv'
    BY Zenon DEF TypeOK, CleanupInv, Armed, Unarmed, Sealed
<1>6. CancelInv'
    BY Zenon DEF TypeOK, CancelInv, Armed, Unarmed, Quiet
<1> QED BY Zenon, <1>1, <1>2, <1>3, <1>4, <1>5, <1>6

LEMMA CreateSecretKeeps ==
    ASSUME IInv, NEW r \in Runs, CreateSecret(r)
    PROVE  IInv'
<1> USE ActorsAssumption DEF IInv, Actors, CreateSecret, WriteSecret, Absent, Queued
<1>1. TypeOK'
    BY DEF TypeOK, RunSteps, CleanerSteps, CleanupSteps
<1>2. PostInv'
    BY Zenon DEF TypeOK, PostInv, SpentSteps, CleanupSteps
<1>3. ClaimInv'
    BY DEF TypeOK, PostInv, ClaimInv, Armed, SpentSteps, CleanupSteps, Creating
<1>4. MadeInv'
    BY Zenon DEF TypeOK, MadeInv, Armed, Unarmed
<1>5. CleanupInv'
    BY Zenon DEF TypeOK, CleanupInv, Armed, Unarmed, Sealed
<1>6. CancelInv'
    BY Zenon DEF TypeOK, CancelInv, Armed, Unarmed, Quiet
<1> QED BY Zenon, <1>1, <1>2, <1>3, <1>4, <1>5, <1>6

LEMMA CeilingPassedKeeps ==
    ASSUME IInv, NEW r \in Runs, CeilingPassed(r)
    PROVE  IInv'
<1> USE ActorsAssumption DEF IInv, Actors, CeilingPassed, Goto, WriteSecret, Released, Queued, Creating
<1>1. TypeOK'
    BY DEF TypeOK, RunSteps, CleanerSteps, CleanupSteps
<1>2. PostInv'
    BY DEF TypeOK, PostInv, SpentSteps, CleanupSteps
<1>3. ClaimInv'
    BY DEF TypeOK, PostInv, ClaimInv, Armed, SpentSteps, CleanupSteps
<1>4. MadeInv'
    BY Zenon DEF TypeOK, MadeInv, Armed, Unarmed
<1>5. CleanupInv'
    BY DEF TypeOK, CleanupInv, Armed, Unarmed, Sealed
<1>6. CancelInv'
    BY DEF TypeOK, CancelInv, Armed, Unarmed, Quiet
<1> QED BY Zenon, <1>1, <1>2, <1>3, <1>4, <1>5, <1>6

LEMMA ClaimMetaKeeps ==
    ASSUME IInv, NEW r \in Runs, ClaimMeta(r)
    PROVE  IInv'
<1> USE ActorsAssumption DEF IInv, Actors, ClaimMeta, Goto, Absent, Queued, Creating
<1>1. TypeOK'
    BY DEF TypeOK, RunSteps, CleanerSteps, CleanupSteps
<1>2. PostInv'
    BY DEF TypeOK, PostInv, SpentSteps, CleanupSteps
<1>3. ClaimInv'
    BY DEF TypeOK, ClaimInv, Armed
<1>4. MadeInv'
    BY DEF TypeOK, MadeInv, Armed, Unarmed
<1>5. CleanupInv'
    BY DEF TypeOK, CleanupInv, Armed, Unarmed, Sealed
<1>6. CancelInv'
    BY DEF TypeOK, CancelInv, Armed, Unarmed, Quiet
<1> QED BY Zenon, <1>1, <1>2, <1>3, <1>4, <1>5, <1>6

LEMMA ClaimCreationKeeps ==
    ASSUME IInv, NEW r \in Runs, ClaimCreation(r)
    PROVE  IInv'
<1> USE ActorsAssumption DEF IInv, Actors, ClaimCreation, Goto, WriteSecret, Creating
<1>1. TypeOK'
    BY DEF TypeOK, RunSteps, CleanerSteps, CleanupSteps
<1>2. PostInv'
    BY ZenonT(30) DEF TypeOK, PostInv, SpentSteps, CleanupSteps
<1>3. ClaimInv'
    BY DEF TypeOK, PostInv, ClaimInv, Armed, SpentSteps, CleanupSteps, Absent, Queued
<1>4. MadeInv'
    BY DEF TypeOK, MadeInv, Armed, Unarmed
<1>5. CleanupInv'
    BY DEF TypeOK, CleanupInv, Armed, Unarmed, Sealed
<1>6. CancelInv'
    BY DEF TypeOK, CancelInv, Armed, Unarmed, Quiet
<1> QED BY Zenon, <1>1, <1>2, <1>3, <1>4, <1>5, <1>6

LEMMA CheckBeforePostKeeps ==
    ASSUME IInv, NEW r \in Runs, CheckBeforePost(r)
    PROVE  IInv'
<1> USE ActorsAssumption DEF IInv, Actors, CheckBeforePost, Goto, WriteSecret, Released, StopSeen, Queued, Creating
<1>1. TypeOK'
    BY DEF TypeOK, RunSteps, CleanerSteps, CleanupSteps
<1>2. PostInv'
    BY DEF TypeOK, PostInv, SpentSteps, CleanupSteps
<1>3. ClaimInv'
    BY SMTT(30) DEF TypeOK, PostInv, ClaimInv, CleanupInv, Armed, SpentSteps, CleanupSteps
<1>4. MadeInv'
    BY DEF TypeOK, PostInv, ClaimInv, MadeInv, Armed, Unarmed, SpentSteps, CleanupSteps
<1>5. CleanupInv'
    BY DEF TypeOK, CleanupInv, Armed, Unarmed, Sealed
<1>6. CancelInv'
    BY DEF TypeOK, CancelInv, Armed, Unarmed, Quiet
<1> QED BY Zenon, <1>1, <1>2, <1>3, <1>4, <1>5, <1>6

LEMMA CloudHeldKeeps ==
    ASSUME IInv, NEW r \in Runs, CloudHeld(r)
    PROVE  IInv'
<1> USE ActorsAssumption DEF IInv, Actors, CloudHeld, Goto, WriteSecret, Released, Queued, Creating
<1>1. TypeOK'
    BY Zenon DEF TypeOK, RunSteps, CleanerSteps, CleanupSteps
<1>2. PostInv'
    BY Zenon DEF TypeOK, PostInv, SpentSteps, CleanupSteps
<1>3. ClaimInv'
    BY DEF TypeOK, PostInv, ClaimInv, Armed, SpentSteps, CleanupSteps
<1>4. MadeInv'
    BY Zenon DEF TypeOK, MadeInv, Armed, Unarmed
<1>5. CleanupInv'
    BY Zenon DEF TypeOK, CleanupInv, Armed, Unarmed, Sealed
<1>6. CancelInv'
    BY Zenon DEF TypeOK, CancelInv, Armed, Unarmed, Quiet
<1> QED BY Zenon, <1>1, <1>2, <1>3, <1>4, <1>5, <1>6

LEMMA SendPostKeeps ==
    ASSUME IInv, NEW r \in Runs, SendPost(r)
    PROVE  IInv'
<1> USE ActorsAssumption DEF IInv, Actors, SendPost, Goto
<1>1. TypeOK'
    BY Zenon DEF TypeOK, RunSteps, CleanerSteps, CleanupSteps
<1>2. PostInv'
    BY Zenon DEF TypeOK, PostInv, SpentSteps, CleanupSteps
<1>3. ClaimInv'
    <2>1. \A q \in Runs : Armed(q)' => Armed(q)
        BY Zenon DEF TypeOK, Armed
    <2>2. \A q \in Runs : post'[q] # "none" => post[q] # "none" \/ Armed(q)
        BY Zenon DEF TypeOK, Armed
    <2>3. \A q \in Runs : at'[q] \in {"first2", "last2", "cas"} => at'[q] = at[q]
        BY Zenon DEF TypeOK
    <2>4. late => marker = "aged"
        BY Zenon DEF CleanupInv
    <2> QED BY Zenon, <2>1, <2>2, <2>3, <2>4 DEF ClaimInv
<1>4. MadeInv'
    BY Zenon DEF TypeOK, MadeInv, Armed, Unarmed
<1>5. CleanupInv'
    BY Zenon DEF TypeOK, CleanupInv, Armed, Unarmed, Sealed
<1>6. CancelInv'
    BY Zenon DEF TypeOK, CancelInv, Armed, Unarmed, Quiet
<1> QED BY Zenon, <1>1, <1>2, <1>3, <1>4, <1>5, <1>6

LEMMA PostUnansweredKeeps ==
    ASSUME IInv, NEW r \in Runs, PostUnanswered(r)
    PROVE  IInv'
<1> USE ActorsAssumption DEF IInv, Actors, PostUnanswered, Goto
<1>1. TypeOK'
    BY Zenon DEF TypeOK, RunSteps, CleanerSteps, CleanupSteps
<1>2. PostInv'
    BY Zenon DEF TypeOK, PostInv, SpentSteps, CleanupSteps
<1>3. ClaimInv'
    BY Zenon DEF TypeOK, PostInv, ClaimInv, Armed
<1>4. MadeInv'
    BY Zenon DEF TypeOK, MadeInv, Armed, Unarmed
<1>5. CleanupInv'
    BY Zenon DEF TypeOK, CleanupInv, Armed, Unarmed, Sealed
<1>6. CancelInv'
    BY Zenon DEF TypeOK, CancelInv, Armed, Unarmed, Quiet
<1> QED BY Zenon, <1>1, <1>2, <1>3, <1>4, <1>5, <1>6

LEMMA PostAnsweredKeeps ==
    ASSUME IInv, NEW r \in Runs, PostAnswered(r)
    PROVE  IInv'
<1> USE ActorsAssumption DEF IInv, Actors, PostAnswered, Goto, WriteSecret, Released, Queued, Creating
<1>1. TypeOK'
    BY DEF TypeOK, RunSteps, CleanerSteps, CleanupSteps
<1>2. PostInv'
    BY DEF TypeOK, PostInv, SpentSteps, CleanupSteps
<1>3. ClaimInv'
    BY DEF TypeOK, ClaimInv, Armed
<1>4. MadeInv'
    BY DEF TypeOK, MadeInv, Armed, Unarmed
<1>5. CleanupInv'
    BY DEF TypeOK, CleanupInv, Armed, Unarmed, Sealed
<1>6. CancelInv'
    BY DEF TypeOK, CancelInv, Armed, Unarmed, Quiet
<1> QED BY Zenon, <1>1, <1>2, <1>3, <1>4, <1>5, <1>6

LEMMA CancelRunKeeps ==
    ASSUME IInv, NEW r \in Runs, CancelRun(r)
    PROVE  IInv'
<1> USE ActorsAssumption DEF IInv, Actors, CancelRun, Goto, CancelSteps
<1>1. TypeOK'
    BY DEF TypeOK, RunSteps, CleanerSteps, CleanupSteps
<1>2. PostInv'
    BY Zenon DEF TypeOK, PostInv, SpentSteps, CleanupSteps
<1>3. ClaimInv'
    BY Zenon DEF TypeOK, ClaimInv, Armed
<1>4. MadeInv'
    BY Zenon DEF TypeOK, MadeInv, Armed, Unarmed
<1>5. CleanupInv'
    BY Zenon DEF TypeOK, CleanupInv, Armed, Unarmed, Sealed
<1>6. CancelInv'
    BY Zenon DEF TypeOK, CancelInv, Armed, Unarmed, Quiet
<1> QED BY Zenon, <1>1, <1>2, <1>3, <1>4, <1>5, <1>6

LEMMA AbandonKeeps ==
    ASSUME IInv, NEW r \in Runs, Abandon(r)
    PROVE  IInv'
<1> USE ActorsAssumption DEF IInv, Actors, Abandon, Goto, WriteSecret, Released, Queued, Creating
<1>1. TypeOK'
    BY DEF TypeOK, RunSteps, CleanerSteps, CleanupSteps
<1>2. PostInv'
    BY DEF TypeOK, PostInv, SpentSteps, CleanupSteps
<1>3. ClaimInv'
    BY DEF TypeOK, ClaimInv, Armed
<1>4. MadeInv'
    BY DEF TypeOK, MadeInv, Armed, Unarmed
<1>5. CleanupInv'
    BY DEF TypeOK, CleanupInv, Armed, Unarmed, Sealed
<1>6. CancelInv'
    BY DEF TypeOK, CancelInv, Armed, Unarmed, Quiet
<1> QED BY Zenon, <1>1, <1>2, <1>3, <1>4, <1>5, <1>6

LEMMA CrashKeeps ==
    ASSUME IInv, NEW r \in Runs, Crash(r)
    PROVE  IInv'
<1> USE ActorsAssumption DEF IInv, Actors, Crash, Goto
<1>1. TypeOK'
    BY DEF TypeOK, RunSteps, CleanerSteps, CleanupSteps
<1>2. PostInv'
    BY Zenon DEF TypeOK, PostInv, SpentSteps, CleanupSteps
<1>3. ClaimInv'
    BY Zenon DEF TypeOK, ClaimInv, Armed
<1>4. MadeInv'
    BY Zenon DEF TypeOK, MadeInv, Armed, Unarmed
<1>5. CleanupInv'
    BY Zenon DEF TypeOK, CleanupInv, Armed, Unarmed, Sealed
<1>6. CancelInv'
    BY Zenon DEF TypeOK, CancelInv, Armed, Unarmed, Quiet
<1> QED BY Zenon, <1>1, <1>2, <1>3, <1>4, <1>5, <1>6

LEMMA PostArrivesKeeps ==
    ASSUME IInv, NEW r \in Runs, PostArrives(r)
    PROVE  IInv'
<1> USE ActorsAssumption DEF IInv, Actors, PostArrives, Fate, memory
<1>1. TypeOK'
    BY BoundsAssumption DEF TypeOK, RunSteps, CleanerSteps, CleanupSteps
<1>2. PostInv'
    BY DEF TypeOK, PostInv, SpentSteps, CleanupSteps
<1>3. ClaimInv'
    BY Zenon DEF TypeOK, ClaimInv, Armed
<1>4. MadeInv'
    BY DEF TypeOK, PostInv, ClaimInv, MadeInv, Armed, Unarmed, SpentSteps, CleanupSteps, Absent, Queued, Creating
<1>5. CleanupInv'
    BY Zenon DEF TypeOK, MadeInv, CleanupInv, Armed, Unarmed, Sealed
<1>6. CancelInv'
    BY Zenon DEF TypeOK, CancelInv, Armed, Unarmed, Quiet
<1> QED BY Zenon, <1>1, <1>2, <1>3, <1>4, <1>5, <1>6

LEMMA PostFailsKeeps ==
    ASSUME IInv, NEW r \in Runs, PostFails(r)
    PROVE  IInv'
<1> USE ActorsAssumption DEF IInv, Actors, PostFails, Fate, memory
<1>1. TypeOK'
    BY DEF TypeOK, RunSteps, CleanerSteps, CleanupSteps
<1>2. PostInv'
    BY ZenonT(30) DEF TypeOK, PostInv, SpentSteps, CleanupSteps
<1>3. ClaimInv'
    BY Zenon DEF TypeOK, ClaimInv, Armed
<1>4. MadeInv'
    BY Zenon DEF TypeOK, MadeInv, Armed, Unarmed
<1>5. CleanupInv'
    BY Zenon DEF TypeOK, CleanupInv, Armed, Unarmed, Sealed
<1>6. CancelInv'
    BY Zenon DEF TypeOK, CancelInv, Armed, Unarmed, Quiet
<1> QED BY Zenon, <1>1, <1>2, <1>3, <1>4, <1>5, <1>6

LEMMA SeeJobKeeps ==
    ASSUME IInv, NEW a \in Actors, SeeJob(a)
    PROVE  IInv'
<1> USE ActorsAssumption DEF IInv, Actors, SeeJob, Goto
<1>1. TypeOK'
    BY DEF TypeOK, RunSteps, CleanerSteps, CleanupSteps
<1>2. PostInv'
    BY Zenon DEF TypeOK, PostInv, SpentSteps, CleanupSteps
<1>3. ClaimInv'
    BY Zenon DEF TypeOK, ClaimInv, Armed
<1>4. MadeInv'
    BY Zenon DEF TypeOK, MadeInv, Armed, Unarmed
<1>5. CleanupInv'
    BY Zenon DEF TypeOK, CleanupInv, Armed, Unarmed, Sealed
<1>6. CancelInv'
    BY Zenon DEF TypeOK, CancelInv, Armed, Unarmed, Quiet
<1> QED BY Zenon, <1>1, <1>2, <1>3, <1>4, <1>5, <1>6

LEMMA RetireAttemptKeeps ==
    ASSUME IInv, NEW a \in Actors, RetireAttempt(a)
    PROVE  IInv'
<1> USE ActorsAssumption DEF IInv, Actors, RetireAttempt, Goto
<1>1. TypeOK'
    BY Zenon DEF TypeOK, RunSteps, CleanerSteps, CleanupSteps
<1>2. PostInv'
    BY Zenon DEF TypeOK, PostInv, SpentSteps, CleanupSteps
<1>3. ClaimInv'
    BY Zenon DEF TypeOK, ClaimInv, Armed
<1>4. MadeInv'
    BY Zenon DEF TypeOK, MadeInv, Armed, Unarmed
<1>5. CleanupInv'
    BY Zenon DEF TypeOK, CleanupInv, Armed, Unarmed, Sealed
<1>6. CancelInv'
    BY Zenon DEF TypeOK, CancelInv, Armed, Unarmed, Quiet
<1> QED BY Zenon, <1>1, <1>2, <1>3, <1>4, <1>5, <1>6

LEMMA SeeSecretKeeps ==
    ASSUME IInv, NEW a \in Actors, SeeSecret(a)
    PROVE  IInv'
<1> USE ActorsAssumption DEF IInv, Actors, SeeSecret, Goto, GiveUp, StartOf, LatePostPossible, Absent, Queued
<1>1. TypeOK'
    BY DEF TypeOK, RunSteps, CleanerSteps, CleanupSteps
<1>2. PostInv'
    BY DEF TypeOK, PostInv, SpentSteps, CleanupSteps
<1>3. ClaimInv'
    BY DEF TypeOK, ClaimInv, Armed
<1>4. MadeInv'
    BY Zenon DEF TypeOK, MadeInv, Armed, Unarmed
<1>5. CleanupInv'
    BY SMTT(30) DEF TypeOK, PostInv, ClaimInv, MadeInv, CleanupInv, Armed, Unarmed, Sealed, Creating
<1>6. CancelInv'
    BY DEF TypeOK, CancelInv, Armed, Unarmed, Quiet
<1> QED BY Zenon, <1>1, <1>2, <1>3, <1>4, <1>5, <1>6

LEMMA DropSecretKeeps ==
    ASSUME IInv, NEW a \in Actors, DropSecret(a)
    PROVE  IInv'
<1> USE ActorsAssumption DEF IInv, Actors, DropSecret, Goto, WriteSecret, GiveUp, StartOf, Absent
<1>1. TypeOK'
    BY DEF TypeOK, RunSteps, CleanerSteps, CleanupSteps
<1>2. PostInv'
    BY SMTT(30) DEF TypeOK, PostInv, SpentSteps, CleanupSteps
<1>3. ClaimInv'
    BY DEF TypeOK, ClaimInv, MadeInv, CleanupInv, Armed, Unarmed, Queued, Creating
<1>4. MadeInv'
    BY SMTT(30) DEF TypeOK, MadeInv, Armed, Unarmed
<1>5. CleanupInv'
    BY SMTT(30) DEF TypeOK, PostInv, ClaimInv, MadeInv, CleanupInv, Armed, Unarmed, Sealed, Queued, Creating
<1>6. CancelInv'
    BY DEF TypeOK, CancelInv, Armed, Unarmed, Quiet
<1> QED BY Zenon, <1>1, <1>2, <1>3, <1>4, <1>5, <1>6

LEMMA DropJobKeeps ==
    ASSUME IInv, NEW a \in Actors, DropJob(a)
    PROVE  IInv'
<1> USE ActorsAssumption DEF IInv, Actors, DropJob, Goto
<1>1. TypeOK'
    BY DEF TypeOK, RunSteps, CleanerSteps, CleanupSteps
<1>2. PostInv'
    BY Zenon DEF TypeOK, PostInv, SpentSteps, CleanupSteps
<1>3. ClaimInv'
    BY Zenon DEF TypeOK, ClaimInv, Armed
<1>4. MadeInv'
    BY Zenon DEF TypeOK, MadeInv, Armed, Unarmed
<1>5. CleanupInv'
    BY Zenon DEF TypeOK, CleanupInv, Armed, Unarmed, Sealed
<1>6. CancelInv'
    BY Zenon DEF TypeOK, CancelInv, Armed, Unarmed, Quiet
<1> QED BY Zenon, <1>1, <1>2, <1>3, <1>4, <1>5, <1>6

LEMMA DropJobConflictKeeps ==
    ASSUME IInv, NEW a \in Actors, DropJobConflict(a)
    PROVE  IInv'
<1> USE ActorsAssumption DEF IInv, Actors, DropJobConflict, Goto, GiveUp, StartOf
<1>1. TypeOK'
    BY DEF TypeOK, RunSteps, CleanerSteps, CleanupSteps
<1>2. PostInv'
    BY Zenon DEF TypeOK, PostInv, SpentSteps, CleanupSteps
<1>3. ClaimInv'
    BY Zenon DEF TypeOK, ClaimInv, Armed
<1>4. MadeInv'
    BY Zenon DEF TypeOK, MadeInv, Armed, Unarmed
<1>5. CleanupInv'
    BY Zenon DEF TypeOK, CleanupInv, Armed, Unarmed, Sealed
<1>6. CancelInv'
    BY DEF TypeOK, CancelInv, Armed, Unarmed, Quiet
<1> QED BY Zenon, <1>1, <1>2, <1>3, <1>4, <1>5, <1>6

LEMMA StartCleanupKeeps ==
    ASSUME IInv, NEW c \in Cleaners, StartCleanup(c)
    PROVE  IInv'
<1> USE ActorsAssumption DEF IInv, Actors, StartCleanup, Goto
<1>1. TypeOK'
    BY DEF TypeOK, RunSteps, CleanerSteps, CleanupSteps
<1>2. PostInv'
    BY DEF TypeOK, PostInv, SpentSteps, CleanupSteps
<1>3. ClaimInv'
    BY DEF TypeOK, ClaimInv, Armed
<1>4. MadeInv'
    BY DEF TypeOK, MadeInv, Armed, Unarmed
<1>5. CleanupInv'
    BY DEF TypeOK, CleanupInv, Armed, Unarmed, Sealed
<1>6. CancelInv'
    BY DEF TypeOK, CancelInv, Armed, Unarmed, Quiet
<1> QED BY Zenon, <1>1, <1>2, <1>3, <1>4, <1>5, <1>6

LEMMA StopRunKeeps ==
    ASSUME IInv, NEW c \in Cleaners, StopRun(c)
    PROVE  IInv'
<1> USE ActorsAssumption DEF IInv, Actors, StopRun, Goto
<1>1. TypeOK'
    BY Zenon DEF TypeOK, RunSteps, CleanerSteps, CleanupSteps
<1>2. PostInv'
    BY Zenon DEF TypeOK, PostInv, SpentSteps, CleanupSteps
<1>3. ClaimInv'
    BY Zenon DEF TypeOK, ClaimInv, Armed
<1>4. MadeInv'
    BY Zenon DEF TypeOK, MadeInv, Armed, Unarmed
<1>5. CleanupInv'
    BY Zenon DEF TypeOK, CleanupInv, Armed, Unarmed, Sealed
<1>6. CancelInv'
    BY Zenon DEF TypeOK, CancelInv, Armed, Unarmed, Quiet
<1> QED BY Zenon, <1>1, <1>2, <1>3, <1>4, <1>5, <1>6

LEMMA ListResourcesKeeps ==
    ASSUME IInv, NEW c \in Cleaners, ListResources(c)
    PROVE  IInv'
<1> USE ActorsAssumption DEF IInv, Actors, ListResources, Goto, Absent
<1>1. TypeOK'
    BY DEF TypeOK, RunSteps, CleanerSteps, CleanupSteps
<1>2. PostInv'
    BY SMTT(30) DEF TypeOK, PostInv, SpentSteps, CleanupSteps
<1>3. ClaimInv'
    BY SMTT(30) DEF TypeOK, ClaimInv, Armed
<1>4. MadeInv'
    BY SMTT(30) DEF TypeOK, MadeInv, Armed, Unarmed
<1>5. CleanupInv'
    BY SMTT(30) DEF TypeOK, CleanupInv, Armed, Unarmed, Sealed
<1>6. CancelInv'
    BY DEF TypeOK, ClaimInv, CancelInv, Armed, Unarmed, Quiet, Queued, Creating
<1> QED BY Zenon, <1>1, <1>2, <1>3, <1>4, <1>5, <1>6

LEMMA SeeAbsentKeeps ==
    ASSUME IInv, NEW c \in Cleaners, SeeAbsent(c)
    PROVE  IInv'
<1> USE ActorsAssumption DEF IInv, Actors, SeeAbsent, Goto, GiveUp, StartOf, Absent
<1>1. TypeOK'
    BY SMTT(30) DEF TypeOK, RunSteps, CleanerSteps, CleanupSteps
<1>2. PostInv'
    BY SMTT(30) DEF TypeOK, PostInv, SpentSteps, CleanupSteps
<1>3. ClaimInv'
    BY SMTT(30) DEF TypeOK, ClaimInv, Armed
<1>4. MadeInv'
    BY SMTT(30) DEF TypeOK, MadeInv, Armed, Unarmed
<1>5. CleanupInv'
    BY SMTT(30) DEF TypeOK, CleanupInv, Armed, Unarmed, Sealed
<1>6. CancelInv'
    BY DEF TypeOK, CleanupInv, CancelInv, Armed, Unarmed, Sealed, Quiet
<1> QED BY ZenonT(30), <1>1, <1>2, <1>3, <1>4, <1>5, <1>6

LEMMA DeletionEndsKeeps ==
    ASSUME IInv, DeletionEnds
    PROVE  IInv'
<1> USE ActorsAssumption DEF IInv, Actors, DeletionEnds, memory
<1>1. TypeOK'
    BY Zenon DEF TypeOK, RunSteps, CleanerSteps, CleanupSteps
<1>2. PostInv'
    BY Zenon DEF TypeOK, PostInv, SpentSteps, CleanupSteps
<1>3. ClaimInv'
    BY Zenon DEF TypeOK, ClaimInv, Armed
<1>4. MadeInv'
    BY Zenon DEF TypeOK, MadeInv, Armed, Unarmed
<1>5. CleanupInv'
    BY Zenon DEF TypeOK, CleanupInv, Armed, Unarmed, Sealed
<1>6. CancelInv'
    BY Zenon DEF TypeOK, CancelInv, Armed, Unarmed, Quiet
<1> QED BY Zenon, <1>1, <1>2, <1>3, <1>4, <1>5, <1>6

LEMMA WindowPassesKeeps ==
    ASSUME IInv, WindowPasses
    PROVE  IInv'
<1> USE ActorsAssumption DEF IInv, Actors, WindowPasses, memory
<1>1. TypeOK'
    BY Zenon DEF TypeOK, RunSteps, CleanerSteps, CleanupSteps
<1>2. PostInv'
    BY Zenon DEF TypeOK, PostInv, SpentSteps, CleanupSteps
<1>3. ClaimInv'
    BY Zenon DEF TypeOK, ClaimInv, Armed
<1>4. MadeInv'
    BY Zenon DEF TypeOK, MadeInv, Armed, Unarmed
<1>5. CleanupInv'
    BY Zenon DEF TypeOK, CleanupInv, Armed, Unarmed, Sealed
<1>6. CancelInv'
    BY Zenon DEF TypeOK, CancelInv, Armed, Unarmed, Quiet
<1> QED BY Zenon, <1>1, <1>2, <1>3, <1>4, <1>5, <1>6

-----------------------------------------------------------------------------
LEMMA InitHolds == Init => IInv
<1> SUFFICES ASSUME Init PROVE IInv
    BY Zenon
<1> USE DEF Init, Actors
<1>1. TypeOK
    <2>1. at \in [Actors -> RunSteps \cup CleanerSteps]
        BY Zenon DEF RunSteps
    <2>2. made \in 0 .. MaxMade
        BY BoundsAssumption
    <2>3. (\A r \in Runs : at[r] \in RunSteps) /\ (\A c \in Cleaners : at[c] \in CleanerSteps)
        BY Zenon DEF RunSteps, CleanerSteps
    <2>4. post \in [Runs -> {"none", "flight", "made", "exists", "refused", "rejected", "over"}]
        BY Zenon
    <2>5. secret \in {Absent, Queued} \cup {Creating(r) : r \in Runs}
        BY Zenon
    <2>6. runMarker \in BOOLEAN
        BY Zenon
    <2> QED BY Zenon, <2>1, <2>2, <2>3, <2>4, <2>5, <2>6 DEF TypeOK
<1>2. PostInv /\ ClaimInv /\ MadeInv
    BY DEF PostInv, ClaimInv, MadeInv, Armed
<1>3. CleanupInv /\ CancelInv
    BY Zenon DEF CleanupInv, CancelInv
<1> QED BY Zenon, <1>1, <1>2, <1>3 DEF IInv

LEMMA CleanupKeeps ==
    ASSUME IInv, NEW a \in Actors, Cleanup(a)
    PROVE  IInv'
BY Zenon, SeeJobKeeps, RetireAttemptKeeps, SeeSecretKeeps, DropSecretKeeps, DropJobKeeps DEF Cleanup

LEMMA RunStepKeeps ==
    ASSUME IInv, NEW r \in Runs, RunStep(r)
    PROVE  IInv'
<1>1. r \in Actors
    BY Zenon DEF Actors
<1>2. CASE ReadJob(r) \/ RecoverMeta(r) \/ RecoverJob(r) \/ EndWatch(r) \/ CheckRetirement(r)
    BY Zenon, <1>2, ReadJobKeeps, RecoverMetaKeeps, RecoverJobKeeps, EndWatchKeeps, CheckRetirementKeeps
<1>3. CASE AdmissionHeld(r) \/ CreateSecret(r) \/ CeilingPassed(r) \/ ClaimMeta(r) \/ ClaimCreation(r)
    BY Zenon, <1>3, AdmissionHeldKeeps, CreateSecretKeeps, CeilingPassedKeeps, ClaimMetaKeeps, ClaimCreationKeeps
<1>4. CASE CheckBeforePost(r) \/ CloudHeld(r) \/ SendPost(r) \/ PostUnanswered(r) \/ PostAnswered(r)
    BY <1>4, CheckBeforePostKeeps, CloudHeldKeeps, SendPostKeeps, PostUnansweredKeeps, PostAnsweredKeeps
<1>5. CASE CancelRun(r) \/ Abandon(r) \/ Crash(r)
    BY Zenon, <1>5, CancelRunKeeps, AbandonKeeps, CrashKeeps
<1>6. CASE Cleanup(r) \/ DropJobConflict(r)
    BY Zenon, <1>1, <1>6, CleanupKeeps, DropJobConflictKeeps
<1> QED BY Zenon, <1>2, <1>3, <1>4, <1>5, <1>6 DEF RunStep

LEMMA CleanerStepKeeps ==
    ASSUME IInv, NEW c \in Cleaners, CleanerStep(c)
    PROVE  IInv'
<1>1. c \in Actors
    BY Zenon DEF Actors
<1> QED BY Zenon, <1>1, StopRunKeeps, ListResourcesKeeps, CleanupKeeps, SeeAbsentKeeps DEF CleanerStep

LEMMA ClusterStepKeeps ==
    ASSUME IInv, ClusterStep
    PROVE  IInv'
BY Zenon, PostArrivesKeeps, PostFailsKeeps, DeletionEndsKeeps, WindowPassesKeeps DEF ClusterStep

LEMMA NextKeeps == IInv /\ [Next]_vars => IInv'
<1> SUFFICES ASSUME IInv, [Next]_vars PROVE IInv'
    BY Zenon
<1>1. CASE \E r \in Runs : Forward(r) \/ RunStep(r)
    BY Zenon, <1>1, ForwardKeeps, RunStepKeeps
<1>2. CASE \E c \in Cleaners : StartCleanup(c) \/ CleanerStep(c) \/ DropJobConflict(c)
    <2>1. Cleaners \subseteq Actors
        BY Zenon DEF Actors
    <2> QED BY Zenon, <1>2, <2>1, StartCleanupKeeps, CleanerStepKeeps, DropJobConflictKeeps
<1>3. CASE ClusterStep
    BY ZenonT(30), <1>3, ClusterStepKeeps
<1>4. CASE UNCHANGED vars
    BY <1>4
       DEF vars, IInv, TypeOK, PostInv, ClaimInv, MadeInv, CleanupInv, CancelInv, Armed, Unarmed,
           Sealed, Quiet
<1> QED BY Zenon, <1>1, <1>2, <1>3, <1>4 DEF Next

(* The argument of the header is inductive: it holds in every state.       *)
THEOREM Inductive == Spec => []IInv
<1> QED BY InitHolds, NextKeeps, PTL DEF Spec

(* Every Run and every cleanup call stays at a step of its own code, and   *)
(* the creation Secret is absent, queued or claimed by a Run (Released,    *)
(* claimCreation).                                                         *)
THEOREM CreationTypeCorrect == Spec => []TypeOK
<1>1. IInv => TypeOK
    BY Zenon DEF IInv
<1> QED BY <1>1, Inductive, PTL

(* At most one Job is ever made for an attempt, for any number of Runs and *)
(* of cleanup calls (claimCreation, and a claim that is never replayed).   *)
THEOREM StartedOnceHolds == Spec => []StartedOnce
<1>1. IInv => StartedOnce
    BY DEF IInv, MadeInv, StartedOnce
<1> QED BY <1>1, Inductive, PTL

-----------------------------------------------------------------------------
(* The refinement: the promise seen through the mapping of JobCreation.    *)

Command == IF made = 0 THEN "never" ELSE IF job # "none" THEN "standing" ELSE "over"
Acked == \E c \in Cleaners \ cancels : at[c] = "confirmed"
CancelDone == \E c \in cancels : at[c] = "confirmed"

(* A confirmation, of either kind, leaves no POST behind that is not late. *)
LEMMA ConfirmedQuiet ==
    ASSUME IInv, Acked \/ CancelDone
    PROVE  Quiet
BY Zenon DEF IInv, TypeOK, CancelInv, Acked, CancelDone

(* No step of a Run touches the Job's making, its end or a confirmation.   *)
LEMMA RunStepSilent ==
    ASSUME IInv, NEW r \in Runs, Forward(r) \/ RunStep(r)
    PROVE  /\ UNCHANGED <<made, cancels, late>>
           /\ job' # "none" <=> job # "none"
           /\ \A c \in Cleaners : at'[c] = at[c]
<1> USE ActorsAssumption DEF IInv, TypeOK
<1>1. CASE Forward(r)
    BY Zenon, <1>1 DEF Forward, Actors
<1>2. CASE RunStep(r)
    <2> USE DEF Goto, Actors
    <2>1. CASE ReadJob(r) \/ RecoverMeta(r) \/ RecoverJob(r) \/ EndWatch(r) \/ CheckRetirement(r)
        BY Zenon, <2>1 DEF ReadJob, RecoverMeta, RecoverJob, EndWatch, CheckRetirement
    <2>2. CASE AdmissionHeld(r) \/ CreateSecret(r) \/ CeilingPassed(r) \/ ClaimMeta(r) \/ ClaimCreation(r)
        BY ZenonT(30), <2>2 DEF AdmissionHeld, CreateSecret, CeilingPassed, ClaimMeta, ClaimCreation
    <2>3. CASE CheckBeforePost(r) \/ CloudHeld(r) \/ SendPost(r) \/ PostUnanswered(r) \/ PostAnswered(r)
        BY SMTT(30), <2>3 DEF CheckBeforePost, CloudHeld, SendPost, PostUnanswered, PostAnswered
    <2>4. CASE CancelRun(r) \/ Abandon(r) \/ Crash(r)
        BY SMTT(30), <2>4 DEF CancelRun, Abandon, Crash
    <2>5. CASE SeeJob(r) \/ RetireAttempt(r) \/ SeeSecret(r) \/ DropSecret(r)
        BY SMTT(30), <2>5 DEF SeeJob, RetireAttempt, SeeSecret, DropSecret, GiveUp
    <2>6. CASE DropJob(r) \/ DropJobConflict(r)
        BY <2>6 DEF DropJob, DropJobConflict, GiveUp
    <2> QED BY Zenon, <1>2, <2>1, <2>2, <2>3, <2>4, <2>5, <2>6 DEF RunStep, Cleanup
<1> QED BY Zenon, <1>1, <1>2

(* A cleanup call that is not confirmed by a step changes nothing the      *)
(* promise speaks of.                                                      *)
LEMMA CleanerSilent ==
    ASSUME IInv, NEW c \in Cleaners,
           StartCleanup(c) \/ StopRun(c) \/ Cleanup(c) \/ DropJobConflict(c)
    PROVE  /\ UNCHANGED <<made, late>>
           /\ job' # "none" <=> job # "none"
           /\ Acked' = Acked /\ CancelDone' = CancelDone
<1> USE ActorsAssumption DEF IInv, TypeOK, Goto, Actors, Acked, CancelDone, CleanerSteps
<1>1. CASE StartCleanup(c)
    BY SMTT(30), <1>1 DEF StartCleanup
<1>2. CASE StopRun(c) \/ SeeJob(c) \/ RetireAttempt(c)
    BY SMTT(30), <1>2 DEF StopRun, SeeJob, RetireAttempt
<1>3. CASE SeeSecret(c) \/ DropSecret(c)
    BY SMTT(30), <1>3 DEF SeeSecret, DropSecret, GiveUp, StartOf
<1>4. CASE DropJob(c) \/ DropJobConflict(c)
    BY <1>4 DEF DropJob, DropJobConflict, GiveUp, StartOf
<1> QED BY ZenonT(30), <1>1, <1>2, <1>3, <1>4 DEF Cleanup

(* The steps that may confirm.  An acknowledgement is confirmed where the  *)
(* Job is known to be gone.                                                *)
LEMMA CleanerConfirms ==
    ASSUME IInv, NEW c \in Cleaners, ListResources(c) \/ SeeAbsent(c)
    PROVE  [A!Next]_(A!vars)
<1> USE ActorsAssumption DEF IInv, TypeOK, Goto, Actors, Acked, CancelDone, CleanerSteps, Command
<1> DEFINE confirms == at'[c] = "confirmed"
<1>1. UNCHANGED <<made, job, cancels, late>> /\ at[c] # "confirmed"
    BY Zenon DEF ListResources, SeeAbsent
<1>2. \A d \in Cleaners \ {c} : at'[d] = at[d]
    BY Zenon DEF ListResources, SeeAbsent, GiveUp, StartOf
<1>3. CASE ~confirms
    <2>1. Acked' = Acked /\ CancelDone' = CancelDone /\ Command' = Command
        BY Zenon, <1>1, <1>2, <1>3
    <2> QED BY Zenon, <1>1, <2>1 DEF A!vars
<1>4. CASE confirms /\ c \in cancels
    <2>1. CancelDone' /\ Acked' = Acked /\ Command' = Command
        BY <1>1, <1>2, <1>4
    <2> QED BY Zenon, <1>1, <2>1 DEF A!vars, A!Next, A!ConfirmCancel
<1>5. CASE confirms /\ c \notin cancels
    <2>1. at[c] = "c_noSecret" /\ (late \/ job = "none")
        BY Zenon, <1>5 DEF ListResources, SeeAbsent, GiveUp, StartOf, CancelInv, CleanupInv
    <2>2. Acked' /\ CancelDone' = CancelDone /\ Command' = Command /\ (late \/ Command # "standing")
        BY Zenon, <1>1, <1>2, <1>5, <2>1
    <2> QED BY Zenon, <1>1, <2>2 DEF A!vars, A!Next, A!ConfirmAck
<1> QED BY Zenon, <1>3, <1>4, <1>5

(* A Job is made only where none was and nothing is confirmed, or late;    *)
(* deleting it is what ends the command; and the window passes late only   *)
(* over an attempt not started and not confirmed.                          *)
LEMMA ClusterStepPromised ==
    ASSUME IInv, ClusterStep
    PROVE  [A!Next]_(A!vars)
<1> USE DEF Acked, CancelDone, Command
<1>1. UNCHANGED <<at, cancels>>
    BY Zenon DEF ClusterStep, PostArrives, PostFails, DeletionEnds, WindowPasses
<1>2. CASE UNCHANGED <<job, made, late>>
    BY Zenon, <1>1, <1>2 DEF A!vars
<1>3. ASSUME NEW r \in Runs, Armed(r)
      PROVE  made = 0 /\ (late \/ (~Acked /\ ~CancelDone))
    <2>1. made = 0
        BY Zenon, <1>3 DEF IInv, MadeInv, Unarmed
    <2>2. late \/ (~Acked /\ ~CancelDone)
        BY Zenon, <1>3, ConfirmedQuiet DEF Quiet, Unarmed
    <2> QED BY Zenon, <2>1, <2>2
<1>4. ASSUME NEW r \in Runs, PostArrives(r), job' # job
      PROVE  [A!Next]_(A!vars)
    <2>1. Armed(r) /\ job = "none" /\ job' = "up" /\ made' = made + 1 /\ late' = late
        BY <1>4 DEF PostArrives, Armed
    <2>2. made = 0 /\ made' = 1 /\ (late \/ (~Acked /\ ~CancelDone))
        BY <1>3, <2>1
    <2> QED BY <1>1, <2>1, <2>2 DEF A!Next, A!Start
<1>5. CASE DeletionEnds
    <2>1. made = 1 /\ made' = 1 /\ job # "none" /\ job' = "none" /\ late' = late
        BY Zenon, <1>5 DEF DeletionEnds, IInv, MadeInv
    <2> QED BY <1>1, <2>1 DEF A!Next, A!Remove
<1>6. CASE WindowPasses
    <2>1. late = FALSE /\ late' \in BOOLEAN /\ UNCHANGED <<job, made>>
        BY Zenon, <1>6 DEF WindowPasses, IInv, TypeOK, CleanupInv
    <2>2. CASE late' = FALSE
        BY Zenon, <1>2, <2>1, <2>2
    <2>3. CASE late' = TRUE
        <3>1. PICK r \in Runs : Armed(r)
            BY Zenon, <1>6, <2>3 DEF WindowPasses, Armed
        <3>2. made = 0 /\ ~Acked /\ ~CancelDone
            BY Zenon, <1>3, <2>1, <3>1
        <3> QED BY Zenon, <1>1, <2>1, <2>3, <3>2 DEF A!Next, A!Overtake
    <2> QED BY Zenon, <2>1, <2>2, <2>3
<1>7. CASE \E r \in Runs : PostFails(r)
    BY Zenon, <1>2, <1>7 DEF PostFails
<1>8. CASE \E r \in Runs : PostArrives(r)
    BY Zenon, <1>2, <1>4, <1>8 DEF PostArrives
<1> QED BY Zenon, <1>5, <1>6, <1>7, <1>8 DEF ClusterStep

(* JobCreation implements Attempt: seen by its driver, an attempt is       *)
(* started at most once; unless a POST outlived the late-POST window, it   *)
(* is never started after a confirmed acknowledgement or cancel, and an    *)
(* acknowledgement is confirmed only with no Job standing (cleanupReceipt, *)
(* latePostPossible).                                                      *)
THEOREM Refinement == Spec => ImplementsAttempt
<1>1. Init => A!Init
    BY Zenon DEF Init, A!Init, Actors
<1>2. IInv /\ [Next]_vars => [A!Next]_(A!vars)
    <2> SUFFICES ASSUME IInv, [Next]_vars PROVE [A!Next]_(A!vars)
        BY Zenon
    <2>1. ASSUME NEW r \in Runs, Forward(r) \/ RunStep(r) PROVE [A!Next]_(A!vars)
        BY Zenon, <2>1, RunStepSilent DEF A!vars, IInv, TypeOK
    <2>2. ASSUME NEW c \in Cleaners, StartCleanup(c) \/ StopRun(c) \/ Cleanup(c) \/ DropJobConflict(c)
          PROVE  [A!Next]_(A!vars)
        BY Zenon, <2>2, CleanerSilent DEF A!vars, Acked, CancelDone
    <2>3. ASSUME NEW c \in Cleaners, ListResources(c) \/ SeeAbsent(c) PROVE [A!Next]_(A!vars)
        BY Zenon, <2>3, CleanerConfirms
    <2>4. CASE ClusterStep
        BY Zenon, <2>4, ClusterStepPromised
    <2>5. CASE UNCHANGED vars
        BY Zenon, <2>5 DEF vars, A!vars
    <2> QED BY Zenon, <2>1, <2>2, <2>3, <2>4, <2>5 DEF Next, CleanerStep
<1> QED BY <1>1, <1>2, Inductive, PTL DEF Spec, ImplementsAttempt, A!Spec
=============================================================================
