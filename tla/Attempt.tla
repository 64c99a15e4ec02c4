------------------------------ MODULE Attempt -------------------------------
(***************************************************************************)
(* What the workbench does with one attempt of a pipeline step, seen from  *)
(* the driver: its command is started at most once; nothing is started     *)
(* once an acknowledgement or a cancel was confirmed; and a confirmed      *)
(* acknowledgement found nothing of the attempt left.  The last two are    *)
(* off once the attempt is overtaken: its stop has been waited out while   *)
(* the call that starts it was still out.                                  *)
(***************************************************************************)
VARIABLES
    command,   \* "never" started, "standing" as a Job, or "over"
    acked,     \* whether an acknowledgement was confirmed
    cancelled, \* whether a cancel of the pipeline run was confirmed
    overtaken  \* whether the call that starts it outlived the wait for it

vars == <<command, acked, cancelled, overtaken>>

Init == command = "never" /\ acked = FALSE /\ cancelled = FALSE /\ overtaken = FALSE

Start ==
    /\ command = "never" /\ ((~acked /\ ~cancelled) \/ overtaken)
    /\ command' = "standing" /\ UNCHANGED <<acked, cancelled, overtaken>>

Remove ==
    /\ command = "standing"
    /\ command' = "over" /\ UNCHANGED <<acked, cancelled, overtaken>>

ConfirmAck ==
    /\ (command # "standing" \/ overtaken) /\ ~acked
    /\ acked' = TRUE /\ UNCHANGED <<command, cancelled, overtaken>>

ConfirmCancel ==
    /\ ~cancelled
    /\ cancelled' = TRUE /\ UNCHANGED <<command, acked, overtaken>>

Overtake ==
    /\ command = "never" /\ ~acked /\ ~cancelled
    /\ overtaken' = TRUE /\ UNCHANGED <<command, acked, cancelled>>

Next == Start \/ Remove \/ ConfirmAck \/ ConfirmCancel \/ Overtake

Spec == Init /\ [][Next]_vars
=============================================================================
