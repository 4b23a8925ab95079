----------------------------- MODULE StrContract -----------------------------
(***************************************************************************)
(* What VideoHAL promises the power manager about Suspend-to-RAM, with no  *)
(* thread, flag or queue in it.                                            *)
(*                                                                         *)
(* phase is what the power manager sees through the str_state callback;    *)
(* active says whether VideoHAL still acts on events; quiet says that the  *)
(* MICON is closed, no video source runs and every display is covered.     *)
(* The suspend callback may report success only after VideoHAL has become  *)
(* inactive and quiet, and the resume callback may return only after       *)
(* VideoHAL acts on events again.                                          *)
(***************************************************************************)

VARIABLES phase, active, quiet

cvars == <<phase, active, quiet>>

Init == phase = "Running" /\ active = TRUE /\ quiet \in BOOLEAN

\* While it acts on events VideoHAL may start and stop devices at will.
Work == active /\ quiet' \in BOOLEAN /\ UNCHANGED <<phase, active>>

BeginSuspend ==
  phase = "Running" /\ phase' = "Suspending" /\ UNCHANGED <<active, quiet>>

\* A suspend can be given up only while VideoHAL is still active.
AbortSuspend ==
  phase = "Suspending" /\ active /\ phase' = "Running" /\ UNCHANGED <<active, quiet>>

Deactivate ==
  phase = "Suspending" /\ active /\ active' = FALSE /\ UNCHANGED <<phase, quiet>>

Quiesce ==
  phase = "Suspending" /\ ~active /\ quiet' = TRUE /\ UNCHANGED <<phase, active>>

SuspendDone ==
  phase = "Suspending" /\ ~active /\ quiet /\ phase' = "Suspended" /\ UNCHANGED <<active, quiet>>

BeginResume ==
  phase = "Suspended" /\ phase' = "Resuming" /\ UNCHANGED <<active, quiet>>

Activate ==
  phase = "Resuming" /\ ~active /\ active' = TRUE /\ UNCHANGED <<phase, quiet>>

ResumeDone ==
  phase = "Resuming" /\ active /\ phase' = "Running" /\ UNCHANGED <<active, quiet>>

Next ==
  \/ Work \/ BeginSuspend \/ AbortSuspend \/ Deactivate \/ Quiesce
  \/ SuspendDone \/ BeginResume \/ Activate \/ ResumeDone

Spec == Init /\ [][Next]_cvars
=============================================================================
