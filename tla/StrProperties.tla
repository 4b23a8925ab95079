--------------------------- MODULE StrProperties ---------------------------
(***************************************************************************)
(* What Suspend-to-RAM must guarantee, and how StrHandshake implements     *)
(* StrContract.                                                            *)
(***************************************************************************)
EXTENDS StrHandshake

(* When the suspend callback has returned success and no resume has been   *)
(* asked for, the MICON is closed, nothing produces frames, every display  *)
(* that can be covered is, SUSPEND is registered, and events are refused:  *)
(* StrStatePfmSuspend must not return before StrSuspend has finished.      *)
Suspended == pfm = "idle" /\ strMode

SuspendedIsQuiet ==
  Suspended => /\ suspend /\ ~micon /\ ~video
               /\ Surfaces \subseteq blinder
               /\ service = "SUSPEND"

(* An event whose writer passed the suspend check before a suspend can be  *)
(* handled after the resume only if its writer was held between the check  *)
(* and the write while DropEvents ran: each thread leaks at most one such  *)
(* event, queued or still to be written.                                   *)
Stale(i) == queue[i].born < epoch

Flushed == main \notin {"strSuspend", "notifySuspended", "drop1"}

LeakAtMostOnePerWriter ==
  Flushed =>
    \A i \in DOMAIN queue : Stale(i) =>
      /\ queue[i].by \in Writers
      /\ \A j \in DOMAIN queue :
           Stale(j) /\ queue[j].by = queue[i].by => i = j
      /\ ~(writer[queue[i].by].busy /\ writer[queue[i].by].born < epoch)

(* "PFM suspend start .. VHAL resume complete: true" (vhal_str_mng.h:76):  *)
(* STR mode holds from the suspend request until StrStateEvent has         *)
(* finished.                                                               *)
StrModeUntilResumed == main # "loop" => strMode

(* A resume the power manager asks for brings the main thread back to the  *)
(* event loop ("the main thread has to get it done, so no recovery is      *)
(* needed", vhal_property_control.cpp:8266).                               *)
ResumeCompletes == pfm = "notifySystem" ~> main = "loop"

-----------------------------------------------------------------------------
(* The refinement mapping: the callback's phase, from the PFM thread.      *)
phaseBar ==
  CASE ~strMode -> "Running"
    [] strMode /\ pfm = "idle" -> "Suspended"
    [] strMode /\ pfm \in {"waitApps", "postStr", "waitVhal", "abort"} -> "Suspending"
    [] strMode /\ pfm \in {"notifySystem", "waitResume", "endResume"} -> "Resuming"

quietBar == ~micon /\ ~video /\ Surfaces \subseteq blinder

Contract == INSTANCE StrContract
  WITH phase <- phaseBar, active <- ~suspend, quiet <- quietBar

(* The handshake keeps every promise of StrContract.                       *)
ImplementsContract == Contract!Spec
=============================================================================
