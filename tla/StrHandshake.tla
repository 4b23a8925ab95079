---------------------------- MODULE StrHandshake ----------------------------
(***************************************************************************)
(* Suspend-to-RAM (STR) of the VideoHAL server: the PFM thread that        *)
(* delivers the power manager's str_state callback, the VideoHAL main      *)
(* thread that runs the event loop, the threads that post events to it,    *)
(* and the SysDB value in which the VM reports its own suspend progress.   *)
(*                                                                         *)
(* The two threads meet in CVhalStrManager: four sticky flags, each with   *)
(* its condition variable.  A wait does not reset its flag; only           *)
(* SetStrMode(false) does.  A blocked wait is an action that is disabled   *)
(* while its flag is FALSE, so a notification that is erased before the    *)
(* sleeper looks again is lost here exactly as it is in the code.          *)
(***************************************************************************)
EXTENDS Naturals, Sequences

CONSTANTS
  Workers,      \* other threads that post events (timers, capture, MICON, HDCP)
  Displays,     \* displays present: front, rear, instrument cluster, HUD
  Surfaces,     \* displays whose mute surface the layout file defines
  KeepMuted,    \* displays a resume leaves muted (front and HUD)
  SlowSteps,    \* main-thread steps that may outlast the 18 s resume wait
  MaxCycles,    \* bound: STR cycles the system starts
  MaxQueue,     \* bound: capacity of the event socket pair, in events
  MaxPending    \* bound: SysDB change notifications not yet delivered

ASSUME StrAssumption ==
  /\ Surfaces \subseteq Displays
  /\ KeepMuted \subseteq Displays
  /\ "sysdb" \notin Workers /\ "pfm" \notin Workers
  /\ MaxCycles \in Nat /\ MaxQueue \in Nat \ {0} /\ MaxPending \in Nat

WaitState == {"SuspendApps", "SuspendVhal", "ResumeSystem", "ResumeVhal"}
VmStatus  == {"UNPROCESSED", "PROCESSING", "SUCCESS", "FAILURE"}
Writers   == Workers \cup {"sysdb"}      \* threads that call WriteEvent
PfmStep   == {"idle", "waitApps", "postStr", "waitVhal", "abort",
              "notifySystem", "waitResume", "endResume"}
MainStep  == {"loop", "setSuspend", "strSuspend", "notifySuspended", "drop1",
              "waitSystem", "drop2", "clearSuspend", "strResume", "notifyResumed"}

ASSUME SlowAssumption == SlowSteps \subseteq MainStep

VARIABLES
  pfm,          \* where the PFM thread is in vhal_pfm_str_state
  main,         \* where the main thread is: event loop or StrStateEvent
  strMode,      \* str_mode_
  suspend,      \* suspend_
  flag,         \* flag_: one sticky notification per wait state
  vmstrValue,   \* vmstr_value_: VHAL_SUCCESS or VHAL_ERR, from the VM's report
  queue,        \* events in the socket pair
  writer,       \* has a writer passed WriteEvent's suspend check, and in which epoch
  epoch,        \* history: suspends the main thread has begun
  micon,        \* initialized_resume_: communication with the MICON is up
  video,        \* a movie, a camera or an HDMI source produces frames
  blinder,      \* displays covered by their mute surface
  service,      \* service state last written to SysDB (a failed write is only logged)
  vmStr,        \* SysDB: VM STR transition status
  dbPending,    \* SysDB change notifications not yet delivered
  cycle,        \* the system's STR cycle: none, started, delivered to VideoHAL
  cycles        \* STR cycles started so far

strVars  == <<strMode, flag, vmstrValue>>
loopVars == <<queue, suspend, epoch>>
devVars  == <<micon, video, blinder, service>>
envVars  == <<vmStr, dbPending, cycle, cycles>>
vars == <<pfm, main, strVars, loopVars, writer, devVars, envVars>>

\* What WriteEvent sends through the socket pair.  born is the epoch in which
\* the writer passed the suspend check.
Event == [kind : {"STR", "SYSDB", "WORK"}, by : Writers \cup {"pfm"}, born : Nat]

\* A writer is idle, or between WriteEvent's check and its write.
Idle == [busy |-> FALSE, born |-> 0]

TypeOK ==
  /\ pfm \in PfmStep /\ main \in MainStep
  /\ strMode \in BOOLEAN /\ suspend \in BOOLEAN
  /\ flag \in [WaitState -> BOOLEAN]
  /\ vmstrValue \in {"SUCCESS", "ERR"}
  /\ queue \in Seq(Event)
  /\ writer \in [Writers -> [busy : BOOLEAN, born : Nat]]
  /\ epoch \in Nat
  /\ micon \in BOOLEAN /\ video \in BOOLEAN
  /\ blinder \in SUBSET Displays
  /\ service \in {"RUNNING", "SUSPEND"}
  /\ vmStr \in VmStatus /\ dbPending \in Nat
  /\ cycle \in {"none", "started", "delivered"} /\ cycles \in Nat

Init ==
  /\ pfm = "idle" /\ main = "loop"
  /\ strMode = FALSE /\ suspend = FALSE
  /\ flag = [s \in WaitState |-> FALSE]
  /\ vmstrValue = "SUCCESS"
  /\ queue = <<>>
  /\ writer = [w \in Writers |-> Idle]
  /\ epoch = 0
  /\ micon \in BOOLEAN /\ video = FALSE
  /\ blinder = Surfaces
  /\ service = "RUNNING"
  /\ vmStr = "UNPROCESSED" /\ dbPending = 0
  /\ cycle = "none" /\ cycles = 0

-----------------------------------------------------------------------------
(* CVhalStrManager                                                         *)

NotifyOne(s) == flag' = [flag EXCEPT ![s] = TRUE]

\* SetStrMode(false) erases every notification; SetStrMode(true) erases none.
\* Its lock sections are one step: the flags are independent and strMode is
\* read by the PFM thread alone.
SetStrMode(on) ==
  /\ strMode' = on
  /\ flag' = IF on THEN flag ELSE [s \in WaitState |-> FALSE]

-----------------------------------------------------------------------------
(* The PFM thread: vhal_pfm_str_state, StrStatePfmSuspend, StrStatePfmResume *)

\* SUSPEND_START is acted on only outside STR mode.
PfmSuspendStart ==
  /\ pfm = "idle" /\ cycle = "started"
  /\ ~strMode
  /\ SetStrMode(TRUE)
  /\ pfm' = "waitApps"
  /\ cycle' = "delivered"
  /\ UNCHANGED <<main, vmstrValue, loopVars, writer, devVars, vmStr, dbPending, cycles>>

\* Wait(SuspendApps) returns the VM's verdict.
PfmAppsAnswered ==
  /\ pfm = "waitApps"
  /\ flag["SuspendApps"]
  /\ pfm' = IF vmstrValue = "SUCCESS" THEN "postStr" ELSE "abort"
  /\ UNCHANGED <<main, strVars, loopVars, writer, devVars, envVars>>

\* The STR event goes to the main thread through the socket pair.
PfmPostStr ==
  /\ pfm = "postStr"
  /\ ~suspend /\ Len(queue) < MaxQueue
  /\ queue' = Append(queue, [kind |-> "STR", by |-> "pfm", born |-> epoch])
  /\ pfm' = "waitVhal"
  /\ UNCHANGED <<main, strVars, suspend, epoch, writer, devVars, envVars>>

\* WriteEvent fails: the socket gave up, or VideoHAL is suspended.
PfmPostFails ==
  /\ pfm = "postStr"
  /\ pfm' = "abort"
  /\ UNCHANGED <<main, strVars, loopVars, writer, devVars, envVars>>

PfmVhalSuspended ==
  /\ pfm = "waitVhal"
  /\ flag["SuspendVhal"]
  /\ pfm' = "idle"
  /\ UNCHANGED <<main, strVars, loopVars, writer, devVars, envVars>>

\* A suspend that fails leaves STR mode; the system gives the cycle up.
PfmAbort ==
  /\ pfm = "abort"
  /\ SetStrMode(FALSE)
  /\ pfm' = "idle"
  /\ cycle' = "none"
  /\ UNCHANGED <<main, vmstrValue, loopVars, writer, devVars, vmStr, dbPending, cycles>>

\* RESUME_START is acted on only in STR mode.
PfmResumeStart ==
  /\ pfm = "idle" /\ cycle = "delivered"
  /\ strMode
  /\ pfm' = "notifySystem"
  /\ UNCHANGED <<main, strVars, loopVars, writer, devVars, envVars>>

\* Seeded fault: ResumeVhal notified in place of ResumeSystem.
PfmNotifySystem_WrongState ==
  /\ pfm = "notifySystem"
  /\ NotifyOne("ResumeVhal")
  /\ pfm' = "waitResume"
  /\ UNCHANGED <<main, strMode, vmstrValue, loopVars, writer, devVars, envVars>>

PfmNotifySystem ==
  /\ pfm = "notifySystem"
  /\ NotifyOne("ResumeSystem")
  /\ pfm' = "waitResume"
  /\ UNCHANGED <<main, strMode, vmstrValue, loopVars, writer, devVars, envVars>>

PfmResumed ==
  /\ pfm = "waitResume"
  /\ flag["ResumeVhal"]
  /\ pfm' = "endResume"
  /\ UNCHANGED <<main, strVars, loopVars, writer, devVars, envVars>>

\* Wait(ResumeVhal) gives up after kStrTimeout; the result is only logged.
PfmResumeTimeout ==
  /\ pfm = "waitResume"
  /\ ~flag["ResumeVhal"]
  /\ main \in SlowSteps
  /\ pfm' = "endResume"
  /\ UNCHANGED <<main, strVars, loopVars, writer, devVars, envVars>>

PfmEndResume ==
  /\ pfm = "endResume"
  /\ SetStrMode(FALSE)
  /\ pfm' = "idle"
  /\ cycle' = "none"
  /\ UNCHANGED <<main, vmstrValue, loopVars, writer, devVars, vmStr, dbPending, cycles>>

-----------------------------------------------------------------------------
(* The threads that post events: CVhalEventRoute::WriteEvent               *)

\* WriteEvent's suspend check passes.  The SysDB callback thread makes the
\* same check once more before it calls WriteEvent.
WriterCheck(w) ==
  /\ ~writer[w].busy
  /\ ~suspend
  /\ w = "sysdb" => dbPending > 0
  /\ dbPending' = IF w = "sysdb" THEN dbPending - 1 ELSE dbPending
  /\ writer' = [writer EXCEPT ![w] = [busy |-> TRUE, born |-> epoch]]
  /\ UNCHANGED <<pfm, main, strVars, loopVars, devVars, vmStr, cycle, cycles>>

\* The write itself comes later, whatever suspend_ is by then; it blocks
\* while the socket pair is full.
WriterWrite(w) ==
  /\ writer[w].busy
  /\ Len(queue) < MaxQueue
  /\ queue' = Append(queue, [kind |-> IF w = "sysdb" THEN "SYSDB" ELSE "WORK",
                             by |-> w, born |-> writer[w].born])
  /\ writer' = [writer EXCEPT ![w] = Idle]
  /\ UNCHANGED <<pfm, main, strVars, suspend, epoch, devVars, envVars>>

\* A SysDB notification delivered while suspended is discarded.
SysdbDiscard ==
  /\ ~writer["sysdb"].busy
  /\ suspend
  /\ dbPending > 0
  /\ dbPending' = dbPending - 1
  /\ UNCHANGED <<pfm, main, strVars, loopVars, writer, devVars, vmStr, cycle, cycles>>

-----------------------------------------------------------------------------
(* The main thread: CVhalEventRoute::ExecEvent in the event loop and in    *)
(* DropEvents.  While suspended the item is deleted unexecuted.            *)

\* CVhalSysdbControl::ActionVmStrChange reads the value SysDB holds now, not
\* the one the notification was sent for.
ActionVmStrChange ==
  IF vmStr \in {"SUCCESS", "FAILURE"}
  THEN /\ vmstrValue' = IF vmStr = "SUCCESS" THEN "SUCCESS" ELSE "ERR"
       /\ NotifyOne("SuspendApps")
  ELSE UNCHANGED <<vmstrValue, flag>>

\* Any other event: a client request, a timer, a device.  Its handler may
\* start or stop sources and cover or uncover displays.
ExecWork ==
  /\ video' \in BOOLEAN
  /\ blinder' \in SUBSET Surfaces

ExecEvent ==
  /\ main \in {"loop", "drop1", "drop2"}
  /\ queue # <<>>
  /\ queue' = Tail(queue)
  /\ \/ suspend /\ UNCHANGED <<main, vmstrValue, flag, video, blinder>>
     \/ /\ ~suspend /\ Head(queue).kind = "STR"
        /\ main' = "setSuspend"
        /\ UNCHANGED <<vmstrValue, flag, video, blinder>>
     \/ /\ ~suspend /\ Head(queue).kind = "SYSDB"
        /\ ActionVmStrChange
        /\ UNCHANGED <<main, video, blinder>>
     \/ /\ ~suspend /\ Head(queue).kind = "WORK"
        /\ ExecWork
        /\ UNCHANGED <<main, vmstrValue, flag>>
  /\ UNCHANGED <<pfm, strMode, suspend, epoch, writer, micon, service, envVars>>

-----------------------------------------------------------------------------
(* The main thread in CVhalPropertyControl::StrStateEvent, step by step    *)

\* Seeded fault: SuspendVhal notified before StrSuspend.
SetSuspend_NotifiesFirst ==
  /\ main = "setSuspend"
  /\ suspend' = TRUE
  /\ epoch' = epoch + 1
  /\ NotifyOne("SuspendVhal")
  /\ main' = "strSuspend"
  /\ UNCHANGED <<pfm, strMode, vmstrValue, queue, writer, devVars, envVars>>

SetSuspend ==
  /\ main = "setSuspend"
  /\ suspend' = TRUE
  /\ epoch' = epoch + 1
  /\ main' = "strSuspend"
  /\ UNCHANGED <<pfm, strVars, queue, writer, devVars, envVars>>

\* Stop the movie, the screen shot and the MICON (with its interval timers),
\* cover every display, clear the video paths, close QCarCam, register SUSPEND.
\* The code logs a call that fails and goes on; here every call succeeds.
StrSuspend ==
  /\ main = "strSuspend"
  /\ micon' = FALSE /\ video' = FALSE
  /\ blinder' = blinder \cup Surfaces
  /\ service' = "SUSPEND"
  /\ main' = "notifySuspended"
  /\ UNCHANGED <<pfm, strVars, loopVars, writer, envVars>>

NotifySuspended ==
  /\ main = "notifySuspended"
  /\ NotifyOne("SuspendVhal")
  /\ main' = "drop1"
  /\ UNCHANGED <<pfm, strMode, vmstrValue, loopVars, writer, devVars, envVars>>

\* Seeded fault: DropEvents takes one batch and does not poll again.
DropEventsDone_OneBatch ==
  /\ main \in {"drop1", "drop2"}
  /\ main' = IF main = "drop1" THEN "waitSystem" ELSE "clearSuspend"
  /\ UNCHANGED <<pfm, strVars, loopVars, writer, devVars, envVars>>

\* DropEvents returns once epoll_wait reports no event.
DropEventsDone ==
  /\ main \in {"drop1", "drop2"}
  /\ queue = <<>>
  /\ main' = IF main = "drop1" THEN "waitSystem" ELSE "clearSuspend"
  /\ UNCHANGED <<pfm, strVars, loopVars, writer, devVars, envVars>>

\* Seeded fault: a wait without its predicate returns on a spurious wake-up.
WaitResumeSystem_Spurious ==
  /\ main = "waitSystem"
  /\ main' = "drop2"
  /\ UNCHANGED <<pfm, strVars, loopVars, writer, devVars, envVars>>

WaitResumeSystem ==
  /\ main = "waitSystem"
  /\ flag["ResumeSystem"]
  /\ main' = "drop2"
  /\ UNCHANGED <<pfm, strVars, loopVars, writer, devVars, envVars>>

\* Seeded fault: ResumeVhal notified before StrResume.
ClearSuspend_NotifiesFirst ==
  /\ main = "clearSuspend"
  /\ suspend' = FALSE
  /\ NotifyOne("ResumeVhal")
  /\ main' = "strResume"
  /\ UNCHANGED <<pfm, strMode, vmstrValue, queue, epoch, writer, devVars, envVars>>

ClearSuspend ==
  /\ main = "clearSuspend"
  /\ suspend' = FALSE
  /\ main' = "strResume"
  /\ UNCHANGED <<pfm, strVars, queue, epoch, writer, devVars, envVars>>

\* Reopen the MICON (which may fail and is then left closed), uncover the
\* rear and cluster displays, register RUNNING.  StrResume ends early where the
\* camera mode cannot be sent to the reopened MICON, or a display has no mute
\* surface or cannot be uncovered: the displays not yet handled stay covered
\* and RUNNING is not registered.  Its result is only logged.
StrResume ==
  /\ main = "strResume"
  /\ micon' \in BOOLEAN
  /\ \/ /\ Displays \ KeepMuted \subseteq Surfaces
        /\ blinder' = blinder \cap KeepMuted
        /\ service' = "RUNNING"
     \/ /\ \E done \in SUBSET (Surfaces \ KeepMuted) : blinder' = blinder \ done
        /\ UNCHANGED service
  /\ main' = "notifyResumed"
  /\ UNCHANGED <<pfm, strVars, loopVars, writer, video, envVars>>

NotifyResumed ==
  /\ main = "notifyResumed"
  /\ NotifyOne("ResumeVhal")
  /\ main' = "loop"
  /\ UNCHANGED <<pfm, strMode, vmstrValue, loopVars, writer, devVars, envVars>>

-----------------------------------------------------------------------------
(* The system around VideoHAL.  It runs one STR cycle at a time; the VM    *)
(* reports PROCESSING and then its result once per cycle, and goes back    *)
(* to UNPROCESSED between cycles.                                          *)

SystemStartsCycle ==
  /\ cycle = "none" /\ vmStr = "UNPROCESSED"
  /\ cycles < MaxCycles
  /\ cycle' = "started" /\ cycles' = cycles + 1
  /\ UNCHANGED <<pfm, main, strVars, loopVars, writer, devVars, vmStr, dbPending>>

VmReports(v) ==
  /\ \/ v = "PROCESSING" /\ vmStr = "UNPROCESSED" /\ cycle # "none"
     \/ v \in {"SUCCESS", "FAILURE"} /\ vmStr = "PROCESSING" /\ cycle # "none"
     \/ v = "UNPROCESSED" /\ vmStr # "UNPROCESSED" /\ cycle = "none"
  /\ dbPending < MaxPending
  /\ vmStr' = v
  /\ dbPending' = dbPending + 1
  /\ UNCHANGED <<pfm, main, strVars, loopVars, writer, devVars, cycle, cycles>>

-----------------------------------------------------------------------------

PfmNext ==
  \/ PfmSuspendStart \/ PfmAppsAnswered \/ PfmPostStr \/ PfmPostFails
  \/ PfmVhalSuspended \/ PfmAbort
  \/ PfmResumeStart \/ PfmNotifySystem \/ PfmResumed \/ PfmResumeTimeout
  \/ PfmEndResume

MainNext ==
  \/ ExecEvent \/ SetSuspend \/ StrSuspend \/ NotifySuspended
  \/ DropEventsDone \/ WaitResumeSystem \/ ClearSuspend \/ StrResume
  \/ NotifyResumed

EnvNext == SystemStartsCycle \/ SysdbDiscard \/ \E v \in VmStatus : VmReports(v)

Next ==
  \/ PfmNext
  \/ MainNext
  \/ \E w \in Writers : WriterCheck(w) \/ WriterWrite(w)
  \/ EnvNext

Spec == Init /\ [][Next]_vars

\* Both threads run whenever they can, and a thread that passed WriteEvent's
\* check completes its write.  Nothing is assumed of the system around them.
FairSpec ==
  /\ Spec
  /\ WF_vars(PfmPostStr \/ PfmPostFails \/ PfmAppsAnswered \/ PfmVhalSuspended
             \/ PfmAbort \/ PfmNotifySystem \/ PfmResumed \/ PfmEndResume)
  /\ WF_vars(MainNext)
  /\ \A w \in Writers : WF_vars(WriterWrite(w))
=============================================================================
