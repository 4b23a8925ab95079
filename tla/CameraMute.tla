----------------------------- MODULE CameraMute -----------------------------
(***************************************************************************)
(* The black surface (blinder) that covers the camera picture: CVhalMute   *)
(* and the handlers of the main thread that drive it.                      *)
(*                                                                         *)
(* A path switch covers the camera, starts a one-shot timer (239 ms        *)
(* towards the camera, 50 ms away from it) and is answered to the client   *)
(* when the timer's callback has uncovered it.  The callback runs on the   *)
(* timer library's thread.  Only camera_changed_notify_ has a mutex: the   *)
(* mute flags are plain bool members that both threads read and write, so  *)
(* every read and every write of one is a step of its own here.            *)
(*                                                                         *)
(* A thread is the sequence of steps it still has to take; a handler is    *)
(* the sequence it starts with.                                            *)
(***************************************************************************)
EXTENDS Integers, Sequences, StepSequences

CONSTANTS
  Paths,        \* camera video paths a client may ask for
  NoPath,       \* the empty path: the camera is not shown
  TimerFails,   \* whether spf_timer_stop and spf_timer_start may fail
  Budget        \* bound: how often each kind of outside event happens

\* Requests of clients; sync and power states; capture resets and STR cycles.
Kinds == {"switch", "sense", "reset"}

ASSUME MuteAssumption ==
  /\ NoPath \notin Paths /\ "off" \notin Paths \cup {NoPath}
  /\ TimerFails \in BOOLEAN
  /\ Budget \in [Kinds -> Nat]

Sync   == {"unknown", "no", "yes"}            \* VhalTabCamSync
Result == {"SUCCESS", "FAILED"}               \* VHAL_VPATH_STS_*
Thread == {"main", "timer"}
Step == {"notifyOn", "notifyOff", "stop", "start", "pathOn", "pathOff",
         "decide", "decideOff", "change", "arg", "show", "result", "success",
         "notify", "camera", "layout", "failed", "guard", "suspend",
         "clearPath", "reInit", "resume"}

VARIABLES
  syncMute,     \* camera_mute_sync_
  powerMute,    \* camera_mute_power_
  pathMute,     \* camera_mute_path_
  setting,      \* camera_mute_setting_
  notify,       \* camera_changed_notify_
  blinder,      \* is the camera's blinder surface visible
  timer,        \* camera_mute_timer_: off, or the path whose callback it will run
  todo,         \* per thread: the steps it still has to take
  local,        \* per thread: setmute, or the argument of SetBlinderEnable
  result,       \* per thread: the result NotifyCameraChanged will be given
  path,         \* camera_path_current_ of the layout manager
  target,       \* the path of the switch the main thread works on
  pathSync,     \* camera_path_sync_status_
  visual,       \* vpower_state_ is VISUAL_ON
  suspend,      \* CVhalStrManager's suspend_
  events,       \* camera-changed events in the event route
  open,         \* history: a client waits for the answer to a switch
  accepted,     \* history: notifications armed, less those withdrawn
  posted,       \* history: camera-changed events posted
  overlap,      \* history: callback and main thread have been in CVhalMute at
                \* once, or the timer library has refused a call
  left          \* bound: outside events that may still happen

flagVars  == <<syncMute, powerMute, pathMute>>
histVars  == <<accepted, posted, left>>
mainVars  == <<path, target, pathSync, visual>>
vars == <<flagVars, setting, notify, blinder, timer, todo, local, result,
          mainVars, suspend, events, open, overlap, histVars>>

TypeOK ==
  /\ syncMute \in BOOLEAN /\ powerMute \in BOOLEAN /\ pathMute \in BOOLEAN
  /\ setting \in BOOLEAN /\ notify \in BOOLEAN /\ blinder \in BOOLEAN
  /\ timer \in {"off", NoPath} \cup Paths
  /\ todo \in [Thread -> Seq(Step)]
  /\ local \in [Thread -> BOOLEAN]
  /\ result \in [Thread -> Result]
  /\ path \in Paths \cup {NoPath} /\ target \in Paths \cup {NoPath}
  /\ pathSync \in Sync /\ visual \in BOOLEAN
  /\ suspend \in BOOLEAN
  /\ events \in Seq(Result)
  /\ open \in BOOLEAN /\ overlap \in BOOLEAN
  /\ accepted \in Int /\ posted \in Nat
  /\ left \in [Kinds -> Nat]

Init ==
  /\ syncMute = FALSE /\ powerMute = FALSE /\ pathMute = FALSE
  /\ setting = FALSE /\ notify = FALSE /\ blinder = FALSE
  /\ timer = "off"
  /\ todo = [t \in Thread |-> <<>>]
  /\ local = [t \in Thread |-> FALSE]
  /\ result = [t \in Thread |-> "SUCCESS"]
  /\ path = NoPath /\ target = NoPath
  /\ pathSync = "unknown" /\ visual = FALSE
  /\ suspend = FALSE /\ events = <<>>
  /\ open = FALSE /\ accepted = 0 /\ posted = 0 /\ overlap = FALSE
  /\ left = Budget

-----------------------------------------------------------------------------
(* Handlers as sequences of steps                                          *)

SetMuteCamera        == <<"decide", "change">>
SetMuteCameraPathOn  == <<"pathOn">> \o SetMuteCamera
SetMuteCameraPathOff == <<"pathOff">> \o SetMuteCamera
SetMuteCameraOff     == <<"pathOff", "decideOff", "change">>
SetMuteCameraPathFailed == <<"notifyOff">> \o SetMuteCameraOff \o <<"failed">>

ReleaseMuteCameraOn  == SetMuteCameraPathOff \o <<"result", "notify">>
ReleaseMuteCameraOff == SetMuteCameraOff \o <<"success", "notify">>
Release(p) == IF p = NoPath THEN ReleaseMuteCameraOff ELSE ReleaseMuteCameraOn

SetMuteCameraPath == <<"notifyOn", "stop">>

\* Seeded fault: the layout is changed before the camera is covered.
Switch_LayoutFirst(p) == (IF p = NoPath THEN <<>> ELSE <<"camera">>)
                         \o <<"layout">> \o SetMuteCameraPath

\* ActionVpathCameraCurrent for a path that is available: the switch mute is
\* set, the capture is started when the camera is to be shown, and then the
\* layout is changed.
Switch(p) == SetMuteCameraPath
             \o (IF p = NoPath THEN <<>> ELSE <<"camera">>) \o <<"layout">>

Busy(t) == todo[t] # <<>>

\* Thread t takes step s; then is what follows it.
Does(t, s, then) ==
  /\ Busy(t) /\ Head(todo[t]) = s
  /\ todo' = [todo EXCEPT ![t] = then \o Tail(@)]
  /\ overlap' = (overlap \/ \A u \in Thread : Busy(u))

\* The main thread is in its event loop and begins a handler.
Begins(k, steps) ==
  /\ ~Busy("main") /\ left[k] > 0
  /\ left' = [left EXCEPT ![k] = @ - 1]
  /\ todo' = [todo EXCEPT !["main"] = steps]

-----------------------------------------------------------------------------
(* Steps inside CVhalMute, by either thread                                *)

SetPathFlag(t) ==
  /\ \/ Does(t, "pathOn", <<>>) /\ pathMute' = TRUE
     \/ Does(t, "pathOff", <<>>) /\ pathMute' = FALSE
  /\ UNCHANGED <<syncMute, powerMute, setting, notify, blinder, timer, local,
                 result, mainVars, suspend, events, open, histVars>>

\* The camera is uncovered only if none of the three reasons to cover it holds.
\* SetMuteCameraOff compares with the path flag it has just cleared, which the
\* other thread may have set again.
Decide(t) ==
  /\ \/ /\ Does(t, "decide", <<>>)
        /\ local' = [local EXCEPT ![t] = syncMute \/ powerMute \/ pathMute]
     \/ /\ Does(t, "decideOff", <<>>)
        /\ \E m \in {FALSE, pathMute} : local' = [local EXCEPT ![t] = m]
  /\ UNCHANGED <<flagVars, setting, notify, blinder, timer, result, mainVars,
                 suspend, events, open, histVars>>

\* The surface is touched only when the setting changes.
ChangeSetting(t) ==
  /\ Does(t, "change", IF setting = local[t] THEN <<>> ELSE <<"arg", "show">>)
  /\ setting' = local[t]
  /\ UNCHANGED <<flagVars, notify, blinder, timer, local, result, mainVars,
                 suspend, events, open, histVars>>

\* SetBlinderEnable is given the member, read again after the log call; here the
\* layout always does it (the code only logs a failure and keeps the setting).
SetBlinderEnable(t) ==
  /\ \/ /\ Does(t, "arg", <<>>)
        /\ local' = [local EXCEPT ![t] = setting] /\ UNCHANGED blinder
     \/ Does(t, "show", <<>>) /\ blinder' = local[t] /\ UNCHANGED local
  /\ UNCHANGED <<flagVars, setting, notify, timer, result, mainVars, suspend,
                 events, open, histVars>>

ReleaseResult(t) ==
  /\ \/ /\ Does(t, "result", <<>>)
        /\ result' = [result EXCEPT ![t] =
                        IF syncMute \/ powerMute THEN "FAILED" ELSE "SUCCESS"]
     \/ /\ Does(t, "success", <<>>)
        /\ result' = [result EXCEPT ![t] = "SUCCESS"]
  /\ UNCHANGED <<flagVars, setting, notify, blinder, timer, local, mainVars,
                 suspend, events, open, histVars>>

\* Seeded fault: the notification stays armed after its event.
NotifyCameraChanged_KeepsFlag(t) ==
  /\ Does(t, "notify", <<>>)
  /\ IF notify /\ ~suspend
       THEN events' = Append(events, result[t]) /\ posted' = posted + 1
       ELSE UNCHANGED <<events, posted>>
  /\ UNCHANGED <<flagVars, setting, notify, blinder, timer, local, result,
                 mainVars, suspend, open, accepted, left>>

\* Under the mutex: at most one event per armed notification.  The event route
\* refuses the event while VideoHAL is suspended; the notification is spent
\* all the same.
NotifyCameraChanged(t) ==
  /\ Does(t, "notify", <<>>)
  /\ notify' = FALSE
  /\ IF notify /\ ~suspend
       THEN events' = Append(events, result[t]) /\ posted' = posted + 1
       ELSE UNCHANGED <<events, posted>>
  /\ UNCHANGED <<flagVars, setting, blinder, timer, local, result, mainVars,
                 suspend, open, accepted, left>>

-----------------------------------------------------------------------------
(* The one-shot timer.  spf_timer_stop does not wait for a callback that   *)
(* has begun, and one callback runs at a time.                             *)

TimerFires ==
  /\ timer # "off" /\ ~Busy("timer")
  /\ timer' = "off"
  /\ todo' = [todo EXCEPT !["timer"] = <<"guard">> \o Release(timer)]
  /\ overlap' = (overlap \/ Busy("main"))
  /\ UNCHANGED <<flagVars, setting, notify, blinder, local, result, mainVars,
                 suspend, events, open, histVars>>

\* MuteReleaseMuteCameraOn/Off do nothing while VideoHAL is suspended.
CallbackGuard ==
  /\ Busy("timer") /\ Head(todo["timer"]) = "guard"
  /\ todo' = [todo EXCEPT !["timer"] = IF suspend THEN <<>> ELSE Tail(@)]
  /\ overlap' = (overlap \/ Busy("main"))
  /\ UNCHANGED <<flagVars, setting, notify, blinder, timer, local, result,
                 mainVars, suspend, events, open, histVars>>

\* Without the timer the main thread uncovers the camera itself, at once.
StopMuteTimer ==
  /\ \/ Does("main", "stop", SetMuteCameraPathOn \o <<"start">>) /\ timer' = "off"
     \/ /\ TimerFails
        /\ Busy("main") /\ Head(todo["main"]) = "stop"
        /\ todo' = [todo EXCEPT !["main"] = Release(target) \o Tail(@)]
        /\ overlap' = TRUE /\ UNCHANGED timer
  /\ UNCHANGED <<flagVars, setting, notify, blinder, local, result, mainVars,
                 suspend, events, open, histVars>>

\* Seeded fault: nothing uncovers the camera when the timer cannot be started.
StartMuteTimer_NoFallback ==
  /\ \/ Does("main", "start", <<>>) /\ timer' = target
     \/ /\ TimerFails
        /\ Busy("main") /\ Head(todo["main"]) = "start"
        /\ todo' = [todo EXCEPT !["main"] = Tail(@)]
        /\ overlap' = TRUE /\ UNCHANGED timer
  /\ UNCHANGED <<flagVars, setting, notify, blinder, local, result, mainVars,
                 suspend, events, open, histVars>>

StartMuteTimer ==
  /\ \/ Does("main", "start", <<>>) /\ timer' = target
     \/ /\ TimerFails
        /\ Busy("main") /\ Head(todo["main"]) = "start"
        /\ todo' = [todo EXCEPT !["main"] = Release(target) \o Tail(@)]
        /\ overlap' = TRUE /\ UNCHANGED timer
  /\ UNCHANGED <<flagVars, setting, notify, blinder, local, result, mainVars,
                 suspend, events, open, histVars>>

-----------------------------------------------------------------------------
(* Steps of the main thread's handlers                                     *)

\* SetNotifyCameraChanged, under the mutex: a switch that follows before the
\* answer takes over the armed notification, a failure withdraws it.
SetNotifyCameraChanged ==
  /\ \/ /\ Does("main", "notifyOn", <<>>)
        /\ notify' = TRUE /\ open' = TRUE
        /\ accepted' = IF notify THEN accepted ELSE accepted + 1
     \/ /\ Does("main", "notifyOff", <<>>)
        /\ notify' = FALSE /\ UNCHANGED open
        /\ accepted' = IF notify THEN accepted - 1 ELSE accepted
  /\ UNCHANGED <<flagVars, setting, blinder, timer, local, result, mainVars,
                 suspend, events, posted, left>>

\* Starting the capture or changing the layout may fail: the switch is given
\* up, its notification withdrawn and the camera uncovered by force.
GiveUpSwitch ==
  /\ Busy("main") /\ Head(todo["main"]) \in {"camera", "layout"}
  /\ todo' = [todo EXCEPT !["main"] = SetMuteCameraPathFailed]
  /\ UNCHANGED <<overlap, path>>

SwitchStep ==
  /\ \/ Does("main", "camera", <<>>) /\ UNCHANGED path
     \/ Does("main", "layout", <<>>) /\ path' = target
     \/ GiveUpSwitch
  /\ UNCHANGED <<flagVars, setting, notify, blinder, timer, local, result,
                 target, pathSync, visual, suspend, events, open, histVars>>

\* The client sees FAILED when its request returns.
SwitchFailed ==
  /\ Does("main", "failed", <<>>)
  /\ open' = FALSE
  /\ UNCHANGED <<flagVars, setting, notify, blinder, timer, local, result,
                 mainVars, suspend, events, histVars>>

\* StrSuspendPathClearCamera returns at once if the layout manager fails.
StrSuspendPathClear ==
  /\ \/ Does("main", "clearPath", SetMuteCameraPathOff) /\ path' = NoPath
     \/ Does("main", "clearPath", <<>>) /\ UNCHANGED path
  /\ UNCHANGED <<flagVars, setting, notify, blinder, timer, local, result,
                 target, pathSync, visual, suspend, events, open, histVars>>

\* Seeded fault: camera_mute_path_ survives the re-initialisation.
ReInit_KeepsPath ==
  /\ Does("main", "reInit", <<>>)
  /\ \/ timer' = "off"
     \/ TimerFails /\ UNCHANGED timer
  /\ syncMute' = FALSE /\ powerMute' = FALSE
  /\ visual' = FALSE /\ pathSync' = "unknown" /\ open' = FALSE
  /\ UNCHANGED <<pathMute, setting, notify, blinder, local, result, path,
                 target, suspend, events, histVars>>

\* CVhalPropertyControl::ReInit: the camera control, CVhalMute and the TAB
\* receiver forget everything, and no client's request survives.
ReInit ==
  /\ Does("main", "reInit", <<>>)
  /\ \/ timer' = "off"
     \/ TimerFails /\ UNCHANGED timer
  /\ syncMute' = FALSE /\ powerMute' = FALSE /\ pathMute' = FALSE
  /\ visual' = FALSE /\ pathSync' = "unknown" /\ open' = FALSE
  /\ UNCHANGED <<setting, notify, blinder, local, result, path, target,
                 suspend, events, histVars>>

\* What was posted is dropped before the event loop runs again.
SuspendResume ==
  /\ \/ /\ Does("main", "suspend", <<>>)
        /\ suspend' = TRUE /\ UNCHANGED events
     \/ /\ Does("main", "resume", <<>>)
        /\ suspend' = FALSE /\ events' = <<>>
  /\ UNCHANGED <<flagVars, setting, notify, blinder, timer, local, result,
                 mainVars, open, histVars>>

-----------------------------------------------------------------------------
(* What the event loop begins                                              *)

ActionVpathCameraCurrent(p) ==
  /\ p # path
  /\ \/ Begins("switch", Switch(p))
     \/ Begins("switch", SetMuteCameraPathFailed)     \* p is not available
  /\ target' = p
  /\ UNCHANGED <<flagVars, setting, notify, blinder, timer, local, result, path,
                 pathSync, visual, suspend, events, open, overlap, accepted,
                 posted>>

\* A changed sync state.  The mute flag always follows it; the camera is
\* covered or uncovered only while it is shown, and only if the state differs
\* from the last one that was handled while it was shown.
ActionCameraSync(s) ==
  LET update == path # NoPath /\ pathSync # s IN
  /\ Begins("sense", IF update THEN SetMuteCamera ELSE <<>>)
  /\ syncMute' = (s # "yes")
  /\ pathSync' = IF update THEN s ELSE pathSync
  /\ UNCHANGED <<powerMute, pathMute, setting, notify, blinder, timer, local,
                 result, path, target, visual, suspend, events, open, overlap,
                 accepted, posted>>

ActionCameraPowerState(on) ==
  /\ Begins("sense", IF on # visual /\ path # NoPath THEN SetMuteCamera ELSE <<>>)
  /\ powerMute' = IF on = visual THEN powerMute ELSE ~on
  /\ visual' = on
  /\ UNCHANGED <<syncMute, pathMute, setting, notify, blinder, timer, local,
                 result, path, target, pathSync, suspend, events, open, overlap,
                 accepted, posted>>

\* The capture is closed and opened again under the blinder, which is then
\* removed by force.
ResetCapture ==
  /\ path # NoPath
  /\ Begins("reset", SetMuteCameraPathOn \o SetMuteCameraOff)
  /\ UNCHANGED <<flagVars, setting, notify, blinder, timer, local, result,
                 mainVars, suspend, events, open, overlap, accepted, posted>>

StrState ==
  /\ Begins("reset", <<"suspend">>
            \o (IF path = NoPath THEN <<>>
                ELSE SetMuteCameraPathOn \o <<"clearPath">>)
            \o <<"reInit", "notifyOff">> \o SetMuteCamera \o <<"resume">>)
  /\ UNCHANGED <<flagVars, setting, notify, blinder, timer, local, result,
                 mainVars, suspend, events, open, overlap, accepted, posted>>

UpdateCameraPathStatus ==
  /\ ~Busy("main") /\ events # <<>>
  /\ events' = Tail(events) /\ open' = FALSE
  /\ UNCHANGED <<flagVars, setting, notify, blinder, timer, todo, local, result,
                 mainVars, suspend, overlap, histVars>>

-----------------------------------------------------------------------------
MuteStep(t) == \/ SetPathFlag(t) \/ Decide(t) \/ ChangeSetting(t)
               \/ SetBlinderEnable(t) \/ ReleaseResult(t) \/ NotifyCameraChanged(t)

MainStep == \/ MuteStep("main") \/ SetNotifyCameraChanged
            \/ StopMuteTimer \/ StartMuteTimer
            \/ SwitchStep \/ SwitchFailed
            \/ StrSuspendPathClear \/ ReInit \/ SuspendResume

TimerStep == CallbackGuard \/ MuteStep("timer")

Outside == \/ \E p \in Paths \cup {NoPath} : ActionVpathCameraCurrent(p)
           \/ \E s \in Sync : ActionCameraSync(s)
           \/ \E on \in BOOLEAN : ActionCameraPowerState(on)
           \/ ResetCapture \/ StrState

Next == MainStep \/ TimerStep \/ TimerFires \/ UpdateCameraPathStatus \/ Outside

\* The threads run, a started timer expires, and the event loop takes what is
\* posted.  Nothing is assumed of clients, the camera or the power manager.
Fairness == /\ WF_vars(MainStep) /\ WF_vars(TimerStep)
            /\ WF_vars(TimerFires) /\ WF_vars(UpdateCameraPathStatus)

Spec == Init /\ [][Next]_vars /\ Fairness

-----------------------------------------------------------------------------
(* Properties                                                              *)

\* No more camera-changed notifications are sent than were armed and not taken
\* back: a switch that is given up and answered FAILED is not answered again by
\* the callback of its timer, nor one that is superseded, whichever of the two
\* threads sends (camera_changed_notify_ and its mutex).
OneAnswerPerSwitch == posted <= accepted

\* Every switch is answered: by the callback, by the main thread in the timer's
\* place, or by its failure; a suspend forgets it.
SwitchAnswered == open ~> ~open

\* A switch mute that is set is never left behind: the timer is armed, or a
\* thread is on its way to clear the mute or to arm the timer
\* (SetMuteCameraPath's fallbacks, the callbacks' suspend check, ReInit).
MuteHasOwner ==
  pathMute => \/ timer # "off"
              \/ Has(todo["timer"], {"pathOff"})
              \/ Has(todo["main"], {"pathOff", "start", "reInit"})

\* While a switch starts the capture and changes the layout, the camera is
\* covered, unless a callback has overlapped the main thread's calls of
\* CVhalMute or the timer library has refused a call.
MutedWhileSwitching ==
  Busy("main") /\ Head(todo["main"]) \in {"camera", "layout"} /\ ~overlap
    => blinder

=============================================================================
