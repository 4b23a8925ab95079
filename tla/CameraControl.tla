---------------------------- MODULE CameraControl ----------------------------
(***************************************************************************)
(* The camera: CVhalPropertyControlCamera and CVhalCaptureCamera, the part *)
(* of CVhalCaptureControl that opens and closes its capture, the draw      *)
(* thread that a capture has (CVhalCaptureDraw), the file observer that    *)
(* learns of the control right over the camera, the MICON's camera         *)
(* messages, the timer that puts an opening off while a movie starts, and  *)
(* the pin CAMERA-CAP-STBY2 that tells the MICON a picture is ready.       *)
(*                                                                         *)
(* A handler on the main thread is one action up to the point where it     *)
(* needs the draw thread: closing a capture joins it, and the pin is       *)
(* switched under the mutex that thread holds while it draws a frame.  The *)
(* rest of the handler is then in todo.  The draw thread reads the path,   *)
(* the mute and the right one after the other while handlers run.          *)
(***************************************************************************)
EXTENDS Naturals, Sequences

CONSTANTS
  Types,                   \* connected cameras, published and requested
  NoType,                  \* VHAL_CONNECTED_CAMERA_NONE and ..._INVALID
  kCameraCapStby2WaitCnt,  \* frames to wait for after the mute
  MaxCalls                 \* bound: requests, messages, changes and failures, together

ASSUME CameraAssumption ==
  /\ NoType \in STRING \ Types /\ Types \subseteq STRING
  /\ kCameraCapStby2WaitCnt \in Nat /\ MaxCalls \in Nat

Rights == {"Initial", "Ready", "invalid"}      \* VhalCameraDisplayStatus, kMax and above
CameraPath == "CAMERA"

VARIABLES
  right,     \* what the observed file holds
  noticed,   \* the file has changed and FileobPathCallback is to come
  told,      \* the observer's events that wait for the main thread
  known,     \* the entry's value: the right VideoHAL knows of
  type,      \* VHAL_PROP_SETTING_STS_CNCT_CAMERA
  camera,    \* the capture and its resources
  waiting,   \* camera_cap_waiting_
  timer,     \* the timer of OpenCaptureDelayProcess runs
  due,       \* its events that wait for the main thread
  sync,      \* camera_sync_status_ is kSync
  visual,    \* vpower_state_ is VISUAL_ON
  request,   \* center_display_status_ is kTabCamReqOn
  path,      \* the path that the layout shows on the camera's output
  covered,   \* camera_mute_path_
  stby2,     \* camera_cap_stby2_
  pin,       \* the level of the pin
  frame,     \* camera_cap_frame_
  wait,      \* camera_cap_stby2_wait_
  draw,      \* where the draw thread is in SetCameraCaptureFrame, "idle" if not there
  todo,      \* what the main thread's handler has yet to do
  asleep,    \* GetSuspend()
  starting,  \* a movie starts: playing inside, not yet published
  silent,    \* a reset of the capture waits for the main thread
  used,      \* bound: calls so far
  astray     \* history: why the state may not be what is asked for

fileVars   == <<right, noticed, told, known>>
delayVars  == <<waiting, timer, due>>
signalVars == <<sync, visual, request>>
showVars   == <<path, covered>>
pinVars    == <<stby2, pin, frame, wait, draw>>
modeVars   == <<asleep, starting, silent>>
vars == <<fileVars, type, camera, delayVars, signalVars, showVars, pinVars, todo,
          modeVars, used, astray>>

\* Bound: one for the call, one for each failure in it.
Calls(n) == used + n <= MaxCalls /\ used' = used + n
Fault(ok) == IF ok THEN 0 ELSE 1
Handles == ~asleep /\ todo = <<>>
Goes(op) == todo # <<>> /\ todo[1][1] = op
Op(op) == <<op, NoType>>

---------------------------------------------------------------------------
(* Opening a capture: each step may take resources, and may fail.          *)

Done(held) == [held |-> held, ok |-> TRUE]
Fail(held) == [held |-> held, ok |-> FALSE]
Then(outcomes, Step(_)) == UNION {IF o.ok THEN Step(o.held) ELSE {o} : o \in outcomes}

InitializeQcarcam(held) ==
  IF "qcarcam" \in held THEN {Done(held)} ELSE {Done(held \cup {"qcarcam"}), Fail(held)}
SettingQueryInput(held) == {Done(held), Fail(held)}
OpenHandle(held) == {Done(held \cup {"handle"}), Fail(held)}
SettingRendererConfig(held) == {Done(held \cup {"config"})}
SettingIviId(held) == {Done(held), Fail(held)}
SettingParamEventCallBack(held) == {Done(held), Fail(held)}
SettingBuffer(held) ==
  {Done(held \cup {"video", "buffers"}), Fail(held), Fail(held \cup {"video"}),
   Fail(held \cup {"video", "buffers"})}

ReleaseProcess(held) == held \ {"video", "config", "handle", "buffers", "thread"}

\* The thread comes last: when it does not start, the caller has to close.
Acquire(held) ==
  LET settings == Then(Then(Then(Then(Then(Then(InitializeQcarcam(held),
                    SettingQueryInput), OpenHandle), SettingRendererConfig),
                    SettingIviId), SettingParamEventCallBack), SettingBuffer)
  IN {IF o.ok THEN o ELSE Fail(ReleaseProcess(o.held)) : o \in settings}

Whole == {"qcarcam", "handle", "config", "video", "buffers", "thread"}
NoCamera(held) == [open |-> FALSE, send |-> FALSE, started |-> FALSE, held |-> held]
Opened(held) == [open |-> TRUE, send |-> FALSE, started |-> FALSE, held |-> held \cup {"thread"}]

\* StartCapture, StopCapture: QCarCam may refuse either.
Capture(c, on, ok) == IF ok THEN [c EXCEPT !.started = on] ELSE c

\* OpenCapture with NotifyReceiveCameraControl: the camera, success, what went
\* astray, how many calls failed, and whether the caller has to close it again.
OpenCapture(held) ==
  LET on == sync /\ visual
      Outcome(cam, ok, lost, failures, joins) ==
        [cam |-> cam, ok |-> ok, lost |-> lost, failures |-> failures, joins |-> joins]
  IN UNION {
       IF ~o.ok
       THEN {Outcome(NoCamera(o.held), FALSE, {"open"}, 1, FALSE)}
       ELSE {Outcome([Opened(o.held) EXCEPT !.held = o.held], FALSE, {"open"}, 1, TRUE),
             Outcome(Capture(Opened(o.held), on, TRUE), TRUE, {}, 0, FALSE)}
            \cup IF on THEN {Outcome(Opened(o.held), TRUE, {"capture"}, 1, FALSE)} ELSE {}
       : o \in Acquire(held)}

SettingtCameraCapture(c, t) ==
  IF c.open \/ t = NoType
  THEN {[cam |-> c, ok |-> c.open, lost |-> astray \cap {"capture"}, failures |-> 0, joins |-> FALSE]}
  ELSE OpenCapture(c.held)

\* SettingCameraCapture: with the published type.
SettingCameraCapture == SettingtCameraCapture(camera, type)

\* The handler's next steps after an attempt to open.
Attempted(o, rest) == todo' = (IF o.joins THEN <<Op("close")>> ELSE <<>>) \o rest
Blame(o, healed, lost) == astray' = (astray \ (healed \cup {"open", "capture"})) \cup o.lost \cup lost

\* Start, Stop: from now on frames are sent, or no longer.
Start(c) == [c EXCEPT !.send = TRUE]
Stop(c)  == [c EXCEPT !.send = FALSE]
SetPath(c, p) == IF p = "" THEN Stop(c) ELSE Start(Stop(c))
SetCameraPath(c, p) == IF c.open THEN SetPath(c, p) ELSE c

\* OpenCameraCapture, but for the case that puts the opening off.  It does not
\* tell the capture of a path that is already shown.
OpenCameraCapture(o) ==
  /\ o \in SettingCameraCapture
  /\ waiting' = FALSE
  /\ camera' = o.cam
  /\ Blame(o, {}, IF o.ok /\ ~camera.open /\ path # "" THEN {"send"} ELSE {})

\* Closing starts on the main thread: frames are no longer sent, the stream stops.
StopCamera(c, ok) == Capture(Stop(c), FALSE, ok)
ReleaseCameraCapture == IF camera.open THEN <<Op("close")>> ELSE <<>>

\* ActionCameraControl: the stream runs while the MICON is in sync and the
\* vehicle is visibly on.
ActionCameraControl(s, v, ok) ==
  LET changes == camera.open /\ camera.started # (s /\ v)
  IN /\ ok \/ changes
     /\ camera' = IF camera.open THEN Capture(camera, s /\ v, ok) ELSE camera
     /\ astray' = IF ok THEN astray \ {"capture"} ELSE astray \cup {"capture"}
     /\ Calls(1 + Fault(ok))

---------------------------------------------------------------------------
(* The pin.                                                                *)

\* GetCameraDisplayStatus: the entry's value; an error when it is "invalid".
GetCameraDisplayStatus == known

\* SetValueDirectionLow: the direction first, which takes the pin low; either
\* call may fail.
SetValueDirectionLow(level) ==
  {[pin |-> level, ok |-> TRUE], [pin |-> pin, ok |-> FALSE], [pin |-> FALSE, ok |-> FALSE]}

\* SetCameraCaptureStandby2, under mtx_standby2_; f is camera_cap_frame_ by now.
SetCameraCaptureStandby2(status, f, g) ==
  LET asked == status # stby2 /\ (status => f = "Ready" /\ GetCameraDisplayStatus = "Ready")
  IN IF asked
     THEN /\ g \in SetValueDirectionLow(status)
          /\ pin' = g.pin
          /\ stby2' = IF g.ok THEN status ELSE stby2
          /\ frame' = IF ~g.ok THEN f ELSE IF status THEN "Changed" ELSE "Initial"
          /\ astray' = IF g.ok THEN astray \ {"standby", "signal"}
                       ELSE astray \cup {"standby"} \cup IF status THEN {"signal"} ELSE {}
          /\ Calls(Fault(g.ok))
     ELSE /\ g = [pin |-> pin, ok |-> TRUE]
          /\ frame' = f
          /\ UNCHANGED <<pin, stby2, astray, used>>

\* IsSetCameraCaptureStandby2: a picture may be announced.
IsSetCameraCaptureStandby2 ==
  ~stby2 /\ camera.open /\ camera.started /\ (path # "" <=> request)

---------------------------------------------------------------------------
(* The draw thread, which a started capture gives a frame.                 *)

\* NotifyCaptureEvent: QCarCam has filled a buffer, and the thread is free to draw it.
NotifyCaptureEvent == draw = "idle" /\ camera.started

\* SendFrame, and SetCameraCaptureFrame step by step: the path and the request, the
\* mute, the pin.
DrawCheck ==
  /\ NotifyCaptureEvent
  /\ draw' = IF ~IsSetCameraCaptureStandby2 THEN "idle" ELSE IF path # "" THEN "cover" ELSE "raise"
  /\ frame' = IF ~stby2 /\ path = "" /\ request /\ frame = "Ready" THEN "Initial" ELSE frame
  /\ <<draw, frame>>' # <<draw, frame>>
  /\ UNCHANGED <<fileVars, type, camera, delayVars, signalVars, showVars, stby2, pin, wait, todo,
                 modeVars, used, astray>>

DrawCover ==
  LET w == IF covered THEN 0 ELSE wait
  IN /\ draw = "cover"
     /\ wait' = IF w <= kCameraCapStby2WaitCnt THEN w + 1 ELSE w
     /\ draw' = IF w <= kCameraCapStby2WaitCnt THEN "idle" ELSE "raise"
     /\ UNCHANGED <<fileVars, type, camera, delayVars, signalVars, showVars, stby2, pin, frame, todo,
                    modeVars, used, astray>>

DrawRaise(g) ==
  /\ draw = "raise"
  /\ draw' = "idle" /\ wait' = 0
  /\ \/ /\ frame = "Initial"
        /\ SetCameraCaptureStandby2(TRUE, "Ready", g)
     \/ /\ frame # "Initial" /\ g = [pin |-> pin, ok |-> TRUE]
        /\ UNCHANGED <<frame, pin, stby2, astray, used>>
  /\ UNCHANGED <<fileVars, type, camera, delayVars, signalVars, showVars, todo, modeVars>>

---------------------------------------------------------------------------
(* The rest of a handler.                                                  *)

\* CVhalCaptureDraw::Finalize joins the thread, the others wait for its mutex.
Joined == draw = "idle"

\* ActionCameraCaptureStandby2(true)
Raise(g) ==
  /\ Goes("raise") /\ Joined
  /\ todo' = Tail(todo)
  /\ \/ /\ IsSetCameraCaptureStandby2
        /\ SetCameraCaptureStandby2(TRUE, frame, g)
     \/ /\ ~IsSetCameraCaptureStandby2 /\ g = [pin |-> pin, ok |-> TRUE]
        /\ frame' = IF ~stby2 /\ camera.started /\ path = "" /\ request /\ frame = "Ready"
                    THEN "Initial" ELSE frame
        /\ astray' = IF ~stby2 /\ frame' = "Ready" THEN astray \cup {"signal"} ELSE astray
        /\ UNCHANGED <<pin, stby2, used>>
  /\ UNCHANGED <<fileVars, type, camera, delayVars, signalVars, showVars, wait, draw, modeVars>>

\* ActionCameraCaptureStandby2(false)
Lower(g) ==
  /\ Goes("lower") /\ Joined
  /\ todo' = Tail(todo)
  /\ SetCameraCaptureStandby2(FALSE, frame, g)
  /\ UNCHANGED <<fileVars, type, camera, delayVars, signalVars, showVars, wait, draw, modeVars>>

\* CloseCapture: the thread is joined, the pin lowered, the resources released.
\* Seeded fault: a capture is closed without lowering the pin.
Close_KeepsPin(g) ==
  /\ Goes("close") /\ Joined
  /\ todo' = Tail(todo)
  /\ g = [pin |-> pin, ok |-> TRUE]
  /\ camera' = NoCamera(ReleaseProcess(camera.held))
  /\ UNCHANGED <<fileVars, type, delayVars, signalVars, showVars, pinVars, modeVars, used, astray>>
Close(g) ==
  /\ Goes("close") /\ Joined
  /\ todo' = Tail(todo)
  /\ SetCameraCaptureStandby2(FALSE, frame, g)
  /\ camera' = NoCamera(ReleaseProcess(camera.held))
  /\ UNCHANGED <<fileVars, type, delayVars, signalVars, showVars, wait, draw, modeVars>>

\* ActionSettingConnectedCamera, once the old capture is closed.
Retype(o) ==
  LET t == todo[1][2]
  IN /\ Goes("retype")
     /\ o \in SettingtCameraCapture(camera, t)
     /\ type' = IF o.ok THEN t ELSE NoType
     /\ waiting' = (waiting /\ ~o.ok)
     /\ camera' = IF o.ok /\ path # "" THEN SetCameraPath(o.cam, path) ELSE o.cam
     /\ Blame(o, {"send"}, {})
     /\ Attempted(o, Tail(todo))
     /\ Calls(o.failures)
     /\ UNCHANGED <<fileVars, timer, due, signalVars, showVars, pinVars, modeVars>>

\* ResetCapture, once the old capture is closed.
Reset(o) ==
  /\ Goes("reset")
  /\ o \in SettingCameraCapture
  /\ waiting' = (waiting /\ ~o.ok)
  /\ camera' = IF path # "" /\ ~o.joins THEN SetCameraPath(o.cam, path) ELSE o.cam
  /\ covered' = IF path # "" THEN FALSE ELSE covered
  /\ Blame(o, {"send"}, {})
  /\ Attempted(o, Tail(todo))
  /\ Calls(o.failures)
  /\ UNCHANGED <<fileVars, type, timer, due, signalVars, path, pinVars, modeVars>>

\* The end of StrSuspend: QCarCam is finalized, the camera, the receiver and the mute
\* are initialized again, and the events that wait are dropped.  The pin and the
\* observer's entry are left alone.
FinalizeQcarcam ==
  /\ camera' = [camera EXCEPT !.held = @ \ {"qcarcam"}]
  /\ timer' = FALSE
ReInit == waiting' = FALSE /\ stby2' = FALSE /\ frame' = "Initial" /\ wait' = 0 /\ visual' = FALSE
ReceiverReInit == sync' = FALSE /\ request' = FALSE
MuteReInit == covered' = FALSE
DropEvents == told' = <<>> /\ due' = 0 /\ silent' = FALSE

SuspendEnds ==
  /\ Goes("suspend")
  /\ todo' = Tail(todo)
  /\ FinalizeQcarcam /\ ReInit /\ ReceiverReInit /\ MuteReInit /\ DropEvents
  /\ type' = NoType
  /\ starting' = FALSE
  /\ astray' = (astray \ {"open", "capture", "send", "signal"})
                 \cup IF told = <<>> THEN {} ELSE {"right"}
  /\ UNCHANGED <<right, noticed, known, path, pin, draw, asleep, used>>

---------------------------------------------------------------------------
(* The control right over the camera.                                      *)

FileChanges(v) ==
  /\ v # right /\ Calls(1)
  /\ right' = v /\ noticed' = TRUE
  /\ UNCHANGED <<told, known, type, camera, delayVars, signalVars, showVars, pinVars, todo,
                 modeVars, astray>>

\* GetStatus: what the file holds, when it can be read.
GetStatus == right

\* FileobPathCallback, on the observer's thread: what it reads is posted, unless
\* VideoHAL is suspended or the file cannot be read.
FileobPathCallback(ok) ==
  LET posts == ~asleep /\ ok
  IN /\ noticed /\ (asleep => ok)
     /\ noticed' = FALSE
     /\ told' = IF posts THEN Append(told, GetStatus) ELSE told
     /\ astray' = IF posts THEN astray \ {"right"} ELSE astray \cup {"right"}
     /\ Calls(Fault(ok))
     /\ UNCHANGED <<right, known, type, camera, delayVars, signalVars, showVars, pinVars, todo, modeVars>>

\* UpdateStatus keeps a value that is not valid, too; only a change is handled.
UpdateStatus(v) ==
  /\ Handles /\ told # <<>> /\ Head(told) = v
  /\ told' = Tail(told) /\ known' = v
  /\ UNCHANGED <<right, noticed>>

\* ExecCameraDisplayStatus of a value that is known, or of one nobody is told of.
CameraDisplayStatusKept(v) ==
  /\ v \in {known, "invalid"}
  /\ UpdateStatus(v)
  /\ UNCHANGED <<type, camera, delayVars, signalVars, showVars, pinVars, todo, modeVars, used, astray>>

\* NotifyReceiveCameraDisplayStatus
\* Seeded fault: a frame that was drawn before the right came is not announced.
CameraDisplayReady_NoRaise(o, refused) ==
  /\ known # "Ready"
  /\ refused = (starting /\ type # NoType /\ ~camera.open)
  /\ UpdateStatus("Ready")
  /\ OpenCameraCapture(o)
  /\ Attempted(o, <<>>)
  /\ timer' = (timer /\ ~refused)
  /\ Calls(o.failures + Fault(~refused))
  /\ UNCHANGED <<type, due, signalVars, showVars, pinVars, modeVars>>
CameraDisplayReady(o, refused) ==
  /\ known # "Ready"
  /\ refused = (starting /\ type # NoType /\ ~camera.open)
  /\ UpdateStatus("Ready")
  /\ OpenCameraCapture(o)
  /\ Attempted(o, <<Op("raise")>>)
  /\ timer' = (timer /\ ~refused)
  /\ Calls(o.failures + Fault(~refused))
  /\ UNCHANGED <<type, due, signalVars, showVars, pinVars, modeVars>>

\* OpenCaptureDelayProcess: the timer is started, or started again.
OpenCaptureDelayProcess == timer' = TRUE

\* The same while a movie starts: the opening is put off.
CameraDisplayDelayed ==
  /\ known # "Ready" /\ starting /\ type # NoType /\ ~camera.open
  /\ UpdateStatus("Ready")
  /\ waiting' = TRUE
  /\ OpenCaptureDelayProcess
  /\ todo' = <<Op("raise")>>
  /\ UNCHANGED <<type, camera, due, signalVars, showVars, pinVars, modeVars, used, astray>>

CameraDisplayInitial ==
  /\ known # "Initial"
  /\ UpdateStatus("Initial")
  /\ todo' = <<Op("lower")>>
  /\ UNCHANGED <<type, camera, delayVars, signalVars, showVars, pinVars, modeVars, used, astray>>

---------------------------------------------------------------------------
(* The delayed opening.                                                    *)

MovieStarts(b) ==
  /\ ~asleep /\ b # starting
  /\ starting' = b
  /\ Calls(IF b THEN 1 ELSE 0)
  /\ UNCHANGED <<fileVars, type, camera, delayVars, signalVars, showVars, pinVars, todo, asleep, silent, astray>>

\* CallbackTimer, on the timer's thread.
CallbackTimer ==
  /\ timer
  /\ timer' = FALSE
  /\ due' = IF asleep THEN due ELSE due + 1
  /\ UNCHANGED <<fileVars, type, camera, waiting, signalVars, showVars, pinVars, todo, modeVars, used, astray>>

\* OnTimer: the one repetition is used up, so the movie is not asked for again.
OnTimer(o) ==
  /\ Handles /\ due > 0
  /\ due' = due - 1
  /\ OpenCameraCapture(o)
  /\ Attempted(o, <<>>)
  /\ Calls(o.failures)
  /\ UNCHANGED <<fileVars, type, timer, signalVars, showVars, pinVars, modeVars>>

---------------------------------------------------------------------------
(* The MICON's messages and the power state.                               *)

\* SetCameraSync, ActionCameraSync
SetCameraSync(s, ok) ==
  /\ Handles
  /\ sync' = s
  /\ ActionCameraControl(s, visual, ok)
  /\ UNCHANGED <<fileVars, type, delayVars, visual, request, showVars, pinVars, todo, modeVars>>

\* SetCameraType: the display request it carries.
SetCameraType(r) ==
  /\ Handles /\ r # request /\ Calls(1)
  /\ request' = r
  /\ UNCHANGED <<fileVars, type, camera, delayVars, sync, visual, showVars, pinVars, todo, modeVars, astray>>

\* Seeded fault: the stream follows the power state of before.
ActionCameraPowerState_Old(v, ok) ==
  /\ Handles /\ v # visual
  /\ visual' = v
  /\ ActionCameraControl(sync, visual, ok)
  /\ UNCHANGED <<fileVars, type, delayVars, sync, request, showVars, pinVars, todo, modeVars>>
ActionCameraPowerState(v, ok) ==
  /\ Handles /\ v # visual
  /\ visual' = v
  /\ ActionCameraControl(sync, v, ok)
  /\ UNCHANGED <<fileVars, type, delayVars, sync, request, showVars, pinVars, todo, modeVars>>

---------------------------------------------------------------------------
(* Requests on the main thread.                                            *)

\* ActionSettingConnectedCamera: without the right only the type is published,
\* and with an invalid one not even that.
\* Seeded fault: a type that comes after the right is only published.
SettingConnectedCamera_Publish(t, ok) ==
  /\ Handles /\ t # type
  /\ \/ /\ ~camera.open /\ known # "invalid" /\ ok
        /\ type' = t
        /\ UNCHANGED <<camera, todo>>
     \/ /\ camera.open
        /\ ok \/ camera.started
        /\ camera' = StopCamera(camera, ok)
        /\ todo' = ReleaseCameraCapture \o << <<"retype", t>> >>
        /\ UNCHANGED type
  /\ Calls(1 + Fault(ok))
  /\ UNCHANGED <<fileVars, delayVars, signalVars, showVars, pinVars, modeVars, astray>>
SettingConnectedCamera(t, ok) ==
  /\ Handles /\ t # type
  /\ \/ /\ ~camera.open /\ GetCameraDisplayStatus = "Initial" /\ ok
        /\ type' = t
        /\ UNCHANGED <<camera, todo>>
     \/ /\ camera.open \/ GetCameraDisplayStatus = "Ready"
        /\ ok \/ camera.started
        /\ camera' = StopCamera(camera, ok)
        /\ todo' = ReleaseCameraCapture \o << <<"retype", t>> >>
        /\ UNCHANGED type
  /\ Calls(1 + Fault(ok))
  /\ UNCHANGED <<fileVars, delayVars, signalVars, showVars, pinVars, modeVars, astray>>

\* IsValidVideoPathAvailable
Available == type # NoType /\ GetCameraDisplayStatus = "Ready" /\ ~waiting

\* ActionVpathCameraCurrent: the capture is opened, the camera muted, frames are
\* sent, the layout changed; a mute whose timer fails is taken off at once.
VpathCameraOn(o, muted, shown) ==
  /\ Handles /\ path = "" /\ Available
  /\ o \in SettingCameraCapture
  /\ ~o.ok => muted /\ shown
  /\ path' = IF o.ok /\ shown THEN CameraPath ELSE ""
  /\ camera' = SetCameraPath(o.cam, path')
  /\ covered' = (o.ok /\ muted /\ shown)
  /\ waiting' = FALSE
  /\ Blame(o, {"send"}, {})
  /\ Attempted(o, <<>>)
  /\ Calls(1 + o.failures + Fault(muted) + Fault(shown))
  /\ UNCHANGED <<fileVars, type, timer, due, signalVars, pinVars, modeVars>>

\* The path is not available: the mute of an earlier change is taken off.
VpathCameraRefused ==
  /\ Handles /\ path = "" /\ ~Available /\ Calls(1)
  /\ covered' = FALSE
  /\ UNCHANGED <<fileVars, type, camera, delayVars, signalVars, path, pinVars, todo, modeVars, astray>>

\* A path the layout keeps is shown without a picture.
VpathCameraOff(muted, shown) ==
  /\ Handles /\ path # ""
  /\ path' = IF shown THEN "" ELSE path
  /\ camera' = SetCameraPath(camera, "")
  /\ covered' = (muted /\ shown)
  /\ astray' = IF shown THEN astray \ {"send"} ELSE astray \cup {"send"}
  /\ Calls(1 + Fault(muted) + Fault(shown))
  /\ UNCHANGED <<fileVars, type, delayVars, signalVars, pinVars, todo, modeVars>>

\* The mute's timer (ReleaseMuteCameraOn, ReleaseMuteCameraOff), on its thread.
ReleaseMute ==
  /\ covered /\ ~asleep
  /\ covered' = FALSE
  /\ UNCHANGED <<fileVars, type, camera, delayVars, signalVars, path, pinVars, todo, modeVars, used, astray>>

\* NotifyCaptureResetEvent: the stream has gone silent.
NotifyCaptureResetEvent ==
  /\ camera.started /\ ~asleep /\ ~silent /\ Calls(1)
  /\ silent' = TRUE
  /\ UNCHANGED <<fileVars, type, camera, delayVars, signalVars, showVars, pinVars, todo, asleep, starting, astray>>

\* ResetCapture
ResetCapture(ok) ==
  /\ Handles /\ silent
  /\ ok \/ camera.started
  /\ silent' = FALSE
  /\ covered' = (covered \/ path # "")
  /\ camera' = StopCamera(camera, ok)
  /\ todo' = ReleaseCameraCapture \o <<Op("reset")>>
  /\ Calls(Fault(ok))
  /\ UNCHANGED <<fileVars, type, delayVars, signalVars, path, pinVars, asleep, starting, astray>>

\* StrSuspendPathClearCamera: a path the layout keeps stays muted for now.
StrSuspendPathClearCamera(shown) ==
  /\ shown \/ path # ""
  /\ path' = IF shown THEN "" ELSE path
  /\ covered' = IF path = "" THEN covered ELSE ~shown

\* StrStateEvent and StrSuspend: the path is cleared and the capture closed.
StrSuspend(ok, shown) ==
  /\ Handles /\ Calls(1 + Fault(ok) + Fault(shown))
  /\ ok \/ camera.started
  /\ asleep' = TRUE
  /\ StrSuspendPathClearCamera(shown)
  /\ camera' = StopCamera(camera, ok)
  /\ todo' = ReleaseCameraCapture \o <<Op("suspend")>>
  /\ UNCHANGED <<fileVars, type, delayVars, signalVars, pinVars, starting, silent, astray>>

StrResume ==
  /\ asleep /\ todo = <<>>
  /\ asleep' = FALSE
  /\ UNCHANGED <<fileVars, type, camera, delayVars, signalVars, showVars, pinVars, todo, starting, silent,
                 used, astray>>

---------------------------------------------------------------------------
\* CVhalFileObserverControl::Initialize reads the right; when that fails the
\* entry keeps Initial.
Init ==
  /\ right \in Rights
  /\ known \in {GetStatus, "Initial"}
  /\ noticed = FALSE /\ told = <<>>
  /\ type = NoType
  /\ camera = NoCamera({})
  /\ waiting = FALSE /\ timer = FALSE /\ due = 0
  /\ sync = FALSE /\ visual = FALSE /\ request = FALSE
  /\ path = "" /\ covered = FALSE
  /\ stby2 = FALSE /\ pin = FALSE /\ frame = "Initial" /\ wait = 0 /\ draw = "idle"
  /\ todo = <<>>
  /\ asleep = FALSE /\ starting = FALSE /\ silent = FALSE
  /\ used = 0
  /\ astray = IF known = right THEN {} ELSE {"right"}

Switched == [pin : BOOLEAN, ok : BOOLEAN]

DrawNext ==
  \/ DrawCheck
  \/ DrawCover
  \/ \E g \in Switched : DrawRaise(g)

RestNext ==
  \/ \E g \in Switched : Raise(g)
  \/ \E g \in Switched : Lower(g)
  \/ \E g \in Switched : Close(g)
  \/ Goes("retype") /\ \E o \in SettingtCameraCapture(camera, todo[1][2]) : Retype(o)
  \/ \E o \in SettingCameraCapture : Reset(o)
  \/ SuspendEnds

MainNext ==
  \/ \E v \in Rights : CameraDisplayStatusKept(v)
  \/ \E o \in SettingCameraCapture, refused \in BOOLEAN : CameraDisplayReady(o, refused)
  \/ CameraDisplayDelayed
  \/ CameraDisplayInitial
  \/ \E o \in SettingCameraCapture : OnTimer(o)
  \/ \E s, ok \in BOOLEAN : SetCameraSync(s, ok)
  \/ \E r \in BOOLEAN : SetCameraType(r)
  \/ \E v, ok \in BOOLEAN : ActionCameraPowerState(v, ok)
  \/ \E t \in Types \cup {NoType}, ok \in BOOLEAN : SettingConnectedCamera(t, ok)
  \/ \E o \in SettingCameraCapture, muted, shown \in BOOLEAN : VpathCameraOn(o, muted, shown)
  \/ VpathCameraRefused
  \/ \E muted, shown \in BOOLEAN : VpathCameraOff(muted, shown)
  \/ \E ok \in BOOLEAN : ResetCapture(ok)
  \/ \E ok, shown \in BOOLEAN : StrSuspend(ok, shown)
  \/ StrResume

OtherNext ==
  \/ \E v \in Rights : FileChanges(v)
  \/ \E ok \in BOOLEAN : FileobPathCallback(ok)
  \/ \E b \in BOOLEAN : MovieStarts(b)
  \/ CallbackTimer
  \/ ReleaseMute
  \/ NotifyCaptureResetEvent

Next == DrawNext \/ RestNext \/ MainNext \/ OtherNext

Spec == Init /\ [][Next]_vars

---------------------------------------------------------------------------
(* The MICON is told that a camera picture is ready only while a capture    *)
(* is open and the camera has not been taken away, and the flag that        *)
(* remembers what it was told is the pin's level; both once the handler is  *)
(* done, and unless switching the pin has failed.  The draw thread decides  *)
(* on state that handlers change meanwhile (SetCameraCaptureFrame,          *)
(* SetCameraCaptureStandby2, CloseCapture).                                 *)
StandbyIsAllowed ==
  todo = <<>> /\ "standby" \notin astray =>
    stby2 = pin /\ (pin => camera.open /\ known # "Initial")

(* A frame that was drawn before VideoHAL got the right is announced when   *)
(* the right comes: the draw thread does not ask again.  Exempt is a frame  *)
(* whose turn came when the path and the request disagreed, or whose pin    *)
(* could not be switched (NotifyReceiveCameraDisplayStatus).                *)
FrameIsAnnounced ==
  todo = <<>> /\ draw = "idle" /\ known = "Ready" /\ frame = "Ready" /\ ~stby2 =>
    "signal" \in astray

(* With all notifications handled, VideoHAL knows the control right that    *)
(* the file holds, unless it could not be read, or changed during a suspend *)
(* (FileobPathCallback, UpdateStatus); and a connected camera that it has   *)
(* the right to is captured, whichever of the two came first, or waits for  *)
(* a movie with a timer that runs or an event that is there, unless opening *)
(* it has failed (OpenCameraCapture, ActionSettingConnectedCamera,          *)
(* OpenCaptureDelayProcess).                                                *)
CapturedByRight ==
  /\ ~noticed /\ told = <<>> /\ "right" \notin astray => known = right
  /\ todo = <<>> /\ ~asleep /\ type # NoType /\ known = "Ready" /\ "open" \notin astray =>
       camera.open \/ (waiting /\ (timer \/ due > 0))

(* A capture holds all it needs, a closed one nothing, whichever step of    *)
(* opening it failed (OpenCapture, ReleaseProcess, CloseCapture).  Its      *)
(* stream runs exactly while the MICON is in sync and the vehicle is        *)
(* visibly on, and its frames are sent exactly while the path is shown, in  *)
(* whatever order signals, paths and openings came; unless QCarCam or the   *)
(* layout refused, or OpenCameraCapture found the path already shown.       *)
CaptureIsAsAsked ==
  /\ todo = <<>> => IF camera.open THEN camera.held = Whole ELSE camera.held \subseteq {"qcarcam"}
  /\ todo = <<>> /\ camera.open =>
       /\ "capture" \notin astray => camera.started = (sync /\ visual)
       /\ "send" \notin astray => camera.send = (path # "")
=============================================================================
