# VideoHAL server: a TLA+ model, its checks and its proofs

This directory holds a formal model of the VideoHAL server
(`src/video_hal/server`), the process that owns the vehicle's cameras, HDMI
input, movie player and displays. TLC checks the modules on small instances;
TLAPS proves the theorems in the `*Proofs` modules for every value of the
constants.

Line numbers below refer to files under `src/video_hal/server`;
`PROJECT.json` maps every definition to the lines it stands for.

## 1. The system

One process. Its **main thread** runs an epoll loop
(`vhal_main_control.cpp`) and owns almost all state. Everything else reaches it
as an event item written to a socket pair (`vhal_event_route.cpp`). The threads
around it are:

- the **PFM thread**, on which the power manager's callbacks run
  (`vhal_main.cpp`); two of them block until the main thread has done its part;
- the **SysDB** library's callback thread and VideoHAL's own SysDB
  initialization thread;
- the **timer library's** thread, which runs the callbacks of `CVhalTimer`, of
  the MICON interval timers and of the camera mute timer;
- the **MICON** receiver thread, the QCarCam **capture** callback, one **draw**
  thread per open capture, the **observer** thread that polls for HDMI and
  capture errors, the HDCP and movie **worker** threads, and GStreamer's own.

### Inventory

| Component | State it keeps | Operations | What is hard | What makes it correct |
|---|---|---|---|---|
| Suspend-to-RAM handshake (`vhal_str_mng`, `vhal_main`, `vhal_property_control` 8184-8350) | four sticky flags, STR mode, suspend flag | PFM suspend and resume, `StrStateEvent`, `WriteEvent`, `DropEvents` | two threads, one 18 s timeout, flags that outlive their cycle | a reported suspend is quiet; a resume completes; no event crosses a suspend |
| SysDB access (`vhal_sysdb_control`) | open stages, deferred write list, init thread | `Initialize`, `SetValue`, `Finalize` | init thread against callers; mutex held over a join | an accepted value is written; nobody blocks for ever |
| Camera mute (`vhal_mute`) | three mute reasons, setting, armed notification, one-shot timer | path switch, sync and power changes, reset, STR, timer callback | two threads on plain members; a callback that comes too late | every switch answered once; the mute always ends; black only for a reason |
| Main loop, event routes, server (`vhal_main_control`, `vhal_event_route`, `vhal_server`) | epoll set, event sources, clients, subscriptions | register, clear, run, drop, accept, answer, notify | removal while a batch is being handled, nested batches, blocking sockets | a removed client is never used; a request is answered |
| Power state (`vhal_main` 182-338, `vhal_wait_event`) | one static wait object | post, wait 1 s, answer | lost and late answers | the callback returns for its own state |
| Property control, property client | values of about 60 properties, path of each display | get, set, notify | order of mute, capture, layout and answer; failure in between | the shown path is the accepted path |
| Video paths and HDMI (`vhal_property_control` 1872-2477, 6382-7599, 9194-9455) | request, path and status of each display; connection, format; the capture's outputs; front cover; HDCP verdict | path request, plug, format, authentication, reset, suspend, surface events | the previous request, the shown path, the connection property and the outputs of the capture are compared with one another and updated at different times | what clients are told, what is shown, played and covered agree |
| Layout manager, IVI controller (`layout/`) | per output: screen, surfaces, path, what was set for each path, mute, sync and background surfaces | path, visibility, opacity, rectangles, clipping, wide mode, mute; the compositor's surface and screen events | surfaces that come and go on their own, events handled late, calls that fail in the middle | what is shown, what covers it and what is published agree |
| Head-up display (`vhal_hud_screen_controller`) | function, request to stay black, stored parameters, mute surface | receive, apply, re-initialise | a plugin that refuses, a surface that appears later, a suspend | only a corrected picture is uncovered |
| Screen shots (`vhal_screen_shot`, `vhal_screen_shot_micon`) | path of the open request, timer | request, answer, timeout, cancel | answers without a number, a timer's callback that comes late | each request ends once, by its own answer or timer |
| Capture, observers, draw threads (`capture/`, `vhal_observer_control`) | list of open captures, buffers, QCarCam handles, observer list | open, start, stop, close, frame, reset | three threads on one list; failed stop; event of a closed capture | no frame or observer of a closed capture is used |
| Camera control by the MICON (`vhal_capture_micon_control`, property control 9461-10233) | sync, power, Standby2, first frame | receive, control, Standby2 | flags set by the draw thread, cached path state | Standby2 is high only with a live picture |
| File observer (`vhal_fileobserver_control`) | HDMI and camera states | poll, update | an observer that removes itself | a reported state is the real one |
| MICON communication (`micon/`) | channel, interval timers, receivers, last message of each kind | send with retry, start/stop interval, receive | retries, timers across a suspend, duplicate filter | what the MICON said last is known; a cyclic send goes on |
| MOST messages to the RSE (`vhal_micon_most_control`, `vhal_micon_most_video_info`, `vhal_net_sequence_manager`) | current sequence, list of sequences, send item, 200 ms and 10 s timers, LS3 channel | notify path, mute, RSE type, repeat, answer, disconnect, suspend | answers, repetitions and timers in any order; a list that is thinned out | a waiting sequence is timed; the RSE plays what it was told last |
| HDCP authentication (`hdcp/`) | authentication phase, worker thread | start, result, retry | thread ends on error | an authentication ends |
| Movie (`movie/`) | player, wait state | play, stop, wait | GStreamer callbacks | a stop stops |
| Colour and picture quality (`color/`) | records per source and mode, shown source, the repeated notification | adjust, select, theme, day and night, force, mute, clear | clear_data on another thread; the camera over the front path | the MICON is told the quality of what is shown |
| Backup, GPIO, environment | single values | read, write | - | - |
| Worker and cycle threads, timers | queue, timer id | start, end, notify, restart | lost restart, dead thread | every notification is handled |
| Client library, stubs, tests | - | - | - | - |

The components meet in four ways: method calls on the main thread; event items
through the socket pair; members shared between threads, some with a mutex and
some without; and callbacks of libraries. The models below cover one instance
of each.

## 2. What is modelled

### StrHandshake: suspend-to-RAM

`StrHandshake.tla` has the PFM thread (`pfm`), the main thread (`main`), the
threads that post events (`writer`), the event socket (`queue`), and the VM's
report in SysDB (`vmStr`, `dbPending`). The four flags of `CVhalStrManager` are
`flag`: a wait does not reset its flag, only `SetStrMode(false)` does, so a wait
is an action that is disabled while its flag is FALSE, and an erased
notification is really lost. `WriteEvent` is two steps, its suspend check and
its write, since nothing holds the two together. `StrSuspend` and `StrResume`
are one step each: what they do to every device is reduced to the MICON channel
(`micon`), the sources (`video`), the covered displays (`blinder`) and the
service state (`service`). `StrResume` may return before it has unmuted a display or
registered the service (a display without a mute surface, the MICON or a status that
cannot be sent). A call of `StrSuspend` that fails is only logged by the code; here
each of them succeeds, so the model says what a suspend leaves when the devices obey.

`StrContract.tla` is what the power manager may rely on, with no thread, flag or
queue in it: phases Running, Suspending, Suspended and Resuming, and when
VideoHAL is active and quiet. `StrProperties.tla` states the properties and the
refinement mapping (phase from `strMode` and `pfm`; active from `suspend`).

### SysdbStartup: opening SysDB

`SysdbStartup.tla` is `CVhalSysdbControl` from `Initialize` to `Finalize`: six
stages that may each fail, first on the main thread and then, with retries, on
the init thread; the list of deferred writes, written out under the mutex one
entry per step; `SetValue` as a look at `sysdb_open_status` and then either an
append or a direct write; `Finalize` with the mutex held over the join, the
deletion of the thread object and the re-entered destructor. Two history
variables, `wanted` and `overlap`, record what was accepted and which paths met
one of the two known races.

### CameraMute: the black surface over the camera

`CameraMute.tla` is the camera part of `CVhalMute` and every handler that
drives it. The main thread and the timer's callback both read and write the
plain bool members `camera_mute_*_`; only `camera_changed_notify_` has a mutex.
So every read and write of a member is a step: a thread is the sequence of
steps it still has to take (`todo`), and a handler is the sequence it starts
with (`Switch`, `SetMuteCameraPathOn`, `ReleaseMuteCameraOn`, ...), defined
under the name of its function. Where the build may read a member twice
(`SetMuteCameraOff`, the argument of `SetBlinderEnable`), both outcomes are
possible.

What is assumed of the timer library: stopping a timer does not wait for a
callback that has begun, one callback runs at a time, and both calls may fail.
The history `overlap` is set when a callback and a handler have been in the
class at once or a call has failed. The layout always shows or hides the surface it is
told to: the code logs a failure and keeps `camera_mute_setting_` all the same.

### CaptureWatch: the watch over the captures

`CaptureWatch.tla` is `CVhalObserverControl`, the interrupt observer of each
started capture and the HDMI observer of the file observer, with the three
threads that meet there. The main thread opens, starts, stops, closes and
resets captures; the QCarCam library's thread runs
`CVhalCaptureEventCallBack`; the observer thread runs `Execute` with
`mtx_item_` held. As in CameraMute a thread is the sequence of steps it still has
to take; the observer thread holds `mtx_item_` exactly while that sequence is not
empty, so a step of another thread that takes the mutex has the guard
`ItemFree`, and a step of the observer thread itself that takes it never
happens. The capture's own mutexes are held between two of a thread's steps
(`QcarcamLocked`, `HeartbeatLocked`).

`p_capture_ctrl_infos_` is a vector without a mutex. `at` is the entry a thread
holds an iterator to; when the entry is erased, or the vector changes and its
entries move, the behaviour ends with `torn` TRUE, since what follows is
undefined. The same holds for the visit of an observer that was freed while
registered, which a failed stop leaves behind (`ghosts`). The properties speak
of what happens up to there, and say so. A search of the vector is one step; a received
frame makes three of them. `unsent` remembers a reset whose event the route could not
write: its flag stays set and nobody asks again.

The retry of a failed HDMI write is an observer too. When it succeeds, its `Notify` calls
`ClearObserver` (`vhal_fileobserver_control.cpp:761`, `:338`), which takes the mutex that
`Execute` already holds, although comments at `:778` and at
`vhal_capture_control.cpp:2686` say that `Notify` must not. The model has that step, and
`SelfLocked` is the state in which the observer thread waits for itself.

What is assumed of the QCarCam library: stopping a stream does not wait for a
callback that has begun. (If it does wait, a callback that waits for
`mtx_qcarcam_` and `StopCapture`, which holds it, block each other.)

### VideoPath: the front and rear video paths and HDMI

`VideoPath.tla` is what `CVhalPropertyControl` does with requests for the front
and rear path, with `CVhalPropertyControlHdmi` and what it needs of
`CVhalLayoutManager`. Every handler runs to its end on the main thread, so a
handler is one action (`ActionVpathFrontCurrent`, `UpdateFilePropertyHdmi`,
`ChangeHdmiVideoFormat`, `UpdateHdcpAuthResultCdisp`, ...). What interleaves is
the order of the handlers and the compositor, which creates and removes the
HDMI surfaces on its own; the event of a new surface waits in the event route
(`created`).

What the model abstracts: the connection is CONNECT or not (DISCONNECT and
CONNECTING are treated alike); OUTOFSPEC is a format like INVALID; whether the
surface of an application exists, the capture opens, or the HDCP key can be
written is open at every step; reads and writes of SysDB succeed (SysdbStartup has
their failures). A capture creates one surface per display, and a capture that
is opened again creates new ones while the old ones may still be there (`surf`
"new" and "old"). A rear screen is laid out once and not removed. HDMI is not
connected at the start: if it were, `Initialize` would use the capture control
before it exists. Not in the model: the cluster and
camera paths, the RSE's authentication (whose key alone also makes `SetHdcpAuthKey` write), and the properties that only store a
value.

### EventLoop: epoll, clients and the power callbacks

`EventLoop.tla` is `RunEventLoop`, `DropEvents`, the event routes, `CVhalServer`
and its clients, and the power callbacks with their wait of one second. The
handlers run on the main thread and are one action each, with one exception: the
STR event's handler calls `DropEvents`, which polls and handles the same sources
while the outer batch is still being worked off. So `batch` and `drop` are both
state, each a set of which any entry may be next, and `dangling` has the clients
that a nested batch has deleted under an entry of the outer one.
The routes are blocking sockets: reading an empty one is an action that is not
enabled. Of the routes, the one for power states and the one that carries the
STR event stand for all. One property stands for those a client can set and
subscribe to (`owed` are the subscribers that have not been told).

What the code does and the properties therefore except: a client whose answer
cannot be sent leaves its change unpublished until the next one; a client whose
event source could not be registered is never heard ("deaf"); a power state that
comes while VideoHAL suspends is refused or dropped, its callback waits its
second, and a later callback may take the late answer for its own; its own answer
is then late too, and the callback after it may take that one.

### MostChannel: what the RSE is told

`MostChannel.tla` is `CVhalMiconMostVideoInfo` with its sequences and commands,
`CVhalNetSequenceManager`, `CVhalMiconCommMostControl`, and the interval timers
they use. The timers' and the LS3 library's callbacks only post events; all else
runs on the main thread. `SendCmd` loops over the commands that are not
answered; each turn is one action while `sending` is TRUE. The RSE is free to
answer any command at any time with any result, twice or not at all.
A timer event whose timer has been destroyed reads freed memory: what it finds
is nothing, or the next timer of that size ("deadTick").

Left out: the bytes of a command, the geometry of the displays in it, and a timer that
cannot be started (after a successful send the code then takes the command as failed). Of a
suspend only what it does to the channel is here; StrHandshake has its two
threads. A suspend in the middle of a sequence takes the timer and keeps the
sequence (`cut`); and `initialized_most_` stays set over a suspend, so that
an RSE that connects afterwards finds LS3 closed. The model has both behaviours;
there is no property that the second would satisfy.

### MiscChannel, HudScreen, MiconScreenShot: what the MICON tells

`MiscChannel.tla` is `CVhalMiconCommMiscControl` and the receivers of the MISC
messages. The library's thread delivers a message in two steps, comparing it with the
last of its kind and posting it (`CallbackCompares`, `NotifyReceiveEvent`); the main
thread hands it to the receivers, whose decoding is one operator each
(`ActionHdmiVideoFormat`, `SetCameraSync`, `MakeHdcpAuthKey`, ...). `HudScreen.tla` and
`MiconScreenShot.tla` have the operators of the head-up display's controller and of the
screen shots that the MICON takes; the screen shot's timer has a thread of its own.
A suspend is three steps: events are refused, everything is stopped and the queue
dropped, and after the resume events are taken again before the callback is registered,
which may fail.

What the MICON said last is history (`said`), and so are the number of a screen shot's
request, which the messages do not carry, and the plugin's refusals. It is assumed that
a callback that has begun ends after its registration was removed too, and that the
MICON answers a request once or never, and nothing it was not asked.

`MiconChannels` puts the channel beside `MostChannel`. The two share nothing but
the suspend, so that a behaviour is about the MOST channel or about one topic of
messages, and the other stands still.

### PictureQuality: what the MICON is told of the picture

`PictureQuality.tla` is `CVhalColorManager`, its records and the notification
`CVhalColorSendItemQuality` that is repeated to the MICON, with the handlers that
change them and the mute surface that two of them share. `ClearColorStep` runs on
the power manager's thread: one step per record, since its lock is held for one
record at a time; so an adjustment, too, is one step per lock it takes.
`NotifiedIsWanted` compares what is sent with what the properties and the layout
ask for, computed without the manager. `behind` collects the reasons for which
the code leaves the two apart, each of them set by one place:

| reason | what has happened |
|---|---|
| `unsent` | the item was changed and not applied (a day and night switch with another source selected), or its first notification was not sent; the next request that applies heals it |
| `own` | the item's copy of the shown source's steps lags its record: a record that could not be saved or was adjusted while a clear ran, an edit of the linked source (DTV and HDMI share their steps), a clear that took another source's steps |
| `theme` | the same for HMI's and the multisensory path's steps |
| `front` | the front path became empty while the camera covered it, and the item keeps the old one |
| `path`, `camera` | a suspend could not clear the layout's path |

A failed switch of the mute surface leaves the display open although the status
says muted, and asking again is no change (`failed`); `IN_VEHICLE` covers the
display without the status (`held`). The contents of the backup file, the
rectangles sent along and the MICON's answer, which is only logged, are left out.

### DisplayLayout: surfaces, rectangles and covers of an output

`DisplayLayout.tla` is one output of `CVhalLayoutManager`, chosen at the start:
the front display, the rear display, the cluster or the camera over the front
share no state but the compositor and the layout file. It is built on three modules
without state of their own: `Rectangles` (what a wide mode makes of a picture and an
output, in the code's whole percentages), `VideoSetting` (`CVhalLayoutVideoSetting`:
what was set for each path and output) and `IviController` (`CVhalIviController`: the
compositor's surfaces and layers, where a surface's visibility and rectangles
wait for the next commit of anything).

Applications create, configure and delete the surfaces of their paths in the
compositor; its callbacks post events, which the main thread handles when the
surface may have gone or changed. A handler of a request (`VpathFrontCurrent`,
`VpathFrontOutput`, `SetCameraInputSize`, `IviLayerOrder`, ...) or of an event
(`HandleSurfaceEvent`, `NotifyOutputAdded`) is one action; its parts are operators on
the record of everything a handler changes, named after the manager's functions, so
that the order of calls and what is kept after a failure is the code's.

The visibility HDMI's authentication asks for is VideoPath's; the compositor's own
errors, other than a surface that is not there, are left out.

`behind` has the reasons for which a property may not hold. Each is a behaviour
of the code, set where it happens and taken back by what heals it:

| reason | what has happened |
|---|---|
| `bg` | a change of visibility or opacity found no surface: the setting changed, the background did not; it was drawn or added again; or a current path that the layout file shows by itself became visible |
| `out` | a rectangle was set without a surface or screen, or the camera's was set by its size: the published one is older |
| `place` | the covers were left where they were: the surface was missing or not drawn, or another path of the output moved them |
| `rect` | a size of the camera's picture changed the settings and not the surface |
| `visible`, `opacity` | the defaults of a new path found HDMI without a surface, and the status keeps what was published, so that a request that repeats it is no change; for `visible` also a current path that the layout file shows by itself |
| `clip` | a path that is taken again keeps its clipping switch, while its rectangle is cleared and clipping is published as off |
| `muted` | a mute was asked for without a path, a path was cleared under it, or the mute surface was added again, hidden |

Two more are in the model without a property: a surface created during a suspend is
never added to its layer, and a repeated screen event hides and adds all surfaces
again.

### CameraControl: the camera, its draw thread and the pin

`CameraControl.tla` is `CVhalPropertyControlCamera` and `CVhalCaptureCamera`, the
opening and closing in `CVhalCaptureControl`, the draw thread of `CVhalCaptureDraw`,
the file observer's camera entry, the MICON's camera messages, the timer of the
delayed opening, and the pin CAMERA-CAP-STBY2.

A handler is one action up to where it needs the draw thread: closing a capture
joins that thread, and the pin is switched under the mutex it holds while it
draws. The rest is in `todo`, whose entries are taken once the thread is idle
(`Joined`). The draw thread reads the path and the request, then the mute, then
the right (`DrawCheck`, `DrawCover`, `DrawRaise`), while handlers run. Opening is a
chain of operators, one per step, each with the outcomes it may have and the
resources it leaves (`Acquire`).

The movie player is "a movie starts" or not; the mute's timer may expire at any
moment (CameraMute has its steps); the observers of the capture are CaptureWatch's;
what the layout does with the path is shown or refused. QCarCam, the GPIO, the
timer, the layout and the file may fail at every call.

`astray` has the reasons for which a property may not hold, each set where it happens
and taken back by what heals it:

| reason | what has happened |
|---|---|
| `open` | opening a capture failed; nothing tries again by itself |
| `capture` | QCarCam refused a start or a stop; the next message that changes anything tries again |
| `send` | the capture was opened with its path already shown, or the layout kept a path that was to go |
| `standby` | the pin could not be switched: flag and level may differ |
| `signal` | a drawn frame was not announced: the path and the request disagreed when its turn came, or the pin could not be switched |
| `right` | the observed file could not be read, or changed during a suspend |

## 3. What the runs show

| Run | Module, configuration | Result |
|---|---|---|
| `str_nominal` | MCStrHandshake, `MCStrNominal.cfg` | all hold |
| `str_late` | MCStrHandshake, `MCStrLate.cfg` | all hold |
| `str_lost_wakeup` | MCStrHandshake, `MCStrLostWakeup.cfg` | `ResumeCompletes` violated |
| `event_loop` | MCEventLoop, `MCEventLoop.cfg` | all hold |
| `camera_control` | MCCameraControl, `MCCameraControl.cfg` | all hold |
| `sysdb_startup` | MCSysdbStartup, `MCSysdbStartup.cfg` | all hold |
| `mute` | MCCameraMute, `MCMute.cfg` | all hold |
| `capture_watch` | MCCaptureWatch, `MCCaptureWatch.cfg` | all hold |
| `video_path` | MCVideoPath, `MCVideoPath.cfg` | all hold |
| `display` | MCDisplayLayout, `MCDisplayLayout.cfg` | all hold |
| `picture` | MCPictureQuality, `MCPictureQuality.cfg` | all hold |
| `micon_channels` | MCMiconChannels, `MCMiconChannels.cfg` | all hold |

**`str_nominal`.** With every resume inside the 18 s wait: at most one event per posting
thread crosses a suspend (`LeakAtMostOnePerWriter`), STR mode lasts until the resume is
over (`StrModeUntilResumed`), the handshake implements `StrContract`
(`ImplementsContract`), and every resume completes (`ResumeCompletes`).

**`str_late`, `str_lost_wakeup`.** When `StrResume` may outlast the wait
(`SlowSteps = {"strResume"}`, which includes the resumes that do not), a suspend reported
to the power manager is still quiet (`SuspendedIsQuiet`), but a later resume can hang: the late `ResumeVhal` stays set, ends the next resume's wait at
once, and `SetStrMode(false)` then erases `ResumeSystem` before the main thread,
which waits without a timeout, has seen it. `StrModeUntilResumed` and
`ImplementsContract` fail there for the same reason.

**`sysdb_startup`.** Apart from the two recorded races no accepted value is lost
(`QueuedOrWritten`); `Finalize` returns
when no init thread was needed (`FinalizeReturnsWithoutThread`).
Two behaviours of the code are therefore outside: a write that races the list can
be overwritten by an older one or lost with the list, and `Finalize` never
returns once an init thread was created: it either joins a thread that needs
the mutex it holds or re-enters itself through the destructor.

**`mute`.** No more notifications are sent than were armed and not withdrawn, so
a switch that has failed is not answered again (`OneAnswerPerSwitch`); a switch
mute that is set always has an owner that will end it (`MuteHasOwner`); every
switch is answered (`SwitchAnswered`); the camera is covered while the layout changes (`MutedWhileSwitching`). The callback may however decide
to uncover the camera, the main thread handle a loss of sync, find the setting
already on and do nothing, and the callback then uncover the unsynchronised
camera: that a loss of sync stays covered holds only without such an overlap.

**`capture_watch`.** Every started capture is in the observer's list, about to be
put there, or its reset is on its way, and a capture whose reset flag is set,
which nobody will report again, has that reset in the event route, about to be
posted, or overtaken by its own closing, unless the event could not be written
(`StartedIsWatched`); a stream that goes silent is closed (`SilentIsReset`); every handler
of the main thread returns to the event loop (`MainReturns`). The last two except, by
name, the deadlock the code has (`SelfLocked`): when the HDMI observer's retry succeeds,
the observer thread stops for ever, no silent stream is noticed any more, and the main
thread hangs at the next start or stop of a capture. The run reaches this state; the
property shows that no other order of the three mutexes, and no failing call, keeps a
handler from returning.

**`video_path`.** Every display that shows HDMI plays it once READY was told,
unless its restart failed (`ReadyIsPlayed`). The capture plays only where HDMI is
shown, or where a switch after a refused request did not stop it
(`PlayingIsShownOrLeaked`). A client whose answer is withheld until the HDMI
surface exists is not forgotten (`WithheldIsOwed`). The cover of the front
changes only as the HDCP verdict of that moment says (`CoverFollowsVerdict`). The
histories `leaked` and `unopened` say which outputs the exceptions cover; both are
real behaviours: a refused HDMI request sets the connection property to NONE
without stopping anything, and that property, not the connection, is what the
next change is compared with. When HDMI is then unplugged no change is seen and
the capture plays on. Three further invariants, which the proofs need, are proved
and not run.

**`event_loop`.** Every entry of the outer batch points to a live client, but for
those a nested `DropEvents` has deleted (`BatchIsLive`). A subscriber that was not
told of a change will be told with the next (`SubscribersAreTold`). A power
callback that returns in time was handled itself, or takes the answer of one that had
been given up, or that had itself taken such an answer (`AnswerIsOwn`; the chain of
late answers can go on, which two power states do not show and the proof did). A request is answered unless the loop suspends, ends or blocks
(`RequestIsAnswered`). It can block: when a power state and the STR event are in
one batch, the suspend's `DropEvents` empties the power state's route; after the
resume the outer batch reads it (`vhal_event_route.cpp:285`), and waits until
somebody posts another event to that very route, although
`vhal_property_control.cpp:8329` says that the suspend's processing is over. A
shutdown in that state is not noticed either; `DropEvents` itself never ends once
the main route has hung up.

**`micon_channels`.** A sequence that waits for an answer has the ten second timer
or its event to come (`WaitingIsTimed`). A sequence waits in the list only behind
another one, or after an answered command could not be started
(`QueuedBehindCurrent`). A source the RSE was told to turn on is the one shown
last, is about to be turned off, or its "off" was dropped with a sequence
(`ActiveIsShownOrLeft`). The repetition of a command is refused only for a timer
that has outlived its sequence (`RefusedOnlyWhenStale`).

Of a message of which nothing is on its way, the HAL knows what the MICON said last since
it is listened to, although repeated messages are dropped (`LatestIsKnown`). A callback
that outlives its registration is excepted (`missed`): it remembers its message after the
suspend has forgotten all, its event is refused, and the same message is then dropped as
known until the MICON says something else. The head-up display's picture is uncovered
only when the vehicle has the function, it need not stay black and the plugin has taken
what it was given last, which is what the MICON wants (`HudShowsOnlyCorrected`). Two
behaviours are excepted. Parameters the plugin refuses are forgotten, so that a
rotation it takes uncovers the picture with the corrections of before (`refused`); and
what the surface is to be shown by when its first size comes outlives a suspend, so that
it may be placed open without the function (`stale`). Of the requests for a screen shot
all but the last have ended, and the open one will end, by its timer at the latest
(`ShotsEndWithTheirOwn`). Comments in the source (`vhal_screen_shot_micon.cpp:420`, 447)
say that a late answer is ignored; the code has no means to tell: it ends the next
request, with the earlier one's picture. That a request ends by its own answer holds
when nothing of an earlier one was under way (`alone`).

**`picture`.** The mute surface covers the display exactly while a mute or a dark
backlight is requested or the power state holds it (`CoverFollowsRequests`). The
MICON is told the quality that the paths, steps and modes call for
(`NotifiedIsWanted`).

**`display`.** Only the current path shows, but for surfaces the layout file
shows at once (`OnlyTheCurrentPathShows`); once its surface has settled it is
shown where and as it was set (`SurfaceAsSet`); the background is behind an opaque
visible path and the covers lie on the video (`PlanesFollowTheVideo`); what is published is what is set (`StatusFollows`). Before it
starts, TLC evaluates what the wide modes promise (`WideModesAsMeant`) over all small
pictures and outputs.

**`camera_control`.** The MICON is told that a picture is ready only while a
capture is open and the camera has not been taken away, and the flag agrees with
the pin (`StandbyIsAllowed`). A frame that was drawn before the right came is announced
when it comes (`FrameIsAnnounced`). VideoHAL knows the right the file holds,
and a connected camera it has the right to is captured, or its opening waits for a
timer or its event (`CapturedByRight`). An open capture has everything it needs and a
closed one keeps nothing, whichever step failed; the stream runs while the MICON is in
sync and the vehicle visibly on, its frames are sent while the path is shown (`CaptureIsAsAsked`). Each has the
exceptions that the table in section 2 lists. One matters most: when a capture could not be opened again while its path is shown, and
the right is given anew, the capture is opened and not told of the path. The picture
stays black, the MICON is told that it is ready, and a repeated request for the
path is no change.

### Bounds, and why they are enough

- **STR**: `MaxCycles = 2`, since the hazards are flags of one cycle read in the
  next; one posting thread besides SysDB and one event of slack in the socket
  (`MaxQueue = 2`), since events of more threads behave alike; `MaxPending = 2`
  notifications, the fewest that coalesce; two displays, one left muted by a
  resume.
- **SysDB**: `Retries = 3` in place of 120 (first, middle and last attempt);
  three calls of `SetValue` from two threads over two paths, one with a queued
  default; two values.
- **Mute**: one camera path and no path; in the passing run `BudgetAll` allows
  two switches (the callback of the first meets the second), one sync or power
  change, and one reset or STR cycle.
- **Capture watch**: both captures; two requests (open, close, reopen, a change of
  sync or power, an HDMI state), so that one capture can be opened and then
  stopped under an observer that is at work; one suspend; one silent stream or
  receiver error, whose reset may fail at every call.
- **Video paths**: no counter and no budget: every behaviour of the model is
  explored. One application path stands for all that are not HDMI (the code
  treats them alike) and one key for all (a key is only compared with the one
  known); both displays, since one of them may be refused while the other plays.
- **Event loop**: three power states (the answer of the first reaches the second,
  whose own answer reaches the third), two
  clients (one may be deleted by the batch the other is in), at most two of these
  at once (`MaxLoad`), one further event (`MaxQueue`); no bound on requests,
  connections, suspends or their order.
- **MOST**: two sources of the RSE's own display, so that one replaces the other; four
  requests (the first runs, the second waits, the third thins it out, the fourth
  disconnects); one suspend; an answer or tick may be posted while one event
  waits. The rear display's path, which another run of the same size would need,
  stays empty.
- **MISC**: four messages of one topic (a value, another, the first again, and one
  more after the suspend), two values of each kind and one that is out of range or too
  short, one waiting in the queue when the next is sent; three requests for a screen shot (one late
  for the second, the third undisturbed), one suspend.
- **Picture**: one kind, two steps, two modes and one theme; five requests, failures and calls
  of `clear_data` together (an edit, a path, the camera on and off, a clear).
- **Camera**: two types of camera, so that one replaces the other; one frame to wait
  for after the mute instead of three (`kCameraCapStby2WaitCnt`); eight requests,
  messages, changes and failures together (`MaxCalls`): the right, a type, sync and power, the
  path and the request make a picture, and two remain to disturb it.
- **Display**: of each output a path that needs its surface, of the displays also HDMI,
  which does not; two sizes of a surface, clippings inside one of them or both, a
  rectangle smaller than the screen; the two wide modes whose results differ most; two
  events waiting; five requests and changes together (create, configure, take, and
  two more), six when the outputs are checked one at a time.

Deadlock is checked for VideoPath, where a request is always possible. It is not
checked elsewhere: in those models the outside events are bounded and the server
then waits in its event loop, or it has ended.

### Fairness

Weak fairness of each thread's own steps: the operating system runs a thread
that can run. In CaptureWatch the fairness of the main thread's steps and of an
observer's visit is strong: the mutex is free again and again, since the observer
thread sleeps between two executions, and a thread that waits gets it some
time; an observer that is registered is due again and again. A started timer expires, because the timer library is asked for
a one-shot timer. In EventLoop the main thread takes its next step if it can,
and a PFM thread that waits for its second comes to the end of it. A writer that has passed `WriteEvent`'s check writes. Nothing
is assumed of clients, the power manager, the VM, the camera or the success of
any call that may fail; in particular a resume, a shutdown or a retry that
succeeds never has to come.

Each property of a passing run is accompanied by a faulty variant of a
definition (comment "Seeded fault", named after the definition) under which TLC
finds it violated.

## 4. What is proved

| Theorem | Property |
|---|---|
| `StrProofs!TypeCorrect`, `MuteProofs!TypeCorrect`, `CameraProofs!CameraTypeCorrect` | `TypeOK` |
| `StrProofs!SuspendedQuiet` | `SuspendedIsQuiet`, whatever times out |
| `StrProofs!LeakBounded` | `LeakAtMostOnePerWriter` |
| `StrProofs!StrModeHolds` | `StrModeUntilResumed`, if no resume outlasts the wait |
| `StrProofs!HandshakeImplementsContract` | `ImplementsContract`, if no resume outlasts the wait |
| `RuntimeProofs!StartupTypeCorrect`, `LoopTypeCorrect`, `TypeCorrect` | the types of SysdbStartup (`StartupTyped`), EventLoop (`LoopTyped`) and VideoPath (`TypeOK`) |
| `RuntimeProofs!NothingElseLost` | `QueuedOrWritten` |
| `MuteProofs!AnswersCorrect` | `OneAnswerPerSwitch` |
| `MuteProofs!OwnerCorrect` | `MuteHasOwner` |
| `MuteProofs!CoveredCorrect` | `MutedWhileSwitching` |
| `WatchProofs!WatchTypeCorrect` | `TypeOK` |
| `WatchProofs!WatchedCorrect` | `StartedIsWatched` |
| `RuntimeProofs!ReadyCorrect`, `ReadyPlayedCorrect` | READY only for an HDMI that can be played; `ReadyIsPlayed` |
| `RuntimeProofs!PlayingCorrect`, `MuteCorrect` | `PlayingIsShownOrLeaked`; the cover only while the front plays |
| `RuntimeProofs!AnswersOwed`, `SuccessCorrect` | `WithheldIsOwed`; a SUCCESS is about the last request |
| `RuntimeProofs!CoverCorrect` | `CoverFollowsVerdict` |
| `MiconProofs!TypeCorrect` | `TypeOK` |
| `MiconProofs!WaitingCorrect` | `WaitingIsTimed` |
| `MiconProofs!QueueCorrect` | `QueuedBehindCurrent` |
| `MiconProofs!RefusalCorrect` | `RefusedOnlyWhenStale` |
| `MiconProofs!ActiveCorrect` | `ActiveIsShownOrLeft` |
| `MiconProofs!LatestCorrect` | `LatestIsKnown` |
| `MiconProofs!HudCorrect` | `HudShowsOnlyCorrected` |
| `MiconProofs!ShotsCorrect` | `ShotsEndWithTheirOwn` |
| `MiconProofs!EachChannelRuns` | what holds of each channel holds in `MiconChannels` |
| `RuntimeProofs!BatchCorrect` | `BatchIsLive` |
| `RuntimeProofs!SubscribersCorrect` | `SubscribersAreTold` |
| `RuntimeProofs!AnswerCorrect` | `AnswerIsOwn` |
| `PictureProofs!QualityTypeCorrect` | types (`QualityTyped`) |
| `PictureProofs!NotifiedCorrect` | `NotifiedIsWanted` |
| `PictureProofs!CoverCorrect` | `CoverFollowsRequests` |
| `CameraProofs!StandbyCorrect` | `StandbyIsAllowed` |
| `CameraProofs!AnnouncedCorrect` | `FrameIsAnnounced` |
| `CameraProofs!CapturedCorrect` | `CapturedByRight` |
| `CameraProofs!CaptureCorrect` | `CaptureIsAsAsked` |
| `DisplayProofs!Safety`, `TypeCorrectness` | the inductive invariant `Inv` of DisplayLayout; `TypeOK` |
| `DisplayProofs!CurrentPathShows` | `OnlyTheCurrentPathShows` |
| `DisplayProofs!AsSet` | `SurfaceAsSet` |
| `DisplayProofs!PlanesFollowing` | `PlanesFollowTheVideo` |
| `DisplayProofs!StatusFollowing` | `StatusFollows` |

The assumptions are the named `ASSUME`s of the modules: constants have their
types and names differ. No set need be finite. MiscChannel, which MiconChannels
instantiates, has its assumption as the definition `MiscAssumption`, which
MiconChannels assumes.

- **SuspendedQuiet.** `SuspendedIsQuiet` speaks of the moment after the callback
  returned, which says nothing of how the threads got there. `QuietInv` adds
  where the one STR event is (`OneStrQueued`, then handled, then answered), that
  `SuspendVhal` is set only after it was handled, and that the main thread is
  parked until the PFM thread asks for the resume. None of it depends on the 18 s
  timeout.
- **LeakBounded.** The events of before the suspend that are in the queue or still
  to be written, per thread; only a thread held between check and write has one.
- **The refinement.** `LockstepInv` adds which positions of the two threads can
  occur together; with it every step of the handshake is a step of `StrContract`
  or a stutter.
- **NothingElseLost.** `ControlInv`: nobody appends while the list is written out,
  because its writer holds the mutex, and SysDB is opened by one thread at a
  time. `ValueInv`: some entry of the list is the last for its path, carries the
  last accepted value, and is still to be written or already in SysDB.
- **AnswersCorrect.** The armed notification is a credit: events posted plus the
  credit never exceed the notifications armed and not withdrawn.
- **OwnerCorrect.** `MuteHasOwner` is not inductive: a thread may be about to set
  the mute. `OwnerInv` says in what order the main thread's remaining steps
  come: after every `pathOn` comes a step that ends the mute; after a suspend
  come the re-initialisation and the resume and no step of a switch, so that a
  callback that finds VideoHAL suspended may drop its release.
- **CoveredCorrect.** `CoverInv`: while no callback and no refused timer call has come
  between the main thread's steps, the surface is as the mute says or a thread is about
  to make it so; each step a switch has left comes with what the steps before it have
  set; and no callback is in CVhalMute that was not there at the switch's first step.
- **WatchedCorrect.** `StartedIsWatched` is not inductive either: a flag is set
  two steps before the event is posted, and an observer removes itself one step
  after. `IndInv` lists the steps the callback and the observer thread can have
  left and the entry each holds (`LibOK`, `ObsOK`), and says of the main thread
  (`MainOK`) that an observer is unregistered right after its capture was
  stopped, and that a suspend, in which the event route refuses resets, still
  has to close every capture before it resumes. It holds up to the first use of
  a freed entry or observer (`torn`).
- **The video paths.** The invariants are inductive only together (`IInv`): a
  capture reset restarts HDMI as the connection and the format say and does not
  look at the property, so that `ReadyIsPlayed` needs `ReadyIsPlayable`; an answer
  that is owed needs the capture's surfaces to be retired exactly when it is
  destroyed. The lemmas follow the handlers: what a stop, a restart and an answer
  do, then one lemma per handler.
- **The MOST channel.** The invariant `IInv` of MiconProofs adds to the three
  properties what ties the channel's parts together: a queued timer event has
  its timer in the list; the list's timer belongs to the sequence that waits,
  unless it is stale; without an RSE that uses MOST no command that is answered is started,
  since its send would succeed without a timer.
- **ActiveCorrect.** A source that is on need not be the one that is set: its "off" may be
  waiting. `ActiveInv` follows every "on" from the sequence that will send it, and the
  one that repeats it, to the sequence that will send the "off": whatever is or will be
  turned on by what is left of the current sequence and of the list is the path that is
  set in the end, is turned off by a later sequence, or is among the known losses
  (`left`).
- **LatestCorrect.** `WillKnow(k, w)`: when the queue has been worked off, the HAL has
  made `w` of the messages of kind `k`. `KnownInv` says that of what was said last and of
  what is remembered to compare with, unless that message is itself on its way; until
  the callback is registered nothing has been said. A message that is dropped is the
  remembered one, and what the HAL will know anyway.
- **HudCorrect.** `HudInv`: a parameter is stored to be given, was refused, or has been
  given; "init", which the surface is placed by later, is off only when all is corrected,
  unless it is from before a suspend; a surface that is placed is covered whenever the
  system is suspended. It is the record's invariant and follows the controller's calls.
- **ShotsCorrect.** `ShotInv`: while a request is open that was alone when it was sent,
  all that may end it (the answer in the callback or in the queue, the timer, its thread,
  its events, the MICON's file) is its own.
- **The event loop.** `BatchIsLive` needs that a batch has one entry for a source, so that
  a handler does not leave another entry of the client it removes. `AnswerIsOwn` needs
  that every power state in the route is the awaited one or one whose wait has ended
  without its own answer, that there is at most one STR event, and only while its
  callback waits, and that what was answered last is no later than what is awaited.
- **NotifiedCorrect.** Nothing is behind only between requests, so `QualityInv` says for
  every step of an adjustment how far the copies lag: before the record is written the
  item has the record's steps (`Fresh`), what was read differs in the adjusted kind alone
  (`Changing`), what will be written is the record with it (`Writing`); afterwards the
  item has the new steps but for that kind (`Written`), unless a clear has come in
  between. `Shown` ties item, manager and layout together: while the camera is shown no
  suspend has left its path behind, so that a front path asked for meanwhile is only kept.
- **CoverCorrect.** Either of the two requests leaves the surface alone while the other
  one wants it covered, and then the surface follows neither.
- **The camera control.** The four properties speak of the moments between handlers; the
  invariant `IInv` of CameraProofs says what holds while one has steps left and the draw
  thread runs. `HandlerInv` knows the handler by its last step: only one that closes the
  capture, or that failed to start its thread, leaves it with less than all its resources,
  and the draw thread has work only while a capture is open and does not fail. `PinInv`:
  the pin is high without a right only while the handler that took the right away has
  still to lower it. `FrameInv` exempts a handler that is about to raise the pin.
  `RightInv` speaks of the value known when all notifications have been handled, and
  `CaptureInv` is what the handlers leave to each other.

- **The display.** A handler of DisplayLayout is a composition of operators on one
  record, so the proofs follow the operators: each has a lemma that says what it changes
  in terms of a few functions of the record (`Shown`, `Heard`, `Lies`, `Vis`, `Out`, ...),
  one lemma per handler puts them together, and one per action shows that `Inv` stays.
  The four properties speak of what is committed and of the current path, and none is
  inductive. `Base` adds that outside a handler everything asked of the compositor has
  been committed, but for where the camera's mute lies, and that only a surface that
  exists is shown or listened to. `Sight` adds that a shown current path is set to be
  visible also before its size is known, and that no mute is shown without a path.
  `Geometry` adds that a path whose size is known has an output rectangle, since a size
  that comes later would otherwise place the video by itself, and for the camera, whose
  path may be set while its surface shows, says where the surface of every path lies.
  `Layered` knows the sorted layers, `Connected` that a rear or cluster path
  needs the screen, `Announced` which event will correct what clients were told, and
  `Asleep` what a suspend hides. The sorting is shown to return every layer by counting:
  the ranks of the layers differ, so that each position is the rank of one.

`RuntimeProofs` holds the proofs about SysdbStartup, EventLoop and VideoPath. They share no
variable, and each is proved by itself.

`StepSequences` defines what is among the steps a thread has left (`Has`) and
what follows what (`Later`); the first lemmas of `MuteProofs` and `WatchProofs` carry
both through `Tail` and concatenation.

The type invariants hold by these theorems and are not among the runs'
properties. Only model-checked: all liveness properties (the prover does not
treat fairness), and `WideModesAsMeant`, which TLC evaluates over all small rectangles.

## 5. What is not modelled, and the plan

Not modelled because there is nothing to interleave: backup, environment,
the compositor's screen shots (one call after another on a thread), the client
library, the encoding of messages. What a power state changes in the properties
and the properties that only store a value are left out as well. Planned:

- **HdcpAuth** and **Movie**: the authentication phases and the player against
  their worker threads.

Known and not stated as properties: a `SuspendApps` answer of one STR cycle may reach the
next (`ActionVmStrChange` reads SysDB late); the sync state remembered for a camera path
(`vhal_property_control.cpp:9737`) is not refreshed when the path changes, which
CameraMute, with one path, does not have; `Finalize` of SysDB may have to wait for
all retries of a stage (`vhal_worker_thread.h:168`).
