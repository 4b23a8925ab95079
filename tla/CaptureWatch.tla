---------------------------- MODULE CaptureWatch ----------------------------
(***************************************************************************)
(* The watch over the captures: CVhalObserverControl, whose thread calls   *)
(* registered observers under one mutex (mtx_item_), the interrupt         *)
(* observer of each started capture, which asks for a reset of a capture   *)
(* that has gone silent, and the HDMI observer of the file observer, which *)
(* writes the HDMI state again after a failure.                            *)
(*                                                                         *)
(* The main thread starts, stops, opens and closes captures, the QCarCam   *)
(* library's thread runs the event callback, and the observer thread runs  *)
(* CVhalObserverControl::Execute.  All three search p_capture_ctrl_infos_, *)
(* a vector without a mutex, and keep an iterator while they use an entry. *)
(*                                                                         *)
(* A thread is the sequence of steps it still has to take.  The observer   *)
(* thread holds mtx_item_ exactly while it has a step to take.             *)
(***************************************************************************)
EXTENDS Naturals, Sequences, StepSequences

CONSTANTS
  Captures,       \* the inputs that can be captured
  HdmiInput,      \* the one of them whose receiver can report an error
  HdmiStates,     \* connection states written to the file
  None,           \* no capture, no state
  Failing,        \* the library calls that may fail: "open", "start",
                  \* "stop", and the write of a reset event: "post"
  Budget          \* bound: how often each kind of outside event happens

\* Sync and power changes, opening, closing and HDMI states; suspends; streams
\* that go silent and errors of the receiver.
Kinds == {"request", "suspend", "fault"}

ASSUME WatchAssumption ==
  /\ HdmiInput \in Captures
  /\ None \notin Captures \cup HdmiStates
  /\ "hdmiState" \notin Captures
  /\ Budget \in [Kinds -> Nat]

Thread == {"main", "lib", "obs"}
Do == {"start", "register", "stop", "unregister", "control", "open", "erase",
       "suspend", "closeAll", "resume", "hold", "write", "wrote", "unwritten",
       "set", "clear", "watchHdmi", "find", "beat", "notify", "submit", "error", "check",
       "flag", "post", "end", "read", "endHdmi"}
Step == Do \X (Captures \cup HdmiStates \cup {None})

VARIABLES
  open,         \* captures with an entry in p_capture_ctrl_infos_
  started,      \* qcarcam_start_
  stream,       \* QCarCam delivers frames for the handle
  silent,       \* ... but has stopped to do so by itself
  beat,         \* inter_heartbeat_
  reset,        \* reset_event_send_
  watched,      \* observe_list_: captures, and "hdmiState"
  ghosts,       \* captures whose freed observer is still in observe_list_
  want,         \* sync and power state (camera) or path (HDMI) ask for frames
  events,       \* capture-reset events in the event route
  unsent,       \* history: open captures whose reset event could not be written
  suspend,      \* CVhalStrManager's suspend_
  file,         \* the HDMI state the file holds
  held,         \* hdmi_state_ of the HDMI observer
  current,      \* hdmi_state_current_
  initialized,  \* hdmi_initialized_
  todo,         \* per thread: the steps it still has to take
  at,           \* per thread: the entry it holds an iterator to
  torn,         \* an iterator or an observer has been used after it was freed
  left          \* bound: outside events that may still happen

capVars  == <<open, started, stream, silent, beat, reset>>
hdmiVars == <<file, held, current, initialized>>
listVars == <<watched, ghosts>>
vars == <<capVars, listVars, want, events, unsent, suspend, hdmiVars, todo, at, torn,
          left>>

TypeOK ==
  /\ open \subseteq Captures /\ started \subseteq Captures
  /\ stream \subseteq Captures /\ silent \subseteq Captures
  /\ beat \subseteq Captures /\ reset \subseteq Captures
  /\ watched \subseteq Captures \cup {"hdmiState"}
  /\ ghosts \subseteq Captures /\ want \subseteq Captures
  /\ events \in Seq(Captures) /\ unsent \subseteq Captures
  /\ suspend \in BOOLEAN
  /\ file \in HdmiStates \cup {None} /\ held \in HdmiStates \cup {None}
  /\ current \in HdmiStates \cup {None} /\ initialized \in BOOLEAN
  /\ todo \in [Thread -> Seq(Step)]
  /\ at \in [Thread -> Captures \cup {None}]
  /\ torn \in BOOLEAN
  /\ left \in [Kinds -> Nat]

Init ==
  /\ open = {} /\ started = {} /\ stream = {} /\ silent = {}
  /\ beat = {} /\ reset = {}
  /\ watched = {} /\ ghosts = {}
  /\ want = Captures      \* the camera is synchronised and powered
  /\ events = <<>> /\ unsent = {} /\ suspend = FALSE
  /\ file = None /\ held = None /\ current = None /\ initialized = FALSE
  /\ todo = [t \in Thread |-> <<>>]
  /\ at = [t \in Thread |-> None]
  /\ torn = FALSE
  /\ left = Budget

-----------------------------------------------------------------------------
(* Handlers as sequences of steps                                          *)

CloseCapture(c) == <<<<"stop", c>>, <<"erase", c>>>>

\* OpenCapture, which ends by starting the capture if it is to run.
OpenCapture(c)  == <<<<"open", c>>, <<"control", c>>>>

\* The frame event of the callback, and its error event.
FrameEvent(c) == <<<<"find", c>>, <<"beat", c>>, <<"find", c>>, <<"notify", c>>,
                   <<"find", c>>, <<"submit", c>>>>
ErrorEvent(c) == <<<<"find", c>>, <<"beat", c>>, <<"find", c>>, <<"error", c>>>>

Busy(t) == todo[t] # <<>>
At(t, d, x) == Busy(t) /\ Head(todo[t]) = <<d, x>>

\* Thread t takes step d on x; then is what follows it.
Does(t, d, x, then) ==
  /\ ~torn /\ At(t, d, x)
  /\ todo' = [todo EXCEPT ![t] = then \o Tail(@)]

\* The main thread is in its event loop and begins a handler.
Begins(steps) ==
  /\ ~torn /\ ~Busy("main")
  /\ todo' = [todo EXCEPT !["main"] = steps]

Spends(k) == left[k] > 0 /\ left' = [left EXCEPT ![k] = @ - 1]

\* mtx_item_ is free.
ItemFree == ~Busy("obs")

\* The main thread holds the capture's mtx_qcarcam_.
QcarcamLocked(c) == At("main", "register", c) \/ At("main", "unregister", c)

\* The observer thread holds the capture's mtx_inter_heartbeat_.
HeartbeatLocked(c) == \E d \in {"flag", "post", "end"} : At("obs", d, c)

\* The vector of captures changes under an iterator to another entry: whether
\* the entry has moved depends on the vector's capacity and order.
ListChanges == torn' \in {torn, torn \/ \E t \in Thread : at[t] # None}

-----------------------------------------------------------------------------
(* Steps of the main thread: captures                                      *)

ControlCapture(c) ==
  /\ Does("main", "control", c, IF c \in want THEN <<<<"start", c>>>> ELSE <<<<"stop", c>>>>)
  /\ UNCHANGED <<capVars, listVars, want, events, unsent, suspend, hdmiVars, at, torn, left>>

\* Seeded fault: the capture is started without its observer.
StartCapture_Unwatched(c) ==
  /\ \/ c \in open \ started /\ Does("main", "start", c, <<>>)
        /\ started' = started \cup {c}
        /\ stream' = stream \cup {c} /\ silent' = silent \ {c}
     \/ c \notin open \ started /\ Does("main", "start", c, <<>>)
        /\ UNCHANGED <<started, stream, silent>>
  /\ UNCHANGED <<open, beat, reset, listVars, want, events, unsent, suspend, hdmiVars,
                 at, torn, left>>

\* mtx_qcarcam_ is held until the observer is registered.  A failure may leave
\* the stream running: the frame requests follow QCarCamStart.
StartCapture(c) ==
  /\ \/ /\ c \in open \ started
        /\ Does("main", "start", c, <<<<"register", c>>>>)
        /\ started' = started \cup {c}
        /\ stream' = stream \cup {c} /\ silent' = silent \ {c}
     \/ /\ c \in open \ started /\ "start" \in Failing
        /\ Does("main", "start", c, <<>>)
        /\ stream' \in {stream, stream \cup {c}}
        /\ UNCHANGED <<started, silent>>
     \/ /\ c \notin open \ started
        /\ Does("main", "start", c, <<>>)
        /\ UNCHANGED <<started, stream, silent>>
  /\ UNCHANGED <<open, beat, reset, listVars, want, events, unsent, suspend, hdmiVars,
                 at, torn, left>>

\* The observer object is new, so IsRunningObserver is false and it is added.
\* Between the two lock sections only other entries can change.
StartInterruptObserver(c) ==
  /\ ItemFree /\ Does("main", "register", c, <<>>)
  /\ watched' = watched \cup {c}
  /\ UNCHANGED <<capVars, ghosts, want, events, unsent, suspend, hdmiVars, at, torn, left>>

\* When the release fails, the stream has stopped and the capture counts as started.
StopCapture(c) ==
  /\ \/ /\ c \in started
        /\ Does("main", "stop", c, <<<<"unregister", c>>>>)
        /\ started' = started \ {c} /\ stream' = stream \ {c}
     \/ /\ c \in started /\ "stop" \in Failing
        /\ Does("main", "stop", c, <<>>)
        /\ stream' \in {stream, stream \ {c}}
        /\ UNCHANGED started
     \/ /\ c \notin started
        /\ Does("main", "stop", c, <<>>)
        /\ UNCHANGED <<started, stream>>
  /\ UNCHANGED <<open, silent, beat, reset, listVars, want, events, unsent, suspend,
                 hdmiVars, at, torn, left>>

StopInterruptObserver(c) ==
  /\ ItemFree /\ Does("main", "unregister", c, <<>>)
  /\ watched' = watched \ {c}
  /\ UNCHANGED <<capVars, ghosts, want, events, unsent, suspend, hdmiVars, at, torn, left>>

\* OpenCapture up to the push_back.
OpenEntry(c) ==
  /\ Does("main", "open", c, <<>>)
  /\ \/ open' = open \cup {c} /\ (IF c \in open THEN UNCHANGED torn ELSE ListChanges)
     \/ "open" \in Failing /\ UNCHANGED <<open, torn>>
  /\ UNCHANGED <<started, stream, silent, beat, reset, listVars, want, events,
                 unsent, suspend, hdmiVars, at, left>>

\* CloseCapture from the end of StopCapture on.  A callback of the closed
\* handle that has begun finds no entry from here on.  An observer that
\* StopCapture has left registered is freed with its capture.
EraseEntry(c) ==
  /\ ~torn /\ At("main", "erase", c)
  /\ todo' = [todo EXCEPT !["main"] = Tail(@),
                          !["lib"] = IF Busy("lib") /\ Head(@)[2] = c THEN <<>> ELSE @]
  /\ IF c \in {at[t] : t \in Thread} THEN torn' = TRUE
       ELSE IF c \in open THEN ListChanges ELSE UNCHANGED torn
  /\ open' = open \ {c} /\ started' = started \ {c}
  /\ stream' = stream \ {c} /\ silent' = silent \ {c}
  /\ beat' = beat \ {c} /\ reset' = reset \ {c} /\ unsent' = unsent \ {c}
  /\ watched' = watched \ {c}
  /\ ghosts' = ghosts \cup (watched \cap {c})
  /\ UNCHANGED <<want, events, suspend, hdmiVars, at, left>>

-----------------------------------------------------------------------------
(* Steps of the main thread: suspend                                       *)

SuspendStep ==
  /\ \/ /\ Does("main", "suspend", None, <<>>)
        /\ suspend' = TRUE /\ UNCHANGED events
     \/ \E c \in open :
          /\ Does("main", "closeAll", None, CloseCapture(c) \o <<<<"closeAll", None>>>>)
          /\ UNCHANGED <<suspend, events>>
     \/ /\ open = {} /\ Does("main", "closeAll", None, <<>>)
        /\ UNCHANGED <<suspend, events>>
     \/ /\ Does("main", "resume", None, <<>>)
        /\ suspend' = FALSE /\ events' = <<>>
  /\ UNCHANGED <<capVars, listVars, want, unsent, hdmiVars, at, torn, left>>

-----------------------------------------------------------------------------
(* The HDMI state, by the main thread and by its observer                  *)

\* UpdatePropertyHdmi: nothing to write for the current state.
HoldHdmiState(s) ==
  /\ Does("main", "hold", s, IF s = current THEN <<>> ELSE <<<<"write", s>>>>)
  /\ held' = IF s = current \/ initialized THEN held ELSE s
  /\ initialized' = (initialized \/ s = current)
  /\ UNCHANGED <<capVars, listVars, want, events, unsent, suspend, file, current, at, torn, left>>

\* All retries of the write together.
WriteHdmiState(t, s) ==
  /\ \/ /\ Does(t, "write", s, IF t = "main" THEN <<<<"wrote", s>>>>
                               ELSE <<<<"set", s>>, <<"clear", None>>>>)
        /\ file' = s
     \/ /\ Does(t, "write", s, IF t = "main" THEN <<<<"unwritten", s>>>> ELSE <<>>)
        /\ UNCHANGED file
  /\ UNCHANGED <<capVars, listVars, want, events, unsent, suspend, held, current,
                 initialized, at, torn, left>>

\* IsRunningObserver after the main thread's write.
HdmiIsRunning(s) ==
  /\ ItemFree
  /\ \/ Does("main", "wrote", s,
             <<<<"set", s>>>> \o (IF "hdmiState" \in watched THEN <<<<"clear", None>>>> ELSE <<>>))
     \/ Does("main", "unwritten", s,
             IF "hdmiState" \notin watched /\ ~initialized THEN <<<<"watchHdmi", None>>>>
             ELSE <<>>)
  /\ UNCHANGED <<capVars, listVars, want, events, unsent, suspend, hdmiVars, at, torn, left>>

SetHdmiState(t, s) ==
  /\ Does(t, "set", s, <<>>)
  /\ current' = s /\ initialized' = TRUE
  /\ UNCHANGED <<capVars, listVars, want, events, unsent, suspend, file, held, at, torn, left>>

\* ClearObserver and RegistryObserver take mtx_item_, which is not recursive:
\* the observer thread, which holds it, waits for itself.
ClearObserver(t) ==
  /\ ItemFree /\ Does(t, "clear", None, <<>>)
  /\ watched' = watched \ {"hdmiState"}
  /\ UNCHANGED <<capVars, ghosts, want, events, unsent, suspend, hdmiVars, at, torn, left>>

WatchHdmi ==
  /\ ItemFree /\ Does("main", "watchHdmi", None, <<>>)
  /\ watched' = watched \cup {"hdmiState"}
  /\ UNCHANGED <<capVars, ghosts, want, events, unsent, suspend, hdmiVars, at, torn, left>>

\* CVhalFileObserverHdmiObserver::Notify.
HdmiNotify ==
  /\ \/ Does("obs", "read", None, <<>>) /\ UNCHANGED initialized   \* cannot be read
     \/ /\ file = held \/ held = current
        /\ Does("obs", "read", None, <<<<"endHdmi", None>>>>)
        /\ initialized' = TRUE
     \/ /\ file # held /\ held # current
        /\ Does("obs", "read", None, <<<<"write", held>>>>)
        /\ UNCHANGED initialized
  /\ UNCHANGED <<capVars, listVars, want, events, unsent, suspend, file, held, current, at,
                 torn, left>>

HdmiEnd ==
  /\ Does("obs", "endHdmi", None, <<>>)
  /\ watched' = watched \ {"hdmiState"}
  /\ UNCHANGED <<capVars, ghosts, want, events, unsent, suspend, hdmiVars, at, torn, left>>

-----------------------------------------------------------------------------
(* The observer thread.  Each execution visits one entry that is due: two  *)
(* visits under one tenure of the mutex are two executions that the main   *)
(* thread did not get between.                                             *)

\* The interval of two seconds is many frames long: a stream that is not
\* silent has set the heartbeat by the time its observer is due.
Execute(w) ==
  /\ ~torn /\ ~Busy("obs") /\ ~suspend
  /\ w \in watched
  /\ w \in Captures => w \in beat \/ w \in silent \/ w \notin stream
  /\ todo' = [todo EXCEPT !["obs"] =
                IF w \in Captures THEN <<<<"find", w>>, <<"check", w>>>> ELSE <<<<"read", None>>>>]
  /\ UNCHANGED <<capVars, listVars, want, events, unsent, suspend, hdmiVars, at, torn, left>>

\* The entry of a freed observer.
ExecuteGhost ==
  /\ ~torn /\ ~Busy("obs") /\ ~suspend /\ ghosts # {}
  /\ torn' = TRUE
  /\ UNCHANGED <<capVars, listVars, want, events, unsent, suspend, hdmiVars, todo, at, left>>

\* Each function searches the list anew; without an entry it does nothing.
Find(t, c) ==
  /\ IF c \in open
       THEN Does(t, "find", c, <<>>) /\ at' = [at EXCEPT ![t] = c]
       ELSE /\ ~torn /\ At(t, "find", c)
            /\ todo' = [todo EXCEPT ![t] = Tail(Tail(@))]
            /\ UNCHANGED at
  /\ UNCHANGED <<capVars, listVars, want, events, unsent, suspend, hdmiVars, torn, left>>

\* Seeded fault: the reset is not asked for when the heartbeat is missing.
CheckInterruptHeartbeat_NoEvent(c) ==
  /\ Does("obs", "check", c, IF c \in beat THEN <<>> ELSE <<<<"end", c>>>>)
  /\ beat' = beat \ {c}
  /\ at' = IF c \in beat THEN [at EXCEPT !["obs"] = None] ELSE at
  /\ UNCHANGED <<open, started, stream, silent, reset, listVars, want, events,
                 unsent, suspend, hdmiVars, torn, left>>

\* Seeded fault: mtx_qcarcam_ is taken for the check, under mtx_item_.
CheckInterruptHeartbeat_LocksQcarcam(c) ==
  /\ ~QcarcamLocked(c)
  /\ Does("obs", "check", c, IF c \in beat THEN <<>>
                             ELSE (IF c \in reset THEN <<>> ELSE <<<<"flag", c>>, <<"post", c>>>>)
                                  \o <<<<"end", c>>>>)
  /\ beat' = beat \ {c}
  /\ at' = IF c \in beat THEN [at EXCEPT !["obs"] = None] ELSE at
  /\ UNCHANGED <<open, started, stream, silent, reset, listVars, want, events,
                 unsent, suspend, hdmiVars, torn, left>>

CheckInterruptHeartbeat(c) ==
  /\ Does("obs", "check", c, IF c \in beat THEN <<>>
                             ELSE (IF c \in reset THEN <<>> ELSE <<<<"flag", c>>, <<"post", c>>>>)
                                  \o <<<<"end", c>>>>)
  /\ beat' = beat \ {c}
  /\ at' = IF c \in beat THEN [at EXCEPT !["obs"] = None] ELSE at
  /\ UNCHANGED <<open, started, stream, silent, reset, listVars, want, events,
                 unsent, suspend, hdmiVars, torn, left>>

\* Notify returns a negative value: Execute removes the entry.
ObserverEnd(c) ==
  /\ Does("obs", "end", c, <<>>)
  /\ watched' = watched \ {c}
  /\ at' = [at EXCEPT !["obs"] = None]
  /\ UNCHANGED <<capVars, ghosts, want, events, unsent, suspend, hdmiVars, torn, left>>

SetCaptureResetEvent(t, c) ==
  /\ Does(t, "flag", c, <<>>)
  /\ reset' = reset \cup {c}
  /\ UNCHANGED <<open, started, stream, silent, beat, listVars, want, events,
                 unsent, suspend, hdmiVars, at, torn, left>>

\* The event route refuses the event while VideoHAL is suspended, and its write
\* to the socket may fail: the flag stays set although no event is on its way.
NotifyCaptureResetEvent(t, c) ==
  /\ Does(t, "post", c, <<>>)
  /\ \/ events' = (IF suspend THEN events ELSE Append(events, c)) /\ UNCHANGED unsent
     \/ /\ "post" \in Failing /\ ~suspend
        /\ unsent' = unsent \cup {c} /\ UNCHANGED events
  /\ at' = IF t = "lib" THEN [at EXCEPT ![t] = None] ELSE at
  /\ UNCHANGED <<capVars, listVars, want, suspend, hdmiVars, torn, left>>

-----------------------------------------------------------------------------
(* The callback of the QCarCam library.  Stopping a capture does not wait  *)
(* for a callback that has begun.                                          *)

EventCallback(c) ==
  /\ ~torn /\ ~Busy("lib") /\ c \in stream
  /\ \/ /\ c \notin silent /\ c \notin beat
        /\ todo' = [todo EXCEPT !["lib"] = FrameEvent(c)]
        /\ UNCHANGED left
     \/ /\ Spends("fault")
        /\ todo' = [todo EXCEPT !["lib"] = ErrorEvent(c)]
  /\ UNCHANGED <<capVars, listVars, want, events, unsent, suspend, hdmiVars, at, torn>>

NotifyInterruptHeartbeat(c) ==
  /\ ~HeartbeatLocked(c) /\ Does("lib", "beat", c, <<>>)
  /\ beat' = beat \cup {c}
  /\ at' = [at EXCEPT !["lib"] = None]
  /\ UNCHANGED <<open, started, stream, silent, reset, listVars, want, events,
                 unsent, suspend, hdmiVars, torn, left>>

\* The index of the buffer goes to the capture's draw thread.
NotifyCaptureEvent(c) ==
  /\ Does("lib", "notify", c, <<>>)
  /\ at' = [at EXCEPT !["lib"] = None]
  /\ UNCHANGED <<capVars, listVars, want, events, unsent, suspend, hdmiVars, torn, left>>

SettingSubmitRequestPrev(c) ==
  /\ ~QcarcamLocked(c) /\ Does("lib", "submit", c, <<>>)
  /\ at' = [at EXCEPT !["lib"] = None]
  /\ UNCHANGED <<capVars, listVars, want, events, unsent, suspend, hdmiVars, torn, left>>

\* The flag is read without a lock.
CheckHdmiReceiverError(c) ==
  /\ IF c = HdmiInput /\ c \notin reset
       THEN Does("lib", "error", c, <<<<"flag", c>>, <<"post", c>>>>) /\ UNCHANGED at
       ELSE Does("lib", "error", c, <<>>) /\ at' = [at EXCEPT !["lib"] = None]
  /\ UNCHANGED <<capVars, listVars, want, events, unsent, suspend, hdmiVars, torn, left>>

-----------------------------------------------------------------------------
(* What the event loop begins                                              *)

\* ActionCameraControl after a change of the sync or the power state.
ActionCameraControl(c) ==
  /\ c # HdmiInput /\ Spends("request")
  /\ Begins(<<<<"control", c>>>>)
  /\ want' = IF c \in want THEN want \ {c} ELSE want \cup {c}
  /\ UNCHANGED <<capVars, listVars, events, unsent, suspend, hdmiVars, at, torn>>

\* Paths, camera types and display states open, close and reopen captures.
OpenOrClose(c) ==
  /\ Spends("request")
  /\ \/ c \notin open /\ Begins(OpenCapture(c))
     \/ c \in open /\ Begins(CloseCapture(c))
     \/ c \in open /\ Begins(CloseCapture(c) \o OpenCapture(c))
  /\ UNCHANGED <<capVars, listVars, want, events, unsent, suspend, hdmiVars, at, torn>>

ResetCapture ==
  /\ events # <<>> /\ Begins(CloseCapture(Head(events)) \o OpenCapture(Head(events)))
  /\ events' = Tail(events)
  /\ UNCHANGED <<capVars, listVars, want, unsent, suspend, hdmiVars, at, torn, left>>

ChgConnInfoHdmi(s) ==
  /\ Spends("request") /\ Begins(<<<<"hold", s>>>>)
  /\ UNCHANGED <<capVars, listVars, want, events, unsent, suspend, hdmiVars, at, torn>>

StrStateEvent ==
  /\ Spends("suspend")
  /\ Begins(<<<<"suspend", None>>, <<"closeAll", None>>, <<"resume", None>>>>)
  /\ UNCHANGED <<capVars, listVars, want, events, unsent, suspend, hdmiVars, at, torn>>

\* The camera or the receiver stops delivering frames.
StreamStalls(c) ==
  /\ ~torn /\ c \in stream \ silent /\ Spends("fault")
  /\ silent' = silent \cup {c}
  /\ UNCHANGED <<open, started, stream, beat, reset, listVars, want, events,
                 unsent, suspend, hdmiVars, todo, at, torn>>

-----------------------------------------------------------------------------
MainStep ==
  \/ SuspendStep \/ ClearObserver("main") \/ WatchHdmi
  \/ \E c \in Captures : \/ ControlCapture(c) \/ StartCapture(c) \/ StopCapture(c)
                         \/ StartInterruptObserver(c) \/ StopInterruptObserver(c)
                         \/ OpenEntry(c) \/ EraseEntry(c)
  \/ \E s \in HdmiStates : \/ HoldHdmiState(s) \/ WriteHdmiState("main", s)
                           \/ HdmiIsRunning(s) \/ SetHdmiState("main", s)

ObsStep ==
  \/ HdmiNotify \/ HdmiEnd \/ ClearObserver("obs")
  \/ \E c \in Captures : \/ Find("obs", c) \/ CheckInterruptHeartbeat(c)
                         \/ SetCaptureResetEvent("obs", c)
                         \/ NotifyCaptureResetEvent("obs", c) \/ ObserverEnd(c)
  \/ \E s \in HdmiStates : WriteHdmiState("obs", s) \/ SetHdmiState("obs", s)

LibStep ==
  \E c \in Captures : \/ Find("lib", c) \/ NotifyInterruptHeartbeat(c)
                      \/ NotifyCaptureEvent(c)
                      \/ SettingSubmitRequestPrev(c) \/ CheckHdmiReceiverError(c)
                      \/ SetCaptureResetEvent("lib", c)
                      \/ NotifyCaptureResetEvent("lib", c)

Outside ==
  \/ \E c \in Captures : ActionCameraControl(c) \/ OpenOrClose(c) \/ StreamStalls(c)
  \/ \E s \in HdmiStates : ChgConnInfoHdmi(s)
  \/ StrStateEvent

Next == \/ MainStep \/ ObsStep \/ LibStep \/ ResetCapture
        \/ \E w \in Captures \cup {"hdmiState"} : Execute(w)
        \/ ExecuteGhost
        \/ \E c \in Captures : EventCallback(c)
        \/ Outside

\* The threads run; the main thread gets a mutex that is free again and again
\* (the observer thread sleeps between two executions); an observer's interval
\* elapses again and again; the event loop takes what is posted.
Fairness ==
  /\ SF_vars(MainStep) /\ WF_vars(ObsStep) /\ WF_vars(LibStep)
  /\ WF_vars(ResetCapture)
  /\ \A c \in Captures : SF_vars(Execute(c))

Spec == Init /\ [][Next]_vars /\ Fairness

-----------------------------------------------------------------------------
(* Properties                                                              *)

\* Step x is among those thread t still has to take.
Pending(t, x) == Has(todo[t], {x})

\* A capture whose reset flag is set asks for no other reset, so the one it
\* asked for must be in the event route, about to be posted, or overtaken by
\* the capture's closing (the suspend refuses and drops events).  The code has
\* no second try for an event the route could not write.
ResetOnItsWay(c) ==
  \/ \E i \in DOMAIN events : events[i] = c
  \/ \E t \in {"lib", "obs"} : Pending(t, <<"post", c>>)
  \/ Pending("main", <<"erase", c>>) \/ Pending("main", <<"closeAll", None>>)
  \/ c \in unsent

\* No started capture runs unwatched: it is in the observer's list or about to
\* be, or its reset is on its way, whatever the three threads do (one observer
\* per start, one reset per session, an observer that removes itself).
StartedIsWatched ==
  ~torn => /\ \A c \in reset : ResetOnItsWay(c)
           /\ \A c \in started : \/ c \in watched \/ Pending("main", <<"register", c>>)
                                 \/ ResetOnItsWay(c)

\* The observer thread waits for the mutex it holds: the retry of the HDMI
\* observer has succeeded, and UpdatePropertyHdmi clears the observer from
\* within its own Notify.  Nothing but a restart ends this.
SelfLocked == At("obs", "clear", None)

\* A capture that goes silent is reset: the observer notices, the event is
\* handled, and the capture is closed (CheckInterruptHeartbeat, ResetCapture),
\* unless the observer thread has locked itself or the event could not be written.
SilentIsReset ==
  \A c \in Captures :
    (c \in started \cap silent)
      ~> (torn \/ SelfLocked \/ c \in unsent \/ c \notin started \cap silent)

\* Every handler of the main thread returns to the event loop: no order of
\* the three mutexes and no failure keeps it waiting for ever, with one
\* exception in the code: an observer thread that has locked itself (the
\* comment in CheckInterruptHeartbeat forbids ClearObserver in Notify, and the
\* HDMI observer's retry does it).
MainReturns == Busy("main") ~> (torn \/ SelfLocked \/ ~Busy("main"))
=============================================================================
