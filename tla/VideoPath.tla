------------------------------ MODULE VideoPath ------------------------------
(***************************************************************************)
(* The front and rear video paths and the HDMI capture behind them: the    *)
(* handlers of CVhalPropertyControl for path requests, HDMI connection,    *)
(* video format, HDCP authentication, capture reset and suspend, with      *)
(* CVhalPropertyControlHdmi and the part of CVhalLayoutManager they call.  *)
(*                                                                         *)
(* Every handler runs to its end on the main thread, so a handler is one   *)
(* action.  What interleaves is the order of the handlers and the          *)
(* compositor, which adds and removes surfaces on its own and is heard of  *)
(* through queued events.                                                  *)
(***************************************************************************)
CONSTANTS
  Apps,         \* paths whose surface an application creates
  Hdmi,         \* "HDMI": the path whose surface the HDMI capture creates
  NoPath,       \* the empty path
  Keys,         \* HDCP keys of successful authentications
  NoKey         \* no authentication

ASSUME VideoPathAssumption ==
  /\ Hdmi \notin Apps /\ NoPath \notin Apps \cup {Hdmi}
  /\ NoKey \notin Keys

Target == {"front", "rear"}                   \* CTRL_TARGET_*
Path   == Apps \cup {Hdmi, NoPath}
Format == {"SUPPORTED", "INVALID", "ERROR"}   \* INVALID stands for OUTOFSPEC too
Surface == {"none", "new", "old"}

VARIABLES
  ctl,          \* per target: current value of the path request property
  path,         \* per target: video_front_path_current_, video_rear_path_current_
  sts,          \* per target: value of the path status property
  cnct,         \* HDMI connection property: NONE or READY
  screens,      \* targets whose screen has been laid out (screen_id_list_)
  connected,    \* SysDB: HDMI is CONNECT (not DISCONNECT or CONNECTING)
  format,       \* SysDB: HDMI video format
  auth,         \* hdcp_result_ of the C-Disp: its key, or NoKey
  written,      \* the key has been written since HDMI was connected
  playing,      \* is_play_; the capture instance exists iff it is not empty
  mute,         \* the front blinder is up for the reason HDMI
  surf,         \* per target: the HDMI surface, of this capture or an old one
  created,      \* targets whose surface-created event is in the event route
  waiting,      \* history: targets whose client is not answered yet
  leaked,       \* history: targets switched away from HDMI without a stop
  unopened      \* history: targets whose restart of the capture failed

hdmiVars == <<playing, mute, surf, unopened, leaked>>
linkVars == <<connected, format, written>>
vars == <<ctl, path, sts, cnct, screens, linkVars, auth, hdmiVars, created,
          waiting>>

TypeOK ==
  /\ ctl \in [Target -> Path] /\ path \in [Target -> Path]
  /\ sts \in [Target -> {"SUCCESS", "FAILED"}]
  /\ cnct \in {"NONE", "READY"}
  /\ screens \subseteq Target /\ playing \subseteq Target
  /\ created \subseteq Target /\ waiting \subseteq Target
  /\ leaked \subseteq Target /\ unopened \subseteq Target
  /\ connected \in BOOLEAN /\ written \in BOOLEAN
  /\ mute \in BOOLEAN
  /\ format \in Format
  /\ auth \in Keys \cup {NoKey}
  /\ surf \in [Target -> Surface]

\* The authentication is loaded from the backup; HDMI is not connected.
Init ==
  /\ ctl = [t \in Target |-> NoPath] /\ path = [t \in Target |-> NoPath]
  /\ sts = [t \in Target |-> "FAILED"]
  /\ cnct = "NONE"
  /\ screens = {} /\ playing = {} /\ created = {}
  /\ waiting = {} /\ leaked = {} /\ unopened = {}
  /\ connected = FALSE /\ written = FALSE
  /\ mute = FALSE
  /\ format = "INVALID"
  /\ auth \in Keys \cup {NoKey}
  /\ surf = [t \in Target |-> "none"]

-----------------------------------------------------------------------------
(* CVhalPropertyControlHdmi                                                *)

Available(c, f) == c /\ f = "SUPPORTED"
HdmiAvailable == Available(connected, format)

\* The surfaces of a capture that has been destroyed are no longer its own.
Retired == [t \in Target |-> IF surf[t] = "new" THEN "old" ELSE surf[t]]

\* The capture is destroyed with its last output; the front loses its cover.
Stop(S) ==
  /\ playing' = playing \ S
  /\ surf' = IF playing \ S = {} THEN Retired ELSE surf
  /\ mute' = (mute /\ "front" \notin S)

\* Seeded fault: the front's cover is left as it was.
Play_KeepsMute(t) == playing' = playing \cup {t} /\ UNCHANGED <<mute, surf>>

\* Play: the front is covered unless the C-Disp is authenticated.
Play(t) ==
  /\ playing' = playing \cup {t}
  /\ mute' = IF t = "front" THEN auth = NoKey ELSE mute
  /\ UNCHANGED surf

Shown == {t \in Target : path[t] = Hdmi}

\* Seeded fault: only the front is played again, and nobody reports the rear.
PlayHdmiCapture_FrontOnly ==
  \E opened \in SUBSET (Shown \ {"rear"}) :
    /\ playing' = opened
    /\ mute' = ("front" \in opened /\ auth = NoKey)
    /\ surf' = Retired
    /\ unopened' = (Shown \ {"rear"}) \ opened

\* After a Finalize: every output that shows HDMI is played.  The first Play
\* opens the capture, which may fail; the rear then tries again.
PlayHdmiCapture ==
  \E opened \in SUBSET Shown :
    /\ "front" \in opened => opened = Shown
    /\ playing' = opened
    /\ mute' = ("front" \in opened /\ auth = NoKey)
    /\ surf' = Retired
    /\ unopened' = Shown \ opened

Finalize == Stop(Target) /\ unopened' = {}

\* The capture is stopped, and played again when HDMI is ready.
UpdateHdmiCaptureControl(ready) ==
  /\ IF ready THEN PlayHdmiCapture ELSE Finalize
  /\ leaked' = {}

-----------------------------------------------------------------------------
(* Path requests                                                           *)

\* The status of HDMI is withheld until its surface exists; a refused HDMI
\* makes the connection NONE.
Answer(t, v, ok) ==
  IF ok /\ v = Hdmi /\ surf[t] = "none"
    THEN waiting' = waiting \cup {t} /\ UNCHANGED <<sts, cnct>>
    ELSE /\ sts' = [sts EXCEPT ![t] = IF ok THEN "SUCCESS" ELSE "FAILED"]
         /\ waiting' = waiting \ {t}
         /\ cnct' = IF ~ok /\ v = Hdmi THEN "NONE" ELSE cnct

Refuse(t, v) == UNCHANGED <<path, hdmiVars>> /\ Answer(t, v, FALSE)

\* Seeded fault: the capture is not stopped when HDMI is left.
LeaveHdmi_Plays(t) == UNCHANGED <<playing, mute, surf, leaked>>

\* HDMI is stopped if the previous request was for it, whatever is shown.
LeaveHdmi(t) ==
  IF ctl[t] = Hdmi
    THEN Stop({t}) /\ leaked' = leaked \ {t}
    ELSE /\ UNCHANGED <<playing, mute, surf>>
         /\ leaked' = IF path[t] = Hdmi /\ t \in playing
                        THEN leaked \cup {t} ELSE leaked

\* The layout is switched to v; to HDMI only with the capture open.
SwitchPath(t, v) ==
  /\ IF v = Hdmi THEN Play(t) /\ leaked' = leaked \ {t} ELSE LeaveHdmi(t)
  /\ path' = [path EXCEPT ![t] = v]
  /\ unopened' = unopened \ {t}
  /\ Answer(t, v, TRUE)

\* A request for path v.  The surface of an application exists or not, and
\* opening the capture succeeds or not.
Request(t, v, screen) ==
  /\ ctl' = [ctl EXCEPT ![t] = v]
  /\ IF path[t] = v
       THEN UNCHANGED <<path, hdmiVars>> /\ Answer(t, v, v = Hdmi => HdmiAvailable)
       ELSE \/ screen /\ (v = Hdmi => HdmiAvailable) /\ SwitchPath(t, v)
            \/ /\ \/ ~screen
                  \/ v \in Apps
                  \/ v = Hdmi /\ (HdmiAvailable => playing = {})
               /\ Refuse(t, v)
  /\ UNCHANGED <<screens, linkVars, auth, created>>

ActionVpathFrontCurrent(v) == Request("front", v, TRUE)
ActionVpathRearCurrent(v)  == Request("rear", v, "rear" \in screens)

-----------------------------------------------------------------------------
(* HDMI connection, format, authentication                                 *)

\* SetHdcpAuthKey writes an authenticated key once per connection; the write
\* may fail.
SetHdcpAuthKey(c) ==
  IF c /\ ~written /\ auth # NoKey THEN written' \in BOOLEAN
                                   ELSE UNCHANGED written

\* The capture is stopped and played only when the connection changes.
UpdateSettingConnectedHdmiDevice(c) ==
  LET status == IF Available(c, format) THEN "READY" ELSE "NONE" IN
  /\ IF status = cnct THEN UNCHANGED hdmiVars
                      ELSE UpdateHdmiCaptureControl(status = "READY")
  /\ cnct' = status

\* ChgConnInfoHdmi, and without a connection the format and the written flag
\* are cleared after it.
UpdateFilePropertyHdmi(c) ==
  /\ connected' = c
  /\ UpdateSettingConnectedHdmiDevice(c)
  /\ IF c THEN SetHdcpAuthKey(c) /\ UNCHANGED format
          ELSE written' = FALSE /\ format' = "INVALID"
  /\ UNCHANGED <<ctl, path, sts, screens, auth, created, waiting>>

\* The format ERROR is stored and not acted upon.
ChangeHdmiVideoFormat(f) ==
  /\ format' = f
  /\ IF f = "ERROR" THEN UNCHANGED <<hdmiVars, cnct>>
     ELSE /\ UpdateHdmiCaptureControl(Available(connected, f))
          /\ cnct' = IF Available(connected, f) THEN "READY" ELSE "NONE"
  /\ UNCHANGED <<ctl, path, sts, screens, connected, auth, written, created,
                 waiting>>

ResetCapture ==
  /\ UpdateHdmiCaptureControl(HdmiAvailable)
  /\ UNCHANGED <<ctl, path, sts, cnct, screens, linkVars, auth, created, waiting>>

\* A successful authentication uncovers the front once its key is written.
\* A key that is known already changes nothing.
AuthSucceeded(k) ==
  /\ k # auth /\ auth' = k
  /\ IF connected /\ ~written THEN written' \in BOOLEAN ELSE UNCHANGED written
  /\ IF connected /\ written' THEN mute' = FALSE ELSE UNCHANGED mute

\* A failed authentication covers a front that plays HDMI.
AuthFailed ==
  /\ auth' = NoKey
  /\ mute' = (mute \/ "front" \in playing)
  /\ UNCHANGED written

UpdateHdcpAuthResultCdisp ==
  /\ AuthFailed \/ \E k \in Keys : AuthSucceeded(k)
  /\ UNCHANGED <<ctl, path, sts, cnct, screens, connected, format, playing, surf,
                 unopened, leaked, created, waiting>>

\* The keys are cleared; the cover stays as it is.
UpdateHdcpAuthClear ==
  /\ auth' = NoKey
  /\ UNCHANGED <<ctl, path, sts, cnct, screens, linkVars, playing, mute, surf,
                 unopened, leaked, created, waiting>>

-----------------------------------------------------------------------------
(* The compositor and the screens                                          *)

\* The capture creates a surface for each target.
HdmiSurfaceAdded(t) ==
  /\ playing # {} /\ surf[t] = "none"
  /\ surf' = [surf EXCEPT ![t] = "new"]
  /\ created' = created \cup {t}
  /\ UNCHANGED <<ctl, path, sts, cnct, screens, linkVars, auth, playing, mute,
                 unopened, leaked, waiting>>

HdmiSurfaceRemoved(t) ==
  /\ surf[t] = "old"
  /\ surf' = [surf EXCEPT ![t] = "none"]
  /\ UNCHANGED <<ctl, path, sts, cnct, screens, linkVars, auth, playing, mute,
                 unopened, leaked, created, waiting>>

\* Seeded fault: a new surface does not answer the client that waits for it.
UpdateVpathStatusCurrentHdmi_NoAnswer(t) == UNCHANGED <<sts, waiting>>

\* The HDMI surface of a target that shows HDMI: its status is SUCCESS.
UpdateVpathStatusCurrentHdmi(t) ==
  IF path[t] = Hdmi
    THEN sts' = [sts EXCEPT ![t] = "SUCCESS"] /\ waiting' = waiting \ {t}
    ELSE UNCHANGED <<sts, waiting>>

AddSurfaceToLayer(t) ==
  /\ t \in created /\ created' = created \ {t}
  /\ UpdateVpathStatusCurrentHdmi(t)
  /\ UNCHANGED <<ctl, path, cnct, screens, linkVars, auth, hdmiVars>>

\* A screen's layout is built; the surfaces that exist are added to it.
NotifyOutputAdded(t) ==
  /\ t \notin screens /\ screens' = screens \cup {t}
  /\ IF surf[t] # "none" THEN UpdateVpathStatusCurrentHdmi(t)
                         ELSE UNCHANGED <<sts, waiting>>
  /\ UNCHANGED <<ctl, path, cnct, linkVars, auth, hdmiVars, created>>

\* The capture is stopped for good once the paths are cleared.
ReInit == Stop(Target)

\* The suspend of an STR cycle: paths and properties are cleared, HDMI is
\* CONNECTING, and the queued events are dropped.
StrSuspend ==
  /\ path' = [t \in Target |->
                IF t = "rear" /\ t \notin screens THEN path[t] ELSE NoPath]
  /\ ctl' = [t \in Target |-> NoPath]
  /\ sts' = [t \in Target |-> "FAILED"]
  /\ cnct' = "NONE"
  /\ ReInit
  /\ unopened' = {} /\ leaked' = {} /\ waiting' = {} /\ created' = {}
  /\ connected' = FALSE /\ format' = "INVALID" /\ written' = FALSE
  /\ UNCHANGED <<screens, auth>>

Next ==
  \/ \E v \in Path : ActionVpathFrontCurrent(v) \/ ActionVpathRearCurrent(v)
  \/ \E c \in BOOLEAN : UpdateFilePropertyHdmi(c)
  \/ \E f \in Format : ChangeHdmiVideoFormat(f)
  \/ ResetCapture
  \/ UpdateHdcpAuthResultCdisp
  \/ UpdateHdcpAuthClear
  \/ \E t \in Target : \/ HdmiSurfaceAdded(t) \/ HdmiSurfaceRemoved(t)
                      \/ AddSurfaceToLayer(t) \/ NotifyOutputAdded(t)
  \/ StrSuspend

Spec == Init /\ [][Next]_vars

-----------------------------------------------------------------------------
(* Properties                                                              *)

\* The front is covered for HDMI only while it plays HDMI: Stop(front),
\* wherever it is called from, takes the cover away.
MuteOnlyWhilePlaying == mute => "front" \in playing

\* The cover of a front that plays HDMI changes, and is chosen when it starts
\* to play, only as the authentication of that moment says.
CoverFollowsVerdict ==
  [][ "front" \in playing' /\ (mute' # mute \/ "front" \notin playing)
        => (mute' <=> auth' = NoKey) ]_vars

\* Clients are told READY only while HDMI is connected with a format that is
\* supported, or with ERROR, on which the code does not act.
ReadyIsPlayable == cnct = "READY" => connected /\ format # "INVALID"

\* When clients are told READY, every output that shows HDMI is playing it,
\* unless the capture could not be opened at the last restart.
ReadyIsPlayed ==
  cnct = "READY" /\ format = "SUPPORTED" => Shown \subseteq playing \cup unopened

\* An output that plays HDMI shows it, unless it was switched away after a
\* refused request, when ActionVpath*Current finds no HDMI in the previous
\* request and does not stop.
PlayingIsShownOrLeaked == playing \subseteq Shown \cup leaked

\* A status of SUCCESS is about the path that was asked for last; only on an
\* output that shows HDMI can a new surface turn a refusal into a SUCCESS.
SuccessIsOfTheRequest ==
  \A t \in Target : sts[t] = "SUCCESS" => ctl[t] = path[t] \/ path[t] = Hdmi

\* A client whose answer is withheld is not forgotten: its output shows HDMI,
\* and the surface it waits for is still to come or its event is queued.
WithheldIsOwed ==
  \A t \in waiting : path[t] = Hdmi /\ (surf[t] = "new" => t \in created)
=============================================================================
