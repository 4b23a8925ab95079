--------------------------- MODULE PictureQuality ---------------------------
(***************************************************************************)
(* The picture quality of the front display: CVhalColorManager, its record *)
(* database and the notification it repeats to the MICON                   *)
(* (CVhalColorSendItemQuality), the property handlers that change them,    *)
(* and the mute surface over the front display, which two of the handlers  *)
(* share.  Handlers run on the main thread; vhal_pfm_clear_data runs       *)
(* ClearColorStep on the power manager's thread, under the database's      *)
(* lock for one record at a time only.                                     *)
(***************************************************************************)
EXTENDS Integers, Sequences

CONSTANTS
  Steps,        \* the values an adjustment step may take
  InitStep,     \* kColorImgAdjStepInitContrast, kColorImgAdjStepInitBrightness
  Kinds,        \* what is adjusted: contrast, brightness
  DayNights, Night,
  Themes, AutoDark,
  FrontPaths,   \* the video paths of the front display, "" for none
  Selections,   \* the video sources whose quality a client selects
  MaxCalls      \* bound: requests, calls of clear_data and failures, together

PathSources == [path \in {"DTV", "HDMI", "DRC", "CAMERA-IMG-ADJ"} |->
                  CASE path = "DTV"  -> "DTV"
                    [] path = "HDMI" -> "HDMI"
                    [] OTHER         -> "CAM"]

ASSUME PictureAssumption ==
  /\ InitStep \in Steps /\ Night \in DayNights /\ AutoDark \in Themes
  /\ FrontPaths \subseteq STRING /\ "" \in FrontPaths /\ "CAMERA" \notin FrontPaths
  /\ Selections \subseteq {"OTHER", "MULTISENSORY", "DTV", "CAM", "HDMI"}
  /\ MaxCalls \in Nat

ThemeSources == {"OTHER", "MULTISENSORY"}
DaySources   == {"DTV", "CAM", "HDMI"}
Sources      == ThemeSources \cup DaySources
CameraPaths  == {"", "CAMERA"}

Levels == [Kinds -> Steps]                 \* one contrast and one brightness
InitLevels == [k \in Kinds |-> InitStep]
Modes(v) == IF v \in ThemeSources THEN Themes ELSE DayNights

\* colorid_link_table: what is stored for one of these is stored for the other.
Linked(v) == CASE v = "DTV" -> {"HDMI"} [] v = "HDMI" -> {"DTV"} [] OTHER -> {}

\* StepType: the order of record_list_.
RecordOrder == <<"OTHER", "CAM", "DTV", "HDMI", "MULTISENSORY">>

NoAdjust == [phase |-> "none", kind |-> "none", step |-> InitStep,
             levels |-> InitLevels, record |-> <<>>]

VARIABLES
  db,        \* CVhalColorDatabase: the record of each source, by mode
  mng,       \* CVhalColorManager: selected and shown source, modes, paths
  reserve,   \* CVhalColorSendItemQuality::reserve_data_
  current,   \* CVhalColorSendItemQuality::current_data_, what Build reads
  sending,   \* the notification's interval timer runs
  built,     \* Build has run since the last ReInit (IsSendDataEmpty)
  linkUp,    \* CVhalMiconCommControl::initialized_resume_
  asleep,    \* between StrSuspend and StrResume
  layout,    \* the paths that CVhalLayoutManager shows
  sts,       \* the status properties the handlers publish
  covered,   \* the front display's mute surface is shown
  adjust,    \* a request to change a step, on the main thread
  clear,     \* ClearColorStep on the power manager's thread
  used,      \* bound: requests, clears and failures so far
  failed,    \* history: the mute surface was not switched as requested
  held,      \* history: the power state put the mute surface up
  behind    \* history: why the notification may differ from what is wanted

colorVars   == <<db, mng, reserve>>
sendVars    == <<current, sending, built, behind>>
displayVars == <<layout, sts, covered, failed, held>>
powerVars   == <<linkUp, asleep>>
workVars    == <<adjust, clear>>
vars == <<colorVars, sendVars, displayVars, powerVars, workVars, used>>

---------------------------------------------------------------------------
(* Sources, records and the two copies of what is sent.                    *)

\* GetVideoPathSourceId: every path without an entry is HMI.
SourceOf(path) ==
  IF path = "CAMERA" THEN "CAM"
  ELSE IF path \in DOMAIN PathSources THEN PathSources[path] ELSE "OTHER"

\* GetVideoType
TypeOf(v) == IF v = "MULTISENSORY" THEN "OTHER" ELSE v

\* GetCurrentColorStep: the stored step of a source in the mode set now.
ModeOf(m, v)     == IF v \in ThemeSources THEN m.theme ELSE m.dayNight
Stored(d, m, v)  == d[v][ModeOf(m, v)]

\* SetStepContrast, SetStepBrightness: each source has a place of its own in
\* the item, but a source that is not the item's has none.
Place(item, v) ==
  CASE v = "OTHER"        -> "hmi"
    [] v = "MULTISENSORY" -> "multi"
    [] OTHER              -> IF v = item.src THEN "own" ELSE "none"
SetSteps(item, v, kinds, levels) ==
  IF Place(item, v) = "none" THEN item
  ELSE [item EXCEPT !.steps[Place(item, v)] =
          [k \in Kinds |-> IF k \in kinds THEN levels[k] ELSE @[k]]]

NewItem ==
  [src |-> "OTHER", steps |-> [place \in {"hmi", "multi", "own"} |-> InitLevels],
   light |-> TRUE, mute |-> TRUE, dayNight |-> Night, theme |-> AutoDark,
   forceHmi |-> FALSE, forceMulti |-> FALSE, front |-> "", camera |-> ""]

NewStatus == [mute |-> TRUE, light |-> TRUE, steps |-> InitLevels, dayNight |-> Night,
              theme |-> AutoDark, forceHmi |-> FALSE, forceMulti |-> FALSE]

NewManager == [vsrc |-> "OTHER", vpath |-> "OTHER", dayNight |-> Night, theme |-> AutoDark,
               front |-> "", camera |-> ""]

\* Build: the camera first, then the forced qualities, then the shown source.
Build(item) ==
  LET muted == item.mute \/ ~item.light
      own   == item.src \notin ThemeSources
      Sent(type, mute, place, mode) ==
        [type |-> type, mute |-> mute, steps |-> item.steps[place], mode |-> mode]
  IN IF item.camera = "CAMERA"
     THEN Sent(TypeOf(item.src), FALSE, "own", item.dayNight)
     ELSE IF item.forceMulti /\ item.front = "MULTISENSORY"
     THEN Sent("MULTISENSORY", muted, "multi", item.theme)
     ELSE IF item.forceHmi \/ ~own
     THEN Sent("OTHER", muted, "hmi", item.theme)
     ELSE Sent(item.src, muted, "own", item.dayNight)

\* SetFrontPath and SetCameraPath of the manager, on a manager and an item
\* taken together; "set" is SetFrontPath's answer.
ShowSource(d, m, item) ==
  SetSteps(item, m.vpath, Kinds, Stored(d, m, m.vpath))

SetFrontPath(d, p, path) ==
  IF p.mng.camera # ""
  THEN [mng |-> [p.mng EXCEPT !.front = path], item |-> p.item, set |-> FALSE]
  ELSE LET m == [p.mng EXCEPT !.front = path, !.vpath = SourceOf(path)]
       IN [mng  |-> m,
           item |-> ShowSource(d, m, [p.item EXCEPT !.front = path, !.src = SourceOf(path)]),
           set  |-> TRUE]

SetCameraPath(d, p, path) ==
  LET item == [p.item EXCEPT !.camera = path, !.src = SourceOf(path)]
      m    == [p.mng EXCEPT !.camera = path]
  IN IF path = "" /\ p.mng.front # ""
     THEN SetFrontPath(d, [mng |-> m, item |-> item], p.mng.front)
     ELSE LET shown == [m EXCEPT !.vpath = SourceOf(path)]
          IN [mng |-> shown, item |-> ShowSource(d, shown, item), set |-> TRUE]

\* Why a notification may differ from what is wanted: "unsent", the item was
\* changed and not applied, or its first notification was not sent; "own" and
\* "theme", the item's copy of the steps lags the record; "front", the item
\* keeps a front path that is gone; "path" and "camera", a suspend could not
\* clear the layout's path.
Lag(sent, healed, lost) ==
  behind' = (behind \ (healed \cup IF sent THEN {"unsent"} ELSE {})) \cup lost

ThemeLag(m, item) ==
  IF \A v \in ThemeSources : item.steps[Place(item, v)] = Stored(db, m, v)
  THEN {} ELSE {"theme"}

\* ApplyAdjustment: the timer is stopped, the reserved data become current, and
\* the timer starts again only when the first of its notifications was sent.
Apply(item, sent, healed, lost) ==
  /\ sent => linkUp
  /\ current' = IF linkUp THEN item ELSE current
  /\ sending' = sent
  /\ built' = (built \/ linkUp)
  /\ Lag(sent, healed, lost \cup IF sent THEN {} ELSE {"unsent"})
NoApply(healed, lost) ==
  /\ Lag(FALSE, healed, lost)
  /\ UNCHANGED <<current, sending, built>>

\* ApplyAdjustment(true): only for a selected source of the shown type, or HMI.
Needed(m) == TypeOf(m.vsrc) \in {TypeOf(m.vpath), "OTHER"}

\* Bound: requests, and calls that fail although they could have succeeded.
Fails(n) == used + n <= MaxCalls /\ used' = used + n
Requested(n) == Fails(n + 1)
Fault(ok)   == IF ok THEN 0 ELSE 1
Unsent(sent) == Fault(sent \/ ~linkUp)

Handles == ~asleep /\ adjust.phase = "none"

---------------------------------------------------------------------------
CreateColorStep == [v \in Sources |-> [mode \in Modes(v) |-> InitLevels]]

\* The backup holds every record but MULTISENSORY's, which is no backup target.
LoadColorRecord(d, file) ==
  [v \in Sources |-> IF v = "MULTISENSORY" THEN d[v]
                     ELSE [mode \in Modes(v) |-> [k \in Kinds |-> file]]]

Init ==
  \E file \in Steps, sent \in BOOLEAN :
    /\ db = LoadColorRecord(CreateColorStep, file)
    /\ mng = NewManager
    /\ reserve = [NewItem EXCEPT !.steps["hmi"] = [k \in Kinds |-> file]]
    /\ current = reserve
    /\ sending = sent
    /\ built = TRUE
    /\ linkUp = TRUE
    /\ asleep = FALSE
    /\ layout = [front |-> "", camera |-> ""]
    /\ sts = [NewStatus EXCEPT !.steps = [k \in Kinds |-> file]]
    /\ covered = TRUE
    /\ adjust = NoAdjust
    /\ clear = [phase |-> "none", done |-> 0, levels |-> InitLevels]
    /\ used = 0
    /\ failed = FALSE
    /\ held = FALSE
    /\ behind = IF sent THEN {} ELSE {"unsent"}

---------------------------------------------------------------------------
(* Requests on the main thread.                                            *)

\* ActionVsrcFrontId: the source whose steps the next requests adjust.
VsrcFrontId(v) ==
  /\ Handles /\ Requested(0)
  /\ mng' = [mng EXCEPT !.vsrc = v]
  /\ reserve' = SetSteps(reserve, v, Kinds, Stored(db, mng, v))
  /\ sts' = [sts EXCEPT !.steps = Stored(db, mng, v)]
  /\ UNCHANGED <<db, sendVars, layout, covered, failed, held, powerVars, workVars>>

\* ActionVsrcFrontBright and ActionVsrcFrontContrast, step by step: the steps are
\* read, the record is read again, changed, written, and written to the linked
\* source, each under a lock of its own.
AdjustRead(k, n) ==
  /\ Handles /\ Requested(0)
  /\ adjust' = [NoAdjust EXCEPT !.phase = "record", !.kind = k, !.step = n,
                  !.levels = [Stored(db, mng, mng.vsrc) EXCEPT ![k] = n]]
  /\ UNCHANGED <<colorVars, sendVars, displayVars, powerVars, clear>>

AdjustRecord ==
  /\ adjust.phase = "record"
  /\ adjust' = [adjust EXCEPT !.phase = "write",
                  !.record = [db[mng.vsrc] EXCEPT ![ModeOf(mng, mng.vsrc)] = adjust.levels]]
  /\ UNCHANGED <<colorVars, sendVars, displayVars, powerVars, clear, used>>

AdjustWrite ==
  /\ adjust.phase = "write"
  /\ db' = [db EXCEPT ![mng.vsrc] = adjust.record]
  /\ adjust' = [adjust EXCEPT !.phase = IF Linked(mng.vsrc) = {} THEN "save" ELSE "link"]
  /\ UNCHANGED <<mng, reserve, sendVars, displayVars, powerVars, clear, used>>

AdjustLink ==
  /\ adjust.phase = "link"
  /\ db' = [v \in Sources |-> IF v \in Linked(mng.vsrc) THEN adjust.record ELSE db[v]]
  /\ adjust' = [adjust EXCEPT !.phase = "save"]
  /\ UNCHANGED <<mng, reserve, sendVars, displayVars, powerVars, clear, used>>

\* SaveColorRecord, the item, ApplyAdjustment(true), UpdateStatusColorStep.  A
\* record that could not be saved stays changed, and the item is not told; nor is
\* the shown source's place when it is the linked one.
AdjustSave(saved, sent) ==
  LET item == IF saved THEN SetSteps(reserve, mng.vsrc, {adjust.kind}, adjust.levels)
              ELSE reserve
      lost == IF ~saved \/ clear.phase # "none" THEN {"own", "theme"}
              ELSE IF mng.vpath \in Linked(mng.vsrc) THEN {"own"} ELSE {}
  IN /\ adjust.phase = "save"
     /\ mng.vsrc = "MULTISENSORY" => saved
     /\ reserve' = item
     /\ \/ /\ Needed(mng)
           /\ Apply(item, sent, {}, lost)
           /\ Fails(Fault(saved) + Unsent(sent))
        \/ /\ ~Needed(mng) /\ ~sent
           /\ NoApply({}, lost)
           /\ Fails(Fault(saved))
     /\ sts' = [sts EXCEPT !.steps[adjust.kind] = Stored(db, mng, mng.vsrc)[adjust.kind]]
     /\ adjust' = NoAdjust
     /\ UNCHANGED <<db, mng, layout, covered, failed, held, powerVars, clear>>

\* ActionVsrcFrontForceHmiImgAdj: not before the first notification.
ForceHmi(b, sent) ==
  /\ Handles /\ b # sts.forceHmi
  /\ reserve' = [reserve EXCEPT !.forceHmi = b]
  /\ sts' = [sts EXCEPT !.forceHmi = b]
  /\ \/ built /\ Apply(reserve', sent, {}, {}) /\ Requested(Unsent(sent))
     \/ ~built /\ ~sent /\ NoApply({}, {"unsent"}) /\ Requested(0)
  /\ UNCHANGED <<db, mng, layout, covered, failed, held, powerVars, workVars>>

\* ActionVsrcForceMultisensoryImgAdj: switched on, it is notified only while the
\* multisensory path is shown.
ForceMulti(b, sent) ==
  /\ Handles /\ b # sts.forceMulti
  /\ reserve' = [reserve EXCEPT !.forceMulti = b]
  /\ sts' = [sts EXCEPT !.forceMulti = b]
  /\ \/ /\ built /\ (b => layout.front = "MULTISENSORY")
        /\ Apply(reserve', sent, {}, {})
        /\ Requested(Unsent(sent))
     \/ /\ b /\ layout.front # "MULTISENSORY" /\ ~sent
        /\ NoApply({}, {}) /\ Requested(0)
     \/ /\ ~built /\ ~sent
        /\ NoApply({}, {"unsent"}) /\ Requested(0)
  /\ UNCHANGED <<db, mng, layout, covered, failed, held, powerVars, workVars>>

\* What ActionMuteFrontDisp and ActionMuteFrontBacklight share: the surface is
\* touched only when the other property does not want it by itself.  To cover,
\* the notification comes first and a failure of it leaves the display open; to
\* uncover, the surface comes first.
SwitchCover(item, on, alone, sent, ok) ==
  /\ reserve' = item
  /\ \/ /\ ~alone /\ ~sent /\ ~ok
        /\ NoApply({}, {})
        /\ UNCHANGED <<covered, failed, held>>
        /\ Requested(0)
     \/ /\ alone /\ on
        /\ Apply(item, sent, {}, {})
        /\ ok => sent
        /\ covered' = (covered \/ ok)
        /\ failed' = ~ok
        /\ Requested(Unsent(sent) + Fault(ok \/ ~sent))
        /\ UNCHANGED held
     \/ /\ alone /\ ~on /\ ok
        /\ Apply(item, sent, {}, {})
        /\ covered' = FALSE /\ failed' = FALSE /\ held' = FALSE
        /\ Requested(Unsent(sent))
     \/ /\ alone /\ ~on /\ ~ok /\ ~sent
        /\ NoApply({}, {"unsent"})
        /\ failed' = TRUE
        /\ Requested(1)
        /\ UNCHANGED <<covered, held>>

\* Seeded fault: the mute does not ask whether the backlight is off.
MuteFrontDisp_Alone(m, sent, ok) ==
  /\ Handles /\ m # sts.mute
  /\ SwitchCover([reserve EXCEPT !.mute = m], m, TRUE, sent, ok)
  /\ sts' = [sts EXCEPT !.mute = m]
  /\ UNCHANGED <<db, mng, layout, powerVars, workVars>>
MuteFrontDisp(m, sent, ok) ==
  /\ Handles /\ m # sts.mute
  /\ SwitchCover([reserve EXCEPT !.mute = m], m, sts.light, sent, ok)
  /\ sts' = [sts EXCEPT !.mute = m]
  /\ UNCHANGED <<db, mng, layout, powerVars, workVars>>

MuteFrontBacklight(b, sent, ok) ==
  /\ Handles /\ b # sts.light
  /\ SwitchCover([reserve EXCEPT !.light = b], ~b, ~sts.mute, sent, ok)
  /\ sts' = [sts EXCEPT !.light = b]
  /\ UNCHANGED <<db, mng, layout, powerVars, workVars>>

\* ChangePowerState(IN_VEHICLE): the surface, whatever the properties say.
PowerInVehicle(ok) ==
  /\ Handles
  /\ Requested(Fault(ok))
  /\ covered' = (covered \/ ok)
  /\ held' = (held \/ ok)
  /\ UNCHANGED <<colorVars, sendVars, layout, sts, failed, powerVars, workVars>>

\* ActionSettingDayNight: the shown source takes its steps of the new mode, but
\* ApplyAdjustment(true) asks which source is selected.
SettingDayNight(d, sent) ==
  LET m == [mng EXCEPT !.dayNight = d]
      item == SetSteps([reserve EXCEPT !.dayNight = d], m.vpath, Kinds, Stored(db, m, m.vpath))
  IN /\ Handles /\ d # sts.dayNight
     /\ mng' = m
     /\ reserve' = item
     /\ \/ /\ m.vpath \in DaySources /\ Needed(m)
           /\ Apply(item, sent, {}, {})
           /\ Requested(Unsent(sent))
        \/ /\ m.vpath \in DaySources /\ ~Needed(m) /\ ~sent
           /\ NoApply({}, {"unsent"}) /\ Requested(0)
        \/ /\ m.vpath \notin DaySources /\ ~sent
           /\ NoApply({}, {}) /\ Requested(0)
     /\ sts' = [sts EXCEPT !.dayNight = d, !.steps = Stored(db, m, m.vsrc)]
     /\ UNCHANGED <<db, layout, covered, failed, held, powerVars, workVars>>

\* ActionSettingThemeColor: the steps of both theme sources.
SettingThemeColor(t, sent) ==
  LET m == [mng EXCEPT !.theme = t]
      hmi == SetSteps([reserve EXCEPT !.theme = t], "OTHER", Kinds, Stored(db, m, "OTHER"))
  IN /\ Handles
     /\ mng' = m
     /\ reserve' = SetSteps(hmi, "MULTISENSORY", Kinds, Stored(db, m, "MULTISENSORY"))
     /\ Apply(reserve', sent, {"theme"}, {})
     /\ Requested(Unsent(sent))
     /\ sts' = [sts EXCEPT !.theme = t, !.steps = Stored(db, m, m.vsrc)]
     /\ UNCHANGED <<db, layout, covered, failed, held, powerVars, workVars>>

\* ActionVpathFrontCurrent, once the layout shows the path.
VpathFront(path, sent) ==
  LET p == SetFrontPath(db, [mng |-> mng, item |-> reserve], path)
  IN /\ Handles /\ path # layout.front
     /\ layout' = [layout EXCEPT !.front = path]
     /\ mng' = p.mng
     /\ reserve' = p.item
     /\ \/ p.set /\ Apply(p.item, sent, {"own", "front", "path"}, {}) /\ Requested(Unsent(sent))
        \/ ~p.set /\ ~sent /\ NoApply({"path"}, {}) /\ Requested(0)
     /\ UNCHANGED <<db, sts, covered, failed, held, powerVars, workVars>>

\* ActionVpathCameraCurrent, once the layout shows the camera.
VpathCameraOn(sent) ==
  LET p == SetCameraPath(db, [mng |-> mng, item |-> reserve], "CAMERA")
  IN /\ Handles /\ layout.camera = ""
     /\ layout' = [layout EXCEPT !.camera = "CAMERA"]
     /\ mng' = p.mng
     /\ reserve' = p.item
     /\ Apply(p.item, sent, {"own", "path", "camera"}, {})
     /\ Requested(Unsent(sent))
     /\ UNCHANGED <<db, sts, covered, failed, held, powerVars, workVars>>

\* ... and once it no longer does: HMI's quality first, then the front path's.
\* The last ApplyAdjustment decides; "first" is whether the HMI's was sent.

\* Seeded fault: HMI's quality stays when the camera goes.
VpathCameraOff_Hmi(first, sent) ==
  LET hmi == SetCameraPath(db, SetFrontPath(db, [mng |-> mng, item |-> reserve], ""), "")
  IN /\ Handles /\ layout.camera = "CAMERA" /\ ~first
     /\ layout' = [layout EXCEPT !.camera = ""]
     /\ mng' = hmi.mng /\ reserve' = hmi.item
     /\ Apply(hmi.item, sent, {"own", "path", "camera"},
              IF layout.front = "" /\ hmi.item.front # "" THEN {"front"} ELSE {})
     /\ Requested(Unsent(sent))
     /\ UNCHANGED <<db, sts, covered, failed, held, powerVars, workVars>>
VpathCameraOff(first, sent) ==
  LET p   == SetFrontPath(db, [mng |-> mng, item |-> reserve], "")
      hmi == SetCameraPath(db, p, "")
      end == SetFrontPath(db, hmi, layout.front)
  IN /\ Handles /\ layout.camera = "CAMERA"
     /\ layout' = [layout EXCEPT !.camera = ""]
     /\ \/ /\ layout.front = "" /\ ~first
           /\ mng' = hmi.mng /\ reserve' = hmi.item
           /\ Apply(hmi.item, sent, {"own", "path", "camera"},
                    IF hmi.item.front # "" THEN {"front"} ELSE {})
           /\ Requested(Unsent(sent))
        \/ /\ layout.front # "" /\ (first => linkUp)
           /\ mng' = end.mng /\ reserve' = end.item
           /\ Apply(end.item, sent, {"own", "front", "path", "camera"}, {})
           /\ Requested(Unsent(first) + Unsent(sent))
     /\ UNCHANGED <<db, sts, covered, failed, held, powerVars, workVars>>

---------------------------------------------------------------------------
(* vhal_pfm_clear_data on the power manager's thread.                      *)

ClearStart ==
  /\ clear.phase = "none" /\ Requested(0)
  /\ clear' = [clear EXCEPT !.phase = "write", !.done = 0]
  /\ UNCHANGED <<colorVars, sendVars, displayVars, powerVars, adjust>>

\* ClearColorRecord: one record after another.
ClearWrite ==
  LET v == RecordOrder[clear.done + 1]
  IN /\ clear.phase = "write"
     /\ db' = [db EXCEPT ![v] = [mode \in Modes(v) |-> InitLevels]]
     /\ clear' = [clear EXCEPT !.done = @ + 1,
                    !.phase = IF clear.done + 1 = Len(RecordOrder) THEN "save" ELSE "write"]
     /\ UNCHANGED <<mng, reserve, sendVars, displayVars, powerVars, adjust, used>>

\* SaveColorRecord, then the shown source's steps are read; when it fails the
\* records stay cleared and the notification does not hear of it.
ClearSave(saved) ==
  /\ clear.phase = "save"
  /\ clear' = [clear EXCEPT !.phase = IF saved THEN "apply" ELSE "none",
                            !.levels = IF saved THEN Stored(db, mng, mng.vpath) ELSE @]
  /\ Fails(Fault(saved))
  /\ NoApply({}, IF saved THEN {} ELSE {"own", "theme"})
  /\ UNCHANGED <<colorVars, displayVars, powerVars, adjust>>

\* The item, with the source shown by now, and ApplyAdjustment(false).
ClearApply(sent) ==
  LET item == SetSteps(reserve, mng.vpath, Kinds, clear.levels)
      late == adjust.phase # "none" \/ clear.levels # Stored(db, mng, mng.vpath)
  IN /\ clear.phase = "apply"
     /\ clear' = [clear EXCEPT !.phase = "none", !.levels = InitLevels]
     /\ reserve' = item
     /\ Apply(item, sent, {}, ThemeLag(mng, item) \cup IF late THEN {"own", "theme"} ELSE {})
     /\ Fails(Unsent(sent))
     /\ UNCHANGED <<db, mng, displayVars, powerVars, adjust>>

---------------------------------------------------------------------------
(* Suspend and resume on the main thread.                                  *)

\* StrSuspend: the notification stops, the display is covered, the paths are
\* cleared, and ReInit and InitializeProperties set the values of a start; the
\* records are kept and not read again.
StrSuspend(shown, camera, front) ==
  /\ Handles
  /\ Requested(Fault(shown) + Fault(camera) + Fault(front))
  /\ ~camera => layout.camera # ""
  /\ ~front => layout.front # ""
  /\ asleep' = TRUE /\ linkUp' = FALSE
  /\ covered' = (covered \/ shown)
  /\ failed' = ~shown /\ held' = FALSE
  /\ layout' = [front |-> IF front THEN "" ELSE layout.front,
                camera |-> IF camera THEN "" ELSE layout.camera]
  /\ mng' = NewManager
  /\ reserve' = NewItem /\ current' = NewItem
  /\ sending' = FALSE /\ built' = FALSE
  /\ behind' = ThemeLag(NewManager, NewItem) \cup (IF front THEN {} ELSE {"path"})
                 \cup (IF camera THEN {} ELSE {"camera"})
  /\ sts' = [NewStatus EXCEPT !.steps = Stored(db, NewManager, "OTHER")]
  /\ UNCHANGED <<db, workVars>>

\* StrResume: with the channel to the MICON the notification starts again.
StrResume(opened, sent) ==
  /\ asleep
  /\ asleep' = FALSE /\ linkUp' = opened
  /\ sent => opened
  /\ current' = IF opened THEN reserve ELSE current
  /\ sending' = sent /\ built' = opened
  /\ Lag(sent, {}, IF sent THEN {} ELSE {"unsent"})
  /\ Fails(Fault(opened) + Fault(sent \/ ~opened))
  /\ UNCHANGED <<colorVars, displayVars, workVars>>

---------------------------------------------------------------------------
Next ==
  \/ \E v \in Selections : VsrcFrontId(v)
  \/ \E k \in Kinds, n \in Steps : AdjustRead(k, n)
  \/ AdjustRecord \/ AdjustWrite \/ AdjustLink
  \/ \E saved, sent \in BOOLEAN : AdjustSave(saved, sent)
  \/ \E b, sent \in BOOLEAN : ForceHmi(b, sent) \/ ForceMulti(b, sent)
  \/ \E b, sent, ok \in BOOLEAN : MuteFrontDisp(b, sent, ok) \/ MuteFrontBacklight(b, sent, ok)
  \/ \E ok \in BOOLEAN : PowerInVehicle(ok)
  \/ \E d \in DayNights, sent \in BOOLEAN : SettingDayNight(d, sent)
  \/ \E t \in Themes, sent \in BOOLEAN : SettingThemeColor(t, sent)
  \/ \E path \in FrontPaths, sent \in BOOLEAN : VpathFront(path, sent)
  \/ \E sent \in BOOLEAN : VpathCameraOn(sent)
  \/ \E first, sent \in BOOLEAN : VpathCameraOff(first, sent)
  \/ ClearStart \/ ClearWrite
  \/ \E saved \in BOOLEAN : ClearSave(saved)
  \/ \E sent \in BOOLEAN : ClearApply(sent)
  \/ \E shown, camera, front \in BOOLEAN : StrSuspend(shown, camera, front)
  \/ \E opened, sent \in BOOLEAN : StrResume(opened, sent)

Spec == Init /\ [][Next]_vars

---------------------------------------------------------------------------
(* The front display is covered exactly while a mute or a dark backlight is *)
(* requested or the power state holds it covered, however the two requests  *)
(* and their order interleave (ActionMuteFrontDisp, ActionMuteFrontBacklight *)
(* and ChangePowerState share one surface), unless switching it failed.     *)
CoverFollowsRequests ==
  ~failed => covered = (sts.mute \/ ~sts.light \/ held)

(* What the properties and the layout ask for, computed without the manager *)
(* and its item.                                                            *)
WantedItem ==
  LET src == SourceOf(IF layout.camera # "" THEN layout.camera ELSE layout.front)
      steps(v) == db[v][IF v \in ThemeSources THEN sts.theme ELSE sts.dayNight]
  IN [src |-> src, light |-> sts.light, mute |-> sts.mute,
      steps |-> [place \in {"hmi", "multi", "own"} |->
                   CASE place = "hmi" -> steps("OTHER")
                     [] place = "multi" -> steps("MULTISENSORY")
                     [] OTHER -> steps(src)],
      dayNight |-> sts.dayNight, theme |-> sts.theme,
      forceHmi |-> sts.forceHmi, forceMulti |-> sts.forceMulti,
      front |-> layout.front, camera |-> layout.camera]

(* Between requests, and when no known cause has left it behind, the MICON  *)
(* is repeatedly told exactly the quality that the shown paths, the stored  *)
(* steps and the published modes call for: no order of path, mode, force,   *)
(* mute and adjustment requests loses one (ApplyAdjustment's two copies,    *)
(* the camera's precedence over the front path, the places of Build).       *)
NotifiedIsWanted ==
  ~asleep /\ linkUp /\ adjust.phase = "none" /\ clear.phase = "none" /\ behind = {} =>
    sending /\ Build(current) = Build(WantedItem)
=============================================================================
