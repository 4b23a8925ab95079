---------------------------- MODULE DisplayLayout ----------------------------
(***************************************************************************)
(* One output of CVhalLayoutManager: the video of the front or rear        *)
(* display, of the instrument cluster, or the camera's over the front.     *)
(* Applications create, draw and delete the surfaces of the video paths    *)
(* in the compositor, which reports it as events that the main thread      *)
(* handles later; clients choose the path and its rectangles, visibility,  *)
(* opacity and wide mode through the properties; the manager keeps what    *)
(* was set for each path (VideoSetting), and keeps its own surfaces, which *)
(* cover the video, the background and the display, in step with it.  The  *)
(* outputs share no state, so one is chosen at the start.  A handler runs  *)
(* while the compositor stands still; its parts are operators on a record  *)
(* of all that a handler changes.                                          *)
(***************************************************************************)
EXTENDS Naturals, Sequences, FiniteSets, VideoSetting

Ivi == INSTANCE IviController

CONSTANTS
  Apps,       \* the video paths of each output, and the applications that draw them
  Outputs,    \* the outputs to look at
  Initial,    \* the layout file's initial visibility of each path's surface
  Layers,     \* the layout file's layers of the screen, by name
  Order,      \* the layout file's order of each layer
  Sizes,      \* sizes a surface may be configured to, NoRect for one with no area
  Clips,      \* rectangles a client may cut out
  Wides,      \* wide modes a client may ask for
  NewOrders,  \* orders a client may ask for
  Part,       \* a rectangle inside the screen
  Screen,     \* the screen's rectangle
  Default,    \* the output rectangle before anything is known, 1280x720
  Drawn,      \* the size the manager's own surfaces are drawn at
  MaxQueue,   \* bound: events not yet handled
  MaxCalls    \* bound: requests, and changes the applications make

\* The camera's only path is the camera.
ASSUME LayoutAssumption ==
  /\ Outputs \subseteq {"front", "rear", "ic", "camera"}
  /\ "camera" \in Outputs => Apps["camera"] = {"CAMERA"}
  /\ \A o \in Outputs : \A a \in Apps[o] :
       a \in STRING \ {""} /\ Initial[a] \in {"visible", "invisible", "none"}
  /\ Layers \in Seq(DOMAIN Order) /\ Order \in [DOMAIN Order -> Int] /\ NewOrders \subseteq Int
  /\ Sizes \cup Clips \cup {Part, Screen, Default, Drawn} \subseteq Rectangle
  /\ Wides \subseteq WideModes \ {"invalid"}
  /\ MaxQueue \in Nat /\ MaxCalls \in Nat

VARIABLES
  output,   \* which output this is
  plugged,  \* the compositor has the output's screen
  screen,   \* screen_id_list_ holds the output's screen: its layers exist
  power,    \* "on", "falling" from SetSuspend to StrSuspend, "off" until resumed
  ivi,      \* the compositor's surfaces and layers (IviController)
  queue,    \* the compositor's events that the main thread has not handled
  path,     \* video_front_path_current_, video_rear_..., camera_..., video_icluster_...
  setting,  \* video_setting_: what was set for each path
  file,     \* p_layout_file_: the layers as they are ordered, and the order of each
  ctl, sts, \* the output's control and status properties
  told,     \* which paths the clients were last told to be available
  used,     \* bound: requests and changes so far
  lost,     \* history: the paths whose events were dropped, until the next one
  behind    \* history: what a handler has left behind, most often for want of a surface

display == <<ivi, path, setting, file, ctl, sts, told, behind>>
vars == <<output, plugged, screen, power, display, queue, lost, used>>

Here == Apps[output]
Id(a) == GetVideoPathIdentifier(a, output)

---------------------------------------------------------------------------
(* The layout file and the names of the surfaces.                          *)

Sorted(ids, order) ==
  LET before(i, j) == \/ order[ids[i]] < order[ids[j]]
                      \/ order[ids[i]] = order[ids[j]] /\ i < j
      place(i) == Cardinality({j \in DOMAIN ids : before(j, i)}) + 1
  IN [p \in DOMAIN ids |-> ids[CHOOSE i \in DOMAIN ids : place(i) = p]]

ReadFile == [ids |-> Sorted(Layers, Order), order |-> Order]
ReorderLayersOnScreen(f, layer, new) ==
  LET order == [f.order EXCEPT ![layer] = new]
  IN [ids |-> Sorted(f.ids, order), order |-> order]

\* A path's surface of the output, and the manager's own: the mute of the video, the
\* front video's second one for loss of sync, the background, the mute of the display.
GetSurfaceIdFromVideoPath(a) == <<"video", a>>
GetVideoPathFromSurfaceName(n) == n[2]
GetBlinderID(kind) == <<kind, "">>
IsBlinder(n) == n[1] # "video"

\* The cluster has one mute for its video and the display.
Blinders(o) == CASE o = "front"  -> {"mute", "sync", "bg", "display"}
                 [] o = "rear"   -> {"mute", "bg", "display"}
                 [] o = "ic"     -> {"mute"}
                 [] o = "camera" -> {"mute"}
HasBackground == "bg" \in Blinders(output)
HasWide       == output \in {"front", "rear"}
HasClipping   == output \in {"front", "ic"}
DisplayMute   == GetBlinderID(IF output = "ic" THEN "mute" ELSE "display")

IsValidVideoPathCommon(a) == a \in Here \cup {""}

---------------------------------------------------------------------------
(* What a handler changes, taken together; "ok" is the last call's result. *)

Display == [ivi |-> ivi, path |-> path, setting |-> setting, file |-> file, ctl |-> ctl,
            sts |-> sts, told |-> told, behind |-> behind, ok |-> TRUE]
Becomes(d) ==
  /\ ivi' = d.ivi /\ path' = d.path /\ setting' = d.setting /\ file' = d.file
  /\ ctl' = d.ctl /\ sts' = d.sts /\ told' = d.told /\ behind' = d.behind

NewControl == [visible |-> FALSE, opaque |-> FALSE, wide |-> "normal", mute |-> FALSE]
NewStatus(there) == [visible |-> FALSE, opaque |-> FALSE, wide |-> "normal", mute |-> FALSE,
                       out |-> NoRect, clipOn |-> FALSE, clip |-> NoRect, display |-> there]

Calls(n) == used + n <= MaxCalls /\ used' = used + n
Event(kind, n, r) == [kind |-> kind, name |-> n, size |-> r]
About(q) == {GetVideoPathFromSurfaceName(q[i].name) : i \in DOMAIN q}
Pending(a) == a \in About(queue)

\* NotifyIviEvent and NotifyIviConfigureSurface: WriteEvent refuses an event
\* from SetSuspend to ClearSuspend.
Post(e) ==
  IF power = "on"
  THEN Len(queue) < MaxQueue /\ queue' = Append(queue, e) /\ UNCHANGED lost
  ELSE lost' = lost \cup (About(<<e>>) \cap Here) /\ UNCHANGED queue

HasSurface(d, a) == Ivi!Exists(d.ivi, GetSurfaceIdFromVideoPath(a))
Commit(d) == [d EXCEPT !.ivi = Ivi!CommitChanges(@)]

---------------------------------------------------------------------------
(* The rectangles of a path.                                               *)

GetSourceRectangleCommon(d, a) == GetVideoInputParam(d.setting, Id(a)).rect

\* The output's, the input's, or what the output's was before it was set.
GetDestRectangleCommon(d, a) ==
  LET out   == GetVideoOutputSize(d.setting, Id(a))
      input == GetVideoInputParam(d.setting, Id(a))
  IN IF a = "" THEN NoRect
     ELSE IF ~out.set /\ input.set THEN input.rect ELSE out.rect

GetVideoScalingRectangleCommon(d, a) ==
  GetVideoWideRectangle(d.setting, Id(a), GetSourceRectangleCommon(d, a), GetDestRectangleCommon(d, a))

\* Both rectangles of a surface, from the next commit on.
Place(c, n, rects) ==
  Ivi!SetSurfaceDestinationRectangle(Ivi!SetSurfaceSourceRectangle(c, n, rects.src), n, rects.dest)
PlaceVideo(d, a) ==
  [d EXCEPT !.ivi = Place(@, GetSurfaceIdFromVideoPath(a), GetVideoScalingRectangleCommon(d, a))]

\* The mute of the camera lies on what its normal wide mode makes of the video.
BlindRectangle(d, a) ==
  IF output = "camera" /\ GetVideoWideMode(d.setting, Id(a)) = "normal"
  THEN GetVideoScalingRectangleCommon(d, a).dest
  ELSE GetDestRectangleCommon(d, a)
PlaceBlinders(d, kinds, a) ==
  [d EXCEPT !.ivi = Ivi!SetSurfacesDestinationRectangle(
                      @, {GetBlinderID(kind) : kind \in kinds}, BlindRectangle(d, a))]
SetVideoBlindSurfaceRectangle(d, kind, a) == PlaceBlinders(d, {kind}, a)

\* Which of them follow a new rectangle of the video.
Followers == Blinders(output) \ {"display"}

\* A picture that is not drawn yet keeps the camera's surface where it is.
SetDestOver(d, a, r, followers) ==
  LET s == [d EXCEPT !.setting = SetVideoOutputSize(@, Id(a), r), !.ok = TRUE]
      frames == Ivi!GetPropertiesOfSurfaceFrameCounter(s.ivi, GetSurfaceIdFromVideoPath(a))
  IN IF a = "" THEN [d EXCEPT !.ok = TRUE]
     ELSE IF output = "camera" /\ frames = 0 THEN [s EXCEPT !.behind = @ \cup {"place", "rect"}]
     ELSE IF ~HasSurface(d, a) THEN [s EXCEPT !.ok = FALSE, !.behind = @ \cup {"place"}]
     ELSE [Commit(PlaceBlinders(PlaceVideo(s, a), followers, a))
             EXCEPT !.behind = @ \ {"place", "rect"}]

\* Seeded fault: the sync surface does not follow.
SetDestRectangleCommon_NoSync(d, a, r) == SetDestOver(d, a, r, Followers \ {"sync"})

\* The manager's surfaces follow only when the video did.
SetDestRectangleCommon(d, a, r) == SetDestOver(d, a, r, Followers)

\* A cut that does not fit is refused; without the surface the setting changes.
SetSourceRectangleCommon(d, a, on, r) ==
  LET s == [d EXCEPT !.setting = SetVideoInputParam(@, Id(a), on, r)]
  IN IF a = "" THEN [d EXCEPT !.ok = TRUE]
     ELSE IF (on /\ ~ValidClipping(d.setting, Id(a), r)) \/ ~HasSurface(d, a)
     THEN [s EXCEPT !.ok = FALSE]
     ELSE [Commit(PlaceVideo(s, a)) EXCEPT !.ok = TRUE, !.behind = @ \ {"rect"}]

\* The compositor's answer is ignored.
SetWideModeCommon(d, a, wide) ==
  [Commit(PlaceVideo([d EXCEPT !.setting = SetVideoWideMode(@, Id(a), wide)], a))
     EXCEPT !.ok = TRUE]

GetScreenSize == plugged
GetFrontWideMode(d) == GetVideoWideMode(d.setting, Id(d.path))

---------------------------------------------------------------------------
(* Visibility, opacity and the path itself.                                *)

GetVisibilityCommon(d, a) ==
  a # "" /\ Ivi!GetSurfaceVisibility(d.ivi, GetSurfaceIdFromVideoPath(a))

\* The setting changes first, and stays changed without a surface.
SetVisibilityCommon(d, a, vis) ==
  LET s == [d EXCEPT !.setting = SetVideoVisibility(@, Id(a), vis),
                     !.ivi = Ivi!SetSurfaceVisibility(@, GetSurfaceIdFromVideoPath(a), vis)]
  IN IF HasSurface(d, a) THEN [Commit(s) EXCEPT !.ok = TRUE] ELSE [s EXCEPT !.ok = FALSE]
SetOpacityCommon(d, a, opaque) ==
  LET s == [d EXCEPT !.setting = SetVideoOpacity(@, Id(a), opaque),
                     !.ivi = Ivi!SetSurfaceOpacity(@, GetSurfaceIdFromVideoPath(a), opaque)]
  IN IF HasSurface(d, a) THEN [Commit(s) EXCEPT !.ok = TRUE] ELSE [s EXCEPT !.ok = FALSE]

\* The background is behind a visible, opaque video only.
BehindVideo(d, a) ==
  a # "" /\ GetVideoVisibility(d.setting, Id(a)) /\ GetVideoOpacity(d.setting, Id(a))
SetVideoBlindSurfaceVisibility(d, a) ==
  [Commit([d EXCEPT !.ivi = Ivi!SetSurfaceVisibility(@, GetBlinderID("bg"), BehindVideo(d, a))])
     EXCEPT !.behind = @ \ {"bg"}]

\* SetFrontVisibility and SetFrontOpacity take the background along when the
\* surface was there, and so do the rear's; the cluster has none.
WithBackground(d) ==
  IF ~d.ok THEN [d EXCEPT !.behind = @ \cup {"bg"}]
  ELSE IF HasBackground THEN SetVideoBlindSurfaceVisibility(d, d.path) ELSE d

SetVisibility(d, vis) == WithBackground(SetVisibilityCommon(d, d.path, vis))

SetOpacity(d, opaque) == WithBackground(SetOpacityCommon(d, d.path, opaque))

\* The mute lies where the new path's video will be, then the old path is hidden,
\* its setting too, whether or not its surface is there; the camera is shown at once.
SwitchPath(d, a, hide) ==
  LET camera == output = "camera"
      shown == IF camera /\ a # ""
               THEN [d EXCEPT !.setting = SetVideoVisibility(@, Id(a), TRUE),
                              !.ivi = Ivi!SetSurfaceVisibility(@, GetSurfaceIdFromVideoPath(a), TRUE),
                              !.behind = @ \ {"place"}]
               ELSE d
      placed == IF a = "" THEN shown
                ELSE PlaceBlinders(shown, Blinders(output) \cap
                                     (IF output = "ic" THEN {} ELSE {"mute", "bg"}), a)
      left == IF d.path = "" THEN placed
              ELSE [placed EXCEPT !.setting = SetVideoVisibility(@, Id(d.path), FALSE),
                                  !.ivi = IF hide
                                          THEN Ivi!SetSurfaceVisibility(@, GetSurfaceIdFromVideoPath(d.path), FALSE)
                                          ELSE @]
  IN IF a = d.path THEN d ELSE Commit(left)

\* Seeded fault: the surface of the path that is left stays visible.
SetVideoPathCommon_SettingOnly(d, a) == SwitchPath(d, a, FALSE)

SetVideoPathCommon(d, a) == SwitchPath(d, a, TRUE)

\* Without a path there is no mute, whatever the clients were told.
SetVideoMuteOffCommon(d, a) ==
  IF a # "" THEN d
  ELSE [Commit([d EXCEPT !.ivi = Ivi!SetSurfaceVisibility(@, GetBlinderID("mute"), FALSE)])
          EXCEPT !.behind = IF d.sts.mute THEN @ \cup {"muted"} ELSE @ \ {"muted"}]

SetFrontPath(d, a) ==
  [SetVideoMuteOffCommon(SetVideoBlindSurfaceVisibility(SetVideoPathCommon(d, a), a), a)
     EXCEPT !.path = a, !.ok = TRUE]
SetRearPath(d, a) ==
  [SetVideoMuteOffCommon(SetVideoBlindSurfaceVisibility(SetVideoPathCommon(d, a), a), a)
     EXCEPT !.path = a, !.ok = TRUE]
SetIClusterPath(d, a) == [SetVideoPathCommon(d, a) EXCEPT !.path = a, !.ok = TRUE]

\* The camera's path is kept unless its surface is seen to be hidden.
SetCameraPath(d, a) ==
  LET s == SetVideoPathCommon(d, a)
      hidden == d.path = "" \/ (HasSurface(s, d.path) /\ ~GetVisibilityCommon(s, d.path))
  IN IF hidden THEN [s EXCEPT !.path = a, !.ok = TRUE]
     ELSE [s EXCEPT !.ok = FALSE]

\* No mute of the video is shown without a path.
SetBlinderEnable(d, n, on) ==
  IF on /\ HasWide /\ n = GetBlinderID("mute") /\ d.path = "" THEN d
  ELSE Commit([d EXCEPT !.ivi = Ivi!SetSurfaceVisibility(@, n, on)])

---------------------------------------------------------------------------
(* The compositor's events on the main thread.                             *)

IsValidSurfaceAvailable(d, a) == HasSurface(d, a)

\* HDMI needs no surface, and the camera's is the manager's own; whether HDMI can
\* be played is VideoPath's and whether the camera is ready CameraControl's.
IsValidVideoPathAvailable(d, a) ==
  a = "" \/ (IsValidVideoPathCommon(a) /\ (a \in {"HDMI", "CAMERA"} \/ IsValidSurfaceAvailable(d, a)))

\* The clients of the output's "available" property are told to read it again.
UpdateVpathStatusAvailable(d, a) ==
  IF IsValidVideoPathCommon(a) THEN [d EXCEPT !.told[a] = IsValidVideoPathAvailable(d, a)] ELSE d

\* What was learnt of an earlier surface of the path is forgotten; a surface that
\* is added again is hidden, the manager's own too.
AddSurfacesToLayer(d, ns) ==
  LET added == [d EXCEPT !.ivi = Ivi!AddSurfacesToLayer(@, ns)]
      as == {a \in Here : GetSurfaceIdFromVideoPath(a) \in ns}
  IN [added EXCEPT
        !.told = [a \in Here |-> IF a \in as THEN IsValidVideoPathAvailable(added, a) ELSE @[a]],
        !.setting = ClearVideoInputOriginalSize(@, {Id(a) : a \in as}),
        !.behind = @ \cup {left \in {"bg", "muted", "place"} :
                             CASE left = "bg"    -> GetBlinderID("bg") \in ns
                               [] left = "muted" -> GetBlinderID("mute") \in ns
                               [] left = "place" -> output = "camera" /\ as # {}}]
AddSurfaceToLayer(d, n) == AddSurfacesToLayer(d, {n})

DeleteSurfaceToLayer(d, n) == UpdateVpathStatusAvailable(d, GetVideoPathFromSurfaceName(n))

\* Hidden, but for the front display's mute: the display starts muted.
ConfigureBlinder(d, n, r) ==
  LET whole == n[1] = "display" \/ output \in {"ic", "camera"}
      rects == [src |-> Rect(0, 0, r.w, r.h), dest |-> IF whole /\ screen THEN Screen ELSE r]
      shown == n[1] = "display" /\ output = "front"
  IN [Commit([d EXCEPT !.ivi = Ivi!SetSurfaceVisibility(Place(@, n, rects), n, shown)])
        EXCEPT !.behind = @ \cup CASE n[1] = "bg"   -> {"bg", "place"}
                                   [] n[1] = "mute" -> {"muted", "place"}
                                   [] n[1] = "sync" -> {"place"}
                                   [] OTHER         -> {}]

\* The first size is remembered; an output that is not set takes the size, the
\* camera's the screen's, and the mute of these two displays follows it; the path is
\* visible or not from here on, its surface if "show" says so.
ConfigureAs(d, a, r, vis, show) ==
  LET known  == [d EXCEPT !.setting = SetVideoInputOriginalSize(@, Id(a), r)]
      out    == GetVideoOutputSize(known.setting, Id(a))
      dest   == IF out.set THEN out.rect
                ELSE IF output = "camera" /\ GetScreenSize THEN Screen ELSE r
      first  == ~out.set
      moves  == first /\ output \in {"camera", "ic"}
      sized  == IF first THEN [known EXCEPT !.setting = SetVideoOutputSize(@, Id(a), dest)] ELSE known
      placed == IF moves THEN SetVideoBlindSurfaceRectangle(sized, "mute", a) ELSE sized
      src    == IF d.setting[Id(a)].clipOn THEN GetSourceRectangleCommon(placed, a) ELSE r
      n      == GetSurfaceIdFromVideoPath(a)
      rects  == GetVideoWideRectangle(placed.setting, Id(a), src, dest)
      c      == Place(placed.ivi, n, rects)
  IN [placed EXCEPT
        !.setting = SetVideoVisibility(@, Id(a), vis),
        !.ivi = Ivi!CommitChanges(IF show THEN Ivi!SetSurfaceVisibility(c, n, vis) ELSE c),
        !.behind = (@ \ {"rect"})
          \cup (IF (moves /\ a # d.path) \/ (output = "camera" /\ ~first) THEN {"place"} ELSE {})
          \cup (IF output = "camera" /\ first THEN {"out"} ELSE {})
          \cup (IF a = d.path /\ Initial[a] = "visible" /\ ~GetVideoVisibility(d.setting, Id(a))
                THEN {"visible", "bg"} ELSE {})]

\* Seeded fault: a resized surface goes back to what the layout file says.
ConfigureVideo_Initial(d, a, r) ==
  ConfigureAs(d, a, r, Initial[a] = "visible", Initial[a] # "none")

\* Seeded fault: the surface is shown as the layout file says, whatever was asked.
ConfigureVideo_KeepHidden(d, a, r) ==
  LET as == ConfigureAs(d, a, r, Initial[a] = "visible", Initial[a] # "none")
  IN [as EXCEPT !.setting = SetVideoVisibility(@, Id(a), GetVideoVisibility(d.setting, Id(a)))]

\* Shown if it is the current path and visible, the camera in any case, or else as
\* the layout file says.
ConfigureVideo(d, a, r) ==
  LET current == a = d.path /\ (output = "camera" \/ GetVideoVisibility(d.setting, Id(a)))
  IN ConfigureAs(d, a, r, current \/ Initial[a] = "visible", current \/ Initial[a] # "none")

ConfigureSurface(d, n, r) ==
  IF ~HasArea(r) THEN d
  ELSE IF IsBlinder(n) THEN ConfigureBlinder(d, n, r)
  ELSE ConfigureVideo(d, GetVideoPathFromSurfaceName(n), r)

HandleSurfaceEvent ==
  LET e == Head(queue)
  IN /\ power = "on" /\ queue # <<>> /\ e.kind # "output"
     /\ queue' = Tail(queue)
     /\ lost' = lost \ IF e.kind = "configured" THEN {} ELSE About(<<e>>)
     /\ Becomes(CASE e.kind = "created"    -> AddSurfaceToLayer(Display, e.name)
                  [] e.kind = "deleted"    -> DeleteSurfaceToLayer(Display, e.name)
                  [] e.kind = "configured" -> ConfigureSurface(Display, e.name, e.size))
     /\ UNCHANGED <<output, plugged, screen, power, used>>

\* The screen is laid out the first time; the clients are told of the display.
UpdateSettingStatusDisplay(d) == [d EXCEPT !.sts.display = TRUE]
SetLayoutScreen(d) ==
  IF screen THEN d
  ELSE UpdateSettingStatusDisplay([d EXCEPT !.ivi = Ivi!CreateLayers(@, d.file.ids)])

\* Its surfaces are added every time.
NotifyOutputAdded ==
  LET laid == SetLayoutScreen(Display)
  IN /\ power = "on" /\ queue # <<>> /\ Head(queue).kind = "output"
     /\ queue' = Tail(queue)
     /\ screen' = TRUE
     /\ Becomes(AddSurfacesToLayer(laid, Ivi!GetSurfaceIds(laid.ivi)))
     /\ UNCHANGED <<output, plugged, power, lost, used>>

---------------------------------------------------------------------------
(* Requests of the clients on the main thread.                             *)

\* A handler of a request, which ends with this.
Handler(d) ==
  /\ power = "on" /\ Calls(1)
  /\ Becomes(d)
  /\ UNCHANGED <<output, plugged, screen, power, queue, lost>>

\* The defaults that follow a new path, in the handler's order: each updates its
\* status only when it worked, and without a surface the visibility keeps the
\* status and the control of the path before.
\* Whether the path is clipped stays as it was, and is not what is published.
DefaultClipping(d) ==
  LET stays == d.path # "" /\ d.setting[Id(d.path)].clipOn
  IN [d EXCEPT !.setting = IF d.path = "" THEN @ ELSE ClearVideoInputClippingSize(@, Id(d.path)),
               !.sts.clipOn = FALSE, !.sts.clip = NoRect,
               !.behind = (@ \ {"clip"}) \cup IF stays THEN {"clip"} ELSE {}]

UpdateVpathOutput(d, r) == [d EXCEPT !.sts.out = r, !.behind = @ \ {"out"}]

DefaultOutput(d) ==
  LET s == SetDestRectangleCommon(d, d.path, Screen)
  IN IF ~GetScreenSize THEN [d EXCEPT !.behind = @ \cup {"out", "place"}]
     ELSE IF s.ok THEN UpdateVpathOutput(s, Screen)
     ELSE [s EXCEPT !.behind = @ \cup {"out"}]

UpdateStatusVisible(d) ==
  LET shown == GetVisibilityCommon(d, d.path)
  IN [d EXCEPT !.sts.visible = shown, !.ctl.visible = shown, !.behind = @ \ {"visible"}]

DefaultVisibility(d) ==
  LET s == IF d.path = "" THEN [d EXCEPT !.ok = TRUE] ELSE SetVisibility(d, FALSE)
  IN IF s.ok THEN UpdateStatusVisible(s) ELSE [s EXCEPT !.behind = @ \cup {"visible"}]

\* HDMI is taken to be opaque, since its surface may not be there yet.
DefaultOpacity(d) ==
  LET s == IF d.path \in {"", "HDMI"} THEN [d EXCEPT !.ok = TRUE]
           ELSE SetOpacity(d, TRUE)
  IN IF ~s.ok THEN [s EXCEPT !.behind = @ \cup {"opacity"}]
     ELSE [s EXCEPT !.sts.opaque = TRUE, !.ctl.opaque = TRUE,
                    !.behind = IF d.path = "HDMI" THEN @ \cup {"opacity"} ELSE @ \ {"opacity"}]

UpdateStatusWideMode(d) ==
  LET wide == GetFrontWideMode(d) IN [d EXCEPT !.sts.wide = wide, !.ctl.wide = wide]

\* The compositor's answer was ignored: the status follows in any case.
DefaultWide(d) ==
  UpdateStatusWideMode(IF d.path = "" THEN d ELSE SetWideModeCommon(d, d.path, "normal"))

VpathFrontCurrent(a) ==
  /\ output = "front" /\ a # path /\ IsValidVideoPathAvailable(Display, a)
  /\ Handler(DefaultWide(DefaultOpacity(DefaultVisibility(DefaultOutput(
       DefaultClipping(SetFrontPath(Display, a)))))))

VpathRearCurrent(a) ==
  /\ output = "rear" /\ a # path /\ IsValidVideoPathAvailable(Display, a) /\ screen
  /\ Handler(DefaultWide(DefaultOpacity(DefaultVisibility(DefaultOutput(SetRearPath(Display, a))))))

VpathIClusterCurrent(a) ==
  /\ output = "ic" /\ a # path /\ IsValidVideoPathAvailable(Display, a) /\ screen
  /\ Handler(DefaultOpacity(DefaultVisibility(DefaultOutput(DefaultClipping(SetIClusterPath(Display, a))))))

\* What the camera's rectangle is by then is published.
VpathCameraCurrent(a) ==
  LET d == SetCameraPath(Display, a)
  IN /\ output = "camera" /\ a # path /\ IsValidVideoPathAvailable(Display, a)
     /\ Handler(IF d.ok THEN UpdateVpathOutput(d, GetDestRectangleCommon(d, "CAMERA")) ELSE d)

\* The rectangle of a path, once there is one and its screen; the camera needs none.
IsValidOutputSize(r) == GetScreenSize /\ Inside(r, Screen)
Output(r) ==
  LET d == SetDestRectangleCommon(Display, path, r)
  IN /\ path # "" /\ IsValidOutputSize(r)
     /\ Handler(IF d.ok THEN UpdateVpathOutput(d, r) ELSE [d EXCEPT !.behind = @ \cup {"out"}])

VpathFrontOutput(r)    == output = "front" /\ Output(r)
VpathRearOutput(r)     == output = "rear" /\ screen /\ Output(r)
VpathIClusterOutput(r) == output = "ic" /\ screen /\ Output(r)

\* The first rectangle ends the camera's wide mode, unless it cannot be set.
SetCameraDestRectangle(d, r) == SetDestRectangleCommon(d, "CAMERA", r)
SetCameraWideMode(d, wide) == [d EXCEPT !.setting = SetVideoWideMode(@, Id("CAMERA"), wide)]
VpathCameraOutput(r) ==
  LET first == GetVideoWideMode(setting, Id("CAMERA")) = "normal"
      d == SetCameraDestRectangle(IF first THEN SetCameraWideMode(Display, "invalid") ELSE Display, r)
  IN /\ output = "camera" /\ IsValidOutputSize(r)
     /\ Handler(IF d.ok THEN UpdateVpathOutput(d, r)
                ELSE IF first THEN SetCameraWideMode(d, "normal") ELSE d)

\* The MICON tells the size of the camera's picture, which cuts it; the surface and its
\* mute follow while a camera is captured, the mute with the next commit.
SetCameraForceInputSize(d, r) == [d EXCEPT !.setting = SetVideoInputParam(@, Id("CAMERA"), TRUE, r)]
SetCameraForceSourceRectangle(d, r) ==
  LET s == SetSourceRectangleCommon(d, "CAMERA", TRUE, r)
  IN IF s.ok THEN [SetVideoBlindSurfaceRectangle(s, "mute", "CAMERA") EXCEPT !.behind = @ \ {"place"}]
     ELSE s
SetCameraInputSize(r, captured) ==
  LET d == SetCameraForceInputSize([Display EXCEPT !.behind = @ \cup {"rect", "place", "out"}], r)
  IN /\ output = "camera" /\ ValidClipping(setting, Id("CAMERA"), r)
     /\ Handler(IF captured THEN SetCameraForceSourceRectangle(d, r) ELSE d)

\* A rectangle that does not fit into the surface's first size, when that is known, is
\* refused; what the settings then hold is published.
UpdateVpathClipping(d) ==
  [d EXCEPT !.sts.clipOn = d.setting[Id(d.path)].clipOn, !.sts.clip = GetSourceRectangleCommon(d, d.path),
            !.behind = @ \ {"clip"}]

VpathFrontClipping(on, r) ==
  LET d == SetSourceRectangleCommon(Display, path, on, r)
  IN /\ output = "front" /\ path # "" /\ (on => ValidClipping(setting, Id(path), r))
     /\ Handler(IF d.ok THEN UpdateVpathClipping(d) ELSE [d EXCEPT !.behind = @ \cup {"clip"}])

\* The cluster's is published without a surface too.
VpathIClusterClipping(on, r) ==
  /\ output = "ic" /\ path # "" /\ (on => ValidClipping(setting, Id(path), r))
  /\ Handler(UpdateVpathClipping(SetSourceRectangleCommon(Display, path, on, r)))

\* Only a change of the control reaches the handler; the status follows the
\* request whatever the compositor answers.
Visible(b) ==
  LET asked == [Display EXCEPT !.ctl.visible = b]
      d == SetVisibility(asked, b)
  IN /\ b # ctl.visible
     /\ Handler(IF path = "" THEN asked
                ELSE [d EXCEPT !.sts.visible = b, !.behind = @ \ {"visible"}])

VpathFrontVisible(b)    == output = "front" /\ Visible(b)
VpathRearVisible(b)     == output = "rear" /\ Visible(b)
VpathIClusterVisible(b) == output = "ic" /\ Visible(b)

\* Without the compositor the rear's status follows all the same.
Opacity(b, always) ==
  LET asked == [Display EXCEPT !.ctl.opaque = b]
      d == SetOpacity(asked, b)
  IN /\ b # ctl.opaque
     /\ Handler(IF path = "" THEN asked
                ELSE IF d.ok \/ always
                THEN [d EXCEPT !.sts.opaque = b, !.behind = @ \ {"opacity"}]
                ELSE [d EXCEPT !.behind = @ \cup {"opacity"}])

VpathFrontOpacity(b)    == output = "front" /\ Opacity(b, FALSE)
VpathRearOpacity(b)     == output = "rear" /\ Opacity(b, TRUE)
VpathIClusterOpacity(b) == output = "ic" /\ Opacity(b, FALSE)

Wide(w) ==
  LET asked == [Display EXCEPT !.ctl.wide = w]
  IN /\ w # ctl.wide
     /\ Handler(IF path = "" THEN asked
                ELSE [SetWideModeCommon(asked, path, w) EXCEPT !.sts.wide = w])

VpathFrontWide(w) == output = "front" /\ Wide(w)
VpathRearWide(w)  == output = "rear" /\ Wide(w)

\* The status says muted without a path too.
Mute(b) ==
  LET d == SetBlinderEnable(Display, GetBlinderID("mute"), b)
  IN /\ b # ctl.mute
     /\ Handler([d EXCEPT !.ctl.mute = b, !.sts.mute = b,
                          !.behind = IF b /\ path = "" THEN @ \cup {"muted"} ELSE @ \ {"muted"}])

MuteFrontVideo(b) == output = "front" /\ Mute(b)
MuteRearVideo(b)  == output = "rear" /\ screen /\ Mute(b)

\* The layout file's layers are sorted again, then the screen's.
SetIviLayerOrder(d, layer, new) ==
  LET f == ReorderLayersOnScreen(d.file, layer, new)
  IN [d EXCEPT !.file = f, !.ivi = Ivi!SetLayerOrder(@, f.ids)]
GetIviLayerOrder(layer) == file.order[layer]
IviLayerOrder(layer, new) ==
  GetIviLayerOrder(layer) # new /\ Handler(SetIviLayerOrder(Display, layer, new))

---------------------------------------------------------------------------
(* Suspend and resume: events are dropped from SetSuspend on.               *)

SetSuspend ==
  /\ power = "on" /\ Calls(1)
  /\ power' = "falling"
  /\ queue' = <<>> /\ lost' = lost \cup (About(queue) \cap Here)
  /\ UNCHANGED <<output, plugged, screen, display>>

\* The path is cleared, of the rear and the cluster only with their screen.
StrSuspendPathClearFront(d)    == IF d.path # "" THEN SetFrontPath(d, "") ELSE d
StrSuspendPathClearRear(d)     == IF d.path # "" /\ screen THEN SetRearPath(d, "") ELSE d
StrSuspendPathClearICluster(d) == IF d.path # "" /\ screen THEN SetIClusterPath(d, "") ELSE d
StrSuspendPathClearCamera(d)   == IF d.path # "" THEN SetCameraPath(d, "") ELSE d

\* The display is muted, of the rear and the cluster only when it was told to be there.
StrSuspendMute(d) ==
  IF output = "front" \/ (output \in {"rear", "ic"} /\ d.sts.display)
  THEN SetBlinderEnable(d, DisplayMute, TRUE) ELSE d

\* The properties go back to their first values, the display's stays.
InitializeProperties(d) ==
  [d EXCEPT !.ctl = NewControl, !.sts = NewStatus(d.sts.display),
            !.behind = (@ \ {"muted"}) \cup IF d.path = "" THEN {} ELSE {"out"}]

StrSuspend ==
  LET muted == StrSuspendMute(Display)
  IN /\ power = "falling"
     /\ power' = "off"
     /\ Becomes(InitializeProperties(
          CASE output = "front"  -> StrSuspendPathClearFront(muted)
            [] output = "rear"   -> StrSuspendPathClearRear(muted)
            [] output = "ic"     -> StrSuspendPathClearICluster(muted)
            [] output = "camera" -> StrSuspendPathClearCamera(muted)))
     /\ UNCHANGED <<output, plugged, screen, queue, lost, used>>

\* The front display starts muted.
StrResume ==
  LET unmutes == output \in {"rear", "ic"} /\ sts.display
  IN /\ power = "off"
     /\ power' = "on"
     /\ Becomes(IF unmutes THEN SetBlinderEnable(Display, DisplayMute, FALSE) ELSE Display)
     /\ UNCHANGED <<output, plugged, screen, queue, lost, used>>

---------------------------------------------------------------------------
(* The applications and the displays, through the compositor.              *)

Paths == {GetSurfaceIdFromVideoPath(a) : a \in Here}
Own   == {GetBlinderID(kind) : kind \in Blinders(output)}
Nothing == <<"", "">>

Outside == Calls(1) /\ UNCHANGED <<output, screen, power, path, setting, file, ctl, sts, told, behind>>

SurfaceCreated(n) ==
  /\ ~Ivi!Exists(ivi, n) /\ Outside
  /\ ivi' = [ivi EXCEPT !.surface[n] = Ivi!NewSurface]
  /\ Post(Event("created", n, NoRect))
  /\ UNCHANGED plugged

SurfaceDeleted(n) ==
  /\ Ivi!Exists(ivi, n) /\ Outside
  /\ ivi' = [ivi EXCEPT !.surface[n] = Ivi!NoSurface]
  /\ Post(Event("deleted", n, NoRect))
  /\ UNCHANGED plugged

\* The first picture of a size; the manager's own surfaces are drawn once.
SurfaceConfigured(n, r) ==
  /\ ivi.surface[n].listening /\ Outside
  /\ n \in Own => r = Drawn /\ ~ivi.surface[n].frames
  /\ n \in Paths => r \in Sizes
  /\ ivi' = [ivi EXCEPT !.surface[n].frames = (@ \/ HasArea(r))]
  /\ Post(Event("configured", n, r))
  /\ UNCHANGED plugged

ScreenAdded ==
  /\ Outside
  /\ plugged' = TRUE
  /\ Post(Event("output", Nothing, NoRect))
  /\ UNCHANGED ivi

---------------------------------------------------------------------------
\* The manager's own surfaces are there, the screen perhaps.
Compositor(own, paths, there) ==
  LET empty == Ivi!Compositor(own \cup paths, own)
  IN Ivi!AddSurfacesToLayer(IF there THEN Ivi!CreateLayers(empty, ReadFile.ids) ELSE empty, own)

\* InitLayout.
Init ==
  /\ output \in Outputs
  /\ plugged \in BOOLEAN /\ screen = plugged
  /\ power = "on"
  /\ ivi = Compositor(Own, Paths, screen)
  /\ queue = <<>> /\ lost = {}
  /\ path = ""
  /\ setting = RegisterVideoPath([a \in Here |-> {output}], Default)
  /\ file = ReadFile
  /\ ctl = NewControl /\ sts = NewStatus(screen)
  /\ told = [a \in Here |-> a \in {"HDMI", "CAMERA"}]
  /\ used = 0
  /\ behind = {}

Next ==
  \/ HandleSurfaceEvent \/ NotifyOutputAdded
  \/ \E a \in Here \cup {""} : \/ VpathFrontCurrent(a) \/ VpathRearCurrent(a)
                               \/ VpathIClusterCurrent(a) \/ VpathCameraCurrent(a)
  \/ \E r \in {Part, Screen} : \/ VpathFrontOutput(r) \/ VpathRearOutput(r)
                               \/ VpathIClusterOutput(r) \/ VpathCameraOutput(r)
  \/ \E r \in Sizes \ {NoRect}, captured \in BOOLEAN : SetCameraInputSize(r, captured)
  \/ \E r \in Clips : VpathFrontClipping(TRUE, r) \/ VpathIClusterClipping(TRUE, r)
  \/ VpathFrontClipping(FALSE, NoRect) \/ VpathIClusterClipping(FALSE, NoRect)
  \/ \E b \in BOOLEAN : VpathFrontVisible(b) \/ VpathRearVisible(b) \/ VpathIClusterVisible(b)
  \/ \E b \in BOOLEAN : VpathFrontOpacity(b) \/ VpathRearOpacity(b) \/ VpathIClusterOpacity(b)
  \/ \E w \in Wides : VpathFrontWide(w) \/ VpathRearWide(w)
  \/ \E b \in BOOLEAN : MuteFrontVideo(b) \/ MuteRearVideo(b)
  \/ \E layer \in DOMAIN Order, new \in NewOrders : IviLayerOrder(layer, new)
  \/ SetSuspend \/ StrSuspend \/ StrResume
  \/ \E n \in Paths : SurfaceCreated(n) \/ SurfaceDeleted(n)
  \/ \E n \in Paths \cup Own, r \in Sizes \cup {Drawn} : SurfaceConfigured(n, r)
  \/ ScreenAdded

Spec == Init /\ [][Next]_vars

---------------------------------------------------------------------------
Now(n) == ivi.surface[n].now
Video(a) == ivi.surface[GetSurfaceIdFromVideoPath(a)]
Blinder(kind) == Now(GetBlinderID(kind))

\* The surface of the path is added, and the manager knows of a size it has had since.
Settled(a) == Video(a).listening /\ setting[Id(a)].orig.set

\* What the wide mode makes of a clipping, or of some size of the whole picture.
Pictures(a) ==
  LET s == setting[Id(a)]
  IN {GetVideoWideRectangle(setting, Id(a), src, s.out.rect) :
        src \in IF s.clipOn THEN {s.clip.rect} ELSE Sizes \ {NoRect}}

(* Only the surface of the current path is shown, unless the layout file    *)
(* shows it by itself: events of surfaces of other paths, that come late    *)
(* or again, put none of them over it; and none is while the system is      *)
(* suspended, when the display's mute covers it, of the rear and the        *)
(* cluster if they were told to be there (ConfigureSurface,                 *)
(* SetVideoPathCommon, StrSuspend).                                         *)
OnlyTheCurrentPathShows ==
  /\ \A a \in Here :
       Video(a).now.shown /\ Initial[a] = "invisible" => a = path /\ power # "off"
  /\ power = "off" /\ output # "camera" /\ (output = "front" \/ sts.display) =>
       Now(DisplayMute).shown

(* Once its surface has settled, the current path is shown exactly when the *)
(* last request made it visible, with the rectangles that its wide mode     *)
(* makes of what is set for it, whether the requests came before or after   *)
(* the surface was created, added or configured, or while an earlier one    *)
(* was going; the camera may keep its rectangles until its next picture     *)
(* (ConfigureSurface against SetVisibilityCommon, SetDestRectangleCommon,   *)
(* SetSourceRectangleCommon and SetWideModeCommon).                         *)
SurfaceAsSet ==
  path # "" /\ Settled(path) =>
    LET now == Video(path).now
    IN /\ now.shown = setting[Id(path)].vis
       /\ "rect" \notin behind => [src |-> now.src, dest |-> now.out] \in Pictures(path)

(* The background is shown exactly behind a visible, opaque current path,   *)
(* unless the last change of the two found no surface to change, the        *)
(* background has been drawn or added to its layer since, or the layout     *)
(* file showed the video by itself.  The mute, sync and background surfaces *)
(* lie where the current path's video is set to be, unless the last         *)
(* rectangle found no surface or screen, or an event about another surface  *)
(* moved one of them; the camera's until its surface is configured again,   *)
(* and from the next change on only, since its size is not committed        *)
(* (SetVisibility, SetOpacity, SetDestRectangleCommon, SetVideoPathCommon,  *)
(* ConfigureSurface, SetCameraForceSourceRectangle).                        *)
PlanesFollowTheVideo ==
  /\ HasBackground /\ "bg" \notin behind =>
       Blinder("bg").shown = (path # "" /\ setting[Id(path)].vis /\ setting[Id(path)].opaque)
  /\ path # "" /\ "place" \notin behind =>
       \A kind \in Followers :
         BlindRectangle(Display, path) =
           IF output = "camera" THEN ivi.surface[GetBlinderID(kind)].next.out ELSE Blinder(kind).out

(* What is published of the current path's visibility, opacity, clipping,   *)
(* rectangle and wide mode is what is set for it, and a request for the     *)
(* other visibility is not taken for no change, unless the defaults of a    *)
(* new path found no surface or left it clipped, or the layout file showed  *)
(* its surface by itself; the mute told is the one shown, the paths told to *)
(* be available are those with a surface unless the event was dropped, and  *)
(* the screen's layers are in the order told (the handlers' tails,          *)
(* UpdateStatusVisible, ClearVideoInputClippingSize,                        *)
(* UpdateVpathStatusAvailable, SetIviLayerOrder, NotifyOutputAdded).        *)
StatusFollows ==
  /\ path # "" =>
       LET s == setting[Id(path)]
       IN /\ "visible" \notin behind /\ output # "camera" =>
               sts.visible = s.vis /\ ctl.visible = sts.visible
          /\ "opacity" \notin behind /\ output # "camera" => sts.opaque = s.opaque
          /\ HasClipping /\ "clip" \notin behind => sts.clipOn = s.clipOn
          /\ "out" \notin behind => sts.out = GetDestRectangleCommon(Display, path)
          /\ HasWide => sts.wide = s.wide
  /\ HasWide /\ "muted" \notin behind => sts.mute = Blinder("mute").shown
  /\ \A a \in Here \ lost : Pending(a) \/ told[a] = IsValidVideoPathAvailable(Display, a)
  /\ sts.display = screen
  /\ screen => /\ ivi.layers = file.ids
               /\ \A i, j \in DOMAIN file.ids :
                    i < j => GetIviLayerOrder(file.ids[i]) <= GetIviLayerOrder(file.ids[j])
=============================================================================
