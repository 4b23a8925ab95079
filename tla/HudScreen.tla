------------------------------- MODULE HudScreen -------------------------------
(***************************************************************************)
(* The head-up display: CVhalHudScreenController decides from what the     *)
(* MICON tells whether its picture may be seen, gives the renderer's       *)
(* plugin the parameters that correct it, and covers it with a surface     *)
(* until it has taken them.  The operators take the record of all that     *)
(* the controller, the layout manager and the plugin hold, and give the    *)
(* changed one; "refused" is the set of parameters that the plugin does    *)
(* not take this time.                                                     *)
(***************************************************************************)

NotStored == "none"
Parameters == {"corrections", "rotation"}
NoParameters == [p \in Parameters |-> NotStored]

\* The mute surface is "none", "made" in the compositor, "added" to its layer, "sized"
\* and "placed".  Histories: what was last "wanted" of the plugin, what it has refused
\* since, whether it has taken the last attempt; whether "init" was set before the last
\* suspend ("old") and whether the surface was placed by such a value ("stale").
HudScreen(available) ==
  [available |-> available, func |-> FALSE, black |-> TRUE, stored |-> NoParameters,
   known |-> FALSE, init |-> TRUE, surface |-> "none", shown |-> FALSE,
   given |-> NoParameters, wanted |-> NoParameters, refused |-> {}, taken |-> TRUE,
   old |-> FALSE, stale |-> FALSE]

IsHudScreenAvailable(h) == h.available
IsHudStatusEnableAndBlackNoRequested(h) == h.func /\ ~h.black

\* SetBlinderEnable: a surface that is not there is not shown.
SetBlinderEnable(h, on) == IF h.surface = "none" THEN h ELSE [h EXCEPT !.shown = on, !.stale = FALSE]

\* Once there, the surface is not looked for again.
IsHudMuteDisplaySurfaceEnabled(h) == h.known \/ h.surface # "none"
SetHudMuteSurfaceVisible(h, on) ==
  LET set == [h EXCEPT !.init = on, !.old = FALSE]
  IN IF IsHudMuteDisplaySurfaceEnabled(h) THEN SetBlinderEnable([set EXCEPT !.known = TRUE], on) ELSE set

\* A stored parameter is forgotten whether or not the plugin took it; after refused
\* corrections the rotation is kept for the next time.
Give(h, p, refused) ==
  IF h.stored[p] = NotStored THEN [h EXCEPT !.taken = TRUE]
  ELSE IF p \in refused
  THEN [h EXCEPT !.stored[p] = NotStored, !.refused = @ \cup {p}, !.taken = FALSE]
  ELSE [h EXCEPT !.stored[p] = NotStored, !.given[p] = h.stored[p], !.refused = @ \ {p}, !.taken = TRUE]
SetStoredHudParametersToWaylandPlugin(h, refused) ==
  LET corrected == Give(h, "corrections", refused)
  IN IF corrected.taken THEN Give(corrected, "rotation", refused) ELSE corrected

\* Seeded fault: the cover goes although the plugin has refused.
SetHudParametersCommon_Always(h, refused) ==
  SetHudMuteSurfaceVisible(SetStoredHudParametersToWaylandPlugin(h, refused), FALSE)

SetHudParametersCommon(h, refused) ==
  LET s == SetStoredHudParametersToWaylandPlugin(h, refused)
  IN SetHudMuteSurfaceVisible(s, ~s.taken)

ApplyHudFunctionStatus(h, func, refused) ==
  LET s == [h EXCEPT !.func = func]
  IN IF ~h.available THEN h
     ELSE IF IsHudStatusEnableAndBlackNoRequested(s) THEN SetHudParametersCommon(s, refused)
     ELSE SetHudMuteSurfaceVisible(s, TRUE)

\* Corrections wait until the picture may be seen.
ApplyHudDistortionCorrection(h, corrections, black, refused) ==
  LET s == IF black THEN [h EXCEPT !.black = TRUE]
           ELSE [h EXCEPT !.black = FALSE, !.stored["corrections"] = corrections,
                          !.wanted["corrections"] = corrections]
  IN IF ~h.available THEN h
     ELSE IF IsHudStatusEnableAndBlackNoRequested(s) THEN SetHudParametersCommon(s, refused)
     ELSE SetHudMuteSurfaceVisible(s, TRUE)

ApplyHudRotation(h, rotation, refused) ==
  LET s == [h EXCEPT !.stored["rotation"] = rotation, !.wanted["rotation"] = rotation]
  IN IF ~h.available THEN h
     ELSE IF IsHudStatusEnableAndBlackNoRequested(s) THEN SetHudParametersCommon(s, refused)
     ELSE s

\* Whether the screen and the surface are there outlasts a suspend; so does what
\* the layout manager shows the surface by.
ReInitHud(h) ==
  [h EXCEPT !.func = FALSE, !.black = TRUE, !.stored = NoParameters, !.wanted = NoParameters,
            !.old = TRUE]

\* StrSuspend mutes the display.
StrSuspendMuteHud(h) == IF IsHudScreenAvailable(h) THEN SetBlinderEnable(h, TRUE) ELSE h

---------------------------------------------------------------------------
(* CVhalHudScreenReceiver: what the MICON's values mean.                   *)

\* An invalid value or a message too long is no function.
NotifyHudFunctionStatus(h, v, refused) == ApplyHudFunctionStatus(h, v = "01", refused)

\* An invalid request is a request to stay black.
NotifyHudDistortionCorrection(h, v, refused) ==
  IF v \in {"black", "odd"}
  THEN ApplyHudDistortionCorrection(h, NotStored, TRUE, refused)
  ELSE ApplyHudDistortionCorrection(h, v, FALSE, refused)

NotifyHudRotation(h, v, refused) == ApplyHudRotation(h, v, refused)

---------------------------------------------------------------------------
(* The mute surface.                                                       *)

\* Made and drawn at the start, when there is a screen for it; to be shown.
CreateHudBlinder(h) == [h EXCEPT !.surface = "made", !.init = TRUE]

\* Hidden at first, whatever was asked before.
AddSurfaceToLayer(h) == [h EXCEPT !.surface = "added", !.shown = FALSE]

\* The compositor knows its size.
NotifyIviConfigureSurface(h) == [h EXCEPT !.surface = "sized"]

\* Shown as the controller said last, be it before a suspend.
ConfigureBlinder(h) == [h EXCEPT !.surface = "placed", !.shown = h.init, !.stale = h.old]
================================================================================
