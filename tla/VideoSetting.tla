------------------------------ MODULE VideoSetting ------------------------------
(***************************************************************************)
(* CVhalLayoutVideoSetting: what was set for each video path on each of    *)
(* the outputs it can be shown on, and the rectangles that its wide mode   *)
(* makes of them.  A table maps a path and an output to a record; the      *)
(* operators take the table and give the changed one, or what they read.   *)
(* The manager asks only for pairs that are registered.                    *)
(***************************************************************************)
EXTENDS Rectangles

\* VideoRectangleRecord: whether it has been set at all.
Given(r) == [rect |-> r, set |-> TRUE]
NotGiven(r) == [rect |-> r, set |-> FALSE]

WideModes == {"normal", "stretched", "zoomed", "invalid"}

\* The name a record is found by.
GetVideoPathIdentifier(path, output) == <<path, output>>

\* A record for each output of the path; the meter has no wide mode.
VideoSurfaceRecord(first, wide) ==
  [orig |-> NotGiven(first), clip |-> NotGiven(first), out |-> NotGiven(first),
   wide |-> wide, vis |-> FALSE, opaque |-> TRUE, clipOn |-> FALSE]
RegisterVideoPath(targets, first) ==
  [id \in UNION {{GetVideoPathIdentifier(p, o) : o \in targets[p]} : p \in DOMAIN targets} |->
     VideoSurfaceRecord(first, IF id[2] = "ic" THEN "invalid" ELSE "normal")]

SetVideoOutputSize(t, id, r) == [t EXCEPT ![id].out = Given(r)]
GetVideoOutputSize(t, id) == t[id].out

\* Only the first size counts, until it is cleared.
SetVideoInputOriginalSize(t, id, r) ==
  IF t[id].orig.set \/ r.x # 0 \/ r.y # 0 \/ ~HasArea(r) THEN t
  ELSE [t EXCEPT ![id].orig = Given(r)]
ClearVideoInputOriginalSize(t, ids) ==
  [id \in DOMAIN t |-> IF id \in ids THEN [t[id] EXCEPT !.orig = NotGiven(NoRect)] ELSE t[id]]

\* A clipping has to lie inside the original size, once that is known.
ValidClipping(t, id, r) ==
  /\ 0 <= r.x /\ 0 <= r.y /\ HasArea(r)
  /\ t[id].orig.set => LET o == t[id].orig.rect IN r.x + r.w <= o.w /\ r.y + r.h <= o.h
SetVideoInputParam(t, id, on, r) ==
  IF ~on THEN [t EXCEPT ![id].clipOn = FALSE, ![id].clip = t[id].orig]
  ELSE IF ValidClipping(t, id, r) THEN [t EXCEPT ![id].clipOn = TRUE, ![id].clip = Given(r)]
  ELSE t
GetVideoInputParam(t, id) == IF t[id].clipOn THEN t[id].clip ELSE t[id].orig

\* The switch stays as it was.
ClearVideoInputClippingSize(t, id) == [t EXCEPT ![id].clip = NotGiven(NoRect)]

\* Only the camera may do without a wide mode once it had one.
SetVideoWideMode(t, id, wide) ==
  IF wide = "invalid" /\ id[2] # "camera" THEN t ELSE [t EXCEPT ![id].wide = wide]
GetVideoWideMode(t, id) == IF id[1] = "" THEN "normal" ELSE t[id].wide

SetVideoVisibility(t, id, vis) == [t EXCEPT ![id].vis = vis]
GetVideoVisibility(t, id) == t[id].vis
SetVideoOpacity(t, id, opaque) == [t EXCEPT ![id].opaque = opaque]
GetVideoOpacity(t, id) == t[id].opaque

---------------------------------------------------------------------------
(* The wide modes.  C++ divides towards zero.                              *)

Div(a, b) == IF a >= 0 THEN a \div b ELSE -((-a) \div b)
Percent(n, of) == (n * 100) \div of

\* The middle of what is left, or of what sticks out.
Centred(from, room, size) == from + Div(room - size, 2)

\* Which of the two directions fills the output, in whole percents.
IsWider(src, dest) == Percent(src.w, dest.w) > Percent(src.h, dest.h)

\* The whole picture, as large as the output allows, in the middle of it.
ScalingWideNormal(src, dest) ==
  LET w == IF IsWider(src, dest) THEN dest.w ELSE (dest.h * src.w) \div src.h
      h == IF IsWider(src, dest) THEN (dest.w * src.h) \div src.w ELSE dest.h
  IN [src |-> src,
      dest |-> Rect(Centred(dest.x, dest.w, w), Centred(dest.y, dest.h, h), w, h)]

\* The whole picture over the whole output.
ScalingWideStretched(src, dest) == [src |-> src, dest |-> dest]

\* The middle of the picture over the whole output.
ScalingWideZoomed(src, dest) ==
  LET w == IF IsWider(src, dest) THEN (dest.w * src.h) \div dest.h ELSE src.w
      h == IF IsWider(src, dest) THEN src.h ELSE (dest.h * src.w) \div dest.w
  IN [src |-> Rect(Centred(src.x, src.w, w), Centred(src.y, src.h, h), w, h),
      dest |-> dest]

\* Rectangles without area are left alone, and so are all without a wide mode;
\* the camera's normal one starts in the corner.
InWideMode(wide, target, src, dest) ==
  LET normal == ScalingWideNormal(src, dest)
  IN IF ~HasArea(src) \/ ~HasArea(dest) \/ wide = "invalid" THEN [src |-> src, dest |-> dest]
     ELSE CASE wide = "normal"    ->
                 IF target = "camera" THEN [normal EXCEPT !.dest.x = 0, !.dest.y = 0] ELSE normal
            [] wide = "stretched" -> ScalingWideStretched(src, dest)
            [] wide = "zoomed"    -> ScalingWideZoomed(src, dest)
GetVideoWideRectangle(t, id, src, dest) == InWideMode(t[id].wide, id[2], src, dest)

---------------------------------------------------------------------------
(* What the wide modes are for.                                            *)

\* Whole percents can tell which direction fills the output.
IsClear(src, dest) == Percent(src.w, dest.w) # Percent(src.h, dest.h)

\* The one rectangle has the proportions of the other, to a pixel of rounding.
HasProportions(r, of) ==
  /\ r.w * of.h < (r.h + 1) * of.w
  /\ r.h * of.w < (r.w + 1) * of.h

\* What is shown lies within the output, and what is cut out within the picture; only
\* the stretched mode changes the proportions.
WideModesAsMeant(src, dest) ==
  LET normal == ScalingWideNormal(src, dest)
      zoomed == ScalingWideZoomed(src, dest)
  IN HasArea(src) /\ HasArea(dest) /\ IsClear(src, dest) =>
       /\ Inside(normal.dest, dest) /\ HasProportions(normal.dest, src) /\ normal.src = src
       /\ Inside(zoomed.src, src) /\ HasProportions(zoomed.src, dest) /\ zoomed.dest = dest
=============================================================================
