---------------------------- MODULE MCDisplayLayout ----------------------------
(* Of each output a path that needs its surface, of the displays also HDMI,   *)
(* which does not.  Two sizes of a surface, one with wider pictures than the  *)
(* other, on a screen that is wider than both.                                *)
EXTENDS DisplayLayout

OutputApps == [front  |-> {"DTV", "HDMI"}, rear |-> {"DTV", "HDMI"},
               ic     |-> {"MAP", "CARPLAY"}, camera |-> {"CAMERA"}]
AllInvisible == [a \in UNION {OutputApps[o] : o \in DOMAIN OutputApps} |-> "invisible"]

TwoLayers == <<"layer1", "layer2">>
FirstOrder == [layer1 |-> 1, layer2 |-> 2]

NoSizeOrTwo == {NoRect, Rect(0, 0, 720, 480), Rect(0, 0, 1280, 720)}
SmallOrLarge == {Rect(60, 40, 600, 400), Rect(0, 0, 800, 600)}
PartRect == Rect(100, 50, 640, 480)
ScreenRect == Rect(0, 0, 1920, 720)
DefaultRect == Rect(0, 0, 1280, 720)
DrawnRect == Rect(0, 0, 64, 64)

\* The wide modes over all small pictures and outputs.
SmallRects == {Rect(x, 3, w, h) : x \in {0, 2}, w \in 0..9, h \in 0..9}
ASSUME SmallWideModes == \A src, dest \in SmallRects : WideModesAsMeant(src, dest)
===============================================================================
