------------------------------ MODULE Rectangles ------------------------------
(***************************************************************************)
(* Rectangles on a screen and on a picture.                                *)
(***************************************************************************)
EXTENDS Integers

Rect(x, y, w, h) == [x |-> x, y |-> y, w |-> w, h |-> h]
NoRect == Rect(0, 0, 0, 0)
Rectangle == [x : Int, y : Int, w : Nat, h : Nat]

\* A size of zero in either direction is none.
HasArea(r) == r.w # 0 /\ r.h # 0

Inside(r, of) ==
  /\ of.x <= r.x /\ of.y <= r.y
  /\ r.x + r.w <= of.x + of.w /\ r.y + r.h <= of.y + of.h
=============================================================================
