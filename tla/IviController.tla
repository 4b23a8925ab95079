----------------------------- MODULE IviController -----------------------------
(***************************************************************************)
(* CVhalIVIController and the part of the compositor (the IVI layer        *)
(* manager) that it calls: surfaces, whose changes wait for the next       *)
(* commit, which is one for all of them, and the screen's layers.  The     *)
(* operators take the compositor and give the changed one; a call on a     *)
(* surface that is not there fails and changes nothing.                    *)
(***************************************************************************)
EXTENDS Sequences, Rectangles

\* The visibility, opacity and rectangles that a surface has, or will have.
Untouched == [shown |-> FALSE, opaque |-> TRUE, src |-> NoRect, out |-> NoRect]

NoSurface == [exists |-> FALSE, listening |-> FALSE, layer |-> FALSE, frames |-> FALSE,
              next |-> Untouched, now |-> Untouched]
NewSurface == [NoSurface EXCEPT !.exists = TRUE]

\* Some of the surfaces are there; without layers there is no screen yet.
Compositor(names, made) ==
  [surface |-> [n \in names |-> IF n \in made THEN NewSurface ELSE NoSurface], layers |-> <<>>]

Exists(c, n) == n \in DOMAIN c.surface /\ c.surface[n].exists
Change(c, n, next) == IF Exists(c, n) THEN [c EXCEPT !.surface[n].next = next] ELSE c

SetSurfaceVisibility(c, n, shown) == Change(c, n, [c.surface[n].next EXCEPT !.shown = shown])
SetSurfaceOpacity(c, n, opaque) == Change(c, n, [c.surface[n].next EXCEPT !.opaque = opaque])
SetSurfaceSourceRectangle(c, n, r) == Change(c, n, [c.surface[n].next EXCEPT !.src = r])
SetSurfaceDestinationRectangle(c, n, r) == Change(c, n, [c.surface[n].next EXCEPT !.out = r])

\* One rectangle for several surfaces, those of them that are there.
SetSurfacesDestinationRectangle(c, ns, r) ==
  [c EXCEPT !.surface = [n \in DOMAIN @ |->
     IF n \in ns /\ Exists(c, n) THEN [@[n] EXCEPT !.next.out = r] ELSE @[n]]]

\* What has been committed is what the compositor answers.
GetSurfaceVisibility(c, n) == c.surface[n].now.shown
GetPropertiesOfSurfaceFrameCounter(c, n) == IF c.surface[n].frames THEN 1 ELSE 0
GetSurfaceIds(c) == {n \in DOMAIN c.surface : Exists(c, n)}

CommitChanges(c) ==
  [c EXCEPT !.surface = [n \in DOMAIN c.surface |->
                           [c.surface[n] EXCEPT !.now = c.surface[n].next]]]

\* A screen that does not exist has no order.
HasScreen(c) == c.layers # <<>>
SetLayerOrder(c, ids) == IF HasScreen(c) THEN CommitChanges([c EXCEPT !.layers = ids]) ELSE c
CreateLayers(c, ids) == SetLayerOrder([c EXCEPT !.layers = ids], ids)

\* Hidden, put into the layer if there is one, listened to, all at once.
Added(s, on) == [s EXCEPT !.next.shown = FALSE, !.layer = on, !.listening = TRUE]
AddSurfacesToLayer(c, ns) ==
  CommitChanges([c EXCEPT !.surface = [n \in DOMAIN @ |->
     IF n \in ns /\ Exists(c, n) THEN Added(@[n], @[n].layer \/ HasScreen(c)) ELSE @[n]]])
=============================================================================
