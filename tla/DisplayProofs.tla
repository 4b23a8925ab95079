----------------------------- MODULE DisplayProofs -----------------------------
(***************************************************************************)
(* DisplayLayout for any paths, layers, sizes, requests and bounds: which  *)
(* surfaces are shown, where the video and what covers it lie, and what    *)
(* the clients are told.                                                   *)
(*                                                                         *)
(* A handler is a composition of operators on the record Display.  Each    *)
(* operator has a lemma that says what it changes, in terms of a few       *)
(* functions of the record (Shown, Lies, Vis, ...), by which the invariant *)
(* is stated too; the handlers then follow without looking into the record.*)
(***************************************************************************)
EXTENDS DisplayLayout, FiniteSetTheorems, SequenceTheorems, TLAPS

-----------------------------------------------------------------------------
(* Types                                                                   *)

Surf(a) == GetSurfaceIdFromVideoPath(a)
Names == Paths \cup Own
Ids == {Id(a) : a \in Here}

Look == [shown : BOOLEAN, opaque : BOOLEAN, src : Rectangle, out : Rectangle]
Surface == [exists : BOOLEAN, listening : BOOLEAN, layer : BOOLEAN, frames : BOOLEAN,
            next : Look, now : Look]
Compositors == [surface : [Names -> Surface], layers : Seq(DOMAIN Order)]
GivenRectangle == [rect : Rectangle, set : BOOLEAN]
VideoRecord == [orig : GivenRectangle, clip : GivenRectangle, out : GivenRectangle, wide : WideModes,
                vis : BOOLEAN, opaque : BOOLEAN, clipOn : BOOLEAN]
Settings == [Ids -> VideoRecord]
Files == [ids : Seq(DOMAIN Order), order : [DOMAIN Order -> Int]]
Controls == [visible : BOOLEAN, opaque : BOOLEAN, wide : WideModes, mute : BOOLEAN]
Statuses == [visible : BOOLEAN, opaque : BOOLEAN, wide : WideModes, mute : BOOLEAN,
             out : Rectangle, clipOn : BOOLEAN, clip : Rectangle, display : BOOLEAN]
Marks == {"place", "rect", "bg", "muted", "visible", "opacity", "clip", "out"}
Displays == [ivi : Compositors, path : Here \cup {""}, setting : Settings, file : Files,
             ctl : Controls, sts : Statuses, told : [Here -> BOOLEAN], behind : SUBSET Marks,
             ok : BOOLEAN]
Picture == [src : Rectangle, dest : Rectangle]

\* An event is about a path's surface, with a size it may have, or the manager's own.
Events == [kind : {"created", "deleted"}, name : Paths, size : Rectangle]
          \cup [kind : {"configured"}, name : Paths, size : Sizes]
          \cup [kind : {"configured"}, name : Own, size : Rectangle]
          \cup [kind : {"output"}, name : {Nothing}, size : Rectangle]

OutputOK == output \in Outputs /\ plugged \in BOOLEAN /\ screen \in BOOLEAN
QueueOK == queue \in Seq(Events) /\ lost \in SUBSET Here /\ used \in Nat
TypeOK ==
  /\ OutputOK /\ power \in {"on", "falling", "off"}
  /\ Display \in Displays
  /\ QueueOK

-----------------------------------------------------------------------------
(* What the operators change, and the properties speak of                  *)

\* Of the compositor's surfaces, what the next commit makes of them.
Shown(c, n) == c.surface[n].next.shown
Cut(c, n)   == c.surface[n].next.src
Lies(c, n)  == c.surface[n].next.out
There(c, n) == c.surface[n].exists
Heard(c, n) == c.surface[n].listening
Pictured(c, n) == c.surface[n].frames

SameFlags(c, k) ==
  /\ k.layers = c.layers
  /\ \A n \in Names : /\ There(k, n) <=> There(c, n)
                      /\ Heard(k, n) <=> Heard(c, n)
                      /\ Pictured(k, n) <=> Pictured(c, n)
SameShown(c, k) == \A n \in Names : Shown(k, n) <=> Shown(c, n)
SamePlaced(c, k) == \A n \in Names : Cut(k, n) = Cut(c, n) /\ Lies(k, n) = Lies(c, n)

\* Nothing waits for a commit but where the camera's mute will lie.
Committed(c) ==
  \A n \in Names : LET s == c.surface[n] IN
    /\ (s.next.shown <=> s.now.shown) /\ s.next.src = s.now.src
    /\ s.next.out = s.now.out \/ (output = "camera" /\ n \in Own)

\* Of the settings of a path.
Vis(t, a) == t[Id(a)].vis
Opaque(t, a) == t[Id(a)].opaque
Orig(t, a) == t[Id(a)].orig
Clip(t, a) == t[Id(a)].clip
ClipOn(t, a) == t[Id(a)].clipOn
Out(t, a) == t[Id(a)].out
WideOf(t, a) == t[Id(a)].wide

SameSeen(t, u) ==
  \A a \in Here : (Vis(u, a) <=> Vis(t, a)) /\ (Opaque(u, a) <=> Opaque(t, a))
SameSizes(t, u, a) ==
  /\ Orig(u, a) = Orig(t, a) /\ Clip(u, a) = Clip(t, a) /\ (ClipOn(u, a) <=> ClipOn(t, a))
  /\ Out(u, a) = Out(t, a) /\ WideOf(u, a) = WideOf(t, a)

LEMMA NameFacts ==
  ASSUME OutputOK
  PROVE  /\ "" \notin Here
         /\ \A a \in Here : Surf(a) \in Paths /\ Surf(a) \in Names /\ Surf(a) \notin Own
         /\ \A a \in Here : GetVideoPathFromSurfaceName(Surf(a)) = a
         /\ \A a, b \in Here : (Surf(a) = Surf(b) => a = b) /\ (Id(a) = Id(b) => a = b)
         /\ \A a \in Here : Id(a) \in Ids
         /\ \A n \in Paths : n \in Names /\ n \notin Own /\ ~IsBlinder(n) /\ \E a \in Here : n = Surf(a)
         /\ \A n \in Own : n \in Names /\ n \notin Paths /\ IsBlinder(n)
                           /\ GetVideoPathFromSurfaceName(n) = ""
         /\ output \in {"front", "rear", "ic", "camera"}
<1>1. output \in {"front", "rear", "ic", "camera"} /\ "" \notin Here
  BY LayoutAssumption DEF LayoutAssumption, OutputOK, Here
<1>2. \A kind \in Blinders(output) : kind # "video"  BY <1>1 DEF Blinders
<1>3. \A kind \in Blinders(output) : GetBlinderID(kind)[1] = kind /\ GetBlinderID(kind)[2] = ""
  BY DEF GetBlinderID
<1>4. \A a \in Here : Surf(a)[1] = "video" /\ Surf(a)[2] = a
  BY DEF Surf, GetSurfaceIdFromVideoPath
<1>5. \A a \in Here : Id(a)[1] = a  BY DEF Id, GetVideoPathIdentifier
<1>6. \A a \in Here : Surf(a) \in Paths /\ Id(a) \in Ids  BY DEF Paths, Ids, Surf
<1>7. ASSUME NEW n \in Paths  PROVE /\ n[1] = "video" /\ \E a \in Here : n = Surf(a)
  BY <1>4 DEF Paths, Surf
<1>8. ASSUME NEW n \in Own  PROVE n[1] # "video" /\ n[2] = ""
  BY <1>2, <1>3 DEF Own
<1>9. Paths \cap Own = {}  BY <1>7, <1>8
<1>10. \A a, b \in Here : (Surf(a) = Surf(b) => a = b) /\ (Id(a) = Id(b) => a = b)
  BY <1>4, <1>5
<1>11. \A n : (IsBlinder(n) <=> n[1] # "video") /\ GetVideoPathFromSurfaceName(n) = n[2]
  BY DEF IsBlinder, GetVideoPathFromSurfaceName
<1>. QED
  BY <1>1, <1>4, <1>6, <1>7, <1>8, <1>9, <1>10, <1>11 DEF Names

LEMMA OwnFacts ==
  ASSUME OutputOK
  PROVE  /\ \A kind \in Blinders(output) : GetBlinderID(kind) \in Own /\ GetBlinderID(kind) \in Names
         /\ GetBlinderID("mute") \in Own
         /\ Followers \subseteq Blinders(output) /\ "mute" \in Followers
         /\ \A k, l \in {"mute", "sync", "bg", "display"} : GetBlinderID(k) = GetBlinderID(l) => k = l
         /\ Blinders(output) \subseteq {"mute", "sync", "bg", "display"}
         /\ HasBackground <=> HasWide
         /\ HasWide <=> output \in {"front", "rear"}
         /\ HasBackground => GetBlinderID("bg") \in Own
         /\ output = "camera" => Blinders(output) = {"mute"} /\ Here = {"CAMERA"}
         /\ output # "camera" => DisplayMute \in Own
<1>1. output \in {"front", "rear", "ic", "camera"}  BY NameFacts
<1>2. \A kind \in Blinders(output) : GetBlinderID(kind) \in Own /\ GetBlinderID(kind) \in Names
  BY DEF Own, Names
<1>3. /\ "mute" \in Blinders(output) /\ Blinders(output) \subseteq {"mute", "sync", "bg", "display"}
      /\ (HasBackground <=> HasWide) /\ (HasWide <=> output \in {"front", "rear"})
      /\ HasBackground => "bg" \in Blinders(output)
      /\ output = "camera" => Blinders(output) = {"mute"}
      /\ output \in {"front", "rear"} => "display" \in Blinders(output)
  BY <1>1 DEF Blinders, HasBackground, HasWide
<1>4. \A k, l \in {"mute", "sync", "bg", "display"} : GetBlinderID(k) = GetBlinderID(l) => k = l
  <2>1. ASSUME NEW k, NEW l, GetBlinderID(k) = GetBlinderID(l)  PROVE k = l
    <3>1. GetBlinderID(k)[1] = k /\ GetBlinderID(l)[1] = l  BY DEF GetBlinderID
    <3>. QED  BY <2>1, <3>1
  <2>. QED  BY <2>1
<1>5. output = "camera" => Here = {"CAMERA"}
  BY LayoutAssumption DEF LayoutAssumption, OutputOK, Here
<1>6. output # "camera" => DisplayMute \in Own
  BY <1>1, <1>2, <1>3 DEF DisplayMute
<1>. QED  BY <1>2, <1>3, <1>4, <1>5, <1>6 DEF Followers

-----------------------------------------------------------------------------
(* The compositor                                                          *)

LEMMA ChangeFacts ==
  ASSUME NEW c \in Compositors, NEW n \in Names, NEW look \in Look
  PROVE  LET k == Ivi!Change(c, n, look)
         IN /\ k \in Compositors /\ SameFlags(c, k)
            /\ \A m \in Names : k.surface[m].now = c.surface[m].now
            /\ \A m \in Names : k.surface[m].next = IF m = n /\ There(c, n) THEN look
                                                    ELSE c.surface[m].next
BY DEF Ivi!Change, Ivi!Exists, Compositors, Surface, SameFlags, There, Heard, Pictured

LEMMA VisibilityFacts ==
  ASSUME NEW c \in Compositors, NEW n \in Names, NEW b \in BOOLEAN
  PROVE  LET k == Ivi!SetSurfaceVisibility(c, n, b)
         IN /\ k \in Compositors /\ SameFlags(c, k) /\ SamePlaced(c, k)
            /\ \A m \in Names : Shown(k, m) <=> IF m = n /\ There(c, n) THEN b ELSE Shown(c, m)
            /\ ~There(c, n) => k = c
<1>. DEFINE look == [c.surface[n].next EXCEPT !.shown = b]
            k == Ivi!Change(c, n, look)
<1>1. Ivi!SetSurfaceVisibility(c, n, b) = k  BY DEF Ivi!SetSurfaceVisibility
<1>2. ~There(c, n) => k = c  BY DEF There, Ivi!Change, Ivi!Exists
<1>3. /\ look \in Look /\ look.shown = b
      /\ look.src = c.surface[n].next.src /\ look.out = c.surface[n].next.out
  BY DEF Compositors, Surface, Look
<1>. HIDE DEF look
<1>4. /\ k \in Compositors /\ SameFlags(c, k)
      /\ \A m \in Names : k.surface[m].next = IF m = n /\ There(c, n) THEN look ELSE c.surface[m].next
  BY <1>3, ChangeFacts
<1>. HIDE DEF k
<1>5. SamePlaced(c, k)  BY <1>3, <1>4 DEF SamePlaced, Cut, Lies
<1>6. \A m \in Names : Shown(k, m) <=> IF m = n /\ There(c, n) THEN b ELSE Shown(c, m)
  BY <1>3, <1>4 DEF Shown
<1>. QED  BY <1>1, <1>2, <1>4, <1>5, <1>6

LEMMA OpacityFacts ==
  ASSUME NEW c \in Compositors, NEW n \in Names, NEW b \in BOOLEAN
  PROVE  LET k == Ivi!SetSurfaceOpacity(c, n, b)
         IN /\ k \in Compositors /\ SameFlags(c, k) /\ SamePlaced(c, k) /\ SameShown(c, k)
            /\ ~There(c, n) => k = c
<1>. DEFINE look == [c.surface[n].next EXCEPT !.opaque = b]
            k == Ivi!Change(c, n, look)
<1>1. Ivi!SetSurfaceOpacity(c, n, b) = k  BY DEF Ivi!SetSurfaceOpacity
<1>2. ~There(c, n) => k = c  BY DEF There, Ivi!Change, Ivi!Exists
<1>3. /\ look \in Look /\ look.shown = c.surface[n].next.shown
      /\ look.src = c.surface[n].next.src /\ look.out = c.surface[n].next.out
  BY DEF Compositors, Surface, Look
<1>. HIDE DEF look
<1>4. /\ k \in Compositors /\ SameFlags(c, k)
      /\ \A m \in Names : k.surface[m].next = IF m = n /\ There(c, n) THEN look ELSE c.surface[m].next
  BY <1>3, ChangeFacts
<1>. HIDE DEF k
<1>5. SamePlaced(c, k) /\ SameShown(c, k)
  BY <1>3, <1>4 DEF SamePlaced, SameShown, Cut, Lies, Shown
<1>. QED  BY <1>1, <1>2, <1>4, <1>5

LEMMA PlaceFacts ==
  ASSUME NEW c \in Compositors, NEW n \in Names, NEW rects \in Picture
  PROVE  LET k == Place(c, n, rects)
         IN /\ k \in Compositors /\ SameFlags(c, k) /\ SameShown(c, k)
            /\ \A m \in Names :
                 /\ Cut(k, m) = IF m = n /\ There(c, n) THEN rects.src ELSE Cut(c, m)
                 /\ Lies(k, m) = IF m = n /\ There(c, n) THEN rects.dest ELSE Lies(c, m)
<1>. DEFINE look == [c.surface[n].next EXCEPT !.src = rects.src]
            l == Ivi!Change(c, n, look)
            last == [l.surface[n].next EXCEPT !.out = rects.dest]
            k == Ivi!Change(l, n, last)
<1>1. Place(c, n, rects) = k
  BY DEF Place, Ivi!SetSurfaceDestinationRectangle, Ivi!SetSurfaceSourceRectangle
<1>2. look \in Look  BY DEF Compositors, Surface, Look, Picture
<1>3. /\ look.shown = c.surface[n].next.shown /\ look.src = rects.src
      /\ look.out = c.surface[n].next.out
  BY DEF Compositors, Surface, Look
<1>. HIDE DEF look
<1>4. /\ l \in Compositors /\ SameFlags(c, l)
      /\ \A m \in Names : l.surface[m].next = IF m = n /\ There(c, n) THEN look ELSE c.surface[m].next
  BY <1>2, ChangeFacts
<1>. HIDE DEF l
<1>10. l.surface[n].next \in Look  BY <1>4 DEF Compositors, Surface
<1>5. last \in Look  BY <1>10 DEF Look, Picture
<1>6. /\ last.shown = l.surface[n].next.shown /\ last.out = rects.dest
      /\ last.src = l.surface[n].next.src
  BY <1>10 DEF Look
<1>. HIDE DEF last
<1>7. /\ k \in Compositors /\ SameFlags(l, k)
      /\ \A m \in Names : k.surface[m].next = IF m = n /\ There(l, n) THEN last ELSE l.surface[m].next
  BY <1>4, <1>5, ChangeFacts
<1>. HIDE DEF k
<1>8. SameFlags(c, k) /\ (There(l, n) <=> There(c, n))  BY <1>4, <1>7 DEF SameFlags
<1>9. ASSUME NEW m \in Names
      PROVE  /\ Shown(k, m) <=> Shown(c, m)
             /\ Cut(k, m) = IF m = n /\ There(c, n) THEN rects.src ELSE Cut(c, m)
             /\ Lies(k, m) = IF m = n /\ There(c, n) THEN rects.dest ELSE Lies(c, m)
  <2>1. CASE m = n /\ There(c, n)  BY <2>1, <1>3, <1>4, <1>6, <1>7, <1>8 DEF Shown, Cut, Lies
  <2>2. CASE ~(m = n /\ There(c, n))  BY <2>2, <1>4, <1>7, <1>8 DEF Shown, Cut, Lies
  <2>. QED  BY <2>1, <2>2
<1>. QED  BY <1>1, <1>7, <1>8, <1>9 DEF SameShown

\* Several surfaces changed at once.
LEMMA DestinationFacts ==
  ASSUME NEW c \in Compositors, NEW ns, NEW r \in Rectangle
  PROVE  LET k == Ivi!SetSurfacesDestinationRectangle(c, ns, r)
         IN /\ k \in Compositors /\ SameFlags(c, k) /\ SameShown(c, k)
            /\ \A m \in Names :
                 /\ Cut(k, m) = Cut(c, m)
                 /\ Lies(k, m) = IF m \in ns /\ There(c, m) THEN r ELSE Lies(c, m)
            /\ \A m \in Names : k.surface[m].now = c.surface[m].now
<1>. DEFINE k == Ivi!SetSurfacesDestinationRectangle(c, ns, r)
            new(m) == IF m \in ns /\ There(c, m) THEN [c.surface[m] EXCEPT !.next.out = r]
                      ELSE c.surface[m]
<1>1. c \in [surface : [Names -> Surface], layers : Seq(DOMAIN Order)]  BY DEF Compositors
<1>2. k = [c EXCEPT !.surface = [m \in Names |-> new(m)]]
  BY <1>1 DEF Ivi!SetSurfacesDestinationRectangle, Ivi!Exists, There
<1>3. ASSUME NEW m \in Names
      PROVE  /\ new(m) \in Surface
             /\ new(m).exists = c.surface[m].exists /\ new(m).listening = c.surface[m].listening
             /\ new(m).frames = c.surface[m].frames /\ new(m).now = c.surface[m].now
             /\ new(m).next.shown = c.surface[m].next.shown /\ new(m).next.src = c.surface[m].next.src
             /\ new(m).next.out = IF m \in ns /\ There(c, m) THEN r ELSE c.surface[m].next.out
  <2>1. c.surface[m] \in Surface /\ c.surface[m].next \in Look  BY <1>1 DEF Surface
  <2>. QED  BY <2>1 DEF Surface, Look
<1>. HIDE DEF new
<1>4. k \in Compositors  BY <1>1, <1>2, <1>3 DEF Compositors
<1>5. k.layers = c.layers /\ \A m \in Names : k.surface[m] = new(m)  BY <1>1, <1>2
<1>. HIDE DEF k
<1>6. SameFlags(c, k) /\ SameShown(c, k)
  BY <1>3, <1>5 DEF SameFlags, SameShown, There, Heard, Pictured, Shown
<1>7. \A m \in Names : /\ Cut(k, m) = Cut(c, m)
                        /\ Lies(k, m) = IF m \in ns /\ There(c, m) THEN r ELSE Lies(c, m)
  BY <1>3, <1>5 DEF Cut, Lies
<1>8. \A m \in Names : k.surface[m].now = c.surface[m].now  BY <1>3, <1>5
<1>. QED  BY <1>4, <1>6, <1>7, <1>8 DEF k

LEMMA CommitFacts ==
  ASSUME NEW c \in Compositors
  PROVE  LET k == Ivi!CommitChanges(c)
         IN /\ k \in Compositors /\ SameFlags(c, k) /\ SameShown(c, k) /\ SamePlaced(c, k)
            /\ Committed(k)
            /\ \A m \in Names : k.surface[m].now = c.surface[m].next
<1>. DEFINE k == Ivi!CommitChanges(c)
            new(m) == [c.surface[m] EXCEPT !.now = c.surface[m].next]
<1>1. c \in [surface : [Names -> Surface], layers : Seq(DOMAIN Order)]  BY DEF Compositors
<1>2. k = [c EXCEPT !.surface = [m \in Names |-> new(m)]]
  BY <1>1 DEF Ivi!CommitChanges
<1>3. ASSUME NEW m \in Names
      PROVE  /\ new(m) \in Surface
             /\ new(m).exists = c.surface[m].exists /\ new(m).listening = c.surface[m].listening
             /\ new(m).frames = c.surface[m].frames
             /\ new(m).next = c.surface[m].next /\ new(m).now = c.surface[m].next
  BY <1>1 DEF Surface
<1>. HIDE DEF new
<1>4. k \in Compositors  BY <1>1, <1>2, <1>3 DEF Compositors
<1>5. k.layers = c.layers /\ \A m \in Names : k.surface[m] = new(m)  BY <1>1, <1>2
<1>. HIDE DEF k
<1>6. SameFlags(c, k) /\ SameShown(c, k) /\ SamePlaced(c, k)
  BY <1>3, <1>5 DEF SameFlags, SameShown, SamePlaced, There, Heard, Pictured, Shown, Cut, Lies
<1>7. Committed(k) /\ \A m \in Names : k.surface[m].now = c.surface[m].next
  BY <1>3, <1>5 DEF Committed
<1>. QED  BY <1>4, <1>6, <1>7 DEF k

LEMMA AddFacts ==
  ASSUME NEW c \in Compositors, NEW ns
  PROVE  LET k == Ivi!AddSurfacesToLayer(c, ns)
         IN /\ k \in Compositors /\ SamePlaced(c, k) /\ Committed(k) /\ k.layers = c.layers
            /\ \A m \in Names :
                 /\ There(k, m) <=> There(c, m)
                 /\ Pictured(k, m) <=> Pictured(c, m)
                 /\ Heard(k, m) <=> Heard(c, m) \/ (m \in ns /\ There(c, m))
                 /\ Shown(k, m) <=> Shown(c, m) /\ ~(m \in ns /\ There(c, m))
<1>. DEFINE new(m) == IF m \in ns /\ There(c, m)
                      THEN Ivi!Added(c.surface[m], c.surface[m].layer \/ Ivi!HasScreen(c))
                      ELSE c.surface[m]
            l == [c EXCEPT !.surface = [m \in Names |-> new(m)]]
            k == Ivi!CommitChanges(l)
<1>1. c \in [surface : [Names -> Surface], layers : Seq(DOMAIN Order)]  BY DEF Compositors
<1>2. Ivi!AddSurfacesToLayer(c, ns) = k
  BY <1>1 DEF Ivi!AddSurfacesToLayer, Ivi!Exists, There
<1>3. ASSUME NEW m \in Names
      PROVE  /\ new(m) \in Surface
             /\ new(m).exists = c.surface[m].exists /\ new(m).frames = c.surface[m].frames
             /\ new(m).listening <=> c.surface[m].listening \/ (m \in ns /\ There(c, m))
             /\ new(m).next.shown <=> c.surface[m].next.shown /\ ~(m \in ns /\ There(c, m))
             /\ new(m).next.src = c.surface[m].next.src /\ new(m).next.out = c.surface[m].next.out
  <2>1. c.surface[m] \in Surface /\ c.surface[m].next \in Look  BY <1>1 DEF Surface
  <2>3. CASE m \in ns /\ There(c, m)
    <3>. DEFINE on == c.surface[m].layer \/ Ivi!HasScreen(c)
    <3>1. new(m) = Ivi!Added(c.surface[m], on) /\ on \in BOOLEAN  BY <2>3
    <3>. HIDE DEF on, new
    <3>2. [c.surface[m].next EXCEPT !.shown = FALSE] \in Look  BY <2>1 DEF Look
    <3>3. /\ Ivi!Added(c.surface[m], on) \in Surface
          /\ Ivi!Added(c.surface[m], on).next = [c.surface[m].next EXCEPT !.shown = FALSE]
          /\ Ivi!Added(c.surface[m], on).exists = c.surface[m].exists
          /\ Ivi!Added(c.surface[m], on).frames = c.surface[m].frames
          /\ Ivi!Added(c.surface[m], on).listening = TRUE
      BY <2>1, <3>1, <3>2 DEF Ivi!Added, Surface
    <3>. QED  BY <2>1, <2>3, <3>1, <3>3 DEF Look
  <2>4. CASE ~(m \in ns /\ There(c, m))  BY <2>1, <2>4 DEF Surface, Look
  <2>. QED  BY <2>3, <2>4
<1>. HIDE DEF new
<1>4. l \in Compositors /\ l.layers = c.layers /\ \A m \in Names : l.surface[m] = new(m)
  BY <1>1, <1>3 DEF Compositors
<1>. HIDE DEF l
<1>5. /\ k \in Compositors /\ SameFlags(l, k) /\ SameShown(l, k) /\ SamePlaced(l, k) /\ Committed(k)
  BY <1>4, CommitFacts
<1>. HIDE DEF k
<1>6. SamePlaced(c, k) /\ k.layers = c.layers
  BY <1>3, <1>4, <1>5 DEF SamePlaced, SameFlags, Cut, Lies
<1>7. ASSUME NEW m \in Names
      PROVE  /\ There(k, m) <=> There(c, m)
             /\ Pictured(k, m) <=> Pictured(c, m)
             /\ Heard(k, m) <=> Heard(c, m) \/ (m \in ns /\ There(c, m))
             /\ Shown(k, m) <=> Shown(c, m) /\ ~(m \in ns /\ There(c, m))
  <2>1. /\ There(l, m) = There(c, m) /\ Pictured(l, m) = Pictured(c, m)
        /\ Heard(l, m) <=> Heard(c, m) \/ (m \in ns /\ There(c, m))
        /\ Shown(l, m) <=> Shown(c, m) /\ ~(m \in ns /\ There(c, m))
    BY <1>3, <1>4 DEF There, Pictured, Heard, Shown
  <2>. QED  BY <1>5, <2>1 DEF SameFlags, SameShown
<1>. QED  BY <1>2, <1>5, <1>6, <1>7 DEF k

LEMMA LayerFacts ==
  ASSUME NEW c \in Compositors, NEW ids \in Seq(DOMAIN Order)
  PROVE  /\ LET k == Ivi!CreateLayers(c, ids)
            IN /\ k \in Compositors /\ k.layers = ids /\ SameShown(c, k) /\ SamePlaced(c, k)
               /\ \A n \in Names : /\ There(k, n) <=> There(c, n)
                                   /\ Heard(k, n) <=> Heard(c, n)
                                   /\ Pictured(k, n) <=> Pictured(c, n)
               /\ Committed(c) => Committed(k)
         /\ LET k == Ivi!SetLayerOrder(c, ids)
            IN /\ k \in Compositors /\ SameShown(c, k) /\ SamePlaced(c, k)
               /\ \A n \in Names : /\ There(k, n) <=> There(c, n)
                                   /\ Heard(k, n) <=> Heard(c, n)
                                   /\ Pictured(k, n) <=> Pictured(c, n)
               /\ k.layers = IF c.layers = <<>> THEN c.layers ELSE ids
               /\ Committed(c) => Committed(k)
<1>. DEFINE l == [c EXCEPT !.layers = ids]
            k == Ivi!CommitChanges(l)
<1>1. /\ l \in Compositors /\ l.layers = ids /\ l.surface = c.surface
  BY DEF Compositors
<1>2. /\ SameShown(c, l) /\ SamePlaced(c, l) /\ (Committed(c) => Committed(l))
      /\ \A n \in Names : There(l, n) = There(c, n) /\ Heard(l, n) = Heard(c, n)
                          /\ Pictured(l, n) = Pictured(c, n)
  BY <1>1 DEF SameShown, SamePlaced, Committed, There, Heard, Pictured, Shown, Cut, Lies
<1>. HIDE DEF l
<1>3. k \in Compositors /\ SameFlags(l, k) /\ SameShown(l, k) /\ SamePlaced(l, k) /\ Committed(k)
  BY <1>1, CommitFacts
<1>4. [l EXCEPT !.layers = ids] = l  BY <1>1 DEF Compositors
<1>. HIDE DEF k
<1>5. /\ k.layers = ids /\ SameShown(c, k) /\ SamePlaced(c, k)
      /\ \A n \in Names : /\ There(k, n) <=> There(c, n)
                          /\ Heard(k, n) <=> Heard(c, n)
                          /\ Pictured(k, n) <=> Pictured(c, n)
  BY <1>1, <1>2, <1>3 DEF SameFlags, SameShown, SamePlaced
<1>6. SameShown(c, c) /\ SamePlaced(c, c)  BY DEF SameShown, SamePlaced
<1>7. Ivi!CreateLayers(c, ids) = IF ids # <<>> THEN k ELSE l
  <2>1. Ivi!CreateLayers(c, ids) = Ivi!SetLayerOrder(l, ids)  BY DEF Ivi!CreateLayers, l
  <2>2. Ivi!SetLayerOrder(l, ids) = IF l.layers # <<>> THEN Ivi!CommitChanges(l) ELSE l
    BY <1>4 DEF Ivi!SetLayerOrder, Ivi!HasScreen
  <2>. QED  BY <1>1, <2>1, <2>2 DEF k
<1>8. Ivi!SetLayerOrder(c, ids) = IF c.layers # <<>> THEN k ELSE c
  BY DEF Ivi!SetLayerOrder, Ivi!HasScreen, l, k
<1>9. CASE ids # <<>>  BY <1>1, <1>2, <1>3, <1>5, <1>6, <1>7, <1>8, <1>9
<1>10. CASE ids = <<>>  BY <1>1, <1>2, <1>3, <1>5, <1>6, <1>7, <1>8, <1>10
<1>. QED  BY <1>9, <1>10

-----------------------------------------------------------------------------
(* The settings and the rectangles made of them                            *)

LEMMA DivTypes ==
  ASSUME NEW n \in Nat, NEW m \in Nat \ {0}
  PROVE  n \div m \in Nat
OBVIOUS

LEMMA ProductTypes ==
  ASSUME NEW n \in Nat, NEW m \in Nat
  PROVE  n * m \in Nat
OBVIOUS

LEMMA CentredType ==
  ASSUME NEW from \in Int, NEW room \in Nat, NEW size \in Nat
  PROVE  Centred(from, room, size) \in Int
<1>. DEFINE left == room - size
<1>1. left \in Int  OBVIOUS
<1>. HIDE DEF left
<1>2. left >= 0 => left \in Nat  BY <1>1
<1>3. ~(left >= 0) => -left \in Nat  BY <1>1
<1>4. Div(left, 2) \in Int  BY <1>1, <1>2, <1>3 DEF Div
<1>. QED  BY <1>4 DEF Centred, left

LEMMA WideType ==
  ASSUME NEW wide \in WideModes, NEW target, NEW src \in Rectangle, NEW dest \in Rectangle
  PROVE  InWideMode(wide, target, src, dest) \in Picture
<1>1. ASSUME HasArea(src), HasArea(dest)
      PROVE  /\ (dest.h * src.w) \div src.h \in Nat /\ (dest.w * src.h) \div src.w \in Nat
             /\ (dest.w * src.h) \div dest.h \in Nat /\ (src.w * dest.h) \div dest.w \in Nat
             /\ (src.h * dest.w) \div dest.h \in Nat /\ (dest.h * src.w) \div dest.w \in Nat
  <2>1. /\ src.w \in Nat \ {0} /\ src.h \in Nat \ {0} /\ dest.w \in Nat \ {0} /\ dest.h \in Nat \ {0}
    BY <1>1 DEF HasArea, Rectangle
  <2>2. /\ dest.h * src.w \in Nat /\ dest.w * src.h \in Nat /\ src.w * dest.h \in Nat
        /\ src.h * dest.w \in Nat
    BY <2>1, ProductTypes
  <2>. QED  BY <2>1, <2>2, DivTypes
<1>2. ASSUME NEW x \in Int, NEW y \in Int, NEW w \in Nat, NEW h \in Nat
      PROVE  Rect(x, y, w, h) \in Rectangle
  BY DEF Rect, Rectangle
<1>3. ASSUME HasArea(src), HasArea(dest)  PROVE ScalingWideNormal(src, dest) \in Picture
  <2>. DEFINE w == IF IsWider(src, dest) THEN dest.w ELSE (dest.h * src.w) \div src.h
              h == IF IsWider(src, dest) THEN (dest.w * src.h) \div src.w ELSE dest.h
  <2>1. w \in Nat /\ h \in Nat  BY <1>1, <1>3 DEF Rectangle
  <2>. HIDE DEF w, h
  <2>2. Centred(dest.x, dest.w, w) \in Int /\ Centred(dest.y, dest.h, h) \in Int
    BY <2>1, CentredType DEF Rectangle
  <2>3. Rect(Centred(dest.x, dest.w, w), Centred(dest.y, dest.h, h), w, h) \in Rectangle
    BY <1>2, <2>1, <2>2
  <2>. QED  BY <2>3 DEF ScalingWideNormal, Picture, w, h
<1>4. ASSUME HasArea(src), HasArea(dest)  PROVE ScalingWideZoomed(src, dest) \in Picture
  <2>. DEFINE w == IF IsWider(src, dest) THEN (dest.w * src.h) \div dest.h ELSE src.w
              h == IF IsWider(src, dest) THEN src.h ELSE (dest.h * src.w) \div dest.w
  <2>1. w \in Nat /\ h \in Nat  BY <1>1, <1>4 DEF Rectangle
  <2>. HIDE DEF w, h
  <2>2. Centred(src.x, src.w, w) \in Int /\ Centred(src.y, src.h, h) \in Int
    BY <2>1, CentredType DEF Rectangle
  <2>3. Rect(Centred(src.x, src.w, w), Centred(src.y, src.h, h), w, h) \in Rectangle
    BY <1>2, <2>1, <2>2
  <2>. QED  BY <2>3 DEF ScalingWideZoomed, Picture, w, h
<1>5. ScalingWideStretched(src, dest) \in Picture /\ [src |-> src, dest |-> dest] \in Picture
  BY DEF ScalingWideStretched, Picture
<1>6. ASSUME NEW p \in Picture  PROVE [p EXCEPT !.dest.x = 0, !.dest.y = 0] \in Picture
  <2>1. p.src \in Rectangle /\ p.dest.w \in Nat /\ p.dest.h \in Nat  BY DEF Picture, Rectangle
  <2>2. [p.dest EXCEPT !.x = 0] \in Rectangle  BY DEF Picture, Rectangle
  <2>3. [[p.dest EXCEPT !.x = 0] EXCEPT !.y = 0] \in Rectangle  BY <2>2 DEF Rectangle
  <2>4. [p EXCEPT !.dest = [p.dest EXCEPT !.x = 0]].dest = [p.dest EXCEPT !.x = 0]  BY DEF Picture
  <2>. QED  BY <2>2, <2>3, <2>4 DEF Picture
<1>7. CASE ~HasArea(src) \/ ~HasArea(dest) \/ wide = "invalid"
  BY <1>5, <1>7 DEF InWideMode
<1>8. CASE HasArea(src) /\ HasArea(dest) /\ wide # "invalid"
  <2>. DEFINE normal == ScalingWideNormal(src, dest)
  <2>1. normal \in Picture  BY <1>3, <1>8
  <2>2. InWideMode(wide, target, src, dest) \in
          {normal, [normal EXCEPT !.dest.x = 0, !.dest.y = 0],
           ScalingWideStretched(src, dest), ScalingWideZoomed(src, dest)}
    BY <1>8 DEF InWideMode, WideModes
  <2>. HIDE DEF normal
  <2>. QED  BY <1>4, <1>5, <1>6, <1>8, <2>1, <2>2
<1>. QED  BY <1>7, <1>8

Source(t, a) == IF ClipOn(t, a) THEN Clip(t, a).rect ELSE Orig(t, a).rect
Dest(t, a) ==
  IF ~Out(t, a).set /\ (IF ClipOn(t, a) THEN Clip(t, a).set ELSE Orig(t, a).set)
  THEN Source(t, a) ELSE Out(t, a).rect
Scaled(t, a) == InWideMode(WideOf(t, a), output, Source(t, a), Dest(t, a))
Blind(t, a) ==
  IF output = "camera" /\ WideOf(t, a) = "normal" THEN Scaled(t, a).dest ELSE Dest(t, a)
PicturesOf(t, a) ==
  {InWideMode(WideOf(t, a), output, src, Out(t, a).rect) :
     src \in IF ClipOn(t, a) THEN {Clip(t, a).rect} ELSE Sizes \ {NoRect}}

LEMMA FieldTypes ==
  ASSUME OutputOK, NEW t \in Settings, NEW a \in Here
  PROVE  /\ t[Id(a)] \in VideoRecord
         /\ Vis(t, a) \in BOOLEAN /\ Opaque(t, a) \in BOOLEAN /\ ClipOn(t, a) \in BOOLEAN
         /\ Orig(t, a) \in GivenRectangle /\ Clip(t, a) \in GivenRectangle
         /\ Out(t, a) \in GivenRectangle /\ WideOf(t, a) \in WideModes
         /\ Source(t, a) \in Rectangle /\ Dest(t, a) \in Rectangle
         /\ Scaled(t, a) \in Picture /\ Blind(t, a) \in Rectangle
<1>1. t[Id(a)] \in VideoRecord  BY NameFacts DEF Settings
<1>2. /\ Vis(t, a) \in BOOLEAN /\ Opaque(t, a) \in BOOLEAN /\ ClipOn(t, a) \in BOOLEAN
      /\ Orig(t, a) \in GivenRectangle /\ Clip(t, a) \in GivenRectangle
      /\ Out(t, a) \in GivenRectangle /\ WideOf(t, a) \in WideModes
  BY <1>1 DEF VideoRecord, Vis, Opaque, Orig, Clip, ClipOn, Out, WideOf
<1>3. Source(t, a) \in Rectangle  BY <1>2 DEF Source, GivenRectangle
<1>4. Dest(t, a) \in Rectangle  BY <1>2, <1>3 DEF Dest, GivenRectangle
<1>5. Scaled(t, a) \in Picture  BY <1>2, <1>3, <1>4, WideType DEF Scaled
<1>6. Blind(t, a) \in Rectangle  BY <1>4, <1>5 DEF Blind, Picture
<1>. QED  BY <1>1, <1>2, <1>3, <1>4, <1>5, <1>6

LEMMA SameSizesFacts ==
  ASSUME NEW t, NEW u, NEW a, SameSizes(t, u, a)
  PROVE  /\ Source(u, a) = Source(t, a) /\ Dest(u, a) = Dest(t, a)
         /\ Scaled(u, a) = Scaled(t, a) /\ Blind(u, a) = Blind(t, a)
         /\ PicturesOf(u, a) = PicturesOf(t, a)
<1>1. Source(u, a) = Source(t, a)  BY DEF SameSizes, Source
<1>2. Dest(u, a) = Dest(t, a)  BY <1>1 DEF SameSizes, Dest
<1>3. Scaled(u, a) = Scaled(t, a)  BY <1>1, <1>2 DEF SameSizes, Scaled
<1>4. Blind(u, a) = Blind(t, a)  BY <1>2, <1>3 DEF SameSizes, Blind
<1>5. PicturesOf(u, a) = PicturesOf(t, a)
  <2>1. CASE ClipOn(t, a)  BY <2>1 DEF SameSizes, PicturesOf
  <2>2. CASE ~ClipOn(t, a)  BY <2>2 DEF SameSizes, PicturesOf
  <2>. QED  BY <2>1, <2>2
<1>. QED  BY <1>1, <1>2, <1>3, <1>4, <1>5

\* The model's operators in these terms.
LEMMA RectangleFacts ==
  ASSUME OutputOK, NEW d, NEW a \in Here
  PROVE  /\ GetSourceRectangleCommon(d, a) = Source(d.setting, a)
         /\ GetDestRectangleCommon(d, a) = Dest(d.setting, a)
         /\ GetVideoScalingRectangleCommon(d, a) = Scaled(d.setting, a)
         /\ BlindRectangle(d, a) = Blind(d.setting, a)
         /\ GetVideoWideMode(d.setting, Id(a)) = WideOf(d.setting, a)
<1>1. a # ""  BY NameFacts
<1>2. Id(a)[1] = a /\ Id(a)[2] = output  BY DEF Id, GetVideoPathIdentifier
<1>3. GetSourceRectangleCommon(d, a) = Source(d.setting, a)
  BY DEF GetSourceRectangleCommon, GetVideoInputParam, Source, Orig, Clip, ClipOn
<1>4. GetDestRectangleCommon(d, a) = Dest(d.setting, a)
  <2>1. CASE ClipOn(d.setting, a)
    BY <1>1, <2>1 DEF GetDestRectangleCommon, GetVideoOutputSize, GetVideoInputParam, Dest, Source,
                      Orig, Clip, ClipOn, Out
  <2>2. CASE ~ClipOn(d.setting, a)
    BY <1>1, <2>2 DEF GetDestRectangleCommon, GetVideoOutputSize, GetVideoInputParam, Dest, Source,
                      Orig, Clip, ClipOn, Out
  <2>. QED  BY <2>1, <2>2
<1>5. GetVideoScalingRectangleCommon(d, a) = Scaled(d.setting, a)
  BY <1>2, <1>3, <1>4 DEF GetVideoScalingRectangleCommon, GetVideoWideRectangle, Scaled, WideOf
<1>6. GetVideoWideMode(d.setting, Id(a)) = WideOf(d.setting, a)
  BY <1>1, <1>2 DEF GetVideoWideMode, WideOf
<1>7. BlindRectangle(d, a) = Blind(d.setting, a)
  BY <1>4, <1>5, <1>6 DEF BlindRectangle, Blind
<1>. QED  BY <1>3, <1>4, <1>5, <1>6, <1>7

\* A changed record of one path.
LEMMA RecordFacts ==
  ASSUME OutputOK, NEW t \in Settings, NEW a \in Here, NEW s \in VideoRecord
  PROVE  /\ [t EXCEPT ![Id(a)] = s] \in Settings
         /\ [t EXCEPT ![Id(a)] = s][Id(a)] = s
         /\ \A b \in Here : b # a => [t EXCEPT ![Id(a)] = s][Id(b)] = t[Id(b)]
BY NameFacts DEF Settings

LEMMA SetVisibilityFacts ==
  ASSUME OutputOK, NEW t \in Settings, NEW a \in Here, NEW v \in BOOLEAN
  PROVE  LET u == SetVideoVisibility(t, Id(a), v)
         IN /\ u \in Settings
            /\ \A b \in Here : /\ SameSizes(t, u, b) /\ (Opaque(u, b) <=> Opaque(t, b))
                               /\ Vis(u, b) <=> IF b = a THEN v ELSE Vis(t, b)
<1>. DEFINE s == [t[Id(a)] EXCEPT !.vis = v]
            u == [t EXCEPT ![Id(a)] = s]
<1>1. SetVideoVisibility(t, Id(a), v) = u  BY DEF SetVideoVisibility
<1>2. t[Id(a)] \in VideoRecord  BY FieldTypes
<1>3. /\ s \in VideoRecord /\ s.vis = v /\ s.opaque = t[Id(a)].opaque
      /\ s.orig = t[Id(a)].orig /\ s.clip = t[Id(a)].clip /\ s.out = t[Id(a)].out
      /\ s.wide = t[Id(a)].wide /\ s.clipOn = t[Id(a)].clipOn
  BY <1>2 DEF VideoRecord
<1>. HIDE DEF s
<1>4. u \in Settings /\ u[Id(a)] = s /\ \A b \in Here : b # a => u[Id(b)] = t[Id(b)]
  BY <1>3, RecordFacts
<1>. HIDE DEF u
<1>5. ASSUME NEW b \in Here
      PROVE  /\ SameSizes(t, u, b) /\ (Opaque(u, b) <=> Opaque(t, b))
             /\ Vis(u, b) <=> IF b = a THEN v ELSE Vis(t, b)
  <2>1. CASE b = a
    BY <1>3, <1>4, <2>1 DEF SameSizes, Vis, Opaque, Orig, Clip, ClipOn, Out, WideOf
  <2>2. CASE b # a
    BY <1>4, <2>2 DEF SameSizes, Vis, Opaque, Orig, Clip, ClipOn, Out, WideOf
  <2>. QED  BY <2>1, <2>2
<1>. QED  BY <1>1, <1>4, <1>5

LEMMA SetOpacityFacts ==
  ASSUME OutputOK, NEW t \in Settings, NEW a \in Here, NEW v \in BOOLEAN
  PROVE  LET u == SetVideoOpacity(t, Id(a), v)
         IN /\ u \in Settings
            /\ \A b \in Here : /\ SameSizes(t, u, b) /\ (Vis(u, b) <=> Vis(t, b))
                               /\ Opaque(u, b) <=> IF b = a THEN v ELSE Opaque(t, b)
<1>. DEFINE s == [t[Id(a)] EXCEPT !.opaque = v]
            u == [t EXCEPT ![Id(a)] = s]
<1>1. SetVideoOpacity(t, Id(a), v) = u  BY DEF SetVideoOpacity
<1>2. t[Id(a)] \in VideoRecord  BY FieldTypes
<1>3. /\ s \in VideoRecord /\ s.opaque = v /\ s.vis = t[Id(a)].vis
      /\ s.orig = t[Id(a)].orig /\ s.clip = t[Id(a)].clip /\ s.out = t[Id(a)].out
      /\ s.wide = t[Id(a)].wide /\ s.clipOn = t[Id(a)].clipOn
  BY <1>2 DEF VideoRecord
<1>. HIDE DEF s
<1>4. u \in Settings /\ u[Id(a)] = s /\ \A b \in Here : b # a => u[Id(b)] = t[Id(b)]
  BY <1>3, RecordFacts
<1>. HIDE DEF u
<1>5. ASSUME NEW b \in Here
      PROVE  /\ SameSizes(t, u, b) /\ (Vis(u, b) <=> Vis(t, b))
             /\ Opaque(u, b) <=> IF b = a THEN v ELSE Opaque(t, b)
  <2>1. CASE b = a
    BY <1>3, <1>4, <2>1 DEF SameSizes, Vis, Opaque, Orig, Clip, ClipOn, Out, WideOf
  <2>2. CASE b # a
    BY <1>4, <2>2 DEF SameSizes, Vis, Opaque, Orig, Clip, ClipOn, Out, WideOf
  <2>. QED  BY <2>1, <2>2
<1>. QED  BY <1>1, <1>4, <1>5

LEMMA GivenTypes ==
  ASSUME NEW r \in Rectangle
  PROVE  /\ Given(r) \in GivenRectangle /\ Given(r).set /\ Given(r).rect = r
         /\ NotGiven(r) \in GivenRectangle /\ ~NotGiven(r).set /\ NotGiven(r).rect = r
BY DEF Given, NotGiven, GivenRectangle

LEMMA NoRectType ==
  /\ NoRect \in Rectangle
  /\ NotGiven(NoRect) \in GivenRectangle /\ ~NotGiven(NoRect).set
<1>1. NoRect \in Rectangle  BY DEF NoRect, Rect, Rectangle
<1>. QED  BY <1>1, GivenTypes

LEMMA SetOutputFacts ==
  ASSUME OutputOK, NEW t \in Settings, NEW a \in Here, NEW r \in Rectangle
  PROVE  LET u == SetVideoOutputSize(t, Id(a), r)
         IN /\ u \in Settings /\ SameSeen(t, u)
            /\ \A b \in Here : b # a => SameSizes(t, u, b)
            /\ Out(u, a).set /\ Out(u, a).rect = r
            /\ Orig(u, a) = Orig(t, a) /\ Clip(u, a) = Clip(t, a) /\ (ClipOn(u, a) <=> ClipOn(t, a))
            /\ WideOf(u, a) = WideOf(t, a)
<1>. DEFINE s == [t[Id(a)] EXCEPT !.out = Given(r)]
            u == [t EXCEPT ![Id(a)] = s]
<1>1. SetVideoOutputSize(t, Id(a), r) = u  BY DEF SetVideoOutputSize
<1>2. t[Id(a)] \in VideoRecord  BY FieldTypes
<1>3. /\ s \in VideoRecord /\ s.opaque = t[Id(a)].opaque /\ s.vis = t[Id(a)].vis
      /\ s.orig = t[Id(a)].orig /\ s.clip = t[Id(a)].clip /\ s.out = Given(r)
      /\ s.wide = t[Id(a)].wide /\ s.clipOn = t[Id(a)].clipOn
  BY <1>2, GivenTypes DEF VideoRecord
<1>. HIDE DEF s
<1>4. u \in Settings /\ u[Id(a)] = s /\ \A b \in Here : b # a => u[Id(b)] = t[Id(b)]
  BY <1>3, RecordFacts
<1>. HIDE DEF u
<1>5. SameSeen(t, u)  BY <1>3, <1>4 DEF SameSeen, Vis, Opaque
<1>6. \A b \in Here : b # a => SameSizes(t, u, b)
  BY <1>4 DEF SameSizes, Orig, Clip, ClipOn, Out, WideOf
<1>7. /\ Out(u, a).set /\ Out(u, a).rect = r
      /\ Orig(u, a) = Orig(t, a) /\ Clip(u, a) = Clip(t, a) /\ (ClipOn(u, a) <=> ClipOn(t, a))
      /\ WideOf(u, a) = WideOf(t, a)
  BY <1>3, <1>4, GivenTypes DEF Orig, Clip, ClipOn, Out, WideOf
<1>. QED  BY <1>1, <1>4, <1>5, <1>6, <1>7

LEMMA SetOriginalFacts ==
  ASSUME OutputOK, NEW t \in Settings, NEW a \in Here, NEW r \in Rectangle
  PROVE  LET u == SetVideoInputOriginalSize(t, Id(a), r)
         IN /\ u \in Settings /\ SameSeen(t, u)
            /\ \A b \in Here : b # a => SameSizes(t, u, b)
            /\ Orig(u, a) = Orig(t, a) \/ (Orig(u, a).set /\ Orig(u, a).rect = r /\ HasArea(r))
            /\ Orig(t, a).set => Orig(u, a) = Orig(t, a)
            /\ Out(u, a) = Out(t, a) /\ Clip(u, a) = Clip(t, a) /\ (ClipOn(u, a) <=> ClipOn(t, a))
            /\ WideOf(u, a) = WideOf(t, a)
<1>1. CASE t[Id(a)].orig.set \/ r.x # 0 \/ r.y # 0 \/ ~HasArea(r)
  <2>1. SetVideoInputOriginalSize(t, Id(a), r) = t  BY <1>1 DEF SetVideoInputOriginalSize
  <2>2. SameSeen(t, t) /\ \A b \in Here : SameSizes(t, t, b)  BY DEF SameSeen, SameSizes
  <2>. QED  BY <2>1, <2>2
<1>2. CASE ~(t[Id(a)].orig.set \/ r.x # 0 \/ r.y # 0 \/ ~HasArea(r))
  <2>. DEFINE s == [t[Id(a)] EXCEPT !.orig = Given(r)]
              u == [t EXCEPT ![Id(a)] = s]
  <2>1. SetVideoInputOriginalSize(t, Id(a), r) = u  BY <1>2 DEF SetVideoInputOriginalSize
  <2>2. t[Id(a)] \in VideoRecord  BY FieldTypes
  <2>3. /\ s \in VideoRecord /\ s.opaque = t[Id(a)].opaque /\ s.vis = t[Id(a)].vis
        /\ s.orig = Given(r) /\ s.clip = t[Id(a)].clip /\ s.out = t[Id(a)].out
        /\ s.wide = t[Id(a)].wide /\ s.clipOn = t[Id(a)].clipOn
    BY <2>2, GivenTypes DEF VideoRecord
  <2>. HIDE DEF s
  <2>4. u \in Settings /\ u[Id(a)] = s /\ \A b \in Here : b # a => u[Id(b)] = t[Id(b)]
    BY <2>3, RecordFacts
  <2>. HIDE DEF u
  <2>5. SameSeen(t, u)  BY <2>3, <2>4 DEF SameSeen, Vis, Opaque
  <2>6. \A b \in Here : b # a => SameSizes(t, u, b)
    BY <2>4 DEF SameSizes, Orig, Clip, ClipOn, Out, WideOf
  <2>7. /\ Orig(u, a).set /\ Orig(u, a).rect = r /\ HasArea(r) /\ ~Orig(t, a).set
        /\ Out(u, a) = Out(t, a) /\ Clip(u, a) = Clip(t, a) /\ (ClipOn(u, a) <=> ClipOn(t, a))
        /\ WideOf(u, a) = WideOf(t, a)
    BY <1>2, <2>3, <2>4, GivenTypes DEF Orig, Clip, ClipOn, Out, WideOf
  <2>. QED  BY <2>1, <2>4, <2>5, <2>6, <2>7
<1>. QED  BY <1>1, <1>2

LEMMA ClearOriginalFacts ==
  ASSUME OutputOK, NEW t \in Settings, NEW as \in SUBSET Here
  PROVE  LET u == ClearVideoInputOriginalSize(t, {Id(a) : a \in as})
         IN /\ u \in Settings /\ SameSeen(t, u)
            /\ \A b \in Here : b \notin as => SameSizes(t, u, b)
            /\ \A b \in as :
                 /\ ~Orig(u, b).set
                 /\ Out(u, b) = Out(t, b) /\ Clip(u, b) = Clip(t, b) /\ (ClipOn(u, b) <=> ClipOn(t, b))
                 /\ WideOf(u, b) = WideOf(t, b)
<1>. DEFINE u == ClearVideoInputOriginalSize(t, {Id(a) : a \in as})
            new(id) == [t[id] EXCEPT !.orig = NotGiven(NoRect)]
<1>1. u = [id \in Ids |-> IF id \in {Id(a) : a \in as} THEN new(id) ELSE t[id]]
  BY DEF ClearVideoInputOriginalSize, Settings
<1>2. ASSUME NEW id \in Ids
      PROVE  /\ new(id) \in VideoRecord /\ t[id] \in VideoRecord
             /\ new(id).orig = NotGiven(NoRect)
             /\ new(id).opaque = t[id].opaque /\ new(id).vis = t[id].vis
             /\ new(id).clip = t[id].clip /\ new(id).out = t[id].out
             /\ new(id).wide = t[id].wide /\ new(id).clipOn = t[id].clipOn
  <2>1. t[id] \in VideoRecord  BY DEF Settings
  <2>. QED  BY <2>1, NoRectType DEF VideoRecord
<1>. HIDE DEF new
<1>3. u \in Settings  BY <1>1, <1>2 DEF Settings
<1>4. \A b \in Here : Id(b) \in Ids /\ (Id(b) \in {Id(a) : a \in as} <=> b \in as)
  BY NameFacts
<1>5. \A b \in Here : u[Id(b)] = IF b \in as THEN new(Id(b)) ELSE t[Id(b)]  BY <1>1, <1>4
<1>. HIDE DEF u
<1>6. SameSeen(t, u)  BY <1>2, <1>4, <1>5 DEF SameSeen, Vis, Opaque
<1>7. \A b \in Here : b \notin as => SameSizes(t, u, b)
  BY <1>5 DEF SameSizes, Orig, Clip, ClipOn, Out, WideOf
<1>8. \A b \in as :
        /\ ~Orig(u, b).set
        /\ Out(u, b) = Out(t, b) /\ Clip(u, b) = Clip(t, b) /\ (ClipOn(u, b) <=> ClipOn(t, b))
        /\ WideOf(u, b) = WideOf(t, b)
  BY <1>2, <1>4, <1>5, NoRectType DEF Orig, Clip, ClipOn, Out, WideOf
<1>. QED  BY <1>3, <1>6, <1>7, <1>8 DEF u

LEMMA SetInputFacts ==
  ASSUME OutputOK, NEW t \in Settings, NEW a \in Here, NEW on \in BOOLEAN, NEW r \in Rectangle
  PROVE  LET u == SetVideoInputParam(t, Id(a), on, r)
         IN /\ u \in Settings /\ SameSeen(t, u)
            /\ \A b \in Here : b # a => SameSizes(t, u, b)
            /\ Orig(u, a) = Orig(t, a) /\ Out(u, a) = Out(t, a) /\ WideOf(u, a) = WideOf(t, a)
            /\ on /\ ~ValidClipping(t, Id(a), r) => u = t
            /\ ~(on /\ ~ValidClipping(t, Id(a), r)) => (ClipOn(u, a) <=> on)
<1>1. CASE on /\ ~ValidClipping(t, Id(a), r)
  <2>1. SetVideoInputParam(t, Id(a), on, r) = t  BY <1>1 DEF SetVideoInputParam
  <2>2. SameSeen(t, t) /\ \A b \in Here : SameSizes(t, t, b)  BY DEF SameSeen, SameSizes
  <2>. QED  BY <1>1, <2>1, <2>2
<1>2. CASE ~(on /\ ~ValidClipping(t, Id(a), r))
  <2>. DEFINE s == [t[Id(a)] EXCEPT !.clipOn = on, !.clip = IF on THEN Given(r) ELSE t[Id(a)].orig]
              u == [t EXCEPT ![Id(a)] = s]
  <2>2. t[Id(a)] \in VideoRecord  BY FieldTypes
  <2>1. SetVideoInputParam(t, Id(a), on, r) = u
    BY <1>2 DEF SetVideoInputParam, Settings
  <2>3. /\ s \in VideoRecord /\ s.opaque = t[Id(a)].opaque /\ s.vis = t[Id(a)].vis
        /\ s.orig = t[Id(a)].orig /\ s.out = t[Id(a)].out
        /\ s.wide = t[Id(a)].wide /\ s.clipOn = on
    BY <2>2, GivenTypes DEF VideoRecord
  <2>. HIDE DEF s
  <2>4. u \in Settings /\ u[Id(a)] = s /\ \A b \in Here : b # a => u[Id(b)] = t[Id(b)]
    BY <2>3, RecordFacts
  <2>. HIDE DEF u
  <2>5. SameSeen(t, u)  BY <2>3, <2>4 DEF SameSeen, Vis, Opaque
  <2>6. \A b \in Here : b # a => SameSizes(t, u, b)
    BY <2>4 DEF SameSizes, Orig, Clip, ClipOn, Out, WideOf
  <2>7. /\ Orig(u, a) = Orig(t, a) /\ Out(u, a) = Out(t, a) /\ WideOf(u, a) = WideOf(t, a)
        /\ ClipOn(u, a) <=> on
    BY <2>3, <2>4 DEF Orig, Clip, ClipOn, Out, WideOf
  <2>. QED  BY <1>2, <2>1, <2>4, <2>5, <2>6, <2>7
<1>. QED  BY <1>1, <1>2

LEMMA ClearClippingFacts ==
  ASSUME OutputOK, NEW t \in Settings, NEW a \in Here
  PROVE  LET u == ClearVideoInputClippingSize(t, Id(a))
         IN /\ u \in Settings /\ SameSeen(t, u)
            /\ \A b \in Here : b # a => SameSizes(t, u, b)
            /\ Orig(u, a) = Orig(t, a) /\ Out(u, a) = Out(t, a) /\ WideOf(u, a) = WideOf(t, a)
            /\ ClipOn(u, a) <=> ClipOn(t, a)
<1>. DEFINE s == [t[Id(a)] EXCEPT !.clip = NotGiven(NoRect)]
            u == [t EXCEPT ![Id(a)] = s]
<1>1. ClearVideoInputClippingSize(t, Id(a)) = u  BY DEF ClearVideoInputClippingSize
<1>2. t[Id(a)] \in VideoRecord  BY FieldTypes
<1>3. /\ s \in VideoRecord /\ s.opaque = t[Id(a)].opaque /\ s.vis = t[Id(a)].vis
      /\ s.orig = t[Id(a)].orig /\ s.out = t[Id(a)].out
      /\ s.wide = t[Id(a)].wide /\ s.clipOn = t[Id(a)].clipOn
  BY <1>2, NoRectType DEF VideoRecord
<1>. HIDE DEF s
<1>4. u \in Settings /\ u[Id(a)] = s /\ \A b \in Here : b # a => u[Id(b)] = t[Id(b)]
  BY <1>3, RecordFacts
<1>. HIDE DEF u
<1>5. SameSeen(t, u)  BY <1>3, <1>4 DEF SameSeen, Vis, Opaque
<1>6. \A b \in Here : b # a => SameSizes(t, u, b)
  BY <1>4 DEF SameSizes, Orig, Clip, ClipOn, Out, WideOf
<1>7. /\ Orig(u, a) = Orig(t, a) /\ Out(u, a) = Out(t, a) /\ WideOf(u, a) = WideOf(t, a)
      /\ ClipOn(u, a) <=> ClipOn(t, a)
  BY <1>3, <1>4 DEF Orig, ClipOn, Out, WideOf
<1>. QED  BY <1>1, <1>4, <1>5, <1>6, <1>7

LEMMA SetWideFacts ==
  ASSUME OutputOK, NEW t \in Settings, NEW a \in Here, NEW wide \in WideModes
  PROVE  LET u == SetVideoWideMode(t, Id(a), wide)
         IN /\ u \in Settings /\ SameSeen(t, u)
            /\ \A b \in Here : b # a => SameSizes(t, u, b)
            /\ Orig(u, a) = Orig(t, a) /\ Out(u, a) = Out(t, a) /\ Clip(u, a) = Clip(t, a)
            /\ ClipOn(u, a) <=> ClipOn(t, a)
            /\ wide # "invalid" \/ output = "camera" => WideOf(u, a) = wide
<1>. DEFINE s == [t[Id(a)] EXCEPT !.wide = wide]
            u == [t EXCEPT ![Id(a)] = s]
            r == SetVideoWideMode(t, Id(a), wide)
<1>1. CASE wide = "invalid" /\ output # "camera"
  <2>1. Id(a)[2] = output  BY DEF Id, GetVideoPathIdentifier
  <2>2. r = t  BY <1>1, <2>1 DEF SetVideoWideMode
  <2>3. SameSeen(t, t) /\ \A b \in Here : SameSizes(t, t, b)  BY DEF SameSeen, SameSizes
  <2>. QED  BY <1>1, <2>2, <2>3
<1>2. CASE ~(wide = "invalid" /\ output # "camera")
  <2>1. Id(a)[2] = output  BY DEF Id, GetVideoPathIdentifier
  <2>2. r = u  BY <1>2, <2>1 DEF SetVideoWideMode
  <2>3. t[Id(a)] \in VideoRecord  BY FieldTypes
  <2>4. /\ s \in VideoRecord /\ s.opaque = t[Id(a)].opaque /\ s.vis = t[Id(a)].vis
        /\ s.orig = t[Id(a)].orig /\ s.out = t[Id(a)].out /\ s.clip = t[Id(a)].clip
        /\ s.wide = wide /\ s.clipOn = t[Id(a)].clipOn
    BY <2>3 DEF VideoRecord
  <2>. HIDE DEF s
  <2>5. u \in Settings /\ u[Id(a)] = s /\ \A b \in Here : b # a => u[Id(b)] = t[Id(b)]
    BY <2>4, RecordFacts
  <2>. HIDE DEF u
  <2>6. SameSeen(t, u)  BY <2>4, <2>5 DEF SameSeen, Vis, Opaque
  <2>7. \A b \in Here : b # a => SameSizes(t, u, b)
    BY <2>5 DEF SameSizes, Orig, Clip, ClipOn, Out, WideOf
  <2>8. /\ Orig(u, a) = Orig(t, a) /\ Out(u, a) = Out(t, a) /\ WideOf(u, a) = wide
        /\ Clip(u, a) = Clip(t, a) /\ (ClipOn(u, a) <=> ClipOn(t, a))
    BY <2>4, <2>5 DEF Orig, Clip, ClipOn, Out, WideOf
  <2>. QED  BY <2>2, <2>5, <2>6, <2>7, <2>8
<1>. QED  BY <1>1, <1>2

-----------------------------------------------------------------------------
(* The steps of the handlers                                               *)

\* Nothing that clients ask for or are told, and not the path.
Published(d, e) ==
  /\ e.path = d.path /\ e.file = d.file /\ e.ctl = d.ctl /\ e.sts = d.sts /\ e.told = d.told
Untold(d, e) == Published(d, e) /\ e.behind = d.behind /\ e.ok = d.ok

LEMMA FieldsOfDisplay ==
  ASSUME NEW d \in Displays
  PROVE  /\ d.ivi \in Compositors /\ d.path \in Here \cup {""} /\ d.setting \in Settings
         /\ d.file \in Files /\ d.ctl \in Controls /\ d.sts \in Statuses
         /\ d.told \in [Here -> BOOLEAN] /\ d.behind \in SUBSET Marks /\ d.ok \in BOOLEAN
BY DEF Displays

LEMMA WithIvi ==
  ASSUME NEW d \in Displays, NEW c \in Compositors
  PROVE  LET e == [d EXCEPT !.ivi = c]
         IN e \in Displays /\ e.ivi = c /\ e.setting = d.setting /\ Untold(d, e)
BY DEF Displays, Published, Untold

LEMMA WithSetting ==
  ASSUME NEW d \in Displays, NEW t \in Settings
  PROVE  LET e == [d EXCEPT !.setting = t]
         IN e \in Displays /\ e.setting = t /\ e.ivi = d.ivi /\ Untold(d, e)
BY DEF Displays, Published, Untold

LEMMA WithBehind ==
  ASSUME NEW d \in Displays, NEW m \in SUBSET Marks
  PROVE  LET e == [d EXCEPT !.behind = m]
         IN /\ e \in Displays /\ e.setting = d.setting /\ e.ivi = d.ivi /\ Published(d, e)
            /\ e.behind = m /\ e.ok = d.ok
BY DEF Displays, Published

LEMMA WithOk ==
  ASSUME NEW d \in Displays, NEW b \in BOOLEAN
  PROVE  LET e == [d EXCEPT !.ok = b]
         IN /\ e \in Displays /\ e.setting = d.setting /\ e.ivi = d.ivi /\ Published(d, e)
            /\ e.behind = d.behind /\ e.ok = b
BY DEF Displays, Published

LEMMA PublishedFacts ==
  ASSUME NEW d, NEW e, NEW f, Published(d, e), Published(e, f)
  PROVE  Published(d, f)
BY DEF Published

LEMMA SameFacts ==
  ASSUME NEW c, NEW k, NEW l
  PROVE  /\ SameFlags(c, c) /\ SameShown(c, c) /\ SamePlaced(c, c)
         /\ SameFlags(c, k) /\ SameFlags(k, l) => SameFlags(c, l)
         /\ SameShown(c, k) /\ SameShown(k, l) => SameShown(c, l)
         /\ SamePlaced(c, k) /\ SamePlaced(k, l) => SamePlaced(c, l)
         /\ SameSeen(c, c) /\ (SameSeen(c, k) /\ SameSeen(k, l) => SameSeen(c, l))
         /\ \A a : SameSizes(c, c, a)
         /\ \A a : SameSizes(c, k, a) /\ SameSizes(k, l, a) => SameSizes(c, l, a)
<1>1. /\ SameFlags(c, c)
      /\ SameFlags(c, k) /\ SameFlags(k, l) => SameFlags(c, l)
  BY DEF SameFlags
<1>2. SameShown(c, c) /\ (SameShown(c, k) /\ SameShown(k, l) => SameShown(c, l))
  BY DEF SameShown
<1>3. SamePlaced(c, c) /\ (SamePlaced(c, k) /\ SamePlaced(k, l) => SamePlaced(c, l))
  BY DEF SamePlaced
<1>4. SameSeen(c, c) /\ (SameSeen(c, k) /\ SameSeen(k, l) => SameSeen(c, l))
  BY DEF SameSeen
<1>5. /\ \A a : SameSizes(c, c, a)
      /\ \A a : SameSizes(c, k, a) /\ SameSizes(k, l, a) => SameSizes(c, l, a)
  BY DEF SameSizes
<1>. QED  BY <1>1, <1>2, <1>3, <1>4, <1>5

LEMMA HasSurfaceFacts ==
  ASSUME OutputOK, NEW d \in Displays
  PROVE  /\ \A a \in Here : HasSurface(d, a) <=> There(d.ivi, Surf(a))
         /\ ~HasSurface(d, "")
         /\ \A n \in Names : Ivi!Exists(d.ivi, n) <=> There(d.ivi, n)
<1>1. DOMAIN d.ivi.surface = Names  BY DEF Displays, Compositors
<1>2. \A n \in Names : Ivi!Exists(d.ivi, n) <=> There(d.ivi, n)  BY <1>1 DEF Ivi!Exists, There
<1>3. Surf("") \notin Names
  <2>1. Surf("")[1] = "video" /\ Surf("")[2] = ""  BY DEF Surf, GetSurfaceIdFromVideoPath
  <2>2. Surf("") \notin Own  BY <2>1, NameFacts DEF IsBlinder
  <2>3. Surf("") \notin Paths  BY <2>1, NameFacts DEF Surf, GetSurfaceIdFromVideoPath
  <2>. QED  BY <2>2, <2>3 DEF Names
<1>4. \A a \in Here : Surf(a) \in Names  BY NameFacts
<1>. QED  BY <1>1, <1>2, <1>3, <1>4 DEF HasSurface, Surf, Ivi!Exists

LEMMA CommitStep ==
  ASSUME NEW d \in Displays
  PROVE  LET e == Commit(d)
         IN /\ e \in Displays /\ e.setting = d.setting /\ Untold(d, e)
            /\ SameFlags(d.ivi, e.ivi) /\ SameShown(d.ivi, e.ivi) /\ SamePlaced(d.ivi, e.ivi)
            /\ Committed(e.ivi)
<1>. DEFINE c == Ivi!CommitChanges(d.ivi)
<1>1. d.ivi \in Compositors  BY FieldsOfDisplay
<1>2. /\ c \in Compositors /\ SameFlags(d.ivi, c) /\ SameShown(d.ivi, c) /\ SamePlaced(d.ivi, c)
      /\ Committed(c)
  BY <1>1, CommitFacts
<1>3. Commit(d) = [d EXCEPT !.ivi = c]  BY DEF Commit
<1>. HIDE DEF c
<1>. QED  BY <1>2, <1>3, WithIvi

\* Either rectangle of one surface of a path.
LEMMA PlaceVideoStep ==
  ASSUME OutputOK, NEW d \in Displays, NEW a \in Here
  PROVE  LET e == PlaceVideo(d, a)
         IN /\ e \in Displays /\ e.setting = d.setting /\ Untold(d, e)
            /\ SameFlags(d.ivi, e.ivi) /\ SameShown(d.ivi, e.ivi)
            /\ \A m \in Names :
                 /\ Cut(e.ivi, m) = IF m = Surf(a) /\ There(d.ivi, m) THEN Scaled(d.setting, a).src
                                    ELSE Cut(d.ivi, m)
                 /\ Lies(e.ivi, m) = IF m = Surf(a) /\ There(d.ivi, m) THEN Scaled(d.setting, a).dest
                                     ELSE Lies(d.ivi, m)
<1>. DEFINE rects == Scaled(d.setting, a)
            c == Place(d.ivi, Surf(a), rects)
<1>1. d.ivi \in Compositors /\ d.setting \in Settings  BY FieldsOfDisplay
<1>2. rects \in Picture  BY <1>1, FieldTypes
<1>3. PlaceVideo(d, a) = [d EXCEPT !.ivi = c]
  BY RectangleFacts DEF PlaceVideo, Surf
<1>. HIDE DEF rects
<1>4. Surf(a) \in Names  BY NameFacts
<1>5. /\ c \in Compositors /\ SameFlags(d.ivi, c) /\ SameShown(d.ivi, c)
      /\ \A m \in Names :
           /\ Cut(c, m) = IF m = Surf(a) /\ There(d.ivi, Surf(a)) THEN rects.src ELSE Cut(d.ivi, m)
           /\ Lies(c, m) = IF m = Surf(a) /\ There(d.ivi, Surf(a)) THEN rects.dest ELSE Lies(d.ivi, m)
  BY <1>1, <1>2, <1>4, PlaceFacts
<1>. HIDE DEF c
<1>6. /\ [d EXCEPT !.ivi = c] \in Displays /\ [d EXCEPT !.ivi = c].ivi = c
      /\ [d EXCEPT !.ivi = c].setting = d.setting /\ Untold(d, [d EXCEPT !.ivi = c])
  BY <1>5, WithIvi
<1>. QED  BY <1>3, <1>5, <1>6 DEF rects

LEMMA PlaceBlindersStep ==
  ASSUME OutputOK, NEW d \in Displays, NEW a \in Here, NEW kinds \in SUBSET Blinders(output)
  PROVE  LET e == PlaceBlinders(d, kinds, a)
         IN /\ e \in Displays /\ e.setting = d.setting /\ Untold(d, e)
            /\ SameFlags(d.ivi, e.ivi) /\ SameShown(d.ivi, e.ivi)
            /\ \A m \in Names : Cut(e.ivi, m) = Cut(d.ivi, m)
            /\ \A m \in Names : m \notin Own => Lies(e.ivi, m) = Lies(d.ivi, m)
            /\ \A kind \in kinds : There(d.ivi, GetBlinderID(kind)) =>
                 Lies(e.ivi, GetBlinderID(kind)) = Blind(d.setting, a)
            /\ \A kind \in Blinders(output) \ kinds :
                 Lies(e.ivi, GetBlinderID(kind)) = Lies(d.ivi, GetBlinderID(kind))
            /\ output = "camera" /\ Committed(d.ivi) => Committed(e.ivi)
<1>. DEFINE r == Blind(d.setting, a)
            ns == {GetBlinderID(kind) : kind \in kinds}
            c == Ivi!SetSurfacesDestinationRectangle(d.ivi, ns, r)
<1>1. d.ivi \in Compositors /\ d.setting \in Settings  BY FieldsOfDisplay
<1>2. r \in Rectangle  BY <1>1, FieldTypes
<1>3. PlaceBlinders(d, kinds, a) = [d EXCEPT !.ivi = c]
  BY RectangleFacts DEF PlaceBlinders
<1>. HIDE DEF r
<1>4. /\ \A kind \in kinds : GetBlinderID(kind) \in ns /\ GetBlinderID(kind) \in Names
      /\ \A m \in Names : m \notin Own => m \notin ns
      /\ \A kind \in Blinders(output) \ kinds : GetBlinderID(kind) \in Names /\ GetBlinderID(kind) \notin ns
  BY OwnFacts
<1>. HIDE DEF ns
<1>5. /\ c \in Compositors /\ SameFlags(d.ivi, c) /\ SameShown(d.ivi, c)
      /\ \A m \in Names :
           /\ Cut(c, m) = Cut(d.ivi, m)
           /\ Lies(c, m) = IF m \in ns /\ There(d.ivi, m) THEN r ELSE Lies(d.ivi, m)
      /\ \A m \in Names : c.surface[m].now = d.ivi.surface[m].now
  BY <1>1, <1>2, DestinationFacts
<1>. HIDE DEF c
<1>6. /\ [d EXCEPT !.ivi = c] \in Displays /\ [d EXCEPT !.ivi = c].ivi = c
      /\ [d EXCEPT !.ivi = c].setting = d.setting /\ Untold(d, [d EXCEPT !.ivi = c])
  BY <1>5, WithIvi
<1>7. ASSUME output = "camera", Committed(d.ivi)  PROVE Committed(c)
  BY <1>4, <1>5, <1>7 DEF Committed, SameShown, Shown, Cut, Lies
<1>. QED  BY <1>3, <1>4, <1>5, <1>6, <1>7 DEF r

LEMMA ShowStep ==
  ASSUME OutputOK, NEW d \in Displays, NEW n \in Names, NEW b \in BOOLEAN
  PROVE  LET e == [d EXCEPT !.ivi = Ivi!SetSurfaceVisibility(@, n, b)]
         IN /\ e \in Displays /\ e.setting = d.setting /\ Untold(d, e)
            /\ SameFlags(d.ivi, e.ivi) /\ SamePlaced(d.ivi, e.ivi)
            /\ \A m \in Names : Shown(e.ivi, m) <=> IF m = n /\ There(d.ivi, n) THEN b ELSE Shown(d.ivi, m)
            /\ ~There(d.ivi, n) => e.ivi = d.ivi
<1>. DEFINE c == Ivi!SetSurfaceVisibility(d.ivi, n, b)
<1>1. d.ivi \in Compositors  BY FieldsOfDisplay
<1>2. /\ c \in Compositors /\ SameFlags(d.ivi, c) /\ SamePlaced(d.ivi, c)
      /\ \A m \in Names : Shown(c, m) <=> IF m = n /\ There(d.ivi, n) THEN b ELSE Shown(d.ivi, m)
      /\ ~There(d.ivi, n) => c = d.ivi
  BY <1>1, VisibilityFacts
<1>. HIDE DEF c
<1>3. /\ [d EXCEPT !.ivi = c] \in Displays /\ [d EXCEPT !.ivi = c].ivi = c
      /\ [d EXCEPT !.ivi = c].setting = d.setting /\ Untold(d, [d EXCEPT !.ivi = c])
  BY <1>2, WithIvi
<1>. QED  BY <1>2, <1>3 DEF c

\* The manager's own surfaces are always there, and one that is not there is hidden.
Present(c) ==
  \A n \in Names : /\ n \in Own => There(c, n)
                   /\ Heard(c, n) \/ Pictured(c, n) \/ Shown(c, n) => There(c, n)

LEMMA SetDestStep ==
  ASSUME OutputOK, NEW d \in Displays, NEW a \in Here, NEW r \in Rectangle, Present(d.ivi)
  PROVE  LET e == SetDestRectangleCommon(d, a, r)
         IN /\ e \in Displays /\ e.setting = SetVideoOutputSize(d.setting, Id(a), r) /\ Published(d, e)
            /\ SameFlags(d.ivi, e.ivi) /\ SameShown(d.ivi, e.ivi)
            /\ Committed(d.ivi) => Committed(e.ivi)
            /\ There(d.ivi, Surf(a)) /\ (output = "camera" => Pictured(d.ivi, Surf(a))) =>
                 /\ e.ok /\ e.behind = d.behind \ {"place", "rect"}
                 /\ Cut(e.ivi, Surf(a)) = Scaled(e.setting, a).src
                 /\ Lies(e.ivi, Surf(a)) = Scaled(e.setting, a).dest
                 /\ \A kind \in Followers : Lies(e.ivi, GetBlinderID(kind)) = Blind(e.setting, a)
            /\ ~(There(d.ivi, Surf(a)) /\ (output = "camera" => Pictured(d.ivi, Surf(a)))) =>
                 /\ e.ivi = d.ivi /\ (e.ok <=> output = "camera")
                 /\ e.behind = d.behind \cup IF output = "camera" THEN {"place", "rect"} ELSE {"place"}
<1>. DEFINE t == SetVideoOutputSize(d.setting, Id(a), r)
            s == [[d EXCEPT !.setting = t] EXCEPT !.ok = TRUE]
            frames == Ivi!GetPropertiesOfSurfaceFrameCounter(s.ivi, GetSurfaceIdFromVideoPath(a))
            p == PlaceVideo(s, a)
            q == PlaceBlinders(p, Followers, a)
            k == Commit(q)
            waits == [s EXCEPT !.behind = @ \cup {"place", "rect"}]
            fails == [[s EXCEPT !.ok = FALSE] EXCEPT !.behind = @ \cup {"place"}]
            placed == [k EXCEPT !.behind = @ \ {"place", "rect"}]
            e == SetDestRectangleCommon(d, a, r)
<1>1. a # "" /\ Surf(a) \in Names  BY NameFacts
<1>2. t \in Settings  BY FieldsOfDisplay, SetOutputFacts
<1>3. e = IF output = "camera" /\ frames = 0 THEN waits
          ELSE IF ~HasSurface(d, a) THEN fails ELSE placed
  BY <1>1 DEF SetDestRectangleCommon, SetDestOver, Displays
<1>. HIDE DEF t
<1>4. /\ s \in Displays /\ s.setting = t /\ s.ivi = d.ivi /\ Published(d, s) /\ s.behind = d.behind /\ s.ok
  BY <1>2 DEF Displays, Published
<1>5. frames = 0 <=> ~Pictured(d.ivi, Surf(a))
  BY <1>4 DEF Ivi!GetPropertiesOfSurfaceFrameCounter, Pictured, Surf
<1>6. HasSurface(d, a) <=> There(d.ivi, Surf(a))  BY HasSurfaceFacts
<1>7. Pictured(d.ivi, Surf(a)) => There(d.ivi, Surf(a))  BY <1>1 DEF Present
<1>8. CASE ~(There(d.ivi, Surf(a)) /\ (output = "camera" => Pictured(d.ivi, Surf(a))))
  <2>. HIDE DEF s, frames, placed
  <2>1. CASE output = "camera"
    <3>1. e = waits  BY <1>3, <1>5, <1>7, <1>8, <2>1
    <3>2. d.behind \cup {"place", "rect"} \in SUBSET Marks  BY FieldsOfDisplay DEF Marks
    <3>3. /\ waits \in Displays /\ waits.setting = t /\ waits.ivi = d.ivi /\ Published(d, waits)
          /\ waits.behind = d.behind \cup {"place", "rect"} /\ waits.ok
      BY <1>4, <3>2 DEF Displays, Published
    <3>. HIDE DEF waits, e
    <3>4. SameFlags(d.ivi, e.ivi) /\ SameShown(d.ivi, e.ivi)  BY <3>1, <3>3, SameFacts
    <3>. QED  BY <1>8, <2>1, <3>1, <3>3, <3>4 DEF e, t
  <2>2. CASE output # "camera"
    <3>1. e = fails  BY <1>3, <1>6, <1>8, <2>2
    <3>2. d.behind \cup {"place"} \in SUBSET Marks  BY FieldsOfDisplay DEF Marks
    <3>3. /\ fails \in Displays /\ fails.setting = t /\ fails.ivi = d.ivi /\ Published(d, fails)
          /\ fails.behind = d.behind \cup {"place"} /\ ~fails.ok
      BY <1>4, <3>2 DEF Displays, Published
    <3>. HIDE DEF fails, e
    <3>4. SameFlags(d.ivi, e.ivi) /\ SameShown(d.ivi, e.ivi)  BY <3>1, <3>3, SameFacts
    <3>. QED  BY <1>8, <2>2, <3>1, <3>3, <3>4 DEF e, t
  <2>. QED  BY <2>1, <2>2
<1>9. CASE There(d.ivi, Surf(a)) /\ (output = "camera" => Pictured(d.ivi, Surf(a)))
  <2>1. e = placed  BY <1>3, <1>5, <1>6, <1>9
  <2>. HIDE DEF s, frames, waits, fails, e
  <2>2. /\ p \in Displays /\ p.setting = t /\ Untold(s, p)
        /\ SameFlags(d.ivi, p.ivi) /\ SameShown(d.ivi, p.ivi)
        /\ Cut(p.ivi, Surf(a)) = Scaled(t, a).src /\ Lies(p.ivi, Surf(a)) = Scaled(t, a).dest
    BY <1>1, <1>4, <1>9, PlaceVideoStep
  <2>. HIDE DEF p
  <2>3. /\ Followers \in SUBSET Blinders(output) /\ Surf(a) \notin Own
        /\ \A kind \in Followers : GetBlinderID(kind) \in Names /\ GetBlinderID(kind) \in Own
    BY OwnFacts, NameFacts
  <2>4. \A kind \in Followers : There(p.ivi, GetBlinderID(kind))
    BY <2>2, <2>3 DEF Present, SameFlags
  <2>5. /\ q \in Displays /\ q.setting = t /\ Untold(p, q)
        /\ SameFlags(p.ivi, q.ivi) /\ SameShown(p.ivi, q.ivi)
        /\ Cut(q.ivi, Surf(a)) = Cut(p.ivi, Surf(a)) /\ Lies(q.ivi, Surf(a)) = Lies(p.ivi, Surf(a))
        /\ \A kind \in Followers : Lies(q.ivi, GetBlinderID(kind)) = Blind(t, a)
    BY <1>1, <2>2, <2>3, <2>4, PlaceBlindersStep
  <2>. HIDE DEF q
  <2>6. /\ k \in Displays /\ k.setting = t /\ Untold(q, k) /\ Committed(k.ivi)
        /\ SameFlags(q.ivi, k.ivi) /\ SameShown(q.ivi, k.ivi) /\ SamePlaced(q.ivi, k.ivi)
    BY <2>5, CommitStep
  <2>. HIDE DEF k
  <2>7. k.behind = d.behind /\ k.ok  BY <1>4, <2>2, <2>5, <2>6 DEF Untold
  <2>8. d.behind \ {"place", "rect"} \in SUBSET Marks  BY FieldsOfDisplay
  <2>9. /\ placed \in Displays /\ placed.setting = t /\ placed.ivi = k.ivi /\ Published(k, placed)
        /\ placed.behind = d.behind \ {"place", "rect"} /\ placed.ok
    BY <2>6, <2>7, <2>8, WithBehind
  <2>. HIDE DEF placed
  <2>10. Published(d, e)
    BY <1>4, <2>1, <2>2, <2>5, <2>6, <2>9 DEF Published, Untold
  <2>11. SameFlags(d.ivi, e.ivi) /\ SameShown(d.ivi, e.ivi)
    BY <2>1, <2>2, <2>5, <2>6, <2>9, SameFacts
  <2>12. /\ Cut(e.ivi, Surf(a)) = Scaled(t, a).src /\ Lies(e.ivi, Surf(a)) = Scaled(t, a).dest
         /\ \A kind \in Followers : Lies(e.ivi, GetBlinderID(kind)) = Blind(t, a)
    BY <1>1, <2>1, <2>2, <2>3, <2>5, <2>6, <2>9 DEF SamePlaced
  <2>. QED  BY <1>9, <2>1, <2>6, <2>9, <2>10, <2>11, <2>12 DEF e, t
<1>. QED  BY <1>8, <1>9

LEMMA SetSourceStep ==
  ASSUME OutputOK, NEW d \in Displays, NEW a \in Here, NEW on \in BOOLEAN, NEW r \in Rectangle,
         on => ValidClipping(d.setting, Id(a), r)
  PROVE  LET e == SetSourceRectangleCommon(d, a, on, r)
         IN /\ e \in Displays /\ e.setting = SetVideoInputParam(d.setting, Id(a), on, r)
            /\ Published(d, e)
            /\ SameFlags(d.ivi, e.ivi) /\ SameShown(d.ivi, e.ivi)
            /\ Committed(d.ivi) => Committed(e.ivi)
            /\ \A n \in Own : Lies(e.ivi, n) = Lies(d.ivi, n)
            /\ e.ok <=> There(d.ivi, Surf(a))
            /\ There(d.ivi, Surf(a)) =>
                 /\ e.behind = d.behind \ {"rect"}
                 /\ Cut(e.ivi, Surf(a)) = Scaled(e.setting, a).src
                 /\ Lies(e.ivi, Surf(a)) = Scaled(e.setting, a).dest
            /\ ~There(d.ivi, Surf(a)) => e.ivi = d.ivi /\ e.behind = d.behind
<1>. DEFINE t == SetVideoInputParam(d.setting, Id(a), on, r)
            s == [d EXCEPT !.setting = t]
            p == PlaceVideo(s, a)
            k == Commit(p)
            fails == [s EXCEPT !.ok = FALSE]
            placed == [[k EXCEPT !.ok = TRUE] EXCEPT !.behind = @ \ {"rect"}]
            e == SetSourceRectangleCommon(d, a, on, r)
<1>1. a # "" /\ Surf(a) \in Names /\ \A n \in Own : n \in Names /\ n # Surf(a)  BY NameFacts
<1>2. t \in Settings  BY FieldsOfDisplay, SetInputFacts
<1>3. e = IF ~HasSurface(d, a) THEN fails
          ELSE [Commit(PlaceVideo(s, a)) EXCEPT !.ok = TRUE, !.behind = @ \ {"rect"}]
  BY <1>1 DEF SetSourceRectangleCommon
<1>4. HasSurface(d, a) <=> There(d.ivi, Surf(a))  BY HasSurfaceFacts
<1>. HIDE DEF t
<1>5. s \in Displays /\ s.setting = t /\ s.ivi = d.ivi /\ Untold(d, s)  BY <1>2, WithSetting
<1>. HIDE DEF s
<1>6. CASE ~There(d.ivi, Surf(a))
  <2>1. e = fails  BY <1>3, <1>4, <1>6
  <2>2. /\ fails \in Displays /\ fails.setting = t /\ fails.ivi = d.ivi /\ Published(d, fails)
        /\ fails.behind = d.behind /\ ~fails.ok
    BY <1>5 DEF Displays, Published, Untold
  <2>. HIDE DEF fails, e
  <2>4. SameFlags(d.ivi, e.ivi) /\ SameShown(d.ivi, e.ivi)  BY <2>1, <2>2, SameFacts
  <2>. QED  BY <1>6, <2>1, <2>2, <2>4 DEF e, t
<1>7. CASE There(d.ivi, Surf(a))
  <2>2. /\ p \in Displays /\ p.setting = t /\ Untold(s, p)
        /\ SameFlags(d.ivi, p.ivi) /\ SameShown(d.ivi, p.ivi)
        /\ \A n \in Own : Lies(p.ivi, n) = Lies(d.ivi, n)
        /\ Cut(p.ivi, Surf(a)) = Scaled(t, a).src /\ Lies(p.ivi, Surf(a)) = Scaled(t, a).dest
    BY <1>1, <1>5, <1>7, PlaceVideoStep
  <2>. HIDE DEF p
  <2>6. /\ k \in Displays /\ k.setting = t /\ Untold(p, k) /\ Committed(k.ivi)
        /\ SameFlags(p.ivi, k.ivi) /\ SameShown(p.ivi, k.ivi) /\ SamePlaced(p.ivi, k.ivi)
    BY <2>2, CommitStep
  <2>7. e = [k EXCEPT !.ok = TRUE, !.behind = @ \ {"rect"}]  BY <1>3, <1>4, <1>7 DEF p
  <2>. HIDE DEF k, e
  <2>1. e = placed  BY <2>6, <2>7 DEF Displays
  <2>8. d.behind \ {"rect"} \in SUBSET Marks  BY FieldsOfDisplay
  <2>9. /\ placed \in Displays /\ placed.setting = t /\ placed.ivi = k.ivi /\ Published(k, placed)
        /\ placed.behind = d.behind \ {"rect"} /\ placed.ok
    BY <1>5, <2>2, <2>6, <2>8 DEF Displays, Published, Untold
  <2>. HIDE DEF placed
  <2>10. Published(d, e)
    BY <1>5, <2>1, <2>2, <2>6, <2>9 DEF Published, Untold
  <2>11. SameFlags(d.ivi, e.ivi) /\ SameShown(d.ivi, e.ivi)
    BY <2>1, <2>2, <2>6, <2>9, SameFacts
  <2>12. /\ Cut(e.ivi, Surf(a)) = Scaled(t, a).src /\ Lies(e.ivi, Surf(a)) = Scaled(t, a).dest
         /\ \A n \in Own : Lies(e.ivi, n) = Lies(d.ivi, n)
    BY <1>1, <2>1, <2>2, <2>6, <2>9 DEF SamePlaced
  <2>. QED  BY <1>7, <2>1, <2>6, <2>9, <2>10, <2>11, <2>12 DEF e, t
<1>. QED  BY <1>6, <1>7

LEMMA SetWideStep ==
  ASSUME OutputOK, NEW d \in Displays, NEW a \in Here, NEW wide \in WideModes
  PROVE  LET e == SetWideModeCommon(d, a, wide)
         IN /\ e \in Displays /\ e.setting = SetVideoWideMode(d.setting, Id(a), wide)
            /\ Published(d, e) /\ e.behind = d.behind /\ e.ok
            /\ SameFlags(d.ivi, e.ivi) /\ SameShown(d.ivi, e.ivi) /\ Committed(e.ivi)
            /\ \A n \in Own : Lies(e.ivi, n) = Lies(d.ivi, n)
            /\ There(d.ivi, Surf(a)) =>
                 /\ Cut(e.ivi, Surf(a)) = Scaled(e.setting, a).src
                 /\ Lies(e.ivi, Surf(a)) = Scaled(e.setting, a).dest
<1>. DEFINE t == SetVideoWideMode(d.setting, Id(a), wide)
            s == [d EXCEPT !.setting = t]
            p == PlaceVideo(s, a)
            k == Commit(p)
            e == SetWideModeCommon(d, a, wide)
<1>1. a # "" /\ Surf(a) \in Names /\ \A n \in Own : n \in Names /\ n # Surf(a)  BY NameFacts
<1>2. t \in Settings  BY FieldsOfDisplay, SetWideFacts
<1>3. e = [k EXCEPT !.ok = TRUE]  BY DEF SetWideModeCommon
<1>. HIDE DEF t, e
<1>5. s \in Displays /\ s.setting = t /\ s.ivi = d.ivi /\ Untold(d, s)  BY <1>2, WithSetting
<1>. HIDE DEF s
<1>6. /\ p \in Displays /\ p.setting = t /\ Untold(s, p)
      /\ SameFlags(d.ivi, p.ivi) /\ SameShown(d.ivi, p.ivi)
      /\ \A n \in Own : Lies(p.ivi, n) = Lies(d.ivi, n)
      /\ There(d.ivi, Surf(a)) =>
           Cut(p.ivi, Surf(a)) = Scaled(t, a).src /\ Lies(p.ivi, Surf(a)) = Scaled(t, a).dest
  BY <1>1, <1>5, PlaceVideoStep
<1>. HIDE DEF p
<1>7. /\ k \in Displays /\ k.setting = t /\ Untold(p, k) /\ Committed(k.ivi)
      /\ SameFlags(p.ivi, k.ivi) /\ SameShown(p.ivi, k.ivi) /\ SamePlaced(p.ivi, k.ivi)
  BY <1>6, CommitStep
<1>. HIDE DEF k
<1>8. e \in Displays /\ e.setting = t /\ e.ivi = k.ivi /\ Published(k, e) /\ e.behind = k.behind /\ e.ok
  BY <1>3, <1>7, WithOk
<1>9. Published(d, e) /\ e.behind = d.behind  BY <1>5, <1>6, <1>7, <1>8 DEF Published, Untold
<1>10. SameFlags(d.ivi, e.ivi) /\ SameShown(d.ivi, e.ivi)  BY <1>6, <1>7, <1>8, SameFacts
<1>11. /\ There(d.ivi, Surf(a)) =>
            Cut(e.ivi, Surf(a)) = Scaled(t, a).src /\ Lies(e.ivi, Surf(a)) = Scaled(t, a).dest
       /\ \A n \in Own : Lies(e.ivi, n) = Lies(d.ivi, n)
  BY <1>1, <1>6, <1>7, <1>8 DEF SamePlaced
<1>. QED  BY <1>7, <1>8, <1>9, <1>10, <1>11 DEF e, t

LEMMA SetVisibilityStep ==
  ASSUME OutputOK, NEW d \in Displays, NEW a \in Here, NEW v \in BOOLEAN
  PROVE  LET e == SetVisibilityCommon(d, a, v)
         IN /\ e \in Displays /\ e.setting = SetVideoVisibility(d.setting, Id(a), v)
            /\ Published(d, e) /\ e.behind = d.behind /\ (e.ok <=> There(d.ivi, Surf(a)))
            /\ SameFlags(d.ivi, e.ivi) /\ SamePlaced(d.ivi, e.ivi)
            /\ Committed(d.ivi) => Committed(e.ivi)
            /\ \A m \in Names : Shown(e.ivi, m) <=> IF m = Surf(a) /\ There(d.ivi, Surf(a)) THEN v
                                                    ELSE Shown(d.ivi, m)
<1>. DEFINE t == SetVideoVisibility(d.setting, Id(a), v)
            s == [d EXCEPT !.setting = t]
            p == [s EXCEPT !.ivi = Ivi!SetSurfaceVisibility(@, Surf(a), v)]
            k == Commit(p)
            e == SetVisibilityCommon(d, a, v)
<1>1. a # "" /\ Surf(a) \in Names  BY NameFacts
<1>2. t \in Settings  BY FieldsOfDisplay, SetVisibilityFacts
<1>3. e = IF HasSurface(d, a) THEN [k EXCEPT !.ok = TRUE] ELSE [p EXCEPT !.ok = FALSE]
  BY DEF SetVisibilityCommon, Displays, Surf
<1>4. HasSurface(d, a) <=> There(d.ivi, Surf(a))  BY HasSurfaceFacts
<1>. HIDE DEF t, e
<1>5. s \in Displays /\ s.setting = t /\ s.ivi = d.ivi /\ Untold(d, s)  BY <1>2, WithSetting
<1>. HIDE DEF s
<1>6. /\ p \in Displays /\ p.setting = t /\ Untold(s, p)
      /\ SameFlags(d.ivi, p.ivi) /\ SamePlaced(d.ivi, p.ivi)
      /\ \A m \in Names : Shown(p.ivi, m) <=> IF m = Surf(a) /\ There(d.ivi, Surf(a)) THEN v
                                              ELSE Shown(d.ivi, m)
      /\ ~There(d.ivi, Surf(a)) => p.ivi = d.ivi
  BY <1>1, <1>5, ShowStep
<1>. HIDE DEF p
<1>7. /\ k \in Displays /\ k.setting = t /\ Untold(p, k) /\ Committed(k.ivi)
      /\ SameFlags(p.ivi, k.ivi) /\ SameShown(p.ivi, k.ivi) /\ SamePlaced(p.ivi, k.ivi)
  BY <1>6, CommitStep
<1>. HIDE DEF k
<1>8. CASE There(d.ivi, Surf(a))
  <2>1. e \in Displays /\ e.setting = t /\ e.ivi = k.ivi /\ Published(k, e) /\ e.behind = k.behind /\ e.ok
    BY <1>3, <1>4, <1>7, <1>8, WithOk
  <2>2. Published(d, e) /\ e.behind = d.behind  BY <1>5, <1>6, <1>7, <2>1 DEF Published, Untold
  <2>3. SameFlags(d.ivi, e.ivi) /\ SamePlaced(d.ivi, e.ivi)  BY <1>6, <1>7, <2>1, SameFacts
  <2>4. \A m \in Names : Shown(e.ivi, m) <=> Shown(p.ivi, m)  BY <1>7, <2>1 DEF SameShown
  <2>. QED  BY <1>6, <1>7, <1>8, <2>1, <2>2, <2>3, <2>4 DEF e, t
<1>9. CASE ~There(d.ivi, Surf(a))
  <2>1. e \in Displays /\ e.setting = t /\ e.ivi = p.ivi /\ Published(p, e) /\ e.behind = p.behind /\ ~e.ok
    BY <1>3, <1>4, <1>6, <1>9, WithOk
  <2>2. Published(d, e) /\ e.behind = d.behind  BY <1>5, <1>6, <2>1 DEF Published, Untold
  <2>. QED  BY <1>6, <1>9, <2>1, <2>2 DEF e, t
<1>. QED  BY <1>8, <1>9

LEMMA SetOpacityStep ==
  ASSUME OutputOK, NEW d \in Displays, NEW a \in Here, NEW v \in BOOLEAN
  PROVE  LET e == SetOpacityCommon(d, a, v)
         IN /\ e \in Displays /\ e.setting = SetVideoOpacity(d.setting, Id(a), v)
            /\ Published(d, e) /\ e.behind = d.behind /\ (e.ok <=> There(d.ivi, Surf(a)))
            /\ SameFlags(d.ivi, e.ivi) /\ SamePlaced(d.ivi, e.ivi) /\ SameShown(d.ivi, e.ivi)
            /\ Committed(d.ivi) => Committed(e.ivi)
<1>. DEFINE t == SetVideoOpacity(d.setting, Id(a), v)
            s == [d EXCEPT !.setting = t]
            c == Ivi!SetSurfaceOpacity(d.ivi, Surf(a), v)
            p == [s EXCEPT !.ivi = c]
            k == Commit(p)
            e == SetOpacityCommon(d, a, v)
<1>1. a # "" /\ Surf(a) \in Names  BY NameFacts
<1>2. t \in Settings  BY FieldsOfDisplay, SetOpacityFacts
<1>3. e = IF HasSurface(d, a) THEN [k EXCEPT !.ok = TRUE] ELSE [p EXCEPT !.ok = FALSE]
  BY DEF SetOpacityCommon, Displays, Surf
<1>4. HasSurface(d, a) <=> There(d.ivi, Surf(a))  BY HasSurfaceFacts
<1>10. d.ivi \in Compositors  BY FieldsOfDisplay
<1>11. /\ c \in Compositors /\ SameFlags(d.ivi, c) /\ SamePlaced(d.ivi, c) /\ SameShown(d.ivi, c)
       /\ ~There(d.ivi, Surf(a)) => c = d.ivi
  BY <1>1, <1>10, OpacityFacts
<1>. HIDE DEF t, e, c
<1>5. s \in Displays /\ s.setting = t /\ s.ivi = d.ivi /\ Untold(d, s)  BY <1>2, WithSetting
<1>. HIDE DEF s
<1>6. p \in Displays /\ p.setting = t /\ Untold(s, p) /\ p.ivi = c  BY <1>5, <1>11, WithIvi
<1>. HIDE DEF p
<1>7. /\ k \in Displays /\ k.setting = t /\ Untold(p, k) /\ Committed(k.ivi)
      /\ SameFlags(p.ivi, k.ivi) /\ SameShown(p.ivi, k.ivi) /\ SamePlaced(p.ivi, k.ivi)
  BY <1>6, CommitStep
<1>. HIDE DEF k
<1>8. CASE There(d.ivi, Surf(a))
  <2>1. e \in Displays /\ e.setting = t /\ e.ivi = k.ivi /\ Published(k, e) /\ e.behind = k.behind /\ e.ok
    BY <1>3, <1>4, <1>7, <1>8, WithOk
  <2>2. Published(d, e) /\ e.behind = d.behind  BY <1>5, <1>6, <1>7, <2>1 DEF Published, Untold
  <2>3. SameFlags(d.ivi, e.ivi) /\ SamePlaced(d.ivi, e.ivi) /\ SameShown(d.ivi, e.ivi)
    BY <1>6, <1>7, <1>11, <2>1, SameFacts
  <2>. QED  BY <1>6, <1>7, <1>8, <2>1, <2>2, <2>3 DEF e, t
<1>9. CASE ~There(d.ivi, Surf(a))
  <2>1. e \in Displays /\ e.setting = t /\ e.ivi = p.ivi /\ Published(p, e) /\ e.behind = p.behind /\ ~e.ok
    BY <1>3, <1>4, <1>6, <1>9, WithOk
  <2>2. Published(d, e) /\ e.behind = d.behind  BY <1>5, <1>6, <2>1 DEF Published, Untold
  <2>. QED  BY <1>6, <1>9, <1>11, <2>1, <2>2 DEF e, t
<1>. QED  BY <1>8, <1>9

LEMMA HideStep ==
  ASSUME OutputOK, NEW d \in Displays, NEW n \in Names
  PROVE  LET e == [d EXCEPT !.ivi = Ivi!SetSurfaceVisibility(@, n, FALSE)]
         IN /\ e \in Displays /\ e.setting = d.setting /\ Untold(d, e)
            /\ SameFlags(d.ivi, e.ivi) /\ SamePlaced(d.ivi, e.ivi)
            /\ \A m \in Names : Shown(e.ivi, m) <=> ~(m = n /\ There(d.ivi, n)) /\ Shown(d.ivi, m)
<1>1. PICK no \in BOOLEAN : no = FALSE  OBVIOUS
<1>. DEFINE e == [d EXCEPT !.ivi = Ivi!SetSurfaceVisibility(@, n, no)]
<1>2. /\ e \in Displays /\ e.setting = d.setting /\ Untold(d, e)
      /\ SameFlags(d.ivi, e.ivi) /\ SamePlaced(d.ivi, e.ivi)
      /\ \A m \in Names : Shown(e.ivi, m) <=> IF m = n /\ There(d.ivi, n) THEN no ELSE Shown(d.ivi, m)
  BY ShowStep
<1>. QED  BY <1>1, <1>2

\* The background of the front or rear display.
LEMMA BackgroundStep ==
  ASSUME OutputOK, NEW d \in Displays, NEW a \in Here \cup {""}, HasBackground, Present(d.ivi)
  PROVE  LET e == SetVideoBlindSurfaceVisibility(d, a)
         IN /\ e \in Displays /\ e.setting = d.setting /\ Published(d, e) /\ e.ok = d.ok
            /\ e.behind = d.behind \ {"bg"}
            /\ SameFlags(d.ivi, e.ivi) /\ SamePlaced(d.ivi, e.ivi) /\ Committed(e.ivi)
            /\ \A m \in Names : m # GetBlinderID("bg") => (Shown(e.ivi, m) <=> Shown(d.ivi, m))
            /\ Shown(e.ivi, GetBlinderID("bg")) <=> a # "" /\ Vis(d.setting, a) /\ Opaque(d.setting, a)
<1>. DEFINE n == GetBlinderID("bg")
            b == BehindVideo(d, a)
            p == [d EXCEPT !.ivi = Ivi!SetSurfaceVisibility(@, n, b)]
            k == Commit(p)
            e == SetVideoBlindSurfaceVisibility(d, a)
<1>1. n \in Names /\ n \in Own  BY OwnFacts, NameFacts
<1>2. b \in BOOLEAN /\ (b <=> a # "" /\ Vis(d.setting, a) /\ Opaque(d.setting, a))
  BY DEF BehindVideo, GetVideoVisibility, GetVideoOpacity, Vis, Opaque
<1>3. e = [k EXCEPT !.behind = @ \ {"bg"}]  BY DEF SetVideoBlindSurfaceVisibility
<1>. HIDE DEF n, b, e
<1>4. /\ p \in Displays /\ p.setting = d.setting /\ Untold(d, p)
      /\ SameFlags(d.ivi, p.ivi) /\ SamePlaced(d.ivi, p.ivi)
      /\ \A m \in Names : Shown(p.ivi, m) <=> IF m = n /\ There(d.ivi, n) THEN b ELSE Shown(d.ivi, m)
  BY <1>1, <1>2, ShowStep
<1>. HIDE DEF p
<1>5. /\ k \in Displays /\ k.setting = p.setting /\ Untold(p, k) /\ Committed(k.ivi)
      /\ SameFlags(p.ivi, k.ivi) /\ SameShown(p.ivi, k.ivi) /\ SamePlaced(p.ivi, k.ivi)
  BY <1>4, CommitStep
<1>. HIDE DEF k
<1>6. k.behind = d.behind /\ k.ok = d.ok /\ Published(d, k)
  BY <1>4, <1>5 DEF Untold, Published
<1>7. k.behind \ {"bg"} \in SUBSET Marks  BY <1>5, FieldsOfDisplay
<1>8. /\ e \in Displays /\ e.setting = k.setting /\ e.ivi = k.ivi /\ Published(k, e)
      /\ e.behind = k.behind \ {"bg"} /\ e.ok = k.ok
  BY <1>3, <1>5, <1>7, WithBehind
<1>9. SameFlags(d.ivi, e.ivi) /\ SamePlaced(d.ivi, e.ivi)  BY <1>4, <1>5, <1>8, SameFacts
<1>10. There(d.ivi, n)  BY <1>1 DEF Present
<1>11. \A m \in Names : Shown(e.ivi, m) <=> IF m = n THEN b ELSE Shown(d.ivi, m)
  BY <1>4, <1>5, <1>8, <1>10 DEF SameShown
<1>12. Published(d, e)  BY <1>6, <1>8 DEF Published
<1>. QED  BY <1>1, <1>2, <1>4, <1>5, <1>6, <1>8, <1>9, <1>11, <1>12 DEF e, n

\* What is left of a change of the visibility or opacity, of the surface that was there or not.
LEMMA WithBackgroundStep ==
  ASSUME OutputOK, NEW d \in Displays, d.path \in Here, Present(d.ivi)
  PROVE  LET e == WithBackground(d)
         IN /\ e \in Displays /\ e.setting = d.setting /\ Published(d, e) /\ e.ok = d.ok
            /\ SameFlags(d.ivi, e.ivi) /\ SamePlaced(d.ivi, e.ivi)
            /\ Committed(d.ivi) => Committed(e.ivi)
            /\ \A m \in Names : m # GetBlinderID("bg") => (Shown(e.ivi, m) <=> Shown(d.ivi, m))
            /\ HasBackground /\ d.ok =>
                 /\ e.behind = d.behind \ {"bg"}
                 /\ Shown(e.ivi, GetBlinderID("bg")) <=> Vis(d.setting, d.path) /\ Opaque(d.setting, d.path)
            /\ ~HasBackground /\ d.ok => e.behind = d.behind
            /\ ~d.ok => e.behind = d.behind \cup {"bg"}
<1>. DEFINE e == WithBackground(d)
<1>1. CASE ~d.ok
  <2>1. e = [d EXCEPT !.behind = @ \cup {"bg"}]  BY <1>1 DEF WithBackground
  <2>2. d.behind \cup {"bg"} \in SUBSET Marks  BY FieldsOfDisplay DEF Marks
  <2>. HIDE DEF e
  <2>3. /\ e \in Displays /\ e.setting = d.setting /\ e.ivi = d.ivi /\ Published(d, e)
        /\ e.behind = d.behind \cup {"bg"} /\ e.ok = d.ok
    BY <2>1, <2>2, WithBehind
  <2>4. SameFlags(d.ivi, e.ivi) /\ SamePlaced(d.ivi, e.ivi)  BY <2>3, SameFacts
  <2>. QED  BY <1>1, <2>3, <2>4 DEF e
<1>2. CASE d.ok /\ HasBackground
  <2>1. e = SetVideoBlindSurfaceVisibility(d, d.path)  BY <1>2 DEF WithBackground
  <2>. HIDE DEF e
  <2>2. d.path # "" /\ d.path \in Here \cup {""}  BY NameFacts
  <2>3. /\ e \in Displays /\ e.setting = d.setting /\ Published(d, e) /\ e.ok = d.ok
        /\ e.behind = d.behind \ {"bg"}
        /\ SameFlags(d.ivi, e.ivi) /\ SamePlaced(d.ivi, e.ivi) /\ Committed(e.ivi)
        /\ \A m \in Names : m # GetBlinderID("bg") => (Shown(e.ivi, m) <=> Shown(d.ivi, m))
        /\ Shown(e.ivi, GetBlinderID("bg")) <=>
             d.path # "" /\ Vis(d.setting, d.path) /\ Opaque(d.setting, d.path)
    BY <1>2, <2>1, <2>2, BackgroundStep
  <2>. QED  BY <1>2, <2>2, <2>3 DEF e
<1>3. CASE d.ok /\ ~HasBackground
  <2>1. e = d  BY <1>3 DEF WithBackground
  <2>2. Published(d, d) /\ SameFlags(d.ivi, d.ivi) /\ SamePlaced(d.ivi, d.ivi)
    BY SameFacts DEF Published
  <2>. HIDE DEF e
  <2>. QED  BY <1>3, <2>1, <2>2 DEF e
<1>. QED  BY <1>1, <1>2, <1>3

LEMMA SetVisibilityWhole ==
  ASSUME OutputOK, NEW d \in Displays, d.path \in Here, Present(d.ivi), NEW v \in BOOLEAN
  PROVE  LET e == SetVisibility(d, v)
         IN /\ e \in Displays /\ e.setting = SetVideoVisibility(d.setting, Id(d.path), v)
            /\ Published(d, e) /\ (e.ok <=> There(d.ivi, Surf(d.path)))
            /\ SameFlags(d.ivi, e.ivi) /\ SamePlaced(d.ivi, e.ivi)
            /\ Committed(d.ivi) => Committed(e.ivi)
            /\ \A m \in Names : m # GetBlinderID("bg") =>
                 (Shown(e.ivi, m) <=> IF m = Surf(d.path) /\ There(d.ivi, Surf(d.path)) THEN v
                                      ELSE Shown(d.ivi, m))
            /\ HasBackground /\ e.ok =>
                 /\ e.behind = d.behind \ {"bg"}
                 /\ Shown(e.ivi, GetBlinderID("bg")) <=> Vis(e.setting, d.path) /\ Opaque(e.setting, d.path)
            /\ ~HasBackground /\ e.ok => e.behind = d.behind
            /\ ~e.ok => e.behind = d.behind \cup {"bg"}
<1>. DEFINE p == SetVisibilityCommon(d, d.path, v)
            e == SetVisibility(d, v)
<1>1. e = WithBackground(p)  BY DEF SetVisibility
<1>. HIDE DEF e
<1>2. /\ p \in Displays /\ p.setting = SetVideoVisibility(d.setting, Id(d.path), v)
      /\ Published(d, p) /\ p.behind = d.behind /\ (p.ok <=> There(d.ivi, Surf(d.path)))
      /\ SameFlags(d.ivi, p.ivi) /\ SamePlaced(d.ivi, p.ivi)
      /\ Committed(d.ivi) => Committed(p.ivi)
      /\ \A m \in Names : Shown(p.ivi, m) <=>
           IF m = Surf(d.path) /\ There(d.ivi, Surf(d.path)) THEN v ELSE Shown(d.ivi, m)
  BY SetVisibilityStep
<1>. HIDE DEF p
<1>3. p.path = d.path /\ p.path \in Here  BY <1>2 DEF Published
<1>4. Present(p.ivi)  BY <1>2 DEF Present, SameFlags
<1>5. /\ e \in Displays /\ e.setting = p.setting /\ Published(p, e) /\ e.ok = p.ok
      /\ SameFlags(p.ivi, e.ivi) /\ SamePlaced(p.ivi, e.ivi)
      /\ Committed(p.ivi) => Committed(e.ivi)
      /\ \A m \in Names : m # GetBlinderID("bg") => (Shown(e.ivi, m) <=> Shown(p.ivi, m))
      /\ HasBackground /\ p.ok =>
           /\ e.behind = p.behind \ {"bg"}
           /\ Shown(e.ivi, GetBlinderID("bg")) <=> Vis(p.setting, p.path) /\ Opaque(p.setting, p.path)
      /\ ~HasBackground /\ p.ok => e.behind = p.behind
      /\ ~p.ok => e.behind = p.behind \cup {"bg"}
  BY <1>1, <1>2, <1>3, <1>4, WithBackgroundStep
<1>6. Published(d, e) /\ SameFlags(d.ivi, e.ivi) /\ SamePlaced(d.ivi, e.ivi)
  BY <1>2, <1>5, SameFacts, PublishedFacts
<1>. QED  BY <1>2, <1>3, <1>5, <1>6 DEF e

LEMMA SetOpacityWhole ==
  ASSUME OutputOK, NEW d \in Displays, d.path \in Here, Present(d.ivi), NEW v \in BOOLEAN
  PROVE  LET e == SetOpacity(d, v)
         IN /\ e \in Displays /\ e.setting = SetVideoOpacity(d.setting, Id(d.path), v)
            /\ Published(d, e) /\ (e.ok <=> There(d.ivi, Surf(d.path)))
            /\ SameFlags(d.ivi, e.ivi) /\ SamePlaced(d.ivi, e.ivi)
            /\ Committed(d.ivi) => Committed(e.ivi)
            /\ \A m \in Names : m # GetBlinderID("bg") => (Shown(e.ivi, m) <=> Shown(d.ivi, m))
            /\ HasBackground /\ e.ok =>
                 /\ e.behind = d.behind \ {"bg"}
                 /\ Shown(e.ivi, GetBlinderID("bg")) <=> Vis(e.setting, d.path) /\ Opaque(e.setting, d.path)
            /\ ~HasBackground /\ e.ok => e.behind = d.behind
            /\ ~e.ok => e.behind = d.behind \cup {"bg"}
<1>. DEFINE p == SetOpacityCommon(d, d.path, v)
            e == SetOpacity(d, v)
<1>1. e = WithBackground(p)  BY DEF SetOpacity
<1>. HIDE DEF e
<1>2. /\ p \in Displays /\ p.setting = SetVideoOpacity(d.setting, Id(d.path), v)
      /\ Published(d, p) /\ p.behind = d.behind /\ (p.ok <=> There(d.ivi, Surf(d.path)))
      /\ SameFlags(d.ivi, p.ivi) /\ SamePlaced(d.ivi, p.ivi) /\ SameShown(d.ivi, p.ivi)
      /\ Committed(d.ivi) => Committed(p.ivi)
  BY SetOpacityStep
<1>. HIDE DEF p
<1>3. p.path = d.path /\ p.path \in Here  BY <1>2 DEF Published
<1>4. Present(p.ivi)  BY <1>2 DEF Present, SameFlags, SameShown
<1>5. /\ e \in Displays /\ e.setting = p.setting /\ Published(p, e) /\ e.ok = p.ok
      /\ SameFlags(p.ivi, e.ivi) /\ SamePlaced(p.ivi, e.ivi)
      /\ Committed(p.ivi) => Committed(e.ivi)
      /\ \A m \in Names : m # GetBlinderID("bg") => (Shown(e.ivi, m) <=> Shown(p.ivi, m))
      /\ HasBackground /\ p.ok =>
           /\ e.behind = p.behind \ {"bg"}
           /\ Shown(e.ivi, GetBlinderID("bg")) <=> Vis(p.setting, p.path) /\ Opaque(p.setting, p.path)
      /\ ~HasBackground /\ p.ok => e.behind = p.behind
      /\ ~p.ok => e.behind = p.behind \cup {"bg"}
  BY <1>1, <1>2, <1>3, <1>4, WithBackgroundStep
<1>6. Published(d, e) /\ SameFlags(d.ivi, e.ivi) /\ SamePlaced(d.ivi, e.ivi)
  BY <1>2, <1>5, SameFacts, PublishedFacts
<1>7. \A m \in Names : m # GetBlinderID("bg") => (Shown(e.ivi, m) <=> Shown(d.ivi, m))
  BY <1>2, <1>5 DEF SameShown
<1>. QED  BY <1>2, <1>3, <1>5, <1>6, <1>7 DEF e

\* Only the camera's path is shown at once; the path that is left is hidden.
LEMMA SwitchStep ==
  ASSUME OutputOK, NEW d \in Displays, NEW a \in Here \cup {""}, a # d.path, Present(d.ivi)
  PROVE  LET e == SetVideoPathCommon(d, a)
         IN /\ e \in Displays /\ Published(d, e) /\ e.ok = d.ok
            /\ e.behind = IF output = "camera" /\ a # "" THEN d.behind \ {"place"} ELSE d.behind
            /\ \A b \in Here :
                 /\ SameSizes(d.setting, e.setting, b)
                 /\ Opaque(e.setting, b) <=> Opaque(d.setting, b)
                 /\ Vis(e.setting, b) <=> IF b = d.path THEN FALSE
                                          ELSE IF output = "camera" /\ b = a THEN TRUE
                                          ELSE Vis(d.setting, b)
            /\ SameFlags(d.ivi, e.ivi) /\ Committed(e.ivi)
            /\ \A b \in Here :
                 /\ Cut(e.ivi, Surf(b)) = Cut(d.ivi, Surf(b)) /\ Lies(e.ivi, Surf(b)) = Lies(d.ivi, Surf(b))
                 /\ Shown(e.ivi, Surf(b)) <=>
                      IF b = d.path THEN FALSE
                      ELSE IF output = "camera" /\ b = a /\ There(d.ivi, Surf(b)) THEN TRUE
                      ELSE Shown(d.ivi, Surf(b))
            /\ \A n \in Own : Shown(e.ivi, n) <=> Shown(d.ivi, n)
            /\ \A n \in Own : a = "" => Lies(e.ivi, n) = Lies(d.ivi, n)
            /\ output = "camera" /\ a # "" =>
                 Lies(e.ivi, GetBlinderID("mute")) = Blind(e.setting, a)
<1>. DEFINE camera == output = "camera"
            shown == IF camera /\ a # ""
                     THEN [d EXCEPT !.setting = SetVideoVisibility(@, Id(a), TRUE),
                                    !.ivi = Ivi!SetSurfaceVisibility(@, Surf(a), TRUE),
                                    !.behind = @ \ {"place"}]
                     ELSE d
            kinds == Blinders(output) \cap (IF output = "ic" THEN {} ELSE {"mute", "bg"})
            placed == IF a = "" THEN shown ELSE PlaceBlinders(shown, kinds, a)
            left == IF d.path = "" THEN placed
                    ELSE [placed EXCEPT !.setting = SetVideoVisibility(@, Id(d.path), FALSE),
                                        !.ivi = Ivi!SetSurfaceVisibility(@, Surf(d.path), FALSE)]
            e == SetVideoPathCommon(d, a)
<1>1. e = Commit(left)  BY DEF SetVideoPathCommon, SwitchPath, Surf
<1>2. /\ "" \notin Here /\ d.path \in Here \cup {""} /\ d.setting \in Settings
      /\ \A b \in Here : Surf(b) \in Names /\ Surf(b) \notin Own
      /\ \A n \in Own : n \in Names
      /\ \A b, c \in Here : Surf(b) = Surf(c) => b = c
  BY NameFacts, FieldsOfDisplay
<1>3. /\ shown \in Displays /\ Published(d, shown) /\ shown.ok = d.ok
      /\ shown.behind = IF camera /\ a # "" THEN d.behind \ {"place"} ELSE d.behind
      /\ \A b \in Here :
           /\ SameSizes(d.setting, shown.setting, b)
           /\ Opaque(shown.setting, b) <=> Opaque(d.setting, b)
           /\ Vis(shown.setting, b) <=> IF camera /\ b = a THEN TRUE ELSE Vis(d.setting, b)
      /\ SameFlags(d.ivi, shown.ivi) /\ SamePlaced(d.ivi, shown.ivi)
      /\ \A m \in Names : Shown(shown.ivi, m) <=>
           IF camera /\ a # "" /\ m = Surf(a) /\ There(d.ivi, m) THEN TRUE ELSE Shown(d.ivi, m)
  <2>1. CASE camera /\ a # ""
    <3>. DEFINE t == SetVideoVisibility(d.setting, Id(a), TRUE)
                s == [d EXCEPT !.setting = t]
                p == [s EXCEPT !.ivi = Ivi!SetSurfaceVisibility(@, Surf(a), TRUE)]
                q == [p EXCEPT !.behind = @ \ {"place"}]
    <3>1. shown = q  BY <2>1 DEF Displays
    <3>2. a \in Here /\ Surf(a) \in Names  BY <1>2, <2>1
    <3>3. /\ t \in Settings
          /\ \A b \in Here :
               /\ SameSizes(d.setting, t, b) /\ (Opaque(t, b) <=> Opaque(d.setting, b))
               /\ Vis(t, b) <=> IF b = a THEN TRUE ELSE Vis(d.setting, b)
      BY <1>2, <3>2, SetVisibilityFacts
    <3>. HIDE DEF t, shown
    <3>4. s \in Displays /\ s.setting = t /\ s.ivi = d.ivi /\ Untold(d, s)  BY <3>3, WithSetting
    <3>. HIDE DEF s
    <3>5. /\ p \in Displays /\ p.setting = t /\ Untold(s, p)
          /\ SameFlags(d.ivi, p.ivi) /\ SamePlaced(d.ivi, p.ivi)
          /\ \A m \in Names : Shown(p.ivi, m) <=>
               IF m = Surf(a) /\ There(d.ivi, Surf(a)) THEN TRUE ELSE Shown(d.ivi, m)
      BY <3>2, <3>4, ShowStep
    <3>. HIDE DEF p
    <3>6. p.behind = d.behind /\ p.ok = d.ok /\ Published(d, p)  BY <3>4, <3>5 DEF Untold, Published
    <3>7. p.behind \ {"place"} \in SUBSET Marks  BY <3>5, FieldsOfDisplay
    <3>10. /\ q \in Displays /\ q.setting = p.setting /\ q.ivi = p.ivi /\ Published(p, q)
           /\ q.behind = p.behind \ {"place"} /\ q.ok = p.ok
      BY <3>5, <3>7, WithBehind
    <3>8. /\ q \in Displays /\ q.setting = t /\ q.ivi = p.ivi /\ Published(p, q)
          /\ q.behind = d.behind \ {"place"} /\ q.ok = d.ok
      BY <3>5, <3>6, <3>10
    <3>. HIDE DEF q
    <3>9. Published(d, shown)  BY <3>1, <3>6, <3>8, PublishedFacts
    <3>. QED  BY <2>1, <3>1, <3>3, <3>5, <3>8, <3>9
  <2>2. CASE ~(camera /\ a # "")
    <3>1. shown = d  BY <2>2
    <3>2. Published(d, d)  BY DEF Published
    <3>3. \A b \in Here : ~(camera /\ b = a)  BY <1>2, <2>2
    <3>. HIDE DEF shown
    <3>. QED  BY <2>2, <3>1, <3>2, <3>3, SameFacts
  <2>. QED  BY <2>1, <2>2
<1>. HIDE DEF shown
<1>4. /\ placed \in Displays /\ placed.setting = shown.setting /\ Untold(shown, placed)
      /\ SameFlags(shown.ivi, placed.ivi) /\ SameShown(shown.ivi, placed.ivi)
      /\ \A b \in Here : /\ Cut(placed.ivi, Surf(b)) = Cut(shown.ivi, Surf(b))
                         /\ Lies(placed.ivi, Surf(b)) = Lies(shown.ivi, Surf(b))
      /\ camera /\ a # "" => Lies(placed.ivi, GetBlinderID("mute")) = Blind(shown.setting, a)
      /\ a = "" => placed.ivi = shown.ivi
  <2>1. CASE a = ""
    <3>1. placed = shown /\ Untold(shown, shown)  BY <2>1 DEF Untold, Published
    <3>. HIDE DEF placed
    <3>. QED  BY <1>3, <2>1, <3>1, SameFacts
  <2>2. CASE a # ""
    <3>1. placed = PlaceBlinders(shown, kinds, a) /\ a \in Here /\ kinds \in SUBSET Blinders(output)
      BY <1>2, <2>2
    <3>2. camera => "mute" \in kinds  BY OwnFacts
    <3>3. There(shown.ivi, GetBlinderID("mute"))
      BY <1>2, <1>3, OwnFacts DEF Present, SameFlags
    <3>. HIDE DEF placed, kinds, camera
    <3>4. /\ placed \in Displays /\ placed.setting = shown.setting /\ Untold(shown, placed)
          /\ SameFlags(shown.ivi, placed.ivi) /\ SameShown(shown.ivi, placed.ivi)
          /\ \A m \in Names : Cut(placed.ivi, m) = Cut(shown.ivi, m)
          /\ \A m \in Names : m \notin Own => Lies(placed.ivi, m) = Lies(shown.ivi, m)
          /\ \A kind \in kinds : There(shown.ivi, GetBlinderID(kind)) =>
               Lies(placed.ivi, GetBlinderID(kind)) = Blind(shown.setting, a)
      BY <1>3, <3>1, PlaceBlindersStep
    <3>. QED  BY <1>2, <2>2, <3>2, <3>3, <3>4
  <2>. QED  BY <2>1, <2>2
<1>. HIDE DEF placed
<1>5. /\ left \in Displays /\ Untold(placed, left)
      /\ \A b \in Here :
           /\ SameSizes(placed.setting, left.setting, b)
           /\ Opaque(left.setting, b) <=> Opaque(placed.setting, b)
           /\ Vis(left.setting, b) <=> IF b = d.path THEN FALSE ELSE Vis(placed.setting, b)
      /\ SameFlags(placed.ivi, left.ivi) /\ SamePlaced(placed.ivi, left.ivi)
      /\ \A m \in Names : Shown(left.ivi, m) <=>
           IF d.path # "" /\ m = Surf(d.path) /\ There(placed.ivi, m) THEN FALSE ELSE Shown(placed.ivi, m)
  <2>1. CASE d.path = ""
    <3>1. left = placed /\ Untold(placed, placed)  BY <2>1 DEF Untold, Published
    <3>2. \A b \in Here : b # d.path  BY <1>2, <2>1
    <3>. HIDE DEF left
    <3>. QED  BY <1>4, <2>1, <3>1, <3>2, SameFacts
  <2>2. CASE d.path # ""
    <3>. DEFINE t == SetVideoVisibility(placed.setting, Id(d.path), FALSE)
                s == [placed EXCEPT !.setting = t]
                p == [s EXCEPT !.ivi = Ivi!SetSurfaceVisibility(@, Surf(d.path), FALSE)]
    <3>1. left = p  BY <1>4, <2>2 DEF Displays
    <3>2. d.path \in Here /\ Surf(d.path) \in Names /\ placed.setting \in Settings
      BY <1>2, <1>4, <2>2, FieldsOfDisplay
    <3>3. /\ t \in Settings
          /\ \A b \in Here :
               /\ SameSizes(placed.setting, t, b) /\ (Opaque(t, b) <=> Opaque(placed.setting, b))
               /\ Vis(t, b) <=> IF b = d.path THEN FALSE ELSE Vis(placed.setting, b)
      BY <3>2, SetVisibilityFacts
    <3>. HIDE DEF t, left
    <3>4. s \in Displays /\ s.setting = t /\ s.ivi = placed.ivi /\ Untold(placed, s)
      BY <1>4, <3>3, WithSetting
    <3>. HIDE DEF s
    <3>5. /\ p \in Displays /\ p.setting = t /\ Untold(s, p)
          /\ SameFlags(placed.ivi, p.ivi) /\ SamePlaced(placed.ivi, p.ivi)
          /\ \A m \in Names : Shown(p.ivi, m) <=>
               ~(m = Surf(d.path) /\ There(placed.ivi, Surf(d.path))) /\ Shown(placed.ivi, m)
      BY <3>2, <3>4, HideStep
    <3>. HIDE DEF p
    <3>6. Untold(placed, p)  BY <3>4, <3>5 DEF Untold, Published
    <3>. QED  BY <2>2, <3>1, <3>3, <3>5, <3>6
  <2>. QED  BY <2>1, <2>2
<1>. HIDE DEF left, e
<1>6. /\ e \in Displays /\ e.setting = left.setting /\ Untold(left, e)
      /\ SameFlags(left.ivi, e.ivi) /\ SameShown(left.ivi, e.ivi) /\ SamePlaced(left.ivi, e.ivi)
      /\ Committed(e.ivi)
  BY <1>1, <1>5, CommitStep
<1>7. /\ Published(d, e) /\ e.ok = d.ok
      /\ e.behind = IF camera /\ a # "" THEN d.behind \ {"place"} ELSE d.behind
  BY <1>3, <1>4, <1>5, <1>6 DEF Untold, Published
<1>8. SameFlags(d.ivi, e.ivi)  BY <1>3, <1>4, <1>5, <1>6, SameFacts
<1>9. ASSUME NEW b \in Here
      PROVE  /\ SameSizes(d.setting, e.setting, b)
             /\ Opaque(e.setting, b) <=> Opaque(d.setting, b)
             /\ Vis(e.setting, b) <=> IF b = d.path THEN FALSE
                                      ELSE IF camera /\ b = a THEN TRUE ELSE Vis(d.setting, b)
             /\ Cut(e.ivi, Surf(b)) = Cut(d.ivi, Surf(b)) /\ Lies(e.ivi, Surf(b)) = Lies(d.ivi, Surf(b))
  <2>1. SameSizes(d.setting, e.setting, b)
    <3>1. SameSizes(d.setting, shown.setting, b)  BY <1>3
    <3>2. SameSizes(shown.setting, left.setting, b)  BY <1>4, <1>5
    <3>. QED  BY <1>6, <3>1, <3>2, SameFacts
  <2>2. Cut(e.ivi, Surf(b)) = Cut(d.ivi, Surf(b)) /\ Lies(e.ivi, Surf(b)) = Lies(d.ivi, Surf(b))
    BY <1>2, <1>3, <1>4, <1>5, <1>6 DEF SamePlaced
  <2>. QED  BY <1>3, <1>4, <1>5, <1>6, <2>1, <2>2
<1>10. ASSUME NEW m \in Names
       PROVE  Shown(e.ivi, m) <=>
                IF d.path # "" /\ m = Surf(d.path) /\ There(d.ivi, m) THEN FALSE
                ELSE IF camera /\ a # "" /\ m = Surf(a) /\ There(d.ivi, m) THEN TRUE ELSE Shown(d.ivi, m)
  <2>1. There(placed.ivi, m) <=> There(d.ivi, m)  BY <1>3, <1>4 DEF SameFlags
  <2>2. Shown(placed.ivi, m) <=> Shown(shown.ivi, m)  BY <1>4 DEF SameShown
  <2>3. Shown(e.ivi, m) <=> Shown(left.ivi, m)  BY <1>6 DEF SameShown
  <2>. QED  BY <1>3, <1>5, <2>1, <2>2, <2>3
<1>11. \A n \in Own : Shown(e.ivi, n) <=> Shown(d.ivi, n)
  BY <1>2, <1>10
<1>12. ASSUME NEW b \in Here
       PROVE  Shown(e.ivi, Surf(b)) <=>
                IF b = d.path THEN FALSE
                ELSE IF camera /\ b = a /\ There(d.ivi, Surf(b)) THEN TRUE ELSE Shown(d.ivi, Surf(b))
  <2>1. Surf(b) \in Names /\ (Shown(d.ivi, Surf(b)) => There(d.ivi, Surf(b)))  BY <1>2 DEF Present
  <2>2. /\ d.path # "" /\ Surf(b) = Surf(d.path) <=> b = d.path
        /\ a # "" /\ Surf(b) = Surf(a) <=> b = a
    BY <1>2
  <2>. QED  BY <1>10, <2>1, <2>2
<1>13. camera /\ a # "" => Lies(e.ivi, GetBlinderID("mute")) = Blind(e.setting, a)
  <2>1. SUFFICES ASSUME camera, a # ""  PROVE Lies(e.ivi, GetBlinderID("mute")) = Blind(e.setting, a)
    OBVIOUS
  <2>2. a \in Here /\ GetBlinderID("mute") \in Names  BY <1>2, <2>1, OwnFacts
  <2>3. Lies(e.ivi, GetBlinderID("mute")) = Blind(shown.setting, a)
    BY <1>4, <1>5, <1>6, <2>1, <2>2 DEF SamePlaced
  <2>4. SameSizes(shown.setting, e.setting, a)  BY <1>4, <1>5, <1>6, <2>2
  <2>. QED  BY <2>3, <2>4, SameSizesFacts
<1>14. ASSUME NEW n \in Own, a = ""  PROVE Lies(e.ivi, n) = Lies(d.ivi, n)
  BY <1>2, <1>3, <1>4, <1>5, <1>6, <1>14 DEF SamePlaced
<1>. QED  BY <1>6, <1>7, <1>8, <1>9, <1>11, <1>12, <1>13, <1>14 DEF e

LEMMA MuteOffStep ==
  ASSUME OutputOK, NEW d \in Displays, NEW a \in Here \cup {""}, Present(d.ivi), Committed(d.ivi)
  PROVE  LET e == SetVideoMuteOffCommon(d, a)
         IN /\ e \in Displays /\ e.setting = d.setting /\ Published(d, e) /\ e.ok = d.ok
            /\ SameFlags(d.ivi, e.ivi) /\ SamePlaced(d.ivi, e.ivi) /\ Committed(e.ivi)
            /\ \A m \in Names : Shown(e.ivi, m) <=> ~(a = "" /\ m = GetBlinderID("mute")) /\ Shown(d.ivi, m)
            /\ a # "" => e.behind = d.behind
            /\ a = "" => e.behind = IF d.sts.mute THEN d.behind \cup {"muted"} ELSE d.behind \ {"muted"}
<1>. DEFINE e == SetVideoMuteOffCommon(d, a)
<1>1. CASE a # ""
  <2>1. e = d /\ Published(d, d)  BY <1>1 DEF SetVideoMuteOffCommon, Published
  <2>. HIDE DEF e
  <2>. QED  BY <1>1, <2>1, SameFacts DEF e
<1>2. CASE a = ""
  <2>. DEFINE n == GetBlinderID("mute")
              p == [d EXCEPT !.ivi = Ivi!SetSurfaceVisibility(@, n, FALSE)]
              k == Commit(p)
              m == IF d.sts.mute THEN k.behind \cup {"muted"} ELSE k.behind \ {"muted"}
  <2>1. e = [k EXCEPT !.behind = m]  BY <1>2 DEF SetVideoMuteOffCommon
  <2>2. n \in Names /\ n \in Own  BY OwnFacts, NameFacts
  <2>. HIDE DEF n, e
  <2>3. /\ p \in Displays /\ p.setting = d.setting /\ Untold(d, p)
        /\ SameFlags(d.ivi, p.ivi) /\ SamePlaced(d.ivi, p.ivi)
        /\ \A l \in Names : Shown(p.ivi, l) <=> ~(l = n /\ There(d.ivi, n)) /\ Shown(d.ivi, l)
    BY <2>2, HideStep
  <2>. HIDE DEF p
  <2>4. /\ k \in Displays /\ k.setting = p.setting /\ Untold(p, k) /\ Committed(k.ivi)
        /\ SameFlags(p.ivi, k.ivi) /\ SameShown(p.ivi, k.ivi) /\ SamePlaced(p.ivi, k.ivi)
    BY <2>3, CommitStep
  <2>. HIDE DEF k
  <2>5. k.behind = d.behind /\ k.ok = d.ok /\ Published(d, k)  BY <2>3, <2>4 DEF Untold, Published
  <2>6. m \in SUBSET Marks  BY <2>4, FieldsOfDisplay DEF Marks
  <2>7. m = IF d.sts.mute THEN d.behind \cup {"muted"} ELSE d.behind \ {"muted"}  BY <2>5
  <2>. HIDE DEF m
  <2>8. /\ e \in Displays /\ e.setting = k.setting /\ e.ivi = k.ivi /\ Published(k, e)
        /\ e.behind = m /\ e.ok = k.ok
    BY <2>1, <2>4, <2>6, WithBehind
  <2>9. Published(d, e) /\ SameFlags(d.ivi, e.ivi) /\ SamePlaced(d.ivi, e.ivi)
    BY <2>3, <2>4, <2>5, <2>8, SameFacts, PublishedFacts
  <2>10. There(d.ivi, n)  BY <2>2 DEF Present
  <2>11. \A l \in Names : Shown(e.ivi, l) <=> ~(l = n) /\ Shown(d.ivi, l)
    BY <2>3, <2>4, <2>8, <2>10 DEF SameShown
  <2>. QED  BY <1>2, <2>3, <2>4, <2>5, <2>7, <2>8, <2>9, <2>11 DEF e, n
<1>. QED  BY <1>1, <1>2

\* The path is another one, the setting and surface of the one left are not visible.
Switched(d, e, a) ==
  /\ e \in Displays
  /\ e.path = a /\ e.file = d.file /\ e.ctl = d.ctl /\ e.sts = d.sts /\ e.told = d.told
  /\ SameFlags(d.ivi, e.ivi) /\ Committed(e.ivi)
  /\ \A b \in Here :
       /\ SameSizes(d.setting, e.setting, b)
       /\ Opaque(e.setting, b) <=> Opaque(d.setting, b)
       /\ Vis(e.setting, b) <=> IF b = d.path THEN FALSE
                                ELSE IF output = "camera" /\ b = a THEN TRUE ELSE Vis(d.setting, b)
       /\ Cut(e.ivi, Surf(b)) = Cut(d.ivi, Surf(b)) /\ Lies(e.ivi, Surf(b)) = Lies(d.ivi, Surf(b))
       /\ Shown(e.ivi, Surf(b)) <=>
            IF b = d.path THEN FALSE
            ELSE IF output = "camera" /\ b = a /\ There(d.ivi, Surf(b)) THEN TRUE
            ELSE Shown(d.ivi, Surf(b))

LEMMA WithPath ==
  ASSUME NEW d \in Displays, NEW a \in Here \cup {""}
  PROVE  LET e == [d EXCEPT !.path = a, !.ok = TRUE]
         IN /\ e \in Displays /\ e.path = a /\ e.ok /\ e.ivi = d.ivi /\ e.setting = d.setting
            /\ e.file = d.file /\ e.ctl = d.ctl /\ e.sts = d.sts /\ e.told = d.told /\ e.behind = d.behind
BY DEF Displays

LEMMA SetFrontPathStep ==
  ASSUME OutputOK, NEW d \in Displays, NEW a \in Here \cup {""}, a # d.path, Present(d.ivi), HasBackground
  PROVE  LET e == SetFrontPath(d, a)
         IN /\ Switched(d, e, a) /\ SetRearPath(d, a) = e
            /\ a # "" => e.behind = d.behind \ {"bg"}
            /\ a = "" => e.behind = IF d.sts.mute THEN (d.behind \ {"bg"}) \cup {"muted"}
                                    ELSE d.behind \ {"bg", "muted"}
            /\ Shown(e.ivi, GetBlinderID("bg")) <=> a # "" /\ Vis(e.setting, a) /\ Opaque(e.setting, a)
            /\ \A n \in Own : n # GetBlinderID("bg") =>
                 (Shown(e.ivi, n) <=> ~(a = "" /\ n = GetBlinderID("mute")) /\ Shown(d.ivi, n))
<1>. DEFINE p == SetVideoPathCommon(d, a)
            q == SetVideoBlindSurfaceVisibility(p, a)
            k == SetVideoMuteOffCommon(q, a)
            e == SetFrontPath(d, a)
<1>1. e = [k EXCEPT !.path = a, !.ok = TRUE] /\ SetRearPath(d, a) = e
  BY DEF SetFrontPath, SetRearPath
<1>2. output # "camera"  BY OwnFacts
<1>3. \A b \in Here : Surf(b) \in Names /\ Surf(b) \notin Own  BY NameFacts
<1>4. \A n \in Own : n \in Names  BY NameFacts
<1>5. \A k1, l1 \in {"mute", "bg"} : GetBlinderID(k1) = GetBlinderID(l1) => k1 = l1  BY OwnFacts
<1>6. GetBlinderID("bg") \in Own /\ GetBlinderID("mute") \in Own  BY OwnFacts
<1>. HIDE DEF e
<1>7. /\ p \in Displays /\ Published(d, p) /\ p.behind = d.behind
      /\ \A b \in Here :
           /\ SameSizes(d.setting, p.setting, b)
           /\ Opaque(p.setting, b) <=> Opaque(d.setting, b)
           /\ Vis(p.setting, b) <=> IF b = d.path THEN FALSE
                                    ELSE IF output = "camera" /\ b = a THEN TRUE ELSE Vis(d.setting, b)
      /\ SameFlags(d.ivi, p.ivi) /\ Committed(p.ivi)
      /\ \A b \in Here :
           /\ Cut(p.ivi, Surf(b)) = Cut(d.ivi, Surf(b)) /\ Lies(p.ivi, Surf(b)) = Lies(d.ivi, Surf(b))
           /\ Shown(p.ivi, Surf(b)) <=>
                IF b = d.path THEN FALSE
                ELSE IF output = "camera" /\ b = a /\ There(d.ivi, Surf(b)) THEN TRUE
                ELSE Shown(d.ivi, Surf(b))
      /\ \A n \in Own : Shown(p.ivi, n) <=> Shown(d.ivi, n)
  BY <1>2, SwitchStep
<1>. HIDE DEF p
<1>8. Present(p.ivi)
  <2>1. ASSUME NEW n \in Names, Shown(p.ivi, n)  PROVE There(p.ivi, n)
    <3>1. There(p.ivi, n) <=> There(d.ivi, n)  BY <1>7 DEF SameFlags
    <3>2. CASE n \in Own  BY <3>1, <3>2 DEF Present
    <3>3. CASE n \in Paths
      <4>1. PICK b \in Here : n = Surf(b)  BY <3>3, NameFacts
      <4>2. Shown(d.ivi, n)  BY <1>2, <1>7, <2>1, <4>1
      <4>. QED  BY <3>1, <4>2 DEF Present
    <3>. QED  BY <3>2, <3>3 DEF Names
  <2>. QED  BY <1>7, <2>1 DEF Present, SameFlags
<1>9. /\ q \in Displays /\ q.setting = p.setting /\ Published(p, q)
      /\ q.behind = p.behind \ {"bg"}
      /\ SameFlags(p.ivi, q.ivi) /\ SamePlaced(p.ivi, q.ivi) /\ Committed(q.ivi)
      /\ \A m \in Names : m # GetBlinderID("bg") => (Shown(q.ivi, m) <=> Shown(p.ivi, m))
      /\ Shown(q.ivi, GetBlinderID("bg")) <=> a # "" /\ Vis(p.setting, a) /\ Opaque(p.setting, a)
  BY <1>7, <1>8, BackgroundStep
<1>. HIDE DEF q
<1>10. Present(q.ivi)
  <2>1. GetBlinderID("bg") \in Own  BY OwnFacts
  <2>. QED  BY <1>8, <1>9, <2>1 DEF Present, SameFlags
<1>11. /\ k \in Displays /\ k.setting = q.setting /\ Published(q, k)
       /\ SameFlags(q.ivi, k.ivi) /\ SamePlaced(q.ivi, k.ivi) /\ Committed(k.ivi)
       /\ \A m \in Names : Shown(k.ivi, m) <=> ~(a = "" /\ m = GetBlinderID("mute")) /\ Shown(q.ivi, m)
       /\ a # "" => k.behind = q.behind
       /\ a = "" => k.behind = IF q.sts.mute THEN q.behind \cup {"muted"} ELSE q.behind \ {"muted"}
  BY <1>9, <1>10, MuteOffStep
<1>. HIDE DEF k
<1>12. /\ e \in Displays /\ e.path = a /\ e.ivi = k.ivi /\ e.setting = k.setting
       /\ e.file = k.file /\ e.ctl = k.ctl /\ e.sts = k.sts /\ e.told = k.told /\ e.behind = k.behind
  <2>1. k \in Displays  BY <1>11
  <2>2. e = [k EXCEPT !.path = a, !.ok = TRUE]  BY <1>1
  <2>. QED  BY <2>1, <2>2, WithPath
<1>13. e.file = d.file /\ e.ctl = d.ctl /\ e.sts = d.sts /\ e.told = d.told /\ q.sts = d.sts
  BY <1>7, <1>9, <1>11, <1>12 DEF Published
<1>14. SameFlags(d.ivi, e.ivi)  BY <1>7, <1>9, <1>11, <1>12, SameFacts
<1>15. ASSUME NEW b \in Here
       PROVE  /\ Cut(e.ivi, Surf(b)) = Cut(d.ivi, Surf(b)) /\ Lies(e.ivi, Surf(b)) = Lies(d.ivi, Surf(b))
              /\ Shown(e.ivi, Surf(b)) <=> Shown(p.ivi, Surf(b))
  <2>1. Surf(b) # GetBlinderID("mute") /\ Surf(b) # GetBlinderID("bg")  BY <1>3, <1>6
  <2>. QED  BY <1>3, <1>7, <1>9, <1>11, <1>12, <2>1 DEF SamePlaced
<1>16. Switched(d, e, a)
  BY <1>7, <1>9, <1>11, <1>12, <1>13, <1>14, <1>15 DEF Switched
<1>17. /\ a # "" => e.behind = d.behind \ {"bg"}
       /\ a = "" => e.behind = IF d.sts.mute THEN (d.behind \ {"bg"}) \cup {"muted"}
                               ELSE d.behind \ {"bg", "muted"}
  BY <1>7, <1>9, <1>11, <1>12, <1>13
<1>18. Shown(e.ivi, GetBlinderID("bg")) <=> a # "" /\ Vis(e.setting, a) /\ Opaque(e.setting, a)
  BY <1>4, <1>5, <1>6, <1>9, <1>11, <1>12
<1>19. \A n \in Own : n # GetBlinderID("bg") =>
         (Shown(e.ivi, n) <=> ~(a = "" /\ n = GetBlinderID("mute")) /\ Shown(d.ivi, n))
  BY <1>4, <1>7, <1>9, <1>11, <1>12
<1>. QED  BY <1>1, <1>16, <1>17, <1>18, <1>19 DEF e

LEMMA SetIClusterPathStep ==
  ASSUME OutputOK, NEW d \in Displays, NEW a \in Here \cup {""}, a # d.path, Present(d.ivi), output = "ic"
  PROVE  LET e == SetIClusterPath(d, a)
         IN /\ Switched(d, e, a) /\ e.behind = d.behind
            /\ \A n \in Own : Shown(e.ivi, n) <=> Shown(d.ivi, n)
<1>. DEFINE p == SetVideoPathCommon(d, a)
            e == SetIClusterPath(d, a)
<1>1. e = [p EXCEPT !.path = a, !.ok = TRUE]  BY DEF SetIClusterPath
<1>. HIDE DEF e
<1>2. /\ p \in Displays /\ Published(d, p) /\ p.behind = d.behind
      /\ \A b \in Here :
           /\ SameSizes(d.setting, p.setting, b)
           /\ Opaque(p.setting, b) <=> Opaque(d.setting, b)
           /\ Vis(p.setting, b) <=> IF b = d.path THEN FALSE
                                    ELSE IF output = "camera" /\ b = a THEN TRUE ELSE Vis(d.setting, b)
      /\ SameFlags(d.ivi, p.ivi) /\ Committed(p.ivi)
      /\ \A b \in Here :
           /\ Cut(p.ivi, Surf(b)) = Cut(d.ivi, Surf(b)) /\ Lies(p.ivi, Surf(b)) = Lies(d.ivi, Surf(b))
           /\ Shown(p.ivi, Surf(b)) <=>
                IF b = d.path THEN FALSE
                ELSE IF output = "camera" /\ b = a /\ There(d.ivi, Surf(b)) THEN TRUE
                ELSE Shown(d.ivi, Surf(b))
      /\ \A n \in Own : Shown(p.ivi, n) <=> Shown(d.ivi, n)
  BY SwitchStep
<1>. HIDE DEF p
<1>3. /\ e \in Displays /\ e.path = a /\ e.ivi = p.ivi /\ e.setting = p.setting
      /\ e.file = p.file /\ e.ctl = p.ctl /\ e.sts = p.sts /\ e.told = p.told /\ e.behind = p.behind
  BY <1>1, <1>2, WithPath
<1>4. Switched(d, e, a)  BY <1>2, <1>3 DEF Switched, Published
<1>. QED  BY <1>2, <1>3, <1>4 DEF e

\* Or the path stays: its surface is not there, and its setting alone is hidden.
LEMMA SetCameraPathStep ==
  ASSUME OutputOK, NEW d \in Displays, NEW a \in Here \cup {""}, a # d.path, Present(d.ivi),
         output = "camera"
  PROVE  LET e == SetCameraPath(d, a)
             p == [e EXCEPT !.path = a]
         IN /\ e \in Displays
            /\ \A n \in Own : Shown(e.ivi, n) <=> Shown(d.ivi, n)
            /\ Switched(d, p, a) /\ e.behind = IF a # "" THEN d.behind \ {"place"} ELSE d.behind
            /\ e.ivi = p.ivi /\ e.setting = p.setting /\ e.sts = d.sts /\ e.file = d.file
            /\ e.ctl = d.ctl /\ e.told = d.told
            /\ a # "" => Lies(e.ivi, GetBlinderID("mute")) = Blind(e.setting, a)
            /\ \A n \in Own : a = "" => Lies(e.ivi, n) = Lies(d.ivi, n)
            /\ IF d.path = "" \/ There(d.ivi, Surf(d.path))
               THEN e.path = a /\ e.ok ELSE e.path = d.path /\ ~e.ok
<1>. DEFINE s == SetVideoPathCommon(d, a)
            e == SetCameraPath(d, a)
            p == [e EXCEPT !.path = a]
            hidden == d.path = "" \/ (HasSurface(s, d.path) /\ ~GetVisibilityCommon(s, d.path))
<1>1. e = IF hidden THEN [s EXCEPT !.path = a, !.ok = TRUE] ELSE [s EXCEPT !.ok = FALSE]
  BY DEF SetCameraPath
<1>2. d.path \in Here \cup {""} /\ "" \notin Here  BY NameFacts, FieldsOfDisplay
<1>. HIDE DEF e
<1>3. /\ s \in Displays /\ Published(d, s)
      /\ s.behind = IF output = "camera" /\ a # "" THEN d.behind \ {"place"} ELSE d.behind
      /\ \A b \in Here :
           /\ SameSizes(d.setting, s.setting, b)
           /\ Opaque(s.setting, b) <=> Opaque(d.setting, b)
           /\ Vis(s.setting, b) <=> IF b = d.path THEN FALSE
                                    ELSE IF output = "camera" /\ b = a THEN TRUE ELSE Vis(d.setting, b)
      /\ SameFlags(d.ivi, s.ivi) /\ Committed(s.ivi)
      /\ \A b \in Here :
           /\ Cut(s.ivi, Surf(b)) = Cut(d.ivi, Surf(b)) /\ Lies(s.ivi, Surf(b)) = Lies(d.ivi, Surf(b))
           /\ Shown(s.ivi, Surf(b)) <=>
                IF b = d.path THEN FALSE
                ELSE IF output = "camera" /\ b = a /\ There(d.ivi, Surf(b)) THEN TRUE
                ELSE Shown(d.ivi, Surf(b))
      /\ \A n \in Own : Shown(s.ivi, n) <=> Shown(d.ivi, n)
      /\ \A n \in Own : a = "" => Lies(s.ivi, n) = Lies(d.ivi, n)
      /\ output = "camera" /\ a # "" => Lies(s.ivi, GetBlinderID("mute")) = Blind(s.setting, a)
  BY SwitchStep
<1>4. hidden <=> d.path = "" \/ There(d.ivi, Surf(d.path))
  <2>1. CASE d.path = ""  BY <2>1
  <2>2. CASE d.path # ""
    <3>. HIDE DEF s
    <3>1. d.path \in Here /\ Surf(d.path) \in Names  BY <1>2, <2>2, NameFacts
    <3>2. HasSurface(s, d.path) <=> There(d.ivi, Surf(d.path))
      BY <1>3, <3>1, HasSurfaceFacts DEF SameFlags
    <3>3. ~Shown(s.ivi, Surf(d.path))  BY <1>3, <3>1
    <3>4. ~GetVisibilityCommon(s, d.path)
      BY <1>3, <3>1, <3>3 DEF GetVisibilityCommon, Ivi!GetSurfaceVisibility, Committed, Shown, Surf
    <3>. QED  BY <2>2, <3>2, <3>4
  <2>. QED  BY <2>1, <2>2
<1>. HIDE DEF s, hidden
<1>5. /\ e \in Displays /\ e.ivi = s.ivi /\ e.setting = s.setting /\ e.file = s.file /\ e.ctl = s.ctl
      /\ e.sts = s.sts /\ e.told = s.told /\ e.behind = s.behind
      /\ IF hidden THEN e.path = a /\ e.ok ELSE e.path = s.path /\ ~e.ok
  <2>1. CASE hidden
    <3>1. e = [s EXCEPT !.path = a, !.ok = TRUE]  BY <1>1, <2>1
    <3>. QED  BY <1>3, <2>1, <3>1, WithPath
  <2>2. CASE ~hidden
    <3>1. e = [s EXCEPT !.ok = FALSE]  BY <1>1, <2>2
    <3>2. /\ e \in Displays /\ e.setting = s.setting /\ e.ivi = s.ivi /\ Published(s, e)
          /\ e.behind = s.behind /\ ~e.ok
      BY <1>3, <3>1, WithOk
    <3>. QED  BY <2>2, <3>2 DEF Published
  <2>. QED  BY <2>1, <2>2
<1>6. /\ p \in Displays /\ p.path = a /\ p.ivi = e.ivi /\ p.setting = e.setting /\ p.file = e.file
      /\ p.ctl = e.ctl /\ p.sts = e.sts /\ p.told = e.told
  BY <1>5 DEF Displays
<1>. HIDE DEF p
<1>7. Switched(d, p, a)  BY <1>3, <1>5, <1>6 DEF Switched, Published
<1>. QED  BY <1>3, <1>4, <1>5, <1>6, <1>7 DEF e, p, Published

LEMMA BlinderEnableStep ==
  ASSUME OutputOK, NEW d \in Displays, NEW n \in Own, NEW on \in BOOLEAN, Present(d.ivi)
  PROVE  LET e == SetBlinderEnable(d, n, on)
             kept == on /\ HasWide /\ n = GetBlinderID("mute") /\ d.path = ""
         IN /\ e \in Displays /\ e.setting = d.setting /\ Untold(d, e)
            /\ SameFlags(d.ivi, e.ivi) /\ SamePlaced(d.ivi, e.ivi)
            /\ Committed(d.ivi) => Committed(e.ivi)
            /\ \A m \in Names : Shown(e.ivi, m) <=> IF m = n /\ ~kept THEN on ELSE Shown(d.ivi, m)
<1>. DEFINE kept == on /\ HasWide /\ n = GetBlinderID("mute") /\ d.path = ""
            p == [d EXCEPT !.ivi = Ivi!SetSurfaceVisibility(@, n, on)]
            k == Commit(p)
            e == SetBlinderEnable(d, n, on)
<1>1. e = IF kept THEN d ELSE k  BY DEF SetBlinderEnable
<1>2. n \in Names  BY NameFacts
<1>. HIDE DEF kept, e
<1>3. CASE kept
  <2>1. Untold(d, d)  BY DEF Untold, Published
  <2>. QED  BY <1>1, <1>3, <2>1, SameFacts DEF e, kept
<1>4. CASE ~kept
  <2>3. /\ p \in Displays /\ p.setting = d.setting /\ Untold(d, p)
        /\ SameFlags(d.ivi, p.ivi) /\ SamePlaced(d.ivi, p.ivi)
        /\ \A m \in Names : Shown(p.ivi, m) <=> IF m = n /\ There(d.ivi, n) THEN on ELSE Shown(d.ivi, m)
    BY <1>2, ShowStep
  <2>. HIDE DEF p
  <2>4. /\ k \in Displays /\ k.setting = p.setting /\ Untold(p, k) /\ Committed(k.ivi)
        /\ SameFlags(p.ivi, k.ivi) /\ SameShown(p.ivi, k.ivi) /\ SamePlaced(p.ivi, k.ivi)
    BY <2>3, CommitStep
  <2>. HIDE DEF k
  <2>5. Untold(d, k)  BY <2>3, <2>4 DEF Untold, Published
  <2>6. SameFlags(d.ivi, k.ivi) /\ SamePlaced(d.ivi, k.ivi)  BY <2>3, <2>4, SameFacts
  <2>7. There(d.ivi, n)  BY <1>2 DEF Present
  <2>8. \A m \in Names : Shown(k.ivi, m) <=> IF m = n THEN on ELSE Shown(d.ivi, m)
    BY <2>3, <2>4, <2>7 DEF SameShown
  <2>9. e = k  BY <1>1, <1>4
  <2>. QED  BY <1>4, <2>3, <2>4, <2>5, <2>6, <2>8, <2>9 DEF e, kept
<1>. QED  BY <1>3, <1>4

\* Whether clients can choose the path.
Offered(c, a) == a \in {"HDMI", "CAMERA"} \/ There(c, Surf(a))

LEMMA OfferedFacts ==
  ASSUME OutputOK, NEW d \in Displays, NEW a \in Here
  PROVE  IsValidVideoPathAvailable(d, a) <=> Offered(d.ivi, a)
BY NameFacts, HasSurfaceFacts
   DEF IsValidVideoPathAvailable, IsValidVideoPathCommon, IsValidSurfaceAvailable, Offered

LEMMA AddStep ==
  ASSUME OutputOK, NEW d \in Displays, NEW ns
  PROVE  LET e == AddSurfacesToLayer(d, ns)
         IN /\ e \in Displays
            /\ e.path = d.path /\ e.file = d.file /\ e.ctl = d.ctl /\ e.sts = d.sts
            /\ e.behind = d.behind \cup (IF GetBlinderID("bg") \in ns THEN {"bg"} ELSE {})
                          \cup (IF GetBlinderID("mute") \in ns THEN {"muted"} ELSE {})
                          \cup (IF output = "camera" /\ \E a \in Here : Surf(a) \in ns
                                THEN {"place"} ELSE {})
            /\ SamePlaced(d.ivi, e.ivi) /\ Committed(e.ivi) /\ e.ivi.layers = d.ivi.layers
            /\ \A m \in Names :
                 /\ There(e.ivi, m) <=> There(d.ivi, m)
                 /\ Pictured(e.ivi, m) <=> Pictured(d.ivi, m)
                 /\ Heard(e.ivi, m) <=> Heard(d.ivi, m) \/ (m \in ns /\ There(d.ivi, m))
                 /\ Shown(e.ivi, m) <=> Shown(d.ivi, m) /\ ~(m \in ns /\ There(d.ivi, m))
            /\ SameSeen(d.setting, e.setting)
            /\ \A b \in Here :
                 /\ Surf(b) \notin ns => SameSizes(d.setting, e.setting, b)
                 /\ Surf(b) \in ns => ~Orig(e.setting, b).set
                 /\ Out(e.setting, b) = Out(d.setting, b) /\ Clip(e.setting, b) = Clip(d.setting, b)
                 /\ (ClipOn(e.setting, b) <=> ClipOn(d.setting, b))
                 /\ WideOf(e.setting, b) = WideOf(d.setting, b)
                 /\ e.told[b] <=> IF Surf(b) \in ns THEN Offered(e.ivi, b) ELSE d.told[b]
<1>. DEFINE c == Ivi!AddSurfacesToLayer(d.ivi, ns)
            added == [d EXCEPT !.ivi = c]
            as == {a \in Here : Surf(a) \in ns}
            new == [a \in Here |-> IF a \in as THEN IsValidVideoPathAvailable(added, a) ELSE d.told[a]]
            t == ClearVideoInputOriginalSize(d.setting, {Id(a) : a \in as})
            left == {l \in {"bg", "muted", "place"} :
                       CASE l = "bg"    -> GetBlinderID("bg") \in ns
                         [] l = "muted" -> GetBlinderID("mute") \in ns
                         [] l = "place" -> output = "camera" /\ as # {}}
            e == AddSurfacesToLayer(d, ns)
<1>1. e = [added EXCEPT !.told = new, !.setting = t, !.behind = @ \cup left]
  BY DEF AddSurfacesToLayer, Surf, Displays
<1>2. d.ivi \in Compositors /\ d.setting \in Settings /\ d.told \in [Here -> BOOLEAN]
      /\ d.behind \in SUBSET Marks
  BY FieldsOfDisplay
<1>3. /\ c \in Compositors /\ SamePlaced(d.ivi, c) /\ Committed(c) /\ c.layers = d.ivi.layers
      /\ \A m \in Names :
           /\ There(c, m) <=> There(d.ivi, m)
           /\ Pictured(c, m) <=> Pictured(d.ivi, m)
           /\ Heard(c, m) <=> Heard(d.ivi, m) \/ (m \in ns /\ There(d.ivi, m))
           /\ Shown(c, m) <=> Shown(d.ivi, m) /\ ~(m \in ns /\ There(d.ivi, m))
  BY <1>2, AddFacts
<1>4. as \in SUBSET Here /\ \A b \in Here : b \in as <=> Surf(b) \in ns  OBVIOUS
<1>5. left = (IF GetBlinderID("bg") \in ns THEN {"bg"} ELSE {})
             \cup (IF GetBlinderID("mute") \in ns THEN {"muted"} ELSE {})
             \cup (IF output = "camera" /\ \E a \in Here : Surf(a) \in ns THEN {"place"} ELSE {})
  <2>1. as # {} <=> \E a \in Here : Surf(a) \in ns  OBVIOUS
  <2>. HIDE DEF as
  <2>2. \A l : l \in left <=> \/ l = "bg" /\ GetBlinderID("bg") \in ns
                              \/ l = "muted" /\ GetBlinderID("mute") \in ns
                              \/ l = "place" /\ output = "camera" /\ as # {}
    OBVIOUS
  <2>. HIDE DEF left
  <2>. DEFINE bg == IF GetBlinderID("bg") \in ns THEN {"bg"} ELSE {}
              muted == IF GetBlinderID("mute") \in ns THEN {"muted"} ELSE {}
              place == IF output = "camera" /\ \E a \in Here : Surf(a) \in ns THEN {"place"} ELSE {}
  <2>3. \A l : l \in bg <=> l = "bg" /\ GetBlinderID("bg") \in ns  OBVIOUS
  <2>4. \A l : l \in muted <=> l = "muted" /\ GetBlinderID("mute") \in ns  OBVIOUS
  <2>5. \A l : l \in place <=> l = "place" /\ output = "camera" /\ as # {}  BY <2>1
  <2>. HIDE DEF bg, muted, place
  <2>6. left = bg \cup muted \cup place  BY <2>2, <2>3, <2>4, <2>5
  <2>. QED  BY <2>6 DEF bg, muted, place
<1>6. d.behind \cup left \in SUBSET Marks  BY <1>2 DEF Marks
<1>. HIDE DEF c, as, left
<1>7. added \in Displays /\ added.ivi = c /\ added.setting = d.setting /\ Untold(d, added)
  BY <1>3, WithIvi
<1>8. /\ t \in Settings /\ SameSeen(d.setting, t)
      /\ \A b \in Here : b \notin as => SameSizes(d.setting, t, b)
      /\ \A b \in as :
           /\ ~Orig(t, b).set
           /\ Out(t, b) = Out(d.setting, b) /\ Clip(t, b) = Clip(d.setting, b)
           /\ (ClipOn(t, b) <=> ClipOn(d.setting, b))
           /\ WideOf(t, b) = WideOf(d.setting, b)
  BY <1>2, <1>4, ClearOriginalFacts
<1>9. \A b \in Here : IsValidVideoPathAvailable(added, b) <=> Offered(c, b)
  BY <1>7, OfferedFacts
<1>10. new \in [Here -> BOOLEAN]
  <2>1. \A b \in Here : IsValidVideoPathAvailable(added, b) \in BOOLEAN
    BY DEF IsValidVideoPathAvailable
  <2>2. \A b \in Here : d.told[b] \in BOOLEAN  BY <1>2
  <2>. HIDE DEF added
  <2>. QED  BY <2>1, <2>2
<1>11. \A b \in Here : new[b] <=> IF b \in as THEN Offered(c, b) ELSE d.told[b]
  <2>1. \A b \in Here : new[b] = IF b \in as THEN IsValidVideoPathAvailable(added, b) ELSE d.told[b]
    OBVIOUS
  <2>. HIDE DEF added, new
  <2>. QED  BY <1>9, <2>1
<1>. HIDE DEF t, new, added, e
<1>12. /\ e \in Displays /\ e.ivi = c /\ e.setting = t /\ e.told = new /\ e.behind = d.behind \cup left
       /\ e.path = d.path /\ e.file = d.file /\ e.ctl = d.ctl /\ e.sts = d.sts
  BY <1>1, <1>6, <1>7, <1>8, <1>10 DEF Displays, Untold, Published
<1>13. \A b \in Here :
         /\ Surf(b) \notin ns => SameSizes(d.setting, t, b)
         /\ Surf(b) \in ns => ~Orig(t, b).set
         /\ Out(t, b) = Out(d.setting, b) /\ Clip(t, b) = Clip(d.setting, b)
         /\ (ClipOn(t, b) <=> ClipOn(d.setting, b))
         /\ WideOf(t, b) = WideOf(d.setting, b)
  BY <1>4, <1>8 DEF SameSizes
<1>14. \A b \in Here : new[b] <=> IF Surf(b) \in ns THEN Offered(c, b) ELSE d.told[b]
  BY <1>4, <1>11
<1>. QED  BY <1>3, <1>5, <1>8, <1>12, <1>13, <1>14 DEF e

LEMMA DeleteStep ==
  ASSUME OutputOK, NEW d \in Displays, NEW a \in Here
  PROVE  LET e == DeleteSurfaceToLayer(d, Surf(a))
         IN /\ e \in Displays /\ e.ivi = d.ivi /\ e.setting = d.setting
            /\ e.path = d.path /\ e.file = d.file /\ e.ctl = d.ctl /\ e.sts = d.sts /\ e.behind = d.behind
            /\ e.told[a] <=> Offered(d.ivi, a)
            /\ \A b \in Here : b # a => e.told[b] = d.told[b]
<1>. DEFINE new == IsValidVideoPathAvailable(d, a)
            e == DeleteSurfaceToLayer(d, Surf(a))
<1>1. e = [d EXCEPT !.told[a] = new]
  BY NameFacts DEF DeleteSurfaceToLayer, UpdateVpathStatusAvailable, IsValidVideoPathCommon
<1>2. new \in BOOLEAN /\ (new <=> Offered(d.ivi, a))
  BY OfferedFacts DEF IsValidVideoPathAvailable
<1>. HIDE DEF new, e
<1>3. d.told \in [Here -> BOOLEAN]  BY FieldsOfDisplay
<1>4. [d.told EXCEPT ![a] = new] \in [Here -> BOOLEAN]  BY <1>2, <1>3
<1>5. /\ e \in Displays /\ e.ivi = d.ivi /\ e.setting = d.setting
      /\ e.path = d.path /\ e.file = d.file /\ e.ctl = d.ctl /\ e.sts = d.sts /\ e.behind = d.behind
      /\ e.told = [d.told EXCEPT ![a] = new]
  BY <1>1, <1>4 DEF Displays
<1>6. e.told[a] = new /\ \A b \in Here : b # a => e.told[b] = d.told[b]  BY <1>3, <1>5
<1>. QED  BY <1>2, <1>5, <1>6 DEF e

LEMMA BlinderStep ==
  ASSUME OutputOK, NEW d \in Displays, NEW n \in Own, NEW r \in Rectangle, Present(d.ivi)
  PROVE  LET e == ConfigureBlinder(d, n, r)
         IN /\ e \in Displays /\ e.setting = d.setting /\ Published(d, e)
            /\ SameFlags(d.ivi, e.ivi) /\ Committed(e.ivi)
            /\ \A m \in Names : m # n => Cut(e.ivi, m) = Cut(d.ivi, m) /\ Lies(e.ivi, m) = Lies(d.ivi, m)
            /\ \A m \in Names : m # n => (Shown(e.ivi, m) <=> Shown(d.ivi, m))
            /\ Shown(e.ivi, n) <=> n[1] = "display" /\ output = "front"
            /\ \A m \in d.behind : m \in e.behind
            /\ n[1] = "bg" => "bg" \in e.behind
            /\ n[1] = "mute" => "muted" \in e.behind
            /\ n[1] \in {"mute", "sync", "bg"} => "place" \in e.behind
<1>. DEFINE whole == n[1] = "display" \/ output \in {"ic", "camera"}
            rects == [src |-> Rect(0, 0, r.w, r.h), dest |-> IF whole /\ screen THEN Screen ELSE r]
            shown == n[1] = "display" /\ output = "front"
            c == Place(d.ivi, n, rects)
            p == [d EXCEPT !.ivi = c]
            q == [p EXCEPT !.ivi = Ivi!SetSurfaceVisibility(@, n, shown)]
            k == Commit(q)
            marks == CASE n[1] = "bg"   -> {"bg", "place"}
                       [] n[1] = "mute" -> {"muted", "place"}
                       [] n[1] = "sync" -> {"place"}
                       [] OTHER         -> {}
            e == ConfigureBlinder(d, n, r)
<1>1. e = [k EXCEPT !.behind = @ \cup marks]  BY DEF ConfigureBlinder, Displays
<1>2. n \in Names /\ d.ivi \in Compositors  BY NameFacts, FieldsOfDisplay
<1>3. rects \in Picture
  <2>1. Screen \in Rectangle  BY LayoutAssumption DEF LayoutAssumption
  <2>2. Rect(0, 0, r.w, r.h) \in Rectangle  BY DEF Rect, Rectangle
  <2>. QED  BY <2>1, <2>2 DEF Picture
<1>4. shown \in BOOLEAN  OBVIOUS
<1>5. /\ marks \in SUBSET Marks
      /\ n[1] = "bg" => "bg" \in marks
      /\ n[1] = "mute" => "muted" \in marks
      /\ n[1] \in {"mute", "sync", "bg"} => "place" \in marks
  BY DEF Marks
<1>. HIDE DEF rects, shown, marks, e
<1>6. /\ c \in Compositors /\ SameFlags(d.ivi, c) /\ SameShown(d.ivi, c)
      /\ \A m \in Names :
           /\ Cut(c, m) = IF m = n /\ There(d.ivi, n) THEN rects.src ELSE Cut(d.ivi, m)
           /\ Lies(c, m) = IF m = n /\ There(d.ivi, n) THEN rects.dest ELSE Lies(d.ivi, m)
  BY <1>2, <1>3, PlaceFacts
<1>. HIDE DEF c
<1>7. p \in Displays /\ p.ivi = c /\ p.setting = d.setting /\ Untold(d, p)  BY <1>6, WithIvi
<1>. HIDE DEF p
<1>8. /\ q \in Displays /\ q.setting = p.setting /\ Untold(p, q)
      /\ SameFlags(c, q.ivi) /\ SamePlaced(c, q.ivi)
      /\ \A m \in Names : Shown(q.ivi, m) <=> IF m = n /\ There(c, n) THEN shown ELSE Shown(c, m)
  BY <1>2, <1>4, <1>7, ShowStep
<1>. HIDE DEF q
<1>9. /\ k \in Displays /\ k.setting = q.setting /\ Untold(q, k) /\ Committed(k.ivi)
      /\ SameFlags(q.ivi, k.ivi) /\ SameShown(q.ivi, k.ivi) /\ SamePlaced(q.ivi, k.ivi)
  BY <1>8, CommitStep
<1>. HIDE DEF k
<1>10. k.behind = d.behind /\ Published(d, k)  BY <1>7, <1>8, <1>9 DEF Untold, Published
<1>11. k.behind \cup marks \in SUBSET Marks  BY <1>5, <1>9, FieldsOfDisplay
<1>12. /\ e \in Displays /\ e.setting = k.setting /\ e.ivi = k.ivi /\ Published(k, e)
       /\ e.behind = k.behind \cup marks
  BY <1>1, <1>9, <1>11, WithBehind
<1>13. Published(d, e) /\ SameFlags(d.ivi, e.ivi)
  BY <1>6, <1>8, <1>9, <1>10, <1>12, PublishedFacts, SameFacts
<1>14. There(c, n)  BY <1>2, <1>6 DEF Present, SameFlags
<1>15. \A m \in Names : m # n => Cut(e.ivi, m) = Cut(d.ivi, m) /\ Lies(e.ivi, m) = Lies(d.ivi, m)
  BY <1>6, <1>8, <1>9, <1>12 DEF SamePlaced
<1>16. \A m \in Names : Shown(e.ivi, m) <=> IF m = n THEN shown ELSE Shown(d.ivi, m)
  BY <1>6, <1>8, <1>9, <1>12, <1>14 DEF SameShown
<1>17. e.behind = d.behind \cup marks  BY <1>10, <1>12
<1>. QED  BY <1>2, <1>5, <1>7, <1>8, <1>9, <1>12, <1>13, <1>15, <1>16, <1>17 DEF e, shown

\* The size of a path's surface: what its settings and its surface are made of it.
LEMMA ConfigureStep ==
  ASSUME OutputOK, NEW d \in Displays, NEW a \in Here, NEW r \in Sizes, HasArea(r),
         NEW vis \in BOOLEAN, NEW show \in BOOLEAN, Present(d.ivi)
  PROVE  LET e == ConfigureAs(d, a, r, vis, show)
             first == ~Out(d.setting, a).set
             moves == first /\ output \in {"camera", "ic"}
         IN /\ e \in Displays /\ Published(d, e)
            /\ SameFlags(d.ivi, e.ivi) /\ Committed(e.ivi)
            /\ \A b \in Here : b # a => SameSizes(d.setting, e.setting, b)
            /\ \A b \in Here : /\ Opaque(e.setting, b) <=> Opaque(d.setting, b)
                               /\ Vis(e.setting, b) <=> IF b = a THEN vis ELSE Vis(d.setting, b)
            /\ Orig(e.setting, a) = Orig(d.setting, a) \/ Orig(e.setting, a).rect = r
            /\ Orig(d.setting, a).set => Orig(e.setting, a) = Orig(d.setting, a)
            /\ Out(e.setting, a).set /\ (Out(d.setting, a).set => Out(e.setting, a) = Out(d.setting, a))
            /\ Clip(e.setting, a) = Clip(d.setting, a)
            /\ ClipOn(e.setting, a) <=> ClipOn(d.setting, a)
            /\ WideOf(e.setting, a) = WideOf(d.setting, a)
            /\ There(d.ivi, Surf(a)) =>
                 [src |-> Cut(e.ivi, Surf(a)), dest |-> Lies(e.ivi, Surf(a))] \in PicturesOf(e.setting, a)
            /\ \A m \in Names : m # Surf(a) => (Shown(e.ivi, m) <=> Shown(d.ivi, m))
            /\ Shown(e.ivi, Surf(a)) <=>
                 IF show /\ There(d.ivi, Surf(a)) THEN vis ELSE Shown(d.ivi, Surf(a))
            /\ \A m \in Paths : m # Surf(a) => Cut(e.ivi, m) = Cut(d.ivi, m) /\ Lies(e.ivi, m) = Lies(d.ivi, m)
            /\ ~moves => \A n \in Own : Lies(e.ivi, n) = Lies(d.ivi, n)
            /\ moves => Lies(e.ivi, GetBlinderID("mute")) = Blind(e.setting, a)
            /\ e.behind = (d.behind \ {"rect"})
                 \cup (IF (moves /\ a # d.path) \/ (output = "camera" /\ ~first) THEN {"place"} ELSE {})
                 \cup (IF output = "camera" /\ first THEN {"out"} ELSE {})
                 \cup (IF a = d.path /\ Initial[a] = "visible" /\ ~Vis(d.setting, a)
                       THEN {"visible", "bg"} ELSE {})
<1>. DEFINE first == ~Out(d.setting, a).set
            moves == first /\ output \in {"camera", "ic"}
            t1 == SetVideoInputOriginalSize(d.setting, Id(a), r)
            dest == IF Out(d.setting, a).set THEN Out(d.setting, a).rect
                    ELSE IF output = "camera" /\ GetScreenSize THEN Screen ELSE r
            t2 == IF first THEN SetVideoOutputSize(t1, Id(a), dest) ELSE t1
            s == [d EXCEPT !.setting = t2]
            placed == IF moves THEN PlaceBlinders(s, {"mute"}, a) ELSE s
            src == IF ClipOn(d.setting, a) THEN Clip(d.setting, a).rect ELSE r
            rects == InWideMode(WideOf(d.setting, a), output, src, dest)
            n == Surf(a)
            c == Place(placed.ivi, n, rects)
            k == IF show THEN Ivi!SetSurfaceVisibility(c, n, vis) ELSE c
            l == Ivi!CommitChanges(k)
            t3 == SetVideoVisibility(t2, Id(a), vis)
            marks == (d.behind \ {"rect"})
                 \cup (IF (moves /\ a # d.path) \/ (output = "camera" /\ ~first) THEN {"place"} ELSE {})
                 \cup (IF output = "camera" /\ first THEN {"out"} ELSE {})
                 \cup (IF a = d.path /\ Initial[a] = "visible" /\ ~Vis(d.setting, a)
                       THEN {"visible", "bg"} ELSE {})
            e == ConfigureAs(d, a, r, vis, show)
<1>1. d.setting \in Settings /\ d.ivi \in Compositors /\ d.behind \in SUBSET Marks  BY FieldsOfDisplay
<1>2. r \in Rectangle /\ Screen \in Rectangle /\ r \in Sizes \ {NoRect}
  <2>1. ~HasArea(NoRect)  BY DEF HasArea, NoRect, Rect
  <2>. QED  BY <2>1, LayoutAssumption DEF LayoutAssumption
<1>3. /\ t1 \in Settings /\ SameSeen(d.setting, t1)
      /\ \A b \in Here : b # a => SameSizes(d.setting, t1, b)
      /\ Orig(t1, a) = Orig(d.setting, a) \/ Orig(t1, a).rect = r
      /\ Orig(d.setting, a).set => Orig(t1, a) = Orig(d.setting, a)
      /\ Out(t1, a) = Out(d.setting, a) /\ Clip(t1, a) = Clip(d.setting, a)
      /\ (ClipOn(t1, a) <=> ClipOn(d.setting, a))
      /\ WideOf(t1, a) = WideOf(d.setting, a)
  BY <1>1, <1>2, SetOriginalFacts
<1>4. dest \in Rectangle
  <2>1. Out(d.setting, a) \in GivenRectangle  BY <1>1, FieldTypes
  <2>. QED  BY <1>2, <2>1 DEF GivenRectangle
<1>5. /\ t2 \in Settings /\ SameSeen(d.setting, t2)
      /\ \A b \in Here : b # a => SameSizes(d.setting, t2, b)
      /\ Orig(t2, a) = Orig(t1, a) /\ Out(t2, a).set /\ Out(t2, a).rect = dest
      /\ ~first => Out(t2, a) = Out(d.setting, a)
      /\ Clip(t2, a) = Clip(d.setting, a) /\ (ClipOn(t2, a) <=> ClipOn(d.setting, a))
      /\ WideOf(t2, a) = WideOf(d.setting, a)
  <2>1. CASE first
    <3>1. t2 = SetVideoOutputSize(t1, Id(a), dest)  BY <2>1
    <3>. HIDE DEF t1, t2, dest
    <3>2. /\ t2 \in Settings /\ SameSeen(t1, t2)
          /\ \A b \in Here : b # a => SameSizes(t1, t2, b)
          /\ Out(t2, a).set /\ Out(t2, a).rect = dest
          /\ Orig(t2, a) = Orig(t1, a) /\ Clip(t2, a) = Clip(t1, a) /\ (ClipOn(t2, a) <=> ClipOn(t1, a))
          /\ WideOf(t2, a) = WideOf(t1, a)
      BY <1>3, <1>4, <3>1, SetOutputFacts
    <3>3. SameSeen(d.setting, t2)  BY <1>3, <3>2, SameFacts
    <3>4. ASSUME NEW b \in Here, b # a  PROVE SameSizes(d.setting, t2, b)
      <4>1. SameSizes(d.setting, t1, b) /\ SameSizes(t1, t2, b)  BY <1>3, <3>2, <3>4
      <4>. QED  BY <4>1, SameFacts
    <3>. QED  BY <1>3, <2>1, <3>2, <3>3, <3>4
  <2>2. CASE ~first
    <3>1. t2 = t1 /\ dest = Out(d.setting, a).rect  BY <2>2
    <3>. HIDE DEF t1, t2, dest
    <3>. QED  BY <1>3, <2>2, <3>1
  <2>. QED  BY <2>1, <2>2
<1>6. /\ GetVideoOutputSize(t1, Id(a)) = Out(d.setting, a)
      /\ GetVideoOutputSize(t2, Id(a)) = Out(t2, a)
  BY <1>3 DEF GetVideoOutputSize, Out
<1>. HIDE DEF dest
<1>7. s \in Displays /\ s.setting = t2 /\ s.ivi = d.ivi /\ Untold(d, s)  BY <1>5, WithSetting
<1>8. /\ [d EXCEPT !.setting = t1].setting = t1
      /\ s = IF first THEN [[d EXCEPT !.setting = t1] EXCEPT !.setting = t2]
             ELSE [d EXCEPT !.setting = t1]
  BY DEF Displays
<1>. HIDE DEF t1
<1>9. /\ placed \in Displays /\ placed.setting = t2 /\ Untold(s, placed)
      /\ SameFlags(d.ivi, placed.ivi) /\ SameShown(d.ivi, placed.ivi)
      /\ moves => Lies(placed.ivi, GetBlinderID("mute")) = Blind(t2, a)
      /\ ~moves => placed.ivi = d.ivi
      /\ \A m \in Paths : Cut(placed.ivi, m) = Cut(d.ivi, m) /\ Lies(placed.ivi, m) = Lies(d.ivi, m)
  <2>1. CASE moves
    <3>1. placed = PlaceBlinders(s, {"mute"}, a)  BY <2>1
    <3>2. {"mute"} \in SUBSET Blinders(output) /\ There(s.ivi, GetBlinderID("mute"))
      BY <1>7, OwnFacts, NameFacts DEF Present
    <3>. HIDE DEF placed, s, moves
    <3>3. /\ placed \in Displays /\ placed.setting = s.setting /\ Untold(s, placed)
          /\ SameFlags(s.ivi, placed.ivi) /\ SameShown(s.ivi, placed.ivi)
          /\ \A m \in Names : Cut(placed.ivi, m) = Cut(s.ivi, m)
          /\ \A m \in Names : m \notin Own => Lies(placed.ivi, m) = Lies(s.ivi, m)
          /\ \A kind \in {"mute"} : There(s.ivi, GetBlinderID(kind)) =>
               Lies(placed.ivi, GetBlinderID(kind)) = Blind(s.setting, a)
      BY <1>7, <3>1, <3>2, PlaceBlindersStep
    <3>4. \A m \in Paths : m \in Names /\ m \notin Own  BY NameFacts
    <3>. QED  BY <1>7, <2>1, <3>2, <3>3, <3>4
  <2>2. CASE ~moves
    <3>1. placed = s /\ Untold(s, s)  BY <2>2 DEF Untold, Published
    <3>. HIDE DEF placed, s, moves
    <3>. QED  BY <1>7, <2>2, <3>1, SameFacts
  <2>. QED  BY <2>1, <2>2
<1>10. e = [placed EXCEPT !.setting = t3, !.ivi = l, !.behind = marks]
  <2>. DEFINE known  == [d EXCEPT !.setting = SetVideoInputOriginalSize(@, Id(a), r)]
              xout   == GetVideoOutputSize(known.setting, Id(a))
              xdest  == IF xout.set THEN xout.rect
                        ELSE IF output = "camera" /\ GetScreenSize THEN Screen ELSE r
              xfirst == ~xout.set
              xmoves == xfirst /\ output \in {"camera", "ic"}
              sized  == IF xfirst THEN [known EXCEPT !.setting = SetVideoOutputSize(@, Id(a), xdest)]
                        ELSE known
              xplaced == IF xmoves THEN SetVideoBlindSurfaceRectangle(sized, "mute", a) ELSE sized
              xsrc   == IF d.setting[Id(a)].clipOn THEN GetSourceRectangleCommon(xplaced, a) ELSE r
              xn     == GetSurfaceIdFromVideoPath(a)
              xrects == GetVideoWideRectangle(xplaced.setting, Id(a), xsrc, xdest)
              xc     == Place(xplaced.ivi, xn, xrects)
  <2>1. e = [xplaced EXCEPT
               !.setting = SetVideoVisibility(@, Id(a), vis),
               !.ivi = Ivi!CommitChanges(IF show THEN Ivi!SetSurfaceVisibility(xc, xn, vis) ELSE xc),
               !.behind = (@ \ {"rect"}) \cup (IF (xmoves /\ a # d.path) \/ (output = "camera" /\ ~xfirst)
                                             THEN {"place"} ELSE {})
                                         \cup (IF output = "camera" /\ xfirst THEN {"out"} ELSE {})
                                         \cup (IF a = d.path /\ Initial[a] = "visible"
                                                 /\ ~GetVideoVisibility(d.setting, Id(a))
                                              THEN {"visible", "bg"} ELSE {})]
    BY DEF ConfigureAs
  <2>2. known = [d EXCEPT !.setting = t1] /\ known.setting = t1  BY <1>8 DEF t1, Displays
  <2>. HIDE DEF known
  <2>3. xout = Out(d.setting, a)  BY <1>6, <2>2
  <2>. HIDE DEF xout
  <2>4. xdest = dest /\ (xfirst <=> first)  BY <2>3 DEF dest
  <2>5. xmoves <=> moves  BY <2>4
  <2>. HIDE DEF xdest, xfirst, xmoves
  <2>6. sized = s
    <3>1. CASE first
      <4>1. t2 = SetVideoOutputSize(t1, Id(a), dest)  BY <3>1
      <4>2. sized = [known EXCEPT !.setting = t2]  BY <2>2, <2>4, <3>1, <4>1
      <4>. HIDE DEF t2, s, sized
      <4>. QED  BY <1>8, <2>2, <3>1, <4>2
    <3>2. CASE ~first  BY <1>8, <2>2, <2>4, <3>2
    <3>. QED  BY <3>1, <3>2
  <2>. HIDE DEF sized, s
  <2>7. xplaced = placed  BY <2>5, <2>6 DEF SetVideoBlindSurfaceRectangle
  <2>. HIDE DEF xplaced, placed
  <2>8. xsrc = src
    <3>1. GetSourceRectangleCommon(placed, a) = Source(t2, a)  BY <1>9, RectangleFacts
    <3>2. ClipOn(d.setting, a) => Source(t2, a) = Clip(d.setting, a).rect  BY <1>5 DEF Source
    <3>. HIDE DEF t2
    <3>. QED  BY <2>7, <3>1, <3>2 DEF ClipOn
  <2>. HIDE DEF xsrc, src
  <2>9. xrects = rects
    <3>1. Id(a)[2] = output  BY DEF Id, GetVideoPathIdentifier
    <3>2. placed.setting[Id(a)].wide = WideOf(d.setting, a)  BY <1>5, <1>9 DEF WideOf
    <3>. QED  BY <2>4, <2>7, <2>8, <3>1, <3>2 DEF GetVideoWideRectangle
  <2>. HIDE DEF xrects, rects
  <2>10. xn = n  BY DEF Surf
  <2>11. xc = c  BY <2>7, <2>9, <2>10
  <2>. HIDE DEF xc, xn, n, c
  <2>12. Ivi!CommitChanges(IF show THEN Ivi!SetSurfaceVisibility(xc, xn, vis) ELSE xc) = l
    BY <2>10, <2>11
  <2>13. placed.behind = d.behind /\ placed.setting = t2  BY <1>7, <1>9 DEF Untold
  <2>14. GetVideoVisibility(d.setting, Id(a)) <=> Vis(d.setting, a)  BY DEF GetVideoVisibility, Vis
  <2>15. (placed.behind \ {"rect"})
             \cup (IF (xmoves /\ a # d.path) \/ (output = "camera" /\ ~xfirst) THEN {"place"} ELSE {})
             \cup (IF output = "camera" /\ xfirst THEN {"out"} ELSE {})
             \cup (IF a = d.path /\ Initial[a] = "visible" /\ ~GetVideoVisibility(d.setting, Id(a))
                   THEN {"visible", "bg"} ELSE {}) = marks
    <3>. HIDE DEF first, moves
    <3>. QED  BY <2>4, <2>5, <2>13, <2>14
  <2>. HIDE DEF l, marks, t2, first, moves, e
  <2>. QED  BY <2>1, <2>7, <2>12, <2>13, <2>15
<1>11. rects \in Picture
  <2>1. WideOf(d.setting, a) \in WideModes /\ Clip(d.setting, a) \in GivenRectangle  BY <1>1, FieldTypes
  <2>2. src \in Rectangle  BY <1>2, <2>1 DEF GivenRectangle
  <2>. QED  BY <1>4, <2>1, <2>2, WideType
<1>12. rects \in PicturesOf(t2, a)
  <2>1. CASE ClipOn(d.setting, a)  BY <1>5, <2>1 DEF PicturesOf
  <2>2. CASE ~ClipOn(d.setting, a)  BY <1>2, <1>5, <2>2 DEF PicturesOf
  <2>. QED  BY <2>1, <2>2
<1>13. n \in Names /\ n \notin Own /\ \A m \in Own : m \in Names  BY NameFacts
<1>. HIDE DEF first, moves, t2, s, placed, src, rects, n, e
<1>14. placed.ivi \in Compositors  BY <1>9, FieldsOfDisplay
<1>15. /\ c \in Compositors /\ SameFlags(placed.ivi, c) /\ SameShown(placed.ivi, c)
       /\ \A m \in Names :
            /\ Cut(c, m) = IF m = n /\ There(placed.ivi, n) THEN rects.src ELSE Cut(placed.ivi, m)
            /\ Lies(c, m) = IF m = n /\ There(placed.ivi, n) THEN rects.dest ELSE Lies(placed.ivi, m)
  BY <1>11, <1>13, <1>14, PlaceFacts
<1>. HIDE DEF c
<1>16. /\ k \in Compositors /\ SameFlags(c, k) /\ SamePlaced(c, k)
       /\ \A m \in Names : Shown(k, m) <=> IF m = n /\ show /\ There(c, n) THEN vis ELSE Shown(c, m)
  <2>1. CASE show
    <3>1. k = Ivi!SetSurfaceVisibility(c, n, vis)  BY <2>1
    <3>. HIDE DEF k
    <3>. QED  BY <1>13, <1>15, <2>1, <3>1, VisibilityFacts
  <2>2. CASE ~show
    <3>1. k = c  BY <2>2
    <3>. HIDE DEF k
    <3>. QED  BY <1>15, <2>2, <3>1, SameFacts
  <2>. QED  BY <2>1, <2>2
<1>. HIDE DEF k
<1>17. /\ l \in Compositors /\ SameFlags(k, l) /\ SameShown(k, l) /\ SamePlaced(k, l) /\ Committed(l)
  BY <1>16, CommitFacts
<1>. HIDE DEF l
<1>18. /\ t3 \in Settings
       /\ \A b \in Here : /\ SameSizes(t2, t3, b) /\ (Opaque(t3, b) <=> Opaque(t2, b))
                          /\ Vis(t3, b) <=> IF b = a THEN vis ELSE Vis(t2, b)
  BY <1>5, SetVisibilityFacts
<1>. HIDE DEF t3
<1>19. marks \in SUBSET Marks  BY <1>1 DEF Marks
<1>20. /\ e \in Displays /\ e.setting = t3 /\ e.ivi = l /\ e.behind = marks /\ Published(placed, e)
  <2>. HIDE DEF marks
  <2>. QED  BY <1>9, <1>10, <1>17, <1>18, <1>19 DEF Displays, Published
<1>21. Published(d, e)  BY <1>7, <1>9, <1>20, PublishedFacts DEF Untold
<1>22. SameFlags(d.ivi, l)  BY <1>9, <1>15, <1>16, <1>17, SameFacts
<1>23. There(d.ivi, n) <=> There(placed.ivi, n)  BY <1>9, <1>13 DEF SameFlags
<1>24. There(d.ivi, n) <=> There(c, n)  BY <1>13, <1>15, <1>23 DEF SameFlags
<1>25. \A m \in Names : Cut(l, m) = Cut(c, m) /\ Lies(l, m) = Lies(c, m)
  BY <1>16, <1>17 DEF SamePlaced
<1>26. There(d.ivi, n) => [src |-> Cut(l, n), dest |-> Lies(l, n)] = rects
  <2>1. There(d.ivi, n) => Cut(l, n) = rects.src /\ Lies(l, n) = rects.dest
    BY <1>13, <1>15, <1>23, <1>25
  <2>2. rects = [src |-> rects.src, dest |-> rects.dest]  BY <1>11 DEF Picture
  <2>. QED  BY <2>1, <2>2
<1>27. PicturesOf(t3, a) = PicturesOf(t2, a) /\ Blind(t3, a) = Blind(t2, a)  BY <1>18, SameSizesFacts
<1>28. /\ ~moves => \A m \in Own : Lies(l, m) = Lies(d.ivi, m)
       /\ moves => Lies(l, GetBlinderID("mute")) = Blind(t3, a)
  <2>1. \A m \in Own : Lies(l, m) = Lies(placed.ivi, m)  BY <1>13, <1>15, <1>25
  <2>2. GetBlinderID("mute") \in Own  BY OwnFacts
  <2>. QED  BY <1>9, <1>27, <2>1, <2>2
<1>29. \A m \in Names : Shown(l, m) <=> IF m = n /\ show /\ There(d.ivi, n) THEN vis ELSE Shown(d.ivi, m)
  BY <1>9, <1>15, <1>16, <1>17, <1>24 DEF SameShown
<1>30. \A b \in Here : /\ Opaque(t3, b) <=> Opaque(d.setting, b)
                       /\ Vis(t3, b) <=> IF b = a THEN vis ELSE Vis(d.setting, b)
  BY <1>5, <1>18 DEF SameSeen
<1>31. \A b \in Here : b # a => SameSizes(d.setting, t3, b)
  <2>1. ASSUME NEW b \in Here, b # a  PROVE SameSizes(d.setting, t3, b)
    <3>1. SameSizes(d.setting, t2, b) /\ SameSizes(t2, t3, b)  BY <1>5, <1>18, <2>1
    <3>. QED  BY <3>1, SameFacts
  <2>. QED  BY <2>1
<1>32. SameSizes(t2, t3, a)  BY <1>18
<1>33. /\ Orig(t3, a) = Orig(d.setting, a) \/ Orig(t3, a).rect = r
       /\ Orig(d.setting, a).set => Orig(t3, a) = Orig(d.setting, a)
       /\ Out(t3, a).set /\ (Out(d.setting, a).set => Out(t3, a) = Out(d.setting, a))
       /\ Clip(t3, a) = Clip(d.setting, a) /\ (ClipOn(t3, a) <=> ClipOn(d.setting, a))
       /\ WideOf(t3, a) = WideOf(d.setting, a)
  BY <1>3, <1>5, <1>32 DEF SameSizes, first
<1>34. There(d.ivi, n) => [src |-> Cut(l, n), dest |-> Lies(l, n)] \in PicturesOf(t3, a)
  BY <1>12, <1>26, <1>27
<1>35. \A m \in Paths : m # n => Cut(l, m) = Cut(d.ivi, m) /\ Lies(l, m) = Lies(d.ivi, m)
  BY <1>9, <1>15, <1>25 DEF Names
<1>. HIDE DEF marks
<1>. QED  BY <1>13, <1>17, <1>20, <1>21, <1>22, <1>28, <1>29, <1>30, <1>31, <1>33, <1>34, <1>35
          DEF e, n, marks, moves, first

-----------------------------------------------------------------------------
(* The layers                                                              *)

Ordered(f) == \A i, j \in DOMAIN f.ids : i < j => f.order[f.ids[i]] <= f.order[f.ids[j]]

\* The rank of an element is one of the positions, no two have the same, and so each
\* position has an element.
LEMMA SortedFacts ==
  ASSUME NEW ids \in Seq(DOMAIN Order), NEW order \in [DOMAIN Order -> Int]
  PROVE  /\ Sorted(ids, order) \in Seq(DOMAIN Order)
         /\ Len(Sorted(ids, order)) = Len(ids)
         /\ Ordered([ids |-> Sorted(ids, order), order |-> order])
<1>. DEFINE N == Len(ids)
            D == DOMAIN ids
            before(i, j) == \/ order[ids[i]] < order[ids[j]]
                            \/ order[ids[i]] = order[ids[j]] /\ i < j
            below(i) == {j \in D : before(j, i)}
            place(i) == Cardinality(below(i)) + 1
            at(p) == CHOOSE i \in D : place(i) = p
            s == Sorted(ids, order)
<1>1. s = [p \in D |-> ids[at(p)]]  BY DEF Sorted
<1>2. N \in Nat /\ D = 1 .. N /\ \A i \in D : ids[i] \in DOMAIN Order /\ order[ids[i]] \in Int
  OBVIOUS
<1>3. IsFiniteSet(D) /\ Cardinality(D) = N  BY <1>2, FS_Interval
<1>4. /\ \A i \in D : ~before(i, i)
      /\ \A i, j, k \in D : before(i, j) /\ before(j, k) => before(i, k)
      /\ \A i, j \in D : i # j => before(i, j) \/ before(j, i)
      /\ \A i, j \in D : before(i, j) => order[ids[i]] <= order[ids[j]]
  <2>1. \A i \in D : i \in Int  BY <1>2
  <2>2. ASSUME NEW i \in D, NEW j \in D, NEW k \in D
        PROVE  /\ ~before(i, i) /\ (before(i, j) /\ before(j, k) => before(i, k))
               /\ i # j => before(i, j) \/ before(j, i)
               /\ before(i, j) => order[ids[i]] <= order[ids[j]]
    <3>. DEFINE x == order[ids[i]]
                y == order[ids[j]]
                z == order[ids[k]]
    <3>1. x \in Int /\ y \in Int /\ z \in Int /\ i \in Int /\ j \in Int /\ k \in Int  BY <1>2, <2>1
    <3>2. /\ before(i, j) <=> x < y \/ (x = y /\ i < j)
          /\ before(j, k) <=> y < z \/ (y = z /\ j < k)
          /\ before(i, k) <=> x < z \/ (x = z /\ i < k)
          /\ before(j, i) <=> y < x \/ (y = x /\ j < i)
          /\ before(i, i) <=> x < x \/ (x = x /\ i < i)
      OBVIOUS
    <3>3. before(i, j) => x <= y  BY <3>1, <3>2
    <3>. HIDE DEF before, x, y, z
    <3>4. ~before(i, i) /\ (before(i, j) /\ before(j, k) => before(i, k))  BY <3>1, <3>2
    <3>5. i # j => before(i, j) \/ before(j, i)  BY <3>1, <3>2
    <3>. QED  BY <3>3, <3>4, <3>5 DEF x, y
  <2>. QED  BY <2>2
<1>. HIDE DEF before, s
<1>5. ASSUME NEW i \in D
      PROVE  /\ IsFiniteSet(below(i)) /\ Cardinality(below(i)) \in Nat
             /\ Cardinality(below(i)) < N /\ i \notin below(i)
  <2>1. below(i) \in SUBSET D /\ below(i) # D /\ i \notin below(i)  BY <1>4
  <2>. HIDE DEF below
  <2>2. /\ IsFiniteSet(below(i)) /\ Cardinality(below(i)) <= Cardinality(D)
        /\ Cardinality(below(i)) # Cardinality(D)
    BY <1>3, <2>1, FS_Subset
  <2>3. Cardinality(below(i)) \in Nat  BY <2>2, FS_CardinalityType
  <2>. QED  BY <1>2, <1>3, <2>1, <2>2, <2>3
<1>6. ASSUME NEW i \in D, NEW j \in D, before(i, j)  PROVE place(i) < place(j)
  <2>1. below(i) \in SUBSET below(j) /\ i \in below(j) /\ i \notin below(i)  BY <1>4, <1>6
  <2>2. IsFiniteSet(below(j)) /\ Cardinality(below(i)) \in Nat /\ Cardinality(below(j)) \in Nat  BY <1>5
  <2>. HIDE DEF below
  <2>3. /\ Cardinality(below(i)) <= Cardinality(below(j))
        /\ Cardinality(below(i)) # Cardinality(below(j))
    BY <2>1, <2>2, FS_Subset
  <2>. QED  BY <2>2, <2>3
<1>7. \A i \in D : place(i) \in 1 .. N
  <2>1. ASSUME NEW i \in D  PROVE place(i) \in 1 .. N
    <3>1. Cardinality(below(i)) \in Nat /\ Cardinality(below(i)) < N  BY <1>5
    <3>. HIDE DEF below
    <3>. QED  BY <1>2, <3>1
  <2>. QED  BY <2>1
<1>. HIDE DEF place, below
<1>8. \A p \in D : at(p) \in D /\ place(at(p)) = p
  <2>. DEFINE f == [i \in D |-> place(i)]
  <2>1. f \in [D -> D]  BY <1>2, <1>7
  <2>2. \A i, j \in D : i # j => place(i) # place(j)
    <3>1. ASSUME NEW i \in D, NEW j \in D, i # j  PROVE place(i) # place(j)
      <4>1. place(i) < place(j) \/ place(j) < place(i)  BY <1>4, <1>6, <3>1
      <4>2. place(i) \in Int /\ place(j) \in Int  BY <1>7
      <4>. QED  BY <4>1, <4>2
    <3>. QED  BY <3>1
  <2>3. f \in Injection(D, D)  BY <2>1, <2>2 DEF Injection, IsInjective
  <2>. HIDE DEF f
  <2>4. f \in Surjection(D, D)  BY <1>3, <2>3, FS_Injection
  <2>5. \A p \in D : \E i \in D : f[i] = p  BY <2>4 DEF Surjection
  <2>6. \A i \in D : f[i] = place(i)  BY DEF f
  <2>7. ASSUME NEW p \in D  PROVE at(p) \in D /\ place(at(p)) = p
    <3>1. PICK i \in D : place(i) = p  BY <2>5, <2>6
    <3>. QED  BY <3>1, Zenon
  <2>. QED  BY <2>7
<1>. HIDE DEF at
<1>9. s \in [1 .. N -> DOMAIN Order]  BY <1>1, <1>2, <1>8
<1>10. s \in Seq(DOMAIN Order) /\ Len(s) = N  BY <1>2, <1>9
<1>11. ASSUME NEW p \in D, NEW q \in D, p < q  PROVE order[s[p]] <= order[s[q]]
  <2>1. at(p) \in D /\ at(q) \in D /\ place(at(p)) = p /\ place(at(q)) = q  BY <1>8
  <2>2. ~before(at(q), at(p))
    <3>1. before(at(q), at(p)) => q < p  BY <1>6, <2>1
    <3>. QED  BY <1>2, <1>11, <3>1
  <2>3. at(p) # at(q)
    <3>1. p # q  BY <1>2, <1>11
    <3>. QED  BY <2>1, <3>1
  <2>4. before(at(p), at(q))  BY <1>4, <2>1, <2>2, <2>3
  <2>5. order[ids[at(p)]] <= order[ids[at(q)]]  BY <1>4, <2>1, <2>4
  <2>. QED  BY <1>1, <2>5
<1>12. Ordered([ids |-> s, order |-> order])  BY <1>2, <1>9, <1>11 DEF Ordered
<1>. QED  BY <1>10, <1>12 DEF s

-----------------------------------------------------------------------------
(* The invariant, of the record a handler works on                         *)

Base(d) == d \in Displays /\ Committed(d.ivi) /\ Present(d.ivi)

\* What is shown, and what is told of it.  The surface of another path is hidden unless
\* the layout file shows it; the current path's, once settled, is shown as asked.
OthersHidden(d) ==
  \A a \in Here : Shown(d.ivi, Surf(a)) /\ Initial[a] = "invisible" => a = d.path
ShownAsAsked(d) ==
  d.path # "" =>
    /\ Shown(d.ivi, Surf(d.path)) => Vis(d.setting, d.path)
    /\ Heard(d.ivi, Surf(d.path)) /\ Orig(d.setting, d.path).set /\ Vis(d.setting, d.path) =>
         Shown(d.ivi, Surf(d.path))
BackgroundBehind(d) ==
  HasBackground /\ "bg" \notin d.behind =>
    (Shown(d.ivi, GetBlinderID("bg")) <=>
       d.path # "" /\ Vis(d.setting, d.path) /\ Opaque(d.setting, d.path))
NoMuteWithoutPath(d) == HasWide /\ d.path = "" => ~Shown(d.ivi, GetBlinderID("mute"))
VisibilityTold(d) ==
  d.path # "" /\ "visible" \notin d.behind /\ output # "camera" =>
    (d.sts.visible <=> Vis(d.setting, d.path)) /\ (d.ctl.visible <=> Vis(d.setting, d.path))
OpacityTold(d) ==
  d.path # "" /\ "opacity" \notin d.behind /\ output # "camera" =>
    (d.sts.opaque <=> Opaque(d.setting, d.path))
MuteTold(d) ==
  HasWide /\ "muted" \notin d.behind => (d.sts.mute <=> Shown(d.ivi, GetBlinderID("mute")))

Sight(d) ==
  /\ OthersHidden(d) /\ ShownAsAsked(d) /\ BackgroundBehind(d) /\ NoMuteWithoutPath(d)
  /\ VisibilityTold(d) /\ OpacityTold(d) /\ MuteTold(d)

\* Where the video and its covers lie, and what is told of it.  A path whose size is
\* known has an output rectangle, and so has the current one if the covers follow it.
VideoPlaced(d) ==
  \A a \in Here :
    (a = d.path \/ output = "camera") /\ Heard(d.ivi, Surf(a)) /\ Orig(d.setting, a).set
      /\ (output = "camera" => "rect" \notin d.behind) =>
      [src |-> Cut(d.ivi, Surf(a)), dest |-> Lies(d.ivi, Surf(a))] \in PicturesOf(d.setting, a)
SizesGiven(d) ==
  \A a \in Here : Orig(d.setting, a).set =>
    Out(d.setting, a).set /\ Orig(d.setting, a).rect \in Sizes \ {NoRect}
OutputGiven(d) ==
  d.path # "" /\ output # "camera" /\ ~("place" \in d.behind /\ "out" \in d.behind) =>
    Out(d.setting, d.path).set
CoversPlaced(d) ==
  d.path # "" /\ "place" \notin d.behind =>
    \A kind \in Followers : Lies(d.ivi, GetBlinderID(kind)) = Blind(d.setting, d.path)
ClippingTold(d) ==
  d.path # "" /\ HasClipping /\ "clip" \notin d.behind => (d.sts.clipOn <=> ClipOn(d.setting, d.path))
OutputTold(d) == d.path # "" /\ "out" \notin d.behind => d.sts.out = Dest(d.setting, d.path)
WideTold(d) == d.path # "" /\ HasWide => d.sts.wide = WideOf(d.setting, d.path)

Geometry(d) ==
  /\ VideoPlaced(d) /\ SizesGiven(d) /\ OutputGiven(d) /\ CoversPlaced(d)
  /\ ClippingTold(d) /\ OutputTold(d) /\ WideTold(d)

Whole(d) == Base(d) /\ Sight(d) /\ Geometry(d)

\* A change that leaves the one or the other alone, and one that tells nothing of the
\* paths there are and of the layers.
Keeps(d, e, marks) == \A m \in marks : m \in d.behind => m \in e.behind
SameSight(d, e) ==
  /\ e.path = d.path /\ SameShown(d.ivi, e.ivi) /\ SameSeen(d.setting, e.setting)
  /\ \A a \in Here : Heard(e.ivi, Surf(a)) /\ Orig(e.setting, a).set =>
                       Heard(d.ivi, Surf(a)) /\ Orig(d.setting, a).set
  /\ Keeps(d, e, {"bg", "muted", "visible", "opacity"})
  /\ (e.sts.visible <=> d.sts.visible) /\ (e.ctl.visible <=> d.ctl.visible)
  /\ (e.sts.opaque <=> d.sts.opaque) /\ (e.sts.mute <=> d.sts.mute)
SameGeometry(d, e) ==
  /\ e.path = d.path /\ SamePlaced(d.ivi, e.ivi)
  /\ \A a \in Here : SameSizes(d.setting, e.setting, a)
  /\ \A a \in Here : Heard(e.ivi, Surf(a)) => Heard(d.ivi, Surf(a))
  /\ Keeps(d, e, {"rect", "place", "out", "clip"})
  /\ e.sts.out = d.sts.out /\ (e.sts.clipOn <=> d.sts.clipOn) /\ e.sts.wide = d.sts.wide
SameRest(d, e) ==
  /\ e.told = d.told /\ e.file = d.file /\ e.ivi.layers = d.ivi.layers
  /\ e.sts.display <=> d.sts.display
  /\ \A n \in Names : There(e.ivi, n) <=> There(d.ivi, n)

LEMMA SightFrame ==
  ASSUME OutputOK, NEW d \in Displays, NEW e, SameSight(d, e)
  PROVE  /\ OthersHidden(d) => OthersHidden(e)
         /\ ShownAsAsked(d) => ShownAsAsked(e)
         /\ BackgroundBehind(d) => BackgroundBehind(e)
         /\ NoMuteWithoutPath(d) => NoMuteWithoutPath(e)
         /\ VisibilityTold(d) => VisibilityTold(e)
         /\ OpacityTold(d) => OpacityTold(e)
         /\ MuteTold(d) => MuteTold(e)
         /\ Sight(d) => Sight(e)
<1>1. d.path \in Here \cup {""} /\ e.path = d.path  BY FieldsOfDisplay DEF SameSight
<1>2. /\ \A a \in Here : Surf(a) \in Names
      /\ GetBlinderID("mute") \in Names /\ (HasBackground => GetBlinderID("bg") \in Names)
  BY NameFacts, OwnFacts
<1>3. \A n \in Names : Shown(e.ivi, n) <=> Shown(d.ivi, n)  BY DEF SameSight, SameShown
<1>4. \A a \in Here : /\ Vis(e.setting, a) <=> Vis(d.setting, a)
                      /\ Opaque(e.setting, a) <=> Opaque(d.setting, a)
  BY DEF SameSight, SameSeen
<1>5. \A m \in {"bg", "muted", "visible", "opacity"} : m \in d.behind => m \in e.behind
  BY DEF SameSight, Keeps
<1>6. OthersHidden(d) => OthersHidden(e)  BY <1>1, <1>2, <1>3 DEF OthersHidden
<1>7. ShownAsAsked(d) => ShownAsAsked(e)
  BY <1>1, <1>2, <1>3, <1>4 DEF ShownAsAsked, SameSight
<1>8. BackgroundBehind(d) => BackgroundBehind(e)
  BY <1>1, <1>2, <1>3, <1>4, <1>5 DEF BackgroundBehind
<1>9. NoMuteWithoutPath(d) => NoMuteWithoutPath(e)
  BY <1>1, <1>2, <1>3 DEF NoMuteWithoutPath
<1>10. VisibilityTold(d) => VisibilityTold(e)
  BY <1>1, <1>4, <1>5 DEF VisibilityTold, SameSight
<1>11. OpacityTold(d) => OpacityTold(e)
  BY <1>1, <1>4, <1>5 DEF OpacityTold, SameSight
<1>12. MuteTold(d) => MuteTold(e)
  BY <1>2, <1>3, <1>5 DEF MuteTold, SameSight
<1>. QED  BY <1>6, <1>7, <1>8, <1>9, <1>10, <1>11, <1>12 DEF Sight

LEMMA GeometryFrame ==
  ASSUME OutputOK, NEW d \in Displays, NEW e, SameGeometry(d, e)
  PROVE  /\ VideoPlaced(d) => VideoPlaced(e)
         /\ SizesGiven(d) => SizesGiven(e)
         /\ OutputGiven(d) => OutputGiven(e)
         /\ CoversPlaced(d) => CoversPlaced(e)
         /\ ClippingTold(d) => ClippingTold(e)
         /\ OutputTold(d) => OutputTold(e)
         /\ WideTold(d) => WideTold(e)
         /\ Geometry(d) => Geometry(e)
<1>1. d.path \in Here \cup {""} /\ e.path = d.path  BY FieldsOfDisplay DEF SameGeometry
<1>2. /\ \A a \in Here : Surf(a) \in Names
      /\ \A kind \in Followers : GetBlinderID(kind) \in Names
  BY NameFacts, OwnFacts
<1>3. \A n \in Names : Cut(e.ivi, n) = Cut(d.ivi, n) /\ Lies(e.ivi, n) = Lies(d.ivi, n)
  BY DEF SameGeometry, SamePlaced
<1>4. \A a \in Here : /\ SameSizes(d.setting, e.setting, a)
                      /\ Orig(e.setting, a) = Orig(d.setting, a) /\ Out(e.setting, a) = Out(d.setting, a)
                      /\ ClipOn(e.setting, a) <=> ClipOn(d.setting, a)
                      /\ WideOf(e.setting, a) = WideOf(d.setting, a)
  BY DEF SameGeometry, SameSizes
<1>5. \A a \in Here : /\ Dest(e.setting, a) = Dest(d.setting, a)
                      /\ Blind(e.setting, a) = Blind(d.setting, a)
                      /\ PicturesOf(e.setting, a) = PicturesOf(d.setting, a)
  BY <1>4, SameSizesFacts
<1>6. \A m \in {"rect", "place", "out", "clip"} : m \in d.behind => m \in e.behind
  BY DEF SameGeometry, Keeps
<1>7. VideoPlaced(d) => VideoPlaced(e)
  BY <1>1, <1>2, <1>3, <1>4, <1>5, <1>6 DEF VideoPlaced, SameGeometry
<1>8. SizesGiven(d) => SizesGiven(e)  BY <1>4 DEF SizesGiven
<1>9. OutputGiven(d) => OutputGiven(e)  BY <1>1, <1>4, <1>6 DEF OutputGiven
<1>10. CoversPlaced(d) => CoversPlaced(e)  BY <1>1, <1>2, <1>3, <1>5, <1>6 DEF CoversPlaced
<1>11. ClippingTold(d) => ClippingTold(e)
  BY <1>1, <1>4, <1>6 DEF ClippingTold, SameGeometry
<1>12. OutputTold(d) => OutputTold(e)
  BY <1>1, <1>5, <1>6 DEF OutputTold, SameGeometry
<1>13. WideTold(d) => WideTold(e)
  BY <1>1, <1>4 DEF WideTold, SameGeometry
<1>. QED  BY <1>7, <1>8, <1>9, <1>10, <1>11, <1>12, <1>13 DEF Geometry

LEMMA PresentFrame ==
  ASSUME NEW c, NEW k, Present(c),
         \A n \in Names : /\ There(k, n) <=> There(c, n)
                          /\ Heard(k, n) \/ Pictured(k, n) => There(c, n)
                          /\ Shown(k, n) => There(c, n)
  PROVE  Present(k)
BY DEF Present

LEMMA RestFacts ==
  ASSUME NEW d, NEW e, NEW f
  PROVE  /\ SameRest(d, d)
         /\ SameRest(d, e) /\ SameRest(e, f) => SameRest(d, f)
BY DEF SameRest

-----------------------------------------------------------------------------
(* The steps of the handlers keep the invariant                            *)

LEMMA PlacedFacts ==
  ASSUME OutputOK, NEW t \in Settings, NEW a \in Here
  PROVE  /\ Out(t, a).set => Dest(t, a) = Out(t, a).rect
         /\ output # "camera" => Blind(t, a) = Dest(t, a)
         /\ Orig(t, a).set /\ Out(t, a).set /\ Orig(t, a).rect \in Sizes \ {NoRect} =>
              [src |-> Scaled(t, a).src, dest |-> Scaled(t, a).dest] \in PicturesOf(t, a)
<1>1. Out(t, a).set => Dest(t, a) = Out(t, a).rect  BY DEF Dest
<1>2. output # "camera" => Blind(t, a) = Dest(t, a)  BY DEF Blind
<1>3. ASSUME Orig(t, a).set, Out(t, a).set, Orig(t, a).rect \in Sizes \ {NoRect}
      PROVE  [src |-> Scaled(t, a).src, dest |-> Scaled(t, a).dest] \in PicturesOf(t, a)
  <2>1. Source(t, a) \in IF ClipOn(t, a) THEN {Clip(t, a).rect} ELSE Sizes \ {NoRect}
    BY <1>3 DEF Source
  <2>2. Scaled(t, a) = InWideMode(WideOf(t, a), output, Source(t, a), Out(t, a).rect)
    BY <1>1, <1>3 DEF Scaled
  <2>3. Scaled(t, a) \in PicturesOf(t, a)  BY <2>1, <2>2 DEF PicturesOf
  <2>4. Scaled(t, a) \in Picture  BY FieldTypes
  <2>5. Scaled(t, a) = [src |-> Scaled(t, a).src, dest |-> Scaled(t, a).dest]  BY <2>4 DEF Picture
  <2>. QED  BY <2>3, <2>5
<1>. QED  BY <1>1, <1>2, <1>3

\* A rectangle for the current path, or for the camera.
LEMMA OutputStep ==
  ASSUME OutputOK, NEW d, Base(d), SizesGiven(d), NEW a \in Here, a = d.path \/ output = "camera",
         NEW r \in Rectangle
  PROVE  LET e == SetDestRectangleCommon(d, a, r)
         IN /\ Base(e) /\ SameSight(d, e) /\ SameRest(d, e)
            /\ e.setting = SetVideoOutputSize(d.setting, Id(a), r)
            /\ VideoPlaced(e) /\ SizesGiven(e) /\ OutputGiven(e) /\ CoversPlaced(e)
            /\ ClippingTold(d) => ClippingTold(e)
            /\ WideTold(d) => WideTold(e)
            /\ Dest(e.setting, a) = r /\ e.path = d.path /\ e.sts = d.sts
            /\ e.ok <=> There(d.ivi, Surf(a)) \/ output = "camera"
            /\ ~e.ok => "place" \in e.behind
            /\ e.behind \in SUBSET Marks
<1>. DEFINE t == d.setting
            c == d.ivi
            e == SetDestRectangleCommon(d, a, r)
            u == SetVideoOutputSize(t, Id(a), r)
            here == There(c, Surf(a)) /\ (output = "camera" => Pictured(c, Surf(a)))
<1>1. /\ d \in Displays /\ Committed(c) /\ Present(c)
      /\ t \in Settings /\ d.path \in Here \cup {""} /\ d.behind \in SUBSET Marks
  BY FieldsOfDisplay DEF Base
<1>2. /\ "" \notin Here /\ \A b \in Here : Surf(b) \in Names /\ (output = "camera" => b = a)
      /\ \A b \in Here : Surf(b) = Surf(a) => b = a
  BY NameFacts, OwnFacts
<1>3. /\ u \in Settings /\ SameSeen(t, u)
      /\ \A b \in Here : b # a => SameSizes(t, u, b)
      /\ Out(u, a).set /\ Out(u, a).rect = r
      /\ Orig(u, a) = Orig(t, a) /\ Clip(u, a) = Clip(t, a) /\ (ClipOn(u, a) <=> ClipOn(t, a))
      /\ WideOf(u, a) = WideOf(t, a)
  BY <1>1, SetOutputFacts
<1>. HIDE DEF u
<1>4. /\ e \in Displays /\ e.setting = u /\ Published(d, e)
      /\ SameFlags(c, e.ivi) /\ SameShown(c, e.ivi) /\ Committed(e.ivi)
      /\ here => /\ e.ok /\ e.behind = d.behind \ {"place", "rect"}
                 /\ Cut(e.ivi, Surf(a)) = Scaled(e.setting, a).src
                 /\ Lies(e.ivi, Surf(a)) = Scaled(e.setting, a).dest
                 /\ \A kind \in Followers : Lies(e.ivi, GetBlinderID(kind)) = Blind(e.setting, a)
      /\ ~here => /\ e.ivi = c /\ (e.ok <=> output = "camera")
                  /\ e.behind = d.behind \cup IF output = "camera" THEN {"place", "rect"} ELSE {"place"}
  BY <1>1, SetDestStep DEF u
<1>. HIDE DEF e
<1>5. /\ e.path = d.path /\ e.file = d.file /\ e.ctl = d.ctl /\ e.sts = d.sts /\ e.told = d.told
  BY <1>4 DEF Published
<1>6. \A b \in Here : Orig(u, b) = Orig(t, b) /\ (ClipOn(u, b) <=> ClipOn(t, b)) /\ WideOf(u, b) = WideOf(t, b)
  BY <1>3 DEF SameSizes
<1>7. \A m \in Marks \ {"place", "rect"} : m \in e.behind <=> m \in d.behind
  BY <1>4
<1>8. Present(e.ivi)
  <2>1. \A n \in Names : /\ There(e.ivi, n) <=> There(c, n)
                         /\ Heard(e.ivi, n) \/ Pictured(e.ivi, n) => There(c, n)
                         /\ Shown(e.ivi, n) => There(c, n)
    BY <1>1, <1>4 DEF SameFlags, SameShown, Present
  <2>. QED  BY <1>1, <2>1, PresentFrame
<1>9. SameSight(d, e)
  BY <1>2, <1>3, <1>4, <1>5, <1>6, <1>7 DEF SameSight, Keeps, Marks, SameFlags
<1>10. SameRest(d, e)
  BY <1>4, <1>5 DEF SameRest, SameFlags
<1>11. SizesGiven(e)
  <2>1. \A b \in Here : Out(t, b).set => Out(u, b).set  BY <1>3 DEF SameSizes
  <2>. QED  BY <1>4, <1>6, <2>1 DEF SizesGiven
<1>12. OutputGiven(e)
  BY <1>1, <1>3, <1>4, <1>5 DEF OutputGiven
<1>13. Dest(u, a) = r  BY <1>3 DEF Dest
<1>14. VideoPlaced(e)
  <2>1. ASSUME NEW b \in Here, b = e.path \/ output = "camera", Heard(e.ivi, Surf(b)), Orig(u, b).set,
               output = "camera" => "rect" \notin e.behind
        PROVE  [src |-> Cut(e.ivi, Surf(b)), dest |-> Lies(e.ivi, Surf(b))] \in PicturesOf(u, b)
    <3>1. b = a  BY <1>2, <1>5, <2>1
    <3>2. There(c, Surf(b))  BY <1>1, <1>2, <1>4, <2>1 DEF SameFlags, Present
    <3>3. here  BY <1>4, <2>1, <3>1, <3>2
    <3>4. Cut(e.ivi, Surf(a)) = Scaled(u, a).src /\ Lies(e.ivi, Surf(a)) = Scaled(u, a).dest
      BY <1>4, <3>3
    <3>5. Orig(u, a).set /\ Out(u, a).set /\ Orig(u, a).rect \in Sizes \ {NoRect}
      BY <1>4, <1>11, <2>1, <3>1 DEF SizesGiven
    <3>6. [src |-> Scaled(u, a).src, dest |-> Scaled(u, a).dest] \in PicturesOf(u, a)
      BY <1>3, <3>5, PlacedFacts
    <3>. QED  BY <3>1, <3>4, <3>6
  <2>. QED  BY <1>4, <2>1 DEF VideoPlaced
<1>15. CoversPlaced(e)
  <2>1. e.path # "" /\ "place" \notin e.behind => here /\ e.path = a
    BY <1>1, <1>2, <1>4, <1>5
  <2>. QED  BY <1>4, <2>1 DEF CoversPlaced
<1>16. /\ ClippingTold(d) => ClippingTold(e)
       /\ WideTold(d) => WideTold(e)
  BY <1>1, <1>4, <1>5, <1>6, <1>7 DEF ClippingTold, WideTold, Marks
<1>17. /\ e.ok <=> There(c, Surf(a)) \/ output = "camera"
       /\ ~e.ok => "place" \in e.behind
  BY <1>4
<1>. QED
  BY <1>4, <1>5, <1>8, <1>9, <1>10, <1>11, <1>12, <1>13, <1>14, <1>15, <1>16, <1>17, FieldsOfDisplay
  DEF Base, e, u

\* Only what is told changes, and what is left behind.
SameScene(d, e) ==
  /\ e.ivi = d.ivi /\ e.setting = d.setting /\ e.path = d.path
  /\ e.file = d.file /\ e.told = d.told

LEMMA SceneFacts ==
  ASSUME OutputOK, NEW d, NEW e, Base(d), e \in Displays, SameScene(d, e)
  PROVE  /\ Base(e)
         /\ OthersHidden(d) => OthersHidden(e)
         /\ ShownAsAsked(d) => ShownAsAsked(e)
         /\ NoMuteWithoutPath(d) => NoMuteWithoutPath(e)
         /\ SizesGiven(d) => SizesGiven(e)
         /\ (e.sts.display <=> d.sts.display) => SameRest(d, e)
<1>1. Base(e)  BY DEF Base, SameScene
<1>2. /\ OthersHidden(d) => OthersHidden(e)
      /\ ShownAsAsked(d) => ShownAsAsked(e)
      /\ NoMuteWithoutPath(d) => NoMuteWithoutPath(e)
      /\ SizesGiven(d) => SizesGiven(e)
  BY DEF OthersHidden, ShownAsAsked, NoMuteWithoutPath, SizesGiven, SameScene
<1>3. (e.sts.display <=> d.sts.display) => SameRest(d, e)  BY DEF SameRest, SameScene
<1>. QED  BY <1>1, <1>2, <1>3

LEMMA TellOutputStep ==
  ASSUME OutputOK, NEW d, Base(d), NEW r \in Rectangle
  PROVE  LET e == UpdateVpathOutput(d, r)
         IN /\ e \in Displays /\ SameScene(d, e) /\ e.ctl = d.ctl
            /\ e.sts.out = r /\ e.sts.wide = d.sts.wide
            /\ e.sts.visible <=> d.sts.visible
            /\ e.sts.opaque <=> d.sts.opaque
            /\ e.sts.mute <=> d.sts.mute
            /\ e.sts.clipOn <=> d.sts.clipOn
            /\ e.sts.display <=> d.sts.display
            /\ e.behind = d.behind \ {"out"}
<1>1. d \in Displays /\ d.sts \in Statuses /\ d.behind \in SUBSET Marks  BY FieldsOfDisplay DEF Base
<1>. DEFINE s == [d.sts EXCEPT !.out = r]
            m == d.behind \ {"out"}
            e == UpdateVpathOutput(d, r)
<1>2. e = [d EXCEPT !.sts = s, !.behind = m]  BY <1>1 DEF UpdateVpathOutput, Displays
<1>3. /\ s \in Statuses /\ s.out = r /\ s.wide = d.sts.wide /\ s.clipOn = d.sts.clipOn
      /\ s.visible = d.sts.visible /\ s.opaque = d.sts.opaque /\ s.mute = d.sts.mute
      /\ s.display = d.sts.display
  BY <1>1 DEF Statuses
<1>. HIDE DEF s, e
<1>4. /\ e \in Displays /\ e.sts = s /\ e.behind = m /\ e.ivi = d.ivi /\ e.setting = d.setting
      /\ e.path = d.path /\ e.file = d.file /\ e.told = d.told /\ e.ctl = d.ctl
  BY <1>1, <1>2, <1>3 DEF Displays
<1>. QED  BY <1>3, <1>4 DEF e, SameScene

\* The first default ends what is told of a clipping, but not the clipping.
LEMMA DefaultClippingStep ==
  ASSUME OutputOK, NEW d, Base(d), SizesGiven(d)
  PROVE  LET e == DefaultClipping(d)
         IN Base(e) /\ SameSight(d, e) /\ SameRest(d, e) /\ SizesGiven(e) /\ ClippingTold(e)
<1>. DEFINE t == d.setting
            e == DefaultClipping(d)
            u == IF d.path = "" THEN t ELSE ClearVideoInputClippingSize(t, Id(d.path))
            s == [d.sts EXCEPT !.clipOn = FALSE, !.clip = NoRect]
            stays == d.path # "" /\ t[Id(d.path)].clipOn
            m == (d.behind \ {"clip"}) \cup IF stays THEN {"clip"} ELSE {}
<1>1. /\ d \in Displays /\ d.sts \in Statuses /\ d.behind \in SUBSET Marks
      /\ t \in Settings /\ d.path \in Here \cup {""}
  BY FieldsOfDisplay DEF Base
<1>2. e = [d EXCEPT !.setting = u, !.sts = s, !.behind = m]
  BY <1>1 DEF DefaultClipping, Displays
<1>3. /\ u \in Settings /\ SameSeen(t, u)
      /\ \A b \in Here : /\ Orig(u, b) = Orig(t, b) /\ Out(u, b) = Out(t, b)
                         /\ ClipOn(u, b) <=> ClipOn(t, b)
  <2>1. CASE d.path = ""  BY <1>1, <2>1, SameFacts
  <2>2. CASE d.path # ""
    <3>1. u = ClearVideoInputClippingSize(t, Id(d.path)) /\ d.path \in Here  BY <1>1, <2>2
    <3>. HIDE DEF u
    <3>2. /\ u \in Settings /\ SameSeen(t, u)
          /\ \A b \in Here : b # d.path => SameSizes(t, u, b)
          /\ Orig(u, d.path) = Orig(t, d.path) /\ Out(u, d.path) = Out(t, d.path)
          /\ ClipOn(u, d.path) <=> ClipOn(t, d.path)
      BY <1>1, <3>1, ClearClippingFacts
    <3>. QED  BY <3>2 DEF SameSizes
  <2>. QED  BY <2>1, <2>2
<1>4. /\ s \in Statuses /\ ~s.clipOn
      /\ s.visible = d.sts.visible /\ s.opaque = d.sts.opaque /\ s.mute = d.sts.mute
      /\ s.display = d.sts.display
  BY <1>1, NoRectType DEF Statuses
<1>5. m \in SUBSET Marks  BY <1>1 DEF Marks
<1>6. \A x \in {"bg", "muted", "visible", "opacity"} : x \in d.behind => x \in m  OBVIOUS
<1>7. d.path # "" /\ "clip" \notin m => ~ClipOn(t, d.path)  BY DEF ClipOn
<1>. HIDE DEF s, u, m, e
<1>8. /\ e \in Displays /\ e.sts = s /\ e.behind = m /\ e.ivi = d.ivi /\ e.setting = u
      /\ e.path = d.path /\ e.file = d.file /\ e.told = d.told /\ e.ctl = d.ctl
  BY <1>1, <1>2, <1>3, <1>4, <1>5 DEF Displays
<1>9. Base(e)  BY <1>8 DEF Base
<1>10. SameSight(d, e)  BY <1>3, <1>4, <1>6, <1>8, SameFacts DEF SameSight, Keeps
<1>11. SameRest(d, e)  BY <1>4, <1>8 DEF SameRest
<1>12. SizesGiven(e)  BY <1>3, <1>8 DEF SizesGiven
<1>13. ClippingTold(e)  BY <1>1, <1>3, <1>4, <1>7, <1>8 DEF ClippingTold
<1>. QED  BY <1>9, <1>10, <1>11, <1>12, <1>13 DEF e

\* A rectangle that is set is told; one that cannot be is left behind.
LEMMA RectangleStep ==
  ASSUME OutputOK, NEW d, Base(d), SizesGiven(d), NEW a \in Here, a = d.path \/ output = "camera",
         NEW r \in Rectangle
  PROVE  LET s == SetDestRectangleCommon(d, a, r)
             e == IF s.ok THEN UpdateVpathOutput(s, r) ELSE [s EXCEPT !.behind = @ \cup {"out"}]
         IN /\ Base(e) /\ SameSight(d, e) /\ SameRest(d, e)
            /\ VideoPlaced(e) /\ SizesGiven(e) /\ OutputGiven(e) /\ CoversPlaced(e) /\ OutputTold(e)
            /\ ClippingTold(d) => ClippingTold(e)
            /\ WideTold(d) => WideTold(e)
            /\ s.ok <=> There(d.ivi, Surf(a)) \/ output = "camera"
<1>. DEFINE s == SetDestRectangleCommon(d, a, r)
            p == UpdateVpathOutput(s, r)
            m == s.behind \cup {"out"}
            q == [s EXCEPT !.behind = @ \cup {"out"}]
            e == IF s.ok THEN p ELSE q
<1>1. /\ d \in Displays /\ d.behind \in SUBSET Marks /\ d.path \in Here \cup {""}
      /\ d.setting \in Settings
  BY FieldsOfDisplay DEF Base
<1>2. \A b \in Here : a # d.path => b = a  BY OwnFacts
<1>3. /\ Base(s) /\ SameSight(d, s) /\ SameRest(d, s)
      /\ s.setting = SetVideoOutputSize(d.setting, Id(a), r)
      /\ VideoPlaced(s) /\ SizesGiven(s) /\ OutputGiven(s) /\ CoversPlaced(s)
      /\ ClippingTold(d) => ClippingTold(s)
      /\ WideTold(d) => WideTold(s)
      /\ Dest(s.setting, a) = r /\ s.path = d.path /\ s.sts = d.sts
      /\ s.ok <=> There(d.ivi, Surf(a)) \/ output = "camera"
      /\ ~s.ok => "place" \in s.behind
      /\ s.behind \in SUBSET Marks
  BY OutputStep
<1>. HIDE DEF s, e
<1>4. CASE s.ok
  <2>1. e = p  BY <1>4 DEF e
  <2>2. /\ p \in Displays /\ SameScene(s, p) /\ p.ctl = s.ctl
        /\ p.sts.out = r /\ p.sts.wide = s.sts.wide
        /\ p.sts.visible <=> s.sts.visible
        /\ p.sts.opaque <=> s.sts.opaque
        /\ p.sts.mute <=> s.sts.mute
        /\ p.sts.clipOn <=> s.sts.clipOn
        /\ p.sts.display <=> s.sts.display
        /\ p.behind = s.behind \ {"out"}
    BY <1>3, TellOutputStep
  <2>. HIDE DEF p
  <2>3. Base(p) /\ SizesGiven(p) /\ SameRest(s, p)  BY <1>3, <2>2, SceneFacts
  <2>4. SameSight(d, p)
    BY <1>3, <2>2 DEF SameSight, SameScene, Keeps
  <2>5. SameRest(d, p)  BY <1>3, <2>3, RestFacts
  <2>6. p.path = d.path /\ p.ivi = s.ivi /\ p.setting = s.setting  BY <1>3, <2>2 DEF SameScene
  <2>7. /\ ClippingTold(s) => ClippingTold(p)
        /\ WideTold(s) => WideTold(p)
    BY <1>3, <2>2, <2>6 DEF ClippingTold, WideTold
  <2>8. Out(s.setting, a).set  BY <1>1, <1>3, SetOutputFacts
  <2>9. d.path # "" => d.path = a  BY <1>1, <1>2
  <2>10. OutputGiven(p) /\ CoversPlaced(p) /\ OutputTold(p) /\ VideoPlaced(p)
    BY <1>3, <2>2, <2>6, <2>8, <2>9 DEF OutputGiven, CoversPlaced, OutputTold, VideoPlaced
  <2>. QED  BY <1>3, <2>1, <2>3, <2>4, <2>5, <2>7, <2>10 DEF e, p, s
<1>5. CASE ~s.ok
  <2>. DEFINE f == [s EXCEPT !.behind = m]
  <2>1. s \in Displays /\ m \in SUBSET Marks  BY <1>3 DEF Marks, Base
  <2>2. e = f  BY <1>5, <2>1 DEF Displays, e
  <2>3. "out" \in m /\ "place" \in m /\ \A x \in s.behind : x \in m  BY <1>3, <1>5
  <2>. HIDE DEF m
  <2>4. f \in Displays /\ f.setting = s.setting /\ f.ivi = s.ivi /\ Published(s, f) /\ f.behind = m
    BY <2>1, WithBehind
  <2>. HIDE DEF f
  <2>5. SameScene(s, f) /\ f.ctl = s.ctl /\ f.sts = s.sts /\ f.path = d.path
    BY <1>3, <2>4 DEF SameScene, Published
  <2>6. Base(f) /\ SizesGiven(f) /\ SameRest(s, f)  BY <1>3, <2>4, <2>5, SceneFacts
  <2>7. SameSight(d, f)
    BY <1>3, <2>3, <2>4, <2>5 DEF SameSight, SameScene, Keeps
  <2>8. SameRest(d, f)  BY <1>3, <2>6, RestFacts
  <2>9. /\ ClippingTold(s) => ClippingTold(f)
        /\ WideTold(s) => WideTold(f)
    BY <1>3, <2>3, <2>4, <2>5 DEF ClippingTold, WideTold
  <2>10. OutputGiven(f) /\ CoversPlaced(f) /\ OutputTold(f)
    BY <2>3, <2>4 DEF OutputGiven, CoversPlaced, OutputTold
  <2>11. VideoPlaced(f)  BY <1>3, <2>3, <2>4, <2>5 DEF VideoPlaced
  <2>. QED  BY <1>3, <2>2, <2>6, <2>7, <2>8, <2>9, <2>10, <2>11 DEF e, s
<1>. QED  BY <1>4, <1>5

\* The second default gives the new path the whole screen, if there is one.
LEMMA DefaultOutputStep ==
  ASSUME OutputOK, NEW d, Base(d), SizesGiven(d), output # "camera"
  PROVE  LET e == DefaultOutput(d)
         IN /\ Base(e) /\ SameSight(d, e) /\ SameRest(d, e) /\ SizesGiven(e)
            /\ ClippingTold(d) => ClippingTold(e)
            /\ OutputGiven(e) /\ CoversPlaced(e) /\ OutputTold(e)
            /\ plugged \/ d.path = "" => VideoPlaced(e)
<1>. DEFINE s == SetDestRectangleCommon(d, d.path, Screen)
            e == DefaultOutput(d)
            p == UpdateVpathOutput(s, Screen)
            q == [s EXCEPT !.behind = @ \cup {"out"}]
            n == d.behind \cup {"out", "place"}
            w == [d EXCEPT !.behind = @ \cup {"out", "place"}]
<1>1. e = IF ~plugged THEN w ELSE IF s.ok THEN p ELSE q
  BY DEF DefaultOutput, GetScreenSize
<1>2. /\ d \in Displays /\ d.behind \in SUBSET Marks /\ d.path \in Here \cup {""}
  BY FieldsOfDisplay DEF Base
<1>3. Screen \in Rectangle  BY LayoutAssumption DEF LayoutAssumption
<1>. HIDE DEF e
<1>4. CASE ~plugged
  <2>. DEFINE f == [d EXCEPT !.behind = n]
  <2>1. e = f  BY <1>1, <1>2, <1>4 DEF Displays
  <2>2. n \in SUBSET Marks  BY <1>2 DEF Marks
  <2>3. "out" \in n /\ "place" \in n /\ \A x \in d.behind : x \in n  OBVIOUS
  <2>. HIDE DEF n
  <2>4. f \in Displays /\ f.setting = d.setting /\ f.ivi = d.ivi /\ Published(d, f) /\ f.behind = n
    BY <1>2, <2>2, WithBehind
  <2>. HIDE DEF f
  <2>5. SameScene(d, f) /\ f.ctl = d.ctl /\ f.sts = d.sts  BY <2>4 DEF SameScene, Published
  <2>6. Base(f) /\ SizesGiven(f) /\ SameRest(d, f)  BY <2>4, <2>5, SceneFacts
  <2>7. SameSight(d, f)
    BY <2>3, <2>4, <2>5, SameFacts DEF SameSight, SameScene, Keeps
  <2>8. ClippingTold(d) => ClippingTold(f)
    BY <2>3, <2>4, <2>5 DEF ClippingTold, SameScene
  <2>9. OutputGiven(f) /\ CoversPlaced(f) /\ OutputTold(f)
    BY <2>3, <2>4 DEF OutputGiven, CoversPlaced, OutputTold
  <2>10. d.path = "" => VideoPlaced(f)
    BY <2>5, NameFacts DEF VideoPlaced, SameScene
  <2>. QED  BY <1>4, <2>1, <2>6, <2>7, <2>8, <2>9, <2>10 DEF e
<1>5. CASE plugged /\ d.path = ""
  <2>. DEFINE f == [d EXCEPT !.ok = TRUE]
  <2>1. s = f  BY <1>5 DEF SetDestRectangleCommon, SetDestOver
  <2>. HIDE DEF s
  <2>2. f \in Displays /\ f.setting = d.setting /\ f.ivi = d.ivi /\ Published(d, f) /\ f.behind = d.behind /\ f.ok
    BY <1>2, WithOk
  <2>3. SameScene(d, s) /\ s \in Displays /\ s.behind = d.behind /\ s.sts = d.sts /\ s.ctl = d.ctl /\ s.ok
    BY <2>1, <2>2 DEF SameScene, Published
  <2>. HIDE DEF f
  <2>4. Base(s)  BY <2>3, SceneFacts
  <2>5. /\ p \in Displays /\ SameScene(s, p) /\ p.ctl = s.ctl
        /\ p.sts.visible <=> s.sts.visible
        /\ p.sts.opaque <=> s.sts.opaque
        /\ p.sts.mute <=> s.sts.mute
        /\ p.sts.clipOn <=> s.sts.clipOn
        /\ p.sts.display <=> s.sts.display
        /\ p.behind = s.behind \ {"out"}
    BY <1>3, <2>4, TellOutputStep
  <2>6. e = p  BY <1>1, <1>5, <2>3
  <2>. HIDE DEF p
  <2>7. SameScene(d, p)  BY <2>3, <2>5 DEF SameScene
  <2>8. Base(p) /\ SizesGiven(p) /\ SameRest(d, p)  BY <2>3, <2>5, <2>7, SceneFacts
  <2>9. SameSight(d, p)
    BY <2>3, <2>5, <2>7, SameFacts DEF SameSight, SameScene, Keeps
  <2>10. p.path = ""  BY <1>5, <2>7 DEF SameScene
  <2>11. ClippingTold(p) /\ OutputGiven(p) /\ CoversPlaced(p) /\ OutputTold(p)
    BY <2>10 DEF ClippingTold, OutputGiven, CoversPlaced, OutputTold
  <2>12. VideoPlaced(p)
    <3>1. "" \notin Here  BY NameFacts
    <3>. QED  BY <2>10, <3>1 DEF VideoPlaced
  <2>. QED  BY <2>6, <2>8, <2>9, <2>11, <2>12 DEF e
<1>6. CASE plugged /\ d.path # ""
  <2>1. d.path \in Here  BY <1>2, <1>6
  <2>. DEFINE f == IF s.ok THEN p ELSE q
  <2>2. e = f  BY <1>1, <1>6
  <2>3. /\ Base(f) /\ SameSight(d, f) /\ SameRest(d, f)
        /\ VideoPlaced(f) /\ SizesGiven(f) /\ OutputGiven(f) /\ CoversPlaced(f) /\ OutputTold(f)
        /\ ClippingTold(d) => ClippingTold(f)
    BY <1>3, <2>1, RectangleStep
  <2>. HIDE DEF f
  <2>. QED  BY <2>2, <2>3 DEF e
<1>. QED  BY <1>2, <1>4, <1>5, <1>6

LEMMA VisibilityStep ==
  ASSUME OutputOK, NEW d, Base(d), d.path \in Here, NEW v \in BOOLEAN
  PROVE  LET e == SetVisibility(d, v)
         IN /\ Base(e) /\ SameGeometry(d, e) /\ SameRest(d, e) /\ e.sts = d.sts /\ e.ctl = d.ctl
            /\ ShownAsAsked(e) /\ BackgroundBehind(e) /\ NoMuteWithoutPath(e)
            /\ OthersHidden(d) => OthersHidden(e)
            /\ OpacityTold(d) => OpacityTold(e)
            /\ MuteTold(d) => MuteTold(e)
            /\ Vis(e.setting, d.path) <=> v
            /\ e.ok => (Shown(e.ivi, Surf(d.path)) <=> v)
<1>. DEFINE t == d.setting
            c == d.ivi
            n == Surf(d.path)
            e == SetVisibility(d, v)
            u == SetVideoVisibility(t, Id(d.path), v)
<1>1. /\ d \in Displays /\ Committed(c) /\ Present(c) /\ t \in Settings
      /\ d.behind \in SUBSET Marks
  BY FieldsOfDisplay DEF Base
<1>2. /\ "" \notin Here /\ n \in Names /\ n \notin Own
      /\ \A b \in Here : Surf(b) \in Names /\ Surf(b) \notin Own /\ (Surf(b) = n => b = d.path)
      /\ GetBlinderID("mute") \in Own /\ GetBlinderID("mute") \in Names
      /\ GetBlinderID("mute") # GetBlinderID("bg") /\ GetBlinderID("bg") # n
      /\ \A b \in Here : Surf(b) # GetBlinderID("bg")
  <2>1. \A b \in Here : Surf(b)[1] = "video"  BY DEF Surf, GetSurfaceIdFromVideoPath
  <2>2. GetBlinderID("bg")[1] = "bg"  BY DEF GetBlinderID
  <2>. QED  BY <2>1, <2>2, NameFacts, OwnFacts
<1>3. /\ u \in Settings
      /\ \A b \in Here : /\ SameSizes(t, u, b) /\ (Opaque(u, b) <=> Opaque(t, b))
                         /\ Vis(u, b) <=> IF b = d.path THEN v ELSE Vis(t, b)
  BY <1>1, SetVisibilityFacts
<1>. HIDE DEF u
<1>4. /\ e \in Displays /\ e.setting = u /\ Published(d, e) /\ (e.ok <=> There(c, n))
      /\ SameFlags(c, e.ivi) /\ SamePlaced(c, e.ivi) /\ Committed(e.ivi)
      /\ \A m \in Names : m # GetBlinderID("bg") =>
           (Shown(e.ivi, m) <=> IF m = n /\ There(c, n) THEN v ELSE Shown(c, m))
      /\ HasBackground /\ e.ok =>
           /\ e.behind = d.behind \ {"bg"}
           /\ Shown(e.ivi, GetBlinderID("bg")) <=> Vis(u, d.path) /\ Opaque(u, d.path)
      /\ ~HasBackground /\ e.ok => e.behind = d.behind
      /\ ~e.ok => e.behind = d.behind \cup {"bg"}
  BY <1>1, SetVisibilityWhole DEF u
<1>. HIDE DEF e, n
<1>5. /\ e.path = d.path /\ e.file = d.file /\ e.ctl = d.ctl /\ e.sts = d.sts /\ e.told = d.told
  BY <1>4 DEF Published
<1>6. \A m \in Marks \ {"bg"} : m \in e.behind <=> m \in d.behind  BY <1>4
<1>7. Present(e.ivi)
  <2>1. \A m \in Names : /\ There(e.ivi, m) <=> There(c, m)
                         /\ Heard(e.ivi, m) \/ Pictured(e.ivi, m) => There(c, m)
    BY <1>1, <1>4 DEF SameFlags, Present
  <2>2. \A m \in Names : m # GetBlinderID("bg") => (Shown(e.ivi, m) => There(c, m))
    BY <1>1, <1>4 DEF Present
  <2>3. GetBlinderID("bg") \in Names => There(c, GetBlinderID("bg"))
    <3>1. GetBlinderID("bg") \in Names => GetBlinderID("bg") \in Own
      BY <1>2 DEF Names, Paths, Surf
    <3>. QED  BY <1>1, <3>1 DEF Present
  <2>. QED  BY <1>1, <2>1, <2>2, <2>3, PresentFrame
<1>8. SameGeometry(d, e)
  BY <1>2, <1>3, <1>4, <1>5, <1>6 DEF SameGeometry, Keeps, Marks, SameFlags
<1>9. SameRest(d, e)  BY <1>4, <1>5 DEF SameRest, SameFlags
<1>10. ShownAsAsked(e)
  <2>1. Heard(e.ivi, n) => There(c, n)  BY <1>1, <1>2, <1>4 DEF SameFlags, Present
  <2>2. Shown(c, n) => There(c, n)  BY <1>1, <1>2 DEF Present
  <2>3. Shown(e.ivi, n) <=> IF There(c, n) THEN v ELSE Shown(c, n)  BY <1>2, <1>4
  <2>4. Vis(u, d.path) <=> v  BY <1>3
  <2>. QED  BY <1>4, <1>5, <2>1, <2>2, <2>3, <2>4 DEF ShownAsAsked, n
<1>11. BackgroundBehind(e)
  BY <1>2, <1>4, <1>5 DEF BackgroundBehind
<1>12. NoMuteWithoutPath(e)  BY <1>2, <1>5 DEF NoMuteWithoutPath
<1>13. OthersHidden(d) => OthersHidden(e)
  BY <1>2, <1>4, <1>5 DEF OthersHidden
<1>14. OpacityTold(d) => OpacityTold(e)
  BY <1>3, <1>4, <1>5, <1>6 DEF OpacityTold, Marks
<1>15. MuteTold(d) => MuteTold(e)
  BY <1>2, <1>4, <1>5, <1>6 DEF MuteTold, Marks
<1>16. Vis(e.setting, d.path) <=> v  BY <1>3, <1>4
<1>17. e.ok => (Shown(e.ivi, n) <=> v)  BY <1>2, <1>4
<1>. QED
  BY <1>4, <1>5, <1>7, <1>8, <1>9, <1>10, <1>11, <1>12, <1>13, <1>14, <1>15, <1>16, <1>17
  DEF Base, e, n

LEMMA OpacityStep ==
  ASSUME OutputOK, NEW d, Base(d), d.path \in Here, NEW v \in BOOLEAN
  PROVE  LET e == SetOpacity(d, v)
         IN /\ Base(e) /\ SameGeometry(d, e) /\ SameRest(d, e) /\ e.sts = d.sts /\ e.ctl = d.ctl
            /\ BackgroundBehind(e) /\ NoMuteWithoutPath(e)
            /\ OthersHidden(d) => OthersHidden(e)
            /\ ShownAsAsked(d) => ShownAsAsked(e)
            /\ VisibilityTold(d) => VisibilityTold(e)
            /\ MuteTold(d) => MuteTold(e)
            /\ Opaque(e.setting, d.path) <=> v
<1>. DEFINE t == d.setting
            c == d.ivi
            e == SetOpacity(d, v)
            u == SetVideoOpacity(t, Id(d.path), v)
<1>1. /\ d \in Displays /\ Committed(c) /\ Present(c) /\ t \in Settings
      /\ d.behind \in SUBSET Marks
  BY FieldsOfDisplay DEF Base
<1>2. /\ "" \notin Here
      /\ GetBlinderID("mute") \in Own /\ GetBlinderID("mute") \in Names
      /\ GetBlinderID("mute") # GetBlinderID("bg")
      /\ \A b \in Here : Surf(b) \in Names /\ Surf(b) # GetBlinderID("bg")
  <2>1. \A b \in Here : Surf(b)[1] = "video"  BY DEF Surf, GetSurfaceIdFromVideoPath
  <2>2. GetBlinderID("bg")[1] = "bg"  BY DEF GetBlinderID
  <2>. QED  BY <2>1, <2>2, NameFacts, OwnFacts
<1>3. /\ u \in Settings
      /\ \A b \in Here : /\ SameSizes(t, u, b) /\ (Vis(u, b) <=> Vis(t, b))
                         /\ Opaque(u, b) <=> IF b = d.path THEN v ELSE Opaque(t, b)
      /\ \A b \in Here : Orig(u, b) = Orig(t, b)
  <2>1. /\ u \in Settings
        /\ \A b \in Here : /\ SameSizes(t, u, b) /\ (Vis(u, b) <=> Vis(t, b))
                           /\ Opaque(u, b) <=> IF b = d.path THEN v ELSE Opaque(t, b)
    BY <1>1, SetOpacityFacts
  <2>. HIDE DEF u
  <2>. QED  BY <2>1 DEF SameSizes
<1>. HIDE DEF u
<1>4. /\ e \in Displays /\ e.setting = u /\ Published(d, e) /\ (e.ok <=> There(c, Surf(d.path)))
      /\ SameFlags(c, e.ivi) /\ SamePlaced(c, e.ivi) /\ Committed(e.ivi)
      /\ \A m \in Names : m # GetBlinderID("bg") => (Shown(e.ivi, m) <=> Shown(c, m))
      /\ HasBackground /\ e.ok =>
           /\ e.behind = d.behind \ {"bg"}
           /\ Shown(e.ivi, GetBlinderID("bg")) <=> Vis(u, d.path) /\ Opaque(u, d.path)
      /\ ~HasBackground /\ e.ok => e.behind = d.behind
      /\ ~e.ok => e.behind = d.behind \cup {"bg"}
  BY <1>1, SetOpacityWhole DEF u
<1>. HIDE DEF e
<1>5. /\ e.path = d.path /\ e.file = d.file /\ e.ctl = d.ctl /\ e.sts = d.sts /\ e.told = d.told
  BY <1>4 DEF Published
<1>6. \A m \in Marks \ {"bg"} : m \in e.behind <=> m \in d.behind  BY <1>4
<1>7. Present(e.ivi)
  <2>1. \A m \in Names : /\ There(e.ivi, m) <=> There(c, m)
                         /\ Heard(e.ivi, m) \/ Pictured(e.ivi, m) => There(c, m)
    BY <1>1, <1>4 DEF SameFlags, Present
  <2>2. \A m \in Names : m # GetBlinderID("bg") => (Shown(e.ivi, m) => There(c, m))
    BY <1>1, <1>4 DEF Present
  <2>3. GetBlinderID("bg") \in Names => There(c, GetBlinderID("bg"))
    <3>1. GetBlinderID("bg") \in Names => GetBlinderID("bg") \in Own
      BY <1>2 DEF Names, Paths, Surf
    <3>. QED  BY <1>1, <3>1 DEF Present
  <2>. QED  BY <1>1, <2>1, <2>2, <2>3, PresentFrame
<1>8. SameGeometry(d, e)
  BY <1>2, <1>3, <1>4, <1>5, <1>6 DEF SameGeometry, Keeps, Marks, SameFlags
<1>9. SameRest(d, e)  BY <1>4, <1>5 DEF SameRest, SameFlags
<1>10. ShownAsAsked(d) => ShownAsAsked(e)
  <2>1. Surf(d.path) \in Names /\ Surf(d.path) # GetBlinderID("bg")  BY <1>2
  <2>2. /\ Shown(e.ivi, Surf(d.path)) <=> Shown(c, Surf(d.path))
        /\ Heard(e.ivi, Surf(d.path)) <=> Heard(c, Surf(d.path))
        /\ Vis(u, d.path) <=> Vis(t, d.path)
        /\ Orig(u, d.path) = Orig(t, d.path)
    BY <1>3, <1>4, <2>1 DEF SameFlags
  <2>. QED  BY <1>4, <1>5, <2>2 DEF ShownAsAsked
<1>11. BackgroundBehind(e)
  BY <1>2, <1>4, <1>5 DEF BackgroundBehind
<1>12. NoMuteWithoutPath(e)  BY <1>2, <1>5 DEF NoMuteWithoutPath
<1>13. OthersHidden(d) => OthersHidden(e)
  BY <1>2, <1>4, <1>5 DEF OthersHidden
<1>14. VisibilityTold(d) => VisibilityTold(e)
  BY <1>3, <1>4, <1>5, <1>6 DEF VisibilityTold, Marks
<1>15. MuteTold(d) => MuteTold(e)
  BY <1>2, <1>4, <1>5, <1>6 DEF MuteTold, Marks
<1>16. Opaque(e.setting, d.path) <=> v  BY <1>3, <1>4
<1>. QED
  BY <1>4, <1>5, <1>7, <1>8, <1>9, <1>10, <1>11, <1>12, <1>13, <1>14, <1>15, <1>16
  DEF Base, e

LEMMA TellFrame ==
  ASSUME OutputOK, NEW d, NEW e, Base(d), e \in Displays, SameScene(d, e)
  PROVE  /\ Keeps(d, e, {"bg"}) => (BackgroundBehind(d) => BackgroundBehind(e))
         /\ Keeps(d, e, {"visible"}) /\ (e.sts.visible <=> d.sts.visible)
              /\ (e.ctl.visible <=> d.ctl.visible) => (VisibilityTold(d) => VisibilityTold(e))
         /\ Keeps(d, e, {"opacity"}) /\ (e.sts.opaque <=> d.sts.opaque) =>
              (OpacityTold(d) => OpacityTold(e))
         /\ Keeps(d, e, {"muted"}) /\ (e.sts.mute <=> d.sts.mute) => (MuteTold(d) => MuteTold(e))
         /\ Keeps(d, e, {"rect"}) => (VideoPlaced(d) => VideoPlaced(e))
         /\ Keeps(d, e, {"place", "out"}) => (OutputGiven(d) => OutputGiven(e))
         /\ Keeps(d, e, {"place"}) => (CoversPlaced(d) => CoversPlaced(e))
         /\ Keeps(d, e, {"clip"}) /\ (e.sts.clipOn <=> d.sts.clipOn) => (ClippingTold(d) => ClippingTold(e))
         /\ Keeps(d, e, {"out"}) /\ e.sts.out = d.sts.out => (OutputTold(d) => OutputTold(e))
         /\ e.sts.wide = d.sts.wide => (WideTold(d) => WideTold(e))
<1>1. e.ivi = d.ivi /\ e.setting = d.setting /\ e.path = d.path  BY DEF SameScene
<1>2. Keeps(d, e, {"bg"}) => (BackgroundBehind(d) => BackgroundBehind(e))
  BY <1>1 DEF Keeps, BackgroundBehind
<1>3. Keeps(d, e, {"visible"}) /\ (e.sts.visible <=> d.sts.visible)
        /\ (e.ctl.visible <=> d.ctl.visible) => (VisibilityTold(d) => VisibilityTold(e))
  BY <1>1 DEF Keeps, VisibilityTold
<1>4. Keeps(d, e, {"opacity"}) /\ (e.sts.opaque <=> d.sts.opaque) =>
        (OpacityTold(d) => OpacityTold(e))
  BY <1>1 DEF Keeps, OpacityTold
<1>5. Keeps(d, e, {"muted"}) /\ (e.sts.mute <=> d.sts.mute) => (MuteTold(d) => MuteTold(e))
  BY <1>1 DEF Keeps, MuteTold
<1>6. Keeps(d, e, {"rect"}) => (VideoPlaced(d) => VideoPlaced(e))
  BY <1>1 DEF Keeps, VideoPlaced
<1>7. Keeps(d, e, {"place", "out"}) => (OutputGiven(d) => OutputGiven(e))
  BY <1>1 DEF Keeps, OutputGiven
<1>8. Keeps(d, e, {"place"}) => (CoversPlaced(d) => CoversPlaced(e))
  BY <1>1 DEF Keeps, CoversPlaced
<1>9. Keeps(d, e, {"clip"}) /\ (e.sts.clipOn <=> d.sts.clipOn) => (ClippingTold(d) => ClippingTold(e))
  BY <1>1 DEF Keeps, ClippingTold
<1>10. Keeps(d, e, {"out"}) /\ e.sts.out = d.sts.out => (OutputTold(d) => OutputTold(e))
  BY <1>1 DEF Keeps, OutputTold
<1>11. e.sts.wide = d.sts.wide => (WideTold(d) => WideTold(e))
  BY <1>1 DEF WideTold
<1>. QED  BY <1>2, <1>3, <1>4, <1>5, <1>6, <1>7, <1>8, <1>9, <1>10, <1>11

\* The third default hides the new path; without its surface nothing is told.
LEMMA DefaultVisibilityStep ==
  ASSUME OutputOK, NEW d, Base(d), output # "camera"
  PROVE  LET e == DefaultVisibility(d)
         IN /\ Base(e) /\ SameGeometry(d, e) /\ SameRest(d, e)
            /\ ShownAsAsked(e) /\ VisibilityTold(e)
            /\ OthersHidden(d) => OthersHidden(e)
            /\ BackgroundBehind(d) => BackgroundBehind(e)
            /\ NoMuteWithoutPath(d) => NoMuteWithoutPath(e)
            /\ MuteTold(d) => MuteTold(e)
<1>. DEFINE s == IF d.path = "" THEN [d EXCEPT !.ok = TRUE] ELSE SetVisibility(d, FALSE)
            e == DefaultVisibility(d)
            shown == GetVisibilityCommon(s, s.path)
            x == [s.ctl EXCEPT !.visible = shown]
            y == [s.sts EXCEPT !.visible = shown]
            m == IF s.ok THEN s.behind \ {"visible"} ELSE s.behind \cup {"visible"}
            f == [s EXCEPT !.ctl = IF s.ok THEN x ELSE s.ctl, !.sts = IF s.ok THEN y ELSE s.sts, !.behind = m]
<1>1. e = IF s.ok THEN UpdateStatusVisible(s) ELSE [s EXCEPT !.behind = @ \cup {"visible"}]
  BY DEF DefaultVisibility
<1>2. d \in Displays /\ d.path \in Here \cup {""} /\ "" \notin Here
  BY FieldsOfDisplay, NameFacts DEF Base
<1>3. /\ Base(s) /\ SameGeometry(d, s) /\ SameRest(d, s) /\ s.path = d.path
      /\ ShownAsAsked(s)
      /\ OthersHidden(d) => OthersHidden(s)
      /\ BackgroundBehind(d) => BackgroundBehind(s)
      /\ NoMuteWithoutPath(d) => NoMuteWithoutPath(s)
      /\ MuteTold(d) => MuteTold(s)
      /\ d.path # "" => (Vis(s.setting, d.path) <=> FALSE)
      /\ d.path # "" /\ s.ok => (Shown(s.ivi, Surf(d.path)) <=> FALSE)
  <2>1. CASE d.path = ""
    <3>1. s = [d EXCEPT !.ok = TRUE]  BY <2>1
    <3>. HIDE DEF s
    <3>2. s \in Displays /\ s.setting = d.setting /\ s.ivi = d.ivi /\ Published(d, s) /\ s.behind = d.behind
      BY <1>2, <3>1, WithOk
    <3>3. SameScene(d, s) /\ s.sts = d.sts /\ s.ctl = d.ctl  BY <3>2 DEF SameScene, Published
    <3>4. /\ Base(s) /\ SameRest(d, s)
          /\ OthersHidden(d) => OthersHidden(s)
          /\ NoMuteWithoutPath(d) => NoMuteWithoutPath(s)
      BY <3>2, <3>3, SceneFacts
    <3>5. /\ BackgroundBehind(d) => BackgroundBehind(s)
          /\ MuteTold(d) => MuteTold(s)
      BY <3>2, <3>3, TellFrame DEF Keeps
    <3>6. SameGeometry(d, s)  BY <3>2, <3>3, SameFacts DEF SameGeometry, SameScene, Keeps
    <3>7. s.path = d.path /\ ShownAsAsked(s)  BY <2>1, <3>3 DEF SameScene, ShownAsAsked
    <3>. QED  BY <2>1, <3>4, <3>5, <3>6, <3>7
  <2>2. CASE d.path # ""
    <3>1. s = SetVisibility(d, FALSE) /\ d.path \in Here  BY <1>2, <2>2
    <3>. HIDE DEF s
    <3>2. PICK no \in BOOLEAN : no = FALSE  OBVIOUS
    <3>3. s = SetVisibility(d, no)  BY <3>1, <3>2
    <3>4. /\ Base(s) /\ SameGeometry(d, s) /\ SameRest(d, s)
          /\ ShownAsAsked(s) /\ BackgroundBehind(s) /\ NoMuteWithoutPath(s)
          /\ OthersHidden(d) => OthersHidden(s)
          /\ MuteTold(d) => MuteTold(s)
          /\ Vis(s.setting, d.path) <=> no
          /\ s.ok => (Shown(s.ivi, Surf(d.path)) <=> no)
      BY <3>1, <3>3, VisibilityStep
    <3>5. s.path = d.path  BY <3>4 DEF SameGeometry
    <3>. QED  BY <3>2, <3>4, <3>5
  <2>. QED  BY <2>1, <2>2
<1>. HIDE DEF s, e
<1>4. s \in Displays /\ s.ctl \in Controls /\ s.sts \in Statuses /\ s.behind \in SUBSET Marks
  BY <1>3, FieldsOfDisplay DEF Base
<1>5. e = f
  <2>1. CASE s.ok
    <3>1. e = [s EXCEPT !.sts.visible = shown, !.ctl.visible = shown, !.behind = @ \ {"visible"}]
      BY <1>1, <2>1 DEF UpdateStatusVisible
    <3>. HIDE DEF shown
    <3>. QED  BY <1>4, <2>1, <3>1 DEF Displays
  <2>2. CASE ~s.ok
    <3>1. e = [s EXCEPT !.behind = @ \cup {"visible"}]  BY <1>1, <2>2
    <3>. HIDE DEF shown
    <3>. QED  BY <1>4, <2>2, <3>1 DEF Displays
  <2>. QED  BY <2>1, <2>2
<1>6. shown \in BOOLEAN /\ (s.ok => ~shown)
  <2>1. shown <=> d.path # "" /\ Ivi!GetSurfaceVisibility(s.ivi, Surf(d.path))
    BY <1>3 DEF GetVisibilityCommon, Surf
  <2>2. shown \in BOOLEAN  BY DEF GetVisibilityCommon
  <2>3. d.path # "" => (Ivi!GetSurfaceVisibility(s.ivi, Surf(d.path)) <=> Shown(s.ivi, Surf(d.path)))
    BY <1>2, <1>3, NameFacts DEF Ivi!GetSurfaceVisibility, Base, Committed, Shown
  <2>. HIDE DEF shown
  <2>. QED  BY <1>3, <2>1, <2>2, <2>3
<1>. HIDE DEF shown
<1>7. x \in Controls /\ (x.visible <=> shown)  BY <1>4, <1>6 DEF Controls
<1>8. /\ y \in Statuses /\ (y.visible <=> shown) /\ y.opaque = s.sts.opaque /\ y.mute = s.sts.mute
      /\ y.display = s.sts.display /\ y.out = s.sts.out /\ y.clipOn = s.sts.clipOn /\ y.wide = s.sts.wide
  BY <1>4, <1>6 DEF Statuses
<1>9. m \in SUBSET Marks /\ (~s.ok => "visible" \in m) /\ \A k \in s.behind \ {"visible"} : k \in m
  BY <1>4 DEF Marks
<1>. HIDE DEF x, y, m
<1>10. /\ f \in Displays /\ SameScene(s, f) /\ f.behind = m
       /\ s.ok => f.ctl = x /\ f.sts = y
       /\ ~s.ok => f.ctl = s.ctl /\ f.sts = s.sts
  <2>. DEFINE ctls == IF s.ok THEN x ELSE s.ctl
              stss == IF s.ok THEN y ELSE s.sts
  <2>1. ctls \in Controls /\ stss \in Statuses  BY <1>4, <1>7, <1>8
  <2>2. f = [s EXCEPT !.ctl = ctls, !.sts = stss, !.behind = m]  OBVIOUS
  <2>. HIDE DEF ctls, stss, f
  <2>3. f \in Displays /\ SameScene(s, f) /\ f.ctl = ctls /\ f.sts = stss /\ f.behind = m
    BY <1>4, <1>9, <2>1, <2>2 DEF Displays, SameScene
  <2>. QED  BY <2>3 DEF ctls, stss
<1>. HIDE DEF f
<1>11. /\ f.sts.opaque <=> s.sts.opaque
       /\ f.sts.mute <=> s.sts.mute
       /\ f.sts.display <=> s.sts.display
       /\ f.sts.clipOn <=> s.sts.clipOn
       /\ f.sts.out = s.sts.out /\ f.sts.wide = s.sts.wide
  BY <1>8, <1>10
<1>12. /\ Base(f) /\ SameRest(s, f)
       /\ OthersHidden(s) => OthersHidden(f)
       /\ ShownAsAsked(s) => ShownAsAsked(f)
       /\ NoMuteWithoutPath(s) => NoMuteWithoutPath(f)
  BY <1>3, <1>10, <1>11, SceneFacts
<1>13. Keeps(s, f, {"bg"}) /\ Keeps(s, f, {"muted"})  BY <1>9, <1>10 DEF Keeps
<1>14. /\ BackgroundBehind(s) => BackgroundBehind(f)
       /\ MuteTold(s) => MuteTold(f)
  BY <1>3, <1>10, <1>11, <1>13, TellFrame
<1>15. SameGeometry(d, f)
  <2>1. f.ivi = s.ivi /\ f.setting = s.setting /\ f.path = d.path  BY <1>3, <1>10 DEF SameScene
  <2>2. Keeps(d, f, {"rect", "place", "out", "clip"})
    BY <1>3, <1>9, <1>10 DEF SameGeometry, Keeps
  <2>. QED  BY <1>3, <1>11, <2>1, <2>2 DEF SameGeometry
<1>16. SameRest(d, f)  BY <1>3, <1>12, RestFacts
<1>17. VisibilityTold(f)
  <2>1. f.path = d.path /\ f.setting = s.setting  BY <1>3, <1>10 DEF SameScene
  <2>2. "visible" \notin f.behind => s.ok  BY <1>9, <1>10
  <2>. QED  BY <1>3, <1>6, <1>7, <1>8, <1>10, <2>1, <2>2 DEF VisibilityTold
<1>. QED  BY <1>3, <1>5, <1>12, <1>14, <1>15, <1>16, <1>17 DEF e

\* The fourth default makes it opaque, HDMI only in what is told.
LEMMA DefaultOpacityStep ==
  ASSUME OutputOK, NEW d, Base(d), output # "camera"
  PROVE  LET e == DefaultOpacity(d)
         IN /\ Base(e) /\ SameGeometry(d, e) /\ SameRest(d, e)
            /\ OpacityTold(e)
            /\ ShownAsAsked(d) => ShownAsAsked(e)
            /\ VisibilityTold(d) => VisibilityTold(e)
            /\ OthersHidden(d) => OthersHidden(e)
            /\ BackgroundBehind(d) => BackgroundBehind(e)
            /\ NoMuteWithoutPath(d) => NoMuteWithoutPath(e)
            /\ MuteTold(d) => MuteTold(e)
<1>. DEFINE kept == d.path \in {"", "HDMI"}
            s == IF kept THEN [d EXCEPT !.ok = TRUE] ELSE SetOpacity(d, TRUE)
            e == DefaultOpacity(d)
            x == IF s.ok THEN [s.ctl EXCEPT !.opaque = TRUE] ELSE s.ctl
            y == IF s.ok THEN [s.sts EXCEPT !.opaque = TRUE] ELSE s.sts
            m == IF ~s.ok \/ d.path = "HDMI" THEN s.behind \cup {"opacity"} ELSE s.behind \ {"opacity"}
            f == [s EXCEPT !.ctl = x, !.sts = y, !.behind = m]
<1>1. e = IF ~s.ok THEN [s EXCEPT !.behind = @ \cup {"opacity"}]
          ELSE [s EXCEPT !.sts.opaque = TRUE, !.ctl.opaque = TRUE,
                         !.behind = IF d.path = "HDMI" THEN @ \cup {"opacity"} ELSE @ \ {"opacity"}]
  BY DEF DefaultOpacity
<1>2. d \in Displays /\ d.path \in Here \cup {""} /\ "" \notin Here
  BY FieldsOfDisplay, NameFacts DEF Base
<1>3. /\ Base(s) /\ SameGeometry(d, s) /\ SameRest(d, s) /\ s.path = d.path
      /\ ShownAsAsked(d) => ShownAsAsked(s)
      /\ VisibilityTold(d) => VisibilityTold(s)
      /\ OthersHidden(d) => OthersHidden(s)
      /\ BackgroundBehind(d) => BackgroundBehind(s)
      /\ NoMuteWithoutPath(d) => NoMuteWithoutPath(s)
      /\ MuteTold(d) => MuteTold(s)
      /\ ~kept => (Opaque(s.setting, d.path) <=> TRUE)
  <2>1. CASE kept
    <3>1. s = [d EXCEPT !.ok = TRUE]  BY <2>1
    <3>. HIDE DEF s
    <3>2. s \in Displays /\ s.setting = d.setting /\ s.ivi = d.ivi /\ Published(d, s) /\ s.behind = d.behind
      BY <1>2, <3>1, WithOk
    <3>3. SameScene(d, s) /\ s.sts = d.sts /\ s.ctl = d.ctl  BY <3>2 DEF SameScene, Published
    <3>4. /\ Base(s) /\ SameRest(d, s)
          /\ OthersHidden(d) => OthersHidden(s)
          /\ ShownAsAsked(d) => ShownAsAsked(s)
          /\ NoMuteWithoutPath(d) => NoMuteWithoutPath(s)
      BY <3>2, <3>3, SceneFacts
    <3>5. /\ BackgroundBehind(d) => BackgroundBehind(s)
          /\ VisibilityTold(d) => VisibilityTold(s)
          /\ MuteTold(d) => MuteTold(s)
      BY <3>2, <3>3, TellFrame DEF Keeps
    <3>6. SameGeometry(d, s)  BY <3>2, <3>3, SameFacts DEF SameGeometry, SameScene, Keeps
    <3>7. s.path = d.path  BY <3>3 DEF SameScene
    <3>. QED  BY <2>1, <3>4, <3>5, <3>6, <3>7
  <2>2. CASE ~kept
    <3>1. s = SetOpacity(d, TRUE) /\ d.path \in Here  BY <1>2, <2>2
    <3>. HIDE DEF s
    <3>2. PICK yes \in BOOLEAN : yes = TRUE  OBVIOUS
    <3>3. s = SetOpacity(d, yes)  BY <3>1, <3>2
    <3>4. /\ Base(s) /\ SameGeometry(d, s) /\ SameRest(d, s)
          /\ BackgroundBehind(s) /\ NoMuteWithoutPath(s)
          /\ OthersHidden(d) => OthersHidden(s)
          /\ ShownAsAsked(d) => ShownAsAsked(s)
          /\ VisibilityTold(d) => VisibilityTold(s)
          /\ MuteTold(d) => MuteTold(s)
          /\ Opaque(s.setting, d.path) <=> yes
      BY <3>1, <3>3, OpacityStep
    <3>5. s.path = d.path  BY <3>4 DEF SameGeometry
    <3>. QED  BY <3>2, <3>4, <3>5
  <2>. QED  BY <2>1, <2>2
<1>. HIDE DEF s, e
<1>4. s \in Displays /\ s.ctl \in Controls /\ s.sts \in Statuses /\ s.behind \in SUBSET Marks
  BY <1>3, FieldsOfDisplay DEF Base
<1>5. e = f
  <2>1. CASE s.ok
    <3>1. e = [s EXCEPT !.sts.opaque = TRUE, !.ctl.opaque = TRUE,
                        !.behind = IF d.path = "HDMI" THEN @ \cup {"opacity"} ELSE @ \ {"opacity"}]
      BY <1>1, <2>1
    <3>2. /\ x = [s.ctl EXCEPT !.opaque = TRUE] /\ y = [s.sts EXCEPT !.opaque = TRUE]
          /\ m = IF d.path = "HDMI" THEN s.behind \cup {"opacity"} ELSE s.behind \ {"opacity"}
      BY <2>1
    <3>. HIDE DEF x, y, m
    <3>. QED  BY <1>4, <3>1, <3>2 DEF Displays
  <2>2. CASE ~s.ok
    <3>1. e = [s EXCEPT !.behind = @ \cup {"opacity"}]  BY <1>1, <2>2
    <3>2. x = s.ctl /\ y = s.sts /\ m = s.behind \cup {"opacity"}  BY <2>2
    <3>. HIDE DEF x, y, m
    <3>. QED  BY <1>4, <3>1, <3>2 DEF Displays
  <2>. QED  BY <2>1, <2>2
<1>7. x \in Controls /\ x.visible = s.ctl.visible  BY <1>4 DEF Controls
<1>8. /\ y \in Statuses /\ (s.ok => y.opaque) /\ y.visible = s.sts.visible /\ y.mute = s.sts.mute
      /\ y.display = s.sts.display /\ y.out = s.sts.out /\ y.clipOn = s.sts.clipOn /\ y.wide = s.sts.wide
  BY <1>4 DEF Statuses
<1>9. /\ m \in SUBSET Marks /\ (~s.ok \/ d.path = "HDMI" => "opacity" \in m)
      /\ \A k \in s.behind \ {"opacity"} : k \in m
  BY <1>4 DEF Marks
<1>. HIDE DEF x, y, m
<1>10. f \in Displays /\ SameScene(s, f) /\ f.behind = m /\ f.ctl = x /\ f.sts = y
  BY <1>4, <1>7, <1>8, <1>9 DEF Displays, SameScene
<1>. HIDE DEF f
<1>11. /\ f.sts.visible <=> s.sts.visible
       /\ f.ctl.visible <=> s.ctl.visible
       /\ f.sts.mute <=> s.sts.mute
       /\ f.sts.display <=> s.sts.display
       /\ f.sts.clipOn <=> s.sts.clipOn
       /\ f.sts.out = s.sts.out /\ f.sts.wide = s.sts.wide
  BY <1>7, <1>8, <1>10
<1>12. /\ Base(f) /\ SameRest(s, f)
       /\ OthersHidden(s) => OthersHidden(f)
       /\ ShownAsAsked(s) => ShownAsAsked(f)
       /\ NoMuteWithoutPath(s) => NoMuteWithoutPath(f)
  BY <1>3, <1>10, <1>11, SceneFacts
<1>13. Keeps(s, f, {"bg"}) /\ Keeps(s, f, {"muted"}) /\ Keeps(s, f, {"visible"})
  BY <1>9, <1>10 DEF Keeps
<1>14. /\ BackgroundBehind(s) => BackgroundBehind(f)
       /\ MuteTold(s) => MuteTold(f)
       /\ VisibilityTold(s) => VisibilityTold(f)
  BY <1>3, <1>10, <1>11, <1>13, TellFrame
<1>15. SameGeometry(d, f)
  <2>1. f.ivi = s.ivi /\ f.setting = s.setting /\ f.path = d.path  BY <1>3, <1>10 DEF SameScene
  <2>2. Keeps(d, f, {"rect", "place", "out", "clip"})
    BY <1>3, <1>9, <1>10 DEF SameGeometry, Keeps
  <2>. QED  BY <1>3, <1>11, <2>1, <2>2 DEF SameGeometry
<1>16. SameRest(d, f)  BY <1>3, <1>12, RestFacts
<1>17. OpacityTold(f)
  <2>1. f.path = d.path /\ f.setting = s.setting  BY <1>3, <1>10 DEF SameScene
  <2>2. "opacity" \notin f.behind => s.ok /\ d.path # "HDMI"  BY <1>9, <1>10
  <2>. QED  BY <1>3, <1>8, <1>10, <2>1, <2>2 DEF OpacityTold
<1>. QED  BY <1>3, <1>5, <1>12, <1>14, <1>15, <1>16, <1>17 DEF e

\* A wide mode of the current path.
LEMMA WideStep ==
  ASSUME OutputOK, NEW d, Base(d), SizesGiven(d), d.path \in Here, output # "camera",
         NEW w \in WideModes
  PROVE  LET e == SetWideModeCommon(d, d.path, w)
         IN /\ Base(e) /\ SameSight(d, e) /\ SameRest(d, e) /\ e.sts = d.sts /\ e.ctl = d.ctl
            /\ VideoPlaced(e) /\ SizesGiven(e)
            /\ OutputGiven(d) => OutputGiven(e)
            /\ CoversPlaced(d) => CoversPlaced(e)
            /\ ClippingTold(d) => ClippingTold(e)
            /\ OutputTold(d) => OutputTold(e)
            /\ e.path = d.path
            /\ w # "invalid" => WideOf(e.setting, d.path) = w
<1>. DEFINE t == d.setting
            c == d.ivi
            a == d.path
            e == SetWideModeCommon(d, a, w)
            u == SetVideoWideMode(t, Id(a), w)
<1>1. d \in Displays /\ Committed(c) /\ Present(c) /\ t \in Settings
  BY FieldsOfDisplay DEF Base
<1>2. /\ "" \notin Here /\ \A b \in Here : Surf(b) \in Names
      /\ \A kind \in Followers : GetBlinderID(kind) \in Own
  BY NameFacts, OwnFacts
<1>3. /\ u \in Settings /\ SameSeen(t, u)
      /\ \A b \in Here : b # a => SameSizes(t, u, b)
      /\ Orig(u, a) = Orig(t, a) /\ Out(u, a) = Out(t, a) /\ Clip(u, a) = Clip(t, a)
      /\ ClipOn(u, a) <=> ClipOn(t, a)
      /\ w # "invalid" => WideOf(u, a) = w
  BY <1>1, SetWideFacts
<1>. HIDE DEF u
<1>4. /\ e \in Displays /\ e.setting = u /\ Published(d, e) /\ e.behind = d.behind
      /\ SameFlags(c, e.ivi) /\ SameShown(c, e.ivi) /\ Committed(e.ivi)
      /\ \A n \in Own : Lies(e.ivi, n) = Lies(c, n)
      /\ There(c, Surf(a)) => /\ Cut(e.ivi, Surf(a)) = Scaled(u, a).src
                              /\ Lies(e.ivi, Surf(a)) = Scaled(u, a).dest
  BY <1>1, SetWideStep DEF u
<1>. HIDE DEF e
<1>5. /\ e.path = a /\ e.file = d.file /\ e.ctl = d.ctl /\ e.sts = d.sts /\ e.told = d.told
  BY <1>4 DEF Published
<1>6. \A b \in Here : Orig(u, b) = Orig(t, b) /\ Out(u, b) = Out(t, b) /\ (ClipOn(u, b) <=> ClipOn(t, b))
  BY <1>3 DEF SameSizes
<1>7. Present(e.ivi)
  <2>1. \A n \in Names : /\ There(e.ivi, n) <=> There(c, n)
                         /\ Heard(e.ivi, n) \/ Pictured(e.ivi, n) => There(c, n)
                         /\ Shown(e.ivi, n) => There(c, n)
    BY <1>1, <1>4 DEF SameFlags, SameShown, Present
  <2>. QED  BY <1>1, <2>1, PresentFrame
<1>8. SameSight(d, e)
  BY <1>2, <1>3, <1>4, <1>5, <1>6 DEF SameSight, Keeps, SameFlags
<1>9. SameRest(d, e)  BY <1>4, <1>5 DEF SameRest, SameFlags
<1>10. SizesGiven(e)  BY <1>4, <1>6 DEF SizesGiven
<1>11. VideoPlaced(e)
  <2>1. ASSUME NEW b \in Here, b = e.path \/ output = "camera", Heard(e.ivi, Surf(b)), Orig(u, b).set
        PROVE  [src |-> Cut(e.ivi, Surf(b)), dest |-> Lies(e.ivi, Surf(b))] \in PicturesOf(u, b)
    <3>1. b = a  BY <1>5, <2>1
    <3>2. There(c, Surf(a))  BY <1>1, <1>2, <1>4, <2>1, <3>1 DEF SameFlags, Present
    <3>3. Orig(u, a).set /\ Out(u, a).set /\ Orig(u, a).rect \in Sizes \ {NoRect}
      BY <1>4, <1>10, <2>1, <3>1 DEF SizesGiven
    <3>4. [src |-> Scaled(u, a).src, dest |-> Scaled(u, a).dest] \in PicturesOf(u, a)
      BY <1>3, <3>3, PlacedFacts
    <3>. QED  BY <1>4, <3>1, <3>2, <3>4
  <2>. QED  BY <1>4, <2>1 DEF VideoPlaced
<1>12. Dest(u, a) = Dest(t, a)  BY <1>3 DEF Dest, Source
<1>13. Blind(u, a) = Blind(t, a)  BY <1>1, <1>3, <1>12, PlacedFacts
<1>14. /\ OutputGiven(d) => OutputGiven(e)
       /\ CoversPlaced(d) => CoversPlaced(e)
       /\ ClippingTold(d) => ClippingTold(e)
       /\ OutputTold(d) => OutputTold(e)
  BY <1>2, <1>3, <1>4, <1>5, <1>12, <1>13 DEF OutputGiven, CoversPlaced, ClippingTold, OutputTold
<1>. QED
  BY <1>3, <1>4, <1>5, <1>7, <1>8, <1>9, <1>10, <1>11, <1>14 DEF Base, e

\* The last default; what it did is told in any case.
LEMMA DefaultWideStep ==
  ASSUME OutputOK, NEW d, Base(d), SizesGiven(d), output # "camera"
  PROVE  LET e == DefaultWide(d)
         IN /\ Base(e) /\ SameSight(d, e) /\ SameRest(d, e)
            /\ VideoPlaced(e) /\ SizesGiven(e) /\ WideTold(e)
            /\ OutputGiven(d) => OutputGiven(e)
            /\ CoversPlaced(d) => CoversPlaced(e)
            /\ ClippingTold(d) => ClippingTold(e)
            /\ OutputTold(d) => OutputTold(e)
<1>. DEFINE s == IF d.path = "" THEN d ELSE SetWideModeCommon(d, d.path, "normal")
            wide == GetFrontWideMode(s)
            x == [s.ctl EXCEPT !.wide = wide]
            y == [s.sts EXCEPT !.wide = wide]
            e == DefaultWide(d)
<1>1. e = [s EXCEPT !.sts.wide = wide, !.ctl.wide = wide]
  BY DEF DefaultWide, UpdateStatusWideMode
<1>2. d \in Displays /\ d.path \in Here \cup {""} /\ "" \notin Here
  BY FieldsOfDisplay, NameFacts DEF Base
<1>3. /\ Base(s) /\ SameSight(d, s) /\ SameRest(d, s) /\ s.path = d.path
      /\ VideoPlaced(s) /\ SizesGiven(s)
      /\ OutputGiven(d) => OutputGiven(s)
      /\ CoversPlaced(d) => CoversPlaced(s)
      /\ ClippingTold(d) => ClippingTold(s)
      /\ OutputTold(d) => OutputTold(s)
  <2>1. CASE d.path = ""
    <3>1. s = d  BY <2>1
    <3>. HIDE DEF s
    <3>2. SameSight(d, d)  BY SameFacts DEF SameSight, Keeps
    <3>3. VideoPlaced(d)  BY <1>2, <2>1 DEF VideoPlaced
    <3>. QED  BY <3>1, <3>2, <3>3, RestFacts
  <2>2. CASE d.path # ""
    <3>1. s = SetWideModeCommon(d, d.path, "normal") /\ d.path \in Here /\ "normal" \in WideModes
      BY <1>2, <2>2 DEF WideModes
    <3>. HIDE DEF s
    <3>2. PICK w \in WideModes : w = "normal"  BY <3>1
    <3>3. s = SetWideModeCommon(d, d.path, w)  BY <3>1, <3>2
    <3>. QED  BY <3>1, <3>3, WideStep
  <2>. QED  BY <2>1, <2>2
<1>. HIDE DEF s, e
<1>4. /\ s \in Displays /\ s.ctl \in Controls /\ s.sts \in Statuses /\ s.behind \in SUBSET Marks
      /\ s.setting \in Settings
  BY <1>3, FieldsOfDisplay DEF Base
<1>5. wide \in WideModes /\ (d.path # "" => wide = WideOf(s.setting, d.path))
  <2>1. wide = GetVideoWideMode(s.setting, Id(d.path))  BY <1>3 DEF GetFrontWideMode
  <2>2. CASE d.path = ""
    <3>1. Id("")[1] = ""  BY DEF Id, GetVideoPathIdentifier
    <3>2. wide = "normal"  BY <2>1, <2>2, <3>1 DEF GetVideoWideMode
    <3>. QED  BY <2>2, <3>2 DEF WideModes
  <2>3. CASE d.path # ""
    <3>1. d.path \in Here  BY <1>2, <2>3
    <3>. HIDE DEF wide
    <3>2. wide = WideOf(s.setting, d.path)  BY <2>1, <3>1, RectangleFacts
    <3>3. WideOf(s.setting, d.path) \in WideModes  BY <1>4, <3>1, FieldTypes
    <3>. QED  BY <3>2, <3>3
  <2>. QED  BY <2>2, <2>3
<1>. HIDE DEF wide
<1>6. x \in Controls /\ x.visible = s.ctl.visible  BY <1>4, <1>5 DEF Controls
<1>7. /\ y \in Statuses /\ y.wide = wide /\ y.visible = s.sts.visible /\ y.mute = s.sts.mute
      /\ y.opaque = s.sts.opaque
      /\ y.display = s.sts.display /\ y.out = s.sts.out /\ y.clipOn = s.sts.clipOn
  BY <1>4, <1>5 DEF Statuses
<1>8. e = [s EXCEPT !.ctl = x, !.sts = y]
  BY <1>1, <1>4 DEF Displays
<1>. HIDE DEF x, y
<1>9. e \in Displays /\ SameScene(s, e) /\ e.behind = s.behind /\ e.ctl = x /\ e.sts = y
  BY <1>4, <1>6, <1>7, <1>8 DEF Displays, SameScene
<1>10. /\ e.sts.visible <=> s.sts.visible
       /\ e.ctl.visible <=> s.ctl.visible
       /\ e.sts.mute <=> s.sts.mute
       /\ e.sts.opaque <=> s.sts.opaque
       /\ e.sts.display <=> s.sts.display
       /\ e.sts.clipOn <=> s.sts.clipOn
       /\ e.sts.out = s.sts.out /\ e.sts.wide = wide
  BY <1>6, <1>7, <1>9
<1>11. Base(e) /\ SameRest(s, e) /\ SizesGiven(e)
  BY <1>3, <1>9, <1>10, SceneFacts
<1>12. \A m : Keeps(s, e, m)  BY <1>9 DEF Keeps
<1>13. /\ VideoPlaced(s) => VideoPlaced(e)
       /\ OutputGiven(s) => OutputGiven(e)
       /\ CoversPlaced(s) => CoversPlaced(e)
       /\ ClippingTold(s) => ClippingTold(e)
       /\ OutputTold(s) => OutputTold(e)
  BY <1>3, <1>9, <1>10, <1>12, TellFrame
<1>14. SameSight(d, e)
  <2>1. e.ivi = s.ivi /\ e.setting = s.setting /\ e.path = d.path  BY <1>3, <1>9 DEF SameScene
  <2>. QED  BY <1>3, <1>9, <1>10, <2>1 DEF SameSight, Keeps
<1>15. SameRest(d, e)  BY <1>3, <1>11, RestFacts
<1>16. WideTold(e)
  BY <1>3, <1>5, <1>9, <1>10 DEF WideTold, SameScene
<1>. QED  BY <1>3, <1>11, <1>13, <1>14, <1>15, <1>16 DEF e

\* A new path: what the defaults do not put right.
LEMMA SwitchedFacts ==
  ASSUME OutputOK, NEW d, NEW e, NEW a \in Here \cup {""}, Base(d), Switched(d, e, a),
         \A n \in Own : Shown(e.ivi, n) => There(d.ivi, n)
  PROVE  /\ Base(e) /\ SameRest(d, e)
         /\ OthersHidden(d) => OthersHidden(e)
         /\ SizesGiven(d) => SizesGiven(e)
<1>1. d.path \in Here \cup {""} /\ "" \notin Here /\ Present(d.ivi)
  BY FieldsOfDisplay, NameFacts DEF Base
<1>2. \A n \in Names : n \in Own \/ \E b \in Here : n = Surf(b)  BY NameFacts DEF Names
<1>3. Present(e.ivi)
  <2>1. \A n \in Names : /\ There(e.ivi, n) <=> There(d.ivi, n)
                         /\ Heard(e.ivi, n) \/ Pictured(e.ivi, n) => There(d.ivi, n)
    BY <1>1 DEF Switched, SameFlags, Present
  <2>2. ASSUME NEW n \in Names, Shown(e.ivi, n)  PROVE There(d.ivi, n)
    <3>1. CASE n \in Own  BY <2>2, <3>1
    <3>2. CASE n \notin Own
      <4>1. PICK b \in Here : n = Surf(b)  BY <1>2, <3>2
      <4>2. Shown(d.ivi, Surf(b)) \/ There(d.ivi, Surf(b))  BY <2>2, <4>1 DEF Switched
      <4>. QED  BY <1>1, <2>2, <4>1, <4>2 DEF Present
    <3>. QED  BY <3>1, <3>2
  <2>. QED  BY <1>1, <2>1, <2>2, PresentFrame
<1>4. Base(e)  BY <1>3 DEF Base, Switched
<1>5. SameRest(d, e)  BY DEF SameRest, Switched, SameFlags
<1>6. OthersHidden(d) => OthersHidden(e)
  BY <1>1 DEF OthersHidden, Switched
<1>7. SizesGiven(d) => SizesGiven(e)
  <2>1. \A b \in Here : Orig(e.setting, b) = Orig(d.setting, b) /\ Out(e.setting, b) = Out(d.setting, b)
    BY DEF Switched, SameSizes
  <2>. QED  BY <2>1 DEF SizesGiven
<1>. QED  BY <1>4, <1>5, <1>6, <1>7

LEMMA FrontPathStep ==
  ASSUME OutputOK, NEW d, Base(d), NEW a \in Here \cup {""}, a # d.path, HasBackground
  PROVE  LET e == SetFrontPath(d, a)
         IN /\ Base(e) /\ SameRest(d, e) /\ e.path = a /\ SetRearPath(d, a) = e
            /\ OthersHidden(d) => OthersHidden(e)
            /\ SizesGiven(d) => SizesGiven(e)
            /\ BackgroundBehind(e) /\ NoMuteWithoutPath(e)
            /\ MuteTold(d) => MuteTold(e)
            /\ \A n \in Own : n \notin {GetBlinderID("bg"), GetBlinderID("mute")} =>
                                (Shown(e.ivi, n) <=> Shown(d.ivi, n))
<1>. DEFINE e == SetFrontPath(d, a)
<1>1. d \in Displays /\ Present(d.ivi) /\ d.behind \in SUBSET Marks  BY FieldsOfDisplay DEF Base
<1>2. /\ Switched(d, e, a) /\ SetRearPath(d, a) = e
      /\ a # "" => e.behind = d.behind \ {"bg"}
      /\ a = "" => e.behind = IF d.sts.mute THEN (d.behind \ {"bg"}) \cup {"muted"}
                              ELSE d.behind \ {"bg", "muted"}
      /\ Shown(e.ivi, GetBlinderID("bg")) <=> a # "" /\ Vis(e.setting, a) /\ Opaque(e.setting, a)
      /\ \A n \in Own : n # GetBlinderID("bg") =>
           (Shown(e.ivi, n) <=> ~(a = "" /\ n = GetBlinderID("mute")) /\ Shown(d.ivi, n))
  BY <1>1, SetFrontPathStep
<1>. HIDE DEF e
<1>3. /\ GetBlinderID("mute") \in Own /\ GetBlinderID("mute") # GetBlinderID("bg")
      /\ \A n \in Own : n \in Names /\ There(d.ivi, n)
  BY <1>1, OwnFacts, NameFacts DEF Present
<1>4. e.path = a /\ e.sts = d.sts  BY <1>2 DEF Switched
<1>5. /\ Base(e) /\ SameRest(d, e)
      /\ OthersHidden(d) => OthersHidden(e)
      /\ SizesGiven(d) => SizesGiven(e)
  BY <1>2, <1>3, SwitchedFacts
<1>6. BackgroundBehind(e)  BY <1>2, <1>4 DEF BackgroundBehind
<1>7. NoMuteWithoutPath(e)  BY <1>2, <1>3, <1>4 DEF NoMuteWithoutPath
<1>8. MuteTold(d) => MuteTold(e)
  BY <1>2, <1>3, <1>4 DEF MuteTold
<1>. QED  BY <1>2, <1>4, <1>5, <1>6, <1>7, <1>8 DEF e

LEMMA IClusterPathStep ==
  ASSUME OutputOK, NEW d, Base(d), NEW a \in Here \cup {""}, a # d.path, output = "ic"
  PROVE  LET e == SetIClusterPath(d, a)
         IN /\ Base(e) /\ SameRest(d, e) /\ e.path = a
            /\ OthersHidden(d) => OthersHidden(e)
            /\ SizesGiven(d) => SizesGiven(e)
            /\ BackgroundBehind(e) /\ NoMuteWithoutPath(e) /\ MuteTold(e)
            /\ \A n \in Own : Shown(e.ivi, n) <=> Shown(d.ivi, n)
<1>. DEFINE e == SetIClusterPath(d, a)
<1>1. d \in Displays /\ Present(d.ivi)  BY DEF Base
<1>2. Switched(d, e, a) /\ \A n \in Own : Shown(e.ivi, n) <=> Shown(d.ivi, n)
  BY <1>1, SetIClusterPathStep
<1>. HIDE DEF e
<1>3. \A n \in Own : There(d.ivi, n)  BY <1>1 DEF Present, Names
<1>4. ~HasWide /\ ~HasBackground  BY OwnFacts
<1>5. /\ Base(e) /\ SameRest(d, e)
      /\ OthersHidden(d) => OthersHidden(e)
      /\ SizesGiven(d) => SizesGiven(e)
  BY <1>2, <1>3, SwitchedFacts
<1>6. BackgroundBehind(e) /\ NoMuteWithoutPath(e) /\ MuteTold(e)
  BY <1>4 DEF BackgroundBehind, NoMuteWithoutPath, MuteTold
<1>7. e.path = a  BY <1>2 DEF Switched
<1>. QED  BY <1>2, <1>5, <1>6, <1>7 DEF e

-----------------------------------------------------------------------------
(* The handlers keep the invariant                                         *)

\* The defaults that every output has.
LEMMA DefaultsStep ==
  ASSUME OutputOK, NEW d, Base(d), output # "camera", SizesGiven(d), OthersHidden(d),
         BackgroundBehind(d), NoMuteWithoutPath(d), MuteTold(d), ClippingTold(d)
  PROVE  LET e == DefaultOpacity(DefaultVisibility(DefaultOutput(d)))
         IN /\ Base(e) /\ Sight(e) /\ SameRest(d, e) /\ SizesGiven(e) /\ ClippingTold(e)
            /\ OutputGiven(e) /\ CoversPlaced(e) /\ OutputTold(e)
            /\ plugged \/ d.path = "" => VideoPlaced(e)
<1>. DEFINE s == DefaultOutput(d)
            p == DefaultVisibility(s)
            e == DefaultOpacity(p)
<1>1. d \in Displays  BY DEF Base
<1>2. /\ Base(s) /\ SameSight(d, s) /\ SameRest(d, s) /\ SizesGiven(s) /\ ClippingTold(s)
      /\ OutputGiven(s) /\ CoversPlaced(s) /\ OutputTold(s)
      /\ plugged \/ d.path = "" => VideoPlaced(s)
  BY DefaultOutputStep
<1>. HIDE DEF s
<1>3. OthersHidden(s) /\ BackgroundBehind(s) /\ NoMuteWithoutPath(s) /\ MuteTold(s)
  BY <1>1, <1>2, SightFrame
<1>4. /\ Base(p) /\ SameGeometry(s, p) /\ SameRest(s, p)
      /\ ShownAsAsked(p) /\ VisibilityTold(p) /\ OthersHidden(p) /\ BackgroundBehind(p)
      /\ NoMuteWithoutPath(p) /\ MuteTold(p)
  BY <1>2, <1>3, DefaultVisibilityStep
<1>. HIDE DEF p
<1>5. s \in Displays /\ p \in Displays  BY <1>2, <1>4 DEF Base
<1>6. /\ SizesGiven(p) /\ ClippingTold(p) /\ OutputGiven(p) /\ CoversPlaced(p) /\ OutputTold(p)
      /\ plugged \/ d.path = "" => VideoPlaced(p)
  BY <1>2, <1>4, <1>5, GeometryFrame
<1>7. /\ Base(e) /\ SameGeometry(p, e) /\ SameRest(p, e)
      /\ OpacityTold(e) /\ ShownAsAsked(e) /\ VisibilityTold(e) /\ OthersHidden(e)
      /\ BackgroundBehind(e) /\ NoMuteWithoutPath(e) /\ MuteTold(e)
  BY <1>4, DefaultOpacityStep
<1>. HIDE DEF e
<1>8. /\ SizesGiven(e) /\ ClippingTold(e) /\ OutputGiven(e) /\ CoversPlaced(e) /\ OutputTold(e)
      /\ plugged \/ d.path = "" => VideoPlaced(e)
  BY <1>5, <1>6, <1>7, GeometryFrame
<1>9. SameRest(d, e)  BY <1>2, <1>4, <1>7, RestFacts
<1>10. Sight(e)  BY <1>7 DEF Sight
<1>. QED  BY <1>7, <1>8, <1>9, <1>10 DEF e, p, s

LEMMA FrontCurrentStep ==
  ASSUME OutputOK, NEW d, Whole(d), output = "front", NEW a \in Here \cup {""}, a # d.path
  PROVE  LET e == DefaultWide(DefaultOpacity(DefaultVisibility(DefaultOutput(
                    DefaultClipping(SetFrontPath(d, a))))))
         IN Whole(e) /\ SameRest(d, e)
<1>. DEFINE s == SetFrontPath(d, a)
            p == DefaultClipping(s)
            q == DefaultOpacity(DefaultVisibility(DefaultOutput(p)))
            e == DefaultWide(q)
<1>1. HasBackground /\ output # "camera"  BY OwnFacts
<1>2. /\ Base(s) /\ SameRest(d, s) /\ OthersHidden(s) /\ SizesGiven(s)
      /\ BackgroundBehind(s) /\ NoMuteWithoutPath(s) /\ MuteTold(s)
  BY <1>1, FrontPathStep DEF Whole, Sight, Geometry
<1>. HIDE DEF s
<1>3. Base(p) /\ SameSight(s, p) /\ SameRest(s, p) /\ SizesGiven(p) /\ ClippingTold(p)
  BY <1>2, DefaultClippingStep
<1>. HIDE DEF p
<1>4. s \in Displays  BY <1>2 DEF Base
<1>5. OthersHidden(p) /\ BackgroundBehind(p) /\ NoMuteWithoutPath(p) /\ MuteTold(p)
  BY <1>2, <1>3, <1>4, SightFrame
<1>6. /\ Base(q) /\ Sight(q) /\ SameRest(p, q) /\ SizesGiven(q) /\ ClippingTold(q)
      /\ OutputGiven(q) /\ CoversPlaced(q) /\ OutputTold(q)
  BY <1>1, <1>3, <1>5, DefaultsStep
<1>. HIDE DEF q
<1>7. /\ Base(e) /\ SameSight(q, e) /\ SameRest(q, e)
      /\ VideoPlaced(e) /\ SizesGiven(e) /\ WideTold(e) /\ OutputGiven(e) /\ CoversPlaced(e)
      /\ ClippingTold(e) /\ OutputTold(e)
  BY <1>1, <1>6, DefaultWideStep
<1>. HIDE DEF e
<1>8. q \in Displays  BY <1>6 DEF Base
<1>9. Sight(e)  BY <1>6, <1>7, <1>8, SightFrame
<1>10. SameRest(d, e)  BY <1>2, <1>3, <1>6, <1>7, RestFacts
<1>. QED  BY <1>7, <1>9, <1>10 DEF Whole, Geometry, e, q, p, s

LEMMA RearCurrentStep ==
  ASSUME OutputOK, NEW d, Whole(d), output = "rear", NEW a \in Here \cup {""}, a # d.path
  PROVE  LET e == DefaultWide(DefaultOpacity(DefaultVisibility(DefaultOutput(SetRearPath(d, a)))))
         IN Whole(e) /\ SameRest(d, e)
<1>. DEFINE s == SetFrontPath(d, a)
            q == DefaultOpacity(DefaultVisibility(DefaultOutput(s)))
            e == DefaultWide(q)
<1>1. HasBackground /\ output # "camera"  BY OwnFacts
<1>2. /\ Base(s) /\ SameRest(d, s) /\ OthersHidden(s) /\ SizesGiven(s) /\ SetRearPath(d, a) = s
      /\ BackgroundBehind(s) /\ NoMuteWithoutPath(s) /\ MuteTold(s)
  BY <1>1, FrontPathStep DEF Whole, Sight, Geometry
<1>. HIDE DEF s
<1>3. ClippingTold(s)  BY DEF ClippingTold, HasClipping
<1>6. /\ Base(q) /\ Sight(q) /\ SameRest(s, q) /\ SizesGiven(q) /\ ClippingTold(q)
      /\ OutputGiven(q) /\ CoversPlaced(q) /\ OutputTold(q)
  BY <1>1, <1>2, <1>3, DefaultsStep
<1>. HIDE DEF q
<1>7. /\ Base(e) /\ SameSight(q, e) /\ SameRest(q, e)
      /\ VideoPlaced(e) /\ SizesGiven(e) /\ WideTold(e) /\ OutputGiven(e) /\ CoversPlaced(e)
      /\ ClippingTold(e) /\ OutputTold(e)
  BY <1>1, <1>6, DefaultWideStep
<1>. HIDE DEF e
<1>8. q \in Displays  BY <1>6 DEF Base
<1>9. Sight(e)  BY <1>6, <1>7, <1>8, SightFrame
<1>10. SameRest(d, e)  BY <1>2, <1>6, <1>7, RestFacts
<1>11. e = DefaultWide(DefaultOpacity(DefaultVisibility(DefaultOutput(SetRearPath(d, a)))))
  BY <1>2 DEF e, q
<1>. QED  BY <1>7, <1>9, <1>10, <1>11 DEF Whole, Geometry

\* The cluster's path changes with its screen only, so the rectangle is set in any case.
LEMMA IClusterCurrentStep ==
  ASSUME OutputOK, NEW d, Whole(d), output = "ic", NEW a \in Here \cup {""}, a # d.path, plugged
  PROVE  LET e == DefaultOpacity(DefaultVisibility(DefaultOutput(DefaultClipping(SetIClusterPath(d, a)))))
         IN Whole(e) /\ SameRest(d, e)
<1>. DEFINE s == SetIClusterPath(d, a)
            p == DefaultClipping(s)
            e == DefaultOpacity(DefaultVisibility(DefaultOutput(p)))
<1>1. output # "camera" /\ ~HasWide  BY OwnFacts
<1>2. /\ Base(s) /\ SameRest(d, s) /\ OthersHidden(s) /\ SizesGiven(s)
      /\ BackgroundBehind(s) /\ NoMuteWithoutPath(s) /\ MuteTold(s)
  BY <1>1, IClusterPathStep DEF Whole, Sight, Geometry
<1>. HIDE DEF s
<1>3. Base(p) /\ SameSight(s, p) /\ SameRest(s, p) /\ SizesGiven(p) /\ ClippingTold(p)
  BY <1>2, DefaultClippingStep
<1>. HIDE DEF p
<1>4. s \in Displays  BY <1>2 DEF Base
<1>5. OthersHidden(p) /\ BackgroundBehind(p) /\ NoMuteWithoutPath(p) /\ MuteTold(p)
  BY <1>2, <1>3, <1>4, SightFrame
<1>6. /\ Base(e) /\ Sight(e) /\ SameRest(p, e) /\ SizesGiven(e) /\ ClippingTold(e)
      /\ OutputGiven(e) /\ CoversPlaced(e) /\ OutputTold(e) /\ VideoPlaced(e)
  BY <1>1, <1>3, <1>5, DefaultsStep
<1>. HIDE DEF e
<1>7. WideTold(e)  BY <1>1 DEF WideTold
<1>8. SameRest(d, e)  BY <1>2, <1>3, <1>6, RestFacts
<1>. QED  BY <1>6, <1>7, <1>8 DEF Whole, Geometry, e, p, s

LEMMA OutputHandlerStep ==
  ASSUME OutputOK, NEW d, Whole(d), d.path \in Here, NEW r \in Rectangle
  PROVE  LET s == SetDestRectangleCommon(d, d.path, r)
             e == IF s.ok THEN UpdateVpathOutput(s, r) ELSE [s EXCEPT !.behind = @ \cup {"out"}]
         IN Whole(e) /\ SameRest(d, e)
<1>. DEFINE s == SetDestRectangleCommon(d, d.path, r)
            e == IF s.ok THEN UpdateVpathOutput(s, r) ELSE [s EXCEPT !.behind = @ \cup {"out"}]
<1>1. /\ d \in Displays /\ Base(d) /\ Sight(d)
      /\ SizesGiven(d) /\ ClippingTold(d) /\ WideTold(d)
  BY DEF Whole, Base, Geometry
<1>2. /\ Base(e) /\ SameSight(d, e) /\ SameRest(d, e)
      /\ VideoPlaced(e) /\ SizesGiven(e) /\ OutputGiven(e) /\ CoversPlaced(e) /\ OutputTold(e)
      /\ ClippingTold(e) /\ WideTold(e)
  BY <1>1, RectangleStep
<1>. HIDE DEF e
<1>3. Sight(e)  BY <1>1, <1>2, SightFrame
<1>. QED  BY <1>2, <1>3 DEF Whole, Geometry, e, s

\* The camera's wide mode is nobody else's.
LEMMA CameraWideStep ==
  ASSUME OutputOK, NEW d, Base(d), output = "camera", NEW w \in WideModes
  PROVE  LET e == SetCameraWideMode(d, w)
         IN /\ Base(e) /\ SameSight(d, e) /\ SameRest(d, e)
            /\ SizesGiven(d) => SizesGiven(e)
<1>. DEFINE t == d.setting
            u == SetVideoWideMode(t, Id("CAMERA"), w)
            e == [d EXCEPT !.setting = u]
<1>1. d \in Displays /\ t \in Settings  BY FieldsOfDisplay DEF Base
<1>2. "CAMERA" \in Here /\ \A b \in Here : b = "CAMERA"  BY OwnFacts
<1>3. PICK a \in Here : a = "CAMERA"  BY <1>2
<1>4. u \in Settings /\ SameSeen(t, u) /\ Orig(u, a) = Orig(t, a) /\ Out(u, a) = Out(t, a)
  BY <1>1, <1>3, SetWideFacts
<1>5. SetCameraWideMode(d, w) = e  BY DEF SetCameraWideMode
<1>. HIDE DEF u
<1>6. e \in Displays /\ e.setting = u /\ e.ivi = d.ivi /\ Untold(d, e)
  BY <1>1, <1>4, WithSetting
<1>. HIDE DEF e
<1>7. /\ e.path = d.path /\ e.file = d.file /\ e.ctl = d.ctl /\ e.sts = d.sts /\ e.told = d.told
      /\ e.behind = d.behind
  BY <1>6 DEF Untold, Published
<1>8. \A b \in Here : Orig(u, b) = Orig(t, b) /\ Out(u, b) = Out(t, b)  BY <1>2, <1>3, <1>4
<1>9. Base(e)  BY <1>6 DEF Base
<1>10. SameSight(d, e)  BY <1>4, <1>6, <1>7, <1>8, SameFacts DEF SameSight, Keeps
<1>11. SameRest(d, e)  BY <1>6, <1>7 DEF SameRest
<1>12. SizesGiven(d) => SizesGiven(e)  BY <1>6, <1>8 DEF SizesGiven
<1>. QED  BY <1>5, <1>9, <1>10, <1>11, <1>12

LEMMA CameraOutputStep ==
  ASSUME OutputOK, NEW d, Whole(d), output = "camera", NEW r \in Rectangle, NEW first \in BOOLEAN
  PROVE  LET p == IF first THEN SetCameraWideMode(d, "invalid") ELSE d
             s == SetCameraDestRectangle(p, r)
             e == IF s.ok THEN UpdateVpathOutput(s, r)
                  ELSE IF first THEN SetCameraWideMode(s, "normal") ELSE s
         IN Whole(e) /\ SameRest(d, e)
<1>. DEFINE p == IF first THEN SetCameraWideMode(d, "invalid") ELSE d
            s == SetCameraDestRectangle(p, r)
            e == IF s.ok THEN UpdateVpathOutput(s, r)
                 ELSE IF first THEN SetCameraWideMode(s, "normal") ELSE s
<1>1. /\ d \in Displays /\ Base(d) /\ Sight(d) /\ SizesGiven(d)
  BY DEF Whole, Base, Geometry
<1>2. PICK a \in Here : a = "CAMERA"  BY OwnFacts
<1>3. Base(p) /\ SameSight(d, p) /\ SameRest(d, p) /\ SizesGiven(p)
  <2>1. CASE first
    <3>1. PICK w \in WideModes : w = "invalid"  BY DEF WideModes
    <3>2. p = SetCameraWideMode(d, w)  BY <2>1, <3>1
    <3>. HIDE DEF p
    <3>. QED  BY <1>1, <3>2, CameraWideStep
  <2>2. CASE ~first
    <3>1. p = d  BY <2>2
    <3>2. SameSight(d, d)  BY SameFacts DEF SameSight, Keeps
    <3>. HIDE DEF p
    <3>. QED  BY <1>1, <3>1, <3>2, RestFacts
  <2>. QED  BY <2>1, <2>2
<1>. HIDE DEF p
<1>. DEFINE q == SetDestRectangleCommon(p, a, r)
            f == IF q.ok THEN UpdateVpathOutput(q, r) ELSE [q EXCEPT !.behind = @ \cup {"out"}]
<1>4. /\ Base(f) /\ SameSight(p, f) /\ SameRest(p, f)
      /\ VideoPlaced(f) /\ SizesGiven(f) /\ OutputGiven(f) /\ CoversPlaced(f) /\ OutputTold(f)
      /\ q.ok
  BY <1>3, RectangleStep
<1>5. e = f
  <2>1. s = q  BY <1>2 DEF SetCameraDestRectangle
  <2>. HIDE DEF s, q
  <2>. QED  BY <1>4, <2>1
<1>. HIDE DEF f, e
<1>6. p \in Displays  BY <1>3 DEF Base
<1>7. Sight(f)  BY <1>1, <1>3, <1>4, <1>6, SightFrame
<1>8. ClippingTold(f) /\ WideTold(f)  BY OwnFacts DEF ClippingTold, WideTold, HasClipping
<1>9. SameRest(d, f)  BY <1>3, <1>4, RestFacts
<1>. QED  BY <1>4, <1>5, <1>7, <1>8, <1>9 DEF Whole, Geometry, e, s, p

\* What is cut out of the current path's picture.
LEMMA CutStep ==
  ASSUME OutputOK, NEW d, Whole(d), d.path \in Here, output # "camera", NEW on \in BOOLEAN,
         NEW r \in Rectangle, on => ValidClipping(d.setting, Id(d.path), r)
  PROVE  LET e == SetSourceRectangleCommon(d, d.path, on, r)
         IN /\ Base(e) /\ SameSight(d, e) /\ SameRest(d, e)
            /\ e.path = d.path /\ e.sts = d.sts /\ e.ctl = d.ctl
            /\ VideoPlaced(e) /\ SizesGiven(e) /\ OutputGiven(e) /\ CoversPlaced(e)
            /\ OutputTold(e) /\ WideTold(e)
<1>. DEFINE t == d.setting
            c == d.ivi
            a == d.path
            e == SetSourceRectangleCommon(d, a, on, r)
            u == SetVideoInputParam(t, Id(a), on, r)
<1>1. /\ d \in Displays /\ Committed(c) /\ Present(c) /\ t \in Settings
      /\ SizesGiven(d) /\ OutputGiven(d) /\ CoversPlaced(d) /\ OutputTold(d) /\ WideTold(d)
  BY FieldsOfDisplay DEF Whole, Base, Geometry
<1>2. /\ "" \notin Here /\ \A b \in Here : Surf(b) \in Names
      /\ \A kind \in Followers : GetBlinderID(kind) \in Own
  BY NameFacts, OwnFacts
<1>3. /\ u \in Settings /\ SameSeen(t, u)
      /\ \A b \in Here : b # a => SameSizes(t, u, b)
      /\ Orig(u, a) = Orig(t, a) /\ Out(u, a) = Out(t, a) /\ WideOf(u, a) = WideOf(t, a)
  BY <1>1, SetInputFacts
<1>. HIDE DEF u
<1>4. /\ e \in Displays /\ e.setting = u /\ Published(d, e)
      /\ SameFlags(c, e.ivi) /\ SameShown(c, e.ivi) /\ Committed(e.ivi)
      /\ \A n \in Own : Lies(e.ivi, n) = Lies(c, n)
      /\ There(c, Surf(a)) => /\ e.behind = d.behind \ {"rect"}
                              /\ Cut(e.ivi, Surf(a)) = Scaled(u, a).src
                              /\ Lies(e.ivi, Surf(a)) = Scaled(u, a).dest
      /\ ~There(c, Surf(a)) => e.behind = d.behind
  BY <1>1, SetSourceStep DEF u
<1>. HIDE DEF e
<1>5. /\ e.path = a /\ e.file = d.file /\ e.ctl = d.ctl /\ e.sts = d.sts /\ e.told = d.told
  BY <1>4 DEF Published
<1>6. \A b \in Here : Orig(u, b) = Orig(t, b) /\ Out(u, b) = Out(t, b)
  BY <1>3 DEF SameSizes
<1>7. Present(e.ivi)
  <2>1. \A n \in Names : /\ There(e.ivi, n) <=> There(c, n)
                         /\ Heard(e.ivi, n) \/ Pictured(e.ivi, n) => There(c, n)
                         /\ Shown(e.ivi, n) => There(c, n)
    BY <1>1, <1>4 DEF SameFlags, SameShown, Present
  <2>. QED  BY <1>1, <2>1, PresentFrame
<1>8. \A m \in {"bg", "muted", "visible", "opacity", "place", "out"} : m \in e.behind <=> m \in d.behind
  BY <1>4
<1>9. SameSight(d, e)
  <2>1. Keeps(d, e, {"bg", "muted", "visible", "opacity"})  BY <1>8 DEF Keeps
  <2>2. \A b \in Here : Heard(e.ivi, Surf(b)) /\ Orig(u, b).set =>
                          Heard(c, Surf(b)) /\ Orig(t, b).set
    BY <1>2, <1>4, <1>6 DEF SameFlags
  <2>. QED  BY <1>3, <1>4, <1>5, <2>1, <2>2 DEF SameSight
<1>10. SameRest(d, e)  BY <1>4, <1>5 DEF SameRest, SameFlags
<1>11. SizesGiven(e)  BY <1>1, <1>4, <1>6 DEF SizesGiven
<1>12. VideoPlaced(e)
  <2>1. ASSUME NEW b \in Here, b = e.path \/ output = "camera", Heard(e.ivi, Surf(b)), Orig(u, b).set
        PROVE  [src |-> Cut(e.ivi, Surf(b)), dest |-> Lies(e.ivi, Surf(b))] \in PicturesOf(u, b)
    <3>1. b = a  BY <1>5, <2>1
    <3>2. There(c, Surf(a))  BY <1>1, <1>2, <1>4, <2>1, <3>1 DEF SameFlags, Present
    <3>3. Orig(u, a).set /\ Out(u, a).set /\ Orig(u, a).rect \in Sizes \ {NoRect}
      BY <1>4, <1>11, <2>1, <3>1 DEF SizesGiven
    <3>4. [src |-> Scaled(u, a).src, dest |-> Scaled(u, a).dest] \in PicturesOf(u, a)
      BY <1>3, <3>3, PlacedFacts
    <3>. QED  BY <1>4, <3>1, <3>2, <3>4
  <2>. QED  BY <1>4, <2>1 DEF VideoPlaced
<1>13. ~("place" \in d.behind /\ "out" \in d.behind) => Out(t, a).set
  BY <1>1, <1>2 DEF OutputGiven
<1>14. Out(t, a).set => Dest(u, a) = Dest(t, a) /\ Blind(u, a) = Blind(t, a)
  BY <1>1, <1>3, PlacedFacts
<1>15. OutputGiven(e)  BY <1>3, <1>4, <1>5, <1>8, <1>13 DEF OutputGiven
<1>16. CoversPlaced(e)
  <2>1. ASSUME "place" \notin e.behind, NEW kind \in Followers
        PROVE  Lies(e.ivi, GetBlinderID(kind)) = Blind(u, a)
    <3>1. Lies(c, GetBlinderID(kind)) = Blind(t, a)  BY <1>1, <1>2, <1>8, <2>1 DEF CoversPlaced
    <3>. QED  BY <1>2, <1>4, <1>8, <1>13, <1>14, <2>1, <3>1
  <2>. QED  BY <1>4, <1>5, <2>1 DEF CoversPlaced
<1>17. OutputTold(e)
  <2>1. "out" \notin e.behind => d.sts.out = Dest(t, a)  BY <1>1, <1>2, <1>8 DEF OutputTold
  <2>. QED  BY <1>4, <1>5, <1>8, <1>13, <1>14, <2>1 DEF OutputTold
<1>18. WideTold(e)  BY <1>1, <1>3, <1>4, <1>5 DEF WideTold
<1>. QED
  BY <1>4, <1>5, <1>7, <1>9, <1>10, <1>11, <1>12, <1>15, <1>16, <1>17, <1>18 DEF Base, e

LEMMA ClippingHandlerStep ==
  ASSUME OutputOK, NEW d, Whole(d), d.path \in Here, output # "camera", NEW on \in BOOLEAN,
         NEW r \in Rectangle, on => ValidClipping(d.setting, Id(d.path), r), NEW always \in BOOLEAN
  PROVE  LET s == SetSourceRectangleCommon(d, d.path, on, r)
             e == IF s.ok \/ always THEN UpdateVpathClipping(s) ELSE [s EXCEPT !.behind = @ \cup {"clip"}]
         IN Whole(e) /\ SameRest(d, e)
<1>. DEFINE s == SetSourceRectangleCommon(d, d.path, on, r)
            tells == s.ok \/ always
            clipOn == s.setting[Id(s.path)].clipOn
            clip == GetSourceRectangleCommon(s, s.path)
            e == IF tells THEN UpdateVpathClipping(s) ELSE [s EXCEPT !.behind = @ \cup {"clip"}]
            y == IF tells THEN [s.sts EXCEPT !.clipOn = clipOn, !.clip = clip] ELSE s.sts
            m == IF tells THEN s.behind \ {"clip"} ELSE s.behind \cup {"clip"}
            f == [s EXCEPT !.sts = y, !.behind = m]
<1>1. /\ Base(s) /\ SameSight(d, s) /\ SameRest(d, s) /\ s.path = d.path
      /\ VideoPlaced(s) /\ SizesGiven(s) /\ OutputGiven(s) /\ CoversPlaced(s)
      /\ OutputTold(s) /\ WideTold(s)
  BY CutStep
<1>2. d \in Displays /\ Sight(d)  BY DEF Whole, Base
<1>. HIDE DEF s
<1>3. /\ s \in Displays /\ s.sts \in Statuses /\ s.behind \in SUBSET Marks /\ s.setting \in Settings
      /\ s.path \in Here
  BY <1>1, FieldsOfDisplay DEF Base
<1>4. clipOn \in BOOLEAN /\ clip \in Rectangle /\ (clipOn <=> ClipOn(s.setting, s.path))
  BY <1>3, FieldTypes, RectangleFacts DEF ClipOn
<1>5. e = f
  <2>1. CASE tells
    <3>1. e = [s EXCEPT !.sts.clipOn = clipOn, !.sts.clip = clip, !.behind = @ \ {"clip"}]
      BY <2>1 DEF UpdateVpathClipping
    <3>2. y = [s.sts EXCEPT !.clipOn = clipOn, !.clip = clip] /\ m = s.behind \ {"clip"}  BY <2>1
    <3>. HIDE DEF y, m, clipOn, clip, e
    <3>. QED  BY <1>3, <3>1, <3>2 DEF Displays, Statuses
  <2>2. CASE ~tells
    <3>1. e = [s EXCEPT !.behind = @ \cup {"clip"}]  BY <2>2
    <3>2. y = s.sts /\ m = s.behind \cup {"clip"}  BY <2>2
    <3>. HIDE DEF y, m, clipOn, clip, e
    <3>. QED  BY <1>3, <3>1, <3>2 DEF Displays
  <2>. QED  BY <2>1, <2>2
<1>. HIDE DEF clipOn, clip, e, tells
<1>6. /\ y \in Statuses /\ y.visible = s.sts.visible /\ y.opaque = s.sts.opaque /\ y.mute = s.sts.mute
      /\ y.display = s.sts.display /\ y.out = s.sts.out /\ y.wide = s.sts.wide
      /\ tells => (y.clipOn <=> clipOn)
  BY <1>3, <1>4 DEF Statuses
<1>7. /\ m \in SUBSET Marks /\ (~tells => "clip" \in m)
      /\ \A k \in s.behind \ {"clip"} : k \in m
  BY <1>3 DEF Marks
<1>. HIDE DEF y, m
<1>8. /\ f \in Displays /\ SameScene(s, f) /\ f.behind = m /\ f.sts = y /\ f.ctl = s.ctl
      /\ f.path = s.path /\ f.setting = s.setting /\ f.ivi = s.ivi
  BY <1>3, <1>6, <1>7 DEF Displays, SameScene
<1>. HIDE DEF f
<1>9. Base(f) /\ SizesGiven(f) /\ SameRest(s, f)  BY <1>1, <1>6, <1>8, SceneFacts
<1>10. /\ Keeps(s, f, {"rect"}) /\ Keeps(s, f, {"place", "out"}) /\ Keeps(s, f, {"place"})
       /\ Keeps(s, f, {"out"}) /\ Keeps(s, f, {"bg", "muted", "visible", "opacity"})
  BY <1>7, <1>8 DEF Keeps
<1>11. VideoPlaced(f) /\ OutputGiven(f) /\ CoversPlaced(f) /\ OutputTold(f) /\ WideTold(f)
  BY <1>1, <1>6, <1>8, <1>10, TellFrame
<1>12. ClippingTold(f)  BY <1>4, <1>6, <1>7, <1>8 DEF ClippingTold
<1>13. SameSight(s, f)  BY <1>6, <1>8, <1>10, SameFacts DEF SameSight
<1>14. Sight(f)
  <2>1. Sight(s)  BY <1>1, <1>2, SightFrame
  <2>. QED  BY <1>3, <1>13, <2>1, SightFrame
<1>15. SameRest(d, f)  BY <1>1, <1>9, RestFacts
<1>. QED  BY <1>5, <1>9, <1>11, <1>12, <1>14, <1>15 DEF Whole, Geometry, e, tells, s

\* The camera's path; where its video lies by then is told after it.
LEMMA CameraPathStep ==
  ASSUME OutputOK, NEW d, Whole(d), output = "camera", NEW a \in Here \cup {""}, a # d.path
  PROVE  LET e == SetCameraPath(d, a)
         IN /\ Base(e) /\ Sight(e) /\ SameRest(d, e) /\ e.sts = d.sts
            /\ VideoPlaced(e) /\ SizesGiven(e) /\ OutputGiven(e) /\ CoversPlaced(e)
            /\ ClippingTold(e) /\ WideTold(e)
            /\ ~e.ok => OutputTold(e) /\ ~There(e.ivi, Surf(e.path))
            /\ e.ok => e.path = a
            /\ a = "" => \A b \in Here : ~Shown(e.ivi, Surf(b))
<1>. DEFINE e == SetCameraPath(d, a)
            p == [e EXCEPT !.path = a]
<1>1. /\ d \in Displays /\ Base(d) /\ Committed(d.ivi) /\ Present(d.ivi) /\ d.path \in Here \cup {""}
      /\ OthersHidden(d) /\ VideoPlaced(d) /\ SizesGiven(d) /\ CoversPlaced(d) /\ OutputTold(d)
      /\ d.behind \in SUBSET Marks
  BY FieldsOfDisplay DEF Whole, Base, Sight, Geometry
<1>2. /\ "" \notin Here /\ \A b \in Here : Surf(b) \in Names
      /\ \A b, x \in Here : b = x
      /\ ~HasWide /\ ~HasBackground /\ ~HasClipping
      /\ \A kind \in Followers : kind = "mute" /\ GetBlinderID(kind) \in Own
      /\ \A n \in Own : n \in Names
  <2>1. "" \notin Here /\ \A b \in Here : Surf(b) \in Names  BY NameFacts
  <2>2. \A b, x \in Here : b = x  BY OwnFacts
  <2>3. ~HasWide /\ ~HasBackground /\ ~HasClipping  BY OwnFacts DEF HasClipping
  <2>4. \A kind \in Followers : kind = "mute" /\ GetBlinderID(kind) \in Own  BY OwnFacts
  <2>5. \A n \in Own : n \in Names  BY DEF Names
  <2>. QED  BY <2>1, <2>2, <2>3, <2>4, <2>5
<1>3. /\ e \in Displays
      /\ \A n \in Own : Shown(e.ivi, n) <=> Shown(d.ivi, n)
      /\ Switched(d, p, a) /\ e.behind = IF a # "" THEN d.behind \ {"place"} ELSE d.behind
      /\ e.ivi = p.ivi /\ e.setting = p.setting /\ e.sts = d.sts /\ e.file = d.file
      /\ e.ctl = d.ctl /\ e.told = d.told
      /\ a # "" => Lies(e.ivi, GetBlinderID("mute")) = Blind(e.setting, a)
      /\ \A n \in Own : a = "" => Lies(e.ivi, n) = Lies(d.ivi, n)
      /\ IF d.path = "" \/ There(d.ivi, Surf(d.path))
         THEN e.path = a /\ e.ok ELSE e.path = d.path /\ ~e.ok
  BY <1>1, SetCameraPathStep
<1>. HIDE DEF e, p
<1>4. /\ SameFlags(d.ivi, e.ivi) /\ Committed(e.ivi)
      /\ \A b \in Here :
           /\ SameSizes(d.setting, e.setting, b)
           /\ Vis(e.setting, b) <=> IF b = d.path THEN FALSE
                                    ELSE IF b = a THEN TRUE ELSE Vis(d.setting, b)
           /\ Cut(e.ivi, Surf(b)) = Cut(d.ivi, Surf(b)) /\ Lies(e.ivi, Surf(b)) = Lies(d.ivi, Surf(b))
           /\ Shown(e.ivi, Surf(b)) <=>
                IF b = d.path THEN FALSE
                ELSE IF b = a /\ There(d.ivi, Surf(b)) THEN TRUE ELSE Shown(d.ivi, Surf(b))
  BY <1>3 DEF Switched
<1>5. Base(p) /\ SameRest(d, p)
  <2>1. \A n \in Own : Shown(p.ivi, n) => There(d.ivi, n)  BY <1>1, <1>2, <1>3 DEF Present
  <2>. QED  BY <1>1, <1>3, <2>1, SwitchedFacts
<1>6. Base(e)  BY <1>3, <1>5 DEF Base
<1>7. SameRest(d, e)  BY <1>3, <1>4 DEF SameRest, SameFlags
<1>8. e.ok \/ (e.path = d.path /\ a = "" /\ d.path \in Here /\ ~There(e.ivi, Surf(d.path)))
  BY <1>1, <1>2, <1>3, <1>4 DEF SameFlags
<1>9. OthersHidden(e)
  <2>1. ASSUME NEW b \in Here, Shown(e.ivi, Surf(b)), Initial[b] = "invisible"  PROVE b = e.path
    <3>1. b # d.path  BY <1>4, <2>1
    <3>2. e.path = a  BY <1>2, <1>3, <1>8, <2>1, <3>1
    <3>. QED  BY <1>1, <1>4, <2>1, <3>1, <3>2 DEF OthersHidden
  <2>. QED  BY <2>1 DEF OthersHidden
<1>10. ShownAsAsked(e)
  <2>1. ASSUME e.path # "", e.ok  PROVE /\ Vis(e.setting, e.path)
                                        /\ Heard(e.ivi, Surf(e.path)) => Shown(e.ivi, Surf(e.path))
    <3>0. e.path = a
      <4>1. IF d.path = "" \/ There(d.ivi, Surf(d.path))
            THEN e.path = a /\ e.ok ELSE e.path = d.path /\ ~e.ok
        BY <1>3
      <4>. QED  BY <2>1, <4>1
    <3>1. e.path = a /\ a \in Here /\ a # d.path  BY <2>1, <3>0
    <3>2. Heard(e.ivi, Surf(a)) => There(d.ivi, Surf(a))  BY <1>1, <1>2, <1>4, <3>1 DEF SameFlags, Present
    <3>. QED  BY <1>4, <3>1, <3>2
  <2>2. ASSUME ~e.ok  PROVE ~Shown(e.ivi, Surf(e.path)) /\ ~Vis(e.setting, e.path)
    BY <1>4, <1>8, <2>2
  <2>. QED  BY <2>1, <2>2 DEF ShownAsAsked
<1>11. Sight(e)
  BY <1>2, <1>9, <1>10 DEF Sight, BackgroundBehind, NoMuteWithoutPath, VisibilityTold, OpacityTold, MuteTold
<1>12. \A b \in Here : /\ Orig(e.setting, b) = Orig(d.setting, b) /\ Out(e.setting, b) = Out(d.setting, b)
                       /\ Dest(e.setting, b) = Dest(d.setting, b)
                       /\ Blind(e.setting, b) = Blind(d.setting, b)
                       /\ PicturesOf(e.setting, b) = PicturesOf(d.setting, b)
  BY <1>4, SameSizesFacts DEF SameSizes
<1>13. VideoPlaced(e)
  <2>1. "rect" \in d.behind => "rect" \in e.behind  BY <1>3
  <2>2. \A b \in Here : Heard(e.ivi, Surf(b)) <=> Heard(d.ivi, Surf(b))  BY <1>2, <1>4 DEF SameFlags
  <2>. QED  BY <1>1, <1>4, <1>12, <2>1, <2>2 DEF VideoPlaced
<1>14. SizesGiven(e) /\ OutputGiven(e) /\ ClippingTold(e) /\ WideTold(e)
  BY <1>1, <1>2, <1>12 DEF SizesGiven, OutputGiven, ClippingTold, WideTold
<1>15. CoversPlaced(e)
  <2>1. CASE a # ""
    <3>1. e.path = a  BY <1>3, <1>8, <2>1
    <3>. QED  BY <1>2, <1>3, <2>1, <3>1 DEF CoversPlaced
  <2>2. CASE a = "" /\ e.ok
    <3>1. e.path = ""  BY <1>3, <2>2
    <3>. QED  BY <3>1 DEF CoversPlaced
  <2>3. CASE a = "" /\ ~e.ok
    <3>1. e.path = d.path /\ d.path \in Here /\ e.behind = d.behind  BY <1>3, <1>8, <2>3
    <3>2. \A kind \in Followers : Lies(e.ivi, GetBlinderID(kind)) = Lies(d.ivi, GetBlinderID(kind))
      BY <1>2, <1>3, <2>3
    <3>. QED  BY <1>1, <1>12, <3>1, <3>2 DEF CoversPlaced
  <2>. QED  BY <2>1, <2>2, <2>3
<1>16. ~e.ok => OutputTold(e) /\ ~There(e.ivi, Surf(e.path))
  <2>1. SUFFICES ASSUME ~e.ok  PROVE OutputTold(e) /\ ~There(e.ivi, Surf(e.path))
    OBVIOUS
  <2>2. e.path = d.path /\ d.path \in Here /\ e.behind = d.behind /\ ~There(e.ivi, Surf(e.path))
    BY <1>3, <1>8, <2>1
  <2>. QED  BY <1>1, <1>3, <1>12, <2>2 DEF OutputTold
<1>17. a = "" => \A b \in Here : ~Shown(e.ivi, Surf(b))
  BY <1>1, <1>2, <1>4
<1>. QED
  BY <1>3, <1>6, <1>7, <1>8, <1>11, <1>13, <1>14, <1>15, <1>16, <1>17 DEF e

LEMMA CameraCurrentStep ==
  ASSUME OutputOK, NEW d, Whole(d), output = "camera", NEW a \in Here \cup {""}, a # d.path
  PROVE  LET s == SetCameraPath(d, a)
             e == IF s.ok THEN UpdateVpathOutput(s, GetDestRectangleCommon(s, "CAMERA")) ELSE s
         IN Whole(e) /\ SameRest(d, e)
<1>. DEFINE s == SetCameraPath(d, a)
            r == GetDestRectangleCommon(s, "CAMERA")
            p == UpdateVpathOutput(s, r)
            e == IF s.ok THEN p ELSE s
<1>1. /\ Base(s) /\ Sight(s) /\ SameRest(d, s) /\ s.sts = d.sts
      /\ VideoPlaced(s) /\ SizesGiven(s) /\ OutputGiven(s) /\ CoversPlaced(s)
      /\ ClippingTold(s) /\ WideTold(s)
      /\ ~s.ok => OutputTold(s)
  BY CameraPathStep
<1>. HIDE DEF s
<1>2. CASE ~s.ok
  <2>1. e = s  BY <1>2
  <2>. HIDE DEF e
  <2>. QED  BY <1>1, <1>2, <2>1 DEF Whole, Geometry, e, p, r, s
<1>3. CASE s.ok
  <2>1. s \in Displays /\ s.setting \in Settings /\ s.path \in Here \cup {""}
    BY <1>1, FieldsOfDisplay DEF Base
  <2>2. PICK b \in Here : b = "CAMERA" /\ \A x \in Here : x = b  BY OwnFacts
  <2>3. r = Dest(s.setting, b) /\ r \in Rectangle  BY <2>1, <2>2, RectangleFacts, FieldTypes
  <2>. HIDE DEF r
  <2>4. /\ p \in Displays /\ SameScene(s, p) /\ p.ctl = s.ctl
        /\ p.sts.out = r /\ p.sts.wide = s.sts.wide
        /\ p.sts.visible <=> s.sts.visible
        /\ p.sts.opaque <=> s.sts.opaque
        /\ p.sts.mute <=> s.sts.mute
        /\ p.sts.clipOn <=> s.sts.clipOn
        /\ p.sts.display <=> s.sts.display
        /\ p.behind = s.behind \ {"out"}
    BY <1>1, <2>3, TellOutputStep
  <2>. HIDE DEF p
  <2>5. Base(p) /\ SizesGiven(p) /\ SameRest(s, p)  BY <1>1, <2>4, SceneFacts
  <2>6. /\ Keeps(s, p, {"rect"}) /\ Keeps(s, p, {"place"}) /\ Keeps(s, p, {"clip"})
        /\ Keeps(s, p, {"bg", "muted", "visible", "opacity"})
    BY <2>4 DEF Keeps
  <2>7. VideoPlaced(p) /\ CoversPlaced(p) /\ ClippingTold(p) /\ WideTold(p)
    BY <1>1, <2>4, <2>6, TellFrame
  <2>8. p.path = s.path /\ p.setting = s.setting /\ p.ivi = s.ivi  BY <2>4 DEF SameScene
  <2>9. OutputGiven(p)  BY DEF OutputGiven
  <2>10. OutputTold(p)  BY <2>1, <2>2, <2>3, <2>4, <2>8 DEF OutputTold
  <2>11. SameSight(s, p)  BY <2>4, <2>6, <2>8, SameFacts DEF SameSight
  <2>12. Sight(p)  BY <1>1, <2>1, <2>11, SightFrame
  <2>13. SameRest(d, p)  BY <1>1, <2>5, RestFacts
  <2>14. Whole(p)  BY <2>5, <2>7, <2>9, <2>10, <2>12 DEF Whole, Geometry
  <2>15. e = p  BY <1>3
  <2>. HIDE DEF e
  <2>. QED  BY <2>13, <2>14, <2>15 DEF e, p, r, s
<1>. QED  BY <1>2, <1>3

LEMMA ValidClippingFacts ==
  ASSUME NEW t, NEW u, NEW a, NEW r, Orig(u, a) = Orig(t, a)
  PROVE  ValidClipping(u, Id(a), r) <=> ValidClipping(t, Id(a), r)
BY DEF ValidClipping, Orig

\* The size of the camera's picture; nothing is seen of it until a surface follows.
LEMMA CameraSizeStep ==
  ASSUME OutputOK, NEW d, Whole(d), output = "camera", NEW r \in Rectangle
  PROVE  LET e == SetCameraForceInputSize([d EXCEPT !.behind = @ \cup {"rect", "place", "out"}], r)
         IN /\ Whole(e) /\ SameRest(d, e) /\ {"rect", "place", "out"} \subseteq e.behind
            /\ \A a \in Here : Orig(e.setting, a) = Orig(d.setting, a)
<1>. DEFINE t == d.setting
            u == SetVideoInputParam(t, Id("CAMERA"), TRUE, r)
            m == d.behind \cup {"rect", "place", "out"}
            e == [d EXCEPT !.setting = u, !.behind = m]
<1>1. /\ d \in Displays /\ t \in Settings /\ d.behind \in SUBSET Marks /\ SizesGiven(d) /\ Sight(d)
      /\ Base(d)
  BY FieldsOfDisplay DEF Whole, Base, Geometry
<1>2. PICK a \in Here : a = "CAMERA" /\ \A b \in Here : b = a  BY OwnFacts
<1>3. u \in Settings /\ SameSeen(t, u) /\ Orig(u, a) = Orig(t, a) /\ Out(u, a) = Out(t, a)
  <2>1. PICK yes \in BOOLEAN : yes = TRUE  OBVIOUS
  <2>2. u = SetVideoInputParam(t, Id(a), yes, r)  BY <1>2, <2>1
  <2>. HIDE DEF u
  <2>. QED  BY <1>1, <2>2, SetInputFacts
<1>4. SetCameraForceInputSize([d EXCEPT !.behind = @ \cup {"rect", "place", "out"}], r) = e
  BY <1>1 DEF SetCameraForceInputSize, Displays
<1>5. m \in SUBSET Marks /\ \A k \in d.behind : k \in m  BY <1>1 DEF Marks
<1>6. "rect" \in m /\ "place" \in m /\ "out" \in m  OBVIOUS
<1>. HIDE DEF u, m
<1>7. /\ e \in Displays /\ e.setting = u /\ e.behind = m /\ e.ivi = d.ivi /\ e.path = d.path
      /\ e.file = d.file /\ e.ctl = d.ctl /\ e.sts = d.sts /\ e.told = d.told
  BY <1>1, <1>3, <1>5 DEF Displays
<1>. HIDE DEF e
<1>8. \A b \in Here : Orig(u, b) = Orig(t, b) /\ Out(u, b) = Out(t, b)  BY <1>2, <1>3
<1>9. Base(e)  BY <1>1, <1>7 DEF Base
<1>10. SameSight(d, e)  BY <1>3, <1>5, <1>7, <1>8, SameFacts DEF SameSight, Keeps
<1>11. Sight(e)  BY <1>1, <1>10, SightFrame
<1>12. ~HasWide /\ ~HasClipping  BY OwnFacts DEF HasClipping
<1>13. VideoPlaced(e)  BY <1>6, <1>7 DEF VideoPlaced
<1>14. SizesGiven(e)  BY <1>1, <1>7, <1>8 DEF SizesGiven
<1>15. OutputGiven(e)  BY DEF OutputGiven
<1>16. CoversPlaced(e)  BY <1>6, <1>7 DEF CoversPlaced
<1>17. ClippingTold(e) /\ WideTold(e)  BY <1>12 DEF ClippingTold, WideTold
<1>18. OutputTold(e)  BY <1>6, <1>7 DEF OutputTold
<1>19. SameRest(d, e)  BY <1>7 DEF SameRest
<1>20. Whole(e)
  BY <1>9, <1>11, <1>13, <1>14, <1>15, <1>16, <1>17, <1>18 DEF Whole, Geometry
<1>. QED  BY <1>4, <1>6, <1>7, <1>8, <1>19, <1>20

\* The surface and the mute follow the picture's size.
LEMMA CameraSourceStep ==
  ASSUME OutputOK, NEW d, Whole(d), output = "camera", NEW r \in Rectangle, {"rect", "place", "out"} \subseteq d.behind,
         ValidClipping(d.setting, Id("CAMERA"), r)
  PROVE  LET e == SetCameraForceSourceRectangle(d, r)
         IN Whole(e) /\ SameRest(d, e)
<1>. DEFINE t == d.setting
            c == d.ivi
            u == SetVideoInputParam(t, Id("CAMERA"), TRUE, r)
            s == SetSourceRectangleCommon(d, "CAMERA", TRUE, r)
            q == PlaceBlinders(s, {"mute"}, "CAMERA")
            m == IF s.ok THEN q.behind \ {"place"} ELSE s.behind
            b == IF s.ok THEN [q EXCEPT !.behind = m] ELSE s
            e == SetCameraForceSourceRectangle(d, r)
<1>1. /\ d \in Displays /\ Committed(c) /\ Present(c) /\ t \in Settings
      /\ d.behind \in SUBSET Marks /\ SizesGiven(d) /\ Sight(d) /\ CoversPlaced(d)
  BY FieldsOfDisplay DEF Whole, Base, Geometry
<1>2. PICK a \in Here : a = "CAMERA"  BY OwnFacts
<1>3. /\ \A x \in Here : x = a /\ Surf(x) \in Names
      /\ Blinders(output) = {"mute"} /\ {"mute"} \in SUBSET Blinders(output)
      /\ \A kind \in Followers : kind = "mute"
      /\ GetBlinderID("mute") \in Own /\ GetBlinderID("mute") \in Names /\ Surf(a) \notin Own
      /\ ~HasWide /\ ~HasClipping
  <2>1. \A x \in Here : x = a /\ Surf(x) \in Names  BY <1>2, OwnFacts, NameFacts
  <2>2. /\ Blinders(output) = {"mute"} /\ \A kind \in Followers : kind = "mute"
        /\ GetBlinderID("mute") \in Own
        /\ ~HasWide /\ ~HasClipping
    BY OwnFacts DEF HasClipping
  <2>. QED  BY <2>1, <2>2, NameFacts DEF Names
<1>4. PICK yes \in BOOLEAN : yes = TRUE  OBVIOUS
<1>5. s = SetSourceRectangleCommon(d, a, yes, r)  BY <1>2, <1>4
<1>23. u = SetVideoInputParam(t, Id(a), yes, r)  BY <1>2, <1>4
<1>24. yes => ValidClipping(d.setting, Id(a), r)  BY <1>2
<1>. HIDE DEF u, s
<1>6. /\ u \in Settings /\ SameSeen(t, u)
      /\ Orig(u, a) = Orig(t, a) /\ Out(u, a) = Out(t, a)
  BY <1>1, <1>23, SetInputFacts
<1>7. /\ s \in Displays /\ s.setting = u /\ Published(d, s)
      /\ SameFlags(c, s.ivi) /\ SameShown(c, s.ivi) /\ Committed(s.ivi)
      /\ s.ok <=> There(c, Surf(a))
      /\ There(c, Surf(a)) => /\ s.behind = d.behind \ {"rect"}
                              /\ Cut(s.ivi, Surf(a)) = Scaled(u, a).src
                              /\ Lies(s.ivi, Surf(a)) = Scaled(u, a).dest
      /\ ~There(c, Surf(a)) => s.ivi = c /\ s.behind = d.behind
      /\ \A n \in Own : Lies(s.ivi, n) = Lies(c, n)
  BY <1>1, <1>5, <1>23, <1>24, SetSourceStep
<1>8. /\ q \in Displays /\ q.setting = u /\ Untold(s, q)
      /\ SameFlags(s.ivi, q.ivi) /\ SameShown(s.ivi, q.ivi) /\ Committed(q.ivi)
      /\ \A n \in Names : Cut(q.ivi, n) = Cut(s.ivi, n)
      /\ \A n \in Names : n \notin Own => Lies(q.ivi, n) = Lies(s.ivi, n)
      /\ There(s.ivi, GetBlinderID("mute")) => Lies(q.ivi, GetBlinderID("mute")) = Blind(u, a)
  BY <1>2, <1>3, <1>7, PlaceBlindersStep
<1>. HIDE DEF q
<1>9. e = b
  <2>1. e = IF s.ok THEN [q EXCEPT !.behind = @ \ {"place"}] ELSE s
    BY DEF SetCameraForceSourceRectangle, SetVideoBlindSurfaceRectangle, q, s
  <2>. HIDE DEF e
  <2>2. CASE s.ok
    <3>1. m = q.behind \ {"place"}  BY <2>2
    <3>. HIDE DEF m
    <3>. QED  BY <1>8, <2>1, <2>2, <3>1 DEF Displays
  <2>3. CASE ~s.ok
    <3>. HIDE DEF m
    <3>. QED  BY <2>1, <2>3
  <2>. QED  BY <2>2, <2>3
<1>. HIDE DEF e
<1>10. m \in SUBSET Marks /\ \A k \in d.behind \ {"place", "rect"} : k \in m
  BY <1>1, <1>7, <1>8 DEF Untold, Published
<1>11. /\ s.ok => There(c, Surf(a))
       /\ ~s.ok => ~There(c, Surf(a)) /\ m = d.behind
  BY <1>7
<1>. HIDE DEF m
<1>12. /\ b \in Displays /\ b.setting = u /\ b.behind = m /\ b.path = d.path
       /\ b.file = d.file /\ b.ctl = d.ctl /\ b.sts = d.sts /\ b.told = d.told
       /\ b.ivi = IF s.ok THEN q.ivi ELSE s.ivi
  <2>1. CASE s.ok
    <3>1. b = [q EXCEPT !.behind = m]  BY <2>1
    <3>. HIDE DEF b
    <3>2. b \in Displays /\ b.setting = q.setting /\ b.ivi = q.ivi /\ Published(q, b) /\ b.behind = m
      BY <1>8, <1>10, <3>1, WithBehind
    <3>. QED  BY <1>7, <1>8, <2>1, <3>2 DEF Untold, Published
  <2>2. CASE ~s.ok
    <3>1. b = s  BY <2>2
    <3>. HIDE DEF b
    <3>2. s.behind = m  BY <1>7, <1>11, <2>2
    <3>. QED  BY <1>7, <2>2, <3>1, <3>2 DEF Published
  <2>. QED  BY <2>1, <2>2
<1>. HIDE DEF b
<1>13. SameFlags(c, b.ivi) /\ SameShown(c, b.ivi) /\ Committed(b.ivi)
  <2>1. SameFlags(c, q.ivi) /\ SameShown(c, q.ivi)  BY <1>7, <1>8, SameFacts
  <2>. QED  BY <1>7, <1>8, <1>12, <2>1
<1>14. Present(b.ivi)
  <2>1. \A n \in Names : /\ There(b.ivi, n) <=> There(c, n)
                         /\ Heard(b.ivi, n) \/ Pictured(b.ivi, n) => There(c, n)
                         /\ Shown(b.ivi, n) => There(c, n)
    BY <1>1, <1>13 DEF SameFlags, SameShown, Present
  <2>. QED  BY <1>1, <2>1, PresentFrame
<1>15. Sight(b)
  <2>1. Keeps(d, b, {"bg", "muted", "visible", "opacity"})  BY <1>10, <1>12 DEF Keeps
  <2>2. \A x \in Here : Heard(b.ivi, Surf(x)) /\ Orig(u, x).set =>
                          Heard(c, Surf(x)) /\ Orig(t, x).set
    BY <1>3, <1>6, <1>13 DEF SameFlags
  <2>3. SameSight(d, b)  BY <1>6, <1>12, <1>13, <2>1, <2>2 DEF SameSight
  <2>. QED  BY <1>1, <2>3, SightFrame
<1>16. SameRest(d, b)  BY <1>12, <1>13 DEF SameRest, SameFlags
<1>17. SizesGiven(b)  BY <1>1, <1>3, <1>6, <1>12 DEF SizesGiven
<1>18. VideoPlaced(b)
  <2>1. ASSUME NEW x \in Here, Heard(b.ivi, Surf(x)), Orig(u, x).set
        PROVE  [src |-> Cut(b.ivi, Surf(x)), dest |-> Lies(b.ivi, Surf(x))] \in PicturesOf(u, x)
    <3>1. x = a /\ Surf(a) \in Names  BY <1>3
    <3>2. There(c, Surf(a))  BY <1>1, <1>13, <2>1, <3>1 DEF SameFlags, Present
    <3>3. Cut(b.ivi, Surf(a)) = Scaled(u, a).src /\ Lies(b.ivi, Surf(a)) = Scaled(u, a).dest
      BY <1>3, <1>7, <1>8, <1>12, <3>1, <3>2
    <3>4. Orig(u, a).set /\ Out(u, a).set /\ Orig(u, a).rect \in Sizes \ {NoRect}
      BY <1>12, <1>17, <2>1, <3>1 DEF SizesGiven
    <3>5. [src |-> Scaled(u, a).src, dest |-> Scaled(u, a).dest] \in PicturesOf(u, a)
      BY <1>6, <3>4, PlacedFacts
    <3>. QED  BY <3>1, <3>3, <3>5
  <2>. QED  BY <1>12, <2>1 DEF VideoPlaced
<1>19. OutputGiven(b) /\ ClippingTold(b) /\ WideTold(b)
  BY <1>3 DEF OutputGiven, ClippingTold, WideTold
<1>20. "out" \in m  BY <1>10
<1>21. OutputTold(b)  BY <1>12, <1>20 DEF OutputTold
<1>22. CoversPlaced(b)
  <2>1. CASE s.ok
    <3>1. Lies(b.ivi, GetBlinderID("mute")) = Blind(u, a)
      <4>1. There(s.ivi, GetBlinderID("mute"))  BY <1>1, <1>3, <1>7 DEF SameFlags, Present
      <4>. QED  BY <1>8, <1>12, <2>1, <4>1
    <3>2. b.path # "" => b.path = a
      <4>1. d.path \in Here \cup {""}  BY <1>1, FieldsOfDisplay
      <4>. QED  BY <1>3, <1>12, <4>1
    <3>. QED  BY <1>3, <1>12, <3>1, <3>2 DEF CoversPlaced
  <2>2. CASE ~s.ok
    <3>1. m = d.behind /\ b.ivi = c  BY <1>7, <1>11, <1>12, <2>2
    <3>. QED  BY <1>12, <3>1 DEF CoversPlaced
  <2>. QED  BY <2>1, <2>2
<1>. QED
  BY <1>9, <1>12, <1>13, <1>14, <1>15, <1>16, <1>17, <1>18, <1>19, <1>21, <1>22
  DEF Whole, Base, Geometry, e

\* A control that clients set, before anything is done about it.
LEMMA AskStep ==
  ASSUME OutputOK, NEW d, Whole(d), NEW x \in Controls
  PROVE  LET e == [d EXCEPT !.ctl = x]
         IN /\ Base(e) /\ Geometry(e) /\ SameRest(d, e) /\ SameScene(d, e)
            /\ e.ctl = x /\ e.sts = d.sts /\ e.behind = d.behind
            /\ OthersHidden(e) /\ ShownAsAsked(e) /\ BackgroundBehind(e) /\ NoMuteWithoutPath(e)
            /\ OpacityTold(e) /\ MuteTold(e)
            /\ d.path = "" \/ x.visible = d.ctl.visible => Sight(e)
<1>. DEFINE e == [d EXCEPT !.ctl = x]
<1>1. d \in Displays /\ Base(d) /\ Sight(d) /\ Geometry(d)  BY DEF Whole, Base
<1>2. /\ e \in Displays /\ SameScene(d, e) /\ e.ctl = x /\ e.sts = d.sts /\ e.behind = d.behind
      /\ e.path = d.path
  BY <1>1 DEF Displays, SameScene
<1>. HIDE DEF e
<1>3. \A m : Keeps(d, e, m)  BY <1>2 DEF Keeps
<1>4. /\ Base(e) /\ OthersHidden(e) /\ ShownAsAsked(e) /\ NoMuteWithoutPath(e) /\ SizesGiven(e)
      /\ SameRest(d, e)
  BY <1>1, <1>2, SceneFacts DEF Sight, Geometry
<1>5. /\ BackgroundBehind(e) /\ OpacityTold(e) /\ MuteTold(e)
      /\ VideoPlaced(e) /\ OutputGiven(e) /\ CoversPlaced(e) /\ ClippingTold(e)
      /\ OutputTold(e) /\ WideTold(e)
      /\ x.visible = d.ctl.visible => VisibilityTold(e)
  BY <1>1, <1>2, <1>3, TellFrame DEF Sight, Geometry
<1>6. d.path = "" => VisibilityTold(e)  BY <1>2 DEF VisibilityTold
<1>. QED  BY <1>2, <1>4, <1>5, <1>6 DEF Sight, Geometry, e

LEMMA VisibleHandlerStep ==
  ASSUME OutputOK, NEW d, Whole(d), output # "camera", NEW b \in BOOLEAN
  PROVE  LET asked == [d EXCEPT !.ctl.visible = b]
             s == SetVisibility(asked, b)
             e == IF d.path = "" THEN asked
                  ELSE [s EXCEPT !.sts.visible = b, !.behind = @ \ {"visible"}]
         IN Whole(e) /\ SameRest(d, e) /\ (d.path = "" => e.path = "")
<1>. DEFINE x == [d.ctl EXCEPT !.visible = b]
            p == [d EXCEPT !.ctl = x]
            asked == [d EXCEPT !.ctl.visible = b]
            s == SetVisibility(p, b)
            y == [s.sts EXCEPT !.visible = b]
            m == s.behind \ {"visible"}
            f == [s EXCEPT !.sts = y, !.behind = m]
<1>1. d \in Displays /\ d.ctl \in Controls /\ d.path \in Here \cup {""}
  BY FieldsOfDisplay DEF Whole, Base
<1>2. x \in Controls /\ (x.visible <=> b)  BY <1>1 DEF Controls
<1>3. asked = p  BY <1>1 DEF Displays
<1>. HIDE DEF x
<1>4. /\ Base(p) /\ Geometry(p) /\ SameRest(d, p) /\ SameScene(d, p)
      /\ p.ctl = x /\ p.sts = d.sts
      /\ OthersHidden(p) /\ OpacityTold(p) /\ MuteTold(p)
      /\ d.path = "" => Sight(p)
  BY <1>2, AskStep
<1>. HIDE DEF p
<1>5. CASE d.path = ""
  <2>1. p.path = d.path  BY <1>4 DEF SameScene
  <2>. HIDE DEF asked
  <2>. QED  BY <1>3, <1>4, <1>5, <2>1 DEF Whole, asked
<1>6. CASE d.path # ""
  <2>1. p.path = d.path /\ d.path \in Here  BY <1>1, <1>4, <1>6 DEF SameScene
  <2>2. /\ Base(s) /\ SameGeometry(p, s) /\ SameRest(p, s) /\ s.sts = p.sts /\ s.ctl = p.ctl
        /\ ShownAsAsked(s) /\ BackgroundBehind(s) /\ NoMuteWithoutPath(s)
        /\ OthersHidden(s) /\ OpacityTold(s) /\ MuteTold(s)
        /\ Vis(s.setting, d.path) <=> b
    BY <1>4, <2>1, VisibilityStep
  <2>3. s.path = d.path  BY <2>1, <2>2 DEF SameGeometry
  <2>. HIDE DEF s
  <2>4. s \in Displays /\ p \in Displays /\ s.sts \in Statuses /\ s.behind \in SUBSET Marks
    BY <1>4, <2>2, FieldsOfDisplay DEF Base
  <2>5. Geometry(s)  BY <1>4, <2>2, <2>4, GeometryFrame
  <2>6. /\ y \in Statuses /\ (y.visible <=> b) /\ y.opaque = s.sts.opaque /\ y.mute = s.sts.mute
        /\ y.display = s.sts.display /\ y.out = s.sts.out /\ y.wide = s.sts.wide
        /\ y.clipOn = s.sts.clipOn
    BY <2>4 DEF Statuses
  <2>7. m \in SUBSET Marks /\ \A k \in s.behind \ {"visible"} : k \in m  BY <2>4
  <2>. HIDE DEF y, m
  <2>8. /\ f \in Displays /\ SameScene(s, f) /\ f.sts = y /\ f.behind = m /\ f.ctl = s.ctl
        /\ f.path = s.path /\ f.setting = s.setting /\ f.ivi = s.ivi
    BY <2>4, <2>6, <2>7 DEF Displays, SameScene
  <2>9. [s EXCEPT !.sts.visible = b, !.behind = @ \ {"visible"}] = f
    BY <2>4 DEF Displays, y, m
  <2>. HIDE DEF f
  <2>10. /\ Base(f) /\ OthersHidden(f) /\ ShownAsAsked(f) /\ NoMuteWithoutPath(f) /\ SizesGiven(f)
         /\ SameRest(s, f)
    BY <2>2, <2>5, <2>6, <2>8, SceneFacts DEF Geometry
  <2>11. /\ Keeps(s, f, {"bg"}) /\ Keeps(s, f, {"opacity"}) /\ Keeps(s, f, {"muted"})
         /\ Keeps(s, f, {"rect"}) /\ Keeps(s, f, {"place", "out"}) /\ Keeps(s, f, {"place"})
         /\ Keeps(s, f, {"clip"}) /\ Keeps(s, f, {"out"})
    BY <2>7, <2>8 DEF Keeps
  <2>12. /\ BackgroundBehind(f) /\ OpacityTold(f) /\ MuteTold(f)
         /\ VideoPlaced(f) /\ OutputGiven(f) /\ CoversPlaced(f) /\ ClippingTold(f)
         /\ OutputTold(f) /\ WideTold(f)
    BY <2>2, <2>5, <2>6, <2>8, <2>11, TellFrame DEF Geometry
  <2>13. VisibilityTold(f)
    BY <1>2, <1>4, <2>2, <2>3, <2>6, <2>8 DEF VisibilityTold
  <2>14. SameRest(d, f)  BY <1>4, <2>2, <2>10, RestFacts
  <2>15. Whole(f)  BY <2>10, <2>12, <2>13 DEF Whole, Sight, Geometry
  <2>. HIDE DEF asked
  <2>16. s = SetVisibility(asked, b)  BY <1>3 DEF s
  <2>. QED  BY <1>6, <2>9, <2>14, <2>15, <2>16 DEF asked
<1>. QED  BY <1>5, <1>6

LEMMA OpacityHandlerStep ==
  ASSUME OutputOK, NEW d, Whole(d), output # "camera", NEW b \in BOOLEAN, NEW always \in BOOLEAN
  PROVE  LET asked == [d EXCEPT !.ctl.opaque = b]
             s == SetOpacity(asked, b)
             e == IF d.path = "" THEN asked
                  ELSE IF s.ok \/ always
                  THEN [s EXCEPT !.sts.opaque = b, !.behind = @ \ {"opacity"}]
                  ELSE [s EXCEPT !.behind = @ \cup {"opacity"}]
         IN Whole(e) /\ SameRest(d, e) /\ (d.path = "" => e.path = "")
<1>. DEFINE x == [d.ctl EXCEPT !.opaque = b]
            p == [d EXCEPT !.ctl = x]
            asked == [d EXCEPT !.ctl.opaque = b]
            s == SetOpacity(p, b)
            tells == s.ok \/ always
            y == IF tells THEN [s.sts EXCEPT !.opaque = b] ELSE s.sts
            m == IF tells THEN s.behind \ {"opacity"} ELSE s.behind \cup {"opacity"}
            f == [s EXCEPT !.sts = y, !.behind = m]
            g == IF tells THEN [s EXCEPT !.sts.opaque = b, !.behind = @ \ {"opacity"}]
                 ELSE [s EXCEPT !.behind = @ \cup {"opacity"}]
<1>1. d \in Displays /\ d.ctl \in Controls /\ d.path \in Here \cup {""}
  BY FieldsOfDisplay DEF Whole, Base
<1>2. x \in Controls /\ x.visible = d.ctl.visible  BY <1>1 DEF Controls
<1>3. asked = p  BY <1>1 DEF Displays
<1>. HIDE DEF x
<1>4. /\ Base(p) /\ Geometry(p) /\ SameRest(d, p) /\ SameScene(d, p) /\ Sight(p)
  BY <1>2, AskStep
<1>. HIDE DEF p
<1>5. CASE d.path = ""
  <2>1. p.path = d.path  BY <1>4 DEF SameScene
  <2>. HIDE DEF asked
  <2>. QED  BY <1>3, <1>4, <1>5, <2>1 DEF Whole, asked
<1>6. CASE d.path # ""
  <2>1. p.path = d.path /\ d.path \in Here  BY <1>1, <1>4, <1>6 DEF SameScene
  <2>2. /\ Base(s) /\ SameGeometry(p, s) /\ SameRest(p, s)
        /\ BackgroundBehind(s) /\ NoMuteWithoutPath(s)
        /\ OthersHidden(s) /\ ShownAsAsked(s) /\ VisibilityTold(s) /\ MuteTold(s)
        /\ Opaque(s.setting, d.path) <=> b
    BY <1>4, <2>1, OpacityStep DEF Sight
  <2>3. s.path = d.path  BY <2>1, <2>2 DEF SameGeometry
  <2>. HIDE DEF s
  <2>4. s \in Displays /\ p \in Displays /\ s.sts \in Statuses /\ s.behind \in SUBSET Marks
    BY <1>4, <2>2, FieldsOfDisplay DEF Base
  <2>5. Geometry(s)  BY <1>4, <2>2, <2>4, GeometryFrame
  <2>. HIDE DEF tells
  <2>6. /\ y \in Statuses /\ (tells => (y.opaque <=> b)) /\ y.visible = s.sts.visible
        /\ y.mute = s.sts.mute
        /\ y.display = s.sts.display /\ y.out = s.sts.out /\ y.wide = s.sts.wide
        /\ y.clipOn = s.sts.clipOn
    BY <2>4 DEF Statuses
  <2>7. /\ m \in SUBSET Marks /\ (~tells => "opacity" \in m)
        /\ \A k \in s.behind \ {"opacity"} : k \in m
    BY <2>4 DEF Marks
  <2>8. g = f
    <3>1. CASE tells
      <4>1. y = [s.sts EXCEPT !.opaque = b] /\ m = s.behind \ {"opacity"}  BY <3>1
      <4>2. g = [s EXCEPT !.sts.opaque = b, !.behind = @ \ {"opacity"}]  BY <3>1
      <4>. HIDE DEF y, m, g
      <4>. QED  BY <2>4, <4>1, <4>2 DEF Displays
    <3>2. CASE ~tells
      <4>1. y = s.sts /\ m = s.behind \cup {"opacity"}  BY <3>2
      <4>2. g = [s EXCEPT !.behind = @ \cup {"opacity"}]  BY <3>2
      <4>. HIDE DEF y, m, g
      <4>. QED  BY <2>4, <4>1, <4>2 DEF Displays
    <3>. QED  BY <3>1, <3>2
  <2>. HIDE DEF y, m, g
  <2>9. /\ f \in Displays /\ SameScene(s, f) /\ f.sts = y /\ f.behind = m /\ f.ctl = s.ctl
        /\ f.path = s.path /\ f.setting = s.setting /\ f.ivi = s.ivi
    BY <2>4, <2>6, <2>7 DEF Displays, SameScene
  <2>. HIDE DEF f
  <2>10. /\ Base(f) /\ OthersHidden(f) /\ ShownAsAsked(f) /\ NoMuteWithoutPath(f) /\ SizesGiven(f)
         /\ SameRest(s, f)
    BY <2>2, <2>5, <2>6, <2>9, SceneFacts DEF Geometry
  <2>11. /\ Keeps(s, f, {"bg"}) /\ Keeps(s, f, {"visible"}) /\ Keeps(s, f, {"muted"})
         /\ Keeps(s, f, {"rect"}) /\ Keeps(s, f, {"place", "out"}) /\ Keeps(s, f, {"place"})
         /\ Keeps(s, f, {"clip"}) /\ Keeps(s, f, {"out"})
    BY <2>7, <2>9 DEF Keeps
  <2>12. /\ BackgroundBehind(f) /\ VisibilityTold(f) /\ MuteTold(f)
         /\ VideoPlaced(f) /\ OutputGiven(f) /\ CoversPlaced(f) /\ ClippingTold(f)
         /\ OutputTold(f) /\ WideTold(f)
    BY <2>2, <2>5, <2>6, <2>9, <2>11, TellFrame DEF Geometry
  <2>13. OpacityTold(f)
    BY <2>2, <2>3, <2>6, <2>7, <2>9 DEF OpacityTold
  <2>14. SameRest(d, f)  BY <1>4, <2>2, <2>10, RestFacts
  <2>15. Whole(f)  BY <2>10, <2>12, <2>13 DEF Whole, Sight, Geometry
  <2>. HIDE DEF asked
  <2>16. s = SetOpacity(asked, b)  BY <1>3 DEF s
  <2>. QED  BY <1>6, <2>8, <2>14, <2>15, <2>16 DEF asked, g, tells
<1>. QED  BY <1>5, <1>6

LEMMA WideHandlerStep ==
  ASSUME OutputOK, NEW d, Whole(d), output # "camera", NEW w \in WideModes \ {"invalid"}
  PROVE  LET asked == [d EXCEPT !.ctl.wide = w]
             e == IF d.path = "" THEN asked
                  ELSE [SetWideModeCommon(asked, d.path, w) EXCEPT !.sts.wide = w]
         IN Whole(e) /\ SameRest(d, e) /\ (d.path = "" => e.path = "")
<1>. DEFINE x == [d.ctl EXCEPT !.wide = w]
            p == [d EXCEPT !.ctl = x]
            asked == [d EXCEPT !.ctl.wide = w]
            s == SetWideModeCommon(p, d.path, w)
            y == [s.sts EXCEPT !.wide = w]
            f == [s EXCEPT !.sts = y]
<1>1. d \in Displays /\ d.ctl \in Controls /\ d.path \in Here \cup {""}
  BY FieldsOfDisplay DEF Whole, Base
<1>2. x \in Controls /\ x.visible = d.ctl.visible  BY <1>1 DEF Controls
<1>3. asked = p  BY <1>1 DEF Displays
<1>. HIDE DEF x
<1>4. /\ Base(p) /\ Geometry(p) /\ SameRest(d, p) /\ SameScene(d, p) /\ Sight(p)
  BY <1>2, AskStep
<1>. HIDE DEF p
<1>5. CASE d.path = ""
  <2>1. p.path = d.path  BY <1>4 DEF SameScene
  <2>. HIDE DEF asked
  <2>. QED  BY <1>3, <1>4, <1>5, <2>1 DEF Whole, asked
<1>6. CASE d.path # ""
  <2>1. p.path = d.path /\ d.path \in Here  BY <1>1, <1>4, <1>6 DEF SameScene
  <2>2. s = SetWideModeCommon(p, p.path, w)  BY <2>1
  <2>. HIDE DEF s
  <2>3. /\ Base(s) /\ SameSight(p, s) /\ SameRest(p, s) /\ s.path = p.path
        /\ VideoPlaced(s) /\ SizesGiven(s) /\ OutputGiven(s) /\ CoversPlaced(s)
        /\ ClippingTold(s) /\ OutputTold(s)
        /\ WideOf(s.setting, p.path) = w
    BY <1>4, <2>1, <2>2, WideStep DEF Geometry
  <2>4. s \in Displays /\ p \in Displays /\ s.sts \in Statuses /\ s.behind \in SUBSET Marks
    BY <1>4, <2>3, FieldsOfDisplay DEF Base
  <2>5. Sight(s)  BY <1>4, <2>3, <2>4, SightFrame
  <2>6. /\ y \in Statuses /\ y.opaque = s.sts.opaque /\ y.visible = s.sts.visible
        /\ y.mute = s.sts.mute
        /\ y.display = s.sts.display /\ y.out = s.sts.out /\ y.wide = w
        /\ y.clipOn = s.sts.clipOn
    BY <2>4 DEF Statuses
  <2>7. f = [s EXCEPT !.sts.wide = w]  BY <2>4 DEF Displays
  <2>. HIDE DEF y
  <2>8. /\ f \in Displays /\ SameScene(s, f) /\ f.sts = y /\ f.behind = s.behind /\ f.ctl = s.ctl
        /\ f.path = s.path /\ f.setting = s.setting /\ f.ivi = s.ivi
    BY <2>4, <2>6 DEF Displays, SameScene
  <2>. HIDE DEF f
  <2>9. /\ Base(f) /\ OthersHidden(f) /\ ShownAsAsked(f) /\ NoMuteWithoutPath(f) /\ SizesGiven(f)
        /\ SameRest(s, f)
    BY <2>3, <2>5, <2>6, <2>8, SceneFacts DEF Sight
  <2>10. \A m : Keeps(s, f, m)  BY <2>8 DEF Keeps
  <2>11. /\ BackgroundBehind(f) /\ VisibilityTold(f) /\ OpacityTold(f) /\ MuteTold(f)
         /\ VideoPlaced(f) /\ OutputGiven(f) /\ CoversPlaced(f) /\ ClippingTold(f)
         /\ OutputTold(f)
    BY <2>3, <2>5, <2>6, <2>8, <2>10, TellFrame DEF Sight
  <2>12. WideTold(f)  BY <2>3, <2>6, <2>8 DEF WideTold
  <2>13. SameRest(d, f)  BY <1>4, <2>3, <2>9, RestFacts
  <2>14. Whole(f)  BY <2>9, <2>11, <2>12 DEF Whole, Sight, Geometry
  <2>. HIDE DEF asked
  <2>15. s = SetWideModeCommon(asked, d.path, w)  BY <1>3 DEF s
  <2>. QED  BY <1>6, <2>7, <2>13, <2>14, <2>15 DEF asked
<1>. QED  BY <1>5, <1>6

LEMMA MuteHandlerStep ==
  ASSUME OutputOK, NEW d, Whole(d), HasWide, NEW b \in BOOLEAN
  PROVE  LET s == SetBlinderEnable(d, GetBlinderID("mute"), b)
             e == [s EXCEPT !.ctl.mute = b, !.sts.mute = b,
                            !.behind = IF b /\ d.path = "" THEN @ \cup {"muted"} ELSE @ \ {"muted"}]
         IN Whole(e) /\ SameRest(d, e)
<1>. DEFINE n == GetBlinderID("mute")
            none == d.path = ""
            s == SetBlinderEnable(d, n, b)
            x == [s.ctl EXCEPT !.mute = b]
            y == [s.sts EXCEPT !.mute = b]
            m == IF b /\ none THEN s.behind \cup {"muted"} ELSE s.behind \ {"muted"}
            f == [s EXCEPT !.ctl = x, !.sts = y, !.behind = m]
<1>1. /\ d \in Displays /\ Committed(d.ivi) /\ Present(d.ivi) /\ Sight(d) /\ Geometry(d)
      /\ n \in Own /\ n \in Names
  BY OwnFacts, NameFacts DEF Whole, Base
<1>2. /\ \A a \in Here : Surf(a) \in Names /\ Surf(a) # n
      /\ HasBackground => GetBlinderID("bg") \in Names /\ GetBlinderID("bg") # n
  BY <1>1, NameFacts, OwnFacts
<1>3. none \in BOOLEAN /\ (none <=> d.path = "")  OBVIOUS
<1>4. /\ s \in Displays /\ s.setting = d.setting /\ Untold(d, s)
      /\ SameFlags(d.ivi, s.ivi) /\ SamePlaced(d.ivi, s.ivi)
      /\ Committed(s.ivi)
      /\ \A k \in Names : Shown(s.ivi, k) <=> IF k = n /\ ~(b /\ HasWide /\ n = n /\ d.path = "") THEN b
                                              ELSE Shown(d.ivi, k)
  BY <1>1, BlinderEnableStep
<1>. HIDE DEF none, s
<1>5. /\ s.path = d.path /\ s.file = d.file /\ s.ctl = d.ctl /\ s.sts = d.sts /\ s.told = d.told
      /\ s.behind = d.behind
  BY <1>4 DEF Untold, Published
<1>6. /\ \A k \in Names : k # n => (Shown(s.ivi, k) <=> Shown(d.ivi, k))
      /\ Shown(s.ivi, n) <=> IF b /\ none THEN Shown(d.ivi, n) ELSE b
  BY <1>1, <1>3, <1>4
<1>7. none => ~Shown(d.ivi, n)  BY <1>1, <1>3 DEF Sight, NoMuteWithoutPath
<1>8. s.ctl \in Controls /\ s.sts \in Statuses /\ s.behind \in SUBSET Marks
  BY <1>4, FieldsOfDisplay
<1>9. x \in Controls /\ x.visible = s.ctl.visible  BY <1>8 DEF Controls
<1>10. /\ y \in Statuses /\ y.opaque = s.sts.opaque /\ y.visible = s.sts.visible
       /\ (y.mute <=> b)
       /\ y.display = s.sts.display /\ y.out = s.sts.out /\ y.wide = s.sts.wide
       /\ y.clipOn = s.sts.clipOn
  BY <1>8 DEF Statuses
<1>11. /\ m \in SUBSET Marks /\ ("muted" \notin m => ~(b /\ none))
       /\ \A k \in s.behind \ {"muted"} : k \in m
  BY <1>8 DEF Marks
<1>12. [s EXCEPT !.ctl.mute = b, !.sts.mute = b,
                 !.behind = IF b /\ none THEN @ \cup {"muted"} ELSE @ \ {"muted"}] = f
  <2>. DEFINE mm == IF b /\ none THEN s.behind \cup {"muted"} ELSE s.behind \ {"muted"}
  <2>1. m = mm  OBVIOUS
  <2>2. f = [s EXCEPT !.ctl = x, !.sts = y, !.behind = mm]  BY <2>1
  <2>3. [s EXCEPT !.ctl.mute = b, !.sts.mute = b,
                 !.behind = IF b /\ none THEN @ \cup {"muted"} ELSE @ \ {"muted"}]
        = [s EXCEPT !.ctl.mute = b, !.sts.mute = b, !.behind = mm]
    BY <1>4 DEF Displays
  <2>. HIDE DEF m, mm, f
  <2>4. [s EXCEPT !.ctl.mute = b, !.sts.mute = b, !.behind = mm]
        = [s EXCEPT !.ctl = x, !.sts = y, !.behind = mm]
    BY <1>4 DEF Displays
  <2>. QED  BY <2>2, <2>3, <2>4
<1>. HIDE DEF x, y, m
<1>13. /\ f \in Displays /\ f.sts = y /\ f.behind = m /\ f.ctl = x
       /\ f.path = d.path /\ f.setting = d.setting /\ f.ivi = s.ivi /\ f.told = d.told
       /\ f.file = d.file
  BY <1>4, <1>5, <1>8, <1>9, <1>10, <1>11 DEF Displays
<1>. HIDE DEF f
<1>14. Present(f.ivi)
  <2>1. \A k \in Names : /\ There(s.ivi, k) <=> There(d.ivi, k)
                         /\ Heard(s.ivi, k) \/ Pictured(s.ivi, k) => There(d.ivi, k)
                         /\ Shown(s.ivi, k) => There(d.ivi, k)
    BY <1>1, <1>4, <1>6 DEF SameFlags, Present
  <2>. QED  BY <1>1, <1>13, <2>1, PresentFrame
<1>15. Base(f)  BY <1>4, <1>13, <1>14 DEF Base
<1>16. SameRest(d, f)
  BY <1>4, <1>5, <1>10, <1>13 DEF SameRest, SameFlags
<1>17. SameGeometry(d, f)
  <2>1. Keeps(d, f, {"rect", "place", "out", "clip"})  BY <1>5, <1>11, <1>13 DEF Keeps
  <2>2. \A a \in Here : SameSizes(d.setting, f.setting, a)  BY <1>13 DEF SameSizes
  <2>3. \A a \in Here : Heard(f.ivi, Surf(a)) => Heard(d.ivi, Surf(a))
    BY <1>2, <1>4, <1>13 DEF SameFlags
  <2>. QED  BY <1>4, <1>5, <1>10, <1>13, <2>1, <2>2, <2>3 DEF SameGeometry
<1>18. Geometry(f)  BY <1>1, <1>17, GeometryFrame
<1>19. /\ \A a \in Here : Shown(f.ivi, Surf(a)) <=> Shown(d.ivi, Surf(a))
       /\ \A a \in Here : Heard(f.ivi, Surf(a)) <=> Heard(d.ivi, Surf(a))
       /\ HasBackground => (Shown(f.ivi, GetBlinderID("bg")) <=> Shown(d.ivi, GetBlinderID("bg")))
  BY <1>2, <1>4, <1>6, <1>13 DEF SameFlags
<1>20. d.path \in Here \cup {""}  BY <1>1, FieldsOfDisplay
<1>21. OthersHidden(f)  BY <1>1, <1>13, <1>19 DEF Sight, OthersHidden
<1>22. ShownAsAsked(f)  BY <1>1, <1>13, <1>19, <1>20 DEF Sight, ShownAsAsked
<1>23. \A k \in {"bg", "visible", "opacity"} : k \in d.behind => k \in f.behind
  BY <1>5, <1>11, <1>13
<1>24. BackgroundBehind(f)  BY <1>1, <1>13, <1>19, <1>23 DEF Sight, BackgroundBehind
<1>25. VisibilityTold(f)
  BY <1>1, <1>5, <1>9, <1>10, <1>13, <1>23 DEF Sight, VisibilityTold
<1>26. OpacityTold(f)
  BY <1>1, <1>5, <1>9, <1>10, <1>13, <1>23 DEF Sight, OpacityTold
<1>27. NoMuteWithoutPath(f)
  BY <1>3, <1>6, <1>7, <1>13 DEF NoMuteWithoutPath
<1>28. MuteTold(f)
  BY <1>6, <1>10, <1>11, <1>13 DEF MuteTold
<1>29. Whole(f)
  BY <1>15, <1>18, <1>21, <1>22, <1>24, <1>25, <1>26, <1>27, <1>28 DEF Whole, Sight
<1>. QED  BY <1>12, <1>16, <1>29 DEF s, none

-----------------------------------------------------------------------------
(* The layers of the screen                                                *)

\* The layers are in order; once the screen is there, it has them and the clients know.
Layered(d, there) ==
  /\ Ordered(d.file)
  /\ d.sts.display <=> there
  /\ there => d.ivi.layers = d.file.ids

\* The layers stay in the order of the file.
LEMMA LayerOrderStep ==
  ASSUME OutputOK, NEW d, Whole(d), NEW layer \in DOMAIN Order, NEW new \in Int,
         NEW there \in BOOLEAN, Layered(d, there)
  PROVE  LET e == SetIviLayerOrder(d, layer, new)
         IN /\ Whole(e) /\ Layered(e, there)
            /\ e.told = d.told /\ e.path = d.path
            /\ \A n \in Names : There(e.ivi, n) <=> There(d.ivi, n)
<1>. DEFINE order == [d.file.order EXCEPT ![layer] = new]
            f == ReorderLayersOnScreen(d.file, layer, new)
            c == Ivi!SetLayerOrder(d.ivi, f.ids)
            e == SetIviLayerOrder(d, layer, new)
<1>1. /\ d \in Displays /\ Committed(d.ivi) /\ Present(d.ivi) /\ Sight(d) /\ Geometry(d)
      /\ d.ivi \in Compositors /\ d.file \in Files
  BY FieldsOfDisplay DEF Whole, Base
<1>2. d.file.ids \in Seq(DOMAIN Order) /\ order \in [DOMAIN Order -> Int]  BY <1>1 DEF Files
<1>3. f = [ids |-> Sorted(d.file.ids, order), order |-> order]  BY DEF ReorderLayersOnScreen
<1>. HIDE DEF order, f
<1>4. /\ Sorted(d.file.ids, order) \in Seq(DOMAIN Order)
      /\ Len(Sorted(d.file.ids, order)) = Len(d.file.ids)
      /\ Ordered([ids |-> Sorted(d.file.ids, order), order |-> order])
  BY <1>2, SortedFacts
<1>5. /\ f.ids \in Seq(DOMAIN Order) /\ f \in Files /\ Ordered(f) /\ Len(f.ids) = Len(d.file.ids)
  BY <1>2, <1>3, <1>4 DEF Files
<1>6. /\ c \in Compositors /\ SameShown(d.ivi, c) /\ SamePlaced(d.ivi, c)
      /\ \A n \in Names : /\ There(c, n) <=> There(d.ivi, n)
                          /\ Heard(c, n) <=> Heard(d.ivi, n)
                          /\ Pictured(c, n) <=> Pictured(d.ivi, n)
      /\ c.layers = IF d.ivi.layers = <<>> THEN d.ivi.layers ELSE f.ids
      /\ Committed(c)
  BY <1>1, <1>5, LayerFacts
<1>7. e = [d EXCEPT !.file = f, !.ivi = c]  BY <1>1 DEF SetIviLayerOrder, f
<1>. HIDE DEF c, e
<1>8. /\ e \in Displays /\ e.ivi = c /\ e.file = f /\ e.setting = d.setting /\ e.path = d.path
      /\ e.sts = d.sts /\ e.ctl = d.ctl /\ e.told = d.told /\ e.behind = d.behind
  BY <1>1, <1>5, <1>6, <1>7 DEF Displays
<1>9. Present(c)
  <2>1. \A n \in Names : /\ There(c, n) <=> There(d.ivi, n)
                         /\ Heard(c, n) \/ Pictured(c, n) => There(d.ivi, n)
                         /\ Shown(c, n) => There(d.ivi, n)
    BY <1>1, <1>6 DEF Present, SameShown
  <2>. QED  BY <1>1, <2>1, PresentFrame
<1>10. \A a \in Here : Surf(a) \in Names  BY NameFacts
<1>11. SameSeen(d.setting, e.setting) /\ \A a \in Here : SameSizes(d.setting, e.setting, a)
  BY <1>8 DEF SameSeen, SameSizes
<1>12. SameSight(d, e) /\ SameGeometry(d, e)
  BY <1>6, <1>8, <1>10, <1>11 DEF SameSight, SameGeometry, Keeps
<1>13. Whole(e)
  BY <1>1, <1>6, <1>8, <1>9, <1>12, SightFrame, GeometryFrame DEF Whole, Base
<1>14. Layered(e, there)
  <2>1. there => c.layers = f.ids
    <3>1. CASE there /\ d.ivi.layers = <<>>
      <4>1. d.file.ids = <<>>  BY <3>1 DEF Layered
      <4>2. Len(f.ids) = 0  BY <1>5, <4>1
      <4>3. f.ids = <<>>  BY <1>5, <4>2, EmptySeq
      <4>. QED  BY <1>6, <3>1, <4>3
    <3>2. CASE d.ivi.layers # <<>>  BY <1>6, <3>2
    <3>. QED  BY <3>1, <3>2
  <2>. QED  BY <1>5, <1>8, <2>1 DEF Layered
<1>. QED  BY <1>6, <1>8, <1>13, <1>14 DEF e

-----------------------------------------------------------------------------
(* The compositor's events                                                 *)

\* A surface that is added is hidden, and its size is forgotten.
LEMMA AddHandlerStep ==
  ASSUME OutputOK, NEW d, Whole(d), NEW ns
  PROVE  LET e == AddSurfacesToLayer(d, ns)
         IN /\ Whole(e)
            /\ e.path = d.path /\ e.file = d.file /\ e.sts = d.sts /\ e.ivi.layers = d.ivi.layers
            /\ \A n \in Names : There(e.ivi, n) <=> There(d.ivi, n)
            /\ \A b \in Here : e.told[b] <=> IF Surf(b) \in ns THEN Offered(e.ivi, b) ELSE d.told[b]
<1>. DEFINE e == AddSurfacesToLayer(d, ns)
<1>1. /\ d \in Displays /\ Committed(d.ivi) /\ Present(d.ivi) /\ Sight(d) /\ Geometry(d)
      /\ d.setting \in Settings /\ d.path \in Here \cup {""}
  BY FieldsOfDisplay DEF Whole, Base
<1>2. /\ \A a \in Here : Surf(a) \in Names
      /\ \A kind \in Followers : GetBlinderID(kind) \in Names
      /\ GetBlinderID("mute") \in Names /\ (HasBackground => GetBlinderID("bg") \in Names)
  BY NameFacts, OwnFacts
<1>3. /\ e \in Displays
      /\ e.path = d.path /\ e.file = d.file /\ e.ctl = d.ctl /\ e.sts = d.sts
      /\ e.behind = d.behind \cup (IF GetBlinderID("bg") \in ns THEN {"bg"} ELSE {})
                    \cup (IF GetBlinderID("mute") \in ns THEN {"muted"} ELSE {})
                    \cup (IF output = "camera" /\ \E a \in Here : Surf(a) \in ns
                          THEN {"place"} ELSE {})
      /\ SamePlaced(d.ivi, e.ivi) /\ Committed(e.ivi) /\ e.ivi.layers = d.ivi.layers
      /\ \A m \in Names :
           /\ There(e.ivi, m) <=> There(d.ivi, m)
           /\ Pictured(e.ivi, m) <=> Pictured(d.ivi, m)
           /\ Heard(e.ivi, m) <=> Heard(d.ivi, m) \/ (m \in ns /\ There(d.ivi, m))
           /\ Shown(e.ivi, m) <=> Shown(d.ivi, m) /\ ~(m \in ns /\ There(d.ivi, m))
      /\ SameSeen(d.setting, e.setting)
      /\ \A b \in Here :
           /\ Surf(b) \notin ns => SameSizes(d.setting, e.setting, b)
           /\ Surf(b) \in ns => ~Orig(e.setting, b).set
           /\ Out(e.setting, b) = Out(d.setting, b) /\ Clip(e.setting, b) = Clip(d.setting, b)
           /\ (ClipOn(e.setting, b) <=> ClipOn(d.setting, b))
           /\ WideOf(e.setting, b) = WideOf(d.setting, b)
           /\ e.told[b] <=> IF Surf(b) \in ns THEN Offered(e.ivi, b) ELSE d.told[b]
  BY <1>1, AddStep
<1>. HIDE DEF e
<1>4. /\ \A m \in d.behind : m \in e.behind
      /\ GetBlinderID("bg") \in ns => "bg" \in e.behind
      /\ GetBlinderID("mute") \in ns => "muted" \in e.behind
      /\ \A a \in Here : output = "camera" /\ Surf(a) \in ns => "place" \in e.behind
  BY <1>3
<1>5. e.setting \in Settings  BY <1>3, FieldsOfDisplay
<1>6. Base(e)
  <2>1. \A n \in Names : /\ There(e.ivi, n) <=> There(d.ivi, n)
                         /\ Heard(e.ivi, n) \/ Pictured(e.ivi, n) => There(d.ivi, n)
                         /\ Shown(e.ivi, n) => There(d.ivi, n)
    BY <1>1, <1>3 DEF Present
  <2>2. Present(e.ivi)  BY <1>1, <2>1, PresentFrame
  <2>. QED  BY <1>3, <2>2 DEF Base
<1>7. \A a \in Here : /\ Vis(e.setting, a) <=> Vis(d.setting, a)
                      /\ Opaque(e.setting, a) <=> Opaque(d.setting, a)
  BY <1>3 DEF SameSeen
<1>8. \A a \in Here : Orig(e.setting, a).set =>
        Surf(a) \notin ns /\ Orig(d.setting, a).set /\ Orig(e.setting, a) = Orig(d.setting, a)
  BY <1>3 DEF SameSizes
<1>9. OthersHidden(e)  BY <1>1, <1>2, <1>3 DEF Sight, OthersHidden
<1>10. ShownAsAsked(e)
  BY <1>1, <1>2, <1>3, <1>7, <1>8 DEF Sight, ShownAsAsked
<1>11. BackgroundBehind(e)
  BY <1>1, <1>2, <1>3, <1>4, <1>7 DEF Sight, BackgroundBehind
<1>12. NoMuteWithoutPath(e)  BY <1>1, <1>2, <1>3 DEF Sight, NoMuteWithoutPath
<1>13. VisibilityTold(e)  BY <1>1, <1>3, <1>4, <1>7 DEF Sight, VisibilityTold
<1>14. OpacityTold(e)  BY <1>1, <1>3, <1>4, <1>7 DEF Sight, OpacityTold
<1>15. MuteTold(e)  BY <1>1, <1>2, <1>3, <1>4 DEF Sight, MuteTold
<1>16. SizesGiven(e)
  BY <1>1, <1>3, <1>8 DEF Geometry, SizesGiven
<1>17. VideoPlaced(e)
  <2>1. ASSUME NEW b \in Here, b = e.path \/ output = "camera", Heard(e.ivi, Surf(b)),
               Orig(e.setting, b).set, output = "camera" => "rect" \notin e.behind
        PROVE  [src |-> Cut(e.ivi, Surf(b)), dest |-> Lies(e.ivi, Surf(b))] \in PicturesOf(e.setting, b)
    <3>1. Surf(b) \notin ns /\ Orig(d.setting, b).set  BY <1>8, <2>1
    <3>2. Heard(d.ivi, Surf(b)) /\ (output = "camera" => "rect" \notin d.behind)
      BY <1>2, <1>3, <1>4, <2>1, <3>1
    <3>3. PicturesOf(e.setting, b) = PicturesOf(d.setting, b)
      BY <1>3, <3>1, SameSizesFacts
    <3>4. Cut(e.ivi, Surf(b)) = Cut(d.ivi, Surf(b)) /\ Lies(e.ivi, Surf(b)) = Lies(d.ivi, Surf(b))
      BY <1>2, <1>3 DEF SamePlaced
    <3>. QED  BY <1>1, <1>3, <2>1, <3>1, <3>2, <3>3, <3>4 DEF Geometry, VideoPlaced
  <2>. QED  BY <2>1 DEF VideoPlaced
<1>18. OutputGiven(e)  BY <1>1, <1>3, <1>4 DEF Geometry, OutputGiven
<1>19. \A a \in Here : Dest(e.setting, a) = Dest(d.setting, a)
  <2>1. ASSUME NEW a \in Here  PROVE Dest(e.setting, a) = Dest(d.setting, a)
    <3>1. Orig(d.setting, a).set => Out(d.setting, a).set  BY <1>1 DEF Geometry, SizesGiven
    <3>2. Orig(e.setting, a).set => Orig(d.setting, a).set  BY <1>8
    <3>3. /\ Out(e.setting, a) = Out(d.setting, a) /\ Clip(e.setting, a) = Clip(d.setting, a)
          /\ ClipOn(e.setting, a) <=> ClipOn(d.setting, a)
      BY <1>3
    <3>. QED  BY <3>1, <3>2, <3>3 DEF Dest, Source
  <2>. QED  BY <2>1
<1>20. CoversPlaced(e)
  <2>1. ASSUME e.path # "", "place" \notin e.behind, NEW kind \in Followers
        PROVE  Lies(e.ivi, GetBlinderID(kind)) = Blind(e.setting, e.path)
    <3>1. "place" \notin d.behind /\ d.path # "" /\ d.path \in Here  BY <1>1, <1>3, <1>4, <2>1
    <3>2. Lies(e.ivi, GetBlinderID(kind)) = Blind(d.setting, d.path)
      BY <1>1, <1>2, <1>3, <3>1 DEF SamePlaced, Geometry, CoversPlaced
    <3>3. Blind(e.setting, d.path) = Blind(d.setting, d.path)
      <4>1. CASE Surf(d.path) \notin ns  BY <1>3, <3>1, <4>1, SameSizesFacts
      <4>2. CASE output # "camera"  BY <1>1, <1>5, <1>19, <3>1, <4>2, PlacedFacts
      <4>. QED  BY <1>4, <2>1, <3>1, <4>1, <4>2
    <3>. QED  BY <1>3, <3>2, <3>3
  <2>. QED  BY <2>1 DEF CoversPlaced
<1>21. ClippingTold(e)  BY <1>1, <1>3, <1>4 DEF Geometry, ClippingTold
<1>22. OutputTold(e)  BY <1>1, <1>3, <1>4, <1>19 DEF Geometry, OutputTold
<1>23. WideTold(e)  BY <1>1, <1>3 DEF Geometry, WideTold
<1>24. Whole(e)
  BY <1>6, <1>9, <1>10, <1>11, <1>12, <1>13, <1>14, <1>15, <1>16, <1>17, <1>18, <1>20,
     <1>21, <1>22, <1>23 DEF Whole, Sight, Geometry
<1>. QED  BY <1>3, <1>24 DEF e

LEMMA DeleteHandlerStep ==
  ASSUME OutputOK, NEW d, Whole(d), NEW a \in Here
  PROVE  LET e == DeleteSurfaceToLayer(d, Surf(a))
         IN /\ Whole(e) /\ e.path = d.path /\ e.file = d.file /\ e.sts = d.sts /\ e.ivi = d.ivi
            /\ e.told[a] <=> Offered(d.ivi, a)
            /\ \A b \in Here : b # a => e.told[b] = d.told[b]
<1>. DEFINE e == DeleteSurfaceToLayer(d, Surf(a))
<1>1. d \in Displays /\ Committed(d.ivi) /\ Present(d.ivi) /\ Sight(d) /\ Geometry(d)
  BY DEF Whole, Base
<1>2. /\ e \in Displays /\ e.ivi = d.ivi /\ e.setting = d.setting
      /\ e.path = d.path /\ e.file = d.file /\ e.ctl = d.ctl /\ e.sts = d.sts /\ e.behind = d.behind
      /\ e.told[a] <=> Offered(d.ivi, a)
      /\ \A b \in Here : b # a => e.told[b] = d.told[b]
  BY <1>1, DeleteStep
<1>. HIDE DEF e
<1>3. SameSight(d, e) /\ SameGeometry(d, e)
  BY <1>2 DEF SameSight, SameGeometry, Keeps, SameShown, SameSeen, SamePlaced, SameSizes
<1>4. Whole(e)  BY <1>1, <1>2, <1>3, SightFrame, GeometryFrame DEF Whole, Base
<1>. QED  BY <1>2, <1>4 DEF e

\* A surface of the manager's own that is drawn at last.
LEMMA BlinderHandlerStep ==
  ASSUME OutputOK, NEW d, Whole(d), NEW n \in Own, NEW r \in Rectangle
  PROVE  LET e == ConfigureBlinder(d, n, r)
         IN /\ Whole(e) /\ SameRest(d, e) /\ e.path = d.path
            /\ \A a \in Here : Shown(e.ivi, Surf(a)) <=> Shown(d.ivi, Surf(a))
<1>. DEFINE e == ConfigureBlinder(d, n, r)
<1>1. /\ d \in Displays /\ Committed(d.ivi) /\ Present(d.ivi) /\ Sight(d) /\ Geometry(d)
      /\ d.path \in Here \cup {""}
  BY FieldsOfDisplay DEF Whole, Base
<1>2. PICK own \in Blinders(output) : n = GetBlinderID(own)  BY DEF Own
<1>3. n[1] = own /\ own \in {"mute", "sync", "bg", "display"}
  BY <1>2, OwnFacts DEF GetBlinderID
<1>4. /\ \A a \in Here : Surf(a) \in Names /\ Surf(a) # n
      /\ \A kind \in Followers : GetBlinderID(kind) \in Names
                                 /\ (GetBlinderID(kind) = n => own \in {"mute", "sync", "bg"})
      /\ GetBlinderID("mute") \in Names /\ (GetBlinderID("mute") = n => own = "mute")
      /\ HasBackground => GetBlinderID("bg") \in Names
      /\ GetBlinderID("bg") = n => own = "bg"
      /\ n \in Names
  <2>1. \A a \in Here : Surf(a) \in Names /\ Surf(a) # n  BY NameFacts
  <2>2. \A k \in {"mute", "sync", "bg", "display"} : GetBlinderID(k) = n => k = own
    BY <1>2, <1>3, OwnFacts
  <2>3. Followers \subseteq {"mute", "sync", "bg"}  BY OwnFacts DEF Followers
  <2>4. \A kind \in Followers : GetBlinderID(kind) \in Names
                                /\ (GetBlinderID(kind) = n => own \in {"mute", "sync", "bg"})
    <3>1. ASSUME NEW kind \in Followers, GetBlinderID(kind) = n  PROVE own \in {"mute", "sync", "bg"}
      <4>1. kind \in {"mute", "sync", "bg"}  BY <2>3
      <4>2. kind = own  BY <2>2, <3>1, <4>1
      <4>. QED  BY <4>1, <4>2
    <3>. QED  BY <3>1, OwnFacts
  <2>. QED  BY <2>1, <2>2, <2>4, OwnFacts, NameFacts
<1>5. /\ e \in Displays /\ e.setting = d.setting /\ Published(d, e)
      /\ SameFlags(d.ivi, e.ivi) /\ Committed(e.ivi)
      /\ \A m \in Names : m # n => Cut(e.ivi, m) = Cut(d.ivi, m) /\ Lies(e.ivi, m) = Lies(d.ivi, m)
      /\ \A m \in Names : m # n => (Shown(e.ivi, m) <=> Shown(d.ivi, m))
      /\ Shown(e.ivi, n) <=> n[1] = "display" /\ output = "front"
      /\ \A m \in d.behind : m \in e.behind
      /\ n[1] = "bg" => "bg" \in e.behind
      /\ n[1] = "mute" => "muted" \in e.behind
      /\ n[1] \in {"mute", "sync", "bg"} => "place" \in e.behind
  BY <1>1, BlinderStep
<1>. HIDE DEF e
<1>7. /\ \A m \in d.behind : m \in e.behind
      /\ own = "bg" => "bg" \in e.behind
      /\ own = "mute" => "muted" \in e.behind
      /\ own \in {"mute", "sync", "bg"} => "place" \in e.behind
  BY <1>3, <1>5
<1>8. /\ e.path = d.path /\ e.file = d.file /\ e.ctl = d.ctl /\ e.sts = d.sts /\ e.told = d.told
  BY <1>5 DEF Published
<1>9. Base(e)
  <2>1. \A m \in Names : /\ There(e.ivi, m) <=> There(d.ivi, m)
                         /\ Heard(e.ivi, m) \/ Pictured(e.ivi, m) => There(d.ivi, m)
    BY <1>1, <1>5 DEF Present, SameFlags
  <2>2. \A m \in Names : Shown(e.ivi, m) => There(d.ivi, m)
    BY <1>1, <1>5 DEF Present
  <2>3. Present(e.ivi)  BY <1>1, <2>1, <2>2, PresentFrame
  <2>. QED  BY <1>5, <2>3 DEF Base
<1>10. SameRest(d, e)  BY <1>5, <1>8 DEF SameRest, SameFlags
<1>11. /\ \A a \in Here : /\ Shown(e.ivi, Surf(a)) <=> Shown(d.ivi, Surf(a))
                          /\ Heard(e.ivi, Surf(a)) <=> Heard(d.ivi, Surf(a))
                          /\ Cut(e.ivi, Surf(a)) = Cut(d.ivi, Surf(a))
                          /\ Lies(e.ivi, Surf(a)) = Lies(d.ivi, Surf(a))
  BY <1>4, <1>5 DEF SameFlags
<1>12. OthersHidden(e) /\ ShownAsAsked(e) /\ VisibilityTold(e) /\ OpacityTold(e)
  BY <1>1, <1>5, <1>7, <1>8, <1>11
     DEF Sight, OthersHidden, ShownAsAsked, VisibilityTold, OpacityTold
<1>13. BackgroundBehind(e)
  BY <1>1, <1>4, <1>5, <1>7, <1>8 DEF Sight, BackgroundBehind
<1>14. NoMuteWithoutPath(e)
  <2>1. Shown(e.ivi, GetBlinderID("mute")) => Shown(d.ivi, GetBlinderID("mute"))
    <3>1. CASE GetBlinderID("mute") = n  BY <1>3, <1>4, <1>5, <3>1
    <3>2. CASE GetBlinderID("mute") # n  BY <1>4, <1>5, <3>2
    <3>. QED  BY <3>1, <3>2
  <2>. QED  BY <1>1, <1>8, <2>1 DEF Sight, NoMuteWithoutPath
<1>15. MuteTold(e)  BY <1>1, <1>4, <1>5, <1>7, <1>8 DEF Sight, MuteTold
<1>16. VideoPlaced(e) /\ SizesGiven(e) /\ OutputGiven(e)
  BY <1>1, <1>5, <1>7, <1>8, <1>11 DEF Geometry, VideoPlaced, SizesGiven, OutputGiven
<1>17. CoversPlaced(e)
  BY <1>1, <1>4, <1>5, <1>7, <1>8 DEF Geometry, CoversPlaced
<1>18. ClippingTold(e) /\ OutputTold(e) /\ WideTold(e)
  BY <1>1, <1>5, <1>7, <1>8 DEF Geometry, ClippingTold, OutputTold, WideTold
<1>19. Whole(e)
  BY <1>9, <1>12, <1>13, <1>14, <1>15, <1>16, <1>17, <1>18 DEF Whole, Sight, Geometry
<1>. QED  BY <1>8, <1>10, <1>11, <1>19 DEF e

\* A video surface that gets a picture of a size.
LEMMA VideoHandlerStep ==
  ASSUME OutputOK, NEW d, Whole(d), NEW a \in Here, NEW r \in Sizes, HasArea(r)
  PROVE  LET e == ConfigureVideo(d, a, r)
         IN Whole(e) /\ SameRest(d, e) /\ e.path = d.path
<1>. DEFINE current == a = d.path /\ (output = "camera" \/ GetVideoVisibility(d.setting, Id(a)))
            vis == current \/ Initial[a] = "visible"
            show == current \/ Initial[a] # "none"
            e == ConfigureAs(d, a, r, vis, show)
            first == ~Out(d.setting, a).set
            moves == first /\ output \in {"camera", "ic"}
<1>1. /\ d \in Displays /\ Committed(d.ivi) /\ Present(d.ivi) /\ Sight(d) /\ Geometry(d)
      /\ d.setting \in Settings
  BY FieldsOfDisplay DEF Whole, Base
<1>33. d.path \in Here \cup {""}  BY <1>1, FieldsOfDisplay
<1>2. ConfigureVideo(d, a, r) = e  BY DEF ConfigureVideo
<1>3. /\ vis \in BOOLEAN /\ show \in BOOLEAN
      /\ current <=> a = d.path /\ (output = "camera" \/ Vis(d.setting, a))
      /\ vis <=> current \/ Initial[a] = "visible"
      /\ show <=> current \/ Initial[a] # "none"
  BY DEF GetVideoVisibility, Vis
<1>4. /\ Initial[a] \in {"visible", "invisible", "none"} /\ a # ""
      /\ output \in {"front", "rear", "ic", "camera"}
  BY LayoutAssumption DEF LayoutAssumption, OutputOK, Here
<1>. HIDE DEF current, vis, show
<1>5. /\ e \in Displays /\ Published(d, e)
      /\ SameFlags(d.ivi, e.ivi) /\ Committed(e.ivi)
      /\ \A b \in Here : b # a => SameSizes(d.setting, e.setting, b)
      /\ \A b \in Here : /\ Opaque(e.setting, b) <=> Opaque(d.setting, b)
                         /\ Vis(e.setting, b) <=> IF b = a THEN vis ELSE Vis(d.setting, b)
      /\ Orig(e.setting, a) = Orig(d.setting, a) \/ Orig(e.setting, a).rect = r
      /\ Orig(d.setting, a).set => Orig(e.setting, a) = Orig(d.setting, a)
      /\ Out(e.setting, a).set /\ (Out(d.setting, a).set => Out(e.setting, a) = Out(d.setting, a))
      /\ Clip(e.setting, a) = Clip(d.setting, a)
      /\ ClipOn(e.setting, a) <=> ClipOn(d.setting, a)
      /\ WideOf(e.setting, a) = WideOf(d.setting, a)
      /\ There(d.ivi, Surf(a)) =>
           [src |-> Cut(e.ivi, Surf(a)), dest |-> Lies(e.ivi, Surf(a))] \in PicturesOf(e.setting, a)
      /\ \A m \in Names : m # Surf(a) => (Shown(e.ivi, m) <=> Shown(d.ivi, m))
      /\ Shown(e.ivi, Surf(a)) <=>
           IF show /\ There(d.ivi, Surf(a)) THEN vis ELSE Shown(d.ivi, Surf(a))
      /\ \A m \in Paths : m # Surf(a) => Cut(e.ivi, m) = Cut(d.ivi, m) /\ Lies(e.ivi, m) = Lies(d.ivi, m)
      /\ ~moves => \A n \in Own : Lies(e.ivi, n) = Lies(d.ivi, n)
      /\ moves => Lies(e.ivi, GetBlinderID("mute")) = Blind(e.setting, a)
      /\ e.behind = (d.behind \ {"rect"})
           \cup (IF (moves /\ a # d.path) \/ (output = "camera" /\ ~first) THEN {"place"} ELSE {})
           \cup (IF output = "camera" /\ first THEN {"out"} ELSE {})
           \cup (IF a = d.path /\ Initial[a] = "visible" /\ ~Vis(d.setting, a)
                 THEN {"visible", "bg"} ELSE {})
  BY <1>1, <1>3, ConfigureStep
<1>6. /\ \A m \in d.behind : m # "rect" => m \in e.behind
      /\ moves /\ a # d.path => "place" \in e.behind
      /\ output = "camera" /\ ~first => "place" \in e.behind
      /\ output = "camera" /\ first => "out" \in e.behind
      /\ a = d.path /\ Initial[a] = "visible" /\ ~Vis(d.setting, a) =>
           "visible" \in e.behind /\ "bg" \in e.behind
  BY <1>5
<1>. HIDE DEF e
<1>7. /\ e.path = d.path /\ e.file = d.file /\ e.ctl = d.ctl /\ e.sts = d.sts /\ e.told = d.told
  BY <1>5 DEF Published
<1>8. /\ \A b \in Here : Surf(b) \in Names /\ Surf(b) \in Paths /\ (Surf(b) = Surf(a) => b = a)
      /\ \A n \in Own : n \in Names /\ n # Surf(a)
      /\ \A kind \in Followers : GetBlinderID(kind) \in Own
      /\ GetBlinderID("mute") \in Own /\ (HasBackground => GetBlinderID("bg") \in Own)
      /\ output = "camera" => Here = {"CAMERA"} /\ Blinders(output) = {"mute"}
      /\ HasBackground => output # "camera"
  BY NameFacts, OwnFacts, <1>4
<1>9. Base(e)
  <2>1. \A m \in Names : /\ There(e.ivi, m) <=> There(d.ivi, m)
                         /\ Heard(e.ivi, m) \/ Pictured(e.ivi, m) => There(d.ivi, m)
    BY <1>1, <1>5 DEF Present, SameFlags
  <2>2. \A m \in Names : Shown(e.ivi, m) => There(d.ivi, m)
    BY <1>1, <1>5 DEF Present
  <2>3. Present(e.ivi)  BY <1>1, <2>1, <2>2, PresentFrame
  <2>. QED  BY <1>5, <2>3 DEF Base
<1>10. SameRest(d, e)  BY <1>5, <1>7 DEF SameRest, SameFlags
<1>11. Shown(e.ivi, Surf(a)) => vis \/ (~show /\ Shown(d.ivi, Surf(a)))
  BY <1>1, <1>5, <1>8 DEF Present
<1>12. OthersHidden(e)
  <2>1. ASSUME NEW b \in Here, Shown(e.ivi, Surf(b)), Initial[b] = "invisible"  PROVE b = e.path
    <3>1. CASE b = a
      <4>1. show  BY <1>3, <2>1, <3>1
      <4>2. vis  BY <1>11, <2>1, <3>1, <4>1
      <4>3. current  BY <1>3, <2>1, <3>1, <4>2
      <4>. QED  BY <1>3, <1>7, <3>1, <4>3
    <3>2. CASE b # a
      <4>1. Shown(d.ivi, Surf(b))  BY <1>5, <1>8, <2>1, <3>2
      <4>. QED  BY <1>1, <1>7, <2>1, <4>1 DEF Sight, OthersHidden
    <3>. QED  BY <3>1, <3>2
  <2>. QED  BY <2>1 DEF OthersHidden
<1>13. ShownAsAsked(e)
  <2>1. ASSUME e.path # ""
        PROVE  /\ Shown(e.ivi, Surf(e.path)) => Vis(e.setting, e.path)
               /\ Heard(e.ivi, Surf(e.path)) /\ Orig(e.setting, e.path).set /\ Vis(e.setting, e.path) =>
                    Shown(e.ivi, Surf(e.path))
    <3>1. /\ d.path \in Here /\ d.path # ""
          /\ Shown(d.ivi, Surf(d.path)) => Vis(d.setting, d.path)
          /\ Heard(d.ivi, Surf(d.path)) /\ Orig(d.setting, d.path).set /\ Vis(d.setting, d.path) =>
               Shown(d.ivi, Surf(d.path))
      BY <1>1, <1>33, <1>7, <2>1 DEF Sight, ShownAsAsked
    <3>2. CASE d.path = a
      <4>1. Vis(e.setting, a) <=> vis  BY <1>5
      <4>2. Shown(e.ivi, Surf(a)) => vis
        <5>1. ASSUME ~show, Shown(d.ivi, Surf(a))  PROVE FALSE
          <6>1. Vis(d.setting, a)  BY <3>1, <3>2, <5>1
          <6>. QED  BY <1>3, <3>2, <5>1, <6>1
        <5>. QED  BY <1>11, <5>1
      <4>3. Heard(e.ivi, Surf(a)) /\ vis => Shown(e.ivi, Surf(a))
        <5>1. ASSUME Heard(e.ivi, Surf(a)), vis  PROVE Shown(e.ivi, Surf(a))
          <6>1. There(d.ivi, Surf(a))  BY <1>1, <1>5, <1>8, <5>1 DEF SameFlags, Present
          <6>2. show  BY <1>3, <5>1
          <6>. QED  BY <1>5, <5>1, <6>1, <6>2
        <5>. QED  BY <5>1
      <4>. QED  BY <1>7, <3>2, <4>1, <4>2, <4>3
    <3>3. CASE d.path # a
      <4>1. /\ Surf(d.path) # Surf(a) /\ Surf(d.path) \in Names
            /\ SameSizes(d.setting, e.setting, d.path)
            /\ Vis(e.setting, d.path) <=> Vis(d.setting, d.path)
        BY <1>5, <1>8, <3>1, <3>3
      <4>2. /\ Orig(e.setting, d.path) = Orig(d.setting, d.path)
            /\ Shown(e.ivi, Surf(d.path)) <=> Shown(d.ivi, Surf(d.path))
            /\ Heard(e.ivi, Surf(d.path)) <=> Heard(d.ivi, Surf(d.path))
        BY <1>5, <4>1 DEF SameSizes, SameFlags
      <4>. QED  BY <1>7, <3>1, <4>1, <4>2
    <3>. QED  BY <3>2, <3>3
  <2>. QED  BY <2>1 DEF ShownAsAsked
<1>14. \A b \in Here : b = d.path /\ output # "camera" =>
         \/ Vis(e.setting, b) <=> Vis(d.setting, b)
         \/ "visible" \in e.behind /\ "bg" \in e.behind
  BY <1>3, <1>5, <1>6
<1>15. BackgroundBehind(e)
  <2>1. ASSUME HasBackground, "bg" \notin e.behind
        PROVE  Shown(e.ivi, GetBlinderID("bg")) <=>
                 e.path # "" /\ Vis(e.setting, e.path) /\ Opaque(e.setting, e.path)
    <3>1. Shown(e.ivi, GetBlinderID("bg")) <=> Shown(d.ivi, GetBlinderID("bg"))
      BY <1>5, <1>8, <2>1
    <3>2. "bg" \notin d.behind  BY <1>6, <2>1
    <3>3. Shown(d.ivi, GetBlinderID("bg")) <=>
            d.path # "" /\ Vis(d.setting, d.path) /\ Opaque(d.setting, d.path)
      BY <1>1, <2>1, <3>2 DEF Sight, BackgroundBehind
    <3>4. d.path # "" => (Vis(e.setting, d.path) <=> Vis(d.setting, d.path))
      BY <1>1, <1>33, <1>8, <1>14, <2>1
    <3>5. d.path # "" => (Opaque(e.setting, d.path) <=> Opaque(d.setting, d.path))
      BY <1>1, <1>33, <1>5
    <3>. QED  BY <1>7, <3>1, <3>3, <3>4, <3>5
  <2>. QED  BY <2>1 DEF BackgroundBehind
<1>16. Shown(e.ivi, GetBlinderID("mute")) <=> Shown(d.ivi, GetBlinderID("mute"))
  BY <1>5, <1>8
<1>17. NoMuteWithoutPath(e) /\ MuteTold(e)
  BY <1>1, <1>6, <1>7, <1>16 DEF Sight, NoMuteWithoutPath, MuteTold
<1>18. VisibilityTold(e)
  BY <1>1, <1>33, <1>6, <1>7, <1>14 DEF Sight, VisibilityTold
<1>19. OpacityTold(e)
  BY <1>1, <1>33, <1>5, <1>6, <1>7 DEF Sight, OpacityTold
<1>20. SizesGiven(e)
  <2>1. ASSUME NEW b \in Here, Orig(e.setting, b).set
        PROVE  Out(e.setting, b).set /\ Orig(e.setting, b).rect \in Sizes \ {NoRect}
    <3>1. CASE b = a
      <4>1. r # NoRect  BY DEF HasArea, NoRect, Rect
      <4>2. Orig(d.setting, a).set => Orig(d.setting, a).rect \in Sizes \ {NoRect}
        BY <1>1 DEF Geometry, SizesGiven
      <4>. QED  BY <1>5, <2>1, <3>1, <4>1, <4>2
    <3>2. CASE b # a
      <4>1. Orig(e.setting, b) = Orig(d.setting, b) /\ Out(e.setting, b) = Out(d.setting, b)
        BY <1>5, <3>2 DEF SameSizes
      <4>. QED  BY <1>1, <2>1, <4>1 DEF Geometry, SizesGiven
    <3>. QED  BY <3>1, <3>2
  <2>. QED  BY <2>1 DEF SizesGiven
<1>21. VideoPlaced(e)
  <2>1. ASSUME NEW b \in Here, b = e.path \/ output = "camera", Heard(e.ivi, Surf(b)),
               Orig(e.setting, b).set, output = "camera" => "rect" \notin e.behind
        PROVE  [src |-> Cut(e.ivi, Surf(b)), dest |-> Lies(e.ivi, Surf(b))] \in PicturesOf(e.setting, b)
    <3>1. CASE b = a
      <4>1. There(d.ivi, Surf(a))  BY <1>1, <1>5, <1>8, <2>1, <3>1 DEF SameFlags, Present
      <4>. QED  BY <1>5, <3>1, <4>1
    <3>2. CASE b # a
      <4>1. output # "camera" /\ b = d.path  BY <1>7, <1>8, <2>1, <3>2
      <4>2. /\ Surf(b) # Surf(a) /\ Surf(b) \in Names /\ Surf(b) \in Paths
            /\ SameSizes(d.setting, e.setting, b)
        BY <1>5, <1>8, <3>2
      <4>3. /\ Orig(d.setting, b).set /\ Heard(d.ivi, Surf(b))
            /\ Cut(e.ivi, Surf(b)) = Cut(d.ivi, Surf(b)) /\ Lies(e.ivi, Surf(b)) = Lies(d.ivi, Surf(b))
        BY <1>5, <2>1, <4>2 DEF SameSizes, SameFlags
      <4>4. PicturesOf(e.setting, b) = PicturesOf(d.setting, b)  BY <4>2, SameSizesFacts
      <4>. QED  BY <1>1, <4>1, <4>3, <4>4 DEF Geometry, VideoPlaced
    <3>. QED  BY <3>1, <3>2
  <2>. QED  BY <2>1 DEF VideoPlaced
<1>22. \A b \in Here : Out(d.setting, b).set => Out(e.setting, b) = Out(d.setting, b)
  BY <1>5 DEF SameSizes
<1>23. OutputGiven(e)
  BY <1>1, <1>33, <1>6, <1>7, <1>22 DEF Geometry, OutputGiven
<1>24. \A b \in Here : (b # a \/ ~first) => Dest(e.setting, b) = Dest(d.setting, b)
  <2>1. ASSUME NEW b \in Here, b # a  PROVE Dest(e.setting, b) = Dest(d.setting, b)
    BY <1>5, <2>1, SameSizesFacts
  <2>2. ASSUME ~first  PROVE Dest(e.setting, a) = Dest(d.setting, a)
    BY <1>5, <2>2 DEF Dest
  <2>. QED  BY <2>1, <2>2
<1>25. d.path = a /\ output # "camera" /\ ("place" \notin e.behind \/ "out" \notin e.behind) => ~first
  BY <1>1, <1>4, <1>6 DEF Geometry, OutputGiven
<1>26. CoversPlaced(e)
  <2>1. ASSUME e.path # "", "place" \notin e.behind, NEW kind \in Followers
        PROVE  Lies(e.ivi, GetBlinderID(kind)) = Blind(e.setting, e.path)
    <3>1. /\ d.path \in Here /\ d.path # "" /\ "place" \notin d.behind
          /\ GetBlinderID(kind) \in Own
      BY <1>1, <1>33, <1>6, <1>7, <1>8, <2>1
    <3>2. Lies(d.ivi, GetBlinderID(kind)) = Blind(d.setting, d.path)
      BY <1>1, <3>1 DEF Geometry, CoversPlaced
    <3>3. CASE moves
      <4>1. a = d.path  BY <1>6, <2>1, <3>3
      <4>2. output = "camera"  BY <1>25, <2>1, <3>3, <4>1
      <4>3. kind = "mute"  BY <1>8, <4>2 DEF Followers
      <4>. QED  BY <1>5, <1>7, <3>3, <4>1, <4>3
    <3>4. CASE ~moves
      <4>1. Lies(e.ivi, GetBlinderID(kind)) = Lies(d.ivi, GetBlinderID(kind))  BY <1>5, <3>1, <3>4
      <4>2. Blind(e.setting, d.path) = Blind(d.setting, d.path)
        <5>1. CASE d.path # a
          <6>1. SameSizes(d.setting, e.setting, d.path)  BY <1>5, <3>1, <5>1
          <6>. QED  BY <6>1, SameSizesFacts
        <5>2. CASE d.path = a
          <6>1. output # "camera"
            <7>1. ASSUME output = "camera"  PROVE FALSE
              <8>1. ~first  BY <3>4, <7>1
              <8>. QED  BY <1>6, <2>1, <7>1, <8>1
            <7>. QED  BY <7>1
          <6>2. ~first  BY <1>25, <2>1, <5>2, <6>1
          <6>3. e.setting \in Settings  BY <1>5, FieldsOfDisplay
          <6>4. Dest(e.setting, a) = Dest(d.setting, a)  BY <1>24, <6>2
          <6>. QED  BY <1>1, <5>2, <6>1, <6>3, <6>4, PlacedFacts
        <5>. QED  BY <5>1, <5>2
      <4>. QED  BY <1>7, <3>2, <4>1, <4>2
    <3>. QED  BY <3>3, <3>4
  <2>. QED  BY <2>1 DEF CoversPlaced
<1>27. ClippingTold(e)
  <2>1. \A b \in Here : ClipOn(e.setting, b) <=> ClipOn(d.setting, b)  BY <1>5 DEF SameSizes
  <2>. QED  BY <1>1, <1>33, <1>6, <1>7, <2>1 DEF Geometry, ClippingTold
<1>28. OutputTold(e)
  <2>1. ASSUME e.path # "", "out" \notin e.behind  PROVE e.sts.out = Dest(e.setting, e.path)
    <3>1. d.path \in Here /\ d.path # "" /\ "out" \notin d.behind  BY <1>1, <1>33, <1>6, <1>7, <2>1
    <3>2. d.path # a \/ ~first  BY <1>6, <1>25, <2>1
    <3>3. Dest(e.setting, d.path) = Dest(d.setting, d.path)  BY <1>24, <3>1, <3>2
    <3>. QED  BY <1>1, <1>7, <3>1, <3>3 DEF Geometry, OutputTold
  <2>. QED  BY <2>1 DEF OutputTold
<1>29. WideTold(e)
  <2>1. \A b \in Here : WideOf(e.setting, b) = WideOf(d.setting, b)  BY <1>5 DEF SameSizes
  <2>. QED  BY <1>1, <1>33, <1>7, <2>1 DEF Geometry, WideTold
<1>30. Whole(e)
  BY <1>9, <1>12, <1>13, <1>15, <1>17, <1>18, <1>19, <1>20, <1>21, <1>23, <1>26, <1>27,
     <1>28, <1>29 DEF Whole, Sight, Geometry
<1>. QED  BY <1>2, <1>7, <1>10, <1>30

\* The screen is laid out the first time only.
LEMMA ScreenHandlerStep ==
  ASSUME OutputOK, NEW d, Whole(d), Layered(d, screen)
  PROVE  LET e == SetLayoutScreen(d)
         IN /\ Whole(e) /\ Layered(e, TRUE) /\ e.path = d.path /\ e.told = d.told
            /\ \A n \in Names : There(e.ivi, n) <=> There(d.ivi, n)
            /\ e.ivi \in Compositors
<1>. DEFINE c == Ivi!CreateLayers(d.ivi, d.file.ids)
            y == [d.sts EXCEPT !.display = TRUE]
            e == [d EXCEPT !.ivi = c, !.sts = y]
<1>1. /\ d \in Displays /\ Committed(d.ivi) /\ Present(d.ivi) /\ Sight(d) /\ Geometry(d)
      /\ d.ivi \in Compositors /\ d.file \in Files /\ d.sts \in Statuses
  BY FieldsOfDisplay DEF Whole, Base
<1>2. CASE screen
  <2>1. SetLayoutScreen(d) = d  BY <1>2 DEF SetLayoutScreen
  <2>2. Layered(d, TRUE)  BY <1>2 DEF Layered
  <2>. QED  BY <1>1, <2>1, <2>2
<1>3. CASE ~screen
  <2>1. SetLayoutScreen(d) = e
    BY <1>1, <1>3 DEF SetLayoutScreen, UpdateSettingStatusDisplay, Displays
  <2>2. d.file.ids \in Seq(DOMAIN Order)  BY <1>1 DEF Files
  <2>3. /\ c \in Compositors /\ c.layers = d.file.ids /\ SameShown(d.ivi, c) /\ SamePlaced(d.ivi, c)
        /\ \A n \in Names : /\ There(c, n) <=> There(d.ivi, n)
                            /\ Heard(c, n) <=> Heard(d.ivi, n)
                            /\ Pictured(c, n) <=> Pictured(d.ivi, n)
        /\ Committed(c)
    BY <1>1, <2>2, LayerFacts
  <2>4. /\ y \in Statuses /\ y.display /\ y.visible = d.sts.visible /\ y.opaque = d.sts.opaque
        /\ y.mute = d.sts.mute /\ y.out = d.sts.out /\ y.clipOn = d.sts.clipOn /\ y.wide = d.sts.wide
    BY <1>1 DEF Statuses
  <2>. HIDE DEF c, y
  <2>5. /\ e \in Displays /\ e.ivi = c /\ e.sts = y /\ e.setting = d.setting /\ e.path = d.path
        /\ e.file = d.file /\ e.ctl = d.ctl /\ e.told = d.told /\ e.behind = d.behind
    BY <1>1, <2>3, <2>4 DEF Displays
  <2>. HIDE DEF e
  <2>6. Present(c)
    <3>1. \A n \in Names : /\ There(c, n) <=> There(d.ivi, n)
                           /\ Heard(c, n) \/ Pictured(c, n) => There(d.ivi, n)
                           /\ Shown(c, n) => There(d.ivi, n)
      BY <1>1, <2>3 DEF Present, SameShown
    <3>. QED  BY <1>1, <3>1, PresentFrame
  <2>7. \A a \in Here : Surf(a) \in Names  BY NameFacts
  <2>8. SameSeen(d.setting, e.setting) /\ \A a \in Here : SameSizes(d.setting, e.setting, a)
    BY <2>5 DEF SameSeen, SameSizes
  <2>9. SameSight(d, e) /\ SameGeometry(d, e)
    BY <2>3, <2>4, <2>5, <2>7, <2>8 DEF SameSight, SameGeometry, Keeps
  <2>10. Whole(e)
    BY <1>1, <2>3, <2>5, <2>6, <2>9, SightFrame, GeometryFrame DEF Whole, Base
  <2>11. Layered(e, TRUE)  BY <2>3, <2>4, <2>5 DEF Layered
  <2>. QED  BY <2>1, <2>3, <2>5, <2>10, <2>11
<1>. QED  BY <1>2, <1>3

-----------------------------------------------------------------------------
(* Suspend and resume                                                      *)

\* The mute of the display is not the video's where that one matters.
LEMMA DisplayMuteStep ==
  ASSUME OutputOK, NEW d, Whole(d), output # "camera", NEW b \in BOOLEAN
  PROVE  LET e == SetBlinderEnable(d, DisplayMute, b)
         IN /\ Whole(e) /\ SameRest(d, e) /\ e.path = d.path
            /\ \A a \in Here : Shown(e.ivi, Surf(a)) <=> Shown(d.ivi, Surf(a))
            /\ Shown(e.ivi, DisplayMute) <=> b
<1>. DEFINE n == DisplayMute
            none == d.path = ""
            e == SetBlinderEnable(d, n, b)
<1>1. /\ d \in Displays /\ Committed(d.ivi) /\ Present(d.ivi) /\ Sight(d) /\ Geometry(d)
      /\ n \in Own /\ n \in Names
  BY OwnFacts, NameFacts DEF Whole, Base
<1>2. /\ \A a \in Here : Surf(a) \in Names /\ Surf(a) # n
      /\ HasBackground => GetBlinderID("bg") \in Names /\ GetBlinderID("bg") # n
      /\ HasWide => GetBlinderID("mute") \in Names /\ GetBlinderID("mute") # n
  BY <1>1, NameFacts, OwnFacts DEF DisplayMute
<1>3. /\ e \in Displays /\ e.setting = d.setting /\ Untold(d, e)
      /\ SameFlags(d.ivi, e.ivi) /\ SamePlaced(d.ivi, e.ivi)
      /\ Committed(e.ivi)
      /\ \A k \in Names : Shown(e.ivi, k) <=>
           IF k = n /\ ~(b /\ HasWide /\ n = GetBlinderID("mute") /\ d.path = "") THEN b
           ELSE Shown(d.ivi, k)
  BY <1>1, BlinderEnableStep
<1>. HIDE DEF none, e
<1>4. /\ \A k \in Names : k # n => (Shown(e.ivi, k) <=> Shown(d.ivi, k))
      /\ Shown(e.ivi, n) <=> b
  BY <1>1, <1>2, <1>3
<1>5. /\ e.path = d.path /\ e.file = d.file /\ e.ctl = d.ctl /\ e.sts = d.sts /\ e.told = d.told
      /\ e.behind = d.behind
  BY <1>3 DEF Untold, Published
<1>6. Base(e)
  <2>1. \A k \in Names : /\ There(e.ivi, k) <=> There(d.ivi, k)
                         /\ Heard(e.ivi, k) \/ Pictured(e.ivi, k) => There(d.ivi, k)
    BY <1>1, <1>3 DEF SameFlags, Present
  <2>2. \A k \in Names : Shown(e.ivi, k) => There(d.ivi, k)  BY <1>1, <1>4 DEF Present
  <2>3. Present(e.ivi)  BY <1>1, <2>1, <2>2, PresentFrame
  <2>. QED  BY <1>3, <2>3 DEF Base
<1>7. SameRest(d, e)  BY <1>3, <1>5 DEF SameRest, SameFlags
<1>8. /\ \A a \in Here : Shown(e.ivi, Surf(a)) <=> Shown(d.ivi, Surf(a))
      /\ \A a \in Here : Heard(e.ivi, Surf(a)) <=> Heard(d.ivi, Surf(a))
      /\ HasBackground => (Shown(e.ivi, GetBlinderID("bg")) <=> Shown(d.ivi, GetBlinderID("bg")))
      /\ HasWide => (Shown(e.ivi, GetBlinderID("mute")) <=> Shown(d.ivi, GetBlinderID("mute")))
  BY <1>2, <1>3, <1>4 DEF SameFlags
<1>9. SameGeometry(d, e)
  <2>1. \A a \in Here : SameSizes(d.setting, e.setting, a)  BY <1>3 DEF SameSizes
  <2>. QED  BY <1>3, <1>5, <1>8, <2>1 DEF SameGeometry, Keeps
<1>10. Geometry(e)  BY <1>1, <1>9, GeometryFrame
<1>11. d.path \in Here \cup {""}  BY <1>1, FieldsOfDisplay
<1>12. OthersHidden(e)  BY <1>1, <1>5, <1>8 DEF Sight, OthersHidden
<1>13. ShownAsAsked(e)  BY <1>1, <1>3, <1>5, <1>8, <1>11 DEF Sight, ShownAsAsked
<1>14. BackgroundBehind(e) /\ NoMuteWithoutPath(e) /\ MuteTold(e)
  BY <1>1, <1>3, <1>5, <1>8 DEF Sight, BackgroundBehind, NoMuteWithoutPath, MuteTold
<1>15. VisibilityTold(e) /\ OpacityTold(e)
  BY <1>1, <1>3, <1>5 DEF Sight, VisibilityTold, OpacityTold
<1>16. Whole(e)
  BY <1>6, <1>10, <1>12, <1>13, <1>14, <1>15 DEF Whole, Sight
<1>. QED  BY <1>4, <1>5, <1>7, <1>8, <1>16 DEF e

\* What a suspend makes of the path: none, but for a camera whose surface is gone.
Cleared(d, e) ==
  /\ Base(e) /\ SameRest(d, e) /\ OthersHidden(e) /\ ShownAsAsked(e) /\ SizesGiven(e)
  /\ BackgroundBehind(e) /\ NoMuteWithoutPath(e)
  /\ e.path # "" => output = "camera" /\ ~There(e.ivi, Surf(e.path))
  /\ output = "camera" => VideoPlaced(e) /\ CoversPlaced(e)
  /\ output # "camera" => (Shown(e.ivi, DisplayMute) <=> Shown(d.ivi, DisplayMute))

LEMMA ClearedFacts ==
  ASSUME OutputOK, NEW d, Whole(d), output \in {"rear", "ic"} => d.path = "" \/ screen
  PROVE  LET e == CASE output = "front"  -> StrSuspendPathClearFront(d)
                    [] output = "rear"   -> StrSuspendPathClearRear(d)
                    [] output = "ic"     -> StrSuspendPathClearICluster(d)
                    [] output = "camera" -> StrSuspendPathClearCamera(d)
         IN Cleared(d, e)
<1>. DEFINE e == CASE output = "front"  -> StrSuspendPathClearFront(d)
                   [] output = "rear"   -> StrSuspendPathClearRear(d)
                   [] output = "ic"     -> StrSuspendPathClearICluster(d)
                   [] output = "camera" -> StrSuspendPathClearCamera(d)
<1>1. d \in Displays /\ Base(d) /\ Sight(d) /\ Geometry(d)  BY DEF Whole, Base
<1>2. output \in {"front", "rear", "ic", "camera"}  BY NameFacts
<1>3. /\ OthersHidden(d) /\ SizesGiven(d) /\ MuteTold(d) /\ ShownAsAsked(d) /\ BackgroundBehind(d)
      /\ NoMuteWithoutPath(d) /\ VideoPlaced(d) /\ CoversPlaced(d)
  BY <1>1 DEF Sight, Geometry
<1>4. CASE d.path = ""
  <2>1. e = d
    BY <1>2, <1>4 DEF StrSuspendPathClearFront, StrSuspendPathClearRear,
                      StrSuspendPathClearICluster, StrSuspendPathClearCamera
  <2>. HIDE DEF e
  <2>2. Cleared(d, d)  BY <1>1, <1>3, <1>4, RestFacts DEF Cleared
  <2>. QED  BY <2>1, <2>2 DEF e
<1>5. CASE d.path # "" /\ output \in {"front", "rear"}
  <2>1. e = SetFrontPath(d, "") \/ e = SetRearPath(d, "")
    BY <1>5 DEF StrSuspendPathClearFront, StrSuspendPathClearRear
  <2>. HIDE DEF e
  <2>2. PICK a \in Here \cup {""} : a = ""  OBVIOUS
  <2>3. a # d.path /\ HasBackground  BY <1>5, <2>2, OwnFacts
  <2>4. e = SetFrontPath(d, a) \/ e = SetRearPath(d, a)  BY <2>1, <2>2
  <2>10. SetRearPath(d, a) = SetFrontPath(d, a)  BY <1>1, <2>3, FrontPathStep
  <2>11. e = SetFrontPath(d, a)  BY <2>4, <2>10
  <2>5. /\ Base(e) /\ SameRest(d, e) /\ e.path = a
        /\ OthersHidden(e) /\ SizesGiven(e) /\ BackgroundBehind(e) /\ NoMuteWithoutPath(e)
        /\ \A n \in Own : n \notin {GetBlinderID("bg"), GetBlinderID("mute")} =>
                            (Shown(e.ivi, n) <=> Shown(d.ivi, n))
    BY <1>1, <1>3, <2>3, <2>11, FrontPathStep
  <2>6. ShownAsAsked(e)  BY <2>2, <2>5 DEF ShownAsAsked
  <2>7. /\ output # "camera" /\ DisplayMute \in Own
        /\ DisplayMute \notin {GetBlinderID("bg"), GetBlinderID("mute")}
    BY <1>5, OwnFacts DEF DisplayMute
  <2>8. Shown(e.ivi, DisplayMute) <=> Shown(d.ivi, DisplayMute)  BY <2>5, <2>7
  <2>9. Cleared(d, e)  BY <2>2, <2>5, <2>6, <2>7, <2>8 DEF Cleared
  <2>. QED  BY <2>9 DEF e
<1>6. CASE d.path # "" /\ output = "ic"
  <2>1. e = SetIClusterPath(d, "")  BY <1>6 DEF StrSuspendPathClearICluster
  <2>. HIDE DEF e
  <2>2. PICK a \in Here \cup {""} : a = ""  OBVIOUS
  <2>3. a # d.path /\ e = SetIClusterPath(d, a)  BY <1>6, <2>1, <2>2
  <2>4. /\ Base(e) /\ SameRest(d, e) /\ e.path = a
        /\ OthersHidden(e) /\ SizesGiven(e) /\ BackgroundBehind(e) /\ NoMuteWithoutPath(e)
        /\ \A n \in Own : Shown(e.ivi, n) <=> Shown(d.ivi, n)
    BY <1>1, <1>3, <1>6, <2>3, IClusterPathStep
  <2>5. ShownAsAsked(e)  BY <2>2, <2>4 DEF ShownAsAsked
  <2>6. output # "camera" /\ DisplayMute \in Own  BY <1>6, OwnFacts
  <2>7. Shown(e.ivi, DisplayMute) <=> Shown(d.ivi, DisplayMute)  BY <2>4, <2>6
  <2>8. Cleared(d, e)  BY <2>2, <2>4, <2>5, <2>6, <2>7 DEF Cleared
  <2>. QED  BY <2>8 DEF e
<1>7. CASE d.path # "" /\ output = "camera"
  <2>1. e = SetCameraPath(d, "")  BY <1>7 DEF StrSuspendPathClearCamera
  <2>. HIDE DEF e
  <2>2. PICK a \in Here \cup {""} : a = ""  OBVIOUS
  <2>3. a # d.path /\ e = SetCameraPath(d, a)  BY <1>7, <2>1, <2>2
  <2>4. /\ Base(e) /\ Sight(e) /\ SameRest(d, e)
        /\ VideoPlaced(e) /\ SizesGiven(e) /\ CoversPlaced(e)
        /\ ~e.ok => ~There(e.ivi, Surf(e.path))
        /\ e.ok => e.path = a
    BY <1>7, <2>3, CameraPathStep
  <2>5. Cleared(d, e)  BY <1>7, <2>2, <2>4 DEF Cleared, Sight
  <2>. QED  BY <2>5 DEF e
<1>. QED  BY <1>2, <1>4, <1>5, <1>6, <1>7

\* The properties go back to their first values, of which none is about a path.
LEMMA InitializeStep ==
  ASSUME OutputOK, NEW d, NEW s, Cleared(d, s), Layered(d, screen)
  PROVE  LET e == InitializeProperties(s)
         IN /\ Whole(e) /\ Layered(e, screen) /\ e.ivi = s.ivi /\ e.path = s.path /\ e.told = d.told
            /\ e.sts.display <=> screen
<1>. DEFINE kept == s.path # ""
            x == NewControl
            y == NewStatus(s.sts.display)
            m == (s.behind \ {"muted"}) \cup IF s.path = "" THEN {} ELSE {"out"}
            e == InitializeProperties(s)
<1>1. e = [s EXCEPT !.ctl = x, !.sts = y, !.behind = m]  BY DEF InitializeProperties
<1>2. Base(s) /\ s \in Displays /\ s.sts \in Statuses /\ s.behind \in SUBSET Marks
  BY FieldsOfDisplay DEF Cleared, Base
<1>3. x \in Controls  BY DEF NewControl, Controls, WideModes
<1>4. /\ y \in Statuses /\ ~y.visible /\ ~y.mute /\ (y.display <=> s.sts.display)
  BY <1>2, NoRectType DEF NewStatus, Statuses, WideModes
<1>5. /\ m \in SUBSET Marks /\ (kept => "out" \in m)
      /\ \A k \in s.behind : k # "muted" => k \in m
  BY <1>2 DEF Marks
<1>. HIDE DEF x, y, m, e
<1>6. /\ e \in Displays /\ SameScene(s, e) /\ e.sts = y /\ e.behind = m
      /\ e.path = s.path /\ e.setting = s.setting /\ e.ivi = s.ivi /\ e.told = s.told /\ e.file = s.file
  BY <1>1, <1>2, <1>3, <1>4, <1>5 DEF Displays, SameScene
<1>7. /\ Base(e) /\ OthersHidden(e) /\ ShownAsAsked(e) /\ NoMuteWithoutPath(e) /\ SizesGiven(e)
      /\ SameRest(s, e)
  BY <1>2, <1>4, <1>6, SceneFacts DEF Cleared
<1>8. Keeps(s, e, {"bg"}) /\ Keeps(s, e, {"rect"}) /\ Keeps(s, e, {"place"})
  BY <1>5, <1>6 DEF Keeps
<1>9. /\ BackgroundBehind(e)
      /\ output = "camera" => VideoPlaced(e) /\ CoversPlaced(e)
  BY <1>2, <1>6, <1>8, TellFrame DEF Cleared
<1>10. kept => output = "camera" /\ ~HasWide /\ ~HasClipping /\ "out" \in e.behind
  BY <1>5, <1>6 DEF Cleared, HasWide, HasClipping
<1>11. (kept <=> e.path # "") /\ e.path \in Here \cup {""} /\ "" \notin Here
  BY <1>6, FieldsOfDisplay, NameFacts
<1>. HIDE DEF kept
<1>12. VisibilityTold(e) /\ OpacityTold(e) /\ OutputGiven(e) /\ ClippingTold(e) /\ OutputTold(e)
       /\ WideTold(e)
  BY <1>10, <1>11
     DEF VisibilityTold, OpacityTold, OutputGiven, ClippingTold, OutputTold, WideTold
<1>13. MuteTold(e)
  <2>1. HasWide => ~kept  BY <1>10
  <2>2. HasWide => ~Shown(e.ivi, GetBlinderID("mute"))
    BY <1>7, <1>11, <2>1 DEF NoMuteWithoutPath
  <2>. QED  BY <1>4, <1>6, <2>2 DEF MuteTold
<1>14. CoversPlaced(e)  BY <1>9, <1>10, <1>11 DEF CoversPlaced
<1>15. VideoPlaced(e)  BY <1>9, <1>10, <1>11 DEF VideoPlaced
<1>16. Whole(e)
  BY <1>7, <1>9, <1>12, <1>13, <1>14, <1>15 DEF Whole, Sight, Geometry
<1>17. /\ e.told = d.told /\ e.file = d.file /\ e.ivi.layers = d.ivi.layers
       /\ e.sts.display <=> d.sts.display
  BY <1>4, <1>6 DEF Cleared, SameRest
<1>18. Layered(e, screen) /\ (e.sts.display <=> screen)
  BY <1>17 DEF Layered
<1>. QED  BY <1>6, <1>16, <1>17, <1>18 DEF e

-----------------------------------------------------------------------------
(* The invariant                                                           *)

\* The clients know which paths are available, unless an event is on its way or was lost.
Announced ==
  \A a \in Here \ lost :
    \/ \E i \in DOMAIN queue : queue[i].kind \in {"created", "deleted"} /\ queue[i].name = Surf(a)
    \/ told[a] <=> Offered(ivi, a)

\* The rear and the cluster have a path only with the screen, which is there once it was
\* laid out, or soon will be.
Screened(d) == output \in {"rear", "ic"} => d.path = "" \/ screen
Connected ==
  /\ screen => plugged
  /\ \A i \in DOMAIN queue : queue[i].kind = "output" => plugged
  /\ Screened(Display)

\* While the system is suspended nothing that is asked for is shown.
Asleep ==
  power = "off" =>
    /\ path # "" => output = "camera" /\ ~Heard(ivi, Surf(path))
    /\ \A a \in Here : ~(Shown(ivi, Surf(a)) /\ Initial[a] = "invisible")
    /\ output = "front" \/ (output \in {"rear", "ic"} /\ sts.display) => Shown(ivi, DisplayMute)

Inv == TypeOK /\ Whole(Display) /\ Layered(Display, screen) /\ Announced /\ Connected /\ Asleep

\* What a handler makes of the record is what the next state is.
LEMMA BecomesFacts ==
  ASSUME OutputOK, output' = output, NEW d \in Displays, Becomes(d)
  PROVE  /\ (Display \in Displays)'
         /\ Whole(d) => Whole(Display)'
<1>. DEFINE e == [ivi |-> d.ivi, path |-> d.path, setting |-> d.setting, file |-> d.file,
                  ctl |-> d.ctl, sts |-> d.sts, told |-> d.told, behind |-> d.behind, ok |-> TRUE]
            paths == Here \cup {""}
<1>1. Display' = e  BY DEF Display, Becomes
<1>8. /\ d.ivi \in Compositors /\ d.path \in paths /\ d.setting \in Settings
      /\ d.file \in Files /\ d.ctl \in Controls /\ d.sts \in Statuses
      /\ d.told \in [Here -> BOOLEAN] /\ d.behind \in SUBSET Marks
  BY FieldsOfDisplay
<1>9. Displays = [ivi : Compositors, path : paths, setting : Settings, file : Files,
                  ctl : Controls, sts : Statuses, told : [Here -> BOOLEAN], behind : SUBSET Marks,
                  ok : BOOLEAN]
  BY DEF Displays
<1>. HIDE DEF paths
<1>2. /\ e \in Displays /\ e.ivi = d.ivi /\ e.setting = d.setting /\ e.path = d.path
      /\ e.file = d.file /\ e.told = d.told /\ e.sts = d.sts /\ e.ctl = d.ctl /\ e.behind = d.behind
  BY <1>8, <1>9
<1>. HIDE DEF e
<1>3. Here' = Here /\ Own' = Own /\ Paths' = Paths
  BY DEF Here, Own, Paths, Blinders, GetBlinderID, GetSurfaceIdFromVideoPath
<1>4. Names' = Names /\ Ids' = Ids
  BY <1>3 DEF Names, Ids, Id, GetVideoPathIdentifier
<1>5. Displays' = Displays
  BY <1>3, <1>4 DEF Displays, Compositors, Settings
<1>6. (Display \in Displays)'  BY <1>1, <1>2, <1>5
<1>7. ASSUME Whole(d)  PROVE Whole(Display)'
  <2>1. Base(e)  BY <1>2, <1>7 DEF Whole, Base
  <2>2. \A a \in Here : Surf(a) \in Names  BY NameFacts
  <2>3. SameSight(d, e) /\ SameGeometry(d, e)
    BY <1>2 DEF SameSight, SameGeometry, Keeps, SameShown, SameSeen, SamePlaced, SameSizes
  <2>4. Sight(e) /\ Geometry(e)  BY <1>7, <2>3, SightFrame, GeometryFrame DEF Whole
  <2>5. Base(Display)'
    <3>1. Committed(e.ivi) => Committed(Display.ivi)'
      BY <1>1, <1>3, <1>4 DEF Committed
    <3>2. Present(e.ivi) => Present(Display.ivi)'
      BY <1>1, <1>3, <1>4 DEF Present, There, Heard, Pictured, Shown
    <3>. QED  BY <1>6, <2>1, <3>1, <3>2 DEF Base
  <2>6. OthersHidden(Display)'
    BY <1>1, <1>3, <2>4 DEF Sight, OthersHidden, Shown, Surf
  <2>7. ShownAsAsked(Display)'
    BY <1>1, <1>3, <2>4 DEF Sight, ShownAsAsked, Shown, Heard, Surf, Vis, Orig, Id
  <2>8. BackgroundBehind(Display)'
    BY <1>1, <1>3, <2>4
       DEF Sight, BackgroundBehind, HasBackground, Blinders, Shown, Vis, Opaque, Id
  <2>9. NoMuteWithoutPath(Display)' /\ MuteTold(Display)'
    BY <1>1, <1>3, <2>4 DEF Sight, NoMuteWithoutPath, MuteTold, HasWide, Shown
  <2>10. VisibilityTold(Display)' /\ OpacityTold(Display)'
    BY <1>1, <1>3, <2>4 DEF Sight, VisibilityTold, OpacityTold, Vis, Opaque, Id
  <2>11. SizesGiven(Display)' /\ OutputGiven(Display)'
    BY <1>1, <1>3, <2>4 DEF Geometry, SizesGiven, OutputGiven, Orig, Out, Id
  <2>12. ClippingTold(Display)' /\ WideTold(Display)'
    BY <1>1, <1>3, <2>4 DEF Geometry, ClippingTold, WideTold, HasClipping, HasWide, ClipOn, WideOf, Id
  <2>13. OutputTold(Display)'
    BY <1>1, <1>3, <2>4 DEF Geometry, OutputTold, Dest, Source, Orig, Clip, ClipOn, Out, Id
  <2>14. CoversPlaced(Display)'
    BY <1>1, <1>3, <2>4 DEF Geometry, CoversPlaced, Followers, Blinders, Lies, Blind, Scaled, Dest,
                            Source, Orig, Clip, ClipOn, Out, WideOf, Id
  <2>15. VideoPlaced(Display)'
    BY <1>1, <1>3, <2>4 DEF Geometry, VideoPlaced, PicturesOf, Cut, Lies, Heard, Surf,
                            Orig, Clip, ClipOn, Out, WideOf, Id
  <2>. QED
    BY <2>5, <2>6, <2>7, <2>8, <2>9, <2>10, <2>11, <2>12, <2>13, <2>14, <2>15
       DEF Whole, Sight, Geometry
<1>. QED  BY <1>6, <1>7

LEMMA UnchangedNames ==
  ASSUME output' = output
  PROVE  /\ Here' = Here /\ Own' = Own /\ Paths' = Paths /\ Names' = Names /\ Events' = Events
         /\ (HasWide <=> HasWide') /\ DisplayMute' = DisplayMute
<1>1. Here' = Here /\ Own' = Own /\ Paths' = Paths
  BY DEF Here, Own, Paths, Blinders, GetBlinderID, GetSurfaceIdFromVideoPath
<1>2. Names' = Names  BY <1>1 DEF Names
<1>3. Events' = Events  BY <1>1 DEF Events, Nothing
<1>. QED  BY <1>1, <1>2, <1>3 DEF HasWide, DisplayMute, GetBlinderID

LEMMA TailFacts ==
  ASSUME NEW S, NEW q \in Seq(S), q # <<>>
  PROVE  /\ Head(q) \in S /\ Tail(q) \in Seq(S) /\ Head(q) = q[1]
         /\ \A i \in DOMAIN q : i = 1 \/ \E j \in DOMAIN Tail(q) : Tail(q)[j] = q[i]
         /\ \A j \in DOMAIN Tail(q) : \E i \in DOMAIN q : q[i] = Tail(q)[j]
<1>1. Len(q) \in Nat /\ DOMAIN q = 1..Len(q) /\ Len(q) # 0  BY EmptySeq, LenProperties
<1>2. /\ Tail(q) \in Seq(S) /\ Len(Tail(q)) = Len(q) - 1 /\ Head(q) = q[1]
      /\ \A i \in 1 .. Len(q) - 1 : Tail(q)[i] = q[i + 1]
  BY HeadTailProperties
<1>3. DOMAIN Tail(q) = 1 .. Len(q) - 1  BY <1>1, <1>2, LenProperties
<1>4. 1 \in DOMAIN q /\ q[1] \in S  BY <1>1, ElementOfSeq
<1>5. ASSUME NEW i \in DOMAIN q, i # 1  PROVE \E j \in DOMAIN Tail(q) : Tail(q)[j] = q[i]
  <2>1. i - 1 \in 1 .. Len(q) - 1 /\ (i - 1) + 1 = i  BY <1>1, <1>5
  <2>2. Tail(q)[i - 1] = q[(i - 1) + 1]  BY <1>2, <2>1
  <2>. QED  BY <1>3, <2>1, <2>2
<1>6. ASSUME NEW j \in DOMAIN Tail(q)  PROVE \E i \in DOMAIN q : q[i] = Tail(q)[j]
  BY <1>1, <1>2, <1>3
<1>. QED  BY <1>2, <1>4, <1>5, <1>6

LEMMA AppendFacts ==
  ASSUME NEW S, NEW q \in Seq(S), NEW x \in S
  PROVE  /\ Append(q, x) \in Seq(S)
         /\ \A i \in DOMAIN q : i \in DOMAIN Append(q, x) /\ Append(q, x)[i] = q[i]
         /\ \E i \in DOMAIN Append(q, x) : Append(q, x)[i] = x
         /\ \A i \in DOMAIN Append(q, x) : Append(q, x)[i] = x \/ (i \in DOMAIN q /\ Append(q, x)[i] = q[i])
<1>1. Len(q) \in Nat /\ DOMAIN q = 1..Len(q)  BY LenProperties
<1>2. /\ Append(q, x) \in Seq(S) /\ Len(Append(q, x)) = Len(q) + 1
      /\ \A i \in 1 .. Len(q) : Append(q, x)[i] = q[i]
      /\ Append(q, x)[Len(q) + 1] = x
  BY AppendProperties
<1>3. DOMAIN Append(q, x) = 1 .. Len(q) + 1  BY <1>2, LenProperties
<1>. QED  BY <1>1, <1>2, <1>3

\* What every step has to show of the record.
LEMMA StepFacts ==
  ASSUME TypeOK, output' = output, plugged' \in BOOLEAN, screen' \in BOOLEAN,
         power' \in {"on", "falling", "off"},
         queue' \in Seq(Events), lost' \in SUBSET Here, used' \in Nat,
         NEW d, Becomes(d), Whole(d),
         Ordered(d.file), d.sts.display <=> screen', screen' => d.ivi.layers = d.file.ids
  PROVE  /\ TypeOK' /\ Whole(Display)' /\ Layered(Display, screen)'
         /\ ivi' = d.ivi /\ path' = d.path /\ told' = d.told /\ sts' = d.sts /\ file' = d.file
<1>1. d \in Displays  BY DEF Whole, Base
<1>2. (Display \in Displays)' /\ Whole(Display)'  BY <1>1, BecomesFacts DEF TypeOK
<1>3. ivi' = d.ivi /\ path' = d.path /\ told' = d.told /\ sts' = d.sts /\ file' = d.file
  BY DEF Becomes
<1>4. OutputOK'  BY DEF TypeOK, OutputOK
<1>5. QueueOK'  BY UnchangedNames DEF QueueOK
<1>6. TypeOK'  BY <1>2, <1>4, <1>5 DEF TypeOK
<1>7. Layered(Display, screen)'
  <2>1. Display.file' = d.file /\ Display.sts' = d.sts /\ Display.ivi' = d.ivi
    BY <1>3 DEF Display
  <2>. QED  BY <2>1 DEF Layered, Ordered
<1>. QED  BY <1>2, <1>3, <1>6, <1>7

LEMMA CallFacts ==
  ASSUME used \in Nat, Calls(1)
  PROVE  used' \in Nat
BY DEF Calls

\* A step that brings and takes no event, and changes none of the surfaces there are.
LEMMA QuietStep ==
  ASSUME Inv, NEW d, Becomes(d), Whole(d), Layered(d, screen), Screened(d), d.told = told,
         \A n \in Names : There(d.ivi, n) <=> There(ivi, n),
         output' = output, plugged' = plugged, screen' = screen, queue' = queue, lost' = lost,
         used' \in Nat, power' \in {"on", "falling", "off"}, Asleep'
  PROVE  Inv'
<1>1. TypeOK /\ OutputOK /\ queue \in Seq(Events) /\ lost \in SUBSET Here
  BY DEF Inv, TypeOK, QueueOK
<1>2. plugged' \in BOOLEAN /\ screen' \in BOOLEAN  BY <1>1 DEF OutputOK
<1>3. Ordered(d.file) /\ (d.sts.display <=> screen') /\ (screen' => d.ivi.layers = d.file.ids)
  BY DEF Layered
<1>4. /\ TypeOK' /\ Whole(Display)' /\ Layered(Display, screen)'
      /\ ivi' = d.ivi /\ path' = d.path /\ told' = d.told
  BY <1>1, <1>2, <1>3, StepFacts
<1>5. /\ Here' = Here /\ \A a \in Here : Surf(a) \in Names
  BY <1>1, UnchangedNames, NameFacts
<1>6. Announced'
  <2>1. \A a \in Here : Offered(d.ivi, a) <=> Offered(ivi, a)  BY <1>5 DEF Offered
  <2>. QED  BY <1>4, <1>5, <2>1 DEF Inv, Announced, Surf, GetSurfaceIdFromVideoPath, Offered, There
<1>7. Connected'
  <2>1. Screened(Display)'  BY <1>4 DEF Screened, Display
  <2>. QED  BY <2>1 DEF Inv, Connected
<1>. QED  BY <1>4, <1>6, <1>7 DEF Inv

\* A request of the clients.
LEMMA RequestStep ==
  ASSUME Inv, NEW d, Handler(d), Whole(d), Layered(d, screen), d.told = told,
         \A n \in Names : There(d.ivi, n) <=> There(ivi, n), Screened(d)
  PROVE  Inv'
<1>1. /\ power' = "on" /\ Calls(1) /\ Becomes(d)
      /\ output' = output /\ plugged' = plugged /\ screen' = screen
      /\ queue' = queue /\ lost' = lost
  BY DEF Handler
<1>2. used \in Nat  BY DEF Inv, TypeOK, QueueOK
<1>3. used' \in Nat  BY <1>1, <1>2, CallFacts
<1>4. Asleep'  BY <1>1 DEF Asleep
<1>. QED  BY <1>1, <1>3, <1>4, QuietStep

\* The same, of a handler that leaves all else alone.
LEMMA HandlerStep ==
  ASSUME Inv, NEW d, Handler(d), Whole(d), SameRest(Display, d),
         Screened(d)
  PROVE  Inv'
<1>1. Layered(d, screen)  BY DEF Inv, Layered, SameRest
<1>2. d.told = told /\ \A n \in Names : There(d.ivi, n) <=> There(ivi, n)
  BY DEF SameRest, Display
<1>. QED  BY <1>1, <1>2, RequestStep

-----------------------------------------------------------------------------
(* The requests of the clients                                             *)

LEMMA Choices ==
  ASSUME Inv, NEW d, d = Display
  PROVE  /\ OutputOK /\ Whole(d) /\ Layered(d, screen) /\ Screened(d)
         /\ d.path = path /\ d.setting = setting /\ d.file = file /\ d.told = told
         /\ d.ivi = ivi /\ d.sts = sts /\ d.ctl = ctl
<1>1. OutputOK /\ Whole(d) /\ Layered(d, screen) /\ Screened(d)  BY DEF Inv, TypeOK, Connected
<1>. QED  BY <1>1 DEF Display

LEMMA FrontCurrent ==
  ASSUME Inv, NEW a \in Here \cup {""}, VpathFrontCurrent(a)
  PROVE  Inv'
<1>1. PICK d : d = Display  OBVIOUS
<1>2. OutputOK /\ Whole(d) /\ d.path = path  BY <1>1, Choices
<1>3. output = "front" /\ a # d.path  BY <1>2 DEF VpathFrontCurrent
<1>4. PICK e : e = DefaultWide(DefaultOpacity(DefaultVisibility(DefaultOutput(
                     DefaultClipping(SetFrontPath(d, a))))))
  OBVIOUS
<1>5. Handler(e)  BY <1>1, <1>4 DEF VpathFrontCurrent
<1>6. Whole(e) /\ SameRest(d, e)  BY <1>2, <1>3, <1>4, FrontCurrentStep
<1>7. Screened(e)  BY <1>3 DEF Screened
<1>. QED  BY <1>1, <1>5, <1>6, <1>7, HandlerStep

LEMMA RearCurrent ==
  ASSUME Inv, NEW a \in Here \cup {""}, VpathRearCurrent(a)
  PROVE  Inv'
<1>1. PICK d : d = Display  OBVIOUS
<1>2. OutputOK /\ Whole(d) /\ d.path = path  BY <1>1, Choices
<1>3. output = "rear" /\ a # d.path /\ screen  BY <1>2 DEF VpathRearCurrent
<1>4. PICK e : e = DefaultWide(DefaultOpacity(DefaultVisibility(DefaultOutput(SetRearPath(d, a)))))
  OBVIOUS
<1>5. Handler(e)  BY <1>1, <1>4 DEF VpathRearCurrent
<1>6. Whole(e) /\ SameRest(d, e)  BY <1>2, <1>3, <1>4, RearCurrentStep
<1>7. Screened(e)  BY <1>3 DEF Screened
<1>. QED  BY <1>1, <1>5, <1>6, <1>7, HandlerStep

LEMMA IClusterCurrent ==
  ASSUME Inv, NEW a \in Here \cup {""}, VpathIClusterCurrent(a)
  PROVE  Inv'
<1>1. PICK d : d = Display  OBVIOUS
<1>2. OutputOK /\ Whole(d) /\ d.path = path  BY <1>1, Choices
<1>3. output = "ic" /\ a # d.path /\ screen  BY <1>2 DEF VpathIClusterCurrent
<1>4. PICK e : e = DefaultOpacity(DefaultVisibility(DefaultOutput(DefaultClipping(
                     SetIClusterPath(d, a)))))
  OBVIOUS
<1>5. Handler(e)  BY <1>1, <1>4 DEF VpathIClusterCurrent
<1>8. plugged  BY <1>3 DEF Inv, Connected
<1>6. Whole(e) /\ SameRest(d, e)  BY <1>2, <1>3, <1>4, <1>8, IClusterCurrentStep
<1>7. Screened(e)  BY <1>3 DEF Screened
<1>. QED  BY <1>1, <1>5, <1>6, <1>7, HandlerStep

LEMMA CameraCurrent ==
  ASSUME Inv, NEW a \in Here \cup {""}, VpathCameraCurrent(a)
  PROVE  Inv'
<1>1. PICK d : d = Display  OBVIOUS
<1>2. OutputOK /\ Whole(d) /\ d.path = path  BY <1>1, Choices
<1>3. output = "camera" /\ a # d.path  BY <1>2 DEF VpathCameraCurrent
<1>4. PICK e : e = IF SetCameraPath(d, a).ok
                   THEN UpdateVpathOutput(SetCameraPath(d, a),
                                          GetDestRectangleCommon(SetCameraPath(d, a), "CAMERA"))
                   ELSE SetCameraPath(d, a)
  OBVIOUS
<1>5. Handler(e)  BY <1>1, <1>4 DEF VpathCameraCurrent
<1>6. Whole(e) /\ SameRest(d, e)  BY <1>2, <1>3, <1>4, CameraCurrentStep
<1>7. Screened(e)  BY <1>3 DEF Screened
<1>. QED  BY <1>1, <1>5, <1>6, <1>7, HandlerStep

LEMMA OutputRequest ==
  ASSUME Inv, NEW r \in Rectangle, Output(r), output \in {"rear", "ic"} => screen
  PROVE  Inv'
<1>1. PICK d : d = Display  OBVIOUS
<1>2. OutputOK /\ Whole(d) /\ d.path = path  BY <1>1, Choices
<1>3. d.path \in Here \cup {""}  BY <1>2, FieldsOfDisplay DEF Whole, Base
<1>4. d.path \in Here  BY <1>2, <1>3 DEF Output
<1>5. PICK e : e = IF SetDestRectangleCommon(d, d.path, r).ok
                   THEN UpdateVpathOutput(SetDestRectangleCommon(d, d.path, r), r)
                   ELSE [SetDestRectangleCommon(d, d.path, r) EXCEPT !.behind = @ \cup {"out"}]
  OBVIOUS
<1>6. Handler(e)  BY <1>1, <1>2, <1>5 DEF Output
<1>7. Whole(e) /\ SameRest(d, e)  BY <1>2, <1>4, <1>5, OutputHandlerStep
<1>8. Screened(e)  BY DEF Screened
<1>. QED  BY <1>1, <1>6, <1>7, <1>8, HandlerStep

LEMMA CameraOutputRequest ==
  ASSUME Inv, NEW r \in Rectangle, VpathCameraOutput(r)
  PROVE  Inv'
<1>1. PICK d : d = Display  OBVIOUS
<1>2. OutputOK /\ Whole(d) /\ d.setting = setting  BY <1>1, Choices
<1>3. output = "camera"  BY DEF VpathCameraOutput
<1>4. PICK first \in BOOLEAN : first <=> GetVideoWideMode(setting, Id("CAMERA")) = "normal"
  OBVIOUS
<1>5. PICK p : p = IF first THEN SetCameraWideMode(d, "invalid") ELSE d  OBVIOUS
<1>6. PICK s : s = SetCameraDestRectangle(p, r)  OBVIOUS
<1>7. PICK e : e = IF s.ok THEN UpdateVpathOutput(s, r)
                   ELSE IF first THEN SetCameraWideMode(s, "normal") ELSE s
  OBVIOUS
<1>8. Handler(e)
  <2>1. p = IF GetVideoWideMode(setting, Id("CAMERA")) = "normal"
            THEN SetCameraWideMode(Display, "invalid") ELSE Display
    BY <1>1, <1>4, <1>5
  <2>2. e = IF s.ok THEN UpdateVpathOutput(s, r)
            ELSE IF GetVideoWideMode(setting, Id("CAMERA")) = "normal"
                 THEN SetCameraWideMode(s, "normal") ELSE s
    BY <1>4, <1>7
  <2>. QED  BY <2>1, <2>2, <1>6 DEF VpathCameraOutput
<1>9. Whole(e) /\ SameRest(d, e)  BY <1>2, <1>3, <1>5, <1>6, <1>7, CameraOutputStep
<1>10. Screened(e)  BY <1>3 DEF Screened
<1>. QED  BY <1>1, <1>8, <1>9, <1>10, HandlerStep

LEMMA CameraInput ==
  ASSUME Inv, NEW r \in Rectangle, NEW captured \in BOOLEAN, SetCameraInputSize(r, captured)
  PROVE  Inv'
<1>1. PICK d : d = Display  OBVIOUS
<1>2. OutputOK /\ Whole(d) /\ d.setting = setting  BY <1>1, Choices
<1>3. output = "camera" /\ ValidClipping(d.setting, Id("CAMERA"), r)
  BY <1>2 DEF SetCameraInputSize
<1>4. PICK s : s = SetCameraForceInputSize([d EXCEPT !.behind = @ \cup {"rect", "place", "out"}], r)
  OBVIOUS
<1>5. PICK e : e = IF captured THEN SetCameraForceSourceRectangle(s, r) ELSE s  OBVIOUS
<1>6. Handler(e)  BY <1>1, <1>4, <1>5 DEF SetCameraInputSize
<1>7. /\ Whole(s) /\ SameRest(d, s) /\ {"rect", "place", "out"} \subseteq s.behind
      /\ \A a \in Here : Orig(s.setting, a) = Orig(d.setting, a)
  BY <1>2, <1>3, <1>4, CameraSizeStep
<1>8. "CAMERA" \in Here  BY <1>2, <1>3, OwnFacts
<1>9. ValidClipping(s.setting, Id("CAMERA"), r)
  <2>1. PICK c : c = "CAMERA"  OBVIOUS
  <2>2. Orig(s.setting, c) = Orig(d.setting, c)  BY <1>7, <1>8, <2>1
  <2>3. ValidClipping(s.setting, Id(c), r) <=> ValidClipping(d.setting, Id(c), r)
    BY <2>2, ValidClippingFacts
  <2>. QED  BY <1>3, <2>1, <2>3
<1>10. Whole(e) /\ SameRest(d, e)
  <2>1. CASE captured
    <3>1. e = SetCameraForceSourceRectangle(s, r)  BY <1>5, <2>1
    <3>2. Whole(e) /\ SameRest(s, e)  BY <1>2, <1>3, <1>7, <1>9, <3>1, CameraSourceStep
    <3>. QED  BY <1>7, <3>2, RestFacts
  <2>2. CASE ~captured
    BY <1>5, <1>7, <2>2
  <2>. QED  BY <2>1, <2>2
<1>11. Screened(e)  BY <1>3 DEF Screened
<1>. QED  BY <1>1, <1>6, <1>10, <1>11, HandlerStep

\* The front's clipping is published when it was set, the cluster's in any case.
LEMMA ClippingRequest ==
  ASSUME Inv, NEW on \in BOOLEAN, NEW r \in Rectangle,
         VpathFrontClipping(on, r) \/ VpathIClusterClipping(on, r)
  PROVE  Inv'
<1>1. PICK d : d = Display  OBVIOUS
<1>2. OutputOK /\ Whole(d) /\ d.path = path /\ d.setting = setting /\ Screened(d)  BY <1>1, Choices
<1>3. d.path \in Here \cup {""}  BY <1>2, FieldsOfDisplay DEF Whole, Base
<1>4. path # "" /\ (on => ValidClipping(d.setting, Id(d.path), r)) /\ output \in {"front", "ic"}
  BY <1>2 DEF VpathFrontClipping, VpathIClusterClipping
<1>5. d.path \in Here  BY <1>2, <1>3, <1>4
<1>6. PICK s : s = SetSourceRectangleCommon(d, d.path, on, r)  OBVIOUS
<1>7. PICK always \in BOOLEAN : always <=> VpathIClusterClipping(on, r)  OBVIOUS
<1>8. PICK e : e = IF s.ok \/ always THEN UpdateVpathClipping(s)
                   ELSE [s EXCEPT !.behind = @ \cup {"clip"}]
  OBVIOUS
<1>9. Handler(e)
  <2>1. CASE VpathIClusterClipping(on, r)
    <3>1. e = UpdateVpathClipping(s)  BY <1>7, <1>8, <2>1
    <3>. QED  BY <1>1, <1>2, <1>6, <2>1, <3>1 DEF VpathIClusterClipping
  <2>2. CASE ~VpathIClusterClipping(on, r)
    <3>1. e = IF s.ok THEN UpdateVpathClipping(s) ELSE [s EXCEPT !.behind = @ \cup {"clip"}]
      BY <1>7, <1>8, <2>2
    <3>2. VpathFrontClipping(on, r)  BY <2>2
    <3>. QED  BY <1>1, <1>2, <1>6, <3>1, <3>2 DEF VpathFrontClipping
  <2>. QED  BY <2>1, <2>2
<1>10. output # "camera"  BY <1>4
<1>11. Whole(e) /\ SameRest(d, e)
  BY <1>2, <1>4, <1>5, <1>6, <1>8, <1>10, ClippingHandlerStep
<1>12. Screened(e)  BY <1>2, <1>4 DEF Screened
<1>. QED  BY <1>1, <1>9, <1>11, <1>12, HandlerStep

LEMMA VisibleRequest ==
  ASSUME Inv, NEW b \in BOOLEAN, Visible(b), output # "camera"
  PROVE  Inv'
<1>1. PICK d : d = Display  OBVIOUS
<1>2. OutputOK /\ Whole(d) /\ d.path = path /\ Screened(d)  BY <1>1, Choices
<1>. DEFINE asked == [d EXCEPT !.ctl.visible = b]
            s == SetVisibility(asked, b)
            e == IF d.path = "" THEN asked
                 ELSE [s EXCEPT !.sts.visible = b, !.behind = @ \ {"visible"}]
<1>3. Handler(e)  BY <1>1, <1>2 DEF Visible
<1>4. Whole(e) /\ SameRest(d, e) /\ (d.path = "" => e.path = "")
  BY <1>2, VisibleHandlerStep
<1>. HIDE DEF e
<1>5. Screened(e)  BY <1>2, <1>4 DEF Screened
<1>. QED  BY <1>1, <1>3, <1>4, <1>5, HandlerStep

LEMMA OpacityRequest ==
  ASSUME Inv, NEW b \in BOOLEAN, NEW always \in BOOLEAN, Opacity(b, always), output # "camera"
  PROVE  Inv'
<1>1. PICK d : d = Display  OBVIOUS
<1>2. OutputOK /\ Whole(d) /\ d.path = path /\ Screened(d)  BY <1>1, Choices
<1>. DEFINE asked == [d EXCEPT !.ctl.opaque = b]
            s == SetOpacity(asked, b)
            e == IF d.path = "" THEN asked
                 ELSE IF s.ok \/ always
                 THEN [s EXCEPT !.sts.opaque = b, !.behind = @ \ {"opacity"}]
                 ELSE [s EXCEPT !.behind = @ \cup {"opacity"}]
<1>3. Handler(e)  BY <1>1, <1>2 DEF Opacity
<1>4. Whole(e) /\ SameRest(d, e) /\ (d.path = "" => e.path = "")
  BY <1>2, OpacityHandlerStep
<1>. HIDE DEF e
<1>5. Screened(e)  BY <1>2, <1>4 DEF Screened
<1>. QED  BY <1>1, <1>3, <1>4, <1>5, HandlerStep

LEMMA WideRequest ==
  ASSUME Inv, NEW w \in WideModes \ {"invalid"}, Wide(w), output # "camera"
  PROVE  Inv'
<1>1. PICK d : d = Display  OBVIOUS
<1>2. OutputOK /\ Whole(d) /\ d.path = path /\ Screened(d)  BY <1>1, Choices
<1>3. PICK asked : asked = [d EXCEPT !.ctl.wide = w]  OBVIOUS
<1>4. PICK e : e = IF d.path = "" THEN asked
                   ELSE [SetWideModeCommon(asked, d.path, w) EXCEPT !.sts.wide = w]
  OBVIOUS
<1>5. Handler(e)  BY <1>1, <1>2, <1>3, <1>4 DEF Wide
<1>6. Whole(e) /\ SameRest(d, e) /\ (d.path = "" => e.path = "")
  BY <1>2, <1>3, <1>4, WideHandlerStep
<1>7. Screened(e)  BY <1>2, <1>6 DEF Screened
<1>. QED  BY <1>1, <1>5, <1>6, <1>7, HandlerStep

LEMMA MuteRequest ==
  ASSUME Inv, NEW b \in BOOLEAN, Mute(b), HasWide, output = "rear" => screen
  PROVE  Inv'
<1>1. PICK d : d = Display  OBVIOUS
<1>2. OutputOK /\ Whole(d) /\ d.path = path  BY <1>1, Choices
<1>3. PICK s : s = SetBlinderEnable(d, GetBlinderID("mute"), b)  OBVIOUS
<1>4. PICK e : e = [s EXCEPT !.ctl.mute = b, !.sts.mute = b,
                             !.behind = IF b /\ d.path = "" THEN @ \cup {"muted"} ELSE @ \ {"muted"}]
  OBVIOUS
<1>5. Handler(e)  BY <1>1, <1>2, <1>3, <1>4 DEF Mute
<1>6. Whole(e) /\ SameRest(d, e)  BY <1>2, <1>3, <1>4, MuteHandlerStep
<1>7. Screened(e)  BY DEF Screened, HasWide
<1>. QED  BY <1>1, <1>5, <1>6, <1>7, HandlerStep

LEMMA LayerRequest ==
  ASSUME Inv, NEW layer \in DOMAIN Order, NEW new \in NewOrders, IviLayerOrder(layer, new)
  PROVE  Inv'
<1>1. PICK d : d = Display  OBVIOUS
<1>2. OutputOK /\ Whole(d) /\ d.told = told /\ d.ivi = ivi /\ Layered(d, screen) /\ Screened(d)
  BY <1>1, Choices
<1>3. screen \in BOOLEAN /\ new \in Int
  BY <1>2, LayoutAssumption DEF OutputOK, LayoutAssumption
<1>4. PICK e : e = SetIviLayerOrder(d, layer, new)  OBVIOUS
<1>5. Handler(e)  BY <1>1, <1>4 DEF IviLayerOrder
<1>6. /\ Whole(e) /\ Layered(e, screen)
      /\ e.told = d.told /\ e.path = d.path
      /\ \A n \in Names : There(e.ivi, n) <=> There(d.ivi, n)
  BY <1>2, <1>3, <1>4, LayerOrderStep
<1>7. Screened(e)  BY <1>2, <1>6 DEF Screened
<1>. QED  BY <1>2, <1>5, <1>6, <1>7, RequestStep

-----------------------------------------------------------------------------
(* The compositor's events, as they are handled                            *)

LEMMA EventTypes ==
  ASSUME NEW e \in Events
  PROVE  /\ e.kind \in {"created", "deleted", "configured", "output"}
         /\ e.kind \in {"created", "deleted"} => \E a \in Here : e.name = Surf(a)
         /\ e.kind = "configured" => \/ e.size \in Sizes /\ \E a \in Here : e.name = Surf(a)
                                     \/ e.size \in Rectangle /\ e.name \in Own
<1>1. ASSUME NEW n \in Paths  PROVE \E a \in Here : n = Surf(a)
  BY DEF Paths, Surf
<1>. QED  BY <1>1 DEF Events

LEMMA AboutFacts ==
  ASSUME NEW e
  PROVE  About(<<e>>) = {GetVideoPathFromSurfaceName(e.name)}
BY DEF About

\* One event less: each path told was announced, or its event is still on its way.
LEMMA EventStep ==
  ASSUME Inv, power = "on", queue # <<>>, NEW d, Becomes(d), Whole(d),
         output' = output, plugged' = plugged, power' = power, used' = used, queue' = Tail(queue),
         lost' \in SUBSET Here, screen' \in BOOLEAN, screen => screen', screen' => plugged,
         Ordered(d.file), d.sts.display <=> screen', screen' => d.ivi.layers = d.file.ids,
         d.path = path, \A n \in Names : There(d.ivi, n) <=> There(ivi, n),
         \A a \in Here \ lost' :
           \/ d.told[a] <=> Offered(d.ivi, a)
           \/ /\ a \notin lost
              /\ d.told[a] = told[a]
              /\ ~(Head(queue).kind \in {"created", "deleted"} /\ Head(queue).name = Surf(a))
  PROVE  Inv'
<1>1. TypeOK /\ OutputOK /\ queue \in Seq(Events) /\ used \in Nat /\ plugged \in BOOLEAN
  BY DEF Inv, TypeOK, QueueOK, OutputOK
<1>2. /\ Tail(queue) \in Seq(Events) /\ Head(queue) = queue[1]
      /\ \A i \in DOMAIN queue : i = 1 \/ \E j \in DOMAIN Tail(queue) : Tail(queue)[j] = queue[i]
      /\ \A j \in DOMAIN Tail(queue) : \E i \in DOMAIN queue : queue[i] = Tail(queue)[j]
  BY <1>1, TailFacts
<1>3. /\ TypeOK' /\ Whole(Display)' /\ Layered(Display, screen)'
      /\ ivi' = d.ivi /\ path' = d.path /\ told' = d.told
  BY <1>1, <1>2, StepFacts
<1>4. /\ Here' = Here /\ \A a \in Here : Surf(a) \in Names
  BY <1>1, UnchangedNames, NameFacts
<1>5. ASSUME NEW a \in Here \ lost'
      PROVE  \/ \E j \in DOMAIN Tail(queue) : /\ Tail(queue)[j].kind \in {"created", "deleted"}
                                              /\ Tail(queue)[j].name = Surf(a)
             \/ d.told[a] <=> Offered(d.ivi, a)
  <2>1. Offered(d.ivi, a) <=> Offered(ivi, a)  BY <1>4 DEF Offered
  <2>2. CASE d.told[a] <=> Offered(d.ivi, a)
    BY <2>2
  <2>3. CASE ~(d.told[a] <=> Offered(d.ivi, a))
    <3>1. /\ a \notin lost /\ d.told[a] = told[a]
          /\ ~(queue[1].kind \in {"created", "deleted"} /\ queue[1].name = Surf(a))
      BY <1>2, <2>3
    <3>2. ~(told[a] <=> Offered(ivi, a))  BY <2>1, <2>3, <3>1
    <3>3. PICK i \in DOMAIN queue : queue[i].kind \in {"created", "deleted"} /\ queue[i].name = Surf(a)
      BY <3>1, <3>2 DEF Inv, Announced
    <3>4. i # 1  BY <3>1, <3>3
    <3>5. PICK j \in DOMAIN Tail(queue) : Tail(queue)[j] = queue[i]  BY <1>2, <3>4
    <3>. QED  BY <3>3, <3>5
  <2>. QED  BY <2>2, <2>3
<1>6. Announced'
  BY <1>3, <1>4, <1>5 DEF Announced, Surf, GetSurfaceIdFromVideoPath, Offered, There
<1>7. Connected'
  <2>1. Screened(Display)'  BY <1>3 DEF Inv, Connected, Screened, Display
  <2>2. \A j \in DOMAIN queue' : queue'[j].kind = "output" => plugged'
    BY <1>2 DEF Inv, Connected
  <2>. QED  BY <2>1, <2>2 DEF Connected
<1>8. Asleep'  BY DEF Asleep
<1>. QED  BY <1>3, <1>6, <1>7, <1>8 DEF Inv

\* The same, when the screen is not laid out by it.
LEMMA SurfaceEventStep ==
  ASSUME Inv, power = "on", queue # <<>>, NEW d, Becomes(d), Whole(d), Layered(d, screen),
         output' = output, plugged' = plugged, power' = power, used' = used, queue' = Tail(queue),
         screen' = screen, lost' \in SUBSET Here,
         d.path = path, \A n \in Names : There(d.ivi, n) <=> There(ivi, n),
         \A a \in Here \ lost' :
           \/ d.told[a] <=> Offered(d.ivi, a)
           \/ /\ a \notin lost
              /\ d.told[a] = told[a]
              /\ ~(Head(queue).kind \in {"created", "deleted"} /\ Head(queue).name = Surf(a))
  PROVE  Inv'
<1>1. screen \in BOOLEAN  BY DEF Inv, TypeOK, OutputOK
<1>2. screen' \in BOOLEAN /\ (screen => screen')  BY <1>1
<1>3. screen' => plugged  BY DEF Inv, Connected
<1>4. Ordered(d.file) /\ (d.sts.display <=> screen') /\ (screen' => d.ivi.layers = d.file.ids)
  BY DEF Layered
<1>. QED  BY <1>2, <1>3, <1>4, EventStep

LEMMA SurfaceEvent ==
  ASSUME Inv, HandleSurfaceEvent
  PROVE  Inv'
<1>1. PICK d : d = Display  OBVIOUS
<1>2. PICK e : e = Head(queue)  OBVIOUS
<1>3. /\ power = "on" /\ queue # <<>> /\ e.kind # "output" /\ queue' = Tail(queue)
      /\ lost' = lost \ IF e.kind = "configured" THEN {} ELSE About(<<e>>)
      /\ output' = output /\ plugged' = plugged /\ screen' = screen /\ power' = power /\ used' = used
  BY <1>2 DEF HandleSurfaceEvent
<1>4. /\ e.kind = "created"    => Becomes(AddSurfaceToLayer(d, e.name))
      /\ e.kind = "deleted"    => Becomes(DeleteSurfaceToLayer(d, e.name))
      /\ e.kind = "configured" => Becomes(ConfigureSurface(d, e.name, e.size))
  BY <1>1, <1>2 DEF HandleSurfaceEvent
<1>5. OutputOK /\ Whole(d) /\ Layered(d, screen) /\ d.path = path /\ d.told = told /\ d.ivi = ivi
  BY <1>1, Choices
<1>6. queue \in Seq(Events) /\ lost \in SUBSET Here  BY DEF Inv, TypeOK, QueueOK
<1>7. e \in Events  BY <1>2, <1>3, <1>6, TailFacts
<1>8. lost' \in SUBSET Here  BY <1>3, <1>6
<1>9. e.kind \in {"created", "deleted", "configured"}  BY <1>3, <1>7, EventTypes
<1>10. CASE e.kind = "created"
  <2>1. PICK a \in Here : e.name = Surf(a)  BY <1>7, <1>10, EventTypes
  <2>2. PICK f : f = AddSurfacesToLayer(d, {Surf(a)})  OBVIOUS
  <2>3. Becomes(f)  BY <1>4, <1>10, <2>1, <2>2 DEF AddSurfaceToLayer
  <2>4. /\ Whole(f)
        /\ f.path = d.path /\ f.file = d.file /\ f.sts = d.sts /\ f.ivi.layers = d.ivi.layers
        /\ \A n \in Names : There(f.ivi, n) <=> There(d.ivi, n)
        /\ \A b \in Here : f.told[b] <=> IF Surf(b) \in {Surf(a)} THEN Offered(f.ivi, b) ELSE d.told[b]
    BY <1>5, <2>2, AddHandlerStep
  <2>5. Layered(f, screen)  BY <1>5, <2>4 DEF Layered
  <2>6. lost' = lost \ {a}
    <3>1. GetVideoPathFromSurfaceName(e.name) = a  BY <1>5, <2>1, NameFacts
    <3>2. About(<<e>>) = {a}  BY <3>1, AboutFacts
    <3>. QED  BY <1>3, <1>10, <3>2
  <2>10. told \in [Here -> BOOLEAN] /\ f.told \in [Here -> BOOLEAN]
    BY <1>5, <2>4, FieldsOfDisplay DEF Whole, Base
  <2>7. ASSUME NEW b \in Here \ lost'
        PROVE  \/ f.told[b] <=> Offered(f.ivi, b)
               \/ /\ b \notin lost
                  /\ f.told[b] = told[b]
                  /\ ~(Head(queue).kind \in {"created", "deleted"} /\ Head(queue).name = Surf(b))
    <3>1. CASE b = a  BY <2>4, <3>1
    <3>2. CASE b # a
      <4>1. Surf(b) # Surf(a)  BY <1>5, <3>2, NameFacts
      <4>2. b \notin lost /\ Head(queue).name # Surf(b)  BY <1>2, <2>1, <2>6, <3>2, <4>1
      <4>3. f.told[b] <=> told[b]  BY <1>5, <2>4, <4>1
      <4>. QED  BY <2>10, <4>2, <4>3
    <3>. QED  BY <3>1, <3>2
  <2>8. \A n \in Names : There(f.ivi, n) <=> There(ivi, n)  BY <1>5, <2>4
  <2>9. f.path = path  BY <1>5, <2>4
  <2>. QED  BY <1>3, <1>8, <2>3, <2>4, <2>5, <2>7, <2>8, <2>9, SurfaceEventStep
<1>11. CASE e.kind = "deleted"
  <2>1. PICK a \in Here : e.name = Surf(a)  BY <1>7, <1>11, EventTypes
  <2>2. PICK f : f = DeleteSurfaceToLayer(d, Surf(a))  OBVIOUS
  <2>3. Becomes(f)  BY <1>4, <1>11, <2>1, <2>2
  <2>4. /\ Whole(f) /\ f.path = d.path /\ f.file = d.file /\ f.sts = d.sts /\ f.ivi = d.ivi
        /\ f.told[a] <=> Offered(d.ivi, a)
        /\ \A b \in Here : b # a => f.told[b] = d.told[b]
    BY <1>5, <2>2, DeleteHandlerStep
  <2>5. Layered(f, screen)  BY <1>5, <2>4 DEF Layered
  <2>6. lost' = lost \ {a}
    <3>1. GetVideoPathFromSurfaceName(e.name) = a  BY <1>5, <2>1, NameFacts
    <3>2. About(<<e>>) = {a}  BY <3>1, AboutFacts
    <3>. QED  BY <1>3, <1>11, <3>2
  <2>7. ASSUME NEW b \in Here \ lost'
        PROVE  \/ f.told[b] <=> Offered(f.ivi, b)
               \/ /\ b \notin lost
                  /\ f.told[b] = told[b]
                  /\ ~(Head(queue).kind \in {"created", "deleted"} /\ Head(queue).name = Surf(b))
    <3>1. CASE b = a  BY <2>4, <3>1
    <3>2. CASE b # a
      <4>1. Surf(b) # Surf(a)  BY <1>5, <3>2, NameFacts
      <4>2. b \notin lost /\ Head(queue).name # Surf(b)  BY <1>2, <2>1, <2>6, <3>2, <4>1
      <4>3. f.told[b] = told[b]  BY <1>5, <2>4, <3>2
      <4>. QED  BY <4>2, <4>3
    <3>. QED  BY <3>1, <3>2
  <2>8. \A n \in Names : There(f.ivi, n) <=> There(ivi, n)  BY <1>5, <2>4
  <2>9. f.path = path  BY <1>5, <2>4
  <2>. QED  BY <1>3, <1>8, <2>3, <2>4, <2>5, <2>7, <2>8, <2>9, SurfaceEventStep
<1>12. CASE e.kind = "configured"
  <2>1. PICK f : f = ConfigureSurface(d, e.name, e.size)  OBVIOUS
  <2>2. Becomes(f)  BY <1>4, <1>12, <2>1
  <2>3. Whole(f) /\ SameRest(d, f) /\ f.path = d.path
    <3>1. CASE ~HasArea(e.size)
      <4>1. f = d  BY <2>1, <3>1 DEF ConfigureSurface
      <4>. QED  BY <1>5, <4>1, RestFacts
    <3>2. CASE HasArea(e.size) /\ e.name \in Own /\ e.size \in Rectangle
      <4>1. f = ConfigureBlinder(d, e.name, e.size)
        BY <1>5, <2>1, <3>2, NameFacts DEF ConfigureSurface
      <4>. QED  BY <1>5, <3>2, <4>1, BlinderHandlerStep
    <3>3. CASE HasArea(e.size) /\ e.size \in Sizes /\ \E a \in Here : e.name = Surf(a)
      <4>1. PICK a \in Here : e.name = Surf(a)  BY <3>3
      <4>2. ~IsBlinder(e.name) /\ GetVideoPathFromSurfaceName(e.name) = a
        BY <1>5, <4>1, NameFacts
      <4>3. f = ConfigureVideo(d, a, e.size)  BY <2>1, <3>3, <4>2 DEF ConfigureSurface
      <4>. QED  BY <1>5, <3>3, <4>3, VideoHandlerStep
    <3>4. \/ e.size \in Sizes /\ \E a \in Here : e.name = Surf(a)
          \/ e.size \in Rectangle /\ e.name \in Own
      BY <1>7, <1>12, EventTypes
    <3>. QED  BY <3>1, <3>2, <3>3, <3>4
  <2>4. Layered(f, screen)  BY <1>5, <2>3 DEF Layered, SameRest
  <2>5. lost' = lost  BY <1>3, <1>12
  <2>6. /\ f.told = told
        /\ \A n \in Names : There(f.ivi, n) <=> There(ivi, n)
    BY <1>5, <2>3 DEF SameRest
  <2>7. \A b \in Here \ lost' :
          \/ f.told[b] <=> Offered(f.ivi, b)
          \/ /\ b \notin lost
             /\ f.told[b] = told[b]
             /\ ~(Head(queue).kind \in {"created", "deleted"} /\ Head(queue).name = Surf(b))
    BY <1>2, <1>12, <2>5, <2>6
  <2>8. f.path = path  BY <1>5, <2>3
  <2>. QED  BY <1>3, <1>8, <2>2, <2>3, <2>4, <2>6, <2>7, <2>8, SurfaceEventStep
<1>. QED  BY <1>9, <1>10, <1>11, <1>12

LEMMA OutputEvent ==
  ASSUME Inv, NotifyOutputAdded
  PROVE  Inv'
<1>1. PICK d : d = Display  OBVIOUS
<1>2. PICK s : s = SetLayoutScreen(d)  OBVIOUS
<1>3. PICK ns : ns = Ivi!GetSurfaceIds(s.ivi)  OBVIOUS
<1>4. PICK e : e = AddSurfacesToLayer(s, ns)  OBVIOUS
<1>5. /\ power = "on" /\ queue # <<>> /\ Head(queue).kind = "output" /\ queue' = Tail(queue)
      /\ screen' = TRUE /\ output' = output /\ plugged' = plugged /\ power' = power /\ lost' = lost
      /\ used' = used
  BY DEF NotifyOutputAdded
<1>6. Becomes(e)  BY <1>1, <1>2, <1>3, <1>4 DEF NotifyOutputAdded
<1>7. OutputOK /\ Whole(d) /\ Layered(d, screen) /\ d.path = path /\ d.told = told /\ d.ivi = ivi
  BY <1>1, Choices
<1>8. queue \in Seq(Events) /\ lost \in SUBSET Here  BY DEF Inv, TypeOK, QueueOK
<1>9. plugged
  <2>1. Head(queue) = queue[1] /\ 1 \in DOMAIN queue
    BY <1>5, <1>8, EmptySeq, LenProperties
  <2>. QED  BY <1>5, <2>1 DEF Inv, Connected
<1>10. /\ Whole(s) /\ Layered(s, TRUE) /\ s.path = d.path /\ s.told = d.told
       /\ \A n \in Names : There(s.ivi, n) <=> There(d.ivi, n)
       /\ s.ivi \in Compositors
  BY <1>2, <1>7, ScreenHandlerStep
<1>11. /\ Whole(e)
       /\ e.path = s.path /\ e.file = s.file /\ e.sts = s.sts /\ e.ivi.layers = s.ivi.layers
       /\ \A n \in Names : There(e.ivi, n) <=> There(s.ivi, n)
       /\ \A b \in Here : e.told[b] <=> IF Surf(b) \in ns THEN Offered(e.ivi, b) ELSE s.told[b]
  BY <1>4, <1>7, <1>10, AddHandlerStep
<1>12. Ordered(e.file) /\ (e.sts.display <=> screen') /\ (screen' => e.ivi.layers = e.file.ids)
  BY <1>5, <1>10, <1>11 DEF Layered
<1>13. \A n \in Names : There(e.ivi, n) <=> There(ivi, n)  BY <1>7, <1>10, <1>11
<1>14. told \in [Here -> BOOLEAN] /\ e.told \in [Here -> BOOLEAN]
  BY <1>7, <1>11, FieldsOfDisplay DEF Whole, Base
<1>15. ASSUME NEW b \in Here \ lost'
       PROVE  \/ e.told[b] <=> Offered(e.ivi, b)
              \/ /\ b \notin lost
                 /\ e.told[b] = told[b]
                 /\ ~(Head(queue).kind \in {"created", "deleted"} /\ Head(queue).name = Surf(b))
  <2>1. b \notin lost /\ ~(Head(queue).kind \in {"created", "deleted"})  BY <1>5
  <2>2. CASE Surf(b) \in ns  BY <1>11, <2>2
  <2>3. CASE Surf(b) \notin ns
    <3>1. e.told[b] <=> told[b]  BY <1>7, <1>10, <1>11, <2>3
    <3>. QED  BY <1>14, <2>1, <3>1
  <2>. QED  BY <2>2, <2>3
<1>16. e.path = path  BY <1>7, <1>10, <1>11
<1>17. screen' \in BOOLEAN /\ (screen => screen') /\ (screen' => plugged) /\ lost' \in SUBSET Here
  BY <1>5, <1>8, <1>9
<1>. QED  BY <1>5, <1>6, <1>11, <1>12, <1>13, <1>15, <1>16, <1>17, EventStep

-----------------------------------------------------------------------------
(* Suspend and resume                                                      *)

LEMMA Suspends ==
  ASSUME Inv, SetSuspend
  PROVE  Inv'
<1>1. PICK d : d = Display  OBVIOUS
<1>2. /\ OutputOK /\ Whole(d) /\ Layered(d, screen) /\ Screened(d) /\ d.told = told /\ d.ivi = ivi
      /\ d.path = path
  BY <1>1, Choices
<1>3. TypeOK /\ lost \in SUBSET Here /\ used \in Nat  BY DEF Inv, TypeOK, QueueOK
<1>4. /\ Calls(1) /\ power' = "falling" /\ queue' = <<>> /\ lost' = lost \cup (About(queue) \cap Here)
      /\ output' = output /\ plugged' = plugged /\ screen' = screen
      /\ UNCHANGED <<ivi, path, setting, file, ctl, sts, told, behind>>
  BY DEF SetSuspend, display
<1>5. Becomes(d)  BY <1>1, <1>4 DEF Becomes, Display
<1>6. used' \in Nat  BY <1>3, <1>4, CallFacts
<1>7. /\ plugged' \in BOOLEAN /\ screen' \in BOOLEAN /\ power' \in {"on", "falling", "off"}
      /\ queue' \in Seq(Events) /\ lost' \in SUBSET Here
  BY <1>2, <1>3, <1>4, EmptySeq DEF OutputOK
<1>8. Ordered(d.file) /\ (d.sts.display <=> screen') /\ (screen' => d.ivi.layers = d.file.ids)
  BY <1>2, <1>4 DEF Layered
<1>9. /\ TypeOK' /\ Whole(Display)' /\ Layered(Display, screen)'
      /\ ivi' = d.ivi /\ path' = d.path /\ told' = d.told
  BY <1>2, <1>3, <1>4, <1>5, <1>6, <1>7, <1>8, StepFacts
<1>10. Here' = Here  BY <1>4, UnchangedNames
<1>11. ASSUME NEW a \in Here \ lost'  PROVE told[a] <=> Offered(ivi, a)
  <2>1. a \notin lost /\ a \notin About(queue)  BY <1>4
  <2>2. GetVideoPathFromSurfaceName(Surf(a)) = a  BY <1>2, NameFacts
  <2>3. \A i \in DOMAIN queue : queue[i].name # Surf(a)  BY <2>1, <2>2 DEF About
  <2>. QED  BY <2>1, <2>3 DEF Inv, Announced
<1>12. Announced'
  BY <1>4, <1>10, <1>11 DEF Announced, Surf, GetSurfaceIdFromVideoPath, Offered, There
<1>13. Connected'
  <2>1. Screened(Display)'  BY <1>2, <1>4, <1>9 DEF Screened, Display
  <2>2. DOMAIN queue' = {}  BY <1>4
  <2>. QED  BY <1>4, <2>1, <2>2 DEF Inv, Connected
<1>14. Asleep'  BY <1>4 DEF Asleep
<1>. QED  BY <1>9, <1>12, <1>13, <1>14 DEF Inv

LEMMA FallsAsleep ==
  ASSUME Inv, StrSuspend
  PROVE  Inv'
<1>1. PICK d : d = Display  OBVIOUS
<1>2. /\ OutputOK /\ Whole(d) /\ Layered(d, screen) /\ Screened(d) /\ d.told = told /\ d.ivi = ivi
      /\ d.path = path
  BY <1>1, Choices
<1>3. PICK m : m = StrSuspendMute(d)  OBVIOUS
<1>4. PICK s : s = CASE output = "front"  -> StrSuspendPathClearFront(m)
                     [] output = "rear"   -> StrSuspendPathClearRear(m)
                     [] output = "ic"     -> StrSuspendPathClearICluster(m)
                     [] output = "camera" -> StrSuspendPathClearCamera(m)
  OBVIOUS
<1>5. PICK e : e = InitializeProperties(s)  OBVIOUS
<1>6. /\ power' = "off" /\ output' = output /\ plugged' = plugged /\ screen' = screen
      /\ queue' = queue /\ lost' = lost /\ used' = used
  BY DEF StrSuspend
<1>7. Becomes(e)  BY <1>1, <1>3, <1>4, <1>5 DEF StrSuspend
<1>8. /\ Whole(m) /\ SameRest(d, m) /\ m.path = d.path
      /\ output = "front" \/ (output \in {"rear", "ic"} /\ d.sts.display) => Shown(m.ivi, DisplayMute)
  <2>1. CASE output = "front" \/ (output \in {"rear", "ic"} /\ d.sts.display)
    <3>1. PICK b \in BOOLEAN : b = TRUE  OBVIOUS
    <3>2. m = SetBlinderEnable(d, DisplayMute, TRUE)  BY <1>3, <2>1 DEF StrSuspendMute
    <3>3. m = SetBlinderEnable(d, DisplayMute, b)  BY <3>1, <3>2
    <3>4. output # "camera"  BY <2>1
    <3>5. /\ Whole(m) /\ SameRest(d, m) /\ m.path = d.path
          /\ \A a \in Here : Shown(m.ivi, Surf(a)) <=> Shown(d.ivi, Surf(a))
          /\ Shown(m.ivi, DisplayMute) <=> b
      BY <1>2, <3>3, <3>4, DisplayMuteStep
    <3>. QED  BY <3>1, <3>5
  <2>2. CASE ~(output = "front" \/ (output \in {"rear", "ic"} /\ d.sts.display))
    <3>1. m = d  BY <1>3, <2>2 DEF StrSuspendMute
    <3>. QED  BY <1>2, <2>2, <3>1, RestFacts
  <2>. QED  BY <2>1, <2>2
<1>9. Screened(m)  BY <1>2, <1>8 DEF Screened
<1>10. Cleared(m, s)  BY <1>2, <1>4, <1>8, <1>9, ClearedFacts DEF Screened
<1>11. Layered(m, screen)  BY <1>2, <1>8 DEF Layered, SameRest
<1>12. /\ Whole(e) /\ Layered(e, screen) /\ e.ivi = s.ivi /\ e.path = s.path /\ e.told = m.told
       /\ e.sts.display <=> screen
  BY <1>2, <1>5, <1>10, <1>11, InitializeStep
<1>13. e.told = told /\ \A n \in Names : There(e.ivi, n) <=> There(ivi, n)
  BY <1>2, <1>8, <1>10, <1>12 DEF SameRest, Cleared
<1>14. Screened(e)
  <2>1. output # "camera" => e.path = ""  BY <1>10, <1>12 DEF Cleared
  <2>. QED  BY <2>1 DEF Screened
<1>15. ivi' = e.ivi /\ path' = e.path /\ sts' = e.sts  BY <1>7 DEF Becomes
<1>16. /\ Here' = Here /\ DisplayMute' = DisplayMute /\ \A a \in Here : Surf(a) \in Names
  BY <1>2, <1>6, UnchangedNames, NameFacts
<1>17. s.path \in Here \cup {""} /\ Present(s.ivi)
  BY <1>10, FieldsOfDisplay DEF Cleared, Base
<1>18. e.path # "" => output = "camera" /\ ~Heard(e.ivi, Surf(e.path))
  <2>1. ASSUME e.path # ""  PROVE output = "camera" /\ ~Heard(e.ivi, Surf(e.path))
    <3>1. s.path \in Here /\ s.path # ""  BY <1>12, <1>17, <2>1
    <3>2. output = "camera" /\ ~There(s.ivi, Surf(s.path))  BY <1>10, <3>1 DEF Cleared
    <3>3. Surf(s.path) \in Names  BY <1>16, <3>1
    <3>. QED  BY <1>12, <1>17, <3>2, <3>3 DEF Present
  <2>. QED  BY <2>1
<1>19. ASSUME NEW a \in Here  PROVE ~(Shown(e.ivi, Surf(a)) /\ Initial[a] = "invisible")
  <2>1. SUFFICES ASSUME Shown(e.ivi, Surf(a)), Initial[a] = "invisible"  PROVE FALSE
    OBVIOUS
  <2>2. a = s.path  BY <1>10, <1>12, <2>1 DEF Cleared, OthersHidden
  <2>3. s.path # ""  BY <1>2, <2>2, NameFacts
  <2>4. ~There(s.ivi, Surf(a))  BY <1>10, <2>2, <2>3 DEF Cleared
  <2>5. ~Shown(s.ivi, Surf(a))  BY <1>16, <1>17, <2>4 DEF Present
  <2>. QED  BY <1>12, <2>1, <2>5
<1>20. output = "front" \/ (output \in {"rear", "ic"} /\ e.sts.display) => Shown(e.ivi, DisplayMute)
  <2>1. d.sts.display <=> e.sts.display  BY <1>2, <1>12 DEF Layered
  <2>2. output # "camera" => (Shown(e.ivi, DisplayMute) <=> Shown(m.ivi, DisplayMute))
    BY <1>10, <1>12 DEF Cleared
  <2>. QED  BY <1>8, <2>1, <2>2
<1>21. Asleep'
  BY <1>6, <1>15, <1>16, <1>18, <1>19, <1>20 DEF Asleep, Heard, Shown, Surf, GetSurfaceIdFromVideoPath
<1>22. used' \in Nat  BY <1>6 DEF Inv, TypeOK, QueueOK
<1>23. power' \in {"on", "falling", "off"}  BY <1>6
<1>. QED  BY <1>6, <1>7, <1>12, <1>13, <1>14, <1>21, <1>22, <1>23, QuietStep

LEMMA Resumes ==
  ASSUME Inv, StrResume
  PROVE  Inv'
<1>1. PICK d : d = Display  OBVIOUS
<1>2. /\ OutputOK /\ Whole(d) /\ Layered(d, screen) /\ Screened(d) /\ d.told = told /\ d.ivi = ivi
      /\ d.sts = sts
  BY <1>1, Choices
<1>3. PICK unmutes \in BOOLEAN : unmutes <=> output \in {"rear", "ic"} /\ sts.display  OBVIOUS
<1>4. PICK e : e = IF unmutes THEN SetBlinderEnable(d, DisplayMute, FALSE) ELSE d  OBVIOUS
<1>5. /\ power' = "on" /\ output' = output /\ plugged' = plugged /\ screen' = screen
      /\ queue' = queue /\ lost' = lost /\ used' = used
  BY DEF StrResume
<1>6. Becomes(e)
  <2>1. e = IF output \in {"rear", "ic"} /\ sts.display THEN SetBlinderEnable(d, DisplayMute, FALSE) ELSE d
    BY <1>3, <1>4
  <2>. QED  BY <1>1, <2>1 DEF StrResume
<1>7. Whole(e) /\ SameRest(d, e) /\ e.path = d.path
  <2>1. CASE unmutes
    <3>1. PICK b \in BOOLEAN : b = FALSE  OBVIOUS
    <3>2. e = SetBlinderEnable(d, DisplayMute, FALSE)  BY <1>4, <2>1
    <3>3. e = SetBlinderEnable(d, DisplayMute, b)  BY <3>1, <3>2
    <3>4. output # "camera"  BY <1>3, <2>1
    <3>. QED  BY <1>2, <3>3, <3>4, DisplayMuteStep
  <2>2. CASE ~unmutes  BY <1>2, <1>4, <2>2, RestFacts
  <2>. QED  BY <2>1, <2>2
<1>8. Layered(e, screen) /\ e.told = told /\ \A n \in Names : There(e.ivi, n) <=> There(ivi, n)
  BY <1>2, <1>7 DEF Layered, SameRest
<1>9. Screened(e)  BY <1>2, <1>7 DEF Screened
<1>10. Asleep'  BY <1>5 DEF Asleep
<1>11. used' \in Nat /\ power' \in {"on", "falling", "off"}  BY <1>5 DEF Inv, TypeOK, QueueOK
<1>. QED  BY <1>5, <1>6, <1>7, <1>8, <1>9, <1>10, <1>11, QuietStep

-----------------------------------------------------------------------------
(* The applications and the screens                                        *)

\* A path's surface that is made or deleted is hidden, and not yet listened to.
LEMMA SurfaceStep ==
  ASSUME OutputOK, NEW d, Whole(d), NEW n \in Paths, NEW s \in Surface,
         ~s.listening, ~s.frames, ~s.next.shown, s.now = s.next
  PROVE  LET e == [d EXCEPT !.ivi = [@ EXCEPT !.surface[n] = s]]
         IN /\ Whole(e)
            /\ e.path = d.path /\ e.file = d.file /\ e.sts = d.sts /\ e.told = d.told
            /\ e.ivi.layers = d.ivi.layers
            /\ \A m \in Names : m # n => (There(e.ivi, m) <=> There(d.ivi, m))
            /\ \A m \in Names : m # n => (Shown(e.ivi, m) <=> Shown(d.ivi, m))
            /\ \A m \in Names : m # n => (Heard(e.ivi, m) <=> Heard(d.ivi, m))
            /\ ~Shown(e.ivi, n) /\ ~Heard(e.ivi, n)
            /\ There(e.ivi, n) <=> s.exists
<1>. DEFINE c == d.ivi
            k == [c EXCEPT !.surface[n] = s]
            e == [d EXCEPT !.ivi = k]
<1>1. d \in Displays /\ c \in Compositors /\ Committed(c) /\ Present(c)
  BY FieldsOfDisplay DEF Whole, Base
<1>2. n \in Names /\ n \notin Own  BY NameFacts
<1>. HIDE DEF c
<1>3. /\ k \in Compositors /\ k.layers = c.layers /\ k.surface[n] = s
      /\ \A m \in Names : m # n => k.surface[m] = c.surface[m]
  BY <1>1, <1>2 DEF Compositors
<1>. HIDE DEF k
<1>4. e \in Displays /\ e.ivi = k /\ e.setting = d.setting /\ Untold(d, e)  BY <1>1, <1>3, WithIvi
<1>. HIDE DEF e
<1>5. e.path = d.path /\ e.file = d.file /\ e.sts = d.sts /\ e.told = d.told /\ e.ctl = d.ctl
      /\ e.behind = d.behind
  BY <1>4 DEF Untold, Published
<1>6. /\ ~Shown(k, n) /\ ~Heard(k, n) /\ ~Pictured(k, n) /\ (There(k, n) <=> s.exists)
      /\ \A m \in Names : m # n => (There(k, m) <=> There(c, m)) /\ (Shown(k, m) <=> Shown(c, m))
                                   /\ (Heard(k, m) <=> Heard(c, m)) /\ (Pictured(k, m) <=> Pictured(c, m))
      /\ \A m \in Names : m # n => Cut(k, m) = Cut(c, m) /\ Lies(k, m) = Lies(c, m)
  BY <1>3 DEF Shown, Heard, Pictured, There, Cut, Lies
<1>7. Committed(k)
  BY <1>1, <1>3 DEF Committed
<1>8. Present(k)  BY <1>1, <1>2, <1>6 DEF Present
<1>9. /\ \A a \in Here : Surf(a) \in Names
      /\ \A kind \in Followers : GetBlinderID(kind) \in Own /\ GetBlinderID(kind) \in Names
      /\ GetBlinderID("mute") \in Own /\ GetBlinderID("mute") \in Names
      /\ HasBackground => GetBlinderID("bg") \in Own /\ GetBlinderID("bg") \in Names
  BY NameFacts, OwnFacts
<1>10. \A m \in Names : /\ Shown(k, m) => Shown(c, m)
                        /\ Heard(k, m) => Heard(c, m) /\ (Shown(k, m) <=> Shown(c, m))
                                          /\ Cut(k, m) = Cut(c, m) /\ Lies(k, m) = Lies(c, m)
                        /\ m \in Own => (Shown(k, m) <=> Shown(c, m)) /\ Lies(k, m) = Lies(c, m)
  BY <1>2, <1>6
<1>11. d.path \in Here \cup {""}  BY <1>1, FieldsOfDisplay
<1>12. OthersHidden(d) => OthersHidden(e)
  BY <1>4, <1>5, <1>9, <1>10 DEF OthersHidden, c
<1>13. ShownAsAsked(d) => ShownAsAsked(e)
  BY <1>4, <1>5, <1>9, <1>10, <1>11 DEF ShownAsAsked, c
<1>14. BackgroundBehind(d) => BackgroundBehind(e)
  BY <1>4, <1>5, <1>9, <1>10 DEF BackgroundBehind, c
<1>15. /\ NoMuteWithoutPath(d) => NoMuteWithoutPath(e)
       /\ MuteTold(d) => MuteTold(e)
  BY <1>4, <1>5, <1>9, <1>10 DEF NoMuteWithoutPath, MuteTold, c
<1>16. /\ VisibilityTold(d) => VisibilityTold(e)
       /\ OpacityTold(d) => OpacityTold(e)
  BY <1>4, <1>5 DEF VisibilityTold, OpacityTold
<1>17. VideoPlaced(d) => VideoPlaced(e)
  BY <1>4, <1>5, <1>9, <1>10 DEF VideoPlaced, c
<1>18. CoversPlaced(d) => CoversPlaced(e)
  BY <1>4, <1>5, <1>9, <1>10 DEF CoversPlaced, c
<1>19. /\ SizesGiven(d) => SizesGiven(e)
       /\ OutputGiven(d) => OutputGiven(e)
       /\ ClippingTold(d) => ClippingTold(e)
       /\ OutputTold(d) => OutputTold(e)
       /\ WideTold(d) => WideTold(e)
  BY <1>4, <1>5 DEF SizesGiven, OutputGiven, ClippingTold, OutputTold, WideTold
<1>20. Whole(e)
  BY <1>4, <1>7, <1>8, <1>12, <1>13, <1>14, <1>15, <1>16, <1>17, <1>18, <1>19
     DEF Whole, Base, Sight, Geometry
<1>21. e.ivi.layers = d.ivi.layers  BY <1>3, <1>4 DEF c
<1>22. /\ \A m \in Names : m # n => (There(e.ivi, m) <=> There(d.ivi, m))
       /\ \A m \in Names : m # n => (Shown(e.ivi, m) <=> Shown(d.ivi, m))
       /\ \A m \in Names : m # n => (Heard(e.ivi, m) <=> Heard(d.ivi, m))
       /\ ~Shown(e.ivi, n) /\ ~Heard(e.ivi, n)
       /\ There(e.ivi, n) <=> s.exists
  BY <1>4, <1>6 DEF c
<1>. QED  BY <1>5, <1>20, <1>21, <1>22 DEF e, k, c

\* The first picture of a surface changes nothing of what is shown of it.
LEMMA FrameStep ==
  ASSUME OutputOK, NEW d, Whole(d), NEW n \in Names, Heard(d.ivi, n), NEW b \in BOOLEAN
  PROVE  LET e == [d EXCEPT !.ivi = [@ EXCEPT !.surface[n].frames = b]]
         IN /\ Whole(e) /\ SameRest(d, e) /\ e.path = d.path
            /\ \A m \in Names : Shown(e.ivi, m) <=> Shown(d.ivi, m)
            /\ \A m \in Names : Heard(e.ivi, m) <=> Heard(d.ivi, m)
<1>. DEFINE c == d.ivi
            k == [c EXCEPT !.surface[n].frames = b]
            e == [d EXCEPT !.ivi = k]
<1>1. d \in Displays /\ c \in Compositors /\ Committed(c) /\ Present(c)
  BY FieldsOfDisplay DEF Whole, Base
<1>2. There(c, n)  BY <1>1 DEF Present
<1>. HIDE DEF c
<1>3. /\ k \in Compositors /\ k.layers = c.layers
      /\ \A m \in Names : /\ k.surface[m].exists = c.surface[m].exists
                          /\ k.surface[m].listening = c.surface[m].listening
                          /\ k.surface[m].next = c.surface[m].next
                          /\ k.surface[m].now = c.surface[m].now
      /\ \A m \in Names : m # n => k.surface[m] = c.surface[m]
  BY <1>1 DEF Compositors, Surface
<1>. HIDE DEF k
<1>4. e \in Displays /\ e.ivi = k /\ e.setting = d.setting /\ Untold(d, e)  BY <1>1, <1>3, WithIvi
<1>. HIDE DEF e
<1>5. e.path = d.path /\ e.file = d.file /\ e.sts = d.sts /\ e.told = d.told /\ e.ctl = d.ctl
      /\ e.behind = d.behind
  BY <1>4 DEF Untold, Published
<1>6. \A m \in Names : /\ There(k, m) <=> There(c, m)
                       /\ Heard(k, m) <=> Heard(c, m)
                       /\ Shown(k, m) <=> Shown(c, m)
                       /\ Cut(k, m) = Cut(c, m)
                       /\ Lies(k, m) = Lies(c, m)
                       /\ m # n => (Pictured(k, m) <=> Pictured(c, m))
  BY <1>3 DEF There, Heard, Shown, Cut, Lies, Pictured
<1>7. Committed(k)  BY <1>1, <1>3 DEF Committed
<1>8. Present(k)  BY <1>1, <1>2, <1>6 DEF Present
<1>9. \A a \in Here : Surf(a) \in Names  BY NameFacts
<1>10. SameShown(c, k) /\ SamePlaced(c, k)  BY <1>6 DEF SameShown, SamePlaced
<1>11. SameSight(d, e)
  BY <1>4, <1>5, <1>6, <1>9, <1>10 DEF SameSight, SameSeen, Keeps, c
<1>12. SameGeometry(d, e)
  BY <1>4, <1>5, <1>6, <1>9, <1>10 DEF SameGeometry, SameSizes, Keeps, c
<1>13. Whole(e)
  BY <1>1, <1>4, <1>7, <1>8, <1>11, <1>12, SightFrame, GeometryFrame DEF Whole, Base
<1>14. SameRest(d, e)  BY <1>3, <1>4, <1>5, <1>6 DEF SameRest, c
<1>15. /\ \A m \in Names : Shown(e.ivi, m) <=> Shown(d.ivi, m)
       /\ \A m \in Names : Heard(e.ivi, m) <=> Heard(d.ivi, m)
  BY <1>4, <1>6 DEF c
<1>. QED  BY <1>5, <1>13, <1>14, <1>15 DEF e, k, c

\* An event is put into the queue, or dropped when the manager does not take it.
LEMMA PostFacts ==
  ASSUME NEW e \in Events, Post(e), queue \in Seq(Events), lost \in SUBSET Here
  PROVE  /\ queue' \in Seq(Events) /\ lost' \in SUBSET Here /\ lost \subseteq lost'
         /\ \A i \in DOMAIN queue : \E j \in DOMAIN queue' : queue'[j] = queue[i]
         /\ \A j \in DOMAIN queue' : queue'[j] = e \/ \E i \in DOMAIN queue : queue'[j] = queue[i]
         /\ \A a \in Here : e.name = Surf(a) =>
              a \in lost' \/ \E j \in DOMAIN queue' : queue'[j] = e
<1>1. CASE power = "on"
  <2>1. queue' = Append(queue, e) /\ lost' = lost  BY <1>1 DEF Post
  <2>2. /\ Append(queue, e) \in Seq(Events)
        /\ \A i \in DOMAIN queue : i \in DOMAIN Append(queue, e) /\ Append(queue, e)[i] = queue[i]
        /\ \E i \in DOMAIN Append(queue, e) : Append(queue, e)[i] = e
        /\ \A i \in DOMAIN Append(queue, e) :
             Append(queue, e)[i] = e \/ (i \in DOMAIN queue /\ Append(queue, e)[i] = queue[i])
    BY AppendFacts
  <2>. QED  BY <2>1, <2>2
<1>2. CASE power # "on"
  <2>1. queue' = queue /\ lost' = lost \cup (About(<<e>>) \cap Here)  BY <1>2 DEF Post
  <2>2. \A a \in Here : e.name = Surf(a) => a \in About(<<e>>)
    BY AboutFacts DEF Surf, GetSurfaceIdFromVideoPath, GetVideoPathFromSurfaceName
  <2>. QED  BY <2>1, <2>2
<1>. QED  BY <1>1, <1>2

\* A change outside is reported; of the clients' paths it makes or deletes no surface but
\* the one it reports, and it shows none.
LEMMA OutsideStep ==
  ASSUME Inv, NEW e \in Events, Post(e), Calls(1),
         NEW d, Becomes(d), Whole(d), Layered(d, screen), d.told = told, d.path = path,
         output' = output, screen' = screen, power' = power,
         plugged' \in BOOLEAN, plugged => plugged', e.kind = "output" => plugged',
         \A a \in Here : \/ Offered(d.ivi, a) <=> Offered(ivi, a)
                         \/ e.kind \in {"created", "deleted"} /\ e.name = Surf(a),
         \A a \in Here : /\ Shown(d.ivi, Surf(a)) => Shown(ivi, Surf(a))
                         /\ Heard(d.ivi, Surf(a)) => Heard(ivi, Surf(a)),
         output # "camera" => (Shown(d.ivi, DisplayMute) <=> Shown(ivi, DisplayMute))
  PROVE  Inv'
<1>1. TypeOK /\ OutputOK /\ queue \in Seq(Events) /\ lost \in SUBSET Here /\ used \in Nat
  BY DEF Inv, TypeOK, QueueOK
<1>2. /\ queue' \in Seq(Events) /\ lost' \in SUBSET Here /\ lost \subseteq lost'
      /\ \A i \in DOMAIN queue : \E j \in DOMAIN queue' : queue'[j] = queue[i]
      /\ \A j \in DOMAIN queue' : queue'[j] = e \/ \E i \in DOMAIN queue : queue'[j] = queue[i]
      /\ \A a \in Here : e.name = Surf(a) =>
           a \in lost' \/ \E j \in DOMAIN queue' : queue'[j] = e
  BY <1>1, PostFacts
<1>3. used' \in Nat  BY <1>1, CallFacts
<1>4. screen' \in BOOLEAN /\ power' \in {"on", "falling", "off"}  BY <1>1 DEF OutputOK, TypeOK
<1>5. Ordered(d.file) /\ (d.sts.display <=> screen') /\ (screen' => d.ivi.layers = d.file.ids)
  BY DEF Layered
<1>6. /\ TypeOK' /\ Whole(Display)' /\ Layered(Display, screen)'
      /\ ivi' = d.ivi /\ path' = d.path /\ told' = d.told /\ sts' = d.sts
  BY <1>1, <1>2, <1>3, <1>4, <1>5, StepFacts
<1>7. Here' = Here /\ DisplayMute' = DisplayMute  BY UnchangedNames
<1>8. ASSUME NEW a \in Here \ lost'
      PROVE  \/ \E j \in DOMAIN queue' : /\ queue'[j].kind \in {"created", "deleted"}
                                         /\ queue'[j].name = Surf(a)
             \/ told[a] <=> Offered(d.ivi, a)
  <2>1. a \in Here \ lost  BY <1>2
  <2>2. CASE e.kind \in {"created", "deleted"} /\ e.name = Surf(a)
    <3>1. PICK j \in DOMAIN queue' : queue'[j] = e  BY <1>2, <2>2
    <3>. QED  BY <2>2, <3>1
  <2>3. CASE Offered(d.ivi, a) <=> Offered(ivi, a)
    <3>1. CASE told[a] <=> Offered(ivi, a)  BY <2>3, <3>1
    <3>2. CASE ~(told[a] <=> Offered(ivi, a))
      <4>1. PICK i \in DOMAIN queue : queue[i].kind \in {"created", "deleted"} /\ queue[i].name = Surf(a)
        BY <2>1, <3>2 DEF Inv, Announced
      <4>2. PICK j \in DOMAIN queue' : queue'[j] = queue[i]  BY <1>2
      <4>. QED  BY <4>1, <4>2
    <3>. QED  BY <3>1, <3>2
  <2>. QED  BY <2>2, <2>3
<1>9. Announced'
  BY <1>6, <1>7, <1>8 DEF Announced, Surf, GetSurfaceIdFromVideoPath, Offered, There
<1>10. Connected'
  <2>1. Screened(Display)'  BY <1>6 DEF Inv, Connected, Screened, Display
  <2>2. \A j \in DOMAIN queue' : queue'[j].kind = "output" => plugged'
    BY <1>2 DEF Inv, Connected
  <2>3. screen' => plugged'  BY DEF Inv, Connected
  <2>. QED  BY <2>1, <2>2, <2>3 DEF Connected
<1>11. Asleep'
  <2>1. (d.sts.display <=> sts.display)
    BY DEF Layered, Inv, Display
  <2>2. ASSUME power = "off", path # "", path \in Here
        PROVE  output = "camera" /\ ~Heard(d.ivi, Surf(path))
    BY <2>2 DEF Inv, Asleep
  <2>3. path \in Here \cup {""}
    <3>1. Display \in Displays /\ Display.path = path  BY <1>1 DEF TypeOK, Display
    <3>. QED  BY <3>1, FieldsOfDisplay
  <2>4. power = "off" /\ path # "" => output = "camera" /\ ~Heard(d.ivi, Surf(path))
    BY <2>2, <2>3
  <2>5. power = "off" => \A a \in Here : ~(Shown(d.ivi, Surf(a)) /\ Initial[a] = "invisible")
    BY DEF Inv, Asleep
  <2>6. power = "off" /\ (output = "front" \/ (output \in {"rear", "ic"} /\ d.sts.display)) =>
          Shown(d.ivi, DisplayMute)
    BY <2>1 DEF Inv, Asleep
  <2>. QED
    BY <1>6, <1>7, <2>4, <2>5, <2>6 DEF Asleep, Heard, Shown, Surf, GetSurfaceIdFromVideoPath
<1>. QED  BY <1>6, <1>9, <1>10, <1>11 DEF Inv

LEMMA SurfaceMade ==
  ASSUME Inv, NEW n \in Paths, NEW s \in Surface, NEW kind \in {"created", "deleted"},
         ~s.listening, ~s.frames, ~s.next.shown, s.now = s.next,
         Outside, ivi' = [ivi EXCEPT !.surface[n] = s], Post(Event(kind, n, NoRect)), plugged' = plugged
  PROVE  Inv'
<1>1. PICK d : d = Display  OBVIOUS
<1>2. /\ OutputOK /\ Whole(d) /\ Layered(d, screen) /\ d.told = told /\ d.ivi = ivi /\ d.path = path
  BY <1>1, Choices
<1>3. PICK f : f = [d EXCEPT !.ivi = [@ EXCEPT !.surface[n] = s]]  OBVIOUS
<1>4. /\ Calls(1) /\ output' = output /\ screen' = screen /\ power' = power
      /\ path' = path /\ setting' = setting /\ file' = file /\ ctl' = ctl /\ sts' = sts
      /\ told' = told /\ behind' = behind
  BY DEF Outside
<1>5. Becomes(f)  BY <1>1, <1>3, <1>4 DEF Becomes, Display
<1>6. /\ Whole(f)
      /\ f.path = d.path /\ f.file = d.file /\ f.sts = d.sts /\ f.told = d.told
      /\ f.ivi.layers = d.ivi.layers
      /\ \A m \in Names : m # n => (There(f.ivi, m) <=> There(d.ivi, m))
      /\ \A m \in Names : m # n => (Shown(f.ivi, m) <=> Shown(d.ivi, m))
      /\ \A m \in Names : m # n => (Heard(f.ivi, m) <=> Heard(d.ivi, m))
      /\ ~Shown(f.ivi, n) /\ ~Heard(f.ivi, n)
      /\ There(f.ivi, n) <=> s.exists
  BY <1>2, <1>3, SurfaceStep
<1>7. Layered(f, screen)  BY <1>2, <1>6 DEF Layered
<1>8. PICK e : e = Event(kind, n, NoRect)  OBVIOUS
<1>9. e.kind = kind /\ e.name = n /\ e \in Events  BY <1>8, NoRectType DEF Event, Events
<1>10. /\ \A a \in Here : Surf(a) \in Names
       /\ n \notin Own
       /\ output # "camera" => DisplayMute \in Own /\ DisplayMute \in Names
  BY <1>2, NameFacts, OwnFacts
<1>11. \A a \in Here : \/ Offered(f.ivi, a) <=> Offered(ivi, a)
                       \/ e.kind \in {"created", "deleted"} /\ e.name = Surf(a)
  BY <1>2, <1>6, <1>9, <1>10 DEF Offered
<1>12. \A a \in Here : /\ Shown(f.ivi, Surf(a)) => Shown(ivi, Surf(a))
                       /\ Heard(f.ivi, Surf(a)) => Heard(ivi, Surf(a))
  BY <1>2, <1>6, <1>10
<1>13. output # "camera" => (Shown(f.ivi, DisplayMute) <=> Shown(ivi, DisplayMute))
  BY <1>2, <1>6, <1>10
<1>14. plugged' \in BOOLEAN /\ (plugged => plugged') /\ (e.kind = "output" => plugged')
  BY <1>2, <1>9 DEF OutputOK
<1>15. f.told = told /\ f.path = path  BY <1>2, <1>6
<1>. QED
  BY <1>4, <1>5, <1>6, <1>7, <1>8, <1>9, <1>11, <1>12, <1>13, <1>14, <1>15, OutsideStep

LEMMA SurfaceTypes ==
  /\ Ivi!NewSurface \in Surface /\ Ivi!NoSurface \in Surface
  /\ ~Ivi!NewSurface.listening /\ ~Ivi!NewSurface.frames /\ ~Ivi!NewSurface.next.shown
  /\ Ivi!NewSurface.now = Ivi!NewSurface.next
  /\ ~Ivi!NoSurface.listening /\ ~Ivi!NoSurface.frames /\ ~Ivi!NoSurface.next.shown
  /\ Ivi!NoSurface.now = Ivi!NoSurface.next
BY NoRectType DEF Ivi!NewSurface, Ivi!NoSurface, Ivi!Untouched, Surface, Look, NoRect, Ivi!NoRect,
                  Rect, Ivi!Rect

LEMMA Creates ==
  ASSUME Inv, NEW n \in Paths, SurfaceCreated(n)
  PROVE  Inv'
BY SurfaceMade, SurfaceTypes DEF SurfaceCreated

LEMMA Deletes ==
  ASSUME Inv, NEW n \in Paths, SurfaceDeleted(n)
  PROVE  Inv'
BY SurfaceMade, SurfaceTypes DEF SurfaceDeleted

LEMMA Configures ==
  ASSUME Inv, NEW n \in Names, NEW r \in Sizes \cup {Drawn}, SurfaceConfigured(n, r)
  PROVE  Inv'
<1>1. PICK d : d = Display  OBVIOUS
<1>2. /\ OutputOK /\ Whole(d) /\ Layered(d, screen) /\ d.told = told /\ d.ivi = ivi /\ d.path = path
  BY <1>1, Choices
<1>3. PICK b \in BOOLEAN : b <=> ivi.surface[n].frames \/ HasArea(r)  OBVIOUS
<1>4. PICK f : f = [d EXCEPT !.ivi = [@ EXCEPT !.surface[n].frames = b]]  OBVIOUS
<1>5. /\ Calls(1) /\ output' = output /\ screen' = screen /\ power' = power
      /\ path' = path /\ setting' = setting /\ file' = file /\ ctl' = ctl /\ sts' = sts
      /\ told' = told /\ behind' = behind
      /\ ivi.surface[n].listening
      /\ n \in Own => r = Drawn
      /\ n \in Paths => r \in Sizes
      /\ ivi' = [ivi EXCEPT !.surface[n].frames = (@ \/ HasArea(r))]
      /\ Post(Event("configured", n, r)) /\ plugged' = plugged
  BY DEF SurfaceConfigured, Outside
<1>6. ivi' = [ivi EXCEPT !.surface[n].frames = b]
  BY <1>3, <1>5
<1>7. Becomes(f)  BY <1>1, <1>4, <1>5, <1>6 DEF Becomes, Display
<1>8. Heard(d.ivi, n)  BY <1>2, <1>5 DEF Heard
<1>9. /\ Whole(f) /\ SameRest(d, f) /\ f.path = d.path
      /\ \A m \in Names : Shown(f.ivi, m) <=> Shown(d.ivi, m)
      /\ \A m \in Names : Heard(f.ivi, m) <=> Heard(d.ivi, m)
  BY <1>2, <1>4, <1>8, FrameStep
<1>10. Layered(f, screen)  BY <1>2, <1>9 DEF Layered, SameRest
<1>11. PICK e : e = Event("configured", n, r)  OBVIOUS
<1>12. Sizes \cup {Drawn} \subseteq Rectangle  BY LayoutAssumption DEF LayoutAssumption
<1>13. e.kind = "configured" /\ e \in Events
  BY <1>5, <1>11, <1>12 DEF Event, Events, Names
<1>14. /\ \A a \in Here : Surf(a) \in Names
       /\ output # "camera" => DisplayMute \in Own /\ DisplayMute \in Names
  BY <1>2, NameFacts, OwnFacts
<1>15. \A a \in Here : \/ Offered(f.ivi, a) <=> Offered(ivi, a)
                       \/ e.kind \in {"created", "deleted"} /\ e.name = Surf(a)
  BY <1>2, <1>9, <1>14 DEF Offered, SameRest
<1>16. \A a \in Here : /\ Shown(f.ivi, Surf(a)) => Shown(ivi, Surf(a))
                       /\ Heard(f.ivi, Surf(a)) => Heard(ivi, Surf(a))
  BY <1>2, <1>9, <1>14
<1>17. output # "camera" => (Shown(f.ivi, DisplayMute) <=> Shown(ivi, DisplayMute))
  BY <1>2, <1>9, <1>14
<1>18. plugged' \in BOOLEAN /\ (plugged => plugged') /\ (e.kind = "output" => plugged')
  BY <1>2, <1>5, <1>13 DEF OutputOK
<1>19. f.told = told /\ f.path = path  BY <1>2, <1>9 DEF SameRest
<1>. QED
  BY <1>5, <1>7, <1>9, <1>10, <1>11, <1>13, <1>15, <1>16, <1>17, <1>18, <1>19, OutsideStep

LEMMA AddsScreen ==
  ASSUME Inv, ScreenAdded
  PROVE  Inv'
<1>1. PICK d : d = Display  OBVIOUS
<1>2. /\ OutputOK /\ Whole(d) /\ Layered(d, screen) /\ d.told = told /\ d.ivi = ivi /\ d.path = path
  BY <1>1, Choices
<1>3. /\ Calls(1) /\ output' = output /\ screen' = screen /\ power' = power
      /\ path' = path /\ setting' = setting /\ file' = file /\ ctl' = ctl /\ sts' = sts
      /\ told' = told /\ behind' = behind /\ ivi' = ivi
      /\ Post(Event("output", Nothing, NoRect)) /\ plugged' = TRUE
  BY DEF ScreenAdded, Outside
<1>4. Becomes(d)  BY <1>1, <1>3 DEF Becomes, Display
<1>5. PICK e : e = Event("output", Nothing, NoRect)  OBVIOUS
<1>6. e \in Events  BY <1>5, NoRectType DEF Event, Events
<1>7. plugged' \in BOOLEAN /\ (plugged => plugged') /\ (e.kind = "output" => plugged')  BY <1>3
<1>8. \A a \in Here : Offered(d.ivi, a) <=> Offered(ivi, a)  BY <1>2
<1>9. /\ \A a \in Here : /\ Shown(d.ivi, Surf(a)) => Shown(ivi, Surf(a))
                         /\ Heard(d.ivi, Surf(a)) => Heard(ivi, Surf(a))
      /\ output # "camera" => (Shown(d.ivi, DisplayMute) <=> Shown(ivi, DisplayMute))
  BY <1>2
<1>. QED  BY <1>2, <1>3, <1>4, <1>5, <1>6, <1>7, <1>8, <1>9, OutsideStep

LEMMA Stands ==
  ASSUME Inv, UNCHANGED vars
  PROVE  Inv'
<1>1. PICK d : d = Display  OBVIOUS
<1>2. /\ Whole(d) /\ Layered(d, screen) /\ Screened(d) /\ d.told = told /\ d.ivi = ivi /\ d.path = path
  BY <1>1, Choices
<1>3. /\ output' = output /\ plugged' = plugged /\ screen' = screen /\ power' = power
      /\ path' = path /\ setting' = setting /\ file' = file /\ ctl' = ctl /\ sts' = sts
      /\ told' = told /\ behind' = behind /\ ivi' = ivi
      /\ queue' = queue /\ lost' = lost /\ used' = used
  BY DEF vars, display
<1>4. Becomes(d)  BY <1>1, <1>3 DEF Becomes, Display
<1>5. used' \in Nat /\ power' \in {"on", "falling", "off"}  BY <1>3 DEF Inv, TypeOK, QueueOK
<1>6. Here' = Here /\ DisplayMute' = DisplayMute  BY <1>3, UnchangedNames
<1>7. Asleep'
  BY <1>3, <1>6 DEF Inv, Asleep, Heard, Shown, Surf, GetSurfaceIdFromVideoPath
<1>8. \A n \in Names : There(d.ivi, n) <=> There(ivi, n)  BY <1>2
<1>. QED  BY <1>2, <1>3, <1>4, <1>5, <1>7, <1>8, QuietStep

LEMMA NextKeeps ==
  ASSUME Inv, Next
  PROVE  Inv'
<1>1. /\ {Part, Screen} \cup Sizes \cup Clips \subseteq Rectangle
      /\ Wides \subseteq WideModes \ {"invalid"} /\ NoRect \in Rectangle
  BY LayoutAssumption, NoRectType DEF LayoutAssumption
<1>2. CASE HandleSurfaceEvent  BY <1>2, SurfaceEvent
<1>3. CASE NotifyOutputAdded  BY <1>3, OutputEvent
<1>4. ASSUME NEW a \in Here \cup {""},
             \/ VpathFrontCurrent(a) \/ VpathRearCurrent(a)
             \/ VpathIClusterCurrent(a) \/ VpathCameraCurrent(a)
      PROVE  Inv'
  BY <1>4, FrontCurrent, RearCurrent, IClusterCurrent, CameraCurrent
<1>5. ASSUME NEW r \in {Part, Screen},
             \/ VpathFrontOutput(r) \/ VpathRearOutput(r)
             \/ VpathIClusterOutput(r) \/ VpathCameraOutput(r)
      PROVE  Inv'
  <2>1. r \in Rectangle  BY <1>1
  <2>2. CASE VpathCameraOutput(r)  BY <2>1, <2>2, CameraOutputRequest
  <2>3. CASE VpathFrontOutput(r) \/ VpathRearOutput(r) \/ VpathIClusterOutput(r)
    <3>1. Output(r) /\ (output \in {"rear", "ic"} => screen)
      BY <2>3 DEF VpathFrontOutput, VpathRearOutput, VpathIClusterOutput
    <3>. QED  BY <2>1, <3>1, OutputRequest
  <2>. QED  BY <1>5, <2>2, <2>3
<1>6. ASSUME NEW r \in Sizes \ {NoRect}, NEW captured \in BOOLEAN, SetCameraInputSize(r, captured)
      PROVE  Inv'
  <2>1. r \in Rectangle  BY <1>1
  <2>. QED  BY <1>6, <2>1, CameraInput
<1>7. ASSUME NEW r \in Clips, VpathFrontClipping(TRUE, r) \/ VpathIClusterClipping(TRUE, r)
      PROVE  Inv'
  <2>1. r \in Rectangle  BY <1>1
  <2>2. PICK on \in BOOLEAN : on = TRUE  OBVIOUS
  <2>3. VpathFrontClipping(on, r) \/ VpathIClusterClipping(on, r)  BY <1>7, <2>2
  <2>. QED  BY <2>1, <2>3, ClippingRequest
<1>8. CASE VpathFrontClipping(FALSE, NoRect) \/ VpathIClusterClipping(FALSE, NoRect)
  <2>1. PICK on \in BOOLEAN : on = FALSE  OBVIOUS
  <2>2. VpathFrontClipping(on, NoRect) \/ VpathIClusterClipping(on, NoRect)  BY <1>8, <2>1
  <2>. QED  BY <1>1, <2>2, ClippingRequest
<1>9. ASSUME NEW b \in BOOLEAN, VpathFrontVisible(b) \/ VpathRearVisible(b) \/ VpathIClusterVisible(b)
      PROVE  Inv'
  <2>1. Visible(b) /\ output # "camera"
    BY <1>9 DEF VpathFrontVisible, VpathRearVisible, VpathIClusterVisible
  <2>. QED  BY <2>1, VisibleRequest
<1>10. ASSUME NEW b \in BOOLEAN, VpathFrontOpacity(b) \/ VpathRearOpacity(b) \/ VpathIClusterOpacity(b)
       PROVE  Inv'
  <2>1. PICK always \in BOOLEAN : always = (output = "rear")  OBVIOUS
  <2>2. Opacity(b, always) /\ output # "camera"
    <3>1. CASE VpathRearOpacity(b)
      <4>1. output = "rear" /\ Opacity(b, TRUE)  BY <3>1 DEF VpathRearOpacity
      <4>2. always = TRUE  BY <2>1, <4>1
      <4>. QED  BY <4>1, <4>2
    <3>2. CASE VpathFrontOpacity(b) \/ VpathIClusterOpacity(b)
      <4>1. output \in {"front", "ic"} /\ Opacity(b, FALSE)
        BY <3>2 DEF VpathFrontOpacity, VpathIClusterOpacity
      <4>2. always = FALSE  BY <2>1, <4>1
      <4>. QED  BY <4>1, <4>2
    <3>. QED  BY <1>10, <3>1, <3>2
  <2>. QED  BY <2>2, OpacityRequest
<1>11. ASSUME NEW w \in Wides, VpathFrontWide(w) \/ VpathRearWide(w)
       PROVE  Inv'
  <2>1. Wide(w) /\ output # "camera" /\ w \in WideModes \ {"invalid"}
    BY <1>1, <1>11 DEF VpathFrontWide, VpathRearWide
  <2>. QED  BY <2>1, WideRequest
<1>12. ASSUME NEW b \in BOOLEAN, MuteFrontVideo(b) \/ MuteRearVideo(b)
       PROVE  Inv'
  <2>1. Mute(b) /\ HasWide /\ (output = "rear" => screen)
    BY <1>12 DEF MuteFrontVideo, MuteRearVideo, HasWide
  <2>. QED  BY <2>1, MuteRequest
<1>13. ASSUME NEW layer \in DOMAIN Order, NEW new \in NewOrders, IviLayerOrder(layer, new)
       PROVE  Inv'
  BY <1>13, LayerRequest
<1>14. CASE SetSuspend  BY <1>14, Suspends
<1>15. CASE StrSuspend  BY <1>15, FallsAsleep
<1>16. CASE StrResume  BY <1>16, Resumes
<1>17. ASSUME NEW n \in Paths, SurfaceCreated(n) \/ SurfaceDeleted(n)
       PROVE  Inv'
  BY <1>17, Creates, Deletes
<1>18. ASSUME NEW n \in Paths \cup Own, NEW r \in Sizes \cup {Drawn}, SurfaceConfigured(n, r)
       PROVE  Inv'
  BY <1>18, Configures DEF Names
<1>19. CASE ScreenAdded  BY <1>19, AddsScreen
<1>. QED
  BY <1>2, <1>3, <1>4, <1>5, <1>6, <1>7, <1>8, <1>9, <1>10, <1>11, <1>12, <1>13, <1>14, <1>15, <1>16,
     <1>17, <1>18, <1>19 DEF Next

-----------------------------------------------------------------------------
(* The initial states                                                      *)

LEMMA FileFacts ==
  /\ ReadFile \in Files /\ Ordered(ReadFile) /\ ReadFile.ids \in Seq(DOMAIN Order)
<1>1. Layers \in Seq(DOMAIN Order) /\ Order \in [DOMAIN Order -> Int]
  BY LayoutAssumption DEF LayoutAssumption
<1>2. /\ Sorted(Layers, Order) \in Seq(DOMAIN Order)
      /\ Len(Sorted(Layers, Order)) = Len(Layers)
      /\ Ordered([ids |-> Sorted(Layers, Order), order |-> Order])
  BY <1>1, SortedFacts
<1>. QED  BY <1>1, <1>2 DEF ReadFile, Files

\* Only the manager's own surfaces are there, and all are hidden.
LEMMA CompositorFacts ==
  ASSUME OutputOK, NEW there \in BOOLEAN
  PROVE  LET c == Compositor(Own, Paths, there)
         IN /\ c \in Compositors /\ Committed(c) /\ Present(c)
            /\ \A n \in Names : ~Shown(c, n) /\ (There(c, n) <=> n \in Own)
            /\ there => c.layers = ReadFile.ids
<1>. DEFINE empty == Ivi!Compositor(Own \cup Paths, Own)
            laid == IF there THEN Ivi!CreateLayers(empty, ReadFile.ids) ELSE empty
            c == Ivi!AddSurfacesToLayer(laid, Own)
<1>1. empty.layers = <<>> /\ empty.layers \in Seq(DOMAIN Order)  BY EmptySeq DEF Ivi!Compositor
<1>2. empty \in Compositors
  BY <1>1, SurfaceTypes DEF Ivi!Compositor, Compositors, Names
<1>3. \A n \in Names : /\ There(empty, n) <=> n \in Own
                       /\ ~Shown(empty, n) /\ ~Heard(empty, n) /\ ~Pictured(empty, n)
  BY SurfaceTypes
     DEF Ivi!Compositor, Names, There, Shown, Heard, Pictured, Ivi!NewSurface, Ivi!NoSurface, Ivi!Untouched
<1>. HIDE DEF empty
<1>4. ReadFile.ids \in Seq(DOMAIN Order)  BY FileFacts
<1>5. /\ laid \in Compositors
      /\ \A n \in Names : /\ There(laid, n) <=> There(empty, n)
                          /\ Heard(laid, n) <=> Heard(empty, n)
                          /\ Pictured(laid, n) <=> Pictured(empty, n)
                          /\ Shown(laid, n) <=> Shown(empty, n)
      /\ there => laid.layers = ReadFile.ids
  <2>1. PICK k : k = Ivi!CreateLayers(empty, ReadFile.ids)  OBVIOUS
  <2>2. /\ k \in Compositors /\ k.layers = ReadFile.ids /\ SameShown(empty, k) /\ SamePlaced(empty, k)
        /\ \A n \in Names : /\ There(k, n) <=> There(empty, n)
                            /\ Heard(k, n) <=> Heard(empty, n)
                            /\ Pictured(k, n) <=> Pictured(empty, n)
        /\ Committed(empty) => Committed(k)
    BY <1>2, <1>4, <2>1, LayerFacts
  <2>3. CASE there
    <3>1. laid = k  BY <2>1, <2>3
    <3>. QED  BY <2>2, <3>1 DEF SameShown
  <2>4. CASE ~there
    <3>1. laid = empty  BY <2>4
    <3>. QED  BY <1>2, <2>4, <3>1
  <2>. QED  BY <2>3, <2>4
<1>. HIDE DEF laid
<1>6. /\ c \in Compositors /\ SamePlaced(laid, c) /\ Committed(c) /\ c.layers = laid.layers
      /\ \A m \in Names :
           /\ There(c, m) <=> There(laid, m)
           /\ Pictured(c, m) <=> Pictured(laid, m)
           /\ Heard(c, m) <=> Heard(laid, m) \/ (m \in Own /\ There(laid, m))
           /\ Shown(c, m) <=> Shown(laid, m) /\ ~(m \in Own /\ There(laid, m))
  BY <1>5, AddFacts
<1>. HIDE DEF c
<1>7. Compositor(Own, Paths, there) = c  BY DEF Compositor, c, laid, empty
<1>8. \A n \in Names : ~Shown(c, n) /\ (There(c, n) <=> n \in Own)  BY <1>3, <1>5, <1>6
<1>9. Present(c)  BY <1>3, <1>5, <1>6 DEF Present
<1>10. there => c.layers = ReadFile.ids  BY <1>5, <1>6
<1>. QED  BY <1>6, <1>7, <1>8, <1>9, <1>10

LEMMA SettingFacts ==
  ASSUME OutputOK
  PROVE  LET t == RegisterVideoPath([a \in Here |-> {output}], Default)
         IN t \in Settings /\ \A a \in Here : ~Orig(t, a).set
<1>. DEFINE t == RegisterVideoPath([a \in Here |-> {output}], Default)
            wide(id) == IF id[2] = "ic" THEN "invalid" ELSE "normal"
<1>1. UNION {{GetVideoPathIdentifier(p, o) : o \in [a \in Here |-> {output}][p]} :
               p \in DOMAIN [a \in Here |-> {output}]} = Ids
  BY DEF Ids, Id
<1>2. t = [id \in Ids |-> VideoSurfaceRecord(Default, wide(id))]
  BY <1>1 DEF RegisterVideoPath
<1>3. Default \in Rectangle  BY LayoutAssumption DEF LayoutAssumption
<1>4. NotGiven(Default) \in GivenRectangle /\ ~NotGiven(Default).set  BY <1>3, GivenTypes
<1>5. \A id : wide(id) \in WideModes  BY DEF WideModes
<1>. HIDE DEF t, wide
<1>6. \A id \in Ids : /\ VideoSurfaceRecord(Default, wide(id)) \in VideoRecord
                      /\ VideoSurfaceRecord(Default, wide(id)).orig = NotGiven(Default)
  BY <1>4, <1>5 DEF VideoSurfaceRecord, VideoRecord
<1>7. t \in Settings  BY <1>2, <1>6 DEF Settings
<1>8. \A a \in Here : Id(a) \in Ids  BY NameFacts
<1>9. \A a \in Here : ~Orig(t, a).set  BY <1>2, <1>4, <1>6, <1>8 DEF Orig
<1>. QED  BY <1>7, <1>9 DEF t

LEMMA EmptyFacts ==
  ASSUME NEW S, NEW T
  PROVE  <<>> \in Seq(S) /\ DOMAIN <<>> = {} /\ {} \in SUBSET T /\ 0 \in Nat
BY EmptySeq

\* Without a path, a surface shown or a size known there is nothing to be wrong about.
LEMMA BlankFacts ==
  ASSUME OutputOK, NEW d, Base(d), d.path = "", \A n \in Names : ~Shown(d.ivi, n), ~d.sts.mute,
         \A a \in Here : ~Orig(d.setting, a).set
  PROVE  Whole(d)
<1>1. /\ \A a \in Here : Surf(a) \in Names
      /\ GetBlinderID("mute") \in Names /\ (HasBackground => GetBlinderID("bg") \in Names)
  BY NameFacts, OwnFacts
<1>2. OthersHidden(d)  BY <1>1 DEF OthersHidden
<1>3. ShownAsAsked(d)  BY DEF ShownAsAsked
<1>4. BackgroundBehind(d)  BY <1>1 DEF BackgroundBehind
<1>5. NoMuteWithoutPath(d)  BY <1>1 DEF NoMuteWithoutPath
<1>6. MuteTold(d)  BY <1>1 DEF MuteTold
<1>7. VisibilityTold(d) /\ OpacityTold(d)  BY DEF VisibilityTold, OpacityTold
<1>8. VideoPlaced(d)  BY DEF VideoPlaced
<1>9. SizesGiven(d)  BY DEF SizesGiven
<1>10. OutputGiven(d) /\ CoversPlaced(d)  BY DEF OutputGiven, CoversPlaced
<1>11. ClippingTold(d) /\ OutputTold(d) /\ WideTold(d)  BY DEF ClippingTold, OutputTold, WideTold
<1>. QED
  BY <1>2, <1>3, <1>4, <1>5, <1>6, <1>7, <1>8, <1>9, <1>10, <1>11 DEF Whole, Sight, Geometry

LEMMA InitTypes ==
  ASSUME Init
  PROVE  OutputOK /\ power = "on" /\ queue = <<>> /\ lost = {} /\ used = 0 /\ (screen <=> plugged)
BY DEF Init, OutputOK

LEMMA InitRecord ==
  ASSUME Init, NEW paths, path \in paths,
         Displays = [ivi : Compositors, path : paths, setting : Settings, file : Files,
                     ctl : Controls, sts : Statuses, told : [Here -> BOOLEAN],
                     behind : SUBSET Marks, ok : BOOLEAN]
  PROVE  /\ Display \in Displays /\ Base(Display) /\ Layered(Display, screen) /\ ~sts.mute
         /\ \A n \in Names : ~Shown(ivi, n) /\ (There(ivi, n) <=> n \in Own)
         /\ \A a \in Here : ~Orig(setting, a).set
<1>1. OutputOK /\ screen \in BOOLEAN  BY InitTypes DEF OutputOK
<1>2. /\ ivi = Compositor(Own, Paths, screen) /\ file = ReadFile
      /\ setting = RegisterVideoPath([a \in Here |-> {output}], Default)
      /\ ctl = NewControl /\ sts = NewStatus(screen) /\ behind = {}
      /\ told = [a \in Here |-> a \in {"HDMI", "CAMERA"}]
  BY DEF Init
<1>3. /\ ivi \in Compositors /\ Committed(ivi) /\ Present(ivi)
      /\ \A n \in Names : ~Shown(ivi, n) /\ (There(ivi, n) <=> n \in Own)
      /\ screen => ivi.layers = ReadFile.ids
  BY <1>1, <1>2, CompositorFacts
<1>4. setting \in Settings /\ \A a \in Here : ~Orig(setting, a).set
  BY <1>1, <1>2, SettingFacts
<1>5. file \in Files /\ Ordered(file)  BY <1>2, FileFacts
<1>6. ctl \in Controls  BY <1>2 DEF NewControl, Controls, WideModes
<1>7. sts \in Statuses /\ ~sts.mute /\ (sts.display <=> screen)
  BY <1>1, <1>2, NoRectType DEF NewStatus, Statuses, WideModes
<1>8. told \in [Here -> BOOLEAN] /\ behind \in SUBSET Marks  BY <1>2
<1>10. PICK d : d = Display  OBVIOUS
<1>11. /\ d.ivi = ivi /\ d.path = path /\ d.sts = sts /\ d.file = file
       /\ d = [ivi |-> ivi, path |-> path, setting |-> setting, file |-> file, ctl |-> ctl,
               sts |-> sts, told |-> told, behind |-> behind, ok |-> TRUE]
  BY <1>10 DEF Display
<1>12. d \in Displays  BY <1>3, <1>4, <1>5, <1>6, <1>7, <1>8, <1>11
<1>13. Base(d)  BY <1>3, <1>11, <1>12 DEF Base
<1>14. Layered(d, screen)  BY <1>2, <1>3, <1>5, <1>7, <1>11 DEF Layered
<1>. QED  BY <1>3, <1>4, <1>7, <1>10, <1>12, <1>13, <1>14

LEMMA InitHolds ==
  ASSUME Init
  PROVE  Inv
<1>1. OutputOK /\ power = "on" /\ queue = <<>> /\ lost = {} /\ used = 0 /\ (screen <=> plugged)
  BY InitTypes
<1>2. path = ""  BY DEF Init
<1>3. PICK paths : paths = Here \cup {""}  OBVIOUS
<1>4. path \in paths  BY <1>2, <1>3
<1>14. Displays = [ivi : Compositors, path : paths, setting : Settings, file : Files,
                   ctl : Controls, sts : Statuses, told : [Here -> BOOLEAN],
                   behind : SUBSET Marks, ok : BOOLEAN]
  BY <1>3 DEF Displays
<1>5. /\ Display \in Displays /\ Base(Display) /\ Layered(Display, screen) /\ ~sts.mute
      /\ \A n \in Names : ~Shown(ivi, n) /\ (There(ivi, n) <=> n \in Own)
      /\ \A a \in Here : ~Orig(setting, a).set
  BY <1>4, <1>14, InitRecord
<1>6. PICK d : d = Display  OBVIOUS
<1>7. d.path = path /\ d.ivi = ivi /\ d.sts = sts /\ d.setting = setting  BY <1>6 DEF Display
<1>8. Whole(d)  BY <1>1, <1>2, <1>5, <1>6, <1>7, BlankFacts
<1>9. queue \in Seq(Events) /\ DOMAIN queue = {} /\ lost \in SUBSET Here /\ used \in Nat
  <2>1. queue = <<>> /\ lost = {} /\ used = 0  BY InitTypes
  <2>. QED  BY <2>1, EmptyFacts
<1>10. TypeOK  BY <1>1, <1>5, <1>9 DEF TypeOK, QueueOK
<1>11. Announced
  <2>1. \A a \in Here : Surf(a) \in Names /\ Surf(a) \notin Own  BY <1>1, NameFacts
  <2>2. told = [a \in Here |-> a \in {"HDMI", "CAMERA"}]  BY DEF Init
  <2>3. \A a \in Here : told[a] <=> Offered(ivi, a)  BY <1>5, <2>1, <2>2 DEF Offered
  <2>. QED  BY <2>3 DEF Announced
<1>12. Connected
  <2>1. Screened(Display)  BY <1>2, <1>6, <1>7 DEF Screened
  <2>. QED  BY <1>1, <1>9, <2>1 DEF Connected
<1>13. Asleep  BY <1>1 DEF Asleep
<1>. QED  BY <1>5, <1>6, <1>8, <1>10, <1>11, <1>12, <1>13 DEF Inv

\* Whatever the applications, the clients and the power do, and in whatever order the
\* events come, the setting, the surfaces and the published state stay in step: the
\* inductive invariant that every theorem below is read from.
THEOREM Safety == Spec => []Inv
<1>1. Init => Inv  BY InitHolds
<1>2. Inv /\ [Next]_vars => Inv'  BY NextKeeps, Stands
<1>. QED  BY <1>1, <1>2, PTL DEF Spec

-----------------------------------------------------------------------------
(* What the invariant says of the variables                                *)

\* The invariant of the record d in terms of the variables, each surface's look the one
\* that is committed.
Known(d) ==
  /\ OutputOK /\ Sight(d) /\ Geometry(d) /\ d \in Displays
  /\ \A n \in Names : /\ ivi.surface[n].now.shown <=> Shown(ivi, n)
                      /\ ivi.surface[n].now.src = Cut(ivi, n)
                      /\ ivi.surface[n].now.out = Lies(ivi, n) \/ (output = "camera" /\ n \in Own)
                      /\ ivi.surface[n].now.shown \in BOOLEAN
  /\ \A a \in Here : Vis(setting, a) \in BOOLEAN /\ Opaque(setting, a) \in BOOLEAN
  /\ d.ivi = ivi /\ d.path = path /\ d.setting = setting /\ d.sts = sts /\ d.ctl = ctl
  /\ d.behind = behind /\ d.file = file /\ d.told = told
  /\ sts \in Statuses /\ ctl \in Controls

LEMMA InvFacts ==
  ASSUME Inv, NEW d, d = Display
  PROVE  Known(d)
<1>1. /\ d.ivi = ivi /\ d.path = path /\ d.setting = setting /\ d.sts = sts /\ d.ctl = ctl
      /\ d.behind = behind /\ d.file = file /\ d.told = told
  BY DEF Display
<1>2. OutputOK /\ Sight(d) /\ Geometry(d) /\ d \in Displays /\ Committed(d.ivi)
  BY DEF Inv, TypeOK, Whole, Base
<1>3. ivi \in Compositors /\ setting \in Settings /\ sts \in Statuses /\ ctl \in Controls
  BY <1>1, <1>2, FieldsOfDisplay
<1>4. \A n \in Names : ivi.surface[n].now.shown \in BOOLEAN
  BY <1>3 DEF Compositors, Surface, Look
<1>5. \A n \in Names : /\ ivi.surface[n].now.shown <=> Shown(ivi, n)
                       /\ ivi.surface[n].now.src = Cut(ivi, n)
                       /\ ivi.surface[n].now.out = Lies(ivi, n) \/ (output = "camera" /\ n \in Own)
  BY <1>1, <1>2 DEF Committed, Shown, Cut, Lies
<1>6. \A a \in Here : Vis(setting, a) \in BOOLEAN /\ Opaque(setting, a) \in BOOLEAN
  BY <1>2, <1>3, FieldTypes
<1>. QED  BY <1>1, <1>2, <1>3, <1>4, <1>5, <1>6 DEF Known

LEMMA PathFacts ==
  ASSUME Inv, path # ""
  PROVE  path \in Here
<1>1. PICK d : d = Display  OBVIOUS
<1>2. d \in Displays /\ d.path = path  BY <1>1, InvFacts DEF Known
<1>. QED  BY <1>2, FieldsOfDisplay

LEMMA PictureFacts ==
  ASSUME NEW a
  PROVE  Pictures(a) = PicturesOf(setting, a)
<1>1. Id(a)[2] = output  BY DEF Id, GetVideoPathIdentifier
<1>. QED
  BY <1>1 DEF Pictures, PicturesOf, GetVideoWideRectangle, WideOf, Out, Clip, ClipOn

\* The properties of the current path, when there is one.
LEMMA SettledShows ==
  ASSUME Inv, NEW p \in Here, path = p, Settled(p)
  PROVE  /\ Video(p).now.shown = setting[Id(p)].vis
         /\ "rect" \notin behind =>
              [src |-> Video(p).now.src, dest |-> Video(p).now.out] \in Pictures(p)
<1>1. PICK d : d = Display  OBVIOUS
<1>2. Known(d)  BY <1>1, InvFacts
<1>. USE DEF Known
<1>3. Surf(p) \in Names /\ Surf(p) \notin Own  BY <1>2, NameFacts
<1>4. Video(p) = ivi.surface[Surf(p)]  BY DEF Video, Surf
<1>5. Heard(ivi, Surf(p)) /\ Orig(setting, p).set  BY <1>4 DEF Settled, Heard, Orig
<1>6. Shown(ivi, Surf(p)) <=> Vis(setting, p)
  <2>1. p # ""  BY <1>2, NameFacts
  <2>. QED  BY <1>2, <1>5, <2>1 DEF Sight, ShownAsAsked
<1>7. (Video(p).now.shown <=> setting[Id(p)].vis) /\ setting[Id(p)].vis \in BOOLEAN
      /\ Video(p).now.shown \in BOOLEAN
  BY <1>2, <1>3, <1>4, <1>6 DEF Vis
<1>8. ASSUME "rect" \notin behind
      PROVE  [src |-> Video(p).now.src, dest |-> Video(p).now.out] \in Pictures(p)
  <2>1. [src |-> Cut(ivi, Surf(p)), dest |-> Lies(ivi, Surf(p))] \in PicturesOf(setting, p)
    BY <1>2, <1>5, <1>8 DEF Geometry, VideoPlaced
  <2>2. Video(p).now.src = Cut(ivi, Surf(p)) /\ Video(p).now.out = Lies(ivi, Surf(p))
    BY <1>2, <1>3, <1>4
  <2>. QED  BY <2>1, <2>2, PictureFacts
<1>. QED  BY <1>7, <1>8

LEMMA CoversFollow ==
  ASSUME Inv, NEW p \in Here, path = p, "place" \notin behind, NEW kind \in Followers
  PROVE  BlindRectangle(Display, p) =
           IF output = "camera" THEN ivi.surface[GetBlinderID(kind)].next.out ELSE Blinder(kind).out
<1>1. PICK d : d = Display  OBVIOUS
<1>2. Known(d)  BY <1>1, InvFacts
<1>. USE DEF Known
<1>3. BlindRectangle(d, p) = Blind(setting, p)  BY <1>2, RectangleFacts
<1>4. GetBlinderID(kind) \in Names  BY <1>2, OwnFacts
<1>5. Lies(ivi, GetBlinderID(kind)) = Blind(setting, p)
  <2>1. p # ""  BY <1>2, NameFacts
  <2>. QED  BY <1>2, <2>1 DEF Geometry, CoversPlaced
<1>. QED  BY <1>1, <1>2, <1>3, <1>4, <1>5 DEF Lies, Blinder, Now

LEMMA PathTold ==
  ASSUME Inv, NEW p \in Here, path = p
  PROVE  LET s == setting[Id(p)]
         IN /\ "visible" \notin behind /\ output # "camera" =>
                 sts.visible = s.vis /\ ctl.visible = sts.visible
            /\ "opacity" \notin behind /\ output # "camera" => sts.opaque = s.opaque
            /\ HasClipping /\ "clip" \notin behind => sts.clipOn = s.clipOn
            /\ "out" \notin behind => sts.out = GetDestRectangleCommon(Display, p)
            /\ HasWide => sts.wide = s.wide
<1>1. PICK d : d = Display  OBVIOUS
<1>2. Known(d)  BY <1>1, InvFacts
<1>. USE DEF Known
<1>3. p # ""  BY <1>2, NameFacts
<1>4. GetDestRectangleCommon(d, p) = Dest(setting, p)  BY <1>2, RectangleFacts
<1>5. sts.visible \in BOOLEAN /\ sts.opaque \in BOOLEAN /\ sts.clipOn \in BOOLEAN /\ ctl.visible \in BOOLEAN
  BY <1>2 DEF Statuses, Controls
<1>6. ClipOn(setting, p) \in BOOLEAN  BY <1>2, FieldsOfDisplay, FieldTypes
<1>7. ASSUME "visible" \notin behind, output # "camera"
      PROVE  sts.visible = setting[Id(p)].vis /\ ctl.visible = sts.visible
  <2>1. (sts.visible <=> Vis(setting, p)) /\ (ctl.visible <=> Vis(setting, p))
    BY <1>2, <1>3, <1>7 DEF Sight, VisibilityTold
  <2>2. sts.visible = Vis(setting, p) /\ ctl.visible = Vis(setting, p)  BY <1>2, <1>5, <2>1
  <2>. QED  BY <2>2 DEF Vis
<1>8. ASSUME "opacity" \notin behind, output # "camera"  PROVE sts.opaque = setting[Id(p)].opaque
  <2>1. sts.opaque <=> Opaque(setting, p)  BY <1>2, <1>3, <1>8 DEF Sight, OpacityTold
  <2>2. sts.opaque = Opaque(setting, p)  BY <1>2, <1>5, <2>1
  <2>. QED  BY <2>2 DEF Opaque
<1>9. ASSUME HasClipping, "clip" \notin behind  PROVE sts.clipOn = setting[Id(p)].clipOn
  <2>1. sts.clipOn <=> ClipOn(setting, p)  BY <1>2, <1>3, <1>9 DEF Geometry, ClippingTold
  <2>2. sts.clipOn = ClipOn(setting, p)  BY <1>5, <1>6, <2>1
  <2>. QED  BY <2>2 DEF ClipOn
<1>10. "out" \notin behind => sts.out = GetDestRectangleCommon(Display, p)
  BY <1>1, <1>2, <1>3, <1>4 DEF Geometry, OutputTold
<1>11. HasWide => sts.wide = setting[Id(p)].wide
  BY <1>2, <1>3 DEF Geometry, WideTold, WideOf
<1>. QED  BY <1>7, <1>8, <1>9, <1>10, <1>11

LEMMA VideoFacts ==
  ASSUME OutputOK, NEW a \in Here
  PROVE  Video(a) = ivi.surface[Surf(a)] /\ Surf(a) \in Names
BY NameFacts DEF Video, Surf

LEMMA PathsHidden ==
  ASSUME Inv
  PROVE  OnlyTheCurrentPathShows
<1>1. PICK d : d = Display  OBVIOUS
<1>2. Known(d)  BY <1>1, InvFacts
<1>. USE DEF Known
<1>3. ASSUME NEW a \in Here, Video(a).now.shown, Initial[a] = "invisible"
      PROVE  a = path /\ power # "off"
  <2>1. Shown(ivi, Surf(a))  BY <1>2, <1>3, VideoFacts
  <2>2. a = path  BY <1>2, <1>3, <2>1 DEF Sight, OthersHidden
  <2>3. power # "off"
    <3>1. Asleep  BY DEF Inv
    <3>. QED  BY <1>3, <2>1, <3>1 DEF Asleep
  <2>. QED  BY <2>2, <2>3
<1>4. ASSUME power = "off", output # "camera", output = "front" \/ sts.display
      PROVE  Now(DisplayMute).shown
  <2>1. output \in {"front", "rear", "ic", "camera"}  BY <1>2, NameFacts
  <2>2. DisplayMute \in Names  BY <1>2, <1>4, OwnFacts DEF Names
  <2>3. Asleep  BY DEF Inv
  <2>4. Shown(ivi, DisplayMute)  BY <1>4, <2>1, <2>3 DEF Asleep
  <2>. QED  BY <1>2, <2>2, <2>4 DEF Now
<1>. QED  BY <1>3, <1>4 DEF OnlyTheCurrentPathShows

LEMMA SurfaceSet ==
  ASSUME Inv
  PROVE  SurfaceAsSet
<1>1. ASSUME path # "", Settled(path)
      PROVE  LET now == Video(path).now
             IN /\ now.shown = setting[Id(path)].vis
                /\ "rect" \notin behind => [src |-> now.src, dest |-> now.out] \in Pictures(path)
  <2>1. path \in Here  BY <1>1, PathFacts
  <2>. QED  BY <1>1, <2>1, SettledShows
<1>. QED  BY <1>1 DEF SurfaceAsSet

LEMMA PlanesFollow ==
  ASSUME Inv
  PROVE  PlanesFollowTheVideo
<1>1. PICK d : d = Display  OBVIOUS
<1>2. Known(d)  BY <1>1, InvFacts
<1>. USE DEF Known
<1>3. ASSUME HasBackground, "bg" \notin behind
      PROVE  Blinder("bg").shown = (path # "" /\ setting[Id(path)].vis /\ setting[Id(path)].opaque)
  <2>1. GetBlinderID("bg") \in Names  BY <1>2, <1>3, OwnFacts DEF Names
  <2>2. Blinder("bg").shown <=> Shown(ivi, GetBlinderID("bg"))  BY <1>2, <2>1 DEF Blinder, Now
  <2>3. Blinder("bg").shown \in BOOLEAN  BY <1>2, <2>1 DEF Blinder, Now
  <2>4. Shown(ivi, GetBlinderID("bg")) <=>
          path # "" /\ Vis(setting, path) /\ Opaque(setting, path)
    BY <1>2, <1>3 DEF Sight, BackgroundBehind
  <2>5. Blinder("bg").shown <=> (path # "" /\ setting[Id(path)].vis /\ setting[Id(path)].opaque)
    BY <2>2, <2>4 DEF Vis, Opaque
  <2>. QED  BY <2>3, <2>5
<1>4. ASSUME path # "", "place" \notin behind, NEW kind \in Followers
      PROVE  BlindRectangle(Display, path) =
               IF output = "camera" THEN ivi.surface[GetBlinderID(kind)].next.out ELSE Blinder(kind).out
  <2>1. path \in Here  BY <1>4, PathFacts
  <2>. QED  BY <1>4, <2>1, CoversFollow
<1>. QED  BY <1>3, <1>4 DEF PlanesFollowTheVideo

LEMMA QueueTold ==
  ASSUME Inv, NEW a \in Here \ lost
  PROVE  Pending(a) \/ told[a] = IsValidVideoPathAvailable(Display, a)
<1>1. PICK d : d = Display  OBVIOUS
<1>2. OutputOK /\ d \in Displays /\ d.told = told /\ d.ivi = ivi  BY <1>1, InvFacts DEF Known
<1>3. a \in Here /\ GetVideoPathFromSurfaceName(Surf(a)) = a  BY <1>2, NameFacts
<1>4. Announced  BY DEF Inv
<1>5. \/ \E i \in DOMAIN queue : queue[i].name = Surf(a)
      \/ told[a] <=> Offered(ivi, a)
  BY <1>4 DEF Announced
<1>6. CASE \E i \in DOMAIN queue : queue[i].name = Surf(a)
  BY <1>3, <1>6 DEF Pending, About
<1>7. CASE told[a] <=> Offered(ivi, a)
  <2>1. told[a] \in BOOLEAN
    <3>1. d.told \in [Here -> BOOLEAN]  BY <1>2, FieldsOfDisplay
    <3>. QED  BY <1>2, <1>3, <3>1
  <2>2. IsValidVideoPathAvailable(d, a) <=> Offered(ivi, a)  BY <1>2, <1>3, OfferedFacts
  <2>3. IsValidVideoPathAvailable(d, a) \in BOOLEAN  BY DEF IsValidVideoPathAvailable
  <2>4. told[a] = IsValidVideoPathAvailable(d, a)  BY <1>7, <2>1, <2>2, <2>3
  <2>. QED  BY <1>1, <2>4
<1>. QED  BY <1>5, <1>6, <1>7

LEMMA StatusTold ==
  ASSUME Inv
  PROVE  StatusFollows
<1>1. PICK d : d = Display  OBVIOUS
<1>2. Known(d)  BY <1>1, InvFacts
<1>. USE DEF Known
<1>3. ASSUME path # ""
      PROVE  LET s == setting[Id(path)]
             IN /\ "visible" \notin behind /\ output # "camera" =>
                     sts.visible = s.vis /\ ctl.visible = sts.visible
                /\ "opacity" \notin behind /\ output # "camera" => sts.opaque = s.opaque
                /\ HasClipping /\ "clip" \notin behind => sts.clipOn = s.clipOn
                /\ "out" \notin behind => sts.out = GetDestRectangleCommon(Display, path)
                /\ HasWide => sts.wide = s.wide
  <2>1. path \in Here  BY <1>3, PathFacts
  <2>. QED  BY <2>1, PathTold
<1>4. ASSUME HasWide, "muted" \notin behind  PROVE sts.mute = Blinder("mute").shown
  <2>1. GetBlinderID("mute") \in Names  BY <1>2, OwnFacts DEF Names
  <2>2. sts.mute \in BOOLEAN /\ Blinder("mute").shown \in BOOLEAN
    BY <1>2, <2>1 DEF Statuses, Blinder, Now
  <2>3. sts.mute <=> Shown(ivi, GetBlinderID("mute"))  BY <1>2, <1>4 DEF Sight, MuteTold
  <2>4. Blinder("mute").shown <=> Shown(ivi, GetBlinderID("mute"))  BY <1>2, <2>1 DEF Blinder, Now
  <2>. QED  BY <2>2, <2>3, <2>4
<1>5. Layered(d, screen)  BY <1>1 DEF Inv
<1>6. sts.display = screen
  <2>1. sts.display \in BOOLEAN /\ screen \in BOOLEAN  BY <1>2 DEF Statuses, OutputOK
  <2>2. sts.display <=> screen  BY <1>2, <1>5 DEF Layered
  <2>. QED  BY <2>1, <2>2
<1>7. ASSUME screen
      PROVE  /\ ivi.layers = file.ids
             /\ \A i, j \in DOMAIN file.ids :
                  i < j => GetIviLayerOrder(file.ids[i]) <= GetIviLayerOrder(file.ids[j])
  BY <1>2, <1>5, <1>7 DEF Layered, Ordered, GetIviLayerOrder
<1>. QED  BY <1>3, <1>4, <1>6, <1>7, QueueTold DEF StatusFollows

-----------------------------------------------------------------------------
(* What every state of the display satisfies: each is Inv's in every state. *)

\* The output's variables stay in the sets that the class's members range over.
THEOREM TypeCorrectness == Spec => []TypeOK
<1>1. Inv => TypeOK  BY DEF Inv
<1>. QED  BY <1>1, Safety, PTL

\* No event of another path's surface, late or repeated, puts it over the current
\* path's, none shows while the system is suspended, and the display's mute covers it.
THEOREM CurrentPathShows == Spec => []OnlyTheCurrentPathShows
BY PathsHidden, Safety, PTL

\* The surface of the current path, once it has settled, is shown as the last request
\* asked and where the wide mode puts it, whichever came first, surface or request.
THEOREM AsSet == Spec => []SurfaceAsSet
BY SurfaceSet, Safety, PTL

\* The background is behind a visible, opaque video exactly, and the manager's own
\* surfaces lie over the video's rectangle, but for what the handlers leave behind.
THEOREM PlanesFollowing == Spec => []PlanesFollowTheVideo
BY PlanesFollow, Safety, PTL

\* What the properties publish is what is set, shown and laid out.
THEOREM StatusFollowing == Spec => []StatusFollows
BY StatusTold, Safety, PTL

=============================================================================
