---------------------------- MODULE PictureProofs ----------------------------
(***************************************************************************)
(* PictureQuality for any adjustments, modes, paths and bounds: what the   *)
(* item and its copy have to do with the records, the layout and the       *)
(* published properties, and the mute surface with the requests.           *)
(***************************************************************************)
EXTENDS PictureQuality, TLAPS

Places == {"hmi", "multi", "own"}
Item ==
  [src : Sources, steps : [Places -> Levels], light : BOOLEAN, mute : BOOLEAN,
   dayNight : DayNights, theme : Themes, forceHmi : BOOLEAN, forceMulti : BOOLEAN,
   front : FrontPaths, camera : CameraPaths]
\* What the steps leave alone.
Kept(to, item) ==
  /\ to.src = item.src /\ to.light = item.light /\ to.mute = item.mute
  /\ to.dayNight = item.dayNight /\ to.theme = item.theme
  /\ to.forceHmi = item.forceHmi /\ to.forceMulti = item.forceMulti
  /\ to.front = item.front /\ to.camera = item.camera
SameFlags(to, item) ==
  /\ to.light = item.light /\ to.mute = item.mute
  /\ to.forceHmi = item.forceHmi /\ to.forceMulti = item.forceMulti
Manager ==
  [vsrc : Sources, vpath : Sources, dayNight : DayNights, theme : Themes,
   front : FrontPaths, camera : CameraPaths]
SameModes(n, m) == n.vsrc = m.vsrc /\ n.dayNight = m.dayNight /\ n.theme = m.theme
Status ==
  [mute : BOOLEAN, light : BOOLEAN, steps : Levels, dayNight : DayNights, theme : Themes,
   forceHmi : BOOLEAN, forceMulti : BOOLEAN]

Database(d) == DOMAIN d = Sources /\ \A v \in Sources : d[v] \in [Modes(v) -> Levels]

QualityTyped ==
  /\ Database(db) /\ mng \in Manager /\ reserve \in Item /\ current \in Item
  /\ sts \in Status /\ sending \in BOOLEAN /\ covered \in BOOLEAN /\ failed \in BOOLEAN
  /\ held \in BOOLEAN /\ linkUp \in BOOLEAN /\ built \in BOOLEAN /\ asleep \in BOOLEAN
  /\ layout \in [front : FrontPaths, camera : CameraPaths]
  /\ adjust.phase \in {"none", "record", "write", "link", "save"}
  /\ adjust.levels \in Levels
  /\ adjust.phase # "none" => adjust.kind \in Kinds
  /\ adjust.phase \in {"write", "link"} => adjust.record \in [Modes(mng.vsrc) -> Levels]
  /\ DOMAIN adjust = {"phase", "kind", "step", "levels", "record"}
  /\ clear \in [phase : {"none", "write", "save", "apply"}, done : Nat, levels : Levels]

\* The item shows the source that the manager does.
Match(m, item) ==
  /\ item.src = m.vpath /\ item.camera = m.camera
  /\ item.dayNight = m.dayNight /\ item.theme = m.theme
  /\ m.camera = "CAMERA" => m.vpath = "CAM"
  /\ m.vpath # "MULTISENSORY"

\* Manager, item and published properties agree.
Agree ==
  /\ Match(mng, reserve)
  /\ sts.dayNight = mng.dayNight /\ sts.theme = mng.theme
  /\ sts.mute = reserve.mute /\ sts.light = reserve.light
  /\ sts.forceHmi = reserve.forceHmi /\ sts.forceMulti = reserve.forceMulti

\* So do they and the layout, but for what a suspend could not clear and what the
\* camera has left behind.
Shown ==
  /\ "camera" \notin behind => mng.camera = layout.camera
  /\ mng.camera = "CAMERA" => "path" \notin behind
  /\ mng.camera = "" /\ "path" \notin behind /\ "front" \notin behind =>
       reserve.front = layout.front /\ reserve.src = SourceOf(layout.front)

\* The item's steps are those of the records.
ThemeFresh(d, m, item) ==
  item.steps["hmi"] = d["OTHER"][m.theme] /\ item.steps["multi"] = d["MULTISENSORY"][m.theme]
OwnFresh(d, m, item) ==
  m.vpath \in DaySources => item.steps["own"] = d[m.vpath][m.dayNight]

\* They are but for the step that is being changed.
Others(steps) == \A k \in Kinds \ {adjust.kind} : steps[k] = adjust.levels[k]
Selected == db[mng.vsrc][ModeOf(mng, mng.vsrc)]
Nearly(v, place) ==
  IF v = mng.vsrc
  THEN Stored(db, mng, v) = adjust.levels /\ Others(reserve.steps[place])
  ELSE reserve.steps[place] = Stored(db, mng, v)

\* How far the copies lag, by the state of a request to change a step.
Fresh ==
  /\ "theme" \notin behind => ThemeFresh(db, mng, reserve)
  /\ "own" \notin behind => OwnFresh(db, mng, reserve)
Changing ==
  {"theme", "own"} \subseteq behind \/ Others(Selected)
Writing ==
  {"theme", "own"} \subseteq behind
    \/ adjust.record = [db[mng.vsrc] EXCEPT ![ModeOf(mng, mng.vsrc)] = adjust.levels]
Written ==
  /\ "theme" \notin behind => Nearly("OTHER", "hmi") /\ Nearly("MULTISENSORY", "multi")
  /\ "own" \notin behind /\ mng.vpath \in DaySources \ Linked(mng.vsrc) => Nearly(mng.vpath, "own")

FreshInv ==
  clear.phase = "none" =>
    /\ adjust.phase \in {"none", "record", "write"} => Fresh
    /\ adjust.phase \in {"record", "write"} => Changing
    /\ adjust.phase = "write" => Writing
    /\ adjust.phase \in {"link", "save"} => Written

\* What is sent is what the item says.
SentInv ==
  ~asleep /\ clear.phase = "none" /\ behind = {} => sending /\ Build(current) = Build(reserve)

QualityInv == QualityTyped /\ Agree /\ Shown /\ FreshInv /\ SentInv

-----------------------------------------------------------------------------
(* The manager and the item                                                *)

\* The shown source is one, and never MULTISENSORY.
LEMMA SourceFacts ==
  /\ SourceOf("") = "OTHER" /\ SourceOf("CAMERA") = "CAM"
  /\ \A path : SourceOf(path) \in Sources \ {"MULTISENSORY"}
BY DEF SourceOf, PathSources, Sources, ThemeSources, DaySources

\* What is stored for a source is a step of every kind.
LEMMA StoredType ==
  ASSUME NEW d, Database(d), NEW m \in Manager, NEW v \in Sources
  PROVE  Stored(d, m, v) \in Levels
BY DEF Database, Manager, Stored, ModeOf, Modes

\* Setting steps changes the place of the source, and of it the given kinds.
LEMMA StepsFacts ==
  ASSUME NEW item \in Item, NEW v \in Sources, NEW kinds, NEW levels \in Levels,
         NEW to, to = SetSteps(item, v, kinds, levels)
  PROVE  /\ to \in Item
         /\ Kept(to, item)
         /\ \A place \in Places :
              /\ place # Place(item, v) => to.steps[place] = item.steps[place]
              /\ \A k \in Kinds :
                   to.steps[place][k] = IF place = Place(item, v) /\ k \in kinds
                                        THEN levels[k] ELSE item.steps[place][k]
<1> DEFINE new == [k \in Kinds |-> IF k \in kinds THEN levels[k]
                                   ELSE item.steps[Place(item, v)][k]]
<1>1. Place(item, v) \in Places \cup {"none"}
  BY DEF Place, Places
<1>2. CASE Place(item, v) = "none"
  BY <1>2 DEF SetSteps, Places, Kept
<1>3. CASE Place(item, v) \in Places
  <2>1. new \in Levels
    BY <1>3 DEF Levels, Item
  <2>2. to
          = [item EXCEPT !.steps = [item.steps EXCEPT ![Place(item, v)] = new]]
    BY <1>3 DEF SetSteps, Places, Item
  <2>3. [item.steps EXCEPT ![Place(item, v)] = new] \in [Places -> Levels]
    BY <1>3, <2>1 DEF Item
  <2> HIDE DEF new
  <2>4. to \in Item
    BY <2>2, <2>3 DEF Item
  <2>5. Kept(to, item)
    BY <2>2 DEF Item, Kept
  <2>6. to.steps = [item.steps EXCEPT ![Place(item, v)] = new]
    BY <2>2 DEF Item
  <2>7. \A place \in Places :
          to.steps[place]
            = IF place = Place(item, v) THEN new ELSE item.steps[place]
    BY <2>6 DEF Item
  <2>8. \A k \in Kinds : new[k] = IF k \in kinds THEN levels[k] ELSE item.steps[Place(item, v)][k]
    BY DEF new
  <2> QED
    BY <2>4, <2>5, <2>7, <2>8
<1> QED
  BY <1>1, <1>2, <1>3

\* With all kinds the place takes the levels as they are.
LEMMA WholeSteps ==
  ASSUME NEW item \in Item, NEW v \in Sources, NEW levels \in Levels,
         NEW to, to = SetSteps(item, v, Kinds, levels)
  PROVE  /\ to \in Item
         /\ Kept(to, item)
         /\ \A place \in Places :
              to.steps[place] = IF place = Place(item, v) THEN levels ELSE item.steps[place]
<1>1. Kinds \subseteq Kinds
  OBVIOUS
<1>2. to \in Item /\ Kept(to, item)
  BY <1>1, StepsFacts
<1>3. ASSUME NEW place \in Places
      PROVE  /\ place # Place(item, v) => to.steps[place] = item.steps[place]
             /\ place = Place(item, v) => \A k \in Kinds : to.steps[place][k] = levels[k]
  BY <1>1, StepsFacts
<1>4. ASSUME NEW place \in Places, place = Place(item, v)
      PROVE  to.steps[place] = levels
  <2>1. to.steps[place] \in [Kinds -> Steps]
    BY <1>2 DEF Item, Levels
  <2> QED
    BY <1>3, <1>4, <2>1 DEF Levels
<1> QED
  BY <1>2, <1>3, <1>4

-----------------------------------------------------------------------------
(* A path is shown                                                         *)

\* The source that is shown takes its stored steps, and leaves the themes' alone.
LEMMA ShowFacts ==
  ASSUME NEW d, Database(d), NEW m \in Manager, NEW item \in Item, item.src = m.vpath,
         item.dayNight = m.dayNight, item.theme = m.theme, m.vpath # "MULTISENSORY",
         NEW to, to = ShowSource(d, m, item)
  PROVE  /\ to \in Item
         /\ Kept(to, item)
         /\ OwnFresh(d, m, to)
         /\ ThemeFresh(d, m, item) => ThemeFresh(d, m, to)
<1>1. m.vpath \in Sources /\ Stored(d, m, m.vpath) \in Levels
  BY StoredType DEF Manager
<1>2. /\ to \in Item
      /\ Kept(to, item)
      /\ \A place \in Places :
           to.steps[place] = IF place = Place(item, m.vpath) THEN Stored(d, m, m.vpath)
                             ELSE item.steps[place]
  BY <1>1, WholeSteps DEF ShowSource
<1>3. to.steps["own"] = IF m.vpath \in DaySources THEN Stored(d, m, m.vpath) ELSE item.steps["own"]
  BY <1>1, <1>2 DEF Places, Place, Sources, DaySources, ThemeSources
<1>4. /\ to.steps["hmi"] = IF m.vpath = "OTHER" THEN Stored(d, m, "OTHER") ELSE item.steps["hmi"]
      /\ to.steps["multi"] = item.steps["multi"]
  BY <1>1, <1>2 DEF Places, Place, Sources, DaySources, ThemeSources
<1>5. OwnFresh(d, m, to)
  BY <1>3 DEF OwnFresh, Stored, ModeOf, DaySources, ThemeSources
<1>6. ThemeFresh(d, m, item) => ThemeFresh(d, m, to)
  BY <1>4 DEF ThemeFresh, Stored, ModeOf, ThemeSources
<1> QED
  BY <1>2, <1>5, <1>6

\* What SetFrontPath and SetCameraPath do to the manager m in p.
FrontSet(p, m, path) ==
  /\ p.mng.front = path /\ p.mng.camera = m.camera /\ p.set = (m.camera = "")
  /\ m.camera = "" => p.item.front = path /\ p.item.src = SourceOf(path)
CameraSet(p, m, item, path) ==
  /\ p.mng.front = m.front /\ p.mng.camera = path
  /\ p.item.front = item.front /\ p.item.src = SourceOf(path)

\* SetFrontPath keeps item and manager in agreement, with the camera and without it.
LEMMA FrontFacts ==
  ASSUME NEW d, Database(d), NEW m \in Manager, NEW item \in Item,
         Match(m, item), NEW q, q.mng = m, q.item = item, NEW path \in FrontPaths,
         NEW p, p = SetFrontPath(d, q, path)
  PROVE  /\ p.mng \in Manager /\ p.item \in Item /\ Match(p.mng, p.item)
         /\ FrontSet(p, m, path)
         /\ SameModes(p.mng, m)
         /\ SameFlags(p.item, item)
         /\ m.camera = "" => OwnFresh(d, p.mng, p.item)
         /\ ThemeFresh(d, m, item) => ThemeFresh(d, p.mng, p.item)
<1>0. item.camera = m.camera /\ item.dayNight = m.dayNight /\ item.theme = m.theme
  BY DEF Match
<1>1. CASE m.camera # ""
  <2>1. [m EXCEPT !.front = path] \in Manager
    BY DEF Manager
  <2> QED
    BY <1>1, <2>1 DEF SetFrontPath, Manager, Match, ThemeFresh, SameFlags, SameModes, FrontSet
<1>2. CASE m.camera = ""
  <2> DEFINE n == [m EXCEPT !.front = path, !.vpath = SourceOf(path)]
          base == [item EXCEPT !.front = path, !.src = SourceOf(path)]
          to == ShowSource(d, n, base)
  <2>1. n \in Manager /\ n.vpath # "MULTISENSORY"
    BY SourceFacts DEF Manager
  <2>2. base \in Item
    BY SourceFacts DEF Item
  <2>3. base.src = n.vpath /\ base.dayNight = n.dayNight /\ base.theme = n.theme
    BY <1>0 DEF Manager, Item
  <2>4. /\ to \in Item /\ Kept(to, base)
        /\ OwnFresh(d, n, to) /\ (ThemeFresh(d, n, base) => ThemeFresh(d, n, to))
    <3>1. to = ShowSource(d, n, base)
      OBVIOUS
    <3> HIDE DEF n, base, to
    <3> QED
      BY <2>1, <2>2, <2>3, <3>1, ShowFacts
  <2>5. ThemeFresh(d, m, item) => ThemeFresh(d, n, base)
    BY DEF ThemeFresh, Manager, Item
  <2>6. /\ n.front = path /\ n.camera = "" /\ n.vpath = SourceOf(path)
        /\ SameModes(n, m)
        /\ base.front = path /\ base.src = SourceOf(path) /\ base.camera = ""
        /\ base.dayNight = n.dayNight /\ base.theme = n.theme
        /\ SameFlags(base, item)
    BY <1>0, <1>2, <2>3 DEF Manager, Item, SameFlags, SameModes
  <2>7. p.mng = n /\ p.item = to /\ p.set = TRUE
    BY <1>2 DEF SetFrontPath
  <2> HIDE DEF n, base, to
  <2>8. /\ to.front = path /\ to.src = SourceOf(path) /\ to.camera = ""
        /\ to.dayNight = n.dayNight /\ to.theme = n.theme
        /\ SameFlags(to, item)
    BY <2>4, <2>6 DEF Kept, SameFlags
  <2>9. Match(n, to)
    BY <2>1, <2>6, <2>8 DEF Match
  <2>10. p.mng \in Manager /\ p.item \in Item /\ Match(p.mng, p.item)
    BY <2>1, <2>4, <2>7, <2>9
  <2>11. OwnFresh(d, p.mng, p.item) /\ (ThemeFresh(d, m, item) => ThemeFresh(d, p.mng, p.item))
    BY <2>4, <2>5, <2>7
  <2> QED
    BY <1>2, <2>6, <2>7, <2>8, <2>10, <2>11 DEF FrontSet
<1> QED
  BY <1>1, <1>2

\* So does SetCameraPath, to the camera or, once the front path is empty, from it.
LEMMA CameraFacts ==
  ASSUME NEW d, Database(d), NEW m \in Manager, NEW item \in Item,
         item.dayNight = m.dayNight, item.theme = m.theme,
         NEW q, q.mng = m, q.item = item,
         NEW path \in CameraPaths, path = "" => m.front = "",
         NEW p, p = SetCameraPath(d, q, path)
  PROVE  /\ p.mng \in Manager /\ p.item \in Item /\ Match(p.mng, p.item)
         /\ CameraSet(p, m, item, path)
         /\ SameModes(p.mng, m)
         /\ SameFlags(p.item, item)
         /\ OwnFresh(d, p.mng, p.item)
         /\ ThemeFresh(d, m, item) => ThemeFresh(d, p.mng, p.item)
<1> DEFINE n == [m EXCEPT !.camera = path, !.vpath = SourceOf(path)]
           base == [item EXCEPT !.camera = path, !.src = SourceOf(path)]
           to == ShowSource(d, n, base)
<1>1. n \in Manager /\ n.vpath # "MULTISENSORY"
  BY SourceFacts DEF Manager
<1>2. base \in Item
  BY SourceFacts DEF Item
<1>3. base.src = n.vpath /\ base.dayNight = n.dayNight /\ base.theme = n.theme
  BY DEF Manager, Item
<1>4. /\ to \in Item /\ Kept(to, base)
      /\ OwnFresh(d, n, to) /\ (ThemeFresh(d, n, base) => ThemeFresh(d, n, to))
  <2>1. to = ShowSource(d, n, base)
    OBVIOUS
  <2> HIDE DEF n, base, to
  <2> QED
    BY <1>1, <1>2, <1>3, <2>1, ShowFacts
<1>5. ThemeFresh(d, m, item) => ThemeFresh(d, n, base)
  BY DEF ThemeFresh, Manager, Item
<1>6. /\ n.front = m.front /\ n.camera = path /\ n.vpath = SourceOf(path)
      /\ SameModes(n, m)
      /\ base.src = SourceOf(path) /\ base.camera = path
      /\ base.dayNight = n.dayNight /\ base.theme = n.theme
      /\ SameFlags(base, item) /\ base.front = item.front
  BY <1>3 DEF Manager, Item, SameFlags, SameModes
<1>7. p.mng = n /\ p.item = to
  BY DEF SetCameraPath, Manager
<1> HIDE DEF n, base, to
<1>8. /\ to.src = SourceOf(path) /\ to.camera = path
      /\ to.dayNight = n.dayNight /\ to.theme = n.theme
      /\ SameFlags(to, item) /\ to.front = item.front
  BY <1>4, <1>6 DEF Kept, SameFlags
<1>9. Match(n, to)
  BY <1>1, <1>6, <1>8, SourceFacts DEF Match
<1>10. p.mng \in Manager /\ p.item \in Item /\ Match(p.mng, p.item)
  BY <1>1, <1>4, <1>7, <1>9
<1>11. OwnFresh(d, p.mng, p.item) /\ (ThemeFresh(d, m, item) => ThemeFresh(d, p.mng, p.item))
  BY <1>4, <1>5, <1>7
<1> QED
  BY <1>6, <1>7, <1>8, <1>10, <1>11 DEF CameraSet

-----------------------------------------------------------------------------
(* Types and the beginning                                                 *)

\* The backup's steps are in the records and in the item alike.
LEMMA QualityInitial == Init => QualityInv
<1> SUFFICES ASSUME Init PROVE QualityInv
  OBVIOUS
<1>1. PICK file \in Steps, sent \in BOOLEAN :
        /\ db = LoadColorRecord(CreateColorStep, file)
        /\ reserve = [NewItem EXCEPT !.steps["hmi"] = [k \in Kinds |-> file]]
        /\ sending = sent
        /\ sts = [NewStatus EXCEPT !.steps = [k \in Kinds |-> file]]
        /\ behind = IF sent THEN {} ELSE {"unsent"}
  BY DEF Init
<1>2. InitLevels \in Levels /\ [k \in Kinds |-> file] \in Levels
  BY PictureAssumption DEF InitLevels, Levels
<1>3. Database(db)
  BY <1>1, <1>2 DEF Database, LoadColorRecord, CreateColorStep
<1>4. NewManager \in Manager /\ mng = NewManager
  BY PictureAssumption DEF Init, NewManager, Manager, Sources, ThemeSources, CameraPaths
<1>5. /\ reserve = [NewItem EXCEPT !.steps = [NewItem.steps EXCEPT !["hmi"] = [k \in Kinds |-> file]]]
      /\ NewItem.steps = [place \in Places |-> InitLevels]
  BY <1>1 DEF NewItem, Places
<1>6. reserve.steps \in [Places -> Levels] /\ reserve.steps["hmi"] = [k \in Kinds |-> file]
      /\ reserve.steps["multi"] = InitLevels
  BY <1>2, <1>5 DEF NewItem, Places
<1>7. /\ reserve \in Item
      /\ reserve.src = "OTHER" /\ reserve.camera = "" /\ reserve.front = ""
      /\ reserve.dayNight = Night /\ reserve.theme = AutoDark
      /\ reserve.light = TRUE /\ reserve.mute = TRUE
      /\ reserve.forceHmi = FALSE /\ reserve.forceMulti = FALSE
  BY <1>5, <1>6, PictureAssumption DEF NewItem, Item, Sources, ThemeSources, CameraPaths
<1>8. /\ sts \in Status /\ sts.dayNight = Night /\ sts.theme = AutoDark
      /\ sts.light = TRUE /\ sts.mute = TRUE /\ sts.forceHmi = FALSE /\ sts.forceMulti = FALSE
  BY <1>1, <1>2, PictureAssumption DEF NewStatus, Status
<1>9. /\ adjust = NoAdjust /\ clear = [phase |-> "none", done |-> 0, levels |-> InitLevels]
      /\ layout = [front |-> "", camera |-> ""] /\ current = reserve /\ asleep = FALSE
      /\ linkUp = TRUE /\ built = TRUE /\ covered = TRUE /\ failed = FALSE /\ held = FALSE
  BY DEF Init
<1>10. QualityTyped
  BY <1>1, <1>2, <1>3, <1>4, <1>7, <1>8, <1>9, PictureAssumption
  DEF QualityTyped, NoAdjust, CameraPaths
<1>11. Agree /\ Shown
  BY <1>4, <1>7, <1>8, <1>9, SourceFacts DEF Agree, Match, Shown, NewManager
<1>12. ThemeFresh(db, mng, reserve) /\ OwnFresh(db, mng, reserve)
  <2>1. db["OTHER"][AutoDark] = [k \in Kinds |-> file] /\ db["MULTISENSORY"][AutoDark] = InitLevels
    BY <1>1, PictureAssumption
    DEF LoadColorRecord, CreateColorStep, Sources, ThemeSources, Modes
  <2> QED
    BY <2>1, <1>4, <1>6 DEF ThemeFresh, OwnFresh, NewManager, DaySources
<1>13. FreshInv
  BY <1>9, <1>12 DEF FreshInv, Fresh, NoAdjust
<1>14. SentInv
  BY <1>1, <1>9 DEF SentInv
<1> QED
  BY <1>10, <1>11, <1>13, <1>14 DEF QualityInv

-----------------------------------------------------------------------------
(* What is sent                                                            *)

Lags == {"own", "theme", "front", "path", "camera"}

\* Nothing is behind only once the item has been sent.
LEMMA Applied ==
  ASSUME QualityTyped, NEW item \in Item, NEW sent \in BOOLEAN, NEW healed, NEW lost,
         Apply(item, sent, healed, lost)
  PROVE  /\ current' \in Item /\ sending' \in BOOLEAN /\ built' \in BOOLEAN
         /\ behind' = {} => sending' /\ current' = item
         /\ \A x \in Lags : x \in behind' <=> x \in (behind \ healed) \cup lost
<1>1. /\ current' \in Item /\ sending' \in BOOLEAN /\ built' \in BOOLEAN
  BY DEF Apply, QualityTyped
<1>2. behind' = {} => sent
  BY DEF Apply, Lag
<1>3. \A x \in Lags : x \in behind' <=> x \in (behind \ healed) \cup lost
  BY DEF Apply, Lag, Lags
<1> QED
  BY <1>1, <1>2, <1>3 DEF Apply

\* Where nothing is sent, what was behind stays behind.
LEMMA NotApplied ==
  ASSUME NEW healed, NEW lost, NoApply(healed, lost)
  PROVE  /\ UNCHANGED <<current, sending, built>>
         /\ behind' = {} => lost = {} /\ behind \ healed = {}
         /\ \A x : x \in behind' <=> x \in (behind \ healed) \cup lost
BY DEF NoApply, Lag

\* What is sent depends on the item alone.
LEMMA BuildSame ==
  ASSUME NEW a, NEW b, Kept(a, b), \A place \in Places : a.steps[place] = b.steps[place]
  PROVE  Build(a) = Build(b)
BY DEF Build, Kept, Places

\* A handler that leaves the records and the two threads' work alone.
LEMMA Handled ==
  ASSUME QualityInv, Handles, UNCHANGED <<db, powerVars, workVars>>,
         mng' \in Manager, reserve' \in Item, sts' \in Status,
         current' \in Item, sending' \in BOOLEAN, built' \in BOOLEAN,
         covered' \in BOOLEAN, failed' \in BOOLEAN, held' \in BOOLEAN,
         layout' \in [front : FrontPaths, camera : CameraPaths],
         Agree', Shown',
         clear.phase = "none" /\ "theme" \notin behind' => ThemeFresh(db, mng', reserve'),
         clear.phase = "none" /\ "own" \notin behind' => OwnFresh(db, mng', reserve'),
         clear.phase = "none" /\ behind' = {} => sending' /\ Build(current') = Build(reserve')
  PROVE  QualityInv'
<1>1. QualityTyped'
  BY DEF QualityInv, QualityTyped, Handles, powerVars, workVars, Database
<1>2. FreshInv'
  BY DEF FreshInv, Handles, workVars, Fresh
<1>3. SentInv'
  BY DEF SentInv, workVars
<1> QED
  BY <1>1, <1>2, <1>3 DEF QualityInv

-----------------------------------------------------------------------------
(* Requests                                                                *)

\* Selecting a source copies its steps again and changes nothing that is sent.
LEMMA SelectStep ==
  ASSUME QualityInv, NEW v \in Selections, VsrcFrontId(v)
  PROVE  QualityInv'
<1>1. v \in Sources
  BY PictureAssumption DEF Sources, ThemeSources, DaySources
<1>2. /\ Handles /\ mng' = [mng EXCEPT !.vsrc = v] /\ reserve' = SetSteps(reserve, v, Kinds, Stored(db, mng, v))
      /\ sts' = [sts EXCEPT !.steps = Stored(db, mng, v)]
      /\ UNCHANGED <<db, sendVars, layout, covered, failed, held, powerVars, workVars>>
  BY DEF VsrcFrontId
<1>3. QualityTyped /\ Agree /\ Shown /\ FreshInv /\ SentInv
  BY DEF QualityInv
<1>4. Database(db) /\ mng \in Manager /\ reserve \in Item /\ sts \in Status
  BY <1>3 DEF QualityTyped
<1>5. Stored(db, mng, v) \in Levels
  BY <1>1, <1>4, StoredType
<1>6. /\ reserve' \in Item /\ Kept(reserve', reserve)
      /\ \A place \in Places :
           reserve'.steps[place] = IF place = Place(reserve, v) THEN Stored(db, mng, v)
                                   ELSE reserve.steps[place]
  BY <1>1, <1>2, <1>4, <1>5, WholeSteps
<1>7. mng' \in Manager /\ SameModes([mng' EXCEPT !.vsrc = mng.vsrc], mng) /\ mng'.vpath = mng.vpath
      /\ mng'.front = mng.front /\ mng'.camera = mng.camera /\ mng'.theme = mng.theme
      /\ mng'.dayNight = mng.dayNight
  BY <1>1, <1>2, <1>4 DEF Manager, SameModes
<1>8. sts' \in Status /\ sts'.mute = sts.mute /\ sts'.light = sts.light
      /\ sts'.dayNight = sts.dayNight /\ sts'.theme = sts.theme
      /\ sts'.forceHmi = sts.forceHmi /\ sts'.forceMulti = sts.forceMulti
  BY <1>2, <1>4, <1>5 DEF Status
<1>9. Agree'
  BY <1>3, <1>6, <1>7, <1>8 DEF Agree, Match, Kept
<1>10. Shown'
  BY <1>2, <1>3, <1>6, <1>7 DEF Shown, Kept, sendVars
<1>11. ASSUME clear.phase = "none"
       PROVE  /\ "theme" \notin behind => ThemeFresh(db, mng, reserve)
              /\ "own" \notin behind => OwnFresh(db, mng, reserve)
  BY <1>2, <1>3, <1>11 DEF FreshInv, Handles, Fresh
<1>12. ASSUME ThemeFresh(db, mng, reserve)
       PROVE  /\ reserve'.steps["hmi"] = reserve.steps["hmi"]
              /\ reserve'.steps["multi"] = reserve.steps["multi"]
  BY <1>1, <1>6, <1>12
  DEF ThemeFresh, Places, Place, Stored, ModeOf, Sources, ThemeSources, DaySources
<1>13. ASSUME OwnFresh(db, mng, reserve)
       PROVE  reserve'.steps["own"] = reserve.steps["own"]
  BY <1>1, <1>3, <1>6, <1>13
  DEF OwnFresh, Places, Place, Stored, ModeOf, Sources, ThemeSources, DaySources, Agree, Match
<1>14. clear.phase = "none" /\ "theme" \notin behind => ThemeFresh(db, mng', reserve')
  BY <1>7, <1>11, <1>12 DEF ThemeFresh
<1>15. clear.phase = "none" /\ "own" \notin behind => OwnFresh(db, mng', reserve')
  BY <1>7, <1>11, <1>13 DEF OwnFresh
<1>16. ASSUME clear.phase = "none", behind = {}
       PROVE  sending /\ Build(current) = Build(reserve')
  <2>1. \A place \in Places : reserve'.steps[place] = reserve.steps[place]
    BY <1>11, <1>12, <1>13, <1>16 DEF Places
  <2>2. Build(reserve') = Build(reserve)
    BY <1>6, <2>1, BuildSame
  <2> QED
    BY <1>2, <1>3, <1>16, <2>2 DEF SentInv, Handles
<1> QED
  BY <1>2, <1>3, <1>6, <1>7, <1>8, <1>9, <1>10, <1>14, <1>15, <1>16, Handled
  DEF sendVars, QualityTyped

\* A forced HMI quality is sent, or is behind until the first notification.
LEMMA ForceHmiStep ==
  ASSUME QualityInv, NEW b \in BOOLEAN, NEW sent \in BOOLEAN, ForceHmi(b, sent)
  PROVE  QualityInv'
<1>1. /\ Handles /\ reserve' = [reserve EXCEPT !.forceHmi = b] /\ sts' = [sts EXCEPT !.forceHmi = b]
      /\ \/ Apply(reserve', sent, {}, {})
         \/ NoApply({}, {"unsent"})
      /\ UNCHANGED <<db, mng, layout, covered, failed, held, powerVars, workVars>>
  BY DEF ForceHmi
<1>2. QualityTyped /\ Agree /\ Shown /\ FreshInv /\ SentInv
  BY DEF QualityInv
<1>3. mng \in Manager /\ reserve \in Item /\ sts \in Status
  BY <1>2 DEF QualityTyped
<1>4. reserve' \in Item /\ sts' \in Status
  BY <1>1, <1>3 DEF Item, Status
<1>5. Agree' /\ reserve'.steps = reserve.steps /\ reserve'.front = reserve.front /\ reserve'.src = reserve.src
  BY <1>1, <1>2, <1>3 DEF Agree, Match, Item, Status
<1>6. /\ current' \in Item /\ sending' \in BOOLEAN /\ built' \in BOOLEAN
      /\ behind' = {} => sending' /\ current' = reserve'
      /\ \A x \in Lags : x \in behind' <=> x \in behind
  <2>1. CASE Apply(reserve', sent, {}, {})
    BY <1>2, <1>4, <2>1, Applied
  <2>2. CASE NoApply({}, {"unsent"})
    BY <1>2, <2>2, NotApplied DEF QualityTyped, Lags
  <2> QED
    BY <1>1, <2>1, <2>2
<1>7. Shown'
  BY <1>1, <1>2, <1>5, <1>6 DEF Shown, Lags
<1>8. /\ clear.phase = "none" /\ "theme" \notin behind' => ThemeFresh(db, mng', reserve')
      /\ clear.phase = "none" /\ "own" \notin behind' => OwnFresh(db, mng', reserve')
  BY <1>1, <1>2, <1>5, <1>6 DEF FreshInv, Fresh, ThemeFresh, OwnFresh, Handles, Lags
<1> QED
  BY <1>1, <1>2, <1>3, <1>4, <1>5, <1>6, <1>7, <1>8, Handled DEF QualityTyped

\* A forced quality that is not sent is one that Build would not choose.
LEMMA ForceMultiStep ==
  ASSUME QualityInv, NEW b \in BOOLEAN, NEW sent \in BOOLEAN, ForceMulti(b, sent)
  PROVE  QualityInv'
<1>1. /\ Handles /\ reserve' = [reserve EXCEPT !.forceMulti = b]
      /\ sts' = [sts EXCEPT !.forceMulti = b]
      /\ \/ Apply(reserve', sent, {}, {})
         \/ b /\ layout.front # "MULTISENSORY" /\ NoApply({}, {})
         \/ NoApply({}, {"unsent"})
      /\ UNCHANGED <<db, mng, layout, covered, failed, held, powerVars, workVars>>
  BY DEF ForceMulti
<1>2. QualityTyped /\ Agree /\ Shown /\ FreshInv /\ SentInv
  BY DEF QualityInv
<1>3. mng \in Manager /\ reserve \in Item /\ sts \in Status
  BY <1>2 DEF QualityTyped
<1>4. reserve' \in Item /\ sts' \in Status
  BY <1>1, <1>3 DEF Item, Status
<1>5. Agree' /\ reserve'.steps = reserve.steps /\ reserve'.front = reserve.front /\ reserve'.src = reserve.src
  BY <1>1, <1>2, <1>3 DEF Agree, Match, Item, Status
<1>6. /\ current' \in Item /\ sending' \in BOOLEAN /\ built' \in BOOLEAN
      /\ clear.phase = "none" /\ behind' = {} => sending' /\ Build(current') = Build(reserve')
      /\ \A x \in Lags : x \in behind' <=> x \in behind
  <2>1. CASE Apply(reserve', sent, {}, {})
    BY <1>2, <1>4, <2>1, Applied
  <2>2. CASE NoApply({}, {"unsent"})
    BY <1>2, <2>2, NotApplied DEF QualityTyped, Lags
  <2>3. CASE layout.front # "MULTISENSORY" /\ NoApply({}, {})
    <3>1. /\ UNCHANGED <<current, sending, built>> /\ (behind' = {} => behind = {})
          /\ \A x \in Lags : x \in behind' <=> x \in behind
      BY <2>3, NotApplied
    <3>2. behind = {} => Build(reserve') = Build(reserve)
      <4>1. behind = {} => reserve.camera = "CAMERA" \/ reserve.front # "MULTISENSORY"
        BY <1>2, <1>3, <2>3 DEF Shown, Agree, Match, Manager, CameraPaths
      <4> QED
        BY <1>1, <1>3, <4>1 DEF Build, Item
    <3> QED
      BY <1>1, <1>2, <3>1, <3>2 DEF QualityTyped, SentInv, Handles
  <2> QED
    BY <1>1, <2>1, <2>2, <2>3
<1>7. Shown'
  BY <1>1, <1>2, <1>5, <1>6 DEF Shown, Lags
<1>8. /\ clear.phase = "none" /\ "theme" \notin behind' => ThemeFresh(db, mng', reserve')
      /\ clear.phase = "none" /\ "own" \notin behind' => OwnFresh(db, mng', reserve')
  BY <1>1, <1>2, <1>5, <1>6 DEF FreshInv, Fresh, ThemeFresh, OwnFresh, Handles, Lags
<1> QED
  BY <1>1, <1>2, <1>3, <1>4, <1>5, <1>6, <1>7, <1>8, Handled DEF QualityTyped

\* The mute and the backlight, which the other of them keeps from being told.
LEMMA CoverSwitched ==
  ASSUME QualityInv, Handles, NEW item \in Item, NEW on \in BOOLEAN, NEW alone \in BOOLEAN,
         NEW sent \in BOOLEAN, NEW ok \in BOOLEAN, SwitchCover(item, on, alone, sent, ok),
         Match(mng, item), item.steps = reserve.steps, item.front = reserve.front, item.src = reserve.src,
         ~alone => Build(item) = Build(reserve),
         sts' \in Status, sts'.dayNight = sts.dayNight, sts'.theme = sts.theme,
         sts'.mute = item.mute, sts'.light = item.light,
         sts'.forceHmi = item.forceHmi, sts'.forceMulti = item.forceMulti,
         UNCHANGED <<db, mng, layout, powerVars, workVars>>
  PROVE  QualityInv'
<1>1. /\ reserve' = item
      /\ \/ Apply(item, sent, {}, {}) \/ (~alone /\ NoApply({}, {})) \/ NoApply({}, {"unsent"})
  BY DEF SwitchCover
<1>2. QualityTyped /\ Agree /\ Shown /\ FreshInv /\ SentInv
  BY DEF QualityInv
<1>3. covered' \in BOOLEAN /\ failed' \in BOOLEAN /\ held' \in BOOLEAN
  BY <1>2 DEF SwitchCover, QualityTyped
<1>4. Agree'
  BY <1>1, <1>2 DEF Agree
<1>5. /\ current' \in Item /\ sending' \in BOOLEAN /\ built' \in BOOLEAN
      /\ clear.phase = "none" /\ behind' = {} => sending' /\ Build(current') = Build(reserve')
      /\ \A x \in Lags : x \in behind' <=> x \in behind
  <2>1. CASE Apply(item, sent, {}, {})
    BY <1>1, <1>2, <2>1, Applied
  <2>2. CASE NoApply({}, {"unsent"})
    BY <1>2, <2>2, NotApplied DEF QualityTyped, Lags
  <2>3. CASE ~alone /\ NoApply({}, {})
    <3>1. /\ UNCHANGED <<current, sending, built>> /\ (behind' = {} => behind = {})
          /\ \A x \in Lags : x \in behind' <=> x \in behind
      BY <2>3, NotApplied
    <3> QED
      BY <1>1, <1>2, <2>3, <3>1 DEF QualityTyped, SentInv, Handles
  <2> QED
    BY <1>1, <2>1, <2>2, <2>3
<1>6. Shown'
  BY <1>1, <1>2, <1>5 DEF Shown, Lags
<1>7. /\ clear.phase = "none" /\ "theme" \notin behind' => ThemeFresh(db, mng', reserve')
      /\ clear.phase = "none" /\ "own" \notin behind' => OwnFresh(db, mng', reserve')
  BY <1>1, <1>2, <1>5 DEF FreshInv, Fresh, ThemeFresh, OwnFresh, Handles, Lags
<1> QED
  BY <1>1, <1>2, <1>3, <1>4, <1>5, <1>6, <1>7, Handled DEF QualityTyped

\* Mute and backlight: without the surface, Build sends the same.
LEMMA MuteStep ==
  ASSUME QualityInv, NEW m \in BOOLEAN, NEW sent \in BOOLEAN, NEW ok \in BOOLEAN,
         MuteFrontDisp(m, sent, ok) \/ MuteFrontBacklight(m, sent, ok)
  PROVE  QualityInv'
<1>1. QualityTyped /\ Agree /\ reserve \in Item /\ sts \in Status
  BY DEF QualityInv, QualityTyped
<1>2. CASE MuteFrontDisp(m, sent, ok)
  <2> DEFINE item == [reserve EXCEPT !.mute = m]
  <2>1. item \in Item /\ Match(mng, item) /\ (~sts.light => Build(item) = Build(reserve))
    BY <1>1 DEF Item, Agree, Match, Build
  <2>2. item.steps = reserve.steps /\ item.front = reserve.front /\ item.src = reserve.src /\ item.mute = m
        /\ item.light = reserve.light /\ item.forceHmi = reserve.forceHmi /\ item.forceMulti = reserve.forceMulti
    BY <1>1 DEF Item
  <2>3. sts' = [sts EXCEPT !.mute = m] /\ SwitchCover(item, m, sts.light, sent, ok) /\ Handles
        /\ UNCHANGED <<db, mng, layout, powerVars, workVars>>
    BY <1>2 DEF MuteFrontDisp
  <2>4. sts' \in Status /\ sts'.dayNight = sts.dayNight /\ sts'.theme = sts.theme /\ sts'.mute = item.mute
        /\ sts'.light = item.light /\ sts'.forceHmi = item.forceHmi /\ sts'.forceMulti = item.forceMulti
    BY <1>1, <2>2, <2>3 DEF Status, Agree
  <2>5. sts.light \in BOOLEAN
    BY <1>1 DEF Status
  <2> HIDE DEF item
  <2> QED
    BY <2>1, <2>2, <2>3, <2>4, <2>5, CoverSwitched
<1>3. CASE MuteFrontBacklight(m, sent, ok)
  <2> DEFINE item == [reserve EXCEPT !.light = m]
  <2>1. item \in Item /\ Match(mng, item) /\ (sts.mute => Build(item) = Build(reserve))
    BY <1>1 DEF Item, Agree, Match, Build
  <2>2. item.steps = reserve.steps /\ item.front = reserve.front /\ item.src = reserve.src /\ item.light = m
        /\ item.mute = reserve.mute /\ item.forceHmi = reserve.forceHmi /\ item.forceMulti = reserve.forceMulti
    BY <1>1 DEF Item
  <2>3. sts' = [sts EXCEPT !.light = m] /\ SwitchCover(item, ~m, ~sts.mute, sent, ok) /\ Handles
        /\ UNCHANGED <<db, mng, layout, powerVars, workVars>>
    BY <1>3 DEF MuteFrontBacklight
  <2>4. sts' \in Status /\ sts'.dayNight = sts.dayNight /\ sts'.theme = sts.theme /\ sts'.light = item.light
        /\ sts'.mute = item.mute /\ sts'.forceHmi = item.forceHmi /\ sts'.forceMulti = item.forceMulti
    BY <1>1, <2>2, <2>3 DEF Status, Agree
  <2>5. (~sts.mute) \in BOOLEAN /\ (~m) \in BOOLEAN
    BY <1>1 DEF Status
  <2> HIDE DEF item
  <2> QED
    BY <2>1, <2>2, <2>3, <2>4, <2>5, CoverSwitched
<1> QED
  BY <1>2, <1>3

\* The power state covers the display and sends nothing.
LEMMA PowerStep ==
  ASSUME QualityInv, NEW ok \in BOOLEAN, PowerInVehicle(ok)
  PROVE  QualityInv'
<1>1. /\ Handles /\ covered' = (covered \/ ok) /\ held' = (held \/ ok)
      /\ UNCHANGED <<db, mng, reserve, current, sending, built, behind, layout, sts, failed,
                     powerVars, workVars>>
  BY DEF PowerInVehicle, colorVars, sendVars
<1>2. QualityTyped /\ Agree /\ Shown /\ FreshInv /\ SentInv
  BY DEF QualityInv
<1>3. covered' \in BOOLEAN /\ held' \in BOOLEAN
  BY <1>1, <1>2 DEF QualityTyped
<1>4. Agree' /\ Shown'
  BY <1>1, <1>2 DEF Agree, Shown
<1>5. /\ clear.phase = "none" /\ "theme" \notin behind' => ThemeFresh(db, mng', reserve')
      /\ clear.phase = "none" /\ "own" \notin behind' => OwnFresh(db, mng', reserve')
      /\ clear.phase = "none" /\ behind' = {} => sending' /\ Build(current') = Build(reserve')
  BY <1>1, <1>2 DEF FreshInv, Fresh, Handles, SentInv
<1> QED
  BY <1>1, <1>2, <1>3, <1>4, <1>5, Handled DEF QualityTyped

-----------------------------------------------------------------------------
(* Modes and paths                                                         *)

\* An unneeded notification is left out only when nothing would change.
LEMMA DayNightStep ==
  ASSUME QualityInv, NEW d \in DayNights, NEW sent \in BOOLEAN, SettingDayNight(d, sent)
  PROVE  QualityInv'
<1> DEFINE base == [reserve EXCEPT !.dayNight = d]
<1>1. /\ Handles /\ mng' = [mng EXCEPT !.dayNight = d]
      /\ reserve' = ShowSource(db, mng', base)
      /\ \/ Apply(reserve', sent, {}, {})
         \/ NoApply({}, {"unsent"})
         \/ mng'.vpath \notin DaySources /\ NoApply({}, {})
      /\ sts' = [sts EXCEPT !.dayNight = d, !.steps = Stored(db, mng', mng'.vsrc)]
      /\ UNCHANGED <<db, layout, covered, failed, held, powerVars, workVars>>
  BY DEF SettingDayNight, ShowSource
<1>2. QualityTyped /\ Agree /\ Shown /\ FreshInv /\ SentInv
  BY DEF QualityInv
<1>3. Database(db) /\ mng \in Manager /\ reserve \in Item /\ sts \in Status
  BY <1>2 DEF QualityTyped
<1>4. /\ mng' \in Manager /\ mng'.vpath = mng.vpath /\ mng'.vsrc = mng.vsrc /\ mng'.dayNight = d
      /\ mng'.theme = mng.theme /\ mng'.camera = mng.camera /\ mng'.front = mng.front
  BY <1>1, <1>3 DEF Manager
<1>5. /\ base \in Item /\ base.src = reserve.src /\ base.dayNight = d /\ base.theme = reserve.theme
      /\ base.camera = reserve.camera /\ base.front = reserve.front /\ base.steps = reserve.steps
      /\ base.mute = reserve.mute /\ base.light = reserve.light
      /\ base.forceHmi = reserve.forceHmi /\ base.forceMulti = reserve.forceMulti
  BY <1>3 DEF Item
<1> HIDE DEF base
<1>6. /\ reserve' \in Item /\ Kept(reserve', base) /\ OwnFresh(db, mng', reserve')
      /\ ThemeFresh(db, mng', base) => ThemeFresh(db, mng', reserve')
  BY <1>1, <1>2, <1>3, <1>4, <1>5, ShowFacts DEF Agree, Match
<1>7. /\ sts' \in Status /\ sts'.dayNight = d /\ sts'.theme = sts.theme
      /\ sts'.mute = sts.mute /\ sts'.light = sts.light
      /\ sts'.forceHmi = sts.forceHmi /\ sts'.forceMulti = sts.forceMulti
  <2>1. mng'.vsrc \in Sources
    BY <1>4 DEF Manager
  <2>2. Stored(db, mng', mng'.vsrc) \in Levels
    BY <1>3, <1>4, <2>1, StoredType
  <2> QED
    BY <1>1, <1>3, <2>2 DEF Status
<1>8. Agree'
  BY <1>2, <1>4, <1>5, <1>6, <1>7 DEF Agree, Match, Kept
<1>9. ASSUME clear.phase = "none"
      PROVE  /\ "theme" \notin behind => ThemeFresh(db, mng, reserve)
  BY <1>1, <1>2, <1>9 DEF FreshInv, Handles, Fresh
<1>10. /\ current' \in Item /\ sending' \in BOOLEAN /\ built' \in BOOLEAN
       /\ clear.phase = "none" /\ behind' = {} => sending' /\ Build(current') = Build(reserve')
       /\ \A x \in Lags : x \in behind' <=> x \in behind
  <2>1. CASE Apply(reserve', sent, {}, {})
    BY <1>2, <1>6, <2>1, Applied
  <2>2. CASE NoApply({}, {"unsent"})
    BY <1>2, <2>2, NotApplied DEF QualityTyped, Lags
  <2>3. CASE mng'.vpath \notin DaySources /\ NoApply({}, {})
    <3>1. /\ UNCHANGED <<current, sending, built>> /\ (behind' = {} => behind = {})
          /\ \A x \in Lags : x \in behind' <=> x \in behind
      BY <2>3, NotApplied
    <3>2. ASSUME clear.phase = "none", behind = {}
          PROVE  Build(reserve') = Build(reserve)
      <4>1. ThemeFresh(db, mng, reserve) /\ ThemeFresh(db, mng', reserve')
        BY <1>4, <1>5, <1>6, <1>9, <3>2 DEF ThemeFresh
      <4>2. reserve'.steps["hmi"] = reserve.steps["hmi"] /\ reserve'.steps["multi"] = reserve.steps["multi"]
        BY <1>4, <4>1 DEF ThemeFresh
      <4>3. reserve.camera # "CAMERA" /\ reserve.src \in ThemeSources
        BY <1>2, <1>3, <1>4, <2>3 DEF Agree, Match, Manager, Sources, DaySources, ThemeSources
      <4> QED
        BY <1>5, <1>6, <4>2, <4>3 DEF Build, Kept
    <3> QED
      BY <1>1, <1>2, <3>1, <3>2 DEF QualityTyped, SentInv, Handles
  <2> QED
    BY <1>1, <2>1, <2>2, <2>3
<1>11. Shown'
  BY <1>1, <1>2, <1>4, <1>5, <1>6, <1>10 DEF Shown, Lags, Kept
<1>12. clear.phase = "none" /\ "theme" \notin behind' => ThemeFresh(db, mng', reserve')
  BY <1>4, <1>5, <1>6, <1>9, <1>10 DEF ThemeFresh, Lags
<1> QED
  BY <1>1, <1>2, <1>4, <1>6, <1>7, <1>8, <1>10, <1>11, <1>12, Handled DEF QualityTyped

\* A theme sets both places of the themes and catches them up.
LEMMA ThemeStep ==
  ASSUME QualityInv, NEW t \in Themes, NEW sent \in BOOLEAN, SettingThemeColor(t, sent)
  PROVE  QualityInv'
<1> DEFINE base == [reserve EXCEPT !.theme = t]
           hmi  == SetSteps(base, "OTHER", Kinds, Stored(db, mng', "OTHER"))
<1>1. /\ Handles /\ mng' = [mng EXCEPT !.theme = t]
      /\ reserve' = SetSteps(hmi, "MULTISENSORY", Kinds, Stored(db, mng', "MULTISENSORY"))
      /\ Apply(reserve', sent, {"theme"}, {})
      /\ sts' = [sts EXCEPT !.theme = t, !.steps = Stored(db, mng', mng'.vsrc)]
      /\ UNCHANGED <<db, layout, covered, failed, held, powerVars, workVars>>
  BY DEF SettingThemeColor
<1>2. QualityTyped /\ Agree /\ Shown /\ FreshInv /\ SentInv
  BY DEF QualityInv
<1>3. Database(db) /\ mng \in Manager /\ reserve \in Item /\ sts \in Status
  BY <1>2 DEF QualityTyped
<1>4. /\ mng' \in Manager /\ mng'.vpath = mng.vpath /\ mng'.vsrc = mng.vsrc /\ mng'.theme = t
      /\ mng'.dayNight = mng.dayNight /\ mng'.camera = mng.camera /\ mng'.front = mng.front
  BY <1>1, <1>3 DEF Manager
<1>5. /\ base \in Item /\ base.src = reserve.src /\ base.dayNight = reserve.dayNight /\ base.theme = t
      /\ base.camera = reserve.camera /\ base.front = reserve.front /\ base.steps = reserve.steps
      /\ base.mute = reserve.mute /\ base.light = reserve.light
      /\ base.forceHmi = reserve.forceHmi /\ base.forceMulti = reserve.forceMulti
  BY <1>3 DEF Item
<1> HIDE DEF base
<1>6. {"OTHER", "MULTISENSORY"} \subseteq Sources
  BY DEF Sources, ThemeSources
<1>7. /\ Stored(db, mng', "OTHER") \in Levels /\ Stored(db, mng', "MULTISENSORY") \in Levels
  BY <1>3, <1>4, <1>6, StoredType
<1>8. /\ hmi \in Item /\ Kept(hmi, base)
      /\ hmi.steps["hmi"] = Stored(db, mng', "OTHER") /\ hmi.steps["own"] = base.steps["own"]
  <2>1. hmi = SetSteps(base, "OTHER", Kinds, Stored(db, mng', "OTHER"))
    OBVIOUS
  <2> HIDE DEF hmi
  <2>2. /\ hmi \in Item /\ Kept(hmi, base)
        /\ \A place \in Places :
             hmi.steps[place] = IF place = Place(base, "OTHER") THEN Stored(db, mng', "OTHER")
                                ELSE base.steps[place]
    BY <1>5, <1>6, <1>7, <2>1, WholeSteps
  <2> QED
    BY <2>2 DEF Place, Places
<1> HIDE DEF hmi
<1>9. /\ reserve' \in Item /\ Kept(reserve', hmi)
      /\ reserve'.steps["hmi"] = Stored(db, mng', "OTHER")
      /\ reserve'.steps["multi"] = Stored(db, mng', "MULTISENSORY")
      /\ reserve'.steps["own"] = reserve.steps["own"]
  <2>1. /\ reserve' \in Item /\ Kept(reserve', hmi)
        /\ \A place \in Places :
             reserve'.steps[place] = IF place = Place(hmi, "MULTISENSORY")
                                     THEN Stored(db, mng', "MULTISENSORY")
                                     ELSE hmi.steps[place]
    <3>1. reserve' = SetSteps(hmi, "MULTISENSORY", Kinds, Stored(db, mng', "MULTISENSORY"))
      BY <1>1
    <3>2. hmi \in Item /\ "MULTISENSORY" \in Sources /\ Stored(db, mng', "MULTISENSORY") \in Levels
      BY <1>6, <1>7, <1>8
    <3> QED
      BY <3>1, <3>2, WholeSteps
  <2> QED
    BY <1>5, <1>8, <2>1 DEF Place, Places
<1>10. /\ sts' \in Status /\ sts'.dayNight = sts.dayNight /\ sts'.theme = t
       /\ sts'.mute = sts.mute /\ sts'.light = sts.light
       /\ sts'.forceHmi = sts.forceHmi /\ sts'.forceMulti = sts.forceMulti
  <2>1. mng'.vsrc \in Sources
    BY <1>4 DEF Manager
  <2>2. Stored(db, mng', mng'.vsrc) \in Levels
    BY <1>3, <1>4, <2>1, StoredType
  <2> QED
    BY <1>1, <1>3, <2>2 DEF Status
<1>11. Agree'
  BY <1>2, <1>4, <1>5, <1>8, <1>9, <1>10 DEF Agree, Match, Kept
<1>12. /\ current' \in Item /\ sending' \in BOOLEAN /\ built' \in BOOLEAN
       /\ clear.phase = "none" /\ behind' = {} => sending' /\ Build(current') = Build(reserve')
       /\ \A x \in Lags \ {"theme"} : x \in behind' <=> x \in behind
  <2>1. /\ current' \in Item /\ sending' \in BOOLEAN /\ built' \in BOOLEAN
        /\ behind' = {} => sending' /\ current' = reserve'
        /\ \A x \in Lags : x \in behind' <=> x \in (behind \ {"theme"}) \cup {}
    BY <1>1, <1>2, <1>9, Applied
  <2> QED
    BY <2>1
<1>13. Shown'
  BY <1>1, <1>2, <1>4, <1>5, <1>8, <1>9, <1>12 DEF Shown, Lags, Kept
<1>14. ThemeFresh(db, mng', reserve')
  BY <1>9 DEF ThemeFresh, Stored, ModeOf, ThemeSources
<1>15. clear.phase = "none" /\ "own" \notin behind' => OwnFresh(db, mng', reserve')
  BY <1>1, <1>2, <1>4, <1>9, <1>12 DEF OwnFresh, FreshInv, Fresh, Handles, Lags
<1> QED
  BY <1>1, <1>2, <1>4, <1>9, <1>10, <1>11, <1>12, <1>13, <1>14, <1>15, Handled DEF QualityTyped

\* While the camera is shown, a front path is only kept.
LEMMA FrontStep ==
  ASSUME QualityInv, NEW path \in FrontPaths, NEW sent \in BOOLEAN, VpathFront(path, sent)
  PROVE  QualityInv'
<1>a. PICK q : q = [mng |-> mng, item |-> reserve]
  OBVIOUS
<1>b. PICK p : p = SetFrontPath(db, q, path)
  OBVIOUS
<1>1. /\ Handles /\ layout' = [layout EXCEPT !.front = path]
      /\ mng' = p.mng /\ reserve' = p.item
      /\ \/ p.set /\ Apply(p.item, sent, {"own", "front", "path"}, {})
         \/ ~p.set /\ NoApply({"path"}, {})
      /\ UNCHANGED <<db, sts, covered, failed, held, powerVars, workVars>>
  BY <1>a, <1>b DEF VpathFront
<1>2. QualityTyped /\ Agree /\ Shown /\ FreshInv /\ SentInv
  BY DEF QualityInv
<1>3. Database(db) /\ mng \in Manager /\ reserve \in Item /\ sts \in Status
      /\ layout \in [front : FrontPaths, camera : CameraPaths]
  BY <1>2 DEF QualityTyped
<1>4. layout' \in [front : FrontPaths, camera : CameraPaths] /\ layout'.front = path
      /\ layout'.camera = layout.camera
  BY <1>1, <1>3
<1>5. q.mng = mng /\ q.item = reserve /\ p = SetFrontPath(db, q, path)
  BY <1>a, <1>b
<1>6. /\ p.mng \in Manager /\ p.item \in Item /\ Match(p.mng, p.item)
      /\ p.mng.front = path /\ p.mng.camera = mng.camera /\ p.set = (mng.camera = "")
      /\ SameModes(p.mng, mng) /\ SameFlags(p.item, reserve)
      /\ mng.camera = "" => p.item.front = path /\ p.item.src = SourceOf(path)
      /\ mng.camera = "" => OwnFresh(db, p.mng, p.item)
      /\ ThemeFresh(db, mng, reserve) => ThemeFresh(db, p.mng, p.item)
  <2>1. Match(mng, reserve)
    BY <1>2 DEF Agree
  <2>2. /\ p.mng \in Manager /\ p.item \in Item /\ Match(p.mng, p.item) /\ FrontSet(p, mng, path)
        /\ SameModes(p.mng, mng) /\ SameFlags(p.item, reserve)
        /\ mng.camera = "" => OwnFresh(db, p.mng, p.item)
        /\ ThemeFresh(db, mng, reserve) => ThemeFresh(db, p.mng, p.item)
    BY <1>3, <1>5, <2>1, FrontFacts
  <2> QED
    BY <2>2 DEF FrontSet
<1>7. Agree'
  BY <1>1, <1>2, <1>6 DEF Agree, SameModes, SameFlags
<1>8. CASE mng.camera = ""
  <2>1. Apply(reserve', sent, {"own", "front", "path"}, {})
    BY <1>1, <1>6, <1>8
  <2>2. /\ current' \in Item /\ sending' \in BOOLEAN /\ built' \in BOOLEAN
        /\ behind' = {} => sending' /\ Build(current') = Build(reserve')
        /\ "theme" \in behind' <=> "theme" \in behind
        /\ "camera" \in behind' <=> "camera" \in behind
        /\ "path" \notin behind'
    <3>1. /\ current' \in Item /\ sending' \in BOOLEAN /\ built' \in BOOLEAN
          /\ behind' = {} => sending' /\ current' = reserve'
          /\ \A x \in Lags : x \in behind' <=> x \in (behind \ {"own", "front", "path"}) \cup {}
      <4>1. QualityTyped /\ reserve' \in Item
        BY <1>1, <1>2, <1>6
      <4> QED
        BY <2>1, <4>1, Applied
    <3> QED
      BY <3>1 DEF Lags
  <2>3. Shown'
    BY <1>1, <1>2, <1>4, <1>6, <1>8, <2>2 DEF Shown
  <2>4. clear.phase = "none" /\ "theme" \notin behind' => ThemeFresh(db, mng', reserve')
    BY <1>1, <1>2, <1>6, <2>2 DEF FreshInv, Fresh, Handles
  <2>5. OwnFresh(db, mng', reserve')
    BY <1>1, <1>6, <1>8
  <2> QED
    BY <1>1, <1>2, <1>4, <1>6, <1>7, <2>2, <2>3, <2>4, <2>5, Handled DEF QualityTyped
<1>9. CASE mng.camera # ""
  <2>1. NoApply({"path"}, {}) /\ reserve' = reserve /\ mng'.vpath = mng.vpath
    <3>1. p = [mng |-> [mng EXCEPT !.front = path], item |-> reserve, set |-> FALSE]
      BY <1>5, <1>9 DEF SetFrontPath
    <3> QED
      BY <1>1, <1>3, <3>1 DEF Manager
  <2>2. "path" \notin behind
    BY <1>2, <1>3, <1>9 DEF Shown, Manager, CameraPaths
  <2>3. /\ UNCHANGED <<current, sending, built>> /\ (behind' = {} => behind = {})
        /\ \A x : x \in behind' <=> x \in behind
    BY <2>1, <2>2, NotApplied
  <2>4. Shown'
    BY <1>1, <1>2, <1>3, <1>4, <1>6, <1>9, <2>3 DEF Shown
  <2>5. /\ clear.phase = "none" /\ "theme" \notin behind' => ThemeFresh(db, mng', reserve')
        /\ clear.phase = "none" /\ "own" \notin behind' => OwnFresh(db, mng', reserve')
    BY <1>1, <1>2, <1>6, <1>9, <2>1, <2>3
    DEF FreshInv, Fresh, Handles, ThemeFresh, OwnFresh, SameModes
  <2>6. clear.phase = "none" /\ behind' = {} => sending' /\ Build(current') = Build(reserve')
    BY <1>1, <1>2, <2>1, <2>3 DEF SentInv, Handles
  <2> QED
    BY <1>1, <1>2, <1>4, <1>6, <1>7, <2>1, <2>3, <2>4, <2>5, <2>6, Handled DEF QualityTyped
<1> QED
  BY <1>8, <1>9

\* The camera comes in front of any path.
LEMMA CameraOnStep ==
  ASSUME QualityInv, NEW sent \in BOOLEAN, VpathCameraOn(sent)
  PROVE  QualityInv'
<1>a. PICK q : q = [mng |-> mng, item |-> reserve]
  OBVIOUS
<1>b. PICK p : p = SetCameraPath(db, q, "CAMERA")
  OBVIOUS
<1>1. /\ Handles /\ layout' = [layout EXCEPT !.camera = "CAMERA"]
      /\ mng' = p.mng /\ reserve' = p.item
      /\ Apply(reserve', sent, {"own", "path", "camera"}, {})
      /\ UNCHANGED <<db, sts, covered, failed, held, powerVars, workVars>>
  BY <1>a, <1>b DEF VpathCameraOn
<1>2. QualityTyped /\ Agree /\ Shown /\ FreshInv /\ SentInv
  BY DEF QualityInv
<1>3. Database(db) /\ mng \in Manager /\ reserve \in Item /\ sts \in Status
      /\ layout \in [front : FrontPaths, camera : CameraPaths]
  BY <1>2 DEF QualityTyped
<1>4. layout' \in [front : FrontPaths, camera : CameraPaths] /\ layout'.camera = "CAMERA"
  BY <1>1, <1>3 DEF CameraPaths
<1>5. q.mng = mng /\ q.item = reserve /\ p = SetCameraPath(db, q, "CAMERA") /\ "CAMERA" \in CameraPaths
  BY <1>a, <1>b DEF CameraPaths
<1>6. /\ p.mng \in Manager /\ p.item \in Item /\ Match(p.mng, p.item)
      /\ p.mng.camera = "CAMERA"
      /\ SameModes(p.mng, mng) /\ SameFlags(p.item, reserve)
      /\ OwnFresh(db, p.mng, p.item)
      /\ ThemeFresh(db, mng, reserve) => ThemeFresh(db, p.mng, p.item)
  <2>1. reserve.dayNight = mng.dayNight /\ reserve.theme = mng.theme
    BY <1>2 DEF Agree, Match
  <2>2. /\ p.mng \in Manager /\ p.item \in Item /\ Match(p.mng, p.item)
        /\ CameraSet(p, mng, reserve, "CAMERA")
        /\ SameModes(p.mng, mng) /\ SameFlags(p.item, reserve)
        /\ OwnFresh(db, p.mng, p.item)
        /\ ThemeFresh(db, mng, reserve) => ThemeFresh(db, p.mng, p.item)
    BY <1>3, <1>5, <2>1, CameraFacts
  <2> QED
    BY <2>2 DEF CameraSet
<1>7. Agree'
  BY <1>1, <1>2, <1>6 DEF Agree, SameModes, SameFlags
<1>8. /\ current' \in Item /\ sending' \in BOOLEAN /\ built' \in BOOLEAN
      /\ behind' = {} => sending' /\ Build(current') = Build(reserve')
      /\ "theme" \in behind' <=> "theme" \in behind
      /\ "path" \notin behind'
  <2>1. /\ current' \in Item /\ sending' \in BOOLEAN /\ built' \in BOOLEAN
        /\ behind' = {} => sending' /\ current' = reserve'
        /\ \A x \in Lags : x \in behind' <=> x \in (behind \ {"own", "path", "camera"}) \cup {}
    BY <1>1, <1>2, <1>6, Applied
  <2> QED
    BY <2>1 DEF Lags
<1>9. Shown'
  BY <1>1, <1>4, <1>6, <1>8 DEF Shown
<1>10. clear.phase = "none" /\ "theme" \notin behind' => ThemeFresh(db, mng', reserve')
  BY <1>1, <1>2, <1>6, <1>8 DEF FreshInv, Fresh, Handles
<1> QED
  BY <1>1, <1>2, <1>4, <1>6, <1>7, <1>8, <1>9, <1>10, Handled DEF QualityTyped

\* When the camera goes the front path comes back, or HMI.
LEMMA CameraOffStep ==
  ASSUME QualityInv, NEW first \in BOOLEAN, NEW sent \in BOOLEAN, VpathCameraOff(first, sent)
  PROVE  QualityInv'
<1>a. PICK q : q = [mng |-> mng, item |-> reserve]
  OBVIOUS
<1>b. PICK p : p = SetFrontPath(db, q, "")
  OBVIOUS
<1>c. PICK hmi : hmi = SetCameraPath(db, p, "")
  OBVIOUS
<1>d. PICK end : end = SetFrontPath(db, hmi, layout.front)
  OBVIOUS
<1>1. /\ Handles /\ layout' = [layout EXCEPT !.camera = ""]
      /\ \/ /\ layout.front = "" /\ mng' = hmi.mng /\ reserve' = hmi.item
            /\ Apply(hmi.item, sent, {"own", "path", "camera"},
                     IF hmi.item.front # "" THEN {"front"} ELSE {})
         \/ /\ layout.front # "" /\ mng' = end.mng /\ reserve' = end.item
            /\ Apply(end.item, sent, {"own", "front", "path", "camera"}, {})
      /\ UNCHANGED <<db, sts, covered, failed, held, powerVars, workVars>>
  BY <1>a, <1>b, <1>c, <1>d DEF VpathCameraOff
<1>2. QualityTyped /\ Agree /\ Shown /\ FreshInv /\ SentInv
  BY DEF QualityInv
<1>3. Database(db) /\ mng \in Manager /\ reserve \in Item /\ sts \in Status
      /\ layout \in [front : FrontPaths, camera : CameraPaths] /\ layout.front \in FrontPaths
  BY <1>2 DEF QualityTyped
<1>4. layout' \in [front : FrontPaths, camera : CameraPaths] /\ layout'.camera = ""
      /\ layout'.front = layout.front /\ "" \in FrontPaths /\ "" \in CameraPaths
  BY <1>1, <1>3, PictureAssumption DEF CameraPaths
<1>5. /\ q.mng = mng /\ q.item = reserve /\ p = SetFrontPath(db, q, "")
      /\ hmi = SetCameraPath(db, p, "") /\ end = SetFrontPath(db, hmi, layout.front)
  BY <1>a, <1>b, <1>c, <1>d
<1>6. /\ p.mng \in Manager /\ p.item \in Item /\ Match(p.mng, p.item) /\ p.mng.front = ""
      /\ SameModes(p.mng, mng) /\ SameFlags(p.item, reserve)
      /\ mng.camera = "" => p.item.front = ""
      /\ ThemeFresh(db, mng, reserve) => ThemeFresh(db, p.mng, p.item)
  <2>1. Match(mng, reserve)
    BY <1>2 DEF Agree
  <2>2. "" \in FrontPaths
    BY <1>4
  <2>3. /\ p.mng \in Manager /\ p.item \in Item /\ Match(p.mng, p.item) /\ FrontSet(p, mng, "")
        /\ SameModes(p.mng, mng) /\ SameFlags(p.item, reserve)
        /\ ThemeFresh(db, mng, reserve) => ThemeFresh(db, p.mng, p.item)
    BY <1>3, <1>5, <2>1, <2>2, FrontFacts
  <2> QED
    BY <2>3 DEF FrontSet
<1>7. /\ hmi.mng \in Manager /\ hmi.item \in Item /\ Match(hmi.mng, hmi.item)
      /\ hmi.mng.front = "" /\ hmi.mng.camera = ""
      /\ SameModes(hmi.mng, p.mng) /\ SameFlags(hmi.item, p.item)
      /\ hmi.item.src = SourceOf("") /\ OwnFresh(db, hmi.mng, hmi.item)
      /\ ThemeFresh(db, p.mng, p.item) => ThemeFresh(db, hmi.mng, hmi.item)
  <2>1. p.item.dayNight = p.mng.dayNight /\ p.item.theme = p.mng.theme
    BY <1>6 DEF Match
  <2>2. p.mng \in Manager /\ p.item \in Item /\ p.mng.front = "" /\ "" \in CameraPaths
        /\ Database(db) /\ hmi = SetCameraPath(db, p, "")
    BY <1>3, <1>4, <1>5, <1>6
  <2>3. /\ hmi.mng \in Manager /\ hmi.item \in Item /\ Match(hmi.mng, hmi.item)
        /\ CameraSet(hmi, p.mng, p.item, "")
        /\ SameModes(hmi.mng, p.mng) /\ SameFlags(hmi.item, p.item)
        /\ OwnFresh(db, hmi.mng, hmi.item)
        /\ ThemeFresh(db, p.mng, p.item) => ThemeFresh(db, hmi.mng, hmi.item)
    BY <2>1, <2>2, CameraFacts
  <2> QED
    BY <1>6, <2>3 DEF CameraSet
<1>8. /\ end.mng \in Manager /\ end.item \in Item /\ Match(end.mng, end.item)
      /\ end.mng.camera = "" /\ SameModes(end.mng, hmi.mng) /\ SameFlags(end.item, hmi.item)
      /\ end.item.front = layout.front /\ end.item.src = SourceOf(layout.front)
      /\ OwnFresh(db, end.mng, end.item)
      /\ ThemeFresh(db, hmi.mng, hmi.item) => ThemeFresh(db, end.mng, end.item)
  <2>1. Match(hmi.mng, hmi.item)
    BY <1>7
  <2>2. hmi.mng \in Manager /\ hmi.item \in Item /\ hmi.mng.camera = ""
        /\ Database(db) /\ layout.front \in FrontPaths
        /\ end = SetFrontPath(db, hmi, layout.front)
    BY <1>3, <1>5, <1>7
  <2>3. /\ end.mng \in Manager /\ end.item \in Item /\ Match(end.mng, end.item)
        /\ FrontSet(end, hmi.mng, layout.front)
        /\ SameModes(end.mng, hmi.mng) /\ SameFlags(end.item, hmi.item)
        /\ OwnFresh(db, end.mng, end.item)
        /\ ThemeFresh(db, hmi.mng, hmi.item) => ThemeFresh(db, end.mng, end.item)
    BY <2>1, <2>2, FrontFacts
  <2> QED
    BY <1>7, <2>3 DEF FrontSet
<1>9. /\ mng' \in Manager /\ reserve' \in Item /\ Agree'
      /\ mng'.camera = "" /\ reserve'.src = SourceOf(layout.front)
      /\ OwnFresh(db, mng', reserve')
      /\ ThemeFresh(db, mng, reserve) => ThemeFresh(db, mng', reserve')
  BY <1>1, <1>2, <1>6, <1>7, <1>8 DEF Agree, SameModes, SameFlags
<1>10. /\ current' \in Item /\ sending' \in BOOLEAN /\ built' \in BOOLEAN
       /\ behind' = {} => sending' /\ Build(current') = Build(reserve')
       /\ "theme" \in behind' <=> "theme" \in behind
       /\ "path" \notin behind'
       /\ "front" \notin behind' => reserve'.front = layout.front
  <2>1. ASSUME NEW healed, NEW lost, Apply(reserve', sent, healed, lost)
        PROVE  /\ current' \in Item /\ sending' \in BOOLEAN /\ built' \in BOOLEAN
               /\ behind' = {} => sending' /\ current' = reserve'
               /\ \A x \in Lags : x \in behind' <=> x \in (behind \ healed) \cup lost
    <3>1. QualityTyped /\ reserve' \in Item
      BY <1>2, <1>9
    <3> QED
      BY <2>1, <3>1, Applied
  <2>2. CASE /\ layout.front = ""
             /\ reserve' = hmi.item
             /\ Apply(hmi.item, sent, {"own", "path", "camera"},
                      IF hmi.item.front # "" THEN {"front"} ELSE {})
    <3> DEFINE lost == IF hmi.item.front # "" THEN {"front"} ELSE {}
    <3>1. "theme" \notin lost /\ "path" \notin lost /\ (reserve'.front # "" => "front" \in lost)
      BY <2>2
    <3>2. Apply(reserve', sent, {"own", "path", "camera"}, lost)
      BY <2>2
    <3> HIDE DEF lost
    <3>3. /\ current' \in Item /\ sending' \in BOOLEAN /\ built' \in BOOLEAN
          /\ behind' = {} => sending' /\ current' = reserve'
          /\ \A x \in Lags : x \in behind' <=> x \in (behind \ {"own", "path", "camera"}) \cup lost
      BY <2>1, <3>2
    <3> QED
      BY <2>2, <3>1, <3>3 DEF Lags
  <2>3. CASE /\ reserve' = end.item
             /\ Apply(end.item, sent, {"own", "front", "path", "camera"}, {})
    <3>1. /\ current' \in Item /\ sending' \in BOOLEAN /\ built' \in BOOLEAN
          /\ behind' = {} => sending' /\ current' = reserve'
          /\ \A x \in Lags :
               x \in behind' <=> x \in (behind \ {"own", "front", "path", "camera"}) \cup {}
      BY <2>1, <2>3
    <3> QED
      BY <1>8, <2>3, <3>1 DEF Lags
  <2> QED
    BY <1>1, <2>2, <2>3
<1>11. Shown'
  BY <1>4, <1>9, <1>10 DEF Shown
<1>12. clear.phase = "none" /\ "theme" \notin behind' => ThemeFresh(db, mng', reserve')
  BY <1>1, <1>2, <1>9, <1>10 DEF FreshInv, Fresh, Handles
<1> QED
  BY <1>1, <1>2, <1>4, <1>9, <1>10, <1>11, <1>12, Handled DEF QualityTyped

-----------------------------------------------------------------------------
(* A step is changed                                                       *)

\* Steps are equal when they are for every kind.
LEMMA LevelsEqual ==
  ASSUME NEW a \in Levels, NEW b \in Levels, \A k \in Kinds : a[k] = b[k]
  PROVE  a = b
BY DEF Levels

\* Only DTV and HDMI are linked, and to each other.
LEMMA LinkedFacts ==
  ASSUME NEW v \in Sources
  PROVE  /\ v \notin Linked(v) /\ Linked(v) \subseteq DaySources
         /\ Linked(v) # {} => v \in DaySources
         /\ "OTHER" \notin Linked(v) /\ "MULTISENSORY" \notin Linked(v)
<1>1. CASE v = "DTV"
  BY <1>1 DEF Linked, DaySources
<1>2. CASE v = "HDMI"
  BY <1>2 DEF Linked, DaySources
<1>3. CASE v # "DTV" /\ v # "HDMI"
  BY <1>3 DEF Linked, DaySources
<1> QED
  BY <1>1, <1>2, <1>3

\* The steps that are read differ from the record's in the kind alone.
LEMMA AdjustReadStep ==
  ASSUME QualityInv, NEW k \in Kinds, NEW n \in Steps, AdjustRead(k, n)
  PROVE  QualityInv'
<1> DEFINE old == Stored(db, mng, mng.vsrc)
           levels == [old EXCEPT ![k] = n]
<1>1. /\ adjust.phase = "none"
      /\ adjust' = [NoAdjust EXCEPT !.phase = "record", !.kind = k, !.step = n, !.levels = levels]
      /\ UNCHANGED <<db, mng, reserve, current, sending, built, behind, layout, sts, covered,
                     failed, held, linkUp, asleep, clear>>
  BY DEF AdjustRead, Handles, colorVars, sendVars, displayVars, powerVars
<1>2. QualityTyped /\ Agree /\ Shown /\ FreshInv /\ SentInv
  BY DEF QualityInv
<1>3. old \in Levels
  <2>1. Database(db) /\ mng \in Manager /\ mng.vsrc \in Sources
    BY <1>2 DEF QualityTyped, Manager
  <2> QED
    BY <2>1, StoredType
<1>4. levels \in Levels /\ \A kind \in Kinds \ {k} : old[kind] = levels[kind]
  <2> HIDE DEF old
  <2> QED
    BY <1>3 DEF Levels
<1>5. old = Selected
  BY DEF Selected, Stored
<1> HIDE DEF old, levels
<1>6. /\ DOMAIN adjust' = {"phase", "kind", "step", "levels", "record"}
      /\ adjust'.phase = "record" /\ adjust'.kind = k /\ adjust'.levels = levels
  BY <1>1 DEF NoAdjust
<1>7. QualityTyped'
  BY <1>1, <1>2, <1>4, <1>6 DEF QualityTyped, Database
<1>8. Agree' /\ Shown' /\ SentInv'
  BY <1>1, <1>2 DEF Agree, Shown, SentInv
<1>9. FreshInv'
  <2>1. Others(Selected)'
    BY <1>1, <1>4, <1>5, <1>6 DEF Others, Selected
  <2>2. clear.phase = "none" => Fresh'
    BY <1>1, <1>2 DEF FreshInv, Fresh
  <2> QED
    BY <1>1, <1>6, <2>1, <2>2 DEF FreshInv, Changing
<1> QED
  BY <1>7, <1>8, <1>9 DEF QualityInv

\* The record is the one that is read, with these steps in the mode's place.
LEMMA AdjustRecordStep ==
  ASSUME QualityInv, AdjustRecord
  PROVE  QualityInv'
<1> DEFINE record == [db[mng.vsrc] EXCEPT ![ModeOf(mng, mng.vsrc)] = adjust.levels]
<1>1. /\ adjust.phase = "record"
      /\ adjust' = [adjust EXCEPT !.phase = "write", !.record = record]
      /\ UNCHANGED <<db, mng, reserve, current, sending, built, behind, layout, sts, covered,
                     failed, held, linkUp, asleep, clear>>
  BY DEF AdjustRecord, colorVars, sendVars, displayVars, powerVars
<1>2. QualityTyped /\ Agree /\ Shown /\ FreshInv /\ SentInv
  BY DEF QualityInv
<1>3. record \in [Modes(mng.vsrc) -> Levels]
  BY <1>2 DEF QualityTyped, Database, Manager
<1> HIDE DEF record
<1>4. /\ DOMAIN adjust' = {"phase", "kind", "step", "levels", "record"}
      /\ adjust'.phase = "write" /\ adjust'.kind = adjust.kind /\ adjust'.levels = adjust.levels
      /\ adjust'.record = record
  BY <1>1, <1>2 DEF QualityTyped
<1>5. QualityTyped'
  BY <1>1, <1>2, <1>3, <1>4 DEF QualityTyped, Database
<1>6. Agree' /\ Shown' /\ SentInv'
  BY <1>1, <1>2 DEF Agree, Shown, SentInv
<1>7. FreshInv'
  <2>1. ASSUME clear.phase = "none"
        PROVE  Fresh' /\ Changing'
    BY <1>1, <1>2, <1>4, <2>1 DEF FreshInv, Fresh, Changing, Others, Selected
  <2>2. Writing'
    BY <1>1, <1>4 DEF Writing, record
  <2> QED
    BY <1>1, <1>4, <2>1, <2>2 DEF FreshInv
<1> QED
  BY <1>5, <1>6, <1>7 DEF QualityInv

\* The record has the new steps, the item's place still the old one of the kind.
LEMMA AdjustWriteStep ==
  ASSUME QualityInv, AdjustWrite
  PROVE  QualityInv'
<1>1. /\ adjust.phase = "write"
      /\ db' = [db EXCEPT ![mng.vsrc] = adjust.record]
      /\ adjust' = [adjust EXCEPT !.phase = IF Linked(mng.vsrc) = {} THEN "save" ELSE "link"]
      /\ UNCHANGED <<mng, reserve, current, sending, built, behind, layout, sts, covered,
                     failed, held, linkUp, asleep, clear>>
  BY DEF AdjustWrite, sendVars, displayVars, powerVars
<1>2. QualityTyped /\ Agree /\ Shown /\ FreshInv /\ SentInv
  BY DEF QualityInv
<1>3. /\ DOMAIN adjust' = {"phase", "kind", "step", "levels", "record"}
      /\ adjust'.phase \in {"link", "save"} /\ adjust'.kind = adjust.kind
      /\ adjust'.levels = adjust.levels /\ adjust'.record = adjust.record
  BY <1>1, <1>2 DEF QualityTyped
<1>4. /\ Database(db) /\ mng \in Manager /\ reserve \in Item /\ mng.vsrc \in Sources
      /\ adjust.record \in [Modes(mng.vsrc) -> Levels]
  BY <1>1, <1>2 DEF QualityTyped, Manager
<1>5. db'[mng.vsrc] = adjust.record /\ \A v \in Sources \ {mng.vsrc} : db'[v] = db[v]
  BY <1>1, <1>4 DEF Database
<1>6. QualityTyped'
  <2>1. Database(db')
    <3>1. DOMAIN db' = Sources
      BY <1>1, <1>4 DEF Database
    <3> QED
      BY <1>4, <1>5, <3>1 DEF Database
  <2> QED
    BY <1>1, <1>2, <1>3, <2>1 DEF QualityTyped
<1>7. Agree' /\ Shown' /\ SentInv'
  BY <1>1, <1>2 DEF Agree, Shown, SentInv
<1>8. ASSUME clear.phase = "none"
      PROVE  Written'
  <2>1. CASE {"theme", "own"} \subseteq behind
    BY <1>1, <2>1 DEF Written
  <2>2. CASE ~({"theme", "own"} \subseteq behind)
    <3>1. /\ Others(Selected)
          /\ adjust.record = [db[mng.vsrc] EXCEPT ![ModeOf(mng, mng.vsrc)] = adjust.levels]
      BY <1>1, <1>2, <1>8, <2>2 DEF FreshInv, Changing, Writing
    <3>2. Fresh
      BY <1>1, <1>2, <1>8 DEF FreshInv
    <3>3. ModeOf(mng, mng.vsrc) \in Modes(mng.vsrc)
      BY <1>4 DEF Manager, ModeOf, Modes
    <3>4. adjust.record[ModeOf(mng, mng.vsrc)] = adjust.levels
      BY <1>4, <3>1, <3>3 DEF Database
    <3>5. ASSUME NEW v \in Sources, NEW place, reserve.steps[place] = Stored(db, mng, v)
          PROVE  Nearly(v, place)'
      <4>1. CASE v = mng.vsrc
        <5>1. Stored(db, mng, v)' = adjust'.levels
          BY <1>1, <1>3, <1>5, <3>4, <4>1 DEF Stored, ModeOf
        <5>2. Others(reserve.steps[place])'
          BY <1>1, <1>3, <3>1, <3>5, <4>1 DEF Others, Selected, Stored
        <5> QED
          BY <1>1, <4>1, <5>1, <5>2 DEF Nearly
      <4>2. CASE v # mng.vsrc
        BY <1>1, <1>5, <3>5, <4>2 DEF Nearly, Stored, ModeOf
      <4> QED
        BY <4>1, <4>2
    <3>6. {"OTHER", "MULTISENSORY"} \subseteq Sources
      BY DEF Sources, ThemeSources
    <3>7. "theme" \notin behind => Nearly("OTHER", "hmi")' /\ Nearly("MULTISENSORY", "multi")'
      <4>1. "theme" \notin behind => /\ reserve.steps["hmi"] = Stored(db, mng, "OTHER")
                                     /\ reserve.steps["multi"] = Stored(db, mng, "MULTISENSORY")
        BY <3>2 DEF Fresh, ThemeFresh, Stored, ModeOf, ThemeSources
      <4> QED
        BY <3>5, <3>6, <4>1
    <3>8. "own" \notin behind /\ mng.vpath \in DaySources => Nearly(mng.vpath, "own")'
      <4>1. "own" \notin behind /\ mng.vpath \in DaySources =>
              mng.vpath \in Sources /\ reserve.steps["own"] = Stored(db, mng, mng.vpath)
        BY <3>2 DEF Fresh, OwnFresh, Stored, ModeOf, ThemeSources, DaySources, Sources
      <4> QED
        BY <1>1, <3>5, <4>1
    <3> QED
      BY <1>1, <3>7, <3>8 DEF Written, Nearly
  <2> QED
    BY <2>1, <2>2
<1>9. FreshInv'
  BY <1>1, <1>3, <1>8 DEF FreshInv
<1> QED
  BY <1>6, <1>7, <1>9 DEF QualityInv

\* The linked source's record goes with it, and its place in the item does not.
LEMMA AdjustLinkStep ==
  ASSUME QualityInv, AdjustLink
  PROVE  QualityInv'
<1>1. /\ adjust.phase = "link"
      /\ db' = [v \in Sources |-> IF v \in Linked(mng.vsrc) THEN adjust.record ELSE db[v]]
      /\ adjust' = [adjust EXCEPT !.phase = "save"]
      /\ UNCHANGED <<mng, reserve, current, sending, built, behind, layout, sts, covered,
                     failed, held, linkUp, asleep, clear>>
  BY DEF AdjustLink, sendVars, displayVars, powerVars
<1>2. QualityTyped /\ Agree /\ Shown /\ FreshInv /\ SentInv
  BY DEF QualityInv
<1>3. /\ DOMAIN adjust' = {"phase", "kind", "step", "levels", "record"}
      /\ adjust'.phase = "save" /\ adjust'.kind = adjust.kind
      /\ adjust'.levels = adjust.levels /\ adjust'.record = adjust.record
  BY <1>1, <1>2 DEF QualityTyped
<1>4. /\ Database(db) /\ mng.vsrc \in Sources /\ adjust.record \in [Modes(mng.vsrc) -> Levels]
  BY <1>1, <1>2 DEF QualityTyped, Manager
<1>5. /\ mng.vsrc \notin Linked(mng.vsrc) /\ Linked(mng.vsrc) \subseteq DaySources
      /\ Linked(mng.vsrc) # {} => mng.vsrc \in DaySources
      /\ "OTHER" \notin Linked(mng.vsrc) /\ "MULTISENSORY" \notin Linked(mng.vsrc)
  BY <1>4, LinkedFacts
<1>6. \A v \in Sources \ Linked(mng.vsrc) : db'[v] = db[v]
  BY <1>1
<1>7. QualityTyped'
  <2>1. \A v \in Linked(mng.vsrc) : Modes(v) = Modes(mng.vsrc)
    BY <1>5 DEF Modes, DaySources, ThemeSources
  <2>2. DOMAIN db' = Sources
    BY <1>1
  <2>3. ASSUME NEW v \in Sources PROVE db'[v] \in [Modes(v) -> Levels]
    BY <1>1, <1>4, <2>1 DEF Database
  <2>4. Database(db')
    BY <2>2, <2>3 DEF Database
  <2> QED
    BY <1>1, <1>2, <1>3, <2>4 DEF QualityTyped
<1>8. Agree' /\ Shown' /\ SentInv'
  BY <1>1, <1>2 DEF Agree, Shown, SentInv
<1>9. ASSUME clear.phase = "none"
      PROVE  Written'
  <2>1. Written
    BY <1>1, <1>2, <1>9 DEF FreshInv
  <2>2. ASSUME NEW v \in Sources \ Linked(mng.vsrc), NEW place, Nearly(v, place)
        PROVE  Nearly(v, place)'
    <3>1. Stored(db, mng, v)' = Stored(db, mng, v)
      BY <1>1, <1>6 DEF Stored, ModeOf
    <3>2. Others(reserve.steps[place])' <=> Others(reserve.steps[place])
      BY <1>1, <1>3 DEF Others
    <3> QED
      BY <1>1, <1>3, <2>2, <3>1, <3>2 DEF Nearly
  <2>3. {"OTHER", "MULTISENSORY"} \subseteq Sources \ Linked(mng.vsrc)
        /\ DaySources \subseteq Sources
    BY <1>5 DEF Sources, ThemeSources
  <2>4. "theme" \notin behind => Nearly("OTHER", "hmi")' /\ Nearly("MULTISENSORY", "multi")'
    BY <2>1, <2>2, <2>3 DEF Written
  <2>5. "own" \notin behind /\ mng.vpath \in DaySources \ Linked(mng.vsrc) => Nearly(mng.vpath, "own")'
    BY <1>1, <2>1, <2>2, <2>3 DEF Written
  <2> QED
    BY <1>1, <2>4, <2>5 DEF Written, Nearly
<1>10. FreshInv'
  BY <1>1, <1>3, <1>9 DEF FreshInv
<1> QED
  BY <1>7, <1>8, <1>10 DEF QualityInv

\* The item takes the changed step, unless its place is another one's.
LEMMA AdjustSaveStep ==
  ASSUME QualityInv, NEW saved \in BOOLEAN, NEW sent \in BOOLEAN, AdjustSave(saved, sent)
  PROVE  QualityInv'
<1> DEFINE item == IF saved THEN SetSteps(reserve, mng.vsrc, {adjust.kind}, adjust.levels)
                   ELSE reserve
           lost == IF ~saved \/ clear.phase # "none" THEN {"own", "theme"}
                   ELSE IF mng.vpath \in Linked(mng.vsrc) THEN {"own"} ELSE {}
<1>1. /\ adjust.phase = "save" /\ reserve' = item
      /\ \/ Apply(item, sent, {}, lost)
         \/ ~Needed(mng) /\ NoApply({}, lost)
      /\ sts' = [sts EXCEPT !.steps = [sts.steps EXCEPT ![adjust.kind] = Stored(db, mng, mng.vsrc)[adjust.kind]]]
      /\ adjust' = NoAdjust
      /\ UNCHANGED <<db, mng, layout, covered, failed, held, linkUp, asleep, clear>>
  BY DEF AdjustSave, powerVars
<1>2. QualityTyped /\ Agree /\ Shown /\ FreshInv /\ SentInv
  BY DEF QualityInv
<1>3. /\ Database(db) /\ mng \in Manager /\ reserve \in Item /\ sts \in Status
      /\ adjust.kind \in Kinds /\ adjust.levels \in Levels
      /\ mng.vsrc \in Sources /\ mng.vpath \in Sources
  BY <1>1, <1>2 DEF QualityTyped, Manager
<1>4. lost = {} => saved /\ clear.phase = "none" /\ mng.vpath \notin Linked(mng.vsrc)
  OBVIOUS
<1>5. /\ "theme" \notin lost => saved /\ clear.phase = "none"
      /\ "own" \notin lost => saved /\ clear.phase = "none" /\ mng.vpath \notin Linked(mng.vsrc)
      /\ \A x \in lost : x \in {"own", "theme"}
  OBVIOUS
<1>6. item \in Item /\ Kept(item, reserve)
  <2>1. CASE ~saved
    BY <1>3, <2>1 DEF Kept
  <2>2. CASE saved
    <3>1. item = SetSteps(reserve, mng.vsrc, {adjust.kind}, adjust.levels)
      BY <2>2
    <3> HIDE DEF item
    <3> QED
      BY <1>3, <3>1, StepsFacts
  <2> QED
    BY <2>1, <2>2
<1>7. ASSUME saved
      PROVE  \A place \in Places :
               /\ place # Place(reserve, mng.vsrc) => item.steps[place] = reserve.steps[place]
               /\ \A k \in Kinds :
                    item.steps[place][k]
                      = IF place = Place(reserve, mng.vsrc) /\ k \in {adjust.kind}
                        THEN adjust.levels[k] ELSE reserve.steps[place][k]
  <2>1. item = SetSteps(reserve, mng.vsrc, {adjust.kind}, adjust.levels)
    BY <1>7
  <2> HIDE DEF item
  <2> QED
    BY <1>3, <2>1, StepsFacts
<1>8. ASSUME Place(reserve, mng.vsrc) = "none"
      PROVE  item = reserve
  BY <1>8 DEF SetSteps
<1> HIDE DEF item, lost
<1>9. sts' \in Status /\ sts'.mute = sts.mute /\ sts'.light = sts.light
      /\ sts'.dayNight = sts.dayNight /\ sts'.theme = sts.theme
      /\ sts'.forceHmi = sts.forceHmi /\ sts'.forceMulti = sts.forceMulti
  <2> DEFINE steps == [sts.steps EXCEPT ![adjust.kind] = Stored(db, mng, mng.vsrc)[adjust.kind]]
  <2>1. Stored(db, mng, mng.vsrc) \in Levels
    BY <1>3, StoredType
  <2>2. steps \in Levels
    BY <1>3, <2>1 DEF Levels, Status
  <2>3. sts' = [sts EXCEPT !.steps = steps]
    BY <1>1
  <2> HIDE DEF steps
  <2> QED
    BY <1>3, <2>2, <2>3 DEF Status
<1>10. Agree'
  BY <1>1, <1>2, <1>6, <1>9 DEF Agree, Match, Kept
<1>11. /\ current' \in Item /\ sending' \in BOOLEAN /\ built' \in BOOLEAN
       /\ ~asleep /\ clear.phase = "none" /\ behind' = {} => sending' /\ Build(current') = Build(reserve')
       /\ \A x \in Lags : x \in behind' <=> x \in behind \cup lost
  <2>1. CASE Apply(item, sent, {}, lost)
    <3>1. /\ current' \in Item /\ sending' \in BOOLEAN /\ built' \in BOOLEAN
          /\ behind' = {} => sending' /\ current' = item
          /\ \A x \in Lags : x \in behind' <=> x \in (behind \ {}) \cup lost
      BY <1>2, <1>6, <2>1, Applied
    <3> QED
      BY <1>1, <3>1
  <2>2. CASE ~Needed(mng) /\ NoApply({}, lost)
    <3>1. /\ UNCHANGED <<current, sending, built>>
          /\ behind' = {} => lost = {} /\ behind = {}
          /\ \A x : x \in behind' <=> x \in (behind \ {}) \cup lost
      BY <2>2, NotApplied
    <3>2. Place(reserve, mng.vsrc) = "none"
      BY <1>2, <1>3, <2>2
      DEF Needed, TypeOf, Place, Agree, Match, Sources, ThemeSources, DaySources
    <3> QED
      BY <1>1, <1>2, <1>8, <3>1, <3>2 DEF QualityTyped, SentInv
  <2> QED
    BY <1>1, <2>1, <2>2
<1>12. Shown'
  BY <1>1, <1>2, <1>5, <1>6, <1>11 DEF Shown, Kept, Lags
<1>13. QualityTyped'
  <2>1. /\ DOMAIN adjust' = {"phase", "kind", "step", "levels", "record"}
        /\ adjust'.phase = "none" /\ adjust'.levels \in Levels
    BY <1>1, PictureAssumption DEF NoAdjust, InitLevels, Levels
  <2> QED
    BY <1>1, <1>2, <1>6, <1>9, <1>11, <2>1 DEF QualityTyped, Database
<1>14. ASSUME saved, NEW v \in Sources, NEW place \in Places, Nearly(v, place),
              Place(reserve, mng.vsrc) = place <=> v = mng.vsrc
       PROVE  item.steps[place] = Stored(db, mng, v)
  <2>1. CASE v = mng.vsrc
    <3>1. item.steps[place] \in Levels
      BY <1>6, <1>14 DEF Item
    <3>2. \A k \in Kinds : item.steps[place][k] = adjust.levels[k]
      BY <1>7, <1>14, <2>1 DEF Nearly, Others
    <3>3. item.steps[place] = adjust.levels
      BY <1>3, <3>1, <3>2, LevelsEqual
    <3> QED
      BY <1>14, <2>1, <3>3 DEF Nearly
  <2>2. CASE v # mng.vsrc
    BY <1>7, <1>14, <2>2 DEF Nearly
  <2> QED
    BY <2>1, <2>2
<1>15. ASSUME clear.phase = "none", "theme" \notin behind'
       PROVE  ThemeFresh(db, mng, item)
  <2>1. saved /\ "theme" \notin behind
    BY <1>5, <1>11, <1>15 DEF Lags
  <2>2. Nearly("OTHER", "hmi") /\ Nearly("MULTISENSORY", "multi")
    BY <1>1, <1>2, <1>15, <2>1 DEF FreshInv, Written
  <2>3. /\ Place(reserve, mng.vsrc) = "hmi" <=> "OTHER" = mng.vsrc
        /\ Place(reserve, mng.vsrc) = "multi" <=> "MULTISENSORY" = mng.vsrc
    BY DEF Place
  <2>4. /\ "OTHER" \in Sources /\ "MULTISENSORY" \in Sources
        /\ "hmi" \in Places /\ "multi" \in Places
    BY DEF Sources, ThemeSources, Places
  <2>5. item.steps["hmi"] = Stored(db, mng, "OTHER")
    BY <1>14, <2>1, <2>2, <2>3, <2>4
  <2>6. item.steps["multi"] = Stored(db, mng, "MULTISENSORY")
    BY <1>14, <2>1, <2>2, <2>3, <2>4
  <2> QED
    BY <2>5, <2>6 DEF ThemeFresh, Stored, ModeOf, ThemeSources
<1>16. ASSUME clear.phase = "none", "own" \notin behind'
       PROVE  OwnFresh(db, mng, item)
  <2>1. saved /\ mng.vpath \notin Linked(mng.vsrc) /\ "own" \notin behind
    BY <1>5, <1>11, <1>16 DEF Lags
  <2> SUFFICES ASSUME mng.vpath \in DaySources
               PROVE  item.steps["own"] = db[mng.vpath][mng.dayNight]
    BY DEF OwnFresh
  <2>2. Nearly(mng.vpath, "own")
    BY <1>1, <1>2, <1>16, <2>1 DEF FreshInv, Written
  <2>3. Place(reserve, mng.vsrc) = "own" <=> mng.vpath = mng.vsrc
    BY <1>2, <1>3 DEF Place, Agree, Match, DaySources, Sources, ThemeSources
  <2>4. "own" \in Places
    BY DEF Places
  <2>5. item.steps["own"] = Stored(db, mng, mng.vpath)
    BY <1>3, <1>14, <2>1, <2>2, <2>3, <2>4
  <2> QED
    BY <2>5 DEF Stored, ModeOf, DaySources, ThemeSources
<1>17. FreshInv'
  <2>1. adjust'.phase = "none"
    BY <1>1 DEF NoAdjust
  <2> QED
    BY <1>1, <1>15, <1>16, <2>1 DEF FreshInv, Fresh
<1>18. SentInv'
  BY <1>1, <1>11 DEF SentInv
<1> QED
  BY <1>10, <1>12, <1>13, <1>17, <1>18 DEF QualityInv

-----------------------------------------------------------------------------
(* The records are cleared                                                 *)

\* While records are cleared nothing is said of the copies.
LEMMA ClearStartStep ==
  ASSUME QualityInv, ClearStart
  PROVE  QualityInv'
<1>1. /\ clear' = [clear EXCEPT !.phase = "write", !.done = 0]
      /\ UNCHANGED <<db, mng, reserve, current, sending, built, behind, layout, sts, covered,
                     failed, held, linkUp, asleep, adjust>>
  BY DEF ClearStart, colorVars, sendVars, displayVars, powerVars
<1>2. QualityTyped /\ Agree /\ Shown
  BY DEF QualityInv
<1>3. /\ clear' \in [phase : {"none", "write", "save", "apply"}, done : Nat, levels : Levels]
      /\ clear'.phase = "write"
  BY <1>1, <1>2 DEF QualityTyped
<1>4. QualityTyped'
  BY <1>1, <1>2, <1>3 DEF QualityTyped, Database
<1> QED
  BY <1>1, <1>2, <1>3, <1>4 DEF QualityInv, Agree, Shown, FreshInv, SentInv

\* One more record is cleared.
LEMMA ClearWriteStep ==
  ASSUME QualityInv, ClearWrite
  PROVE  QualityInv'
<1> DEFINE v == RecordOrder[clear.done + 1]
           new == [mode \in Modes(v) |-> InitLevels]
           done == clear.done + 1
           phase == IF done = Len(RecordOrder) THEN "save" ELSE "write"
<1>1. /\ db' = [db EXCEPT ![v] = new]
      /\ clear' = [clear EXCEPT !.done = done, !.phase = phase]
      /\ UNCHANGED <<mng, reserve, current, sending, built, behind, layout, sts, covered,
                     failed, held, linkUp, asleep, adjust>>
  BY DEF ClearWrite, sendVars, displayVars, powerVars
<1>2. QualityTyped /\ Agree /\ Shown
  BY DEF QualityInv
<1>3. phase \in {"save", "write"} /\ done \in Nat
  BY <1>2 DEF QualityTyped
<1>4. new \in [Modes(v) -> Levels]
  BY PictureAssumption DEF InitLevels, Levels
<1> HIDE DEF v, new, done, phase
<1>5. /\ clear' \in [phase : {"none", "write", "save", "apply"}, done : Nat, levels : Levels]
      /\ clear'.phase # "none"
  BY <1>1, <1>2, <1>3 DEF QualityTyped
<1>6. Database(db')
  <2>1. DOMAIN db = Sources /\ \A s \in Sources : db[s] \in [Modes(s) -> Levels]
    BY <1>2 DEF QualityTyped, Database
  <2>2. DOMAIN db' = Sources
    BY <1>1, <2>1
  <2>3. ASSUME NEW s \in Sources
        PROVE  db'[s] \in [Modes(s) -> Levels]
    BY <1>1, <1>4, <2>1
  <2> QED
    BY <2>2, <2>3 DEF Database
<1>7. QualityTyped'
  BY <1>1, <1>2, <1>5, <1>6 DEF QualityTyped
<1> QED
  BY <1>1, <1>2, <1>5, <1>7 DEF QualityInv, Agree, Shown, FreshInv, SentInv

\* A clearing that could not be saved leaves the copies behind.
LEMMA ClearSaveStep ==
  ASSUME QualityInv, NEW saved \in BOOLEAN, ClearSave(saved)
  PROVE  QualityInv'
<1> DEFINE phase == IF saved THEN "apply" ELSE "none"
           levels == IF saved THEN Stored(db, mng, mng.vpath) ELSE clear.levels
           lost == IF saved THEN {} ELSE {"own", "theme"}
<1>1. /\ clear' = [clear EXCEPT !.phase = phase, !.levels = levels]
      /\ NoApply({}, lost)
      /\ UNCHANGED <<db, mng, reserve, layout, sts, covered, failed, held, linkUp, asleep, adjust>>
  BY DEF ClearSave, colorVars, displayVars, powerVars
<1>2. QualityTyped /\ Agree /\ Shown
  BY DEF QualityInv
<1>3. Stored(db, mng, mng.vpath) \in Levels
  <2>1. Database(db) /\ mng \in Manager /\ mng.vpath \in Sources
    BY <1>2 DEF QualityTyped, Manager
  <2> QED
    BY <2>1, StoredType
<1>4. phase \in {"apply", "none"} /\ levels \in Levels
  BY <1>2, <1>3 DEF QualityTyped
<1>5. phase = "none" => "own" \in lost /\ "theme" \in lost
  OBVIOUS
<1>6. \A x \in lost : x \in {"own", "theme"}
  OBVIOUS
<1> HIDE DEF phase, levels, lost
<1>7. /\ clear' \in [phase : {"none", "write", "save", "apply"}, done : Nat, levels : Levels]
      /\ clear'.phase = phase
  BY <1>1, <1>2, <1>4 DEF QualityTyped
<1>8. /\ UNCHANGED <<current, sending, built>>
      /\ \A x : x \in behind' <=> x \in (behind \ {}) \cup lost
  <2>1. NoApply({}, lost)
    BY <1>1
  <2>2. UNCHANGED <<current, sending, built>>
    BY <2>1 DEF NoApply
  <2>3. behind' = (behind \ ({} \cup {})) \cup lost
    BY <2>1 DEF NoApply, Lag
  <2> QED
    BY <2>2, <2>3
<1>9. QualityTyped'
  BY <1>1, <1>2, <1>7, <1>8 DEF QualityTyped, Database
<1>10. Agree' /\ Shown'
  <2>1. "front" \notin lost /\ "path" \notin lost /\ "camera" \notin lost
    BY <1>6
  <2>2. /\ "front" \in behind' <=> "front" \in behind
        /\ "path" \in behind' <=> "path" \in behind
        /\ "camera" \in behind' <=> "camera" \in behind
    BY <1>8, <2>1
  <2> QED
    BY <1>1, <1>2, <2>2 DEF Agree, Shown
<1>11. phase = "none" => "own" \in behind' /\ "theme" \in behind'
  BY <1>5, <1>8
<1>12. FreshInv'
  BY <1>7, <1>11 DEF FreshInv, Fresh, Changing, Writing, Written
<1>13. SentInv'
  BY <1>7, <1>11 DEF SentInv
<1> QED
  BY <1>9, <1>10, <1>12, <1>13 DEF QualityInv

\* The shown source takes the steps that were read, unless they are late.
LEMMA ClearApplyStep ==
  ASSUME QualityInv, NEW sent \in BOOLEAN, ClearApply(sent)
  PROVE  QualityInv'
<1> DEFINE late == adjust.phase # "none" \/ clear.levels # Stored(db, mng, mng.vpath)
           lost == ThemeLag(mng, reserve') \cup IF late THEN {"own", "theme"} ELSE {}
<1>1. /\ clear' = [clear EXCEPT !.phase = "none", !.levels = InitLevels]
      /\ reserve' = SetSteps(reserve, mng.vpath, Kinds, clear.levels)
      /\ Apply(reserve', sent, {}, lost)
      /\ UNCHANGED <<db, mng, layout, sts, covered, failed, held, linkUp, asleep, adjust>>
  BY DEF ClearApply, displayVars, powerVars
<1>2. QualityTyped /\ Agree /\ Shown
  BY DEF QualityInv
<1>3. /\ Database(db) /\ mng \in Manager /\ reserve \in Item /\ mng.vpath \in Sources
      /\ clear.levels \in Levels
  BY <1>2 DEF QualityTyped, Manager
<1>4. /\ late => {"own", "theme"} \subseteq lost
      /\ "theme" \notin lost => "theme" \notin ThemeLag(mng, reserve')
      /\ \A x \in lost : x \in {"own", "theme"}
  BY DEF ThemeLag
<1> HIDE DEF lost
<1>5. reserve' \in Item /\ Kept(reserve', reserve)
  BY <1>1, <1>3, WholeSteps
<1>6. /\ clear' \in [phase : {"none", "write", "save", "apply"}, done : Nat, levels : Levels]
      /\ clear'.phase = "none"
  BY <1>1, <1>2, PictureAssumption DEF QualityTyped, InitLevels, Levels
<1>7. /\ current' \in Item /\ sending' \in BOOLEAN /\ built' \in BOOLEAN
      /\ behind' = {} => sending' /\ current' = reserve'
      /\ \A x \in Lags : x \in behind' <=> x \in (behind \ {}) \cup lost
  BY <1>1, <1>2, <1>5, Applied
<1>8. QualityTyped'
  BY <1>1, <1>2, <1>5, <1>6, <1>7 DEF QualityTyped, Database
<1>9. Agree'
  BY <1>1, <1>2, <1>5 DEF Agree, Match, Kept
<1>10. Shown'
  BY <1>1, <1>2, <1>4, <1>5, <1>7 DEF Shown, Kept, Lags
<1>11. FreshInv'
  <2>1. CASE late
    <3>1. {"own", "theme"} \subseteq behind'
      BY <1>4, <1>7, <2>1 DEF Lags
    <3> QED
      BY <3>1 DEF FreshInv, Fresh, Changing, Writing, Written
  <2>2. CASE ~late
    <3>1. adjust.phase = "none" /\ reserve' = ShowSource(db, mng, reserve)
      BY <1>1, <2>2 DEF ShowSource
    <3>2. OwnFresh(db, mng, reserve')
      <4>1. reserve.src = mng.vpath /\ reserve.dayNight = mng.dayNight
            /\ reserve.theme = mng.theme /\ mng.vpath # "MULTISENSORY"
        BY <1>2 DEF Agree, Match
      <4> QED
        BY <1>3, <3>1, <4>1, ShowFacts
    <3>3. "theme" \notin behind' => ThemeFresh(db, mng, reserve')
      <4>1. "theme" \notin behind' => "theme" \notin ThemeLag(mng, reserve')
        BY <1>4, <1>7 DEF Lags
      <4> QED
        BY <4>1 DEF ThemeLag, ThemeFresh, Place, Stored, ModeOf, ThemeSources
    <3> QED
      BY <1>1, <3>1, <3>2, <3>3 DEF FreshInv, Fresh
  <2> QED
    BY <2>1, <2>2
<1>12. SentInv'
  BY <1>7 DEF SentInv
<1> QED
  BY <1>8, <1>9, <1>10, <1>11, <1>12 DEF QualityInv

-----------------------------------------------------------------------------
(* Suspend and resume                                                      *)

\* A suspend starts manager and item anew, but not the records.
LEMMA SuspendStep ==
  ASSUME QualityInv, NEW shown \in BOOLEAN, NEW camera \in BOOLEAN, NEW front \in BOOLEAN,
         StrSuspend(shown, camera, front)
  PROVE  QualityInv'
<1>1. /\ adjust.phase = "none" /\ asleep' = TRUE /\ linkUp' = FALSE
      /\ covered' = (covered \/ shown) /\ failed' = ~shown /\ held' = FALSE
      /\ layout' = [front |-> IF front THEN "" ELSE layout.front,
                    camera |-> IF camera THEN "" ELSE layout.camera]
      /\ mng' = NewManager /\ reserve' = NewItem /\ current' = NewItem
      /\ sending' = FALSE /\ built' = FALSE
      /\ behind' = ThemeLag(NewManager, NewItem) \cup (IF front THEN {} ELSE {"path"})
                     \cup (IF camera THEN {} ELSE {"camera"})
      /\ sts' = [NewStatus EXCEPT !.steps = Stored(db, NewManager, "OTHER")]
      /\ UNCHANGED <<db, adjust, clear>>
  BY DEF StrSuspend, Handles, workVars
<1>2. QualityTyped
  BY DEF QualityInv
<1>3. NewManager \in Manager /\ NewManager.vpath = "OTHER" /\ NewManager.dayNight = Night
      /\ NewManager.theme = AutoDark /\ NewManager.camera = ""
  BY PictureAssumption DEF NewManager, Manager, Sources, ThemeSources, CameraPaths
<1>4. InitLevels \in Levels
  BY PictureAssumption DEF InitLevels, Levels
<1>5. /\ NewItem \in Item /\ NewItem.src = "OTHER" /\ NewItem.camera = "" /\ NewItem.front = ""
      /\ NewItem.dayNight = Night /\ NewItem.theme = AutoDark
      /\ NewItem.light = TRUE /\ NewItem.mute = TRUE
      /\ NewItem.forceHmi = FALSE /\ NewItem.forceMulti = FALSE
  BY <1>4, PictureAssumption DEF NewItem, Item, Places, Sources, ThemeSources, CameraPaths
<1>6. /\ sts' \in Status /\ sts'.dayNight = Night /\ sts'.theme = AutoDark
      /\ sts'.light = TRUE /\ sts'.mute = TRUE /\ sts'.forceHmi = FALSE /\ sts'.forceMulti = FALSE
  <2>1. "OTHER" \in Sources /\ Database(db)
    BY <1>2 DEF Sources, ThemeSources, QualityTyped
  <2>2. Stored(db, NewManager, "OTHER") \in Levels
    BY <1>3, <2>1, StoredType
  <2> QED
    BY <1>1, <2>2, PictureAssumption DEF NewStatus, Status
<1>7. /\ layout' \in [front : FrontPaths, camera : CameraPaths]
      /\ front => layout'.front = ""
      /\ camera => layout'.camera = ""
  BY <1>1, <1>2, PictureAssumption DEF QualityTyped, CameraPaths
<1>8. QualityTyped'
  BY <1>1, <1>2, <1>3, <1>5, <1>6, <1>7 DEF QualityTyped, Database
<1>9. Agree'
  BY <1>1, <1>3, <1>5, <1>6 DEF Agree, Match
<1>10. Shown'
  <2>1. ("camera" \notin behind' => camera) /\ ("path" \notin behind' => front)
    BY <1>1
  <2> QED
    BY <1>1, <1>3, <1>5, <1>7, <2>1, SourceFacts DEF Shown
<1>11. FreshInv'
  <2>1. "theme" \notin behind' => ThemeFresh(db, NewManager, NewItem)
    BY <1>1 DEF ThemeLag, ThemeFresh, Place, Stored, ModeOf, ThemeSources
  <2>2. OwnFresh(db, NewManager, NewItem)
    BY <1>3 DEF OwnFresh, DaySources
  <2> QED
    BY <1>1, <2>1, <2>2 DEF FreshInv, Fresh
<1>12. SentInv'
  BY <1>1 DEF SentInv
<1> QED
  BY <1>8, <1>9, <1>10, <1>11, <1>12 DEF QualityInv

\* A resume sends what the suspend has left.
LEMMA ResumeStep ==
  ASSUME QualityInv, NEW opened \in BOOLEAN, NEW sent \in BOOLEAN, StrResume(opened, sent)
  PROVE  QualityInv'
<1>1. /\ asleep' = FALSE /\ linkUp' = opened /\ (sent => opened)
      /\ current' = (IF opened THEN reserve ELSE current)
      /\ sending' = sent /\ built' = opened
      /\ Lag(sent, {}, IF sent THEN {} ELSE {"unsent"})
      /\ UNCHANGED <<db, mng, reserve, layout, sts, covered, failed, held, adjust, clear>>
  BY DEF StrResume, colorVars, displayVars, workVars
<1>2. QualityTyped /\ Agree /\ Shown /\ FreshInv
  BY DEF QualityInv
<1>3. behind' = {} => sent
  BY <1>1 DEF Lag
<1>4. \A x \in Lags : x \in behind' <=> x \in behind
  BY <1>1 DEF Lag, Lags
<1>5. QualityTyped'
  BY <1>1, <1>2 DEF QualityTyped, Database
<1>6. Agree'
  BY <1>1, <1>2 DEF Agree
<1>7. Shown'
  BY <1>1, <1>2, <1>4 DEF Shown, Lags
<1>8. FreshInv'
  <2>1. ("theme" \in behind' <=> "theme" \in behind) /\ ("own" \in behind' <=> "own" \in behind)
    BY <1>4 DEF Lags
  <2>2. (Fresh' <=> Fresh) /\ (Changing' <=> Changing) /\ (Writing' <=> Writing)
    BY <1>1, <2>1 DEF Fresh, Changing, Writing, Others, Selected
  <2>3. Written' <=> Written
    BY <1>1, <2>1 DEF Written, Nearly, Others
  <2> QED
    BY <1>1, <1>2, <2>2, <2>3 DEF FreshInv
<1>9. SentInv'
  BY <1>1, <1>3 DEF SentInv
<1> QED
  BY <1>5, <1>6, <1>7, <1>8, <1>9 DEF QualityInv

\* Every step keeps the invariant.
LEMMA QualityStep == QualityInv /\ [Next]_vars => QualityInv'
<1> SUFFICES ASSUME QualityInv, [Next]_vars
             PROVE  QualityInv'
  OBVIOUS
<1>1. ASSUME NEW v \in Selections, VsrcFrontId(v) PROVE QualityInv'
  BY <1>1, SelectStep
<1>2. ASSUME NEW k \in Kinds, NEW n \in Steps, AdjustRead(k, n) PROVE QualityInv'
  BY <1>2, AdjustReadStep
<1>3. CASE AdjustRecord
  BY <1>3, AdjustRecordStep
<1>4. CASE AdjustWrite
  BY <1>4, AdjustWriteStep
<1>5. CASE AdjustLink
  BY <1>5, AdjustLinkStep
<1>6. ASSUME NEW saved \in BOOLEAN, NEW sent \in BOOLEAN, AdjustSave(saved, sent) PROVE QualityInv'
  BY <1>6, AdjustSaveStep
<1>7. ASSUME NEW b \in BOOLEAN, NEW sent \in BOOLEAN, ForceHmi(b, sent) \/ ForceMulti(b, sent)
      PROVE  QualityInv'
  BY <1>7, ForceHmiStep, ForceMultiStep
<1>8. ASSUME NEW b \in BOOLEAN, NEW sent \in BOOLEAN, NEW ok \in BOOLEAN,
             MuteFrontDisp(b, sent, ok) \/ MuteFrontBacklight(b, sent, ok)
      PROVE  QualityInv'
  BY <1>8, MuteStep
<1>9. ASSUME NEW ok \in BOOLEAN, PowerInVehicle(ok) PROVE QualityInv'
  BY <1>9, PowerStep
<1>10. ASSUME NEW d \in DayNights, NEW sent \in BOOLEAN, SettingDayNight(d, sent) PROVE QualityInv'
  BY <1>10, DayNightStep
<1>11. ASSUME NEW t \in Themes, NEW sent \in BOOLEAN, SettingThemeColor(t, sent) PROVE QualityInv'
  BY <1>11, ThemeStep
<1>12. ASSUME NEW path \in FrontPaths, NEW sent \in BOOLEAN, VpathFront(path, sent) PROVE QualityInv'
  BY <1>12, FrontStep
<1>13. ASSUME NEW sent \in BOOLEAN, VpathCameraOn(sent) PROVE QualityInv'
  BY <1>13, CameraOnStep
<1>14. ASSUME NEW first \in BOOLEAN, NEW sent \in BOOLEAN, VpathCameraOff(first, sent)
       PROVE  QualityInv'
  BY <1>14, CameraOffStep
<1>15. CASE ClearStart \/ ClearWrite
  BY <1>15, ClearStartStep, ClearWriteStep
<1>16. ASSUME NEW saved \in BOOLEAN, ClearSave(saved) PROVE QualityInv'
  BY <1>16, ClearSaveStep
<1>17. ASSUME NEW sent \in BOOLEAN, ClearApply(sent) PROVE QualityInv'
  BY <1>17, ClearApplyStep
<1>18. ASSUME NEW shown \in BOOLEAN, NEW camera \in BOOLEAN, NEW front \in BOOLEAN,
              StrSuspend(shown, camera, front)
       PROVE  QualityInv'
  BY <1>18, SuspendStep
<1>19. ASSUME NEW opened \in BOOLEAN, NEW sent \in BOOLEAN, StrResume(opened, sent)
       PROVE  QualityInv'
  BY <1>19, ResumeStep
<1>20. CASE UNCHANGED vars
  <2>1. UNCHANGED <<db, mng, reserve, current, sending, built, behind, layout, sts, covered,
                    failed, held, linkUp, asleep, adjust, clear>>
    BY <1>20 DEF vars, colorVars, sendVars, displayVars, powerVars, workVars
  <2>2. QualityTyped'
    BY <2>1 DEF QualityInv, QualityTyped, Database
  <2>3. Agree' /\ Shown' /\ SentInv'
    BY <2>1 DEF QualityInv, Agree, Shown, SentInv
  <2>4. (Fresh' <=> Fresh) /\ (Changing' <=> Changing) /\ (Writing' <=> Writing)
    BY <2>1 DEF Fresh, Changing, Writing, Others, Selected
  <2>5. Written' <=> Written
    BY <2>1 DEF Written, Nearly, Others
  <2>6. FreshInv'
    BY <2>1, <2>4, <2>5 DEF QualityInv, FreshInv
  <2> QED
    BY <2>2, <2>3, <2>6 DEF QualityInv
<1> QED
  BY <1>1, <1>2, <1>3, <1>4, <1>5, <1>6, <1>7, <1>8, <1>9, <1>10, <1>11, <1>12, <1>13, <1>14,
     <1>15, <1>16, <1>17, <1>18, <1>19, <1>20 DEF Next

-----------------------------------------------------------------------------
(* What is notified, and the mute surface                                  *)

\* Between requests the item is the one that is wanted, as far as Build reads it.
LEMMA WantedIsReserved ==
  ASSUME QualityInv, clear.phase = "none", adjust.phase = "none", behind = {}
  PROVE  Build(reserve) = Build(WantedItem)
<1>1. /\ mng \in Manager /\ Match(mng, reserve) /\ Agree /\ Shown
      /\ ThemeFresh(db, mng, reserve) /\ OwnFresh(db, mng, reserve)
  BY DEF QualityInv, QualityTyped, Agree, FreshInv, Fresh
<1> DEFINE src == SourceOf(IF layout.camera # "" THEN layout.camera ELSE layout.front)
           StepsOf(v) == db[v][IF v \in ThemeSources THEN sts.theme ELSE sts.dayNight]
<1>2. /\ WantedItem.src = src
      /\ WantedItem.steps["hmi"] = StepsOf("OTHER") /\ WantedItem.steps["multi"] = StepsOf("MULTISENSORY")
      /\ WantedItem.steps["own"] = StepsOf(src)
      /\ WantedItem.light = sts.light /\ WantedItem.mute = sts.mute
      /\ WantedItem.dayNight = sts.dayNight /\ WantedItem.theme = sts.theme
      /\ WantedItem.forceHmi = sts.forceHmi /\ WantedItem.forceMulti = sts.forceMulti
      /\ WantedItem.front = layout.front /\ WantedItem.camera = layout.camera
  BY DEF WantedItem
<1>3. /\ reserve.steps["hmi"] = StepsOf("OTHER") /\ reserve.steps["multi"] = StepsOf("MULTISENSORY")
      /\ reserve.src \in DaySources => reserve.steps["own"] = StepsOf(reserve.src)
  BY <1>1 DEF ThemeFresh, OwnFresh, Agree, Match, ThemeSources, DaySources
<1>4. reserve.src = src
  <2>1. CASE layout.camera = ""
    BY <1>1, <2>1 DEF Shown
  <2>2. CASE layout.camera # ""
    <3>1. layout.camera = "CAMERA" /\ mng.camera = "CAMERA"
      BY <1>1, <2>2 DEF Shown, Manager, CameraPaths
    <3> QED
      BY <1>1, <2>2, <3>1, SourceFacts DEF Match
  <2> QED
    BY <2>1, <2>2
<1>5. reserve.src \in DaySources => reserve.steps["own"] = WantedItem.steps["own"]
  BY <1>2, <1>3, <1>4
<1> HIDE DEF src, StepsOf
<1>6. reserve.camera = layout.camera /\ (reserve.camera = "" => reserve.front = layout.front)
  BY <1>1 DEF Shown, Match
<1>7. reserve.camera = "CAMERA" => reserve.src \in DaySources
  BY <1>1 DEF Match, DaySources
<1>8. reserve.src \in ThemeSources \cup DaySources /\ (reserve.camera = "" \/ reserve.camera = "CAMERA")
  BY <1>1 DEF Match, Manager, Sources, CameraPaths
<1>9. /\ reserve.src = WantedItem.src /\ reserve.camera = WantedItem.camera
      /\ reserve.steps["hmi"] = WantedItem.steps["hmi"]
      /\ reserve.steps["multi"] = WantedItem.steps["multi"]
      /\ reserve.light = WantedItem.light /\ reserve.mute = WantedItem.mute
      /\ reserve.dayNight = WantedItem.dayNight /\ reserve.theme = WantedItem.theme
      /\ reserve.forceHmi = WantedItem.forceHmi /\ reserve.forceMulti = WantedItem.forceMulti
  BY <1>1, <1>2, <1>3, <1>4, <1>6 DEF Agree, Match
<1>10. reserve.camera = "" => reserve.front = WantedItem.front
  BY <1>2, <1>6
<1> QED
  BY <1>5, <1>7, <1>8, <1>9, <1>10 DEF Build

\* Manager, item, records and both threads' work keep their types.
THEOREM QualityTypeCorrect == Spec => []QualityTyped
<1>1. Init => QualityInv
  BY QualityInitial
<1>2. QualityInv /\ [Next]_vars => QualityInv'
  BY QualityStep
<1>3. QualityInv => QualityTyped
  BY DEF QualityInv
<1> QED
  BY <1>1, <1>2, <1>3, PTL DEF Spec

\* For any kinds and values of adjustments, modes and paths: between requests, and
\* with no known cause to lag, what is repeated to the MICON is what the paths, the
\* stored steps and the modes call for (CVhalColorManager, ApplyAdjustment, Build).
THEOREM NotifiedCorrect == Spec => []NotifiedIsWanted
<1>1. Init => QualityInv
  BY QualityInitial
<1>2. QualityInv /\ [Next]_vars => QualityInv'
  BY QualityStep
<1>3. QualityInv => NotifiedIsWanted
  <2> SUFFICES ASSUME QualityInv, ~asleep, adjust.phase = "none", clear.phase = "none", behind = {}
               PROVE  sending /\ Build(current) = Build(WantedItem)
    BY DEF NotifiedIsWanted
  <2> QED
    BY WantedIsReserved DEF QualityInv, SentInv
<1> QED
  BY <1>1, <1>2, <1>3, PTL DEF Spec

\* Every order of mutes, backlight requests and power states leaves the front display
\* covered exactly while one of them asks for it, unless switching the surface failed
\* (ActionMuteFrontDisp, ActionMuteFrontBacklight, ChangePowerState, StrSuspend).
THEOREM CoverCorrect == Spec => []CoverFollowsRequests
<1> DEFINE Inv == QualityInv /\ CoverFollowsRequests
<1>1. Init => Inv
  <2>1. Init => QualityInv
    BY QualityInitial
  <2>2. Init => covered = TRUE /\ sts.mute = TRUE
    BY DEF Init, NewStatus
  <2> QED
    BY <2>1, <2>2 DEF CoverFollowsRequests
<1>2. Inv /\ [Next]_vars => Inv'
  <2> SUFFICES ASSUME QualityInv, CoverFollowsRequests, [Next]_vars
               PROVE  CoverFollowsRequests'
    BY QualityStep
  <2>1. /\ sts \in Status /\ sts.mute \in BOOLEAN /\ sts.light \in BOOLEAN
        /\ covered \in BOOLEAN /\ failed \in BOOLEAN /\ held \in BOOLEAN
    BY DEF QualityInv, QualityTyped, Status
  <2>2. ASSUME UNCHANGED <<covered, failed, held>>, sts'.mute = sts.mute, sts'.light = sts.light
        PROVE  CoverFollowsRequests'
    BY <2>2 DEF CoverFollowsRequests
  <2>3. ASSUME NEW item, NEW on \in BOOLEAN, NEW alone \in BOOLEAN, NEW sent \in BOOLEAN,
               NEW ok \in BOOLEAN, SwitchCover(item, on, alone, sent, ok),
               alone => (on <=> sts'.mute \/ ~sts'.light),
               ~alone => (sts.mute \/ ~sts.light) /\ (sts'.mute \/ ~sts'.light)
        PROVE  CoverFollowsRequests'
    <3>1. CASE ~alone
      BY <2>3, <3>1 DEF SwitchCover, CoverFollowsRequests
    <3>2. CASE alone /\ on
      BY <2>1, <2>3, <3>2 DEF SwitchCover, CoverFollowsRequests
    <3>3. CASE alone /\ ~on
      BY <2>3, <3>3 DEF SwitchCover, CoverFollowsRequests
    <3> QED
      BY <3>1, <3>2, <3>3
  <2>4. ASSUME NEW b \in BOOLEAN, NEW sent \in BOOLEAN, NEW ok \in BOOLEAN,
               MuteFrontDisp(b, sent, ok)
        PROVE  CoverFollowsRequests'
    <3>1. /\ SwitchCover([reserve EXCEPT !.mute = b], b, sts.light, sent, ok)
          /\ sts'.mute = b /\ sts'.light = sts.light
      BY <2>1, <2>4 DEF MuteFrontDisp, Status
    <3> QED
      BY <2>1, <2>3, <3>1
  <2>5. ASSUME NEW b \in BOOLEAN, NEW sent \in BOOLEAN, NEW ok \in BOOLEAN,
               MuteFrontBacklight(b, sent, ok)
        PROVE  CoverFollowsRequests'
    <3>1. /\ SwitchCover([reserve EXCEPT !.light = b], ~b, ~sts.mute, sent, ok)
          /\ sts'.light = b /\ sts'.mute = sts.mute
          /\ (~b) \in BOOLEAN /\ (~sts.mute) \in BOOLEAN
      BY <2>1, <2>5 DEF MuteFrontBacklight, Status
    <3> QED
      BY <2>1, <2>3, <3>1
  <2>6. ASSUME NEW ok \in BOOLEAN, PowerInVehicle(ok)
        PROVE  CoverFollowsRequests'
    BY <2>1, <2>6 DEF PowerInVehicle, CoverFollowsRequests
  <2>7. ASSUME NEW shown \in BOOLEAN, NEW camera \in BOOLEAN, NEW front \in BOOLEAN,
               StrSuspend(shown, camera, front)
        PROVE  CoverFollowsRequests'
    <3>1. covered' = (covered \/ shown) /\ failed' = ~shown /\ sts'.mute = TRUE
      BY <2>7 DEF StrSuspend, NewStatus
    <3> QED
      BY <2>1, <3>1 DEF CoverFollowsRequests
  <2>8. ASSUME NEW v \in Selections, VsrcFrontId(v)
        PROVE  CoverFollowsRequests'
    BY <2>1, <2>2, <2>8 DEF VsrcFrontId, Status
  <2>9. ASSUME NEW saved \in BOOLEAN, NEW sent \in BOOLEAN, AdjustSave(saved, sent)
        PROVE  CoverFollowsRequests'
    BY <2>1, <2>2, <2>9 DEF AdjustSave, Status
  <2>10. ASSUME NEW b \in BOOLEAN, NEW sent \in BOOLEAN, ForceHmi(b, sent) \/ ForceMulti(b, sent)
         PROVE  CoverFollowsRequests'
    BY <2>1, <2>2, <2>10 DEF ForceHmi, ForceMulti, Status
  <2>11. ASSUME NEW d \in DayNights, NEW sent \in BOOLEAN, SettingDayNight(d, sent)
         PROVE  CoverFollowsRequests'
    BY <2>1, <2>2, <2>11 DEF SettingDayNight, Status
  <2>12. ASSUME NEW t \in Themes, NEW sent \in BOOLEAN, SettingThemeColor(t, sent)
         PROVE  CoverFollowsRequests'
    BY <2>1, <2>2, <2>12 DEF SettingThemeColor, Status
  <2>13. ASSUME NEW sent \in BOOLEAN, NEW other,
                \/ VpathFront(other, sent) \/ VpathCameraOn(sent) \/ VpathCameraOff(other, sent)
         PROVE  CoverFollowsRequests'
    BY <2>2, <2>13 DEF VpathFront, VpathCameraOn, VpathCameraOff
  <2>14. ASSUME NEW a, NEW b,
                \/ AdjustRead(a, b) \/ AdjustRecord \/ AdjustWrite \/ AdjustLink
                \/ ClearStart \/ ClearWrite \/ ClearSave(a) \/ ClearApply(a) \/ StrResume(a, b)
         PROVE  CoverFollowsRequests'
    <3>1. UNCHANGED displayVars
      BY <2>14 DEF AdjustRead, AdjustRecord, AdjustWrite, AdjustLink, ClearStart, ClearWrite,
                   ClearSave, ClearApply, StrResume
    <3> QED
      BY <2>2, <3>1 DEF displayVars
  <2>15. CASE UNCHANGED vars
    BY <2>2, <2>15 DEF vars, displayVars
  <2> QED
    BY <2>4, <2>5, <2>6, <2>7, <2>8, <2>9, <2>10, <2>11, <2>12, <2>13, <2>14, <2>15 DEF Next
<1>3. Inv => CoverFollowsRequests
  OBVIOUS
<1> HIDE DEF Inv
<1> QED
  BY <1>1, <1>2, <1>3, PTL DEF Spec

=============================================================================
