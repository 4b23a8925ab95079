---------------------------- MODULE CameraProofs ----------------------------
(***************************************************************************)
(* Proofs about CameraControl.                                             *)
(*                                                                         *)
(* HandlerInv says what the main thread's handler has yet to do and what   *)
(* the camera holds meanwhile; PinInv, FrameInv, RightInv and CaptureInv   *)
(* are the four invariants of the runs with the conditions under which     *)
(* they hold in the middle of a handler, too.                              *)
(***************************************************************************)
EXTENDS CameraControl, SequenceTheorems, TLAPS

Ops == {"close", "raise", "lower", "retype", "reset", "suspend"}
Ends(op) == todo # <<>> /\ todo[Len(todo)][1] = op

\* What may be left to do: one thing, or one more after closing a capture.
TodoOK ==
  /\ todo \in Seq(Ops \X (Types \cup {NoType}))
  /\ Len(todo) <= 2
  /\ Len(todo) = 2 => todo[1][1] = "close" /\ todo[2][1] \notin {"close", "lower"}

\* The handler is done; has a capture to close; closes one because its thread
\* did not start; has yet to announce a frame; to lower the pin; to suspend.
Resting == todo = <<>>
Closing == Goes("close")
Failing == Closing /\ (Ends("close") \/ Ends("raise"))
Raising == Ends("raise")
Lowering == Ends("lower")
Suspending == Ends("suspend")
\* The camera is as the requests left it.
Standing == Resting \/ Goes("raise") \/ Goes("lower")

CameraType == [open : BOOLEAN, send : BOOLEAN, started : BOOLEAN, held : SUBSET Whole]
Reasons == {"right", "open", "capture", "send", "standby", "signal"}

FileOK == right \in Rights /\ told \in Seq(Rights) /\ known \in Rights
FlagsOK ==
  /\ noticed \in BOOLEAN /\ waiting \in BOOLEAN /\ timer \in BOOLEAN
  /\ sync \in BOOLEAN /\ visual \in BOOLEAN /\ request \in BOOLEAN /\ covered \in BOOLEAN
  /\ asleep \in BOOLEAN /\ starting \in BOOLEAN /\ silent \in BOOLEAN
CameraOK == camera \in CameraType /\ type \in Types \cup {NoType} /\ path \in {"", CameraPath}
PinOK ==
  /\ stby2 \in BOOLEAN /\ pin \in BOOLEAN
  /\ frame \in {"Initial", "Ready", "Changed"} /\ draw \in {"idle", "cover", "raise"}
CountsOK == due \in Nat /\ wait \in Nat /\ used \in Nat
AstrayOK == astray \in SUBSET Reasons

TypeOK == FileOK /\ FlagsOK /\ CameraOK /\ PinOK /\ CountsOK /\ AstrayOK /\ TodoOK

\* An open capture holds all it needs unless its thread did not start; while
\* none is open nothing is held, sent or drawn.
HandlerInv ==
  /\ camera.open /\ ~Failing => camera.held = Whole
  /\ ~camera.open => camera.held \subseteq {"qcarcam"} /\ ~camera.send /\ ~camera.started
  /\ Closing => camera.open
  /\ camera.open => Closing \/ Standing
  /\ Failing => "open" \in astray /\ ~camera.started
  /\ draw # "idle" => camera.open /\ ~Failing
  /\ Lowering => known = "Initial"
  /\ asleep => (Resting /\ type = NoType) \/ Suspending

PinInv ==
  "standby" \notin astray =>
    /\ stby2 = pin
    /\ pin => camera.open /\ ~Failing /\ (known # "Initial" \/ Lowering)

FrameInv ==
  known = "Ready" /\ frame = "Ready" /\ ~stby2 /\ ~Raising => "signal" \in astray

\* The value that is known once all events are handled.
Latest == IF told = <<>> THEN known ELSE told[Len(told)]
RightInv == ~noticed /\ "right" \notin astray => Latest = right

CaptureInv ==
  /\ (Standing \/ Failing) /\ ~asleep /\ type # NoType /\ known = "Ready" /\ "open" \notin astray =>
       camera.open \/ (waiting /\ (timer \/ due > 0))
  /\ Standing /\ camera.open =>
       /\ "capture" \notin astray => camera.started = (sync /\ visual)
       /\ "send" \notin astray => camera.send = (path # "")

IInv == TypeOK /\ HandlerInv /\ PinInv /\ FrameInv /\ RightInv /\ CaptureInv

-----------------------------------------------------------------------------
(* What is left of a handler                                               *)

LEMMA TodoFacts ==
  ASSUME TodoOK
  PROVE  /\ Failing => Closing
         /\ Closing => ~Standing
         /\ Resting => Standing /\ ~Raising /\ ~Lowering /\ ~Suspending
         /\ Lowering => Standing /\ ~Raising /\ ~Suspending
         /\ Raising => ~Suspending /\ ~Lowering /\ ~Resting
         /\ Standing => Resting \/ Raising \/ Lowering
         /\ Standing => ~Suspending /\ ~Failing
         /\ Failing => ~Suspending
BY DEF TodoOK, Ops, Ends, Goes, Resting, Closing, Failing, Raising, Lowering, Suspending, Standing

LEMMA TailOfOne ==
  ASSUME NEW S, NEW q \in Seq(S), Len(q) = 1
  PROVE  Tail(q) = <<>> /\ q[1] \in S
<1>1. Tail(q) \in Seq(S) /\ Len(Tail(q)) = 0 /\ q[1] \in S
  OBVIOUS
<1> QED
  BY <1>1, EmptySeq

LEMMA TailOfTwo ==
  ASSUME NEW S, NEW q \in Seq(S), Len(q) = 2
  PROVE  Tail(q) \in Seq(S) /\ Len(Tail(q)) = 1 /\ Tail(q)[1] = q[2]
<1>1. q # <<>>
  OBVIOUS
<1> QED
  BY <1>1, HeadTailProperties

LEMMA Pair ==
  ASSUME NEW a, NEW b
  PROVE  <<a>> \o <<b>> = <<a, b>>
<1>1. /\ <<a>> \in Seq({a, b}) /\ <<b>> \in Seq({a, b}) /\ <<a, b>> \in Seq({a, b})
      /\ Len(<<a>>) = 1 /\ Len(<<b>>) = 1 /\ Len(<<a, b>>) = 2
  OBVIOUS
<1>2. /\ <<a>> \o <<b>> \in Seq({a, b}) /\ Len(<<a>> \o <<b>>) = 2
      /\ (<<a>> \o <<b>>)[1] = a /\ (<<a>> \o <<b>>)[2] = b
  BY <1>1, ConcatProperties
<1>3. \A i \in 1..2 : (<<a>> \o <<b>>)[i] = <<a, b>>[i]
  BY <1>2
<1> QED
  BY <1>1, <1>2, <1>3, SeqEqual

LEMMA TodoLength ==
  ASSUME TodoOK
  PROVE  /\ todo = <<>> <=> Len(todo) = 0
         /\ todo # <<>> => Len(todo) \in {1, 2}
<1> DEFINE n == Len(todo)
<1>1. n \in Nat /\ n <= 2
  BY LenProperties DEF TodoOK
<1>2. n # 0 => n \in {1, 2}
  <2> HIDE DEF n
  <2> QED
    BY <1>1
<1>3. todo # <<>> => n # 0
  BY DEF TodoOK
<1>4. Len(<<>>) = 0
  OBVIOUS
<1> QED
  BY <1>2, <1>3, <1>4

\* The last thing to do.
LEMMA LastTodo ==
  ASSUME TodoOK, NEW op, op # "close", Goes(op)
  PROVE  /\ Tail(todo) = <<>>
         /\ ~Closing /\ ~Failing
         /\ op = "raise" => Standing /\ Raising
         /\ op = "lower" => Lowering
         /\ op = "suspend" => ~Standing /\ Suspending
         /\ op \in {"retype", "reset"} => ~Standing /\ ~Suspending /\ ~Raising
         /\ op = "retype" => todo[1][2] \in Types \cup {NoType}
<1>1. todo \in Seq(Ops \X (Types \cup {NoType})) /\ Len(todo) = 1
  <2>1. Len(todo) \in {1, 2}
    BY TodoLength DEF Goes
  <2>2. Len(todo) # 2
    BY DEF TodoOK, Goes
  <2>3. todo \in Seq(Ops \X (Types \cup {NoType}))
    BY DEF TodoOK
  <2> QED
    BY <2>1, <2>2, <2>3
<1>2. /\ Tail(todo) = <<>>
      /\ todo[1] \in Ops \X (Types \cup {NoType})
  BY <1>1, TailOfOne
<1> QED
  BY <1>1, <1>2 DEF TodoOK, Ops, Ends, Goes, Resting, Closing, Failing, Raising, Lowering, Suspending, Standing

LEMMA DoneTodo ==
  ASSUME todo' = <<>>
  PROVE  /\ TodoOK'
         /\ ~Closing' /\ ~Failing' /\ ~Lowering' /\ Standing' /\ ~Raising' /\ ~Suspending' /\ Resting'
BY DEF TodoOK, Ends, Goes, Resting, Closing, Failing, Raising, Lowering, Suspending, Standing

LEMMA CloseTodo ==
  ASSUME TodoOK, Closing, todo' = Tail(todo)
  PROVE  /\ TodoOK'
         /\ ~Closing' /\ ~Failing' /\ ~Lowering'
         /\ Standing' <=> Failing
         /\ Raising' <=> Raising
         /\ Suspending' <=> Suspending
         /\ Resting' => Failing
<1>1. CASE Len(todo) = 1
  <2>1. todo' = <<>>
    BY <1>1, TailOfOne DEF TodoOK
  <2> QED
    BY <1>1, <2>1, DoneTodo DEF Ends, Goes, Closing, Failing, Raising, Suspending
<1>2. CASE Len(todo) = 2
  <2>1. todo' \in Seq(Ops \X (Types \cup {NoType})) /\ Len(todo') = 1 /\ todo'[1] = todo[2]
    BY <1>2, TailOfTwo DEF TodoOK
  <2> QED
    <3>1. /\ todo[1][1] = "close" /\ todo[2] \in Ops \X (Types \cup {NoType})
          /\ todo[2][1] \notin {"close", "lower"} /\ todo # <<>> /\ todo' # <<>>
      BY <1>2, <2>1 DEF TodoOK
    <3> QED
      BY <1>2, <2>1, <3>1 DEF TodoOK, Ops, Ends, Goes, Resting, Closing, Failing, Raising, Lowering, Suspending, Standing
<1> QED
  BY <1>1, <1>2, TodoLength DEF Closing, Goes

LEMMA SameTodo ==
  ASSUME todo' = todo
  PROVE  /\ TodoOK' <=> TodoOK
         /\ Closing' <=> Closing
         /\ Failing' <=> Failing
         /\ Lowering' <=> Lowering
         /\ Standing' <=> Standing
         /\ Raising' <=> Raising
         /\ Suspending' <=> Suspending
         /\ Resting' <=> Resting
BY DEF TodoOK, Ends, Goes, Resting, Closing, Failing, Raising, Lowering, Suspending, Standing

LEMMA OneTodo ==
  ASSUME NEW op \in Ops, NEW t \in Types \cup {NoType}, todo' = << <<op, t>> >>
  PROVE  /\ TodoOK' /\ ~Resting'
         /\ Closing' <=> op = "close"
         /\ Failing' <=> op = "close"
         /\ Standing' <=> op \in {"raise", "lower"}
         /\ Raising' <=> op = "raise"
         /\ Lowering' <=> op = "lower"
         /\ Suspending' <=> op = "suspend"
<1>1. todo' \in Seq(Ops \X (Types \cup {NoType})) /\ Len(todo') = 1 /\ todo'[1][1] = op
  OBVIOUS
<1> QED
  BY <1>1 DEF TodoOK, Ops, Ends, Goes, Resting, Closing, Failing, Raising, Lowering, Suspending, Standing

LEMMA TwoTodo ==
  ASSUME NEW op \in Ops \ {"close", "lower"}, NEW t \in Types \cup {NoType},
         todo' = << <<"close", NoType>>, <<op, t>> >>
  PROVE  /\ TodoOK' /\ ~Resting' /\ Closing' /\ ~Standing' /\ ~Lowering'
         /\ Failing' <=> op = "raise"
         /\ Raising' <=> op = "raise"
         /\ Suspending' <=> op = "suspend"
<1>1. /\ todo' \in Seq(Ops \X (Types \cup {NoType})) /\ Len(todo') = 2
      /\ todo'[1][1] = "close" /\ todo'[2][1] = op
  BY DEF Ops
<1> QED
  BY <1>1 DEF TodoOK, Ops, Ends, Goes, Resting, Closing, Failing, Raising, Lowering, Suspending, Standing

\* After an attempt to open, with or without a frame to announce.
LEMMA AttemptedTodo ==
  ASSUME NEW j \in BOOLEAN, todo' = (IF j THEN <<Op("close")>> ELSE <<>>) \o <<>>
  PROVE  /\ TodoOK'
         /\ j => Closing' /\ Failing' /\ ~Standing' /\ ~Resting'
         /\ ~j => ~Closing' /\ ~Failing' /\ Standing' /\ Resting'
         /\ ~Raising' /\ ~Lowering' /\ ~Suspending'
<1>1. CASE j
  <2>1. todo' = << <<"close", NoType>> >>
    BY <1>1 DEF Op
  <2> QED
    BY <1>1, <2>1, OneTodo DEF Ops
<1>2. CASE ~j
  BY <1>2, DoneTodo
<1> QED
  BY <1>1, <1>2

LEMMA AttemptedRaiseTodo ==
  ASSUME NEW j \in BOOLEAN, todo' = (IF j THEN <<Op("close")>> ELSE <<>>) \o <<Op("raise")>>
  PROVE  /\ TodoOK'
         /\ j => Closing' /\ Failing' /\ ~Standing'
         /\ ~j => ~Closing' /\ ~Failing' /\ Standing'
         /\ Raising' /\ ~Lowering' /\ ~Suspending' /\ ~Resting'
<1>1. CASE j
  <2>1. todo' = << <<"close", NoType>>, <<"raise", NoType>> >>
    BY <1>1, Pair DEF Op
  <2> QED
    BY <1>1, <2>1, TwoTodo DEF Ops
<1>2. CASE ~j
  <2>1. todo' = << <<"raise", NoType>> >>
    BY <1>2 DEF Op
  <2> QED
    BY <1>2, <2>1, OneTodo DEF Ops
<1> QED
  BY <1>1, <1>2

\* With a capture to close first, if there is one.
LEMMA ReleaseTodo ==
  ASSUME camera.open \in BOOLEAN,
         NEW op \in {"retype", "reset", "suspend"}, NEW t \in Types \cup {NoType},
         todo' = ReleaseCameraCapture \o << <<op, t>> >>
  PROVE  /\ TodoOK'
         /\ Closing' <=> camera.open
         /\ ~Failing' /\ ~Standing' /\ ~Raising' /\ ~Lowering' /\ ~Resting'
         /\ Suspending' <=> op = "suspend"
<1>1. CASE camera.open
  <2>1. todo' = << <<"close", NoType>>, <<op, t>> >>
    BY <1>1, Pair DEF ReleaseCameraCapture, Op
  <2> QED
    BY <1>1, <2>1, TwoTodo DEF Ops
<1>2. CASE ~camera.open
  <2>1. todo' = << <<op, t>> >>
    BY <1>2 DEF ReleaseCameraCapture
  <2> QED
    BY <1>2, <2>1, OneTodo DEF Ops
<1> QED
  BY <1>1, <1>2

-----------------------------------------------------------------------------
(* Opening a capture                                                       *)

Full == Whole \ {"thread"}

\* What a step of opening leaves: h when it succeeds.
Reaches(outcomes, h) ==
  \A o \in outcomes : /\ o.ok \in BOOLEAN /\ o.held \in SUBSET Full
                      /\ o.ok => o.held = h

LEMMA OutcomeFacts ==
  ASSUME NEW h
  PROVE  /\ Done(h).held = h /\ Done(h).ok = TRUE /\ Done(h).ok \in BOOLEAN
         /\ Fail(h).held = h /\ Fail(h).ok = FALSE /\ Fail(h).ok \in BOOLEAN
BY DEF Done, Fail

\* The steps after the first, each from what the one before leaves.
LEMMA StepFacts ==
  ASSUME NEW h \in SUBSET Full, NEW o
  PROVE  /\ o \in SettingQueryInput(h) => o.ok \in BOOLEAN /\ o.held = h
         /\ o \in OpenHandle(h) =>
              o.ok \in BOOLEAN /\ o.held \in SUBSET Full /\ (o.ok => o.held = h \cup {"handle"})
         /\ o \in SettingRendererConfig(h) => o.ok \in BOOLEAN /\ o.held = h \cup {"config"}
         /\ o \in SettingIviId(h) => o.ok \in BOOLEAN /\ o.held = h
         /\ o \in SettingParamEventCallBack(h) => o.ok \in BOOLEAN /\ o.held = h
         /\ o \in SettingBuffer(h) =>
              o.ok \in BOOLEAN /\ o.held \in SUBSET Full
              /\ (o.ok => o.held = h \cup {"video", "buffers"})
<1> USE OutcomeFacts
<1>1. {"handle", "config", "video", "buffers"} \subseteq Full
  BY DEF Full, Whole
<1>2. o \in SettingQueryInput(h) => o.ok \in BOOLEAN /\ o.held = h
  BY DEF SettingQueryInput
<1>3. o \in OpenHandle(h) =>
        o.ok \in BOOLEAN /\ o.held \in SUBSET Full /\ (o.ok => o.held = h \cup {"handle"})
  <2>1. h \cup {"handle"} \in SUBSET Full
    BY <1>1
  <2>2. o \in OpenHandle(h) => o = Done(h \cup {"handle"}) \/ o = Fail(h)
    BY DEF OpenHandle
  <2> QED
    BY <2>1, <2>2
<1>4. o \in SettingRendererConfig(h) => o.ok \in BOOLEAN /\ o.held = h \cup {"config"}
  BY DEF SettingRendererConfig
<1>5. o \in SettingIviId(h) => o.ok \in BOOLEAN /\ o.held = h
  BY DEF SettingIviId
<1>6. o \in SettingParamEventCallBack(h) => o.ok \in BOOLEAN /\ o.held = h
  BY DEF SettingParamEventCallBack
<1>7. o \in SettingBuffer(h) =>
        o.ok \in BOOLEAN /\ o.held \in SUBSET Full /\ (o.ok => o.held = h \cup {"video", "buffers"})
  <2>1. h \cup {"video", "buffers"} \in SUBSET Full /\ h \cup {"video"} \in SUBSET Full
    BY <1>1
  <2>2. ASSUME o \in SettingBuffer(h)
        PROVE  o \in {Done(h \cup {"video", "buffers"}), Fail(h), Fail(h \cup {"video"}),
                      Fail(h \cup {"video", "buffers"})}
    BY <2>2 DEF SettingBuffer
  <2> QED
    BY <2>1, <2>2
<1> QED
  BY <1>2, <1>3, <1>4, <1>5, <1>6, <1>7

\* Either everything but the thread is there, or nothing is.
LEMMA AcquireFacts ==
  ASSUME NEW h \in SUBSET {"qcarcam"}, NEW a \in Acquire(h)
  PROVE  /\ a.ok \in BOOLEAN
         /\ a.ok => a.held = Full
         /\ ~a.ok => a.held \in SUBSET {"qcarcam"}
<1> DEFINE S1 == InitializeQcarcam(h)
           S2 == Then(S1, SettingQueryInput)
           S3 == Then(S2, OpenHandle)
           S4 == Then(S3, SettingRendererConfig)
           S5 == Then(S4, SettingIviId)
           S6 == Then(S5, SettingParamEventCallBack)
           S7 == Then(S6, SettingBuffer)
           q1 == {"qcarcam"}
           q2 == {"qcarcam", "handle"}
           q3 == {"qcarcam", "handle", "config"}
<1>0. /\ q1 \in SUBSET Full /\ q2 \in SUBSET Full /\ q3 \in SUBSET Full
      /\ q1 \cup {"handle"} = q2 /\ q2 \cup {"config"} = q3
      /\ q3 \cup {"video", "buffers"} = Full
  BY DEF Full, Whole
<1>1. Reaches(S1, q1)
  <2>1. h \cup {"qcarcam"} = q1 /\ h \in SUBSET Full /\ ("qcarcam" \in h => h = q1)
    BY DEF Full, Whole
  <2> QED
    <3>1. \A o \in S1 : o \in {Done(q1), Fail(h)}
      BY <2>1 DEF InitializeQcarcam, S1
    <3> QED
      BY <1>0, <2>1, <3>1, OutcomeFacts DEF Reaches
<1> HIDE DEF S1, q1, q2, q3
<1>2. Reaches(S2, q1)
  <2>1. \A o \in S2 : \E p \in S1 : o \in IF p.ok THEN SettingQueryInput(p.held) ELSE {p}
    BY DEF Then
  <2> HIDE DEF S2
  <2>2. ASSUME NEW o \in S2
        PROVE  o.ok \in BOOLEAN /\ o.held \in SUBSET Full /\ (o.ok => o.held = q1)
    <3>1. PICK p \in S1 : o \in IF p.ok THEN SettingQueryInput(p.held) ELSE {p}
      BY <2>1
    <3>2. p.ok \in BOOLEAN /\ p.held \in SUBSET Full /\ (p.ok => p.held = q1)
      BY <1>1 DEF Reaches
    <3>3. CASE p.ok
      <4>1. o \in SettingQueryInput(q1)
        BY <3>1, <3>2, <3>3
      <4> QED
        BY <1>0, <4>1, StepFacts
    <3>4. CASE ~p.ok
      BY <3>1, <3>2, <3>4
    <3> QED
      BY <3>3, <3>4
  <2> QED
    BY <2>2 DEF Reaches
<1> HIDE DEF S2
<1>3. Reaches(S3, q2)
  <2>1. \A o \in S3 : \E p \in S2 : o \in IF p.ok THEN OpenHandle(p.held) ELSE {p}
    BY DEF Then
  <2> HIDE DEF S3
  <2>2. ASSUME NEW o \in S3
        PROVE  o.ok \in BOOLEAN /\ o.held \in SUBSET Full /\ (o.ok => o.held = q2)
    <3>1. PICK p \in S2 : o \in IF p.ok THEN OpenHandle(p.held) ELSE {p}
      BY <2>1
    <3>2. p.ok \in BOOLEAN /\ p.held \in SUBSET Full /\ (p.ok => p.held = q1)
      BY <1>2 DEF Reaches
    <3>3. CASE p.ok
      <4>1. o \in OpenHandle(q1)
        BY <3>1, <3>2, <3>3
      <4> QED
        BY <1>0, <4>1, StepFacts
    <3>4. CASE ~p.ok
      BY <3>1, <3>2, <3>4
    <3> QED
      BY <3>3, <3>4
  <2> QED
    BY <2>2 DEF Reaches
<1> HIDE DEF S3
<1>4. Reaches(S4, q3)
  <2>1. \A o \in S4 : \E p \in S3 : o \in IF p.ok THEN SettingRendererConfig(p.held) ELSE {p}
    BY DEF Then
  <2> HIDE DEF S4
  <2>2. ASSUME NEW o \in S4
        PROVE  o.ok \in BOOLEAN /\ o.held \in SUBSET Full /\ (o.ok => o.held = q3)
    <3>1. PICK p \in S3 : o \in IF p.ok THEN SettingRendererConfig(p.held) ELSE {p}
      BY <2>1
    <3>2. p.ok \in BOOLEAN /\ p.held \in SUBSET Full /\ (p.ok => p.held = q2)
      BY <1>3 DEF Reaches
    <3>3. CASE p.ok
      <4>1. o \in SettingRendererConfig(q2)
        BY <3>1, <3>2, <3>3
      <4> QED
        BY <1>0, <4>1, StepFacts
    <3>4. CASE ~p.ok
      BY <3>1, <3>2, <3>4
    <3> QED
      BY <3>3, <3>4
  <2> QED
    BY <2>2 DEF Reaches
<1> HIDE DEF S4
<1>5. Reaches(S5, q3)
  <2>1. \A o \in S5 : \E p \in S4 : o \in IF p.ok THEN SettingIviId(p.held) ELSE {p}
    BY DEF Then
  <2> HIDE DEF S5
  <2> QED
    BY <1>0, <1>4, <2>1, StepFacts DEF Reaches
<1> HIDE DEF S5
<1>6. Reaches(S6, q3)
  <2>1. \A o \in S6 : \E p \in S5 : o \in IF p.ok THEN SettingParamEventCallBack(p.held) ELSE {p}
    BY DEF Then
  <2> HIDE DEF S6
  <2> QED
    BY <1>0, <1>5, <2>1, StepFacts DEF Reaches
<1> HIDE DEF S6
<1>7. Reaches(S7, Full)
  <2>1. \A o \in S7 : \E p \in S6 : o \in IF p.ok THEN SettingBuffer(p.held) ELSE {p}
    BY DEF Then
  <2> HIDE DEF S7
  <2>2. ASSUME NEW o \in S7
        PROVE  o.ok \in BOOLEAN /\ o.held \in SUBSET Full /\ (o.ok => o.held = Full)
    <3>1. PICK p \in S6 : o \in IF p.ok THEN SettingBuffer(p.held) ELSE {p}
      BY <2>1
    <3>2. p.ok \in BOOLEAN /\ p.held \in SUBSET Full /\ (p.ok => p.held = q3)
      BY <1>6 DEF Reaches
    <3>3. CASE p.ok
      <4>1. o \in SettingBuffer(q3)
        BY <3>1, <3>2, <3>3
      <4> QED
        BY <1>0, <4>1, StepFacts
    <3>4. CASE ~p.ok
      BY <3>1, <3>2, <3>4
    <3> QED
      BY <3>3, <3>4
  <2> QED
    BY <2>2 DEF Reaches
<1>8. PICK s \in S7 : a = IF s.ok THEN s ELSE Fail(ReleaseProcess(s.held))
  BY DEF Acquire, S1, S2, S3, S4, S5, S6
<1> HIDE DEF S7
<1>9. s.held \in SUBSET Full => ReleaseProcess(s.held) \in SUBSET {"qcarcam"}
  BY DEF ReleaseProcess, Full, Whole
<1> QED
  BY <1>7, <1>8, <1>9, OutcomeFacts DEF Reaches

\* The outcome o of an attempt to open the capture for type t.
Attempt(t, o) ==
  /\ o.ok \in BOOLEAN /\ o.joins \in BOOLEAN /\ o.failures \in Nat
  /\ o.cam \in CameraType /\ o.lost \in SUBSET {"open", "capture"}
  /\ o.ok <=> o.cam.open /\ ~o.joins
  /\ camera.open => o.ok /\ o.cam = camera /\ o.lost = astray \cap {"capture"}
  /\ o.joins => ~camera.open /\ o.cam.open /\ ~o.cam.started /\ "open" \in o.lost
  /\ ~o.cam.open => o.cam.held \subseteq {"qcarcam"} /\ ~o.cam.send /\ ~o.cam.started
  /\ ~o.ok => t = NoType \/ "open" \in o.lost
  /\ o.ok /\ ~camera.open =>
       /\ o.cam.held = Whole /\ ~o.cam.send
       /\ "capture" \notin o.lost => o.cam.started = (sync /\ visual)

LEMMA OpenFacts ==
  ASSUME sync \in BOOLEAN, visual \in BOOLEAN, NEW h \in SUBSET {"qcarcam"}, ~camera.open,
         NEW t, NEW o \in OpenCapture(h)
  PROVE  Attempt(t, o)
<1> DEFINE on == sync /\ visual
           Made(cam, ok, lost, failures, joins) ==
             [cam |-> cam, ok |-> ok, lost |-> lost, failures |-> failures, joins |-> joins]
<1>1. PICK a \in Acquire(h) :
        o \in IF ~a.ok
              THEN {Made(NoCamera(a.held), FALSE, {"open"}, 1, FALSE)}
              ELSE {Made([Opened(a.held) EXCEPT !.held = a.held], FALSE, {"open"}, 1, TRUE),
                    Made(Capture(Opened(a.held), on, TRUE), TRUE, {}, 0, FALSE)}
                   \cup IF on THEN {Made(Opened(a.held), TRUE, {"capture"}, 1, FALSE)} ELSE {}
  BY DEF OpenCapture
<1>2. CASE ~a.ok
  <2>1. o = Made(NoCamera(a.held), FALSE, {"open"}, 1, FALSE) /\ a.held \in SUBSET {"qcarcam"}
    BY <1>1, <1>2, AcquireFacts
  <2> QED
    BY <2>1 DEF NoCamera, Attempt, CameraType, Whole
<1>3. CASE a.ok
  <2>1. a.held = Full
    BY <1>3, AcquireFacts
  <2>2. CASE o = Made([Opened(a.held) EXCEPT !.held = a.held], FALSE, {"open"}, 1, TRUE)
    BY <2>1, <2>2 DEF Opened, Attempt, CameraType, Whole, Full
  <2>3. CASE o = Made(Capture(Opened(a.held), on, TRUE), TRUE, {}, 0, FALSE)
    BY <2>1, <2>3 DEF Opened, Capture, Attempt, CameraType, Whole, Full
  <2>4. CASE o = Made(Opened(a.held), TRUE, {"capture"}, 1, FALSE)
    BY <2>1, <2>4 DEF Opened, Attempt, CameraType, Whole, Full
  <2> QED
    BY <1>1, <1>3, <2>2, <2>3, <2>4
<1> QED
  BY <1>1, <1>2, <1>3, AcquireFacts

LEMMA SettingFacts ==
  ASSUME TypeOK, HandlerInv, NEW t, NEW o \in SettingtCameraCapture(camera, t)
  PROVE  Attempt(t, o)
<1>1. CASE camera.open \/ t = NoType
  <2>1. o = [cam |-> camera, ok |-> camera.open, lost |-> astray \cap {"capture"}, failures |-> 0,
             joins |-> FALSE]
    BY <1>1 DEF SettingtCameraCapture
  <2> QED
    BY <1>1, <2>1 DEF Attempt, TypeOK, CameraOK, HandlerInv, CameraType
<1>2. CASE ~(camera.open \/ t = NoType)
  <2>1. o \in OpenCapture(camera.held) /\ camera.held \in SUBSET {"qcarcam"} /\ ~camera.open
    BY <1>2 DEF SettingtCameraCapture, HandlerInv
  <2>2. sync \in BOOLEAN /\ visual \in BOOLEAN
    BY DEF TypeOK, FlagsOK
  <2> QED
    BY <2>1, <2>2, OpenFacts
<1> QED
  BY <1>1, <1>2

-----------------------------------------------------------------------------
(* The camera and the pin                                                  *)

LEMMA CameraFacts ==
  ASSUME NEW c \in CameraType, NEW on \in BOOLEAN, NEW ok \in BOOLEAN
  PROVE  /\ Capture(c, on, ok) \in CameraType
         /\ Capture(c, on, ok).open = c.open /\ Capture(c, on, ok).held = c.held
         /\ Capture(c, on, ok).send = c.send
         /\ ok => Capture(c, on, ok).started = on
         /\ ~ok => Capture(c, on, ok).started = c.started
BY DEF CameraType, Capture

LEMMA StopFacts ==
  ASSUME NEW c \in CameraType, NEW ok \in BOOLEAN
  PROVE  /\ StopCamera(c, ok) \in CameraType
         /\ StopCamera(c, ok).open = c.open /\ StopCamera(c, ok).held = c.held
         /\ StopCamera(c, ok).send = FALSE
         /\ ok => StopCamera(c, ok).started = FALSE
         /\ ~ok => StopCamera(c, ok).started = c.started
BY DEF CameraType, Capture, StopCamera, Stop

LEMMA PathFacts ==
  ASSUME NEW c \in CameraType, NEW p
  PROVE  /\ SetCameraPath(c, p) \in CameraType
         /\ SetCameraPath(c, p).open = c.open /\ SetCameraPath(c, p).held = c.held
         /\ SetCameraPath(c, p).started = c.started
         /\ c.open /\ p # "" => SetCameraPath(c, p).send = TRUE
         /\ c.open /\ p = "" => SetCameraPath(c, p).send = FALSE
         /\ ~c.open => SetCameraPath(c, p).send = c.send
BY DEF CameraType, Stop, Start, SetPath, SetCameraPath

\* What switching the pin to status leaves, with f for camera_cap_frame_.
LEMMA PinFacts ==
  ASSUME TypeOK, NEW status \in BOOLEAN, NEW f \in {"Initial", "Ready", "Changed"},
         NEW g \in Switched, SetCameraCaptureStandby2(status, f, g)
  PROVE  /\ stby2' \in BOOLEAN /\ pin' \in BOOLEAN /\ used' \in Nat
         /\ frame' \in {"Initial", "Ready", "Changed"} /\ astray' \in SUBSET Reasons
         /\ \A r \in {"right", "open", "capture", "send"} : r \in astray' <=> r \in astray
         /\ ("standby" \notin astray => stby2 = pin) /\ "standby" \notin astray' => stby2' = pin'
         /\ "standby" \notin astray' /\ pin' =>
              (pin /\ "standby" \notin astray) \/ (status /\ known = "Ready")
         /\ ("standby" \notin astray => stby2 = pin) /\ "standby" \notin astray' /\ ~status => ~pin'
         /\ status /\ known = "Ready" /\ frame' = "Ready" /\ ~stby2' => "signal" \in astray'
         /\ ~status /\ frame' = "Ready" /\ ~stby2' =>
              f = "Ready" /\ ~stby2 /\ ("signal" \in astray => "signal" \in astray')
<1> DEFINE asked == status # stby2 /\ (status => f = "Ready" /\ known = "Ready")
<1>1. CASE asked /\ g.ok
  <2>1. g \in {[pin |-> status, ok |-> TRUE], [pin |-> pin, ok |-> FALSE], [pin |-> FALSE, ok |-> FALSE]}
    BY <1>1 DEF SetCameraCaptureStandby2, SetValueDirectionLow, GetCameraDisplayStatus
  <2>a. g.pin = status
    BY <1>1, <2>1
  <2>2. /\ pin' = status /\ stby2' = status /\ astray' = astray \ {"standby", "signal"}
        /\ frame' = IF status THEN "Changed" ELSE "Initial"
        /\ used' = used + 0
    BY <1>1, <2>a DEF SetCameraCaptureStandby2, GetCameraDisplayStatus, Calls, Fault
  <2> QED
    BY <1>1, <2>2 DEF TypeOK, PinOK, CountsOK, AstrayOK, Reasons
<1>2. CASE asked /\ ~g.ok
  <2>1. /\ pin' = g.pin /\ stby2' = stby2 /\ frame' = f /\ used' = used + 1
        /\ astray' = astray \cup {"standby"} \cup IF status THEN {"signal"} ELSE {}
    BY <1>2 DEF SetCameraCaptureStandby2, GetCameraDisplayStatus, Calls, Fault
  <2> QED
    BY <1>2, <2>1 DEF TypeOK, PinOK, CountsOK, AstrayOK, Reasons, Switched
<1>3. CASE ~asked
  <2>1. frame' = f /\ UNCHANGED <<pin, stby2, astray, used>>
    BY <1>3 DEF SetCameraCaptureStandby2, GetCameraDisplayStatus
  <2> QED
    BY <1>3, <2>1 DEF TypeOK, PinOK, CountsOK, AstrayOK
<1> QED
  BY <1>1, <1>2, <1>3

LEMMA FaultFacts ==
  ASSUME NEW n \in Nat, NEW a, NEW b
  PROVE  /\ Fault(a) \in Nat /\ n + Fault(a) \in Nat /\ n + Fault(a) + Fault(b) \in Nat
<1>1. Fault(a) \in {0, 1} /\ Fault(b) \in {0, 1}
  BY DEF Fault
<1> QED
  BY <1>1

\* Counting n calls.
LEMMA CountFacts ==
  ASSUME TypeOK, NEW n \in Nat, Calls(n), due' \in Nat, wait' \in Nat
  PROVE  CountsOK'
<1>1. used \in Nat /\ used' = used + n
  BY DEF TypeOK, CountsOK, Calls
<1> QED
  BY <1>1 DEF CountsOK

-----------------------------------------------------------------------------
(* What an invariant does not see                                          *)

LEMMA RightKept ==
  ASSUME RightInv, UNCHANGED fileVars, "right" \in astray => "right" \in astray'
  PROVE  RightInv'
BY DEF RightInv, Latest, fileVars

LEMMA FrameKept ==
  ASSUME FrameInv, known' = known, stby2' = stby2, frame' = "Ready" => frame = "Ready",
         Raising => Raising', "signal" \in astray => "signal" \in astray'
  PROVE  FrameInv'
BY DEF FrameInv

LEMMA PinKept ==
  ASSUME PinInv, known' = known, stby2' = stby2, pin' = pin,
         "standby" \in astray => "standby" \in astray',
         camera.open /\ ~Failing => camera'.open /\ ~Failing',
         Lowering => Lowering'
  PROVE  PinInv'
BY DEF PinInv

LEMMA CaptureKept ==
  ASSUME CaptureInv,
         UNCHANGED <<todo, asleep, type, known, camera, waiting, timer, due, sync, visual, path>>,
         \A r \in {"open", "capture", "send"} : r \in astray => r \in astray'
  PROVE  CaptureInv'
BY SameTodo DEF CaptureInv

LEMMA HandlerKept ==
  ASSUME HandlerInv, UNCHANGED <<todo, asleep, type, known, camera>>,
         "open" \in astray => "open" \in astray',
         draw' \in {draw, "idle"} \/ (camera.open /\ ~Failing)
  PROVE  HandlerInv'
BY SameTodo DEF HandlerInv

-----------------------------------------------------------------------------
(* The draw thread                                                         *)

LEMMA DrawCheckStep ==
  ASSUME IInv, DrawCheck
  PROVE  IInv'
<1> USE DEF DrawCheck, fileVars, delayVars, signalVars, showVars, pinVars, modeVars
<1>0. TypeOK /\ HandlerInv /\ PinInv /\ FrameInv /\ RightInv /\ CaptureInv
  BY DEF IInv
<1>1. TypeOK'
  <2>1. FileOK'
    BY <1>0 DEF TypeOK, FileOK
  <2>2. FlagsOK'
    BY <1>0 DEF TypeOK, FlagsOK
  <2>3. CameraOK'
    BY <1>0 DEF TypeOK, CameraOK
  <2>4. PinOK'
    BY <1>0 DEF TypeOK, PinOK
  <2>5. CountsOK'
    BY <1>0 DEF TypeOK, CountsOK
  <2>6. AstrayOK'
    BY <1>0 DEF TypeOK, AstrayOK
  <2>7. TodoOK'
    BY <1>0, SameTodo DEF TypeOK
  <2> QED
    BY <2>1, <2>2, <2>3, <2>4, <2>5, <2>6, <2>7 DEF TypeOK
<1>2. HandlerInv'
  <2>1. camera.open /\ ~Failing
    BY <1>0 DEF NotifyCaptureEvent, HandlerInv
  <2> QED
    BY <1>0, <2>1, HandlerKept
<1>3. PinInv'
  BY <1>0, SameTodo, PinKept
<1>4. FrameInv'
  BY <1>0, SameTodo, FrameKept
<1>5. RightInv'
  BY <1>0, RightKept
<1>6. CaptureInv'
  BY <1>0, CaptureKept
<1> QED
  BY <1>1, <1>2, <1>3, <1>4, <1>5, <1>6 DEF IInv

LEMMA DrawCoverStep ==
  ASSUME IInv, DrawCover
  PROVE  IInv'
<1> USE DEF DrawCover, fileVars, delayVars, signalVars, showVars, pinVars, modeVars
<1>0. TypeOK /\ HandlerInv /\ PinInv /\ FrameInv /\ RightInv /\ CaptureInv
  BY DEF IInv
<1>1. TypeOK'
  <2>1. FileOK'
    BY <1>0 DEF TypeOK, FileOK
  <2>2. FlagsOK'
    BY <1>0 DEF TypeOK, FlagsOK
  <2>3. CameraOK'
    BY <1>0 DEF TypeOK, CameraOK
  <2>4. PinOK'
    BY <1>0 DEF TypeOK, PinOK
  <2>5. CountsOK'
    BY <1>0 DEF TypeOK, CountsOK
  <2>6. AstrayOK'
    BY <1>0 DEF TypeOK, AstrayOK
  <2>7. TodoOK'
    BY <1>0, SameTodo DEF TypeOK
  <2> QED
    BY <2>1, <2>2, <2>3, <2>4, <2>5, <2>6, <2>7 DEF TypeOK
<1>2. HandlerInv'
  <2>1. camera.open /\ ~Failing
    BY <1>0 DEF HandlerInv
  <2> QED
    BY <1>0, <2>1, HandlerKept
<1>3. PinInv'
  BY <1>0, SameTodo, PinKept
<1>4. FrameInv'
  BY <1>0, SameTodo, FrameKept
<1>5. RightInv'
  BY <1>0, RightKept
<1>6. CaptureInv'
  BY <1>0, CaptureKept
<1> QED
  BY <1>1, <1>2, <1>3, <1>4, <1>5, <1>6 DEF IInv

LEMMA DrawRaiseStep ==
  ASSUME IInv, NEW g \in Switched, DrawRaise(g)
  PROVE  IInv'
<1> USE DEF DrawRaise, fileVars, delayVars, signalVars, showVars, modeVars
<1>0. TypeOK /\ HandlerInv /\ PinInv /\ FrameInv /\ RightInv /\ CaptureInv
  BY DEF IInv
<1>a. camera.open /\ ~Failing
  BY <1>0 DEF HandlerInv
<1>b. /\ stby2' \in BOOLEAN /\ pin' \in BOOLEAN /\ used' \in Nat
      /\ frame' \in {"Initial", "Ready", "Changed"} /\ astray' \in SUBSET Reasons
      /\ \A r \in {"right", "open", "capture", "send"} : r \in astray' <=> r \in astray
      /\ PinInv'
      /\ FrameInv'
  <2>1. CASE SetCameraCaptureStandby2(TRUE, "Ready", g)
    <3>1. PinInv'
      BY <1>0, <1>a, <2>1, PinFacts, SameTodo DEF PinInv
    <3>2. FrameInv'
      BY <1>0, <2>1, PinFacts DEF FrameInv
    <3> QED
      BY <1>0, <2>1, <3>1, <3>2, PinFacts
  <2>2. CASE UNCHANGED <<frame, pin, stby2, astray, used>>
    <3>1. PinInv'
      BY <1>0, <2>2, PinKept, SameTodo
    <3>2. FrameInv'
      BY <1>0, <2>2, FrameKept, SameTodo
    <3> QED
      BY <1>0, <2>2, <3>1, <3>2 DEF TypeOK, PinOK, CountsOK, AstrayOK
  <2> QED
    BY <2>1, <2>2
<1>1. TypeOK'
  <2>1. FileOK'
    BY <1>0 DEF TypeOK, FileOK
  <2>2. FlagsOK'
    BY <1>0 DEF TypeOK, FlagsOK
  <2>3. CameraOK'
    BY <1>0 DEF TypeOK, CameraOK
  <2>4. PinOK'
    BY <1>b DEF PinOK
  <2>5. CountsOK'
    BY <1>0, <1>b DEF TypeOK, CountsOK
  <2>6. AstrayOK'
    BY <1>b DEF AstrayOK
  <2>7. TodoOK'
    BY <1>0, SameTodo DEF TypeOK
  <2> QED
    BY <2>1, <2>2, <2>3, <2>4, <2>5, <2>6, <2>7 DEF TypeOK
<1>2. HandlerInv'
  BY <1>0, <1>b, HandlerKept
<1>3. RightInv'
  BY <1>0, <1>b, RightKept
<1>4. CaptureInv'
  BY <1>0, <1>b, CaptureKept
<1> QED
  BY <1>b, <1>1, <1>2, <1>3, <1>4 DEF IInv

-----------------------------------------------------------------------------
(* The rest of a handler                                                   *)

LEMMA RaiseStep ==
  ASSUME IInv, NEW g \in Switched, Raise(g)
  PROVE  IInv'
<1> USE DEF Raise, fileVars, delayVars, signalVars, showVars, modeVars
<1>0. TypeOK /\ HandlerInv /\ PinInv /\ FrameInv /\ RightInv /\ CaptureInv
  BY DEF IInv
<1>a. todo' = <<>> /\ ~Closing /\ ~Failing /\ ~Lowering /\ Standing
  BY <1>0, LastTodo, TodoFacts DEF TypeOK
<1>b. /\ stby2' \in BOOLEAN /\ pin' \in BOOLEAN /\ used' \in Nat
      /\ frame' \in {"Initial", "Ready", "Changed"} /\ astray' \in SUBSET Reasons
      /\ \A r \in {"right", "open", "capture", "send"} : r \in astray' <=> r \in astray
      /\ PinInv'
      /\ FrameInv'
  <2>1. CASE IsSetCameraCaptureStandby2 /\ SetCameraCaptureStandby2(TRUE, frame, g)
    <3>1. frame \in {"Initial", "Ready", "Changed"}
      BY <1>0 DEF TypeOK, PinOK
    <3>2. PinInv'
      BY <1>0, <1>a, <2>1, <3>1, PinFacts, DoneTodo DEF PinInv, IsSetCameraCaptureStandby2
    <3>3. FrameInv'
      BY <1>0, <2>1, <3>1, PinFacts DEF FrameInv
    <3> QED
      BY <1>0, <2>1, <3>1, <3>2, <3>3, PinFacts
  <2>2. CASE ~IsSetCameraCaptureStandby2
    <3>1. /\ UNCHANGED <<pin, stby2, used>> /\ frame' \in {frame, "Initial"}
          /\ astray' = IF ~stby2 /\ frame' = "Ready" THEN astray \cup {"signal"} ELSE astray
      BY <2>2
    <3>2. PinInv'
      BY <1>0, <1>a, <3>1, DoneTodo DEF PinInv
    <3>3. FrameInv'
      BY <3>1 DEF FrameInv
    <3> QED
      BY <1>0, <3>1, <3>2, <3>3 DEF TypeOK, PinOK, CountsOK, AstrayOK, Reasons
  <2> QED
    BY <2>1, <2>2
<1>1. TypeOK'
  <2>1. FileOK'
    BY <1>0 DEF TypeOK, FileOK
  <2>2. FlagsOK'
    BY <1>0 DEF TypeOK, FlagsOK
  <2>3. CameraOK'
    BY <1>0 DEF TypeOK, CameraOK
  <2>4. PinOK'
    BY <1>0, <1>b DEF TypeOK, PinOK
  <2>5. CountsOK'
    BY <1>0, <1>b DEF TypeOK, CountsOK
  <2>6. AstrayOK'
    BY <1>b DEF AstrayOK
  <2>7. TodoOK'
    BY <1>a, DoneTodo
  <2> QED
    BY <2>1, <2>2, <2>3, <2>4, <2>5, <2>6, <2>7 DEF TypeOK
<1>2. HandlerInv'
  <2>1. Raising /\ ~Suspending /\ ~Resting
    BY <1>0, LastTodo, TodoFacts DEF TypeOK
  <2> QED
    BY <1>0, <1>a, <1>b, <2>1, DoneTodo DEF HandlerInv
<1>3. RightInv'
  BY <1>0, <1>b, RightKept
<1>4. CaptureInv'
  BY <1>0, <1>a, <1>b, DoneTodo DEF CaptureInv
<1> QED
  BY <1>b, <1>1, <1>2, <1>3, <1>4 DEF IInv

LEMMA LowerStep ==
  ASSUME IInv, NEW g \in Switched, Lower(g)
  PROVE  IInv'
<1> USE DEF Lower, fileVars, delayVars, signalVars, showVars, modeVars
<1>0. TypeOK /\ HandlerInv /\ PinInv /\ FrameInv /\ RightInv /\ CaptureInv
  BY DEF IInv
<1>a. todo' = <<>> /\ ~Closing /\ ~Failing /\ ~Raising /\ Standing
  BY <1>0, LastTodo, TodoFacts DEF TypeOK
<1>b. frame \in {"Initial", "Ready", "Changed"}
  BY <1>0 DEF TypeOK, PinOK
<1>1. TypeOK'
  <2>1. FileOK'
    BY <1>0 DEF TypeOK, FileOK
  <2>2. FlagsOK'
    BY <1>0 DEF TypeOK, FlagsOK
  <2>3. CameraOK'
    BY <1>0 DEF TypeOK, CameraOK
  <2>4. PinOK'
    BY <1>0, <1>b, PinFacts DEF TypeOK, PinOK
  <2>5. CountsOK'
    BY <1>0, <1>b, PinFacts DEF TypeOK, CountsOK
  <2>6. AstrayOK'
    BY <1>0, <1>b, PinFacts DEF AstrayOK
  <2>7. TodoOK'
    BY <1>a, DoneTodo
  <2> QED
    BY <2>1, <2>2, <2>3, <2>4, <2>5, <2>6, <2>7 DEF TypeOK
<1>2. HandlerInv'
  BY <1>0, <1>a, <1>b, PinFacts, DoneTodo, LastTodo, TodoFacts DEF HandlerInv, TypeOK
<1>3. PinInv'
  BY <1>0, <1>b, PinFacts DEF PinInv
<1>4. FrameInv'
  BY <1>0, <1>a, <1>b, PinFacts DEF FrameInv
<1>5. RightInv'
  BY <1>0, <1>b, PinFacts, RightKept
<1>6. CaptureInv'
  BY <1>0, <1>a, <1>b, PinFacts, DoneTodo DEF CaptureInv
<1> QED
  BY <1>1, <1>2, <1>3, <1>4, <1>5, <1>6 DEF IInv

LEMMA CloseStep ==
  ASSUME IInv, NEW g \in Switched, Close(g)
  PROVE  IInv'
<1> USE DEF Close, fileVars, delayVars, signalVars, showVars, modeVars
<1>0. TypeOK /\ HandlerInv /\ PinInv /\ FrameInv /\ RightInv /\ CaptureInv
  BY DEF IInv
<1>a. Closing /\ todo' = Tail(todo) /\ TodoOK
  BY <1>0 DEF Closing, TypeOK
<1>b. frame \in {"Initial", "Ready", "Changed"}
  BY <1>0 DEF TypeOK, PinOK
<1>c. /\ camera' \in CameraType /\ camera'.held \subseteq {"qcarcam"}
      /\ ~camera'.open /\ ~camera'.send /\ ~camera'.started
  <2>1. ReleaseProcess(camera.held) \in SUBSET Whole /\ ReleaseProcess(camera.held) \subseteq {"qcarcam"}
    BY <1>0 DEF TypeOK, CameraOK, CameraType, ReleaseProcess, Whole
  <2> QED
    BY <2>1 DEF NoCamera, CameraType
<1>1. TypeOK'
  <2>1. FileOK'
    BY <1>0 DEF TypeOK, FileOK
  <2>2. FlagsOK'
    BY <1>0 DEF TypeOK, FlagsOK
  <2>3. CameraOK'
    BY <1>0, <1>c DEF TypeOK, CameraOK
  <2>4. PinOK'
    BY <1>0, <1>b, PinFacts DEF TypeOK, PinOK
  <2>5. CountsOK'
    BY <1>0, <1>b, PinFacts DEF TypeOK, CountsOK
  <2>6. AstrayOK'
    BY <1>0, <1>b, PinFacts DEF AstrayOK
  <2>7. TodoOK'
    BY <1>a, CloseTodo
  <2> QED
    BY <2>1, <2>2, <2>3, <2>4, <2>5, <2>6, <2>7 DEF TypeOK
<1>2. HandlerInv'
  BY <1>0, <1>a, <1>b, <1>c, PinFacts, CloseTodo, TodoFacts DEF HandlerInv, Joined
<1>3. PinInv'
  BY <1>0, <1>b, PinFacts DEF PinInv
<1>4. FrameInv'
  BY <1>0, <1>a, <1>b, PinFacts, CloseTodo DEF FrameInv
<1>5. RightInv'
  BY <1>0, <1>b, PinFacts, RightKept
<1>6. CaptureInv'
  BY <1>0, <1>a, <1>b, <1>c, PinFacts, CloseTodo DEF CaptureInv, HandlerInv
<1> QED
  BY <1>1, <1>2, <1>3, <1>4, <1>5, <1>6 DEF IInv

\* What an attempt to open leaves in astray.
LEMMA BlameFacts ==
  ASSUME TypeOK, NEW t, NEW o, Attempt(t, o), NEW healed \in SUBSET {"send"},
         NEW lost \in SUBSET {"send"}, Blame(o, healed, lost)
  PROVE  /\ astray' \in SUBSET Reasons
         /\ \A r \in {"right", "standby", "signal"} : r \in astray' <=> r \in astray
         /\ \A r \in {"open", "capture"} : r \in astray' <=> r \in o.lost
         /\ "send" \in astray' <=> ("send" \in astray /\ "send" \notin healed) \/ "send" \in lost
<1>1. o.lost \in SUBSET {"open", "capture"} /\ astray \in SUBSET Reasons
  BY DEF Attempt, TypeOK, AstrayOK
<1>2. astray' = (astray \ (healed \cup {"open", "capture"})) \cup o.lost \cup lost
  BY DEF Blame
<1> QED
  BY <1>1, <1>2 DEF Reasons

\* A handler that has nothing left to do but what Attempted says.
LEMMA OpeningStep ==
  ASSUME TypeOK, HandlerInv, CaptureInv, Resting, ~asleep, NEW o,
         Attempt(type, o), OpenCameraCapture(o), UNCHANGED <<type, path, sync, visual, asleep, draw>>,
         o.joins => Closing' /\ Failing' /\ ~Standing',
         ~o.joins => ~Closing' /\ ~Failing' /\ Standing',
         ~Lowering'
  PROVE  /\ HandlerInv' /\ CaptureInv'
         /\ astray' \in SUBSET Reasons
         /\ \A r \in {"right", "standby", "signal"} : r \in astray' <=> r \in astray
         /\ camera.open => camera'.open /\ ~Failing'
<1> DEFINE lost == IF o.ok /\ ~camera.open /\ path # "" THEN {"send"} ELSE {}
<1>1. waiting' = FALSE /\ camera' = o.cam /\ Blame(o, {}, lost) /\ lost \in SUBSET {"send"}
  BY DEF OpenCameraCapture
<1> HIDE DEF lost
<1>2. /\ astray' \in SUBSET Reasons
      /\ \A r \in {"right", "standby", "signal"} : r \in astray' <=> r \in astray
      /\ \A r \in {"open", "capture"} : r \in astray' <=> r \in o.lost
      /\ "send" \in astray' <=> "send" \in astray \/ "send" \in lost
  BY <1>1, BlameFacts
<1>3. ~Failing /\ ~Closing /\ Standing
  BY TodoFacts DEF TypeOK
<1>4. camera.open => camera'.open /\ ~Failing'
  BY <1>1 DEF Attempt
<1>5. HandlerInv'
  BY <1>1, <1>2, <1>3, <1>4 DEF HandlerInv, Attempt
<1>6. CaptureInv'
  <2>1. type # NoType /\ "open" \notin astray' /\ ~o.joins => camera'.open
    BY <1>1, <1>2 DEF Attempt
  <2>2. o.joins => "open" \in astray'
    BY <1>2 DEF Attempt
  <2>3. CASE camera.open
    BY <1>1, <1>2, <1>3, <2>1, <2>2, <2>3 DEF CaptureInv, Attempt
  <2>4. CASE ~camera.open
    <3>1. Standing' /\ camera'.open /\ "send" \notin astray' => path = ""
      BY <1>1, <1>2, <2>4 DEF Attempt, lost
    <3>2. Standing' /\ camera'.open /\ "capture" \notin astray' => camera'.started = (sync /\ visual)
      BY <1>1, <1>2, <2>4 DEF Attempt
    <3>3. camera'.open /\ Standing' => camera'.send = FALSE
      BY <1>1, <2>4 DEF Attempt, CameraType
    <3>4. /\ (Standing' \/ Failing') /\ type # NoType /\ "open" \notin astray' => camera'.open
      BY <2>1, <2>2
    <3>5. Standing' /\ camera'.open /\ "send" \notin astray' => camera'.send = (path # "")
      BY <3>1, <3>3
    <3> QED
      BY <3>2, <3>4, <3>5 DEF CaptureInv
  <2> QED
    BY <2>3, <2>4
<1> QED
  BY <1>2, <1>4, <1>5, <1>6

LEMMA RetypeStep ==
  ASSUME IInv, Goes("retype"), NEW o \in SettingtCameraCapture(camera, todo[1][2]), Retype(o)
  PROVE  IInv'
<1> USE DEF Retype, fileVars, signalVars, showVars, pinVars, modeVars
<1>0. TypeOK /\ HandlerInv /\ PinInv /\ FrameInv /\ RightInv /\ CaptureInv
  BY DEF IInv
<1> DEFINE t == todo[1][2]
<1>a. /\ Tail(todo) = <<>> /\ t \in Types \cup {NoType}
      /\ ~Closing /\ ~Failing /\ ~Standing /\ ~Suspending /\ ~Raising
  BY <1>0, LastTodo DEF TypeOK
<1>b. ~camera.open /\ ~asleep /\ draw = "idle" /\ ~Resting /\ ~Lowering
  BY <1>0, <1>a, TodoFacts DEF HandlerInv, TypeOK, PinOK
<1>c. Attempt(t, o)
  BY <1>0, SettingFacts
<1>d. todo' = (IF o.joins THEN <<Op("close")>> ELSE <<>>) \o <<>>
  BY <1>a DEF Attempted
<1>e. /\ type' = (IF o.ok THEN t ELSE NoType)
      /\ camera' = (IF o.ok /\ path # "" THEN SetCameraPath(o.cam, path) ELSE o.cam)
      /\ Blame(o, {"send"}, {})
  OBVIOUS
<1>h. o.joins \in BOOLEAN /\ o.cam \in CameraType
  BY <1>c DEF Attempt
<1> HIDE DEF t
<1>f. /\ astray' \in SUBSET Reasons
      /\ \A r \in {"right", "standby", "signal"} : r \in astray' <=> r \in astray
      /\ \A r \in {"open", "capture"} : r \in astray' <=> r \in o.lost
  BY <1>0, <1>c, <1>e, BlameFacts
<1>g. /\ camera' \in CameraType /\ camera'.open = o.cam.open /\ camera'.held = o.cam.held
      /\ camera'.started = o.cam.started
      /\ camera'.send = IF o.ok /\ path # "" THEN TRUE ELSE o.cam.send
  <2>1. o.ok => o.cam.open
    BY <1>c DEF Attempt
  <2>2. CASE o.ok /\ path # ""
    <3>1. camera' = SetCameraPath(o.cam, path)
      BY <1>e, <2>2
    <3>2. /\ SetCameraPath(o.cam, path) \in CameraType
          /\ SetCameraPath(o.cam, path).open = o.cam.open
          /\ SetCameraPath(o.cam, path).held = o.cam.held
          /\ SetCameraPath(o.cam, path).started = o.cam.started
          /\ o.cam.open => SetCameraPath(o.cam, path).send = TRUE
          /\ ~o.cam.open => SetCameraPath(o.cam, path).send = o.cam.send
      BY <1>h, <2>2, PathFacts
    <3> QED
      BY <2>1, <2>2, <3>1, <3>2
  <2>3. CASE ~(o.ok /\ path # "")
    BY <1>e, <1>h, <2>3
  <2> QED
    BY <2>2, <2>3
<1>1. TypeOK'
  <2>1. FileOK'
    BY <1>0 DEF TypeOK, FileOK
  <2>2. FlagsOK'
    <3>1. waiting' \in BOOLEAN
      OBVIOUS
    <3> QED
      BY <1>0, <3>1 DEF TypeOK, FlagsOK
  <2>3. CameraOK'
    <3>1. type' \in Types \cup {NoType}
      BY <1>a, <1>e
    <3> QED
      BY <1>0, <1>g, <3>1 DEF TypeOK, CameraOK
  <2>4. PinOK'
    BY <1>0 DEF TypeOK, PinOK
  <2>5. CountsOK'
    <3>1. o.failures \in Nat
      BY <1>c DEF Attempt
    <3>2. due' \in Nat /\ wait' \in Nat /\ Calls(o.failures)
      BY <1>0 DEF TypeOK, CountsOK
    <3> QED
      BY <1>0, <3>1, <3>2, CountFacts
  <2>6. AstrayOK'
    BY <1>f DEF AstrayOK
  <2>7. TodoOK'
    BY <1>d, <1>h, AttemptedTodo
  <2> QED
    BY <2>1, <2>2, <2>3, <2>4, <2>5, <2>6, <2>7 DEF TypeOK
<1>2. HandlerInv'
  <2>1. /\ o.joins => Closing' /\ Failing' /\ ~Standing'
        /\ ~o.joins => ~Closing' /\ ~Failing' /\ Standing'
        /\ ~Lowering'
    BY <1>d, <1>h, AttemptedTodo
  <2> QED
    BY <1>b, <1>c, <1>f, <1>g, <2>1 DEF HandlerInv, Attempt
<1>3. PinInv'
  BY <1>0, <1>b, <1>f DEF PinInv
<1>4. FrameInv'
  BY <1>0, <1>a, <1>f DEF FrameInv
<1>5. RightInv'
  BY <1>0, <1>f, RightKept
<1>6. CaptureInv'
  <2>1. /\ o.joins => ~Standing'
        /\ o.ok => ~o.joins /\ o.cam.open
        /\ ~o.ok => type' = NoType /\ (~o.joins => ~o.cam.open)
    BY <1>c, <1>d, <1>e, <1>h, AttemptedTodo DEF Attempt
  <2>2. o.ok /\ "capture" \notin astray' => camera'.started = (sync /\ visual)
    BY <1>b, <1>c, <1>f, <1>g DEF Attempt
  <2>3. o.ok => camera'.send = (path # "")
    <3>1. o.ok => o.cam.send = FALSE
      BY <1>b, <1>c DEF Attempt, CameraType
    <3> QED
      BY <1>g, <3>1
  <2>4. Standing' /\ camera'.open => o.ok
    BY <1>g, <2>1
  <2>5. type' # NoType => camera'.open
    BY <1>g, <2>1
  <2> QED
    BY <2>2, <2>3, <2>4, <2>5 DEF CaptureInv
<1> QED
  BY <1>1, <1>2, <1>3, <1>4, <1>5, <1>6 DEF IInv

LEMMA ResetStep ==
  ASSUME IInv, NEW o \in SettingCameraCapture, Reset(o)
  PROVE  IInv'
<1> USE DEF Reset, fileVars, signalVars, pinVars, modeVars
<1>0. TypeOK /\ HandlerInv /\ PinInv /\ FrameInv /\ RightInv /\ CaptureInv
  BY DEF IInv
<1>a. Tail(todo) = <<>> /\ ~Closing /\ ~Failing /\ ~Standing /\ ~Suspending /\ ~Raising
  BY <1>0, LastTodo DEF TypeOK
<1>b. ~camera.open /\ ~asleep /\ draw = "idle" /\ ~Resting /\ ~Lowering
  BY <1>0, <1>a, TodoFacts DEF HandlerInv, TypeOK, PinOK
<1>c. Attempt(type, o)
  BY <1>0, SettingFacts DEF SettingCameraCapture
<1>d. todo' = (IF o.joins THEN <<Op("close")>> ELSE <<>>) \o <<>>
  BY <1>a DEF Attempted
<1>e. /\ camera' = (IF path # "" /\ ~o.joins THEN SetCameraPath(o.cam, path) ELSE o.cam)
      /\ Blame(o, {"send"}, {})
  OBVIOUS
<1>f. /\ astray' \in SUBSET Reasons
      /\ \A r \in {"right", "standby", "signal"} : r \in astray' <=> r \in astray
      /\ \A r \in {"open", "capture"} : r \in astray' <=> r \in o.lost
  BY <1>0, <1>c, <1>e, BlameFacts
<1>h. o.joins \in BOOLEAN /\ o.cam \in CameraType
  BY <1>c DEF Attempt
<1>g. /\ camera' \in CameraType /\ camera'.open = o.cam.open /\ camera'.held = o.cam.held
      /\ camera'.started = o.cam.started
      /\ camera'.send = IF path # "" /\ ~o.joins /\ o.cam.open THEN TRUE ELSE o.cam.send
  <2>1. CASE path # "" /\ ~o.joins
    <3>1. camera' = SetCameraPath(o.cam, path)
      BY <1>e, <2>1
    <3>2. /\ SetCameraPath(o.cam, path) \in CameraType
          /\ SetCameraPath(o.cam, path).open = o.cam.open
          /\ SetCameraPath(o.cam, path).held = o.cam.held
          /\ SetCameraPath(o.cam, path).started = o.cam.started
          /\ o.cam.open => SetCameraPath(o.cam, path).send = TRUE
          /\ ~o.cam.open => SetCameraPath(o.cam, path).send = o.cam.send
      BY <1>h, <2>1, PathFacts
    <3> QED
      BY <2>1, <3>1, <3>2
  <2>2. CASE ~(path # "" /\ ~o.joins)
    BY <1>e, <1>h, <2>2
  <2> QED
    BY <2>1, <2>2
<1>1. TypeOK'
  <2>1. FileOK'
    BY <1>0 DEF TypeOK, FileOK
  <2>2. FlagsOK'
    <3>1. waiting' \in BOOLEAN /\ covered' \in BOOLEAN
      BY <1>0 DEF TypeOK, FlagsOK
    <3> QED
      BY <1>0, <3>1 DEF TypeOK, FlagsOK
  <2>3. CameraOK'
    BY <1>0, <1>g DEF TypeOK, CameraOK
  <2>4. PinOK'
    BY <1>0 DEF TypeOK, PinOK
  <2>5. CountsOK'
    <3>1. o.failures \in Nat
      BY <1>c DEF Attempt
    <3>2. due' \in Nat /\ wait' \in Nat /\ Calls(o.failures)
      BY <1>0 DEF TypeOK, CountsOK
    <3> QED
      BY <1>0, <3>1, <3>2, CountFacts
  <2>6. AstrayOK'
    BY <1>f DEF AstrayOK
  <2>7. TodoOK'
    BY <1>d, <1>h, AttemptedTodo
  <2> QED
    BY <2>1, <2>2, <2>3, <2>4, <2>5, <2>6, <2>7 DEF TypeOK
<1>2. HandlerInv'
  <2>1. /\ o.joins => Closing' /\ Failing' /\ ~Standing'
        /\ ~o.joins => ~Closing' /\ ~Failing' /\ Standing'
        /\ ~Lowering'
    BY <1>d, <1>h, AttemptedTodo
  <2> QED
    BY <1>b, <1>c, <1>f, <1>g, <2>1 DEF HandlerInv, Attempt
<1>3. PinInv'
  BY <1>0, <1>b, <1>f DEF PinInv
<1>4. FrameInv'
  BY <1>0, <1>a, <1>f DEF FrameInv
<1>5. RightInv'
  BY <1>0, <1>f, RightKept
<1>6. CaptureInv'
  <2>1. /\ o.joins => ~Standing'
        /\ o.ok => ~o.joins /\ o.cam.open
        /\ ~o.ok => (type = NoType \/ "open" \in o.lost) /\ (~o.joins => ~o.cam.open)
    BY <1>c, <1>d, <1>h, AttemptedTodo DEF Attempt
  <2>2. o.ok /\ "capture" \notin astray' => camera'.started = (sync /\ visual)
    BY <1>b, <1>c, <1>f, <1>g DEF Attempt
  <2>3. o.ok => camera'.send = (path # "")
    <3>1. o.ok => o.cam.send = FALSE
      BY <1>b, <1>c DEF Attempt, CameraType
    <3> QED
      BY <1>g, <2>1, <3>1
  <2>4. Standing' /\ camera'.open => o.ok
    BY <1>g, <2>1
  <2>5. type # NoType /\ "open" \notin astray' => camera'.open
    BY <1>f, <1>g, <2>1
  <2> QED
    BY <2>2, <2>3, <2>4, <2>5 DEF CaptureInv
<1> QED
  BY <1>1, <1>2, <1>3, <1>4, <1>5, <1>6 DEF IInv

LEMMA SuspendEndsStep ==
  ASSUME IInv, SuspendEnds
  PROVE  IInv'
<1> USE DEF SuspendEnds, FinalizeQcarcam, ReInit, ReceiverReInit, MuteReInit, DropEvents
<1>0. TypeOK /\ HandlerInv /\ PinInv /\ FrameInv /\ RightInv /\ CaptureInv
  BY DEF IInv
<1>a. todo' = <<>> /\ ~Closing /\ ~Failing /\ ~Standing
  BY <1>0, LastTodo DEF TypeOK
<1>b. ~camera.open /\ draw = "idle" /\ ~Resting /\ ~Lowering
  BY <1>0, <1>a, TodoFacts DEF HandlerInv, TypeOK, PinOK
<1>c. /\ camera' \in CameraType /\ camera'.open = camera.open /\ camera'.send = camera.send
      /\ camera'.started = camera.started /\ camera'.held = camera.held \ {"qcarcam"}
  BY <1>0 DEF TypeOK, CameraOK, CameraType
<1>d. \A r \in {"right", "standby"} : r \in astray => r \in astray'
  OBVIOUS
<1>1. TypeOK'
  <2>1. FileOK'
    <3>1. told' \in Seq(Rights)
      OBVIOUS
    <3> QED
      BY <1>0, <3>1 DEF TypeOK, FileOK
  <2>2. FlagsOK'
    BY <1>0 DEF TypeOK, FlagsOK
  <2>3. CameraOK'
    BY <1>0, <1>c DEF TypeOK, CameraOK
  <2>4. PinOK'
    BY <1>0 DEF TypeOK, PinOK
  <2>5. CountsOK'
    BY <1>0 DEF TypeOK, CountsOK
  <2>6. AstrayOK'
    BY <1>0 DEF TypeOK, AstrayOK, Reasons
  <2>7. TodoOK'
    BY <1>a, DoneTodo
  <2> QED
    BY <2>1, <2>2, <2>3, <2>4, <2>5, <2>6, <2>7 DEF TypeOK
<1>2. HandlerInv'
  BY <1>0, <1>a, <1>b, <1>c, DoneTodo DEF HandlerInv
<1>3. PinInv'
  <2>1. "standby" \notin astray => ~pin
    BY <1>0, <1>b DEF PinInv
  <2>2. pin' = pin /\ stby2' = FALSE
    OBVIOUS
  <2>3. pin \in BOOLEAN
    BY <1>0 DEF TypeOK, PinOK
  <2> QED
    <3> HIDE DEF SuspendEnds
    <3>1. "standby" \notin astray' => pin' = FALSE /\ stby2' = FALSE
      BY <1>d, <2>1, <2>2, <2>3
    <3> QED
      BY <3>1 DEF PinInv
<1>4. FrameInv'
  BY DEF FrameInv
<1>5. RightInv'
  BY <1>0 DEF RightInv, Latest
<1>6. CaptureInv'
  BY <1>b, <1>c DEF CaptureInv
<1> QED
  BY <1>1, <1>2, <1>3, <1>4, <1>5, <1>6 DEF IInv

-----------------------------------------------------------------------------
(* The other threads                                                       *)

LEMMA FileChangesStep ==
  ASSUME IInv, NEW v \in Rights, FileChanges(v)
  PROVE  IInv'
<1> USE DEF FileChanges, fileVars, delayVars, signalVars, showVars, pinVars, modeVars
<1>0. TypeOK /\ HandlerInv /\ PinInv /\ FrameInv /\ RightInv /\ CaptureInv
  BY DEF IInv
<1>1. TypeOK'
  <2>1. FileOK'
    BY <1>0 DEF TypeOK, FileOK
  <2>2. FlagsOK'
    BY <1>0 DEF TypeOK, FlagsOK
  <2>3. CameraOK'
    BY <1>0 DEF TypeOK, CameraOK
  <2>4. PinOK'
    BY <1>0 DEF TypeOK, PinOK
  <2>5. CountsOK'
    <3>1. 1 \in Nat
      OBVIOUS
    <3>2. due' \in Nat /\ wait' \in Nat /\ Calls(1)
      BY <1>0 DEF TypeOK, CountsOK
    <3> QED
      BY <1>0, <3>1, <3>2, CountFacts
  <2>6. AstrayOK'
    BY <1>0 DEF TypeOK, AstrayOK
  <2>7. TodoOK'
    BY <1>0, SameTodo DEF TypeOK
  <2> QED
    BY <2>1, <2>2, <2>3, <2>4, <2>5, <2>6, <2>7 DEF TypeOK
<1>2. HandlerInv'
  BY <1>0, HandlerKept
<1>3. PinInv'
  BY <1>0, SameTodo, PinKept
<1>4. FrameInv'
  BY <1>0, SameTodo, FrameKept
<1>5. RightInv'
  BY DEF RightInv
<1>6. CaptureInv'
  BY <1>0, CaptureKept
<1> QED
  BY <1>1, <1>2, <1>3, <1>4, <1>5, <1>6 DEF IInv

LEMMA FileobStep ==
  ASSUME IInv, NEW ok \in BOOLEAN, FileobPathCallback(ok)
  PROVE  IInv'
<1> USE DEF FileobPathCallback, GetStatus, fileVars, delayVars, signalVars, showVars, pinVars, modeVars
<1>0. TypeOK /\ HandlerInv /\ PinInv /\ FrameInv /\ RightInv /\ CaptureInv
  BY DEF IInv
<1>1. TypeOK'
  <2>1. FileOK'
    <3>1. told \in Seq(Rights) /\ right \in Rights /\ known \in Rights
      BY <1>0 DEF TypeOK, FileOK
    <3>2. told' = Append(told, right) \/ told' = told
      OBVIOUS
    <3>3. right' = right /\ known' = known
      OBVIOUS
    <3> HIDE DEF FileobPathCallback
    <3>4. Append(told, right) \in Seq(Rights)
      BY <3>1, AppendProperties
    <3> QED
      BY <3>1, <3>2, <3>3, <3>4 DEF FileOK
  <2>2. FlagsOK'
    BY <1>0 DEF TypeOK, FlagsOK
  <2>3. CameraOK'
    BY <1>0 DEF TypeOK, CameraOK
  <2>4. PinOK'
    BY <1>0 DEF TypeOK, PinOK
  <2>5. CountsOK'
    <3>1. Fault(ok) \in Nat
      BY FaultFacts
    <3>2. due' \in Nat /\ wait' \in Nat /\ Calls(Fault(ok))
      BY <1>0 DEF TypeOK, CountsOK
    <3> QED
      BY <1>0, <3>1, <3>2, CountFacts
  <2>6. AstrayOK'
    BY <1>0 DEF TypeOK, AstrayOK, Reasons
  <2>7. TodoOK'
    BY <1>0, SameTodo DEF TypeOK
  <2> QED
    BY <2>1, <2>2, <2>3, <2>4, <2>5, <2>6, <2>7 DEF TypeOK
<1>2. HandlerInv'
  BY <1>0, HandlerKept
<1>3. PinInv'
  BY <1>0, SameTodo, PinKept
<1>4. FrameInv'
  BY <1>0, SameTodo, FrameKept
<1>5. RightInv'
  <2>1. CASE ~asleep /\ ok
    <3>1. told \in Seq(Rights) /\ right \in Rights /\ told' = Append(told, right) /\ right' = right
      BY <1>0, <2>1 DEF TypeOK, FileOK
    <3> HIDE DEF FileobPathCallback
    <3>2. told' # <<>> /\ told'[Len(told')] = right
      BY <3>1, AppendProperties
    <3> QED
      BY <3>1, <3>2 DEF RightInv, Latest
  <2>2. CASE ~(~asleep /\ ok)
    BY <2>2 DEF RightInv
  <2> QED
    BY <2>1, <2>2
<1>6. CaptureInv'
  BY <1>0, CaptureKept
<1> QED
  BY <1>1, <1>2, <1>3, <1>4, <1>5, <1>6 DEF IInv

LEMMA MovieStep ==
  ASSUME IInv, NEW b \in BOOLEAN, MovieStarts(b)
  PROVE  IInv'
<1> USE DEF MovieStarts, fileVars, delayVars, signalVars, showVars, pinVars, modeVars
<1>0. TypeOK /\ HandlerInv /\ PinInv /\ FrameInv /\ RightInv /\ CaptureInv
  BY DEF IInv
<1>1. TypeOK'
  <2>1. FileOK'
    BY <1>0 DEF TypeOK, FileOK
  <2>2. FlagsOK'
    BY <1>0 DEF TypeOK, FlagsOK
  <2>3. CameraOK'
    BY <1>0 DEF TypeOK, CameraOK
  <2>4. PinOK'
    BY <1>0 DEF TypeOK, PinOK
  <2>5. CountsOK'
    <3>1. (IF b THEN 1 ELSE 0) \in Nat
      OBVIOUS
    <3>2. due' \in Nat /\ wait' \in Nat /\ Calls((IF b THEN 1 ELSE 0))
      BY <1>0 DEF TypeOK, CountsOK
    <3> QED
      BY <1>0, <3>1, <3>2, CountFacts
  <2>6. AstrayOK'
    BY <1>0 DEF TypeOK, AstrayOK
  <2>7. TodoOK'
    BY <1>0, SameTodo DEF TypeOK
  <2> QED
    BY <2>1, <2>2, <2>3, <2>4, <2>5, <2>6, <2>7 DEF TypeOK
<1>2. HandlerInv'
  BY <1>0, HandlerKept
<1>3. PinInv'
  BY <1>0, SameTodo, PinKept
<1>4. FrameInv'
  BY <1>0, SameTodo, FrameKept
<1>5. RightInv'
  BY <1>0, RightKept
<1>6. CaptureInv'
  BY <1>0, CaptureKept
<1> QED
  BY <1>1, <1>2, <1>3, <1>4, <1>5, <1>6 DEF IInv

LEMMA TimerStep ==
  ASSUME IInv, CallbackTimer
  PROVE  IInv'
<1> USE DEF CallbackTimer, fileVars, delayVars, signalVars, showVars, pinVars, modeVars
<1>0. TypeOK /\ HandlerInv /\ PinInv /\ FrameInv /\ RightInv /\ CaptureInv
  BY DEF IInv
<1>1. TypeOK'
  <2>1. FileOK'
    BY <1>0 DEF TypeOK, FileOK
  <2>2. FlagsOK'
    BY <1>0 DEF TypeOK, FlagsOK
  <2>3. CameraOK'
    BY <1>0 DEF TypeOK, CameraOK
  <2>4. PinOK'
    BY <1>0 DEF TypeOK, PinOK
  <2>5. CountsOK'
    <3>1. due \in Nat /\ due' \in {due, due + 1} /\ wait' = wait /\ used' = used
      BY <1>0 DEF TypeOK, CountsOK
    <3> QED
      BY <1>0, <3>1 DEF TypeOK, CountsOK
  <2>6. AstrayOK'
    BY <1>0 DEF TypeOK, AstrayOK
  <2>7. TodoOK'
    BY <1>0, SameTodo DEF TypeOK
  <2> QED
    BY <2>1, <2>2, <2>3, <2>4, <2>5, <2>6, <2>7 DEF TypeOK
<1>2. HandlerInv'
  BY <1>0, HandlerKept
<1>3. PinInv'
  BY <1>0, SameTodo, PinKept
<1>4. FrameInv'
  BY <1>0, SameTodo, FrameKept
<1>5. RightInv'
  BY <1>0, RightKept
<1>6. CaptureInv'
  <2>1. due \in Nat /\ (~asleep => due' = due + 1)
    BY <1>0 DEF TypeOK, CountsOK
  <2>2. ~asleep => due' > 0
    BY <2>1
  <2> QED
    BY <1>0, <2>2, SameTodo DEF CaptureInv
<1> QED
  BY <1>1, <1>2, <1>3, <1>4, <1>5, <1>6 DEF IInv

LEMMA MuteStep ==
  ASSUME IInv, ReleaseMute
  PROVE  IInv'
<1> USE DEF ReleaseMute, fileVars, delayVars, signalVars, showVars, pinVars, modeVars
<1>0. TypeOK /\ HandlerInv /\ PinInv /\ FrameInv /\ RightInv /\ CaptureInv
  BY DEF IInv
<1>1. TypeOK'
  <2>1. FileOK'
    BY <1>0 DEF TypeOK, FileOK
  <2>2. FlagsOK'
    BY <1>0 DEF TypeOK, FlagsOK
  <2>3. CameraOK'
    BY <1>0 DEF TypeOK, CameraOK
  <2>4. PinOK'
    BY <1>0 DEF TypeOK, PinOK
  <2>5. CountsOK'
    BY <1>0 DEF TypeOK, CountsOK
  <2>6. AstrayOK'
    BY <1>0 DEF TypeOK, AstrayOK
  <2>7. TodoOK'
    BY <1>0, SameTodo DEF TypeOK
  <2> QED
    BY <2>1, <2>2, <2>3, <2>4, <2>5, <2>6, <2>7 DEF TypeOK
<1>2. HandlerInv'
  BY <1>0, HandlerKept
<1>3. PinInv'
  BY <1>0, SameTodo, PinKept
<1>4. FrameInv'
  BY <1>0, SameTodo, FrameKept
<1>5. RightInv'
  BY <1>0, RightKept
<1>6. CaptureInv'
  BY <1>0, CaptureKept
<1> QED
  BY <1>1, <1>2, <1>3, <1>4, <1>5, <1>6 DEF IInv

LEMMA SilentStep ==
  ASSUME IInv, NotifyCaptureResetEvent
  PROVE  IInv'
<1> USE DEF NotifyCaptureResetEvent, fileVars, delayVars, signalVars, showVars, pinVars, modeVars
<1>0. TypeOK /\ HandlerInv /\ PinInv /\ FrameInv /\ RightInv /\ CaptureInv
  BY DEF IInv
<1>1. TypeOK'
  <2>1. FileOK'
    BY <1>0 DEF TypeOK, FileOK
  <2>2. FlagsOK'
    BY <1>0 DEF TypeOK, FlagsOK
  <2>3. CameraOK'
    BY <1>0 DEF TypeOK, CameraOK
  <2>4. PinOK'
    BY <1>0 DEF TypeOK, PinOK
  <2>5. CountsOK'
    <3>1. 1 \in Nat
      OBVIOUS
    <3>2. due' \in Nat /\ wait' \in Nat /\ Calls(1)
      BY <1>0 DEF TypeOK, CountsOK
    <3> QED
      BY <1>0, <3>1, <3>2, CountFacts
  <2>6. AstrayOK'
    BY <1>0 DEF TypeOK, AstrayOK
  <2>7. TodoOK'
    BY <1>0, SameTodo DEF TypeOK
  <2> QED
    BY <2>1, <2>2, <2>3, <2>4, <2>5, <2>6, <2>7 DEF TypeOK
<1>2. HandlerInv'
  BY <1>0, HandlerKept
<1>3. PinInv'
  BY <1>0, SameTodo, PinKept
<1>4. FrameInv'
  BY <1>0, SameTodo, FrameKept
<1>5. RightInv'
  BY <1>0, RightKept
<1>6. CaptureInv'
  BY <1>0, CaptureKept
<1> QED
  BY <1>1, <1>2, <1>3, <1>4, <1>5, <1>6 DEF IInv

-----------------------------------------------------------------------------
(* The control right over the camera                                       *)

LEMMA UpdateFacts ==
  ASSUME TypeOK, RightInv, NEW v, UpdateStatus(v)
  PROVE  /\ FileOK' /\ known' = v /\ Resting /\ ~asleep
         /\ ("right" \in astray => "right" \in astray') => RightInv'
<1> DEFINE q == told
<1>1. /\ told \in Seq(Rights) /\ told # <<>> /\ told' = Tail(told) /\ known' = Head(told)
      /\ right \in Rights /\ right' = right /\ noticed' = noticed /\ known' = v /\ Resting /\ ~asleep
  BY DEF TypeOK, FileOK, UpdateStatus, Handles, Resting
<1>2. /\ Head(told) \in Rights /\ Tail(told) \in Seq(Rights) /\ Len(Tail(told)) = Len(told) - 1
      /\ \A i \in 1 .. Len(Tail(told)) : Tail(told)[i] = told[i + 1]
      /\ Head(told) = told[1] /\ Len(told) \in Nat
  BY <1>1, HeadTailProperties
<1>3. Latest' = Latest
  <2> DEFINE n == Len(told)
             r == Tail(told)
  <2>1. Len(r) = n - 1 /\ n \in Nat /\ n # 0 /\ r \in Seq(Rights)
    BY <1>1, <1>2, EmptySeq
  <2>2. CASE n = 1
    <3>1. Len(r) = 0
      BY <2>1, <2>2
    <3>2. r = <<>>
      BY <2>1, <3>1, EmptySeq
    <3> QED
      BY <1>1, <1>2, <2>2, <3>2 DEF Latest
  <2>3. CASE n # 1
    <3>1. Len(r) \in 1 .. Len(r) /\ Len(r) + 1 = n /\ Len(r) # 0
      <4> HIDE DEF n, r
      <4> QED
        BY <2>1, <2>3
    <3>2. r # <<>>
      BY <2>1, <3>1, EmptySeq
    <3>3. r[Len(r)] = told[n]
      BY <1>2, <3>1
    <3> QED
      BY <1>1, <3>2, <3>3 DEF Latest
  <2> QED
    BY <2>2, <2>3
<1> QED
  BY <1>1, <1>2, <1>3 DEF FileOK, RightInv

LEMMA StatusKeptStep ==
  ASSUME IInv, NEW v \in Rights, CameraDisplayStatusKept(v)
  PROVE  IInv'
<1> USE DEF CameraDisplayStatusKept, delayVars, signalVars, showVars, pinVars, modeVars
<1>0. TypeOK /\ HandlerInv /\ PinInv /\ FrameInv /\ RightInv /\ CaptureInv
  BY DEF IInv
<1>a. /\ FileOK' /\ Resting /\ ~asleep
      /\ ("right" \in astray => "right" \in astray') => RightInv'
  BY <1>0, UpdateFacts
<1>b. ~Closing /\ ~Failing /\ Standing /\ ~Raising /\ ~Lowering /\ ~Suspending
  BY <1>0, <1>a, TodoFacts DEF TypeOK
<1>c. known' \in {known, "invalid"}
  BY DEF UpdateStatus
<1>1. TypeOK'
  <2>1. FileOK'
    BY <1>a
  <2>2. FlagsOK'
    <3>1. noticed' = noticed
      BY DEF UpdateStatus
    <3> QED
      BY <1>0, <3>1 DEF TypeOK, FlagsOK
  <2>3. CameraOK'
    BY <1>0 DEF TypeOK, CameraOK
  <2>4. PinOK'
    BY <1>0 DEF TypeOK, PinOK
  <2>5. CountsOK'
    BY <1>0 DEF TypeOK, CountsOK
  <2>6. AstrayOK'
    BY <1>0 DEF TypeOK, AstrayOK
  <2>7. TodoOK'
    BY <1>0, SameTodo DEF TypeOK
  <2> QED
    BY <2>1, <2>2, <2>3, <2>4, <2>5, <2>6, <2>7 DEF TypeOK
<1>2. HandlerInv'
  BY <1>0, <1>b, SameTodo DEF HandlerInv
<1>3. PinInv'
  BY <1>0, <1>b, <1>c, SameTodo DEF PinInv
<1>4. FrameInv'
  BY <1>0, <1>b, <1>c, SameTodo DEF FrameInv
<1>5. RightInv'
  BY <1>a
<1>6. CaptureInv'
  BY <1>0, <1>c, SameTodo DEF CaptureInv
<1> QED
  BY <1>1, <1>2, <1>3, <1>4, <1>5, <1>6 DEF IInv

LEMMA DelayedStep ==
  ASSUME IInv, CameraDisplayDelayed
  PROVE  IInv'
<1> USE DEF CameraDisplayDelayed, OpenCaptureDelayProcess, signalVars, showVars, pinVars, modeVars
<1>0. TypeOK /\ HandlerInv /\ PinInv /\ FrameInv /\ RightInv /\ CaptureInv
  BY DEF IInv
<1>a. /\ FileOK' /\ Resting /\ ~asleep
      /\ ("right" \in astray => "right" \in astray') => RightInv'
  BY <1>0, UpdateFacts
<1>b. ~Closing /\ ~Failing /\ Standing /\ ~Raising /\ ~Lowering /\ ~Suspending
  BY <1>0, <1>a, TodoFacts DEF TypeOK
<1>c. known' = "Ready"
  BY DEF UpdateStatus
<1>d. /\ TodoOK' /\ ~Resting' /\ ~Closing' /\ ~Failing' /\ Standing' /\ Raising'
      /\ ~Lowering' /\ ~Suspending'
  BY OneTodo DEF Op, Ops
<1>1. TypeOK'
  <2>1. FileOK'
    BY <1>a
  <2>2. FlagsOK'
    <3>1. noticed' = noticed
      BY DEF UpdateStatus
    <3> QED
      BY <1>0, <3>1 DEF TypeOK, FlagsOK
  <2>3. CameraOK'
    BY <1>0 DEF TypeOK, CameraOK
  <2>4. PinOK'
    BY <1>0 DEF TypeOK, PinOK
  <2>5. CountsOK'
    BY <1>0 DEF TypeOK, CountsOK
  <2>6. AstrayOK'
    BY <1>0 DEF TypeOK, AstrayOK
  <2>7. TodoOK'
    BY <1>d
  <2> QED
    BY <2>1, <2>2, <2>3, <2>4, <2>5, <2>6, <2>7 DEF TypeOK
<1>2. HandlerInv'
  BY <1>0, <1>a, <1>b, <1>d DEF HandlerInv
<1>3. PinInv'
  BY <1>0 DEF PinInv
<1>4. FrameInv'
  BY <1>d DEF FrameInv
<1>5. RightInv'
  BY <1>a
<1>6. CaptureInv'
  BY <1>0 DEF CaptureInv
<1> QED
  BY <1>1, <1>2, <1>3, <1>4, <1>5, <1>6 DEF IInv

LEMMA InitialStep ==
  ASSUME IInv, CameraDisplayInitial
  PROVE  IInv'
<1> USE DEF CameraDisplayInitial, delayVars, signalVars, showVars, pinVars, modeVars
<1>0. TypeOK /\ HandlerInv /\ PinInv /\ FrameInv /\ RightInv /\ CaptureInv
  BY DEF IInv
<1>a. /\ FileOK' /\ Resting /\ ~asleep
      /\ ("right" \in astray => "right" \in astray') => RightInv'
  BY <1>0, UpdateFacts
<1>b. ~Closing /\ ~Failing /\ Standing /\ ~Raising /\ ~Lowering /\ ~Suspending
  BY <1>0, <1>a, TodoFacts DEF TypeOK
<1>c. known' = "Initial"
  BY DEF UpdateStatus
<1>d. /\ TodoOK' /\ ~Resting' /\ ~Closing' /\ ~Failing' /\ Standing' /\ ~Raising'
      /\ Lowering' /\ ~Suspending'
  BY OneTodo DEF Op, Ops
<1>1. TypeOK'
  <2>1. FileOK'
    BY <1>a
  <2>2. FlagsOK'
    <3>1. noticed' = noticed
      BY DEF UpdateStatus
    <3> QED
      BY <1>0, <3>1 DEF TypeOK, FlagsOK
  <2>3. CameraOK'
    BY <1>0 DEF TypeOK, CameraOK
  <2>4. PinOK'
    BY <1>0 DEF TypeOK, PinOK
  <2>5. CountsOK'
    BY <1>0 DEF TypeOK, CountsOK
  <2>6. AstrayOK'
    BY <1>0 DEF TypeOK, AstrayOK
  <2>7. TodoOK'
    BY <1>d
  <2> QED
    BY <2>1, <2>2, <2>3, <2>4, <2>5, <2>6, <2>7 DEF TypeOK
<1>2. HandlerInv'
  BY <1>0, <1>a, <1>b, <1>c, <1>d DEF HandlerInv
<1>3. PinInv'
  BY <1>0, <1>b, <1>d DEF PinInv
<1>4. FrameInv'
  BY <1>c DEF FrameInv
<1>5. RightInv'
  BY <1>a
<1>6. CaptureInv'
  BY <1>0, <1>b, <1>c DEF CaptureInv
<1> QED
  BY <1>1, <1>2, <1>3, <1>4, <1>5, <1>6 DEF IInv

LEMMA ReadyStep ==
  ASSUME IInv, NEW o \in SettingCameraCapture, NEW refused \in BOOLEAN, CameraDisplayReady(o, refused)
  PROVE  IInv'
<1> USE DEF CameraDisplayReady, signalVars, showVars, pinVars, modeVars
<1>0. TypeOK /\ HandlerInv /\ PinInv /\ FrameInv /\ RightInv /\ CaptureInv
  BY DEF IInv
<1>a. /\ FileOK' /\ Resting /\ ~asleep
      /\ ("right" \in astray => "right" \in astray') => RightInv'
  BY <1>0, UpdateFacts
<1>b. ~Closing /\ ~Failing /\ Standing /\ ~Raising /\ ~Lowering /\ ~Suspending
  BY <1>0, <1>a, TodoFacts DEF TypeOK
<1>c. known' = "Ready"
  BY DEF UpdateStatus
<1>d. Attempt(type, o)
  BY <1>0, SettingFacts DEF SettingCameraCapture
<1>e. o.joins \in BOOLEAN /\ o.failures \in Nat /\ o.cam \in CameraType
  BY <1>d DEF Attempt
<1>f. todo' = (IF o.joins THEN <<Op("close")>> ELSE <<>>) \o <<Op("raise")>>
  BY DEF Attempted
<1>g. /\ TodoOK' /\ Raising' /\ ~Lowering' /\ ~Suspending' /\ ~Resting'
      /\ o.joins => Closing' /\ Failing' /\ ~Standing'
      /\ ~o.joins => ~Closing' /\ ~Failing' /\ Standing'
  BY <1>e, <1>f, AttemptedRaiseTodo
<1>h. /\ HandlerInv' /\ CaptureInv'
      /\ astray' \in SUBSET Reasons
      /\ \A r \in {"right", "standby", "signal"} : r \in astray' <=> r \in astray
      /\ camera.open => camera'.open /\ ~Failing'
  BY <1>0, <1>a, <1>d, <1>g, OpeningStep
<1>1. TypeOK'
  <2>1. FileOK'
    BY <1>a
  <2>2. FlagsOK'
    <3>1. noticed' = noticed /\ waiting' = FALSE
      BY DEF UpdateStatus, OpenCameraCapture
    <3> QED
      BY <1>0, <3>1 DEF TypeOK, FlagsOK
  <2>3. CameraOK'
    BY <1>0, <1>e DEF TypeOK, CameraOK, OpenCameraCapture
  <2>4. PinOK'
    BY <1>0 DEF TypeOK, PinOK
  <2>5. CountsOK'
    <3>1. o.failures + Fault(~refused) \in Nat
      BY <1>e, FaultFacts
    <3>2. due' \in Nat /\ wait' \in Nat /\ Calls(o.failures + Fault(~refused))
      BY <1>0 DEF TypeOK, CountsOK
    <3> QED
      BY <1>0, <3>1, <3>2, CountFacts
  <2>6. AstrayOK'
    BY <1>h DEF AstrayOK
  <2>7. TodoOK'
    BY <1>g
  <2> QED
    BY <2>1, <2>2, <2>3, <2>4, <2>5, <2>6, <2>7 DEF TypeOK
<1>2. HandlerInv'
  BY <1>h
<1>3. PinInv'
  BY <1>0, <1>b, <1>c, <1>h DEF PinInv
<1>4. FrameInv'
  BY <1>g DEF FrameInv
<1>5. RightInv'
  BY <1>a, <1>h
<1>6. CaptureInv'
  BY <1>h
<1> QED
  BY <1>1, <1>2, <1>3, <1>4, <1>5, <1>6 DEF IInv

LEMMA OnTimerStep ==
  ASSUME IInv, NEW o \in SettingCameraCapture, OnTimer(o)
  PROVE  IInv'
<1> USE DEF OnTimer, fileVars, signalVars, showVars, pinVars, modeVars
<1>0. TypeOK /\ HandlerInv /\ PinInv /\ FrameInv /\ RightInv /\ CaptureInv
  BY DEF IInv
<1>a. Resting /\ ~asleep
  BY DEF Handles, Resting
<1>b. ~Closing /\ ~Failing /\ Standing /\ ~Raising /\ ~Lowering /\ ~Suspending
  BY <1>0, <1>a, TodoFacts DEF TypeOK
<1>d. Attempt(type, o)
  BY <1>0, SettingFacts DEF SettingCameraCapture
<1>e. o.joins \in BOOLEAN /\ o.failures \in Nat /\ o.cam \in CameraType
  BY <1>d DEF Attempt
<1>f. todo' = (IF o.joins THEN <<Op("close")>> ELSE <<>>) \o <<>>
  BY DEF Attempted
<1>g. /\ TodoOK' /\ ~Raising' /\ ~Lowering' /\ ~Suspending'
      /\ o.joins => Closing' /\ Failing' /\ ~Standing'
      /\ ~o.joins => ~Closing' /\ ~Failing' /\ Standing'
  BY <1>e, <1>f, AttemptedTodo
<1>h. /\ HandlerInv' /\ CaptureInv'
      /\ astray' \in SUBSET Reasons
      /\ \A r \in {"right", "standby", "signal"} : r \in astray' <=> r \in astray
      /\ camera.open => camera'.open /\ ~Failing'
  BY <1>0, <1>a, <1>d, <1>g, OpeningStep
<1>1. TypeOK'
  <2>1. FileOK'
    BY <1>0 DEF TypeOK, FileOK
  <2>2. FlagsOK'
    <3>1. waiting' = FALSE
      BY DEF OpenCameraCapture
    <3> QED
      BY <1>0, <3>1 DEF TypeOK, FlagsOK
  <2>3. CameraOK'
    BY <1>0, <1>e DEF TypeOK, CameraOK, OpenCameraCapture
  <2>4. PinOK'
    BY <1>0 DEF TypeOK, PinOK
  <2>5. CountsOK'
    <3>1. due \in Nat /\ due > 0 /\ due' = due - 1 /\ wait \in Nat /\ wait' = wait /\ Calls(o.failures)
      BY <1>0 DEF TypeOK, CountsOK
    <3> HIDE DEF OnTimer
    <3>2. due' \in Nat /\ wait' \in Nat
      BY <3>1
    <3> QED
      BY <1>0, <1>e, <3>1, <3>2, CountFacts
  <2>6. AstrayOK'
    BY <1>h DEF AstrayOK
  <2>7. TodoOK'
    BY <1>g
  <2> QED
    BY <2>1, <2>2, <2>3, <2>4, <2>5, <2>6, <2>7 DEF TypeOK
<1>2. HandlerInv'
  BY <1>h
<1>3. PinInv'
  BY <1>0, <1>b, <1>h DEF PinInv
<1>4. FrameInv'
  BY <1>0, <1>b, <1>h, FrameKept
<1>5. RightInv'
  BY <1>0, <1>h, RightKept
<1>6. CaptureInv'
  BY <1>h
<1> QED
  BY <1>1, <1>2, <1>3, <1>4, <1>5, <1>6 DEF IInv

-----------------------------------------------------------------------------
(* The MICON's messages and the power state                                *)

LEMMA ControlFacts ==
  ASSUME TypeOK, NEW s \in BOOLEAN, NEW v \in BOOLEAN, NEW ok \in BOOLEAN, ActionCameraControl(s, v, ok),
         due' = due, wait' = wait
  PROVE  /\ camera' \in CameraType /\ camera'.open = camera.open /\ camera'.held = camera.held
         /\ camera'.send = camera.send /\ (~camera.open => camera' = camera)
         /\ astray' \in SUBSET Reasons
         /\ \A r \in {"right", "open", "send", "standby", "signal"} : r \in astray' <=> r \in astray
         /\ camera.open /\ "capture" \notin astray' => camera'.started = (s /\ v)
         /\ CountsOK'
<1>1. camera \in CameraType /\ (s /\ v) \in BOOLEAN /\ astray \in SUBSET Reasons
  BY DEF TypeOK, CameraOK, AstrayOK
<1>2. /\ camera' \in CameraType /\ camera'.open = camera.open /\ camera'.held = camera.held
      /\ camera'.send = camera.send /\ (~camera.open => camera' = camera)
      /\ camera.open /\ ok => camera'.started = (s /\ v)
  <2> DEFINE on == s /\ v
             c == Capture(camera, on, ok)
  <2>1. on \in BOOLEAN
    OBVIOUS
  <2>2. camera' = IF camera.open THEN c ELSE camera
    BY DEF ActionCameraControl
  <2> HIDE DEF on
  <2>3. /\ c \in CameraType /\ c.open = camera.open /\ c.held = camera.held /\ c.send = camera.send
        /\ ok => c.started = on
    BY <1>1, <2>1, CameraFacts
  <2> HIDE DEF c
  <2>4. /\ camera' \in CameraType /\ camera'.open = camera.open /\ camera'.held = camera.held
        /\ camera'.send = camera.send /\ (~camera.open => camera' = camera)
        /\ camera.open /\ ok => camera'.started = on
    BY <1>1, <2>2, <2>3
  <2> QED
    BY <2>4 DEF on
<1>3. astray' = IF ok THEN astray \ {"capture"} ELSE astray \cup {"capture"}
  BY DEF ActionCameraControl
<1>4. CountsOK'
  <2>1. 1 + Fault(ok) \in Nat
    BY DEF Fault
  <2>2. Calls(1 + Fault(ok)) /\ due' \in Nat /\ wait' \in Nat
    BY DEF ActionCameraControl, TypeOK, CountsOK
  <2> QED
    BY <2>1, <2>2, CountFacts
<1> QED
  BY <1>1, <1>2, <1>3, <1>4 DEF Reasons

LEMMA SyncStep ==
  ASSUME IInv, NEW s \in BOOLEAN, NEW ok \in BOOLEAN, SetCameraSync(s, ok)
  PROVE  IInv'
<1> USE DEF SetCameraSync, fileVars, delayVars, showVars, pinVars, modeVars
<1>0. TypeOK /\ HandlerInv /\ PinInv /\ FrameInv /\ RightInv /\ CaptureInv
  BY DEF IInv
<1>a. Resting /\ ~asleep
  BY DEF Handles, Resting
<1>b. ~Closing /\ ~Failing /\ Standing /\ ~Raising /\ ~Lowering /\ ~Suspending
  BY <1>0, <1>a, TodoFacts DEF TypeOK
<1>c. sync \in BOOLEAN /\ visual \in BOOLEAN
  BY <1>0 DEF TypeOK, FlagsOK
<1>d. /\ camera' \in CameraType /\ camera'.open = camera.open /\ camera'.held = camera.held
      /\ camera'.send = camera.send /\ (~camera.open => camera' = camera)
      /\ astray' \in SUBSET Reasons
      /\ \A r \in {"right", "open", "send", "standby", "signal"} : r \in astray' <=> r \in astray
      /\ camera.open /\ "capture" \notin astray' => camera'.started = (sync' /\ visual')
      /\ CountsOK'
  BY <1>0, <1>c, ControlFacts
<1>1. TypeOK'
  <2>1. FileOK'
    BY <1>0 DEF TypeOK, FileOK
  <2>2. FlagsOK'
    BY <1>0 DEF TypeOK, FlagsOK
  <2>3. CameraOK'
    BY <1>0, <1>d DEF TypeOK, CameraOK
  <2>4. PinOK'
    BY <1>0 DEF TypeOK, PinOK
  <2>5. CountsOK'
    BY <1>d
  <2>6. AstrayOK'
    BY <1>d DEF AstrayOK
  <2>7. TodoOK'
    BY <1>0, SameTodo DEF TypeOK
  <2> QED
    BY <2>1, <2>2, <2>3, <2>4, <2>5, <2>6, <2>7 DEF TypeOK
<1>2. HandlerInv'
  BY <1>0, <1>b, <1>d, SameTodo DEF HandlerInv
<1>3. PinInv'
  BY <1>0, <1>d, SameTodo, PinKept
<1>4. FrameInv'
  BY <1>0, <1>d, SameTodo, FrameKept
<1>5. RightInv'
  BY <1>0, <1>d, RightKept
<1>6. CaptureInv'
  BY <1>0, <1>b, <1>d, SameTodo DEF CaptureInv
<1> QED
  BY <1>1, <1>2, <1>3, <1>4, <1>5, <1>6 DEF IInv

LEMMA PowerStep ==
  ASSUME IInv, NEW v \in BOOLEAN, NEW ok \in BOOLEAN, ActionCameraPowerState(v, ok)
  PROVE  IInv'
<1> USE DEF ActionCameraPowerState, fileVars, delayVars, showVars, pinVars, modeVars
<1>0. TypeOK /\ HandlerInv /\ PinInv /\ FrameInv /\ RightInv /\ CaptureInv
  BY DEF IInv
<1>a. Resting /\ ~asleep
  BY DEF Handles, Resting
<1>b. ~Closing /\ ~Failing /\ Standing /\ ~Raising /\ ~Lowering /\ ~Suspending
  BY <1>0, <1>a, TodoFacts DEF TypeOK
<1>c. sync \in BOOLEAN /\ visual \in BOOLEAN
  BY <1>0 DEF TypeOK, FlagsOK
<1>d. /\ camera' \in CameraType /\ camera'.open = camera.open /\ camera'.held = camera.held
      /\ camera'.send = camera.send /\ (~camera.open => camera' = camera)
      /\ astray' \in SUBSET Reasons
      /\ \A r \in {"right", "open", "send", "standby", "signal"} : r \in astray' <=> r \in astray
      /\ camera.open /\ "capture" \notin astray' => camera'.started = (sync' /\ visual')
      /\ CountsOK'
  BY <1>0, <1>c, ControlFacts
<1>1. TypeOK'
  <2>1. FileOK'
    BY <1>0 DEF TypeOK, FileOK
  <2>2. FlagsOK'
    BY <1>0 DEF TypeOK, FlagsOK
  <2>3. CameraOK'
    BY <1>0, <1>d DEF TypeOK, CameraOK
  <2>4. PinOK'
    BY <1>0 DEF TypeOK, PinOK
  <2>5. CountsOK'
    BY <1>d
  <2>6. AstrayOK'
    BY <1>d DEF AstrayOK
  <2>7. TodoOK'
    BY <1>0, SameTodo DEF TypeOK
  <2> QED
    BY <2>1, <2>2, <2>3, <2>4, <2>5, <2>6, <2>7 DEF TypeOK
<1>2. HandlerInv'
  BY <1>0, <1>b, <1>d, SameTodo DEF HandlerInv
<1>3. PinInv'
  BY <1>0, <1>d, SameTodo, PinKept
<1>4. FrameInv'
  BY <1>0, <1>d, SameTodo, FrameKept
<1>5. RightInv'
  BY <1>0, <1>d, RightKept
<1>6. CaptureInv'
  BY <1>0, <1>b, <1>d, SameTodo DEF CaptureInv
<1> QED
  BY <1>1, <1>2, <1>3, <1>4, <1>5, <1>6 DEF IInv

LEMMA RequestStep ==
  ASSUME IInv, NEW r \in BOOLEAN, SetCameraType(r)
  PROVE  IInv'
<1> USE DEF SetCameraType, fileVars, delayVars, signalVars, showVars, pinVars, modeVars
<1>0. TypeOK /\ HandlerInv /\ PinInv /\ FrameInv /\ RightInv /\ CaptureInv
  BY DEF IInv
<1>1. TypeOK'
  <2>1. FileOK'
    BY <1>0 DEF TypeOK, FileOK
  <2>2. FlagsOK'
    BY <1>0 DEF TypeOK, FlagsOK
  <2>3. CameraOK'
    BY <1>0 DEF TypeOK, CameraOK
  <2>4. PinOK'
    BY <1>0 DEF TypeOK, PinOK
  <2>5. CountsOK'
    <3>1. 1 \in Nat
      OBVIOUS
    <3>2. due' \in Nat /\ wait' \in Nat /\ Calls(1)
      BY <1>0 DEF TypeOK, CountsOK
    <3> QED
      BY <1>0, <3>1, <3>2, CountFacts
  <2>6. AstrayOK'
    BY <1>0 DEF TypeOK, AstrayOK
  <2>7. TodoOK'
    BY <1>0, SameTodo DEF TypeOK
  <2> QED
    BY <2>1, <2>2, <2>3, <2>4, <2>5, <2>6, <2>7 DEF TypeOK
<1>2. HandlerInv'
  BY <1>0, HandlerKept
<1>3. PinInv'
  BY <1>0, SameTodo, PinKept
<1>4. FrameInv'
  BY <1>0, SameTodo, FrameKept
<1>5. RightInv'
  BY <1>0, RightKept
<1>6. CaptureInv'
  BY <1>0, CaptureKept
<1> QED
  BY <1>1, <1>2, <1>3, <1>4, <1>5, <1>6 DEF IInv

-----------------------------------------------------------------------------
(* Requests on the main thread                                             *)

\* A handler that first closes the capture, if there is one.
LEMMA ClosingStep ==
  ASSUME TypeOK, HandlerInv, PinInv, FrameInv, Resting, NEW ok \in BOOLEAN,
         camera' = StopCamera(camera, ok), ok \/ camera.started,
         NEW op \in {"retype", "reset", "suspend"}, NEW t \in Types \cup {NoType},
         todo' = ReleaseCameraCapture \o << <<op, t>> >>,
         UNCHANGED <<known, stby2, pin, frame, draw, astray>>,
         asleep' => op = "suspend"
  PROVE  /\ TodoOK' /\ camera' \in CameraType
         /\ HandlerInv' /\ PinInv' /\ FrameInv' /\ CaptureInv'
<1>1. camera \in CameraType /\ camera.open \in BOOLEAN
  BY DEF TypeOK, CameraOK, CameraType
<1>2. /\ TodoOK'
      /\ Closing' <=> camera.open
      /\ ~Failing' /\ ~Standing' /\ ~Raising' /\ ~Lowering' /\ ~Resting'
      /\ Suspending' <=> op = "suspend"
  BY <1>1, ReleaseTodo
<1>3. /\ camera' \in CameraType /\ camera'.open = camera.open /\ camera'.held = camera.held
      /\ camera'.send = FALSE /\ (camera'.started = FALSE \/ camera'.started = camera.started)
  BY <1>1, StopFacts
<1>4. ~Closing /\ ~Failing /\ Standing /\ ~Raising /\ ~Lowering
  BY TodoFacts DEF TypeOK
<1>5. HandlerInv'
  BY <1>2, <1>3, <1>4 DEF HandlerInv
<1>6. PinInv'
  BY <1>2, <1>3, <1>4 DEF PinInv
<1>7. FrameInv'
  BY <1>4 DEF FrameInv
<1>8. CaptureInv'
  BY <1>2 DEF CaptureInv
<1> QED
  BY <1>2, <1>3, <1>5, <1>6, <1>7, <1>8

LEMMA TypeStep ==
  ASSUME IInv, NEW t \in Types \cup {NoType}, NEW ok \in BOOLEAN, SettingConnectedCamera(t, ok)
  PROVE  IInv'
<1> USE DEF SettingConnectedCamera, GetCameraDisplayStatus, fileVars, delayVars, signalVars, showVars,
            pinVars, modeVars
<1>0. TypeOK /\ HandlerInv /\ PinInv /\ FrameInv /\ RightInv /\ CaptureInv
  BY DEF IInv
<1>a. Resting /\ ~asleep
  BY DEF Handles, Resting
<1>b. ~Closing /\ ~Failing /\ Standing /\ ~Raising /\ ~Lowering /\ ~Suspending
  BY <1>0, <1>a, TodoFacts DEF TypeOK
<1>c. \/ ~camera.open /\ known = "Initial" /\ type' = t /\ UNCHANGED <<camera, todo>>
      \/ /\ ok \/ camera.started
         /\ camera' = StopCamera(camera, ok) /\ type' = type
         /\ todo' = ReleaseCameraCapture \o << <<"retype", t>> >>
  OBVIOUS
<1>d. /\ TodoOK' /\ camera' \in CameraType
      /\ HandlerInv' /\ PinInv' /\ FrameInv' /\ CaptureInv'
  <2>1. CASE ~camera.open /\ known = "Initial" /\ type' = t /\ UNCHANGED <<camera, todo>>
    <3>1. TodoOK' /\ camera' \in CameraType
      BY <1>0, <2>1, SameTodo DEF TypeOK, CameraOK
    <3>2. HandlerInv'
      BY <1>0, <1>a, <2>1, SameTodo DEF HandlerInv
    <3>3. PinInv' /\ FrameInv'
      BY <1>0, <2>1, SameTodo, PinKept, FrameKept
    <3>4. CaptureInv'
      BY <2>1 DEF CaptureInv
    <3> QED
      BY <3>1, <3>2, <3>3, <3>4
  <2>2. CASE /\ ok \/ camera.started
             /\ camera' = StopCamera(camera, ok) /\ type' = type
             /\ todo' = ReleaseCameraCapture \o << <<"retype", t>> >>
    BY <1>0, <1>a, <2>2, ClosingStep
  <2> QED
    BY <1>c, <2>1, <2>2
<1>1. TypeOK'
  <2>1. FileOK'
    BY <1>0 DEF TypeOK, FileOK
  <2>2. FlagsOK'
    BY <1>0 DEF TypeOK, FlagsOK
  <2>3. CameraOK'
    <3>1. type' \in Types \cup {NoType}
      BY <1>0, <1>c DEF TypeOK, CameraOK
    <3> QED
      BY <1>0, <1>d, <3>1 DEF TypeOK, CameraOK
  <2>4. PinOK'
    BY <1>0 DEF TypeOK, PinOK
  <2>5. CountsOK'
    <3>1. 1 + Fault(ok) \in Nat
      BY FaultFacts
    <3>2. due' \in Nat /\ wait' \in Nat /\ Calls(1 + Fault(ok))
      BY <1>0 DEF TypeOK, CountsOK
    <3> QED
      BY <1>0, <3>1, <3>2, CountFacts
  <2>6. AstrayOK'
    BY <1>0 DEF TypeOK, AstrayOK
  <2>7. TodoOK'
    BY <1>d
  <2> QED
    BY <2>1, <2>2, <2>3, <2>4, <2>5, <2>6, <2>7 DEF TypeOK
<1>2. RightInv'
  BY <1>0, RightKept
<1> QED
  BY <1>d, <1>1, <1>2 DEF IInv

LEMMA ResetRequestStep ==
  ASSUME IInv, NEW ok \in BOOLEAN, ResetCapture(ok)
  PROVE  IInv'
<1> USE DEF ResetCapture, fileVars, delayVars, signalVars, pinVars
<1>0. TypeOK /\ HandlerInv /\ PinInv /\ FrameInv /\ RightInv /\ CaptureInv
  BY DEF IInv
<1>a. Resting /\ ~asleep
  BY DEF Handles, Resting
<1>b. ~Closing /\ ~Failing /\ Standing /\ ~Raising /\ ~Lowering /\ ~Suspending
  BY <1>0, <1>a, TodoFacts DEF TypeOK
<1>d. /\ TodoOK' /\ camera' \in CameraType
      /\ HandlerInv' /\ PinInv' /\ FrameInv' /\ CaptureInv'
  <2>1. todo' = ReleaseCameraCapture \o << <<"reset", NoType>> >>
    BY DEF Op
  <2> QED
    BY <1>0, <1>a, <2>1, ClosingStep
<1>1. TypeOK'
  <2>1. FileOK'
    BY <1>0 DEF TypeOK, FileOK
  <2>2. FlagsOK'
    BY <1>0 DEF TypeOK, FlagsOK
  <2>3. CameraOK'
    BY <1>0, <1>d DEF TypeOK, CameraOK
  <2>4. PinOK'
    BY <1>0 DEF TypeOK, PinOK
  <2>5. CountsOK'
    <3>1. Fault(ok) \in Nat
      BY FaultFacts
    <3>2. due' \in Nat /\ wait' \in Nat /\ Calls(Fault(ok))
      BY <1>0 DEF TypeOK, CountsOK
    <3> QED
      BY <1>0, <3>1, <3>2, CountFacts
  <2>6. AstrayOK'
    BY <1>0 DEF TypeOK, AstrayOK
  <2>7. TodoOK'
    BY <1>d
  <2> QED
    BY <2>1, <2>2, <2>3, <2>4, <2>5, <2>6, <2>7 DEF TypeOK
<1>2. RightInv'
  BY <1>0, RightKept
<1> QED
  BY <1>d, <1>1, <1>2 DEF IInv

LEMMA SuspendStep ==
  ASSUME IInv, NEW ok \in BOOLEAN, NEW shown \in BOOLEAN, StrSuspend(ok, shown)
  PROVE  IInv'
<1> USE DEF StrSuspend, StrSuspendPathClearCamera, fileVars, delayVars, signalVars, pinVars
<1>0. TypeOK /\ HandlerInv /\ PinInv /\ FrameInv /\ RightInv /\ CaptureInv
  BY DEF IInv
<1>a. Resting /\ ~asleep
  BY DEF Handles, Resting
<1>b. ~Closing /\ ~Failing /\ Standing /\ ~Raising /\ ~Lowering /\ ~Suspending
  BY <1>0, <1>a, TodoFacts DEF TypeOK
<1>d. /\ TodoOK' /\ camera' \in CameraType
      /\ HandlerInv' /\ PinInv' /\ FrameInv' /\ CaptureInv'
  <2>1. todo' = ReleaseCameraCapture \o << <<"suspend", NoType>> >>
    BY DEF Op
  <2> QED
    BY <1>0, <1>a, <2>1, ClosingStep
<1>1. TypeOK'
  <2>1. FileOK'
    BY <1>0 DEF TypeOK, FileOK
  <2>2. FlagsOK'
    BY <1>0 DEF TypeOK, FlagsOK
  <2>3. CameraOK'
    BY <1>0, <1>d DEF TypeOK, CameraOK
  <2>4. PinOK'
    BY <1>0 DEF TypeOK, PinOK
  <2>5. CountsOK'
    <3>1. 1 + Fault(ok) + Fault(shown) \in Nat
      BY FaultFacts
    <3>2. due' \in Nat /\ wait' \in Nat /\ Calls(1 + Fault(ok) + Fault(shown))
      BY <1>0 DEF TypeOK, CountsOK
    <3> QED
      BY <1>0, <3>1, <3>2, CountFacts
  <2>6. AstrayOK'
    BY <1>0 DEF TypeOK, AstrayOK
  <2>7. TodoOK'
    BY <1>d
  <2> QED
    BY <2>1, <2>2, <2>3, <2>4, <2>5, <2>6, <2>7 DEF TypeOK
<1>2. RightInv'
  BY <1>0, RightKept
<1> QED
  BY <1>d, <1>1, <1>2 DEF IInv

LEMMA ResumeStep ==
  ASSUME IInv, StrResume
  PROVE  IInv'
<1> USE DEF StrResume, fileVars, delayVars, signalVars, showVars, pinVars, modeVars
<1>0. TypeOK /\ HandlerInv /\ PinInv /\ FrameInv /\ RightInv /\ CaptureInv
  BY DEF IInv
<1>1. TypeOK'
  <2>1. FileOK'
    BY <1>0 DEF TypeOK, FileOK
  <2>2. FlagsOK'
    BY <1>0 DEF TypeOK, FlagsOK
  <2>3. CameraOK'
    BY <1>0 DEF TypeOK, CameraOK
  <2>4. PinOK'
    BY <1>0 DEF TypeOK, PinOK
  <2>5. CountsOK'
    BY <1>0 DEF TypeOK, CountsOK
  <2>6. AstrayOK'
    BY <1>0 DEF TypeOK, AstrayOK
  <2>7. TodoOK'
    BY <1>0, SameTodo DEF TypeOK
  <2> QED
    BY <2>1, <2>2, <2>3, <2>4, <2>5, <2>6, <2>7 DEF TypeOK
<1>2. HandlerInv'
  BY <1>0, SameTodo DEF HandlerInv
<1>3. PinInv'
  BY <1>0, SameTodo, PinKept
<1>4. FrameInv'
  BY <1>0, SameTodo, FrameKept
<1>5. RightInv'
  BY <1>0, RightKept
<1>6. CaptureInv'
  <2>1. type = NoType
    BY <1>0, TodoFacts DEF HandlerInv, TypeOK, Resting
  <2> QED
    BY <1>0, <2>1, SameTodo DEF CaptureInv
<1> QED
  BY <1>1, <1>2, <1>3, <1>4, <1>5, <1>6 DEF IInv

LEMMA RefusedStep ==
  ASSUME IInv, VpathCameraRefused
  PROVE  IInv'
<1> USE DEF VpathCameraRefused, fileVars, delayVars, signalVars, showVars, pinVars, modeVars
<1>0. TypeOK /\ HandlerInv /\ PinInv /\ FrameInv /\ RightInv /\ CaptureInv
  BY DEF IInv
<1>1. TypeOK'
  <2>1. FileOK'
    BY <1>0 DEF TypeOK, FileOK
  <2>2. FlagsOK'
    BY <1>0 DEF TypeOK, FlagsOK
  <2>3. CameraOK'
    BY <1>0 DEF TypeOK, CameraOK
  <2>4. PinOK'
    BY <1>0 DEF TypeOK, PinOK
  <2>5. CountsOK'
    <3>1. 1 \in Nat
      OBVIOUS
    <3>2. due' \in Nat /\ wait' \in Nat /\ Calls(1)
      BY <1>0 DEF TypeOK, CountsOK
    <3> QED
      BY <1>0, <3>1, <3>2, CountFacts
  <2>6. AstrayOK'
    BY <1>0 DEF TypeOK, AstrayOK
  <2>7. TodoOK'
    BY <1>0, SameTodo DEF TypeOK
  <2> QED
    BY <2>1, <2>2, <2>3, <2>4, <2>5, <2>6, <2>7 DEF TypeOK
<1>2. HandlerInv'
  BY <1>0, HandlerKept
<1>3. PinInv'
  BY <1>0, SameTodo, PinKept
<1>4. FrameInv'
  BY <1>0, SameTodo, FrameKept
<1>5. RightInv'
  BY <1>0, RightKept
<1>6. CaptureInv'
  BY <1>0, CaptureKept
<1> QED
  BY <1>1, <1>2, <1>3, <1>4, <1>5, <1>6 DEF IInv

LEMMA PathOffStep ==
  ASSUME IInv, NEW muted \in BOOLEAN, NEW shown \in BOOLEAN, VpathCameraOff(muted, shown)
  PROVE  IInv'
<1> USE DEF VpathCameraOff, fileVars, delayVars, signalVars, pinVars, modeVars
<1>0. TypeOK /\ HandlerInv /\ PinInv /\ FrameInv /\ RightInv /\ CaptureInv
  BY DEF IInv
<1>a. Resting /\ ~asleep
  BY DEF Handles, Resting
<1>b. ~Closing /\ ~Failing /\ Standing /\ ~Raising /\ ~Lowering /\ ~Suspending
  BY <1>0, <1>a, TodoFacts DEF TypeOK
<1>c. /\ camera' \in CameraType /\ camera'.open = camera.open /\ camera'.held = camera.held
      /\ camera'.started = camera.started /\ camera.send \in BOOLEAN
      /\ camera'.send = IF camera.open THEN FALSE ELSE camera.send
  <2>1. camera \in CameraType
    BY <1>0 DEF TypeOK, CameraOK
  <2>2. /\ SetCameraPath(camera, "") \in CameraType
        /\ SetCameraPath(camera, "").open = camera.open
        /\ SetCameraPath(camera, "").held = camera.held
        /\ SetCameraPath(camera, "").started = camera.started
        /\ camera.open => SetCameraPath(camera, "").send = FALSE
        /\ ~camera.open => SetCameraPath(camera, "").send = camera.send
    BY <2>1, PathFacts
  <2> QED
    BY <2>1, <2>2 DEF CameraType
<1>d. path' = (IF shown THEN "" ELSE path) /\ ("send" \notin astray' => shown)
  OBVIOUS
<1>1. TypeOK'
  <2>1. FileOK'
    BY <1>0 DEF TypeOK, FileOK
  <2>2. FlagsOK'
    BY <1>0 DEF TypeOK, FlagsOK
  <2>3. CameraOK'
    BY <1>0, <1>c, <1>d DEF TypeOK, CameraOK
  <2>4. PinOK'
    BY <1>0 DEF TypeOK, PinOK
  <2>5. CountsOK'
    <3>1. 1 + Fault(muted) + Fault(shown) \in Nat
      BY FaultFacts
    <3>2. due' \in Nat /\ wait' \in Nat /\ Calls(1 + Fault(muted) + Fault(shown))
      BY <1>0 DEF TypeOK, CountsOK
    <3> QED
      BY <1>0, <3>1, <3>2, CountFacts
  <2>6. AstrayOK'
    BY <1>0 DEF TypeOK, AstrayOK, Reasons
  <2>7. TodoOK'
    BY <1>0, SameTodo DEF TypeOK
  <2> QED
    BY <2>1, <2>2, <2>3, <2>4, <2>5, <2>6, <2>7 DEF TypeOK
<1>2. HandlerInv'
  BY <1>0, <1>b, <1>c, SameTodo DEF HandlerInv
<1>3. PinInv'
  BY <1>0, <1>c, SameTodo, PinKept
<1>4. FrameInv'
  BY <1>0, SameTodo, FrameKept
<1>5. RightInv'
  BY <1>0, RightKept
<1>6. CaptureInv'
  BY <1>0, <1>b, <1>c, <1>d, SameTodo DEF CaptureInv
<1> QED
  BY <1>1, <1>2, <1>3, <1>4, <1>5, <1>6 DEF IInv

LEMMA PathOnStep ==
  ASSUME IInv, NEW o \in SettingCameraCapture, NEW muted \in BOOLEAN, NEW shown \in BOOLEAN,
         VpathCameraOn(o, muted, shown)
  PROVE  IInv'
<1> USE DEF VpathCameraOn, fileVars, signalVars, pinVars, modeVars
<1>0. TypeOK /\ HandlerInv /\ PinInv /\ FrameInv /\ RightInv /\ CaptureInv
  BY DEF IInv
<1>a. Resting /\ ~asleep
  BY DEF Handles, Resting
<1>b. ~Closing /\ ~Failing /\ Standing /\ ~Raising /\ ~Lowering /\ ~Suspending
  BY <1>0, <1>a, TodoFacts DEF TypeOK
<1>c. Attempt(type, o)
  BY <1>0, SettingFacts DEF SettingCameraCapture
<1>d. o.joins \in BOOLEAN /\ o.failures \in Nat /\ o.cam \in CameraType /\ o.ok \in BOOLEAN
  BY <1>c DEF Attempt
<1>e. todo' = (IF o.joins THEN <<Op("close")>> ELSE <<>>) \o <<>>
  BY DEF Attempted
<1>f. /\ TodoOK' /\ ~Raising' /\ ~Lowering' /\ ~Suspending'
      /\ o.joins => Closing' /\ Failing' /\ ~Standing'
      /\ ~o.joins => ~Closing' /\ ~Failing' /\ Standing'
  BY <1>d, <1>e, AttemptedTodo
<1>g. /\ camera' \in CameraType /\ camera'.open = o.cam.open /\ camera'.held = o.cam.held
      /\ camera'.started = o.cam.started
      /\ o.cam.open => camera'.send = (path' # "")
      /\ ~o.cam.open => camera'.send = o.cam.send
  <2> DEFINE c == SetCameraPath(o.cam, path')
  <2>1. /\ c \in CameraType /\ c.open = o.cam.open /\ c.held = o.cam.held /\ c.started = o.cam.started
        /\ o.cam.open /\ path' # "" => c.send = TRUE
        /\ o.cam.open /\ path' = "" => c.send = FALSE
        /\ ~o.cam.open => c.send = o.cam.send
    BY <1>d, PathFacts
  <2>2. camera' = c
    OBVIOUS
  <2> HIDE DEF c, VpathCameraOn
  <2> QED
    BY <2>1, <2>2
<1>h. /\ astray' \in SUBSET Reasons
      /\ \A r \in {"right", "standby", "signal"} : r \in astray' <=> r \in astray
      /\ \A r \in {"open", "capture"} : r \in astray' <=> r \in o.lost
  BY <1>0, <1>c, BlameFacts
<1>1. TypeOK'
  <2>1. FileOK'
    BY <1>0 DEF TypeOK, FileOK
  <2>2. FlagsOK'
    <3>1. covered' \in BOOLEAN /\ waiting' \in BOOLEAN
      BY <1>d
    <3> QED
      BY <1>0, <3>1 DEF TypeOK, FlagsOK
  <2>3. CameraOK'
    <3>1. path' \in {"", CameraPath}
      OBVIOUS
    <3> QED
      BY <1>0, <1>g, <3>1 DEF TypeOK, CameraOK
  <2>4. PinOK'
    BY <1>0 DEF TypeOK, PinOK
  <2>5. CountsOK'
    <3> DEFINE n == 1 + o.failures
    <3>0. n \in Nat
      <4>1. o.failures \in Nat
        BY <1>d
      <4> HIDE DEF VpathCameraOn
      <4> QED
        BY <4>1
    <3> HIDE DEF n
    <3>1. n + Fault(muted) + Fault(shown) \in Nat
      BY <3>0, FaultFacts
    <3> USE DEF n
    <3>2. due' \in Nat /\ wait' \in Nat /\ Calls(1 + o.failures + Fault(muted) + Fault(shown))
      BY <1>0 DEF TypeOK, CountsOK
    <3> QED
      BY <1>0, <3>1, <3>2, CountFacts
  <2>6. AstrayOK'
    BY <1>h DEF AstrayOK
  <2>7. TodoOK'
    BY <1>f
  <2> QED
    BY <2>1, <2>2, <2>3, <2>4, <2>5, <2>6, <2>7 DEF TypeOK
<1>2. HandlerInv'
  BY <1>0, <1>a, <1>b, <1>c, <1>f, <1>g, <1>h DEF HandlerInv, Attempt
<1>3. PinInv'
  <2>1. camera.open => camera'.open /\ ~Failing'
    BY <1>c, <1>f, <1>g DEF Attempt
  <2> QED
    BY <1>0, <1>b, <1>h, <2>1 DEF PinInv
<1>4. FrameInv'
  BY <1>0, <1>b, <1>h, FrameKept
<1>5. RightInv'
  BY <1>0, <1>h, RightKept
<1>6. CaptureInv'
  <2>1. /\ o.joins => "open" \in astray'
        /\ type # NoType /\ "open" \notin astray' => camera'.open
    BY <1>c, <1>g, <1>h DEF Attempt
  <2>2. Standing' /\ camera'.open => ~o.joins /\ o.ok
    BY <1>c, <1>f, <1>g DEF Attempt
  <2>3. Standing' /\ camera'.open /\ "capture" \notin astray' => camera'.started = (sync /\ visual)
    <3>1. CASE camera.open
      BY <1>0, <1>b, <1>c, <1>g, <1>h, <3>1 DEF CaptureInv, Attempt
    <3>2. CASE ~camera.open
      BY <1>c, <1>g, <1>h, <2>2, <3>2 DEF Attempt
    <3> QED
      BY <3>1, <3>2
  <2>4. camera'.open => camera'.send = (path' # "")
    BY <1>g
  <2>5. UNCHANGED <<type, sync, visual>>
    OBVIOUS
  <2> HIDE DEF VpathCameraOn
  <2> QED
    BY <2>1, <2>3, <2>4, <2>5 DEF CaptureInv
<1> QED
  BY <1>1, <1>2, <1>3, <1>4, <1>5, <1>6 DEF IInv

-----------------------------------------------------------------------------
(* The invariant                                                           *)

LEMMA InitInv == Init => IInv
<1> SUFFICES ASSUME Init PROVE IInv
  OBVIOUS
<1> USE DEF Init, GetStatus
<1>1. /\ ~Closing /\ ~Failing /\ ~Lowering /\ ~Raising /\ ~Suspending /\ Resting /\ Standing /\ TodoOK
  <2>1. todo = <<>>
    OBVIOUS
  <2> HIDE DEF Init
  <2> QED
    BY <2>1 DEF TodoOK, Ends, Goes, Resting, Closing, Failing, Raising, Lowering, Suspending, Standing
<1>2. camera \in CameraType /\ ~camera.open /\ camera.held = {} /\ ~camera.send /\ ~camera.started
  BY DEF NoCamera, CameraType
<1>3. FileOK /\ FlagsOK /\ CameraOK
  <2>1. FileOK
    <3>1. told = <<>> /\ right \in Rights /\ known \in {right, "Initial"}
      OBVIOUS
    <3> HIDE DEF Init
    <3>2. <<>> \in Seq(Rights) /\ "Initial" \in Rights
      BY DEF Rights
    <3> QED
      BY <3>1, <3>2 DEF FileOK
  <2>2. FlagsOK
    BY DEF FlagsOK
  <2>3. CameraOK
    BY <1>2 DEF CameraOK
  <2> QED
    BY <2>1, <2>2, <2>3
<1>4. PinOK /\ CountsOK /\ AstrayOK
  BY DEF PinOK, CountsOK, AstrayOK, Reasons
<1>5. HandlerInv
  BY <1>1, <1>2 DEF HandlerInv
<1>6. PinInv /\ FrameInv /\ RightInv /\ CaptureInv
  BY <1>1, <1>2 DEF PinInv, FrameInv, RightInv, Latest, CaptureInv
<1> QED
  BY <1>1, <1>3, <1>4, <1>5, <1>6 DEF IInv, TypeOK

LEMMA StutterStep ==
  ASSUME IInv, UNCHANGED vars
  PROVE  IInv'
<1> USE DEF vars, fileVars, delayVars, signalVars, showVars, pinVars, modeVars
<1>0. TypeOK /\ HandlerInv /\ PinInv /\ FrameInv /\ RightInv /\ CaptureInv
  BY DEF IInv
<1>1. TypeOK'
  <2>1. FileOK'
    BY <1>0 DEF TypeOK, FileOK
  <2>2. FlagsOK'
    BY <1>0 DEF TypeOK, FlagsOK
  <2>3. CameraOK'
    BY <1>0 DEF TypeOK, CameraOK
  <2>4. PinOK'
    BY <1>0 DEF TypeOK, PinOK
  <2>5. CountsOK'
    BY <1>0 DEF TypeOK, CountsOK
  <2>6. AstrayOK'
    BY <1>0 DEF TypeOK, AstrayOK
  <2>7. TodoOK'
    BY <1>0, SameTodo DEF TypeOK
  <2> QED
    BY <2>1, <2>2, <2>3, <2>4, <2>5, <2>6, <2>7 DEF TypeOK
<1>2. HandlerInv'
  BY <1>0, HandlerKept
<1>3. PinInv'
  BY <1>0, SameTodo, PinKept
<1>4. FrameInv'
  BY <1>0, SameTodo, FrameKept
<1>5. RightInv'
  BY <1>0, RightKept
<1>6. CaptureInv'
  BY <1>0, CaptureKept
<1> QED
  BY <1>1, <1>2, <1>3, <1>4, <1>5, <1>6 DEF IInv

LEMMA NextInv == IInv /\ [Next]_vars => IInv'
<1> SUFFICES ASSUME IInv, [Next]_vars PROVE IInv'
  OBVIOUS
<1>1. CASE DrawNext
  BY <1>1, DrawCheckStep, DrawCoverStep, DrawRaiseStep DEF DrawNext
<1>2. CASE RestNext
  BY <1>2, RaiseStep, LowerStep, CloseStep, RetypeStep, ResetStep, SuspendEndsStep DEF RestNext
<1>3. CASE MainNext
  BY <1>3, StatusKeptStep, ReadyStep, DelayedStep, InitialStep, OnTimerStep, SyncStep, RequestStep,
     PowerStep, TypeStep, PathOnStep, RefusedStep, PathOffStep, ResetRequestStep, SuspendStep,
     ResumeStep DEF MainNext
<1>4. CASE OtherNext
  BY <1>4, FileChangesStep, FileobStep, MovieStep, TimerStep, MuteStep, SilentStep DEF OtherNext
<1>5. CASE UNCHANGED vars
  BY <1>5, StutterStep
<1> QED
  BY <1>1, <1>2, <1>3, <1>4, <1>5 DEF Next

LEMMA Invariance == Spec => []IInv
BY InitInv, NextInv, PTL DEF Spec

-----------------------------------------------------------------------------

\* Every variable keeps its type; at most one step of a handler follows the
\* closing of a capture.
THEOREM CameraTypeCorrect == Spec => []TypeOK
<1>1. IInv => TypeOK
  BY DEF IInv
<1> QED
  BY <1>1, Invariance, PTL

\* The pin says what the MICON was told, and a picture is announced only while
\* the capture is open and the right has not been taken away, whatever the draw
\* thread does while handlers run.
THEOREM StandbyCorrect == Spec => []StandbyIsAllowed
<1>1. IInv => StandbyIsAllowed
  BY TodoFacts DEF IInv, TypeOK, PinInv, StandbyIsAllowed, Resting
<1> QED
  BY <1>1, Invariance, PTL

\* A frame drawn before the right came is announced with it.
THEOREM AnnouncedCorrect == Spec => []FrameIsAnnounced
<1>1. IInv => FrameIsAnnounced
  BY TodoFacts DEF IInv, TypeOK, FrameInv, FrameIsAnnounced, Resting
<1> QED
  BY <1>1, Invariance, PTL

\* VideoHAL comes to know the right, and a connected camera it has the right to
\* is captured or about to be, in whatever order the two came.
THEOREM CapturedCorrect == Spec => []CapturedByRight
<1>1. IInv => CapturedByRight
  BY TodoFacts DEF IInv, TypeOK, RightInv, Latest, CaptureInv, CapturedByRight, Resting
<1> QED
  BY <1>1, Invariance, PTL

\* A capture holds all its resources or none, runs and sends as it is asked to,
\* for any set of cameras and any number of failures.
THEOREM CaptureCorrect == Spec => []CaptureIsAsAsked
<1>1. IInv => CaptureIsAsAsked
  BY TodoFacts DEF IInv, TypeOK, HandlerInv, CaptureInv, CaptureIsAsAsked, Resting
<1> QED
  BY <1>1, Invariance, PTL

=============================================================================
