----------------------------- MODULE WatchProofs -----------------------------
(***************************************************************************)
(* CaptureWatch for every set of captures and HDMI states and every budget *)
(* of outside events: its variables keep their types, and no capture runs  *)
(* unwatched, however the three threads interleave.                        *)
(***************************************************************************)
EXTENDS CaptureWatch, SequenceTheorems, TLAPS

-----------------------------------------------------------------------------
(* What becomes of the steps a thread still has to take when it takes the  *)
(* first and puts others in its place.                                     *)

\* Taking a step leaves a sequence of steps.
LEMMA TailType ==
  ASSUME NEW S, NEW s \in Seq(S), s # <<>>
  PROVE  Tail(s) \in Seq(S) /\ Head(s) \in S
OBVIOUS

\* So does putting steps before others.
LEMMA ConcatType ==
  ASSUME NEW S, NEW a \in Seq(S), NEW b \in Seq(S)
  PROVE  a \o b \in Seq(S)
OBVIOUS

\* What is among one, two or three steps.
LEMMA HasLiteral ==
  ASSUME NEW B, NEW x, NEW y, NEW z
  PROVE  /\ ~Has(<<>>, B)
         /\ Has(<<x>>, B) <=> x \in B
         /\ Has(<<x, y>>, B) <=> x \in B \/ y \in B
         /\ Has(<<x, y, z>>, B) <=> x \in B \/ y \in B \/ z \in B
<1>1. ~Has(<<>>, B)  BY DEF Has
<1>2. Has(<<x>>, B) <=> x \in B  BY DEF Has
<1>3. Has(<<x, y>>, B) <=> x \in B \/ y \in B  BY DEF Has
<1>4. Has(<<x, y, z>>, B) <=> x \in B \/ y \in B \/ z \in B  BY DEF Has
<1>. QED  BY <1>1, <1>2, <1>3, <1>4

\* What is still to come is the next step or comes after it.
LEMMA HasTail ==
  ASSUME NEW S, NEW s \in Seq(S), s # <<>>, NEW B
  PROVE  Has(s, B) <=> Head(s) \in B \/ Has(Tail(s), B)
<1>1. /\ Len(s) \in Nat \ {0} /\ DOMAIN s = 1..Len(s)
      /\ DOMAIN Tail(s) = 1..(Len(s) - 1) /\ Head(s) = s[1]
      /\ \A i \in 1..(Len(s) - 1) : Tail(s)[i] = s[i + 1]
  OBVIOUS
<1>2. ASSUME Has(s, B), Head(s) \notin B  PROVE Has(Tail(s), B)
  <2>1. PICK i \in 1..Len(s) : s[i] \in B  BY <1>1, <1>2 DEF Has
  <2>2. i # 1  BY <1>1, <1>2, <2>1
  <2>3. i - 1 \in 1..(Len(s) - 1) /\ Tail(s)[i - 1] = s[(i - 1) + 1]
    BY <1>1, <2>1, <2>2
  <2>4. Tail(s)[i - 1] \in B  BY <2>1, <2>3
  <2>. QED  BY <1>1, <2>3, <2>4 DEF Has
<1>3. ASSUME Has(Tail(s), B)  PROVE Has(s, B)
  <2>1. PICK i \in 1..(Len(s) - 1) : Tail(s)[i] \in B  BY <1>1, <1>3 DEF Has
  <2>2. i + 1 \in DOMAIN s /\ s[i + 1] \in B  BY <1>1, <2>1
  <2>. QED  BY <2>2 DEF Has
<1>4. ASSUME Head(s) \in B  PROVE Has(s, B)
  <2>1. 1 \in DOMAIN s /\ s[1] \in B  BY <1>1, <1>4
  <2>. QED  BY <2>1 DEF Has
<1>. QED  BY <1>2, <1>3, <1>4

\* What is still to come in a sequence of two parts is in one of them.
LEMMA HasConcat ==
  ASSUME NEW S, NEW a \in Seq(S), NEW b \in Seq(S), NEW B
  PROVE  Has(a \o b, B) <=> Has(a, B) \/ Has(b, B)
<1>1. /\ Len(a) \in Nat /\ Len(b) \in Nat
      /\ DOMAIN a = 1..Len(a) /\ DOMAIN b = 1..Len(b)
      /\ DOMAIN (a \o b) = 1..(Len(a) + Len(b))
      /\ \A i \in 1..(Len(a) + Len(b)) :
           (a \o b)[i] = IF i <= Len(a) THEN a[i] ELSE b[i - Len(a)]
  OBVIOUS
<1>2. ASSUME Has(a, B)  PROVE Has(a \o b, B)
  <2>1. PICK i \in 1..Len(a) : a[i] \in B  BY <1>1, <1>2 DEF Has
  <2>2. i \in 1..(Len(a) + Len(b)) /\ (a \o b)[i] = a[i]  BY <1>1, <2>1
  <2>. QED  BY <1>1, <2>1, <2>2 DEF Has
<1>3. ASSUME Has(b, B)  PROVE Has(a \o b, B)
  <2>1. PICK i \in 1..Len(b) : b[i] \in B  BY <1>1, <1>3 DEF Has
  <2>2. /\ i + Len(a) \in 1..(Len(a) + Len(b)) /\ ~(i + Len(a) <= Len(a))
        /\ (i + Len(a)) - Len(a) = i
    BY <1>1, <2>1
  <2>3. (a \o b)[i + Len(a)] = b[i]  BY <1>1, <2>2
  <2>. QED  BY <1>1, <2>1, <2>2, <2>3 DEF Has
<1>4. ASSUME Has(a \o b, B)  PROVE Has(a, B) \/ Has(b, B)
  <2>1. PICK i \in 1..(Len(a) + Len(b)) : (a \o b)[i] \in B  BY <1>1, <1>4 DEF Has
  <2>2. CASE i <= Len(a)
    <3>1. i \in DOMAIN a /\ a[i] \in B  BY <1>1, <2>1, <2>2
    <3>. QED  BY <3>1 DEF Has
  <2>3. CASE ~(i <= Len(a))
    <3>1. i - Len(a) \in DOMAIN b /\ b[i - Len(a)] \in B  BY <1>1, <2>1, <2>3
    <3>. QED  BY <3>1 DEF Has
  <2>. QED  BY <2>2, <2>3
<1>. QED  BY <1>2, <1>3, <1>4

\* Taking a step breaks no promise, and leaves what the step has promised.
LEMMA LaterTail ==
  ASSUME NEW S, NEW s \in Seq(S), s # <<>>, NEW a, NEW B, Later(s, a, B)
  PROVE  /\ Later(Tail(s), a, B)
         /\ Head(s) = a => Has(Tail(s), B)
<1>1. /\ Len(s) \in Nat \ {0} /\ DOMAIN s = 1..Len(s)
      /\ DOMAIN Tail(s) = 1..(Len(s) - 1) /\ Head(s) = s[1]
      /\ \A i \in 1..(Len(s) - 1) : Tail(s)[i] = s[i + 1]
  OBVIOUS
<1>2. ASSUME NEW i \in 1..(Len(s) - 1), Tail(s)[i] = a
      PROVE  \E j \in DOMAIN Tail(s) : j > i /\ Tail(s)[j] \in B
  <2>1. i + 1 \in DOMAIN s /\ s[i + 1] = a  BY <1>1, <1>2
  <2>2. PICK j \in 1..Len(s) : j > i + 1 /\ s[j] \in B  BY <1>1, <2>1 DEF Later
  <2>3. /\ j - 1 \in 1..(Len(s) - 1) /\ j - 1 > i
        /\ Tail(s)[j - 1] = s[(j - 1) + 1] /\ (j - 1) + 1 = j
    BY <1>1, <2>2
  <2>. QED  BY <1>1, <2>2, <2>3
<1>3. ASSUME Head(s) = a  PROVE Has(Tail(s), B)
  <2>1. 1 \in DOMAIN s /\ s[1] = a  BY <1>1, <1>3
  <2>2. PICK j \in 1..Len(s) : j > 1 /\ s[j] \in B  BY <1>1, <2>1 DEF Later
  <2>3. Has(s, B) /\ j - 1 \in 1..(Len(s) - 1) /\ Tail(s)[j - 1] = s[(j - 1) + 1]
        /\ (j - 1) + 1 = j
    BY <1>1, <2>2 DEF Has
  <2>. QED  BY <1>1, <2>2, <2>3 DEF Has
<1>. QED  BY <1>1, <1>2, <1>3 DEF Later

\* In front of a sequence that ends in B, or without a, nothing is violated.
LEMMA LaterConcat ==
  ASSUME NEW S, NEW p \in Seq(S), NEW s \in Seq(S), NEW a, NEW B,
         Later(s, a, B), ~Has(p, {a}) \/ Has(s, B)
  PROVE  Later(p \o s, a, B)
<1>1. /\ Len(p) \in Nat /\ Len(s) \in Nat
      /\ DOMAIN p = 1..Len(p) /\ DOMAIN s = 1..Len(s)
      /\ DOMAIN (p \o s) = 1..(Len(p) + Len(s))
      /\ \A i \in 1..(Len(p) + Len(s)) :
           (p \o s)[i] = IF i <= Len(p) THEN p[i] ELSE s[i - Len(p)]
  OBVIOUS
<1>2. ASSUME NEW k \in 1..Len(s)
      PROVE  k + Len(p) \in 1..(Len(p) + Len(s)) /\ (p \o s)[k + Len(p)] = s[k]
  <2>1. /\ k + Len(p) \in 1..(Len(p) + Len(s)) /\ ~(k + Len(p) <= Len(p))
        /\ (k + Len(p)) - Len(p) = k
    BY <1>1
  <2>. QED  BY <1>1, <2>1
<1>3. ASSUME NEW i \in 1..(Len(p) + Len(s)), (p \o s)[i] = a
      PROVE  \E j \in 1..(Len(p) + Len(s)) : j > i /\ (p \o s)[j] \in B
  <2>1. CASE i <= Len(p)
    <3>1. i \in DOMAIN p /\ p[i] = a  BY <1>1, <1>3, <2>1
    <3>2. Has(p, {a})  BY <3>1 DEF Has
    <3>3. PICK k \in 1..Len(s) : s[k] \in B  BY <1>1, <3>2 DEF Has
    <3>4. k + Len(p) > i  BY <1>1, <2>1, <3>3
    <3>. QED  BY <1>2, <3>3, <3>4
  <2>2. CASE ~(i <= Len(p))
    <3>1. i - Len(p) \in 1..Len(s) /\ s[i - Len(p)] = a  BY <1>1, <1>3, <2>2
    <3>2. PICK k \in 1..Len(s) : k > i - Len(p) /\ s[k] \in B
      BY <1>1, <3>1 DEF Later
    <3>3. k + Len(p) > i  BY <1>1, <3>2
    <3>. QED  BY <1>2, <3>2, <3>3
  <2>. QED  BY <2>1, <2>2
<1>. QED  BY <1>1, <1>3 DEF Later

\* Where a does not occur, nothing is promised.
LEMMA LaterWithout ==
  ASSUME NEW s, NEW a, NEW B, ~Has(s, {a})
  PROVE  Later(s, a, B)
BY DEF Has, Later

\* Taking a step from a sequence of two parts takes it from the first.
LEMMA TailConcat ==
  ASSUME NEW S, NEW a \in Seq(S), NEW b \in Seq(S), a # <<>>
  PROVE  Tail(a \o b) = Tail(a) \o b /\ Head(a \o b) = Head(a) /\ a \o b # <<>>
<1>. DEFINE l == Tail(a \o b)
            r == Tail(a) \o b
<1>1. /\ Len(a) \in Nat \ {0} /\ Len(b) \in Nat
      /\ Len(a \o b) = Len(a) + Len(b) /\ Len(Tail(a)) = Len(a) - 1
      /\ a \o b \in Seq(S) /\ Tail(a) \in Seq(S)
  OBVIOUS
<1>2. a \o b # <<>>  BY <1>1
<1>3. l \in Seq(S) /\ r \in Seq(S)  BY <1>1, <1>2
<1>4. Len(l) = Len(a) + Len(b) - 1 /\ Len(r) = Len(a) + Len(b) - 1  BY <1>1, <1>2
<1>5. ASSUME NEW i \in 1..(Len(a) + Len(b) - 1)  PROVE l[i] = r[i]
  BY <1>1, <1>2
<1>6. l = r  BY <1>3, <1>4, <1>5
<1>7. Head(a \o b) = Head(a)  BY <1>1, <1>2
<1>. QED  BY <1>2, <1>6, <1>7

\* Taking a step from a sequence that is written out.
LEMMA Literals ==
  ASSUME NEW a, NEW b, NEW c, NEW d, NEW e, NEW f
  PROVE  /\ Head(<<a>>) = a /\ Tail(<<a>>) = <<>>
         /\ Head(<<a, b>>) = a /\ Tail(<<a, b>>) = <<b>>
         /\ Head(<<a, b, c>>) = a /\ Tail(<<a, b, c>>) = <<b, c>>
         /\ Head(<<a, b, c, d>>) = a /\ Tail(<<a, b, c, d>>) = <<b, c, d>>
         /\ Head(<<a, b, c, d, e>>) = a /\ Tail(<<a, b, c, d, e>>) = <<b, c, d, e>>
         /\ Head(<<a, b, c, d, e, f>>) = a /\ Tail(<<a, b, c, d, e, f>>) = <<b, c, d, e, f>>
         /\ <<a>> # <<>> /\ <<a, b>> # <<>> /\ <<a, b, c>> # <<>> /\ <<a, b, c, d>> # <<>>
         /\ <<a, b, c, d, e>> # <<>> /\ <<a, b, c, d, e, f>> # <<>>
OBVIOUS

\* Putting two steps before a third.
LEMMA JoinLiterals ==
  ASSUME NEW a, NEW b, NEW c
  PROVE  <<a, b>> \o <<c>> = <<a, b, c>>
<1>. DEFINE S == {a, b, c}
<1>1. <<a, b>> \in Seq(S) /\ <<c>> \in Seq(S) /\ <<a, b, c>> \in Seq(S)  OBVIOUS
<1>2. Len(<<a, b>> \o <<c>>) = 3 /\ Len(<<a, b, c>>) = 3  OBVIOUS
<1>3. ASSUME NEW i \in 1..3  PROVE (<<a, b>> \o <<c>>)[i] = <<a, b, c>>[i]  OBVIOUS
<1>4. <<a, b>> \o <<c>> \in Seq(S)  BY <1>1, ConcatType
<1>. QED  BY <1>1, <1>2, <1>3, <1>4, SeqEqual

-----------------------------------------------------------------------------
(* The inductive invariant                                                 *)

Unregisters == {"unregister"} \X Captures
Opens  == {"open"} \X Captures
Resume == {<<"resume", None>>}
CloseAll == {<<"closeAll", None>>}

\* What the main thread still has to do: an observer is unregistered next or
\* not at all, and of a capture that has been stopped; a suspend ends with
\* the resume, closes everything before and opens nothing.
MainOK(s) ==
  /\ s # <<>> => ~Has(Tail(s), Unregisters)
  /\ \A c \in started : ~Has(s, {<<"unregister", c>>})
  /\ Later(s, <<"suspend", None>>, Resume)
  /\ suspend => Has(s, Resume)
  /\ Has(s, Resume) => ~Has(s, Opens) /\ (open = {} \/ Has(s, CloseAll))

\* What the callback still has to do, between two searches and after one; some
\* functions do no more than use the entry that has been found.
Searches(c) ==
  {FrameEvent(c), ErrorEvent(c),
   <<<<"find", c>>, <<"notify", c>>, <<"find", c>>, <<"submit", c>>>>,
   <<<<"find", c>>, <<"submit", c>>>>, <<<<"find", c>>, <<"error", c>>>>}
Uses(c) ==
  {<<<<"beat", c>>, <<"find", c>>, <<"notify", c>>, <<"find", c>>, <<"submit", c>>>>,
   <<<<"notify", c>>, <<"find", c>>, <<"submit", c>>>>,
   <<<<"beat", c>>, <<"find", c>>, <<"error", c>>>>, <<<<"submit", c>>>>}
LibIdle(c) == todo["lib"] \in Searches(c)
LibHolds(c) ==
  \/ todo["lib"] \in Uses(c)
  \/ todo["lib"] \in {<<<<"error", c>>>>, <<<<"flag", c>>, <<"post", c>>>>, <<<<"post", c>>>>}
LibOK ==
  \/ at["lib"] = None /\ (todo["lib"] = <<>> \/ \E c \in Captures : LibIdle(c))
  \/ at["lib"] \in open /\ LibHolds(at["lib"])

\* What the observer thread still has to do: for the HDMI state, before its
\* search for a capture, and after it.
ObsHdmi ==
  \/ todo["obs"] \in {<<>>, <<<<"read", None>>>>, <<<<"endHdmi", None>>>>, <<<<"clear", None>>>>}
  \/ \E s \in HdmiStates \cup {None} :
                           \/ todo["obs"] = <<<<"write", s>>>>
                           \/ todo["obs"] = <<<<"set", s>>, <<"clear", None>>>>
ObsHolds(c) ==
  \/ todo["obs"] \in {<<<<"check", c>>>>, <<<<"flag", c>>, <<"post", c>>, <<"end", c>>>>}
  \/ c \in reset /\ todo["obs"] \in {<<<<"post", c>>, <<"end", c>>>>, <<<<"end", c>>>>}
ObsOK ==
  \/ at["obs"] = None /\ ObsHdmi
  \/ at["obs"] = None /\ \E c \in Captures : todo["obs"] = <<<<"find", c>>, <<"check", c>>>>
  \/ at["obs"] \in open /\ ObsHolds(at["obs"])

\* The steps left tell what a thread has seen; every entry a thread holds is
\* in the list until it is used after it was freed (torn).
IndInv ==
  ~torn => /\ started \subseteq open /\ reset \subseteq open
           /\ MainOK(todo["main"]) /\ LibOK /\ ObsOK
           /\ StartedIsWatched

-----------------------------------------------------------------------------
(* Steps and their types                                                   *)

\* The handlers are sequences of steps.
LEMMA HandlerTypes ==
  /\ <<>> \in Seq(Step)
  /\ \A x \in Step : <<x>> \in Seq(Step)
  /\ \A x \in Step : \A y \in Step : <<x, y>> \in Seq(Step)
  /\ \A c \in Captures : /\ CloseCapture(c) \in Seq(Step) /\ OpenCapture(c) \in Seq(Step)
                          /\ FrameEvent(c) \in Seq(Step) /\ ErrorEvent(c) \in Seq(Step)
<1>1. <<>> \in Seq(Step)  OBVIOUS
<1>2. ASSUME NEW x \in Step, NEW y \in Step
      PROVE  <<x>> \in Seq(Step) /\ <<x, y>> \in Seq(Step)
  OBVIOUS
<1>3. ASSUME NEW x \in Step, NEW y \in Step, NEW z \in Step, NEW u \in Step
      PROVE  <<x, y, z, u>> \in Seq(Step) /\ <<x, y, x, z, x, u>> \in Seq(Step)
  OBVIOUS
<1>4. ASSUME NEW c \in Captures, NEW d \in Do  PROVE <<d, c>> \in Step  BY DEF Step
<1>5. {"stop", "erase", "open", "control", "find", "beat", "notify", "submit", "error"} \subseteq Do
  BY DEF Do
<1>6. ASSUME NEW c \in Captures
      PROVE  CloseCapture(c) \in Seq(Step) /\ OpenCapture(c) \in Seq(Step)
  <2>1. <<"stop", c>> \in Step /\ <<"erase", c>> \in Step
        /\ <<"open", c>> \in Step /\ <<"control", c>> \in Step
    BY <1>4, <1>5
  <2>. QED  BY <1>2, <2>1 DEF CloseCapture, OpenCapture
<1>7. ASSUME NEW c \in Captures
      PROVE  FrameEvent(c) \in Seq(Step) /\ ErrorEvent(c) \in Seq(Step)
  <2>1. <<"find", c>> \in Step /\ <<"beat", c>> \in Step /\ <<"notify", c>> \in Step
        /\ <<"submit", c>> \in Step /\ <<"error", c>> \in Step
    BY <1>4, <1>5
  <2>. QED  BY <1>3, <2>1 DEF FrameEvent, ErrorEvent
<1>. QED  BY <1>1, <1>2, <1>6, <1>7

\* What a step of a thread does to the steps that are still to come.
LEMMA DoesFacts ==
  ASSUME TypeOK, NEW t \in Thread, NEW d, NEW x, NEW then \in Seq(Step), Does(t, d, x, then)
  PROVE  /\ ~torn /\ todo[t] \in Seq(Step) /\ todo[t] # <<>> /\ Head(todo[t]) = <<d, x>>
         /\ Tail(todo[t]) \in Seq(Step)
         /\ todo' \in [Thread -> Seq(Step)]
         /\ todo'[t] = then \o Tail(todo[t])
         /\ then = <<>> => todo'[t] = Tail(todo[t])
         /\ \A u \in Thread \ {t} : todo'[u] = todo[u]
<1>1. ~torn /\ todo[t] # <<>> /\ Head(todo[t]) = <<d, x>>  BY DEF Does, At, Busy
<1>2. todo \in [Thread -> Seq(Step)] /\ todo[t] \in Seq(Step)  BY DEF TypeOK
<1>3. Tail(todo[t]) \in Seq(Step)  BY <1>1, <1>2, TailType
<1>4. then \o Tail(todo[t]) \in Seq(Step)  BY <1>3, ConcatType
<1>5. todo' = [todo EXCEPT ![t] = then \o Tail(@)]  BY DEF Does
<1>6. todo' \in [Thread -> Seq(Step)] /\ todo'[t] = then \o Tail(todo[t])
      /\ \A u \in Thread \ {t} : todo'[u] = todo[u]
  BY <1>2, <1>4, <1>5
<1>7. then = <<>> => then \o Tail(todo[t]) = Tail(todo[t])
  BY <1>3, ConcatEmptySeq
<1>. QED  BY <1>1, <1>2, <1>3, <1>6, <1>7

-----------------------------------------------------------------------------
(* Types                                                                   *)

\* The steps of the main thread for a capture keep the types.
LEMMA MainCaptureType ==
  ASSUME TypeOK, NEW c \in Captures,
         \/ ControlCapture(c) \/ StartCapture(c) \/ StopCapture(c)
         \/ StartInterruptObserver(c) \/ StopInterruptObserver(c)
         \/ OpenEntry(c) \/ EraseEntry(c)
  PROVE  TypeOK'
<1>0. /\ "main" \in Thread /\ "lib" \in Thread /\ "main" # "lib"
      /\ \A d \in Do : <<d, c>> \in Step /\ <<<<d, c>>>> \in Seq(Step)
      /\ <<>> \in Seq(Step)
      /\ {"start", "stop", "register", "unregister"} \subseteq Do
  <2>1. ASSUME NEW d \in Do  PROVE <<d, c>> \in Step  BY DEF Step
  <2>. QED  BY <2>1, HandlerTypes DEF Thread, Do
<1>1. CASE ControlCapture(c)
  <2>1. PICK then \in Seq(Step) : Does("main", "control", c, then)
    BY <1>0, <1>1 DEF ControlCapture
  <2>2. todo' \in [Thread -> Seq(Step)]  BY <1>0, <2>1, DoesFacts
  <2>. QED  BY <1>1, <2>2 DEF ControlCapture, TypeOK, capVars, listVars, hdmiVars
<1>2. CASE StartCapture(c)
  <2>1. PICK then \in Seq(Step) : Does("main", "start", c, then)
    BY <1>0, <1>2 DEF StartCapture
  <2>2. todo' \in [Thread -> Seq(Step)]  BY <1>0, <2>1, DoesFacts
  <2>3. started' \subseteq Captures /\ stream' \subseteq Captures /\ silent' \subseteq Captures
    BY <1>2 DEF StartCapture, TypeOK
  <2>. QED  BY <1>2, <2>2, <2>3 DEF StartCapture, TypeOK, listVars, hdmiVars
<1>3. CASE StopCapture(c)
  <2>1. PICK then \in Seq(Step) : Does("main", "stop", c, then)
    BY <1>0, <1>3 DEF StopCapture
  <2>2. todo' \in [Thread -> Seq(Step)]  BY <1>0, <2>1, DoesFacts
  <2>3. started' \subseteq Captures /\ stream' \subseteq Captures
    BY <1>3 DEF StopCapture, TypeOK
  <2>. QED  BY <1>3, <2>2, <2>3 DEF StopCapture, TypeOK, listVars, hdmiVars
<1>4. CASE StartInterruptObserver(c)
  <2>1. todo' \in [Thread -> Seq(Step)]
    BY <1>0, <1>4, DoesFacts DEF StartInterruptObserver
  <2>. QED  BY <1>4, <2>1 DEF StartInterruptObserver, TypeOK, capVars, hdmiVars
<1>5. CASE StopInterruptObserver(c)
  <2>1. todo' \in [Thread -> Seq(Step)]
    BY <1>0, <1>5, DoesFacts DEF StopInterruptObserver
  <2>. QED  BY <1>5, <2>1 DEF StopInterruptObserver, TypeOK, capVars, hdmiVars
<1>6. CASE OpenEntry(c)
  <2>1. todo' \in [Thread -> Seq(Step)]
    BY <1>0, <1>6, DoesFacts DEF OpenEntry
  <2>2. torn' \in BOOLEAN  BY <1>6 DEF OpenEntry, ListChanges, TypeOK
  <2>3. open' \subseteq Captures  BY <1>6 DEF OpenEntry, TypeOK
  <2>. QED  BY <1>6, <2>1, <2>2, <2>3 DEF OpenEntry, TypeOK, listVars, hdmiVars
<1>7. CASE EraseEntry(c)
  <2>1. todo["main"] \in Seq(Step) /\ todo["main"] # <<>>
    BY <1>0, <1>7 DEF EraseEntry, At, Busy, TypeOK
  <2>2. Tail(todo["main"]) \in Seq(Step)  BY <2>1, TailType
  <2>3. todo' \in [Thread -> Seq(Step)]  BY <1>0, <1>7, <2>2 DEF EraseEntry, TypeOK
  <2>4. torn' \in BOOLEAN  BY <1>7 DEF EraseEntry, ListChanges, TypeOK
  <2>. QED  BY <1>7, <2>3, <2>4 DEF EraseEntry, TypeOK, hdmiVars
<1>. QED  BY <1>1, <1>2, <1>3, <1>4, <1>5, <1>6, <1>7

\* So do its steps for a suspend and for the HDMI state.
LEMMA MainOtherType ==
  ASSUME TypeOK, NEW s \in HdmiStates \cup {None},
         \/ SuspendStep \/ ClearObserver("main") \/ WatchHdmi
         \/ HoldHdmiState(s) \/ HdmiIsRunning(s)
  PROVE  TypeOK'
<1>0. /\ "main" \in Thread /\ <<>> \in Seq(Step)
      /\ <<"closeAll", None>> \in Step /\ <<"clear", None>> \in Step
      /\ <<"watchHdmi", None>> \in Step /\ <<"write", s>> \in Step /\ <<"set", s>> \in Step
  BY HandlerTypes DEF Thread, Step, Do
<1>1. CASE SuspendStep
  <2>1. todo' \in [Thread -> Seq(Step)]
    <3>1. CASE \E d \in {"suspend", "closeAll", "resume"} : Does("main", d, None, <<>>)
      BY <1>0, <3>1, DoesFacts
    <3>2. ASSUME NEW c \in Captures,
                 Does("main", "closeAll", None, CloseCapture(c) \o <<<<"closeAll", None>>>>)
          PROVE  todo' \in [Thread -> Seq(Step)]
      <4>1. CloseCapture(c) \o <<<<"closeAll", None>>>> \in Seq(Step)
        BY <1>0, HandlerTypes, ConcatType
      <4>. QED  BY <1>0, <3>2, <4>1, DoesFacts
    <3>. QED  BY <1>1, <3>1, <3>2 DEF SuspendStep, TypeOK
  <2>2. events' \in Seq(Captures) /\ suspend' \in BOOLEAN
    <3>1. events' \in {events, <<>>} /\ suspend' \in {suspend, TRUE, FALSE}
      BY <1>1 DEF SuspendStep
    <3>2. events \in Seq(Captures) /\ <<>> \in Seq(Captures)  BY DEF TypeOK
    <3>. QED  BY <3>1, <3>2 DEF TypeOK
  <2>. QED  BY <1>1, <2>1, <2>2 DEF SuspendStep, TypeOK, capVars, listVars, hdmiVars
<1>2. CASE ClearObserver("main")
  <2>1. todo' \in [Thread -> Seq(Step)]  BY <1>0, <1>2, DoesFacts DEF ClearObserver
  <2>. QED  BY <1>2, <2>1 DEF ClearObserver, TypeOK, capVars, hdmiVars
<1>3. CASE WatchHdmi
  <2>1. todo' \in [Thread -> Seq(Step)]  BY <1>0, <1>3, DoesFacts DEF WatchHdmi
  <2>. QED  BY <1>3, <2>1 DEF WatchHdmi, TypeOK, capVars, hdmiVars
<1>4. CASE HoldHdmiState(s)
  <2>1. PICK then \in Seq(Step) : Does("main", "hold", s, then)
    BY <1>0, <1>4, HandlerTypes DEF HoldHdmiState
  <2>2. todo' \in [Thread -> Seq(Step)]  BY <1>0, <2>1, DoesFacts
  <2>3. held' \in HdmiStates \cup {None} /\ initialized' \in BOOLEAN
    BY <1>4 DEF HoldHdmiState, TypeOK
  <2>. QED  BY <1>4, <2>2, <2>3 DEF HoldHdmiState, TypeOK, capVars, listVars
<1>5. CASE HdmiIsRunning(s)
  <2>1. \E d \in {"wrote", "unwritten"}, then \in Seq(Step) : Does("main", d, s, then)
    <3>1. <<<<"set", s>>>> \in Seq(Step) /\ <<<<"clear", None>>>> \in Seq(Step)
          /\ <<<<"watchHdmi", None>>>> \in Seq(Step)
      BY <1>0, HandlerTypes
    <3>2. ASSUME NEW r \in Seq(Step)  PROVE <<<<"set", s>>>> \o r \in Seq(Step)
      BY <3>1, ConcatType
    <3>3. <<<<"set", s>>>> \o (IF "hdmiState" \in watched THEN <<<<"clear", None>>>> ELSE <<>>)
            \in Seq(Step)
      BY <1>0, <3>1, <3>2
    <3>. QED  BY <1>0, <1>5, <3>1, <3>3 DEF HdmiIsRunning
  <2>2. todo' \in [Thread -> Seq(Step)]  BY <1>0, <2>1, DoesFacts
  <2>. QED  BY <1>5, <2>2 DEF HdmiIsRunning, TypeOK, capVars, listVars, hdmiVars
<1>. QED  BY <1>1, <1>2, <1>3, <1>4, <1>5

-----------------------------------------------------------------------------
(* Where the callback and the observer thread are                          *)

\* The next step of the callback tells which steps are left.
LEMMA LibCases ==
  ASSUME LibOK, NEW c, NEW d, At("lib", d, c)
  PROVE  \/ d = "find" /\ at["lib"] = None /\ c \in Captures /\ LibIdle(c)
         \/ /\ at["lib"] = c /\ c \in open
            /\ \/ d \in {"beat", "notify", "submit"} /\ todo["lib"] \in Uses(c)
               \/ d = "error" /\ todo["lib"] = <<<<"error", c>>>>
               \/ d = "flag" /\ todo["lib"] = <<<<"flag", c>>, <<"post", c>>>>
               \/ d = "post" /\ todo["lib"] = <<<<"post", c>>>>
<1>1. todo["lib"] # <<>> /\ Head(todo["lib"]) = <<d, c>>  BY DEF At, Busy
<1>2. ASSUME NEW k \in Captures, at["lib"] = None, LibIdle(k)
      PROVE  d = "find" /\ k = c
  <2>1. Head(todo["lib"]) = <<"find", k>>
    BY <1>2, Literals DEF LibIdle, Searches, FrameEvent, ErrorEvent
  <2>. QED  BY <1>1, <2>1
<1>3. ASSUME at["lib"] \in open, LibHolds(at["lib"])
      PROVE  /\ at["lib"] = c
             /\ \/ d \in {"beat", "notify", "submit"} /\ todo["lib"] \in Uses(c)
                \/ d = "error" /\ todo["lib"] = <<<<"error", c>>>>
                \/ d = "flag" /\ todo["lib"] = <<<<"flag", c>>, <<"post", c>>>>
                \/ d = "post" /\ todo["lib"] = <<<<"post", c>>>>
  <2>. DEFINE k == at["lib"]
  <2>1. todo["lib"] \in Uses(k)
          => \E e \in {"beat", "notify", "submit"} : Head(todo["lib"]) = <<e, k>>
    BY Literals DEF Uses
  <2>2. \/ /\ \E e \in {"beat", "notify", "submit"} : Head(todo["lib"]) = <<e, k>>
           /\ todo["lib"] \in Uses(k)
        \/ Head(todo["lib"]) = <<"error", k>> /\ todo["lib"] = <<<<"error", k>>>>
        \/ Head(todo["lib"]) = <<"flag", k>> /\ todo["lib"] = <<<<"flag", k>>, <<"post", k>>>>
        \/ Head(todo["lib"]) = <<"post", k>> /\ todo["lib"] = <<<<"post", k>>>>
    BY <1>3, <2>1, Literals DEF LibHolds
  <2>3. k = c  BY <1>1, <2>2
  <2>. QED  BY <1>1, <2>2, <2>3
<1>. QED  BY <1>1, <1>2, <1>3 DEF LibOK

\* The next step of the observer thread does so, too.
LEMMA ObsCases ==
  ASSUME ObsOK, NEW c, NEW d, At("obs", d, c)
  PROVE  \/ at["obs"] = None /\ ObsHdmi
            /\ d \in {"read", "endHdmi", "clear", "write", "set"}
         \/ at["obs"] = None /\ d = "find" /\ c \in Captures
            /\ todo["obs"] = <<<<"find", c>>, <<"check", c>>>>
         \/ /\ at["obs"] = c /\ c \in open
            /\ \/ d = "check" /\ todo["obs"] = <<<<"check", c>>>>
               \/ d = "flag" /\ todo["obs"] = <<<<"flag", c>>, <<"post", c>>, <<"end", c>>>>
               \/ d = "post" /\ todo["obs"] = <<<<"post", c>>, <<"end", c>>>> /\ c \in reset
               \/ d = "end" /\ todo["obs"] = <<<<"end", c>>>> /\ c \in reset
<1>1. todo["obs"] # <<>> /\ Head(todo["obs"]) = <<d, c>>  BY DEF At, Busy
<1>2. CASE at["obs"] = None /\ ObsHdmi
  <2>1. \E e \in {"read", "endHdmi", "clear", "write", "set"} : \E x :
          Head(todo["obs"]) = <<e, x>>
    BY <1>1, <1>2, Literals DEF ObsHdmi
  <2>. QED  BY <1>1, <1>2, <2>1
<1>3. ASSUME NEW k \in Captures, at["obs"] = None,
             todo["obs"] = <<<<"find", k>>, <<"check", k>>>>
      PROVE  d = "find" /\ k = c
  <2>1. Head(todo["obs"]) = <<"find", k>>  BY <1>3, Literals
  <2>. QED  BY <1>1, <2>1
<1>4. ASSUME at["obs"] \in open, ObsHolds(at["obs"])
      PROVE  /\ at["obs"] = c
             /\ \/ d = "check" /\ todo["obs"] = <<<<"check", c>>>>
                \/ d = "flag" /\ todo["obs"] = <<<<"flag", c>>, <<"post", c>>, <<"end", c>>>>
                \/ d = "post" /\ todo["obs"] = <<<<"post", c>>, <<"end", c>>>> /\ c \in reset
                \/ d = "end" /\ todo["obs"] = <<<<"end", c>>>> /\ c \in reset
  <2>. DEFINE k == at["obs"]
  <2>1. \/ Head(todo["obs"]) = <<"check", k>> /\ todo["obs"] = <<<<"check", k>>>>
        \/ Head(todo["obs"]) = <<"flag", k>>
           /\ todo["obs"] = <<<<"flag", k>>, <<"post", k>>, <<"end", k>>>>
        \/ Head(todo["obs"]) = <<"post", k>> /\ k \in reset
           /\ todo["obs"] = <<<<"post", k>>, <<"end", k>>>>
        \/ Head(todo["obs"]) = <<"end", k>> /\ k \in reset
           /\ todo["obs"] = <<<<"end", k>>>>
    BY <1>4, Literals DEF ObsHolds
  <2>2. k = c  BY <1>1, <2>1
  <2>. QED  BY <1>1, <2>1, <2>2
<1>. QED  BY <1>2, <1>3, <1>4 DEF ObsOK

\* What a search leaves to do, with an entry and without.
LEMMA FindSteps ==
  ASSUME TypeOK, LibOK, ObsOK, NEW t \in {"lib", "obs"}, NEW c \in Captures, Find(t, c)
  PROVE  /\ todo' \in [Thread -> Seq(Step)]
         /\ \A u \in Thread \ {t} : todo'[u] = todo[u]
         /\ c \in open => todo'[t] = Tail(todo[t])
         /\ c \notin open => todo'[t] = Tail(Tail(todo[t]))
<1>0. t \in Thread /\ <<>> \in Seq(Step)  BY DEF Thread
<1>1. CASE c \in open
  <2>1. Does(t, "find", c, <<>>)  BY <1>1 DEF Find
  <2>. QED  BY <1>0, <1>1, <2>1, DoesFacts
<1>2. CASE c \notin open
  <2>1. At(t, "find", c) /\ todo' = [todo EXCEPT ![t] = Tail(Tail(@))]
    BY <1>2 DEF Find
  <2>2. todo[t] \in Searches(c) \cup {<<<<"find", c>>, <<"check", c>>>>}
    <3>1. CASE t = "lib"  BY <1>2, <2>1, <3>1, LibCases DEF LibIdle
    <3>2. CASE t = "obs"  BY <1>2, <2>1, <3>2, ObsCases
    <3>. QED  BY <3>1, <3>2
  <2>3. todo[t] \in Seq(Step) /\ todo[t] # <<>> /\ Tail(todo[t]) # <<>>
    <3>1. todo[t] \in Seq(Step)  BY <1>0 DEF TypeOK
    <3>2. \/ \E x, y : todo[t] = <<x, y>>
          \/ \E x, y, z, u : todo[t] = <<x, y, z, u>>
          \/ \E x, y, z, u, v, w : todo[t] = <<x, y, z, u, v, w>>
      BY <2>2 DEF Searches, FrameEvent, ErrorEvent
    <3>4. ASSUME NEW x, NEW y, todo[t] = <<x, y>>
          PROVE  todo[t] # <<>> /\ Tail(todo[t]) = <<y>> /\ Tail(todo[t]) # <<>>
      BY <3>4
    <3>5. ASSUME NEW x, NEW y, NEW z, NEW u, todo[t] = <<x, y, z, u>>
          PROVE  todo[t] # <<>> /\ Tail(todo[t]) = <<y, z, u>> /\ Tail(todo[t]) # <<>>
      BY <3>5
    <3>6. ASSUME NEW x, NEW y, NEW z, NEW u, NEW v, NEW w, todo[t] = <<x, y, z, u, v, w>>
          PROVE  /\ todo[t] # <<>> /\ Tail(todo[t]) = <<y, z, u, v, w>>
                 /\ Tail(todo[t]) # <<>>
      BY <3>6
    <3>3. todo[t] # <<>> /\ Tail(todo[t]) # <<>>
      BY <3>2, <3>4, <3>5, <3>6
    <3>. QED  BY <3>1, <3>3
  <2>4. Tail(Tail(todo[t])) \in Seq(Step)  BY <2>3, TailType
  <2>. QED  BY <1>0, <1>2, <2>1, <2>4 DEF TypeOK
<1>. QED  BY <1>1, <1>2

\* So do the steps of the callback and of the observer thread for a capture.
LEMMA WatchType ==
  ASSUME TypeOK, LibOK, ObsOK, NEW t \in {"lib", "obs"}, NEW c \in Captures,
         \/ Find(t, c) \/ CheckInterruptHeartbeat(c) \/ ObserverEnd(c)
         \/ SetCaptureResetEvent(t, c) \/ NotifyCaptureResetEvent(t, c)
         \/ NotifyInterruptHeartbeat(c) \/ NotifyCaptureEvent(c)
         \/ SettingSubmitRequestPrev(c) \/ CheckHdmiReceiverError(c)
  PROVE  TypeOK'
<1>0. /\ t \in Thread /\ "lib" \in Thread /\ "obs" \in Thread /\ <<>> \in Seq(Step)
      /\ <<"flag", c>> \in Step /\ <<"post", c>> \in Step /\ <<"end", c>> \in Step
      /\ at \in [Thread -> Captures \cup {None}]
  BY DEF Thread, Step, Do, TypeOK
<1>1. CASE Find(t, c)
  <2>1. todo' \in [Thread -> Seq(Step)]  BY <1>1, FindSteps
  <2>2. at' \in [Thread -> Captures \cup {None}]  BY <1>0, <1>1 DEF Find
  <2>. QED  BY <1>1, <2>1, <2>2 DEF Find, TypeOK, capVars, listVars, hdmiVars
<1>2. CASE CheckInterruptHeartbeat(c)
  <2>1. PICK then \in Seq(Step) : Does("obs", "check", c, then)
    <3>1. <<<<"flag", c>>, <<"post", c>>>> \in Seq(Step) /\ <<<<"end", c>>>> \in Seq(Step)
      BY <1>0, HandlerTypes
    <3>2. \A r \in Seq(Step) : r \o <<<<"end", c>>>> \in Seq(Step)  BY <3>1, ConcatType
    <3>3. (IF c \in reset THEN <<>> ELSE <<<<"flag", c>>, <<"post", c>>>>) \o <<<<"end", c>>>>
            \in Seq(Step)
      BY <1>0, <3>1, <3>2
    <3>. QED  BY <1>0, <1>2, <3>3 DEF CheckInterruptHeartbeat
  <2>2. todo' \in [Thread -> Seq(Step)]  BY <1>0, <2>1, DoesFacts
  <2>3. at' \in [Thread -> Captures \cup {None}]
    BY <1>0, <1>2 DEF CheckInterruptHeartbeat
  <2>. QED  BY <1>2, <2>2, <2>3 DEF CheckInterruptHeartbeat, TypeOK, listVars, hdmiVars
<1>3. CASE ObserverEnd(c)
  <2>1. todo' \in [Thread -> Seq(Step)]  BY <1>0, <1>3, DoesFacts DEF ObserverEnd
  <2>2. at' \in [Thread -> Captures \cup {None}]  BY <1>0, <1>3 DEF ObserverEnd
  <2>. QED  BY <1>3, <2>1, <2>2 DEF ObserverEnd, TypeOK, capVars, hdmiVars
<1>4. CASE SetCaptureResetEvent(t, c)
  <2>1. todo' \in [Thread -> Seq(Step)]  BY <1>0, <1>4, DoesFacts DEF SetCaptureResetEvent
  <2>. QED  BY <1>4, <2>1 DEF SetCaptureResetEvent, TypeOK, listVars, hdmiVars
<1>5. CASE NotifyCaptureResetEvent(t, c)
  <2>1. todo' \in [Thread -> Seq(Step)]  BY <1>0, <1>5, DoesFacts DEF NotifyCaptureResetEvent
  <2>2. at' \in [Thread -> Captures \cup {None}]
    BY <1>0, <1>5 DEF NotifyCaptureResetEvent
  <2>3. events' \in Seq(Captures)
    <3>1. events \in Seq(Captures)  BY DEF TypeOK
    <3>2. Append(events, c) \in Seq(Captures)  BY <3>1
    <3>. QED  BY <1>5, <3>1, <3>2 DEF NotifyCaptureResetEvent
  <2>4. unsent' \subseteq Captures  BY <1>5 DEF NotifyCaptureResetEvent, TypeOK
  <2>. QED  BY <1>5, <2>1, <2>2, <2>3, <2>4
            DEF NotifyCaptureResetEvent, TypeOK, capVars, listVars, hdmiVars
<1>6. CASE NotifyInterruptHeartbeat(c)
  <2>1. todo' \in [Thread -> Seq(Step)]
    BY <1>0, <1>6, DoesFacts DEF NotifyInterruptHeartbeat
  <2>2. at' \in [Thread -> Captures \cup {None}]
    BY <1>0, <1>6 DEF NotifyInterruptHeartbeat
  <2>. QED  BY <1>6, <2>1, <2>2 DEF NotifyInterruptHeartbeat, TypeOK, listVars, hdmiVars
<1>7. CASE SettingSubmitRequestPrev(c)
  <2>1. todo' \in [Thread -> Seq(Step)]
    BY <1>0, <1>7, DoesFacts DEF SettingSubmitRequestPrev
  <2>2. at' \in [Thread -> Captures \cup {None}]
    BY <1>0, <1>7 DEF SettingSubmitRequestPrev
  <2>. QED  BY <1>7, <2>1, <2>2 DEF SettingSubmitRequestPrev, TypeOK, capVars, listVars, hdmiVars
<1>8. CASE CheckHdmiReceiverError(c)
  <2>1. PICK then \in Seq(Step) : Does("lib", "error", c, then)
    BY <1>0, <1>8, HandlerTypes DEF CheckHdmiReceiverError
  <2>2. todo' \in [Thread -> Seq(Step)]  BY <1>0, <2>1, DoesFacts
  <2>3. at' \in [Thread -> Captures \cup {None}]
    BY <1>0, <1>8 DEF CheckHdmiReceiverError
  <2>. QED  BY <1>8, <2>2, <2>3 DEF CheckHdmiReceiverError, TypeOK, capVars, listVars, hdmiVars
<1>9. CASE NotifyCaptureEvent(c)
  <2>1. todo' \in [Thread -> Seq(Step)]
    BY <1>0, <1>9, DoesFacts DEF NotifyCaptureEvent
  <2>2. at' \in [Thread -> Captures \cup {None}]
    BY <1>0, <1>9 DEF NotifyCaptureEvent
  <2>. QED  BY <1>9, <2>1, <2>2 DEF NotifyCaptureEvent, TypeOK, capVars, listVars, hdmiVars
<1>. QED  BY <1>1, <1>2, <1>3, <1>4, <1>5, <1>6, <1>7, <1>8, <1>9

\* So do the writes of the HDMI state and the steps of its observer.
LEMMA HdmiType ==
  ASSUME TypeOK, NEW t \in {"main", "obs"}, NEW s \in HdmiStates \cup {None},
         \/ HdmiNotify \/ HdmiEnd \/ ClearObserver("obs")
         \/ WriteHdmiState(t, s) \/ SetHdmiState(t, s)
  PROVE  TypeOK'
<1>0. /\ t \in Thread /\ "obs" \in Thread /\ <<>> \in Seq(Step)
      /\ \A d \in Do : <<d, s>> \in Step /\ <<d, held>> \in Step /\ <<d, None>> \in Step
      /\ {"clear", "set", "write", "wrote", "unwritten", "endHdmi"} \subseteq Do
  <2>1. \A d \in Do : <<d, s>> \in Step /\ <<d, held>> \in Step /\ <<d, None>> \in Step
    BY DEF TypeOK, Step
  <2>. QED  BY <2>1, HandlerTypes DEF Thread, Do
<1>1. CASE HdmiNotify
  <2>1. PICK then \in Seq(Step) : Does("obs", "read", None, then)
    BY <1>0, <1>1, HandlerTypes DEF HdmiNotify
  <2>2. todo' \in [Thread -> Seq(Step)]  BY <1>0, <2>1, DoesFacts
  <2>3. initialized' \in BOOLEAN  BY <1>1 DEF HdmiNotify, TypeOK
  <2>. QED  BY <1>1, <2>2, <2>3 DEF HdmiNotify, TypeOK, capVars, listVars
<1>2. CASE HdmiEnd
  <2>1. todo' \in [Thread -> Seq(Step)]  BY <1>0, <1>2, DoesFacts DEF HdmiEnd
  <2>. QED  BY <1>2, <2>1 DEF HdmiEnd, TypeOK, capVars, hdmiVars
<1>3. CASE ClearObserver("obs")
  <2>1. todo' \in [Thread -> Seq(Step)]  BY <1>0, <1>3, DoesFacts DEF ClearObserver
  <2>. QED  BY <1>3, <2>1 DEF ClearObserver, TypeOK, capVars, hdmiVars
<1>4. CASE WriteHdmiState(t, s)
  <2>1. PICK then \in Seq(Step) : Does(t, "write", s, then)
    BY <1>0, <1>4, HandlerTypes DEF WriteHdmiState
  <2>2. todo' \in [Thread -> Seq(Step)]  BY <1>0, <2>1, DoesFacts
  <2>3. file' \in HdmiStates \cup {None}  BY <1>4 DEF WriteHdmiState, TypeOK
  <2>. QED  BY <1>4, <2>2, <2>3 DEF WriteHdmiState, TypeOK, capVars, listVars
<1>5. CASE SetHdmiState(t, s)
  <2>1. todo' \in [Thread -> Seq(Step)]  BY <1>0, <1>5, DoesFacts DEF SetHdmiState
  <2>. QED  BY <1>5, <2>1 DEF SetHdmiState, TypeOK, capVars, listVars
<1>. QED  BY <1>1, <1>2, <1>3, <1>4, <1>5

\* So does what the event loop and the outside begin.
LEMMA LoopType ==
  ASSUME TypeOK, NEW c \in Captures, NEW s \in HdmiStates \cup {None},
         NEW w \in Captures \cup {"hdmiState"},
         \/ Execute(w) \/ ExecuteGhost \/ EventCallback(c) \/ ActionCameraControl(c)
         \/ OpenOrClose(c) \/ ResetCapture \/ ChgConnInfoHdmi(s) \/ StrStateEvent
         \/ StreamStalls(c)
  PROVE  TypeOK'
<1>0. /\ "main" \in Thread /\ "lib" \in Thread /\ "obs" \in Thread
      /\ "request" \in Kinds /\ "suspend" \in Kinds /\ "fault" \in Kinds
      /\ <<>> \in Seq(Step) /\ todo \in [Thread -> Seq(Step)]
  BY DEF Thread, Kinds, TypeOK
<1>1. ASSUME NEW k \in Kinds, Spends(k)  PROVE left' \in [Kinds -> Nat]
  BY <1>1 DEF Spends, TypeOK
<1>2. ASSUME NEW a \in Seq(Step), Begins(a)  PROVE todo' \in [Thread -> Seq(Step)]
  BY <1>0, <1>2 DEF Begins
<1>3. CASE Execute(w)
  <2>1. /\ <<"read", None>> \in Step
        /\ w \in Captures => <<"find", w>> \in Step /\ <<"check", w>> \in Step
    BY DEF Step, Do
  <2>2. todo' \in [Thread -> Seq(Step)]
    BY <1>0, <1>3, <2>1, HandlerTypes DEF Execute
  <2>. QED  BY <1>3, <2>2 DEF Execute, TypeOK, capVars, listVars, hdmiVars
<1>4. CASE ExecuteGhost
  BY <1>4 DEF ExecuteGhost, TypeOK, capVars, listVars, hdmiVars
<1>5. CASE EventCallback(c)
  <2>1. todo' \in [Thread -> Seq(Step)]
    BY <1>0, <1>5, HandlerTypes DEF EventCallback
  <2>2. left' \in [Kinds -> Nat]  BY <1>0, <1>1, <1>5 DEF EventCallback, TypeOK
  <2>. QED  BY <1>5, <2>1, <2>2 DEF EventCallback, TypeOK, capVars, listVars, hdmiVars
<1>6. CASE ActionCameraControl(c)
  <2>1. <<<<"control", c>>>> \in Seq(Step)  BY HandlerTypes DEF Step, Do
  <2>2. todo' \in [Thread -> Seq(Step)] /\ left' \in [Kinds -> Nat]
    BY <1>0, <1>1, <1>2, <1>6, <2>1 DEF ActionCameraControl
  <2>3. want' \subseteq Captures  BY <1>6 DEF ActionCameraControl, TypeOK
  <2>. QED  BY <1>6, <2>2, <2>3 DEF ActionCameraControl, TypeOK, capVars, listVars, hdmiVars
<1>7. CASE OpenOrClose(c)
  <2>1. CloseCapture(c) \o OpenCapture(c) \in Seq(Step)  BY HandlerTypes, ConcatType
  <2>2. todo' \in [Thread -> Seq(Step)] /\ left' \in [Kinds -> Nat]
    BY <1>0, <1>1, <1>2, <1>7, <2>1, HandlerTypes DEF OpenOrClose
  <2>. QED  BY <1>7, <2>2 DEF OpenOrClose, TypeOK, capVars, listVars, hdmiVars
<1>8. CASE ResetCapture
  <2>1. events \in Seq(Captures) /\ events # <<>>  BY <1>8 DEF ResetCapture, TypeOK
  <2>2. Head(events) \in Captures /\ Tail(events) \in Seq(Captures)  BY <2>1, TailType
  <2>3. CloseCapture(Head(events)) \o OpenCapture(Head(events)) \in Seq(Step)
    BY <2>2, HandlerTypes, ConcatType
  <2>4. todo' \in [Thread -> Seq(Step)]  BY <1>2, <1>8, <2>3 DEF ResetCapture
  <2>5. events' \in Seq(Captures)  BY <1>8, <2>2 DEF ResetCapture
  <2>. QED  BY <1>8, <2>4, <2>5 DEF ResetCapture, TypeOK, capVars, listVars, hdmiVars
<1>9. CASE ChgConnInfoHdmi(s)
  <2>1. <<<<"hold", s>>>> \in Seq(Step)  BY HandlerTypes DEF Step, Do
  <2>2. todo' \in [Thread -> Seq(Step)] /\ left' \in [Kinds -> Nat]
    BY <1>0, <1>1, <1>2, <1>9, <2>1 DEF ChgConnInfoHdmi
  <2>. QED  BY <1>9, <2>2 DEF ChgConnInfoHdmi, TypeOK, capVars, listVars, hdmiVars
<1>10. CASE StrStateEvent
  <2>1. <<"suspend", None>> \in Step /\ <<"closeAll", None>> \in Step
        /\ <<"resume", None>> \in Step
    BY DEF Step, Do
  <2>2. <<<<"suspend", None>>, <<"closeAll", None>>, <<"resume", None>>>> \in Seq(Step)
    BY <2>1
  <2>3. todo' \in [Thread -> Seq(Step)] /\ left' \in [Kinds -> Nat]
    BY <1>0, <1>1, <1>2, <1>10, <2>2 DEF StrStateEvent
  <2>. QED  BY <1>10, <2>3 DEF StrStateEvent, TypeOK, capVars, listVars, hdmiVars
<1>11. CASE StreamStalls(c)
  <2>1. left' \in [Kinds -> Nat]  BY <1>0, <1>1, <1>11 DEF StreamStalls
  <2>. QED  BY <1>11, <2>1 DEF StreamStalls, TypeOK, listVars, hdmiVars
<1>. QED  BY <1>3, <1>4, <1>5, <1>6, <1>7, <1>8, <1>9, <1>10, <1>11

\* Every step keeps the types.  Where an entry is not found, two steps must be
\* left, which the invariant says.
LEMMA TypeStep ==
  ASSUME WatchAssumption, TypeOK, IndInv, [Next]_vars
  PROVE  TypeOK'
<1>0. HdmiInput \in Captures /\ None \in HdmiStates \cup {None}  BY DEF WatchAssumption
<1>1. CASE UNCHANGED vars
  BY <1>1 DEF TypeOK, vars, capVars, listVars, hdmiVars
<1>2. CASE MainStep
  <2>1. ASSUME NEW c \in Captures,
               \/ ControlCapture(c) \/ StartCapture(c) \/ StopCapture(c)
               \/ StartInterruptObserver(c) \/ StopInterruptObserver(c)
               \/ OpenEntry(c) \/ EraseEntry(c)
        PROVE  TypeOK'
    BY <2>1, MainCaptureType
  <2>2. ASSUME NEW s \in HdmiStates, \/ HoldHdmiState(s) \/ HdmiIsRunning(s)
        PROVE  TypeOK'
    BY <2>2, MainOtherType
  <2>3. ASSUME NEW s \in HdmiStates, \/ WriteHdmiState("main", s) \/ SetHdmiState("main", s)
        PROVE  TypeOK'
    BY <2>3, HdmiType
  <2>4. ASSUME \/ SuspendStep \/ ClearObserver("main") \/ WatchHdmi
        PROVE  TypeOK'
    BY <1>0, <2>4, MainOtherType
  <2>. QED  BY <1>2, <2>1, <2>2, <2>3, <2>4 DEF MainStep
<1>3. CASE ObsStep
  <2>1. ASSUME NEW c \in Captures,
               \/ Find("obs", c) \/ CheckInterruptHeartbeat(c)
               \/ SetCaptureResetEvent("obs", c)
               \/ NotifyCaptureResetEvent("obs", c) \/ ObserverEnd(c)
        PROVE  TypeOK'
    <3>1. ~torn  BY <2>1 DEF Find, CheckInterruptHeartbeat, SetCaptureResetEvent,
                  NotifyCaptureResetEvent, ObserverEnd, Does
    <3>. QED  BY <2>1, <3>1, WatchType DEF IndInv
  <2>2. ASSUME NEW s \in HdmiStates, \/ WriteHdmiState("obs", s) \/ SetHdmiState("obs", s)
        PROVE  TypeOK'
    BY <2>2, HdmiType
  <2>3. ASSUME \/ HdmiNotify \/ HdmiEnd \/ ClearObserver("obs")
        PROVE  TypeOK'
    BY <1>0, <2>3, HdmiType
  <2>. QED  BY <1>3, <2>1, <2>2, <2>3 DEF ObsStep
<1>4. CASE LibStep
  <2>1. PICK c \in Captures :
               \/ Find("lib", c) \/ NotifyInterruptHeartbeat(c) \/ NotifyCaptureEvent(c)
               \/ SettingSubmitRequestPrev(c) \/ CheckHdmiReceiverError(c)
               \/ SetCaptureResetEvent("lib", c)
               \/ NotifyCaptureResetEvent("lib", c)
    BY <1>4 DEF LibStep
  <2>2. ~torn  BY <2>1 DEF Find, NotifyInterruptHeartbeat, NotifyCaptureEvent,
                SettingSubmitRequestPrev, CheckHdmiReceiverError, SetCaptureResetEvent,
                NotifyCaptureResetEvent, Does
  <2>. QED  BY <2>1, <2>2, WatchType DEF IndInv
<1>5. ASSUME \/ ResetCapture \/ ExecuteGhost \/ StrStateEvent
      PROVE  TypeOK'
  BY <1>0, <1>5, LoopType
<1>6. ASSUME NEW w \in Captures \cup {"hdmiState"}, Execute(w)
      PROVE  TypeOK'
  BY <1>0, <1>6, LoopType
<1>7. ASSUME NEW c \in Captures,
             EventCallback(c) \/ ActionCameraControl(c) \/ OpenOrClose(c) \/ StreamStalls(c)
      PROVE  TypeOK'
  BY <1>0, <1>7, LoopType
<1>8. ASSUME NEW s \in HdmiStates, ChgConnInfoHdmi(s)
      PROVE  TypeOK'
  BY <1>0, <1>8, LoopType
<1>. QED  BY <1>1, <1>2, <1>3, <1>4, <1>5, <1>6, <1>7, <1>8 DEF Next, Outside

-----------------------------------------------------------------------------
(* What the main thread still has to do                                    *)

\* Steps that open nothing, unregister no observer and belong to no suspend.
Plain == {p \in Step : p[1] \notin {"open", "unregister", "suspend", "resume"}}

\* They are steps, and none of the four.
LEMMA PlainSteps ==
  ASSUME NEW s \in Seq(Plain)
  PROVE  /\ s \in Seq(Step)
         /\ ~Has(s, Opens) /\ ~Has(s, Resume) /\ ~Has(s, {<<"suspend", None>>})
         /\ ~Has(s, Unregisters) /\ \A c : ~Has(s, {<<"unregister", c>>})
         /\ s # <<>> => ~Has(Tail(s), Unregisters)
<1>1. Plain \subseteq Step  BY DEF Plain
<1>2. s \in Seq(Step)  BY <1>1
<1>3. \A i \in DOMAIN s : s[i] \in Plain  OBVIOUS
<1>4. ASSUME NEW B, B \cap Plain = {}  PROVE ~Has(s, B)
  BY <1>3, <1>4 DEF Has
<1>5. /\ Opens \cap Plain = {} /\ Resume \cap Plain = {} /\ Unregisters \cap Plain = {}
      /\ {<<"suspend", None>>} \cap Plain = {}
      /\ \A c : {<<"unregister", c>>} \cap Plain = {}
  BY DEF Opens, Resume, Unregisters, Plain
<1>6. s # <<>> => ~Has(Tail(s), Unregisters)  BY <1>2, <1>4, <1>5, HasTail
<1>. QED  BY <1>2, <1>4, <1>5, <1>6

\* A step that is not the next one is still to come after the next one.
LEMMA Remains ==
  ASSUME NEW S, NEW s \in Seq(S), s # <<>>, NEW p \in Seq(S), NEW B,
         Has(s, B), Head(s) \notin B \/ Has(p, B)
  PROVE  Has(p \o Tail(s), B)
<1>1. Tail(s) \in Seq(S)  BY TailType
<1>2. Has(p, B) \/ Has(Tail(s), B)  BY HasTail
<1>. QED  BY <1>1, <1>2, HasConcat

\* The main thread takes its next step and goes on as MainOK says.
LEMMA MainAdvances ==
  ASSUME TypeOK, MainOK(todo["main"]), NEW d, NEW x, NEW then \in Seq(Step),
         todo["main"] # <<>>, Head(todo["main"]) = <<d, x>>,
         todo'["main"] = then \o Tail(todo["main"]),
         ~Has(then, Opens), ~Has(then, Resume), ~Has(then, {<<"suspend", None>>}),
         then # <<>> => ~Has(Tail(then), Unregisters),
         \A c \in started' : ~Has(then, {<<"unregister", c>>}), started' \subseteq Captures,
         suspend' => d # "resume" /\ (suspend \/ <<d, x>> = <<"suspend", None>>),
         open' \subseteq open \/ ~Has(todo["main"], Resume),
         d = "closeAll" => Has(then, CloseAll) \/ open' = {}
  PROVE  MainOK(todo["main"])'
<1>. DEFINE s == todo["main"]
            r == Tail(todo["main"])
            n == then \o r
<1>1. s \in Seq(Step) /\ s # <<>> /\ r \in Seq(Step) /\ n \in Seq(Step)
  <2>1. s \in Seq(Step) /\ s # <<>>  BY DEF TypeOK, Thread
  <2>2. r \in Seq(Step)  BY <2>1, TailType
  <2>. QED  BY <2>1, <2>2, ConcatType
<1>. HIDE DEF s, r, n
<1>2. /\ ~Has(r, Unregisters)
      /\ Later(s, <<"suspend", None>>, Resume)
      /\ suspend => Has(s, Resume)
      /\ Has(s, Resume) => ~Has(s, Opens) /\ (open = {} \/ Has(s, CloseAll))
  BY <1>1 DEF MainOK, s, r
<1>3. \A B : Has(s, B) <=> <<d, x>> \in B \/ Has(r, B)
  BY <1>1, HasTail DEF s, r
<1>4. \A B : Has(n, B) <=> Has(then, B) \/ Has(r, B)
  BY <1>1, HasConcat DEF n
<1>5. n # <<>> => ~Has(Tail(n), Unregisters)
  <2>1. CASE then = <<>>
    <3>1. n = r  BY <1>1, <2>1, ConcatEmptySeq DEF n
    <3>2. r # <<>> => ~Has(Tail(r), Unregisters)  BY <1>1, <1>2, HasTail
    <3>. QED  BY <3>1, <3>2
  <2>2. CASE then # <<>>
    <3>1. Tail(n) = Tail(then) \o r  BY <1>1, <2>2, TailConcat DEF n
    <3>2. Tail(then) \in Seq(Step) /\ ~Has(Tail(then), Unregisters)  BY <2>2, TailType
    <3>3. Has(Tail(then) \o r, Unregisters)
            <=> Has(Tail(then), Unregisters) \/ Has(r, Unregisters)
      BY <1>1, <3>2, HasConcat
    <3>. QED  BY <1>2, <3>1, <3>2, <3>3
  <2>. QED  BY <2>1, <2>2
<1>6. ASSUME NEW c \in started'  PROVE ~Has(n, {<<"unregister", c>>})
  <2>1. {<<"unregister", c>>} \subseteq Unregisters  BY DEF Unregisters
  <2>2. ~Has(r, {<<"unregister", c>>})  BY <1>2, <2>1 DEF Has
  <2>. QED  BY <1>4, <2>2
<1>7. Later(n, <<"suspend", None>>, Resume)
  <2>1. Later(r, <<"suspend", None>>, Resume)  BY <1>1, <1>2, LaterTail DEF s, r
  <2>. QED  BY <1>1, <2>1, LaterConcat DEF n
<1>8. suspend' => Has(n, Resume)
  <2>1. ASSUME <<d, x>> = <<"suspend", None>>  PROVE Has(r, Resume)
    BY <1>1, <1>2, <2>1, LaterTail DEF s, r
  <2>2. ASSUME suspend, d # "resume"  PROVE Has(r, Resume)
    BY <1>2, <1>3, <2>2 DEF Resume
  <2>. QED  BY <1>4, <2>1, <2>2
<1>9. Has(n, Resume) => ~Has(n, Opens) /\ (open' = {} \/ Has(n, CloseAll))
  <2>. SUFFICES ASSUME Has(n, Resume)
                PROVE  ~Has(n, Opens) /\ (open' = {} \/ Has(n, CloseAll))
    OBVIOUS
  <2>1. Has(s, Resume)  BY <1>3, <1>4
  <2>2. ~Has(n, Opens)  BY <1>2, <1>3, <1>4, <2>1
  <2>3. open' \subseteq open  BY <2>1 DEF s
  <2>4. ASSUME Has(s, CloseAll)  PROVE open' = {} \/ Has(n, CloseAll)
    BY <1>3, <1>4, <2>4 DEF CloseAll
  <2>. QED  BY <1>2, <2>1, <2>2, <2>3, <2>4
<1>10. todo'["main"] = n  BY DEF n, r
<1>. QED  BY <1>5, <1>6, <1>7, <1>8, <1>9, <1>10
          DEF MainOK, Resume, Opens, CloseAll, Unregisters

\* A suspend opens nothing, closes everything and ends with the resume.
LEMMA SuspendSteps ==
  ASSUME NEW s, s = <<<<"suspend", None>>, <<"closeAll", None>>, <<"resume", None>>>>
  PROVE  Later(s, <<"suspend", None>>, Resume) /\ ~Has(s, Opens) /\ Has(s, CloseAll)
<1>1. /\ DOMAIN s = 1..3 /\ s[1] = <<"suspend", None>> /\ s[2] = <<"closeAll", None>>
      /\ s[3] = <<"resume", None>>
  OBVIOUS
<1>2. Later(s, <<"suspend", None>>, Resume)  BY <1>1 DEF Later, Resume
<1>3. ~Has(s, Opens)  BY <1>1 DEF Has, Opens
<1>4. Has(s, CloseAll)  BY <1>1 DEF Has, CloseAll
<1>. QED  BY <1>2, <1>3, <1>4

\* Between two handlers the program is not suspended, and a handler that
\* unregisters nothing at once and is no suspend goes on as MainOK says.
LEMMA MainBegins ==
  ASSUME MainOK(todo["main"]), todo["main"] = <<>>, suspend' = suspend,
         ~Has(todo'["main"], Unregisters), started' \subseteq Captures,
         todo'["main"] \in Seq(Step),
         \/ ~Has(todo'["main"], {<<"suspend", None>>}) /\ ~Has(todo'["main"], Resume)
         \/ todo'["main"] = <<<<"suspend", None>>, <<"closeAll", None>>, <<"resume", None>>>>
  PROVE  MainOK(todo["main"])'
<1>. DEFINE n == todo'["main"]
<1>1. ~suspend
  <2>1. ~Has(<<>>, Resume)  BY HasLiteral
  <2>. QED  BY <2>1 DEF MainOK
<1>2. n # <<>> => ~Has(Tail(n), Unregisters)  BY HasTail
<1>3. ASSUME NEW c \in started'  PROVE ~Has(n, {<<"unregister", c>>})
  <2>1. {<<"unregister", c>>} \subseteq Unregisters  BY DEF Unregisters
  <2>. QED  BY <2>1 DEF Has
<1>4. Later(n, <<"suspend", None>>, Resume)
      /\ (Has(n, Resume) => ~Has(n, Opens) /\ Has(n, CloseAll))
  <2>1. CASE ~Has(n, {<<"suspend", None>>}) /\ ~Has(n, Resume)
    BY <2>1, LaterWithout
  <2>2. CASE n = <<<<"suspend", None>>, <<"closeAll", None>>, <<"resume", None>>>>
    BY <2>2, SuspendSteps
  <2>. QED  BY <2>1, <2>2
<1>. QED  BY <1>1, <1>2, <1>3, <1>4 DEF MainOK, Resume, Opens, CloseAll, Unregisters

-----------------------------------------------------------------------------
(* Steps of the main thread                                                *)

\* A step that leaves the callback alone.
LEMMA LibKept ==
  ASSUME LibOK, todo'["lib"] = todo["lib"], at'["lib"] = at["lib"],
         at["lib"] \in open => at["lib"] \in open'
  PROVE  LibOK'
BY DEF LibOK, LibIdle, LibHolds

\* A step that leaves the observer thread alone.
LEMMA ObsKept ==
  ASSUME ObsOK, todo'["obs"] = todo["obs"], at'["obs"] = at["obs"],
         at["obs"] \in open => at["obs"] \in open',
         at["obs"] \in reset => at["obs"] \in reset'
  PROVE  ObsOK'
BY DEF ObsOK, ObsHdmi, ObsHolds

\* A reset that is on its way stays so when the main thread takes a step that
\* does not close the capture.
LEMMA MainKeeps ==
  ASSUME TypeOK, NEW c, NEW then \in Seq(Step), todo["main"] # <<>>,
         todo'["main"] = then \o Tail(todo["main"]),
         todo'["lib"] = todo["lib"], todo'["obs"] = todo["obs"], events' = events, unsent' = unsent,
         Head(todo["main"]) # <<"erase", c>>,
         Head(todo["main"]) # <<"closeAll", None>> \/ Has(then, CloseAll),
         ResetOnItsWay(c)
  PROVE  ResetOnItsWay(c)'
<1>. DEFINE s == todo["main"]
            n == then \o Tail(todo["main"])
<1>1. s \in Seq(Step) /\ s # <<>>  BY DEF TypeOK, Thread
<1>2. Has(s, {<<"erase", c>>}) => Has(n, {<<"erase", c>>})  BY <1>1, Remains
<1>3. Has(s, CloseAll) => Has(n, CloseAll)
  BY <1>1, Remains DEF CloseAll
<1>. HIDE DEF s, n
<1>4. todo'["main"] = n /\ todo["main"] = s  BY DEF n, s
<1>. QED  BY <1>2, <1>3, <1>4 DEF ResetOnItsWay, Pending, CloseAll

\* A step that closes no capture and ends no suspend.
LEMMA MainOrdinary ==
  ASSUME TypeOK, IndInv, NEW d, NEW x, NEW then \in Seq(Step),
         Does("main", d, x, then), started' \subseteq open,
         d \notin {"resume", "erase"}, d = "closeAll" => Has(then, CloseAll),
         suspend' => suspend \/ <<d, x>> = <<"suspend", None>>,
         open \subseteq open', open' = open \/ ~Has(todo["main"], Resume),
         ~Has(then, Opens), ~Has(then, Resume), ~Has(then, {<<"suspend", None>>}),
         then # <<>> => ~Has(Tail(then), Unregisters),
         \A c \in started' : ~Has(then, {<<"unregister", c>>}),
         UNCHANGED <<reset, events, unsent, at>>,
         \A c \in started' :
           \/ c \in watched' \/ Has(then, {<<"register", c>>})
           \/ (c \in started /\ c \notin watched /\ (d # "register" \/ x # c))
  PROVE  IndInv'
<1>1. "main" \in Thread /\ "lib" \in Thread \ {"main"} /\ "obs" \in Thread \ {"main"}
  BY DEF Thread
<1>2. /\ ~torn /\ todo["main"] \in Seq(Step) /\ todo["main"] # <<>>
      /\ Head(todo["main"]) = <<d, x>> /\ Tail(todo["main"]) \in Seq(Step)
      /\ todo'["main"] = then \o Tail(todo["main"])
      /\ todo'["lib"] = todo["lib"] /\ todo'["obs"] = todo["obs"]
  BY <1>1, DoesFacts
<1>3. started' \subseteq Captures  BY DEF TypeOK
<1>4. MainOK(todo["main"])'
  <2>1. suspend' => d # "resume" /\ (suspend \/ <<d, x>> = <<"suspend", None>>)  OBVIOUS
  <2>2. open' \subseteq open \/ ~Has(todo["main"], Resume)  OBVIOUS
  <2>3. d = "closeAll" => Has(then, CloseAll) \/ open' = {}  OBVIOUS
  <2>4. MainOK(todo["main"])  BY <1>2 DEF IndInv
  <2>. QED  BY <1>2, <1>3, <2>1, <2>2, <2>3, <2>4, MainAdvances
<1>5. LibOK' /\ ObsOK'
  BY <1>2, LibKept, ObsKept DEF IndInv
<1>6. ASSUME NEW c, ResetOnItsWay(c)  PROVE ResetOnItsWay(c)'
  <2>1. /\ Head(todo["main"]) # <<"erase", c>>
        /\ Head(todo["main"]) # <<"closeAll", None>> \/ Has(then, CloseAll)
    BY <1>2
  <2>. QED  BY <1>2, <1>6, <2>1, MainKeeps
<1>7. \A c \in reset' : ResetOnItsWay(c)'
  BY <1>2, <1>6 DEF IndInv, StartedIsWatched
<1>8. ASSUME NEW c \in started'
      PROVE  c \in watched' \/ Pending("main", <<"register", c>>)' \/ ResetOnItsWay(c)'
  <2>1. CASE c \in watched'  BY <2>1
  <2>2. CASE Has(then, {<<"register", c>>})
    <3>1. Has(then \o Tail(todo["main"]), {<<"register", c>>})  BY <1>2, <2>2, HasConcat
    <3>. QED  BY <1>2, <3>1 DEF Pending
  <2>3. CASE c \in started /\ c \notin watched /\ (d # "register" \/ x # c)
    <3>1. Has(todo["main"], {<<"register", c>>}) \/ ResetOnItsWay(c)
      BY <1>2, <2>3 DEF IndInv, StartedIsWatched, Pending
    <3>2. CASE ResetOnItsWay(c)  BY <1>6, <3>2
    <3>3. CASE Has(todo["main"], {<<"register", c>>})
      <4>1. Has(then \o Tail(todo["main"]), {<<"register", c>>})
        BY <1>2, <2>3, <3>3, Remains
      <4>. QED  BY <1>2, <4>1 DEF Pending
    <3>. QED  BY <3>1, <3>2, <3>3
  <2>. QED  BY <2>1, <2>2, <2>3
<1>9. StartedIsWatched'  BY <1>7, <1>8 DEF StartedIsWatched
<1>10. started' \subseteq open' /\ reset' \subseteq open'  BY <1>2 DEF IndInv
<1>. QED  BY <1>4, <1>5, <1>9, <1>10 DEF IndInv

\* The same for steps of the HDMI state, which leave the captures alone.
LEMMA MainHdmi ==
  ASSUME TypeOK, IndInv, NEW d, NEW x, NEW then \in Seq(Plain),
         Does("main", d, x, then), torn' = torn,
         d \notin {"suspend", "closeAll", "resume", "erase", "register"},
         UNCHANGED <<open, started, reset, events, unsent, suspend, at>>,
         watched' \cap Captures = watched \cap Captures
  PROVE  IndInv'
<1>1. ~torn  BY DEF Does
<1>2. started' \subseteq open /\ started \subseteq Captures  BY <1>1 DEF IndInv, TypeOK
<1>3. \A c \in started' :
           \/ c \in watched' \/ Has(then, {<<"register", c>>})
           \/ (c \in started /\ c \notin watched /\ (d # "register" \/ x # c))
  BY <1>2
<1>. QED  BY <1>2, <1>3, PlainSteps, MainOrdinary

\* What the main thread does for the HDMI state leaves every capture watched.
LEMMA MainHdmiStep ==
  ASSUME WatchAssumption, TypeOK, IndInv, NEW s \in HdmiStates \cup {None},
         \/ ClearObserver("main") \/ WatchHdmi \/ HoldHdmiState(s)
         \/ WriteHdmiState("main", s) \/ HdmiIsRunning(s) \/ SetHdmiState("main", s)
  PROVE  IndInv'
<1>1. /\ \A d \in {"write", "wrote", "unwritten", "set"} : <<<<d, s>>>> \in Seq(Plain)
      /\ <<<<"clear", None>>>> \in Seq(Plain) /\ <<<<"watchHdmi", None>>>> \in Seq(Plain)
      /\ <<>> \in Seq(Plain)
  <2>1. ASSUME NEW d \in {"write", "wrote", "unwritten", "set"}
        PROVE  <<d, s>> \in Plain
    BY DEF Plain, Step, Do
  <2>2. <<"clear", None>> \in Plain /\ <<"watchHdmi", None>> \in Plain
    BY DEF Plain, Step, Do
  <2>3. \A p \in Plain : <<p>> \in Seq(Plain)  OBVIOUS
  <2>. QED  BY <2>1, <2>2, <2>3
<1>2. "hdmiState" \notin Captures  BY DEF WatchAssumption
<1>3. CASE ClearObserver("main")
  <2>1. Does("main", "clear", None, <<>>) /\ watched' \cap Captures = watched \cap Captures
    BY <1>2, <1>3 DEF ClearObserver
  <2>2. torn' = torn /\ UNCHANGED <<open, started, reset, events, unsent, suspend, at>>
    BY <1>3 DEF ClearObserver, capVars
  <2>. QED  BY <1>1, <2>1, <2>2, MainHdmi
<1>4. CASE WatchHdmi
  <2>1. Does("main", "watchHdmi", None, <<>>) /\ watched' \cap Captures = watched \cap Captures
    BY <1>2, <1>4 DEF WatchHdmi
  <2>2. torn' = torn /\ UNCHANGED <<open, started, reset, events, unsent, suspend, at>>
    BY <1>4 DEF WatchHdmi, capVars
  <2>. QED  BY <1>1, <2>1, <2>2, MainHdmi
<1>5. CASE HoldHdmiState(s)
  <2>1. PICK then \in Seq(Plain) : Does("main", "hold", s, then)
    BY <1>1, <1>5 DEF HoldHdmiState
  <2>2. torn' = torn /\ UNCHANGED <<open, started, reset, events, unsent, suspend, at, watched>>
    BY <1>5 DEF HoldHdmiState, capVars, listVars
  <2>. QED  BY <2>1, <2>2, MainHdmi
<1>6. CASE WriteHdmiState("main", s)
  <2>1. PICK then \in Seq(Plain) : Does("main", "write", s, then)
    BY <1>1, <1>6 DEF WriteHdmiState
  <2>2. torn' = torn /\ UNCHANGED <<open, started, reset, events, unsent, suspend, at, watched>>
    BY <1>6 DEF WriteHdmiState, capVars, listVars
  <2>. QED  BY <2>1, <2>2, MainHdmi
<1>7. CASE HdmiIsRunning(s)
  <2>1. <<<<"set", s>>>> \o (IF "hdmiState" \in watched THEN <<<<"clear", None>>>> ELSE <<>>)
          \in Seq(Plain)
    BY <1>1, ConcatType
  <2>2. PICK d \in {"wrote", "unwritten"} : \E then \in Seq(Plain) : Does("main", d, s, then)
    BY <1>1, <1>7, <2>1 DEF HdmiIsRunning
  <2>3. PICK then \in Seq(Plain) : Does("main", d, s, then)  BY <2>2
  <2>4. torn' = torn /\ UNCHANGED <<open, started, reset, events, unsent, suspend, at, watched>>
    BY <1>7 DEF HdmiIsRunning, capVars, listVars
  <2>5. d \notin {"suspend", "closeAll", "resume", "erase", "register"}  OBVIOUS
  <2>. QED  BY <2>3, <2>4, <2>5, MainHdmi
<1>8. CASE SetHdmiState("main", s)
  <2>1. Does("main", "set", s, <<>>)  BY <1>8 DEF SetHdmiState
  <2>2. torn' = torn /\ UNCHANGED <<open, started, reset, events, unsent, suspend, at, watched>>
    BY <1>8 DEF SetHdmiState, capVars, listVars
  <2>. QED  BY <1>1, <2>1, <2>2, MainHdmi
<1>. QED  BY <1>3, <1>4, <1>5, <1>6, <1>7, <1>8

\* Starting and stopping a capture and its observer leave every capture watched.
LEMMA StartStopStep ==
  ASSUME TypeOK, IndInv, NEW c \in Captures,
         \/ ControlCapture(c) \/ StartCapture(c) \/ StopCapture(c)
         \/ StartInterruptObserver(c) \/ StopInterruptObserver(c)
  PROVE  IndInv'
<1>1. /\ \A d \in {"start", "stop", "register"} : <<<<d, c>>>> \in Seq(Plain)
      /\ <<>> \in Seq(Plain) /\ <<>> \in Seq(Step)
  <2>1. ASSUME NEW d \in {"start", "stop", "register"}  PROVE <<d, c>> \in Plain
    BY DEF Plain, Step, Do
  <2>2. \A p \in Plain : <<p>> \in Seq(Plain)  OBVIOUS
  <2>. QED  BY <2>1, <2>2
<1>2. ~torn  BY DEF ControlCapture, StartCapture, StopCapture, StartInterruptObserver,
               StopInterruptObserver, Does
<1>3. started \subseteq open /\ started \subseteq Captures  BY <1>2 DEF IndInv, TypeOK
<1>0. \A B : ~Has(<<>>, B)  BY HasLiteral
<1>4. CASE ControlCapture(c)
  <2>1. PICK then \in Seq(Plain) : Does("main", "control", c, then)
    BY <1>1, <1>4 DEF ControlCapture
  <2>2. torn' = torn /\ UNCHANGED <<open, started, reset, events, unsent, suspend, at, watched>>
    BY <1>4 DEF ControlCapture, capVars, listVars
  <2>. QED  BY <2>1, <2>2, MainHdmi
<1>5. CASE StartCapture(c)
  <2>1. PICK then \in Seq(Plain) :
          /\ Does("main", "start", c, then)
          /\ \/ c \in open /\ started' = started \cup {c} /\ then = <<<<"register", c>>>>
             \/ started' = started
    BY <1>1, <1>5 DEF StartCapture
  <2>2. torn' = torn /\ UNCHANGED <<open, reset, events, unsent, suspend, at, watched>>
    BY <1>5 DEF StartCapture, listVars
  <2>3. started' \subseteq open  BY <1>3, <2>1
  <2>4. Has(<<<<"register", c>>>>, {<<"register", c>>})  BY DEF Has
  <2>5. \A k \in started' :
           \/ k \in watched' \/ Has(then, {<<"register", k>>})
           \/ (k \in started /\ k \notin watched /\ ("start" # "register" \/ c # k))
    BY <2>1, <2>2, <2>4
  <2>. QED  BY <2>1, <2>2, <2>3, <2>5, PlainSteps, MainOrdinary
<1>6. CASE StopCapture(c)
  <2>1. PICK then \in {<<>>, <<<<"unregister", c>>>>} :
          /\ Does("main", "stop", c, then)
          /\ \/ started' = started \ {c}
             \/ started' = started /\ then = <<>>
    BY <1>6 DEF StopCapture
  <2>2. torn' = torn /\ UNCHANGED <<open, reset, events, unsent, suspend, at, watched>>
    BY <1>6 DEF StopCapture, listVars
  <2>3. started' \subseteq open /\ started' \subseteq started  BY <1>3, <2>1
  <2>4. then \in Seq(Step)
    BY <1>1, <2>1, HandlerTypes DEF Step, Do
  <2>5. /\ ~Has(then, Opens) /\ ~Has(then, Resume) /\ ~Has(then, {<<"suspend", None>>})
        /\ then # <<>> => ~Has(Tail(then), Unregisters)
    <3>1. CASE then = <<>>  BY <3>1 DEF Has
    <3>2. CASE then = <<<<"unregister", c>>>>
      <4>1. Tail(then) = <<>>  BY <3>2
      <4>2. ~Has(Tail(then), Unregisters)  BY <4>1 DEF Has
      <4>3. DOMAIN then = {1} /\ then[1] = <<"unregister", c>>  BY <3>2
      <4>. QED  BY <4>2, <4>3 DEF Has, Opens, Resume
    <3>. QED  BY <2>1, <3>1, <3>2
  <2>6. ASSUME NEW k \in started'  PROVE ~Has(then, {<<"unregister", k>>})
    <3>1. CASE then = <<>>  BY <3>1 DEF Has
    <3>2. CASE then = <<<<"unregister", c>>>> /\ k # c
      <4>1. DOMAIN then = {1} /\ then[1] = <<"unregister", c>>  BY <3>2
      <4>. QED  BY <3>2, <4>1 DEF Has
    <3>. QED  BY <2>1, <2>6, <3>1, <3>2
  <2>7. \A k \in started' :
           \/ k \in watched' \/ Has(then, {<<"register", k>>})
           \/ (k \in started /\ k \notin watched /\ ("stop" # "register" \/ c # k))
    BY <2>2, <2>3
  <2>. QED  BY <2>1, <2>2, <2>3, <2>4, <2>5, <2>6, <2>7, MainOrdinary
<1>7. CASE StartInterruptObserver(c)
  <2>1. /\ Does("main", "register", c, <<>>)
        /\ UNCHANGED <<open, started, reset, events, unsent, suspend, at>>
        /\ watched' = watched \cup {c}
    BY <1>7 DEF StartInterruptObserver, capVars
  <2>2. PICK e : e = "register"  OBVIOUS
  <2>3. Does("main", e, c, <<>>) /\ e \notin {"resume", "erase", "closeAll"}
    BY <2>1, <2>2
  <2>4. \A k \in started' :
           \/ k \in watched' \/ Has(<<>>, {<<"register", k>>})
           \/ (k \in started /\ k \notin watched /\ (e # "register" \/ c # k))
    BY <2>1
  <2>5. started' \subseteq open  BY <1>3, <2>1
  <2>. QED  BY <1>0, <1>1, <2>1, <2>3, <2>4, <2>5, MainOrdinary
<1>8. CASE StopInterruptObserver(c)
  <2>1. /\ Does("main", "unregister", c, <<>>)
        /\ torn' = torn /\ UNCHANGED <<open, started, reset, events, unsent, suspend, at>>
        /\ watched' = watched \ {c}
    BY <1>8 DEF StopInterruptObserver, capVars
  <2>2. c \notin started
    <3>1. todo["main"] \in Seq(Step) /\ todo["main"] # <<>>
          /\ Head(todo["main"]) = <<"unregister", c>>
      BY <2>1 DEF TypeOK, Thread, Does, At, Busy
    <3>2. Has(todo["main"], {<<"unregister", c>>})  BY <3>1, HasTail
    <3>. QED  BY <1>2, <3>2 DEF IndInv, MainOK
  <2>3. \A k \in started' :
           \/ k \in watched' \/ Has(<<>>, {<<"register", k>>})
           \/ (k \in started /\ k \notin watched /\ ("unregister" # "register" \/ c # k))
    BY <2>1, <2>2
  <2>4. started' \subseteq open  BY <1>3, <2>1
  <2>. QED  BY <1>0, <1>1, <2>1, <2>3, <2>4, MainOrdinary
<1>. QED  BY <1>4, <1>5, <1>6, <1>7, <1>8

\* A capture is opened between suspends only, and is not started yet.
LEMMA OpenStep ==
  ASSUME TypeOK, IndInv, NEW c \in Captures, OpenEntry(c)
  PROVE  IndInv'
<1>1. /\ Does("main", "open", c, <<>>) /\ open \subseteq open'
      /\ UNCHANGED <<started, reset, events, unsent, suspend, at, watched>>
  BY DEF OpenEntry, listVars
<1>2. ~torn  BY <1>1 DEF Does
<1>3. ~Has(todo["main"], Resume)
  <2>1. todo["main"] \in Seq(Step) /\ todo["main"] # <<>>
        /\ Head(todo["main"]) = <<"open", c>>
    BY <1>1 DEF TypeOK, Thread, Does, At, Busy
  <2>2. Head(todo["main"]) \in Opens
    <3>1. <<"open", c>> \in Opens  BY DEF Opens
    <3>. QED  BY <2>1, <3>1
  <2>3. Has(todo["main"], Opens)  BY <2>1, <2>2, HasTail
  <2>. QED  BY <1>2, <2>3 DEF IndInv, MainOK
<1>4. started' \subseteq open  BY <1>1, <1>2 DEF IndInv
<1>5. \A k \in started' :
           \/ k \in watched' \/ Has(<<>>, {<<"register", k>>})
           \/ (k \in started /\ k \notin watched /\ ("open" # "register" \/ c # k))
  BY <1>1
<1>6. \A B : ~Has(<<>>, B)  BY HasLiteral
<1>7. <<>> \in Seq(Step)  OBVIOUS
<1>. QED  BY <1>1, <1>3, <1>4, <1>5, <1>6, <1>7, MainOrdinary

\* A suspend closes every capture before it drops the events.
LEMMA SuspendCase ==
  ASSUME TypeOK, IndInv, SuspendStep
  PROVE  IndInv'
<1>1. UNCHANGED <<open, started, reset, at, watched, torn, unsent>>
  BY DEF SuspendStep, capVars, listVars
<1>2. <<>> \in Seq(Step) /\ \A B : ~Has(<<>>, B)
  <2>1. <<>> \in Seq(Step)  OBVIOUS
  <2>. QED  BY <2>1, HasLiteral
<1>3. CASE Does("main", "suspend", None, <<>>) /\ suspend' = TRUE /\ UNCHANGED events
  <2>1. ~torn  BY <1>3 DEF Does
  <2>2. started' \subseteq open  BY <1>1, <2>1 DEF IndInv
  <2>3. \A k \in started' :
           \/ k \in watched' \/ Has(<<>>, {<<"register", k>>})
           \/ (k \in started /\ k \notin watched /\ ("suspend" # "register" \/ None # k))
    BY <1>1
  <2>. QED  BY <1>1, <1>2, <1>3, <2>2, <2>3, MainOrdinary
<1>4. ASSUME NEW c \in open, UNCHANGED <<suspend, events>>,
             Does("main", "closeAll", None, CloseCapture(c) \o <<<<"closeAll", None>>>>)
      PROVE  IndInv'
  <2>1. ~torn /\ c \in Captures  BY <1>4 DEF Does, TypeOK
  <2>2. started' \subseteq open  BY <1>1, <2>1 DEF IndInv
  <2>3. /\ CloseCapture(c) \in Seq(Plain) /\ <<<<"closeAll", None>>>> \in Seq(Plain)
    <3>1. <<"stop", c>> \in Plain /\ <<"erase", c>> \in Plain /\ <<"closeAll", None>> \in Plain
      BY <2>1 DEF Plain, Step, Do
    <3>. QED  BY <3>1 DEF CloseCapture
  <2>4. PICK then \in Seq(Plain) : /\ then = CloseCapture(c) \o <<<<"closeAll", None>>>>
                                   /\ Has(then, CloseAll)
    <3>1. Has(<<<<"closeAll", None>>>>, CloseAll)  BY DEF Has, CloseAll
    <3>2. CloseCapture(c) \o <<<<"closeAll", None>>>> \in Seq(Plain)  BY <2>3, ConcatType
    <3>3. Has(CloseCapture(c) \o <<<<"closeAll", None>>>>, CloseAll)
      BY <2>3, <3>1, HasConcat
    <3>. QED  BY <3>2, <3>3
  <2>5. PICK e : e = "closeAll"  OBVIOUS
  <2>6. \A k \in started' :
           \/ k \in watched' \/ Has(then, {<<"register", k>>})
           \/ (k \in started /\ k \notin watched /\ (e # "register" \/ None # k))
    BY <1>1, <2>5
  <2>7. Does("main", e, None, then) /\ e \notin {"resume", "erase"}  BY <1>4, <2>4, <2>5
  <2>8. suspend' => suspend  BY <1>4
  <2>9. UNCHANGED events  BY <1>4
  <2>. QED  BY <1>1, <2>2, <2>4, <2>6, <2>7, <2>8, <2>9, PlainSteps, MainOrdinary
<1>5. ASSUME NEW d \in {"closeAll", "resume"}, Does("main", d, None, <<>>),
             d = "closeAll" => open = {} /\ UNCHANGED suspend,
             d = "resume" => suspend' = FALSE
      PROVE  IndInv'
  <2>1. "main" \in Thread /\ "lib" \in Thread \ {"main"} /\ "obs" \in Thread \ {"main"}
    BY DEF Thread
  <2>2. /\ ~torn /\ todo["main"] \in Seq(Step) /\ todo["main"] # <<>>
        /\ Head(todo["main"]) = <<d, None>>
        /\ todo'["main"] = Tail(todo["main"]) /\ todo'["main"] = <<>> \o Tail(todo["main"])
        /\ todo'["lib"] = todo["lib"] /\ todo'["obs"] = todo["obs"]
    <3>1. PICK then \in Seq(Step) : then = <<>> /\ Does("main", d, None, then)
      BY <1>2, <1>5
    <3>2. /\ ~torn /\ todo["main"] \in Seq(Step) /\ todo["main"] # <<>>
          /\ Head(todo["main"]) = <<d, None>>
          /\ todo'["main"] = then \o Tail(todo["main"])
          /\ then = <<>> => todo'["main"] = Tail(todo["main"])
          /\ \A u \in Thread \ {"main"} : todo'[u] = todo[u]
      <4>1. Does("main", d, None, then)  BY <3>1
      <4>. QED  BY <2>1, <4>1, DoesFacts
    <3>. QED  BY <2>1, <3>1, <3>2
  <2>3. MainOK(todo["main"])'
    <3>1. started' \subseteq Captures /\ open' = open  BY <1>1 DEF TypeOK
    <3>2. suspend' => d # "resume" /\ (suspend \/ <<d, None>> = <<"suspend", None>>)
      BY <1>5
    <3>3. d = "closeAll" => Has(<<>>, CloseAll) \/ open' = {}  BY <1>5, <3>1
    <3>4. MainOK(todo["main"])  BY <2>2 DEF IndInv
    <3>. QED  BY <1>2, <2>2, <3>1, <3>2, <3>3, <3>4, MainAdvances
  <2>4. LibOK' /\ ObsOK'  BY <1>1, <2>2, LibKept, ObsKept DEF IndInv
  <2>5. open = {} \/ Has(todo'["main"], CloseAll)
    <3>1. CASE d = "closeAll"  BY <1>5, <3>1
    <3>2. CASE d = "resume"
      <4>1. Has(todo["main"], Resume)  BY <2>2, <3>2, HasTail DEF Resume
      <4>2. open = {} \/ Has(todo["main"], CloseAll)  BY <2>2, <4>1 DEF IndInv, MainOK
      <4>3. Head(todo["main"]) \notin CloseAll  BY <2>2, <3>2 DEF CloseAll
      <4>. QED  BY <2>2, <4>2, <4>3, HasTail
    <3>. QED  BY <3>1, <3>2
  <2>6. open = {} \/ \A c : ResetOnItsWay(c)'
    BY <2>5 DEF ResetOnItsWay, Pending, CloseAll
  <2>7. started' \subseteq open /\ reset' \subseteq open /\ open' = open
    BY <1>1, <2>2 DEF IndInv
  <2>8. StartedIsWatched'  BY <2>6, <2>7 DEF StartedIsWatched
  <2>. QED  BY <2>3, <2>4, <2>7, <2>8 DEF IndInv
<1>. QED  BY <1>3, <1>4, <1>5 DEF SuspendStep

\* Closing a capture ends its watch, and takes nothing from another capture:
\* the callback and the observer thread hold no entry of the closed one, or
\* the freed entry is used.
LEMMA EraseStep ==
  ASSUME TypeOK, IndInv, NEW c \in Captures, EraseEntry(c)
  PROVE  IndInv'
<1>. SUFFICES ASSUME ~torn'  PROVE IndInv'
  BY DEF IndInv
<1>1. /\ ~torn /\ todo["main"] # <<>> /\ Head(todo["main"]) = <<"erase", c>>
      /\ open' = open \ {c} /\ started' = started \ {c} /\ reset' = reset \ {c}
      /\ watched' = watched \ {c} /\ unsent' = unsent \ {c}
      /\ UNCHANGED <<events, suspend, at>>
      /\ \A t \in Thread : at[t] # c
  BY DEF EraseEntry, At, Busy
<1>2. /\ todo["main"] \in Seq(Step) /\ Tail(todo["main"]) \in Seq(Step)
      /\ todo'["main"] = Tail(todo["main"])
      /\ todo'["lib"] = (IF Busy("lib") /\ Head(todo["lib"])[2] = c THEN <<>> ELSE todo["lib"])
      /\ todo'["obs"] = todo["obs"]
  <2>1. todo["main"] \in Seq(Step) /\ todo \in [Thread -> Seq(Step)]
        /\ "main" \in Thread /\ "lib" \in Thread /\ "obs" \in Thread
    BY DEF TypeOK, Thread
  <2>2. Tail(todo["main"]) \in Seq(Step)  BY <1>1, <2>1, TailType
  <2>. QED  BY <2>1, <2>2 DEF EraseEntry
<1>3. at["lib"] # c /\ at["obs"] # c  BY <1>1 DEF Thread
<1>4. /\ started \subseteq open /\ reset \subseteq open /\ MainOK(todo["main"])
      /\ LibOK /\ ObsOK /\ StartedIsWatched /\ open \subseteq Captures
  BY <1>1 DEF IndInv, TypeOK
<1>5. MainOK(todo["main"])'
  <2>1. <<>> \in Seq(Step)  OBVIOUS
  <2>2. \A B : ~Has(<<>>, B)  BY HasLiteral
  <2>3. todo'["main"] = <<>> \o Tail(todo["main"])  BY <1>2, ConcatEmptySeq
  <2>4. started' \subseteq Captures /\ open' \subseteq open  BY <1>1, <1>4
  <2>5. suspend' => suspend  BY <1>1
  <2>. QED  BY <1>1, <1>4, <2>1, <2>2, <2>3, <2>4, <2>5, MainAdvances
<1>6. LibOK' /\ (\A k : k # c /\ Has(todo["lib"], {<<"post", k>>})
                          => Has(todo'["lib"], {<<"post", k>>}))
  <2>1. CASE at["lib"] = None /\ (todo["lib"] = <<>> \/ \E k \in Captures : LibIdle(k))
    <3>1. todo'["lib"] \in {<<>>, todo["lib"]}  BY <1>2
    <3>2. LibOK'  BY <1>1, <2>1, <3>1 DEF LibOK, LibIdle, Searches
    <3>3. ASSUME NEW k  PROVE ~Has(todo["lib"], {<<"post", k>>})
      <4>1. CASE todo["lib"] = <<>>  BY <4>1, HasLiteral
      <4>2. ASSUME NEW j \in Captures, LibIdle(j)  PROVE ~Has(todo["lib"], {<<"post", k>>})
        BY <4>2 DEF LibIdle, Searches, FrameEvent, ErrorEvent, Has
      <4>. QED  BY <2>1, <4>1, <4>2
    <3>. QED  BY <3>2, <3>3
  <2>2. CASE at["lib"] \in open /\ LibHolds(at["lib"])
    <3>1. todo["lib"] # <<>> /\ \E d : Head(todo["lib"]) = <<d, at["lib"]>>
      BY <2>2, Literals DEF LibHolds, Uses
    <3>2. todo'["lib"] = todo["lib"]  BY <1>2, <1>3, <3>1
    <3>3. LibOK'  BY <1>1, <1>3, <1>4, <2>2, <3>2, LibKept
    <3>. QED  BY <3>2, <3>3
  <2>. QED  BY <1>4, <2>1, <2>2 DEF LibOK
<1>7. ObsOK'
  BY <1>1, <1>2, <1>3, <1>4, ObsKept
<1>8. ASSUME NEW k, k # c, ResetOnItsWay(k)  PROVE ResetOnItsWay(k)'
  <2>1. /\ Has(todo["main"], {<<"erase", k>>}) => Has(todo'["main"], {<<"erase", k>>})
        /\ Has(todo["main"], {<<"closeAll", None>>})
             => Has(todo'["main"], {<<"closeAll", None>>})
    <3>1. <<"erase", c>> \notin {<<"erase", k>>}  BY <1>8
    <3>2. <<"erase", c>> \notin {<<"closeAll", None>>}  OBVIOUS
    <3>. QED  BY <1>1, <1>2, <3>1, <3>2, HasTail
  <2>. QED  BY <1>1, <1>2, <1>6, <1>8, <2>1 DEF ResetOnItsWay, Pending
<1>9. ASSUME NEW k \in started'
      PROVE  k \in watched' \/ Pending("main", <<"register", k>>)' \/ ResetOnItsWay(k)'
  <2>1. k # c /\ k \in started  BY <1>1
  <2>2. Has(todo["main"], {<<"register", k>>}) => Has(todo'["main"], {<<"register", k>>})
    <3>1. <<"erase", c>> \notin {<<"register", k>>}  OBVIOUS
    <3>. QED  BY <1>1, <1>2, <3>1, HasTail
  <2>3. k \in watched \/ Has(todo["main"], {<<"register", k>>}) \/ ResetOnItsWay(k)
    BY <1>1, <1>4, <2>1 DEF StartedIsWatched, Pending
  <2>. QED  BY <1>1, <1>8, <2>1, <2>2, <2>3 DEF Pending
<1>10. \A k \in reset' : ResetOnItsWay(k)'
  BY <1>1, <1>4, <1>8 DEF StartedIsWatched
<1>11. StartedIsWatched'  BY <1>9, <1>10 DEF StartedIsWatched
<1>12. started' \subseteq open' /\ reset' \subseteq open'  BY <1>1, <1>4
<1>. QED  BY <1>5, <1>6, <1>7, <1>11, <1>12 DEF IndInv

-----------------------------------------------------------------------------
(* What the event loop begins                                              *)

\* A handler begins when the main thread has nothing to do, so no promise of
\* its last handler is lost.
LEMMA LoopBegins ==
  ASSUME TypeOK, IndInv, NEW steps \in Seq(Step), Begins(steps),
         ~Has(steps, Unregisters),
         \/ ~Has(steps, {<<"suspend", None>>}) /\ ~Has(steps, Resume)
         \/ steps = <<<<"suspend", None>>, <<"closeAll", None>>, <<"resume", None>>>>,
         UNCHANGED <<open, started, reset, watched, suspend, at, unsent>>,
         \A c : (\E i \in DOMAIN events : events[i] = c)
                  => \/ \E i \in DOMAIN events' : events'[i] = c
                     \/ Has(steps, {<<"erase", c>>})
  PROVE  IndInv'
<1>1. "main" \in Thread /\ "lib" \in Thread \ {"main"} /\ "obs" \in Thread \ {"main"}
  BY DEF Thread
<1>2. /\ ~torn /\ todo["main"] = <<>> /\ todo'["main"] = steps
      /\ todo'["lib"] = todo["lib"] /\ todo'["obs"] = todo["obs"]
  BY <1>1 DEF Begins, Busy, TypeOK
<1>3. /\ started \subseteq open /\ reset \subseteq open /\ MainOK(todo["main"])
      /\ LibOK /\ ObsOK /\ StartedIsWatched /\ started \subseteq Captures
  BY <1>2 DEF IndInv, TypeOK
<1>4. MainOK(todo["main"])'
  <2>1. started' \subseteq Captures /\ suspend' = suspend  BY <1>3
  <2>. QED  BY <1>2, <1>3, <2>1, MainBegins
<1>5. LibOK' /\ ObsOK'  BY <1>2, <1>3, LibKept, ObsKept
<1>6. ASSUME NEW c  PROVE ~Has(todo["main"], {c})
  BY <1>2 DEF Has
<1>7. ASSUME NEW c, ResetOnItsWay(c)  PROVE ResetOnItsWay(c)'
  <2>1. \/ \E i \in DOMAIN events : events[i] = c
        \/ \E t \in {"lib", "obs"} : Pending(t, <<"post", c>>)
        \/ c \in unsent
    BY <1>6, <1>7 DEF ResetOnItsWay, Pending
  <2>2. CASE \E i \in DOMAIN events : events[i] = c
    BY <1>2, <2>2 DEF ResetOnItsWay, Pending
  <2>3. CASE \E t \in {"lib", "obs"} : Pending(t, <<"post", c>>)
    BY <1>2, <2>3 DEF ResetOnItsWay, Pending
  <2>4. CASE c \in unsent  BY <2>4 DEF ResetOnItsWay
  <2>. QED  BY <2>1, <2>2, <2>3, <2>4
<1>8. StartedIsWatched'
  BY <1>2, <1>3, <1>6, <1>7 DEF StartedIsWatched, Pending
<1>. QED  BY <1>3, <1>4, <1>5, <1>8 DEF IndInv

\* What is among the steps of closing and opening a capture.
LEMMA CloseOpenSteps ==
  ASSUME NEW c \in Captures,
         NEW s \in {CloseCapture(c), OpenCapture(c), CloseCapture(c) \o OpenCapture(c)}
  PROVE  /\ s \in Seq(Step) /\ ~Has(s, Unregisters)
         /\ ~Has(s, {<<"suspend", None>>}) /\ ~Has(s, Resume)
         /\ s = CloseCapture(c) \o OpenCapture(c) => Has(s, {<<"erase", c>>})
<1>. DEFINE a == CloseCapture(c)
            b == OpenCapture(c)
<1>1. a \in Seq(Step) /\ b \in Seq(Step)  BY HandlerTypes
<1>2. a \o b \in Seq(Step)  BY <1>1, ConcatType
<1>3. \A B : Has(a \o b, B) <=> Has(a, B) \/ Has(b, B)  BY <1>1, HasConcat
<1>4. /\ \A B : Has(a, B) <=> <<"stop", c>> \in B \/ <<"erase", c>> \in B
      /\ \A B : Has(b, B) <=> <<"open", c>> \in B \/ <<"control", c>> \in B
  BY HasLiteral DEF CloseCapture, OpenCapture
<1>5. /\ ~Has(a, Unregisters) /\ ~Has(b, Unregisters)
      /\ ~Has(a, {<<"suspend", None>>}) /\ ~Has(b, {<<"suspend", None>>})
      /\ ~Has(a, Resume) /\ ~Has(b, Resume)
      /\ Has(a, {<<"erase", c>>})
  BY <1>4 DEF Unregisters, Resume
<1>. HIDE DEF a, b
<1>6. s \in {a, b, a \o b}  BY DEF a, b
<1>7. s \in Seq(Step) /\ ~Has(s, Unregisters)
      /\ ~Has(s, {<<"suspend", None>>}) /\ ~Has(s, Resume)
  BY <1>1, <1>2, <1>3, <1>5, <1>6
<1>8. s = a \o b => Has(s, {<<"erase", c>>})  BY <1>3, <1>5
<1>. QED  BY <1>7, <1>8 DEF a, b

\* Every handler of the event loop leaves every capture watched.
LEMMA LoopStep ==
  ASSUME TypeOK, IndInv, NEW c \in Captures, NEW s \in HdmiStates \cup {None},
         \/ ActionCameraControl(c) \/ OpenOrClose(c) \/ ResetCapture
         \/ ChgConnInfoHdmi(s) \/ StrStateEvent
  PROVE  IndInv'
<1>1. ASSUME NEW d \in {"control", "hold"}, NEW x \in Captures \cup HdmiStates \cup {None}
      PROVE  /\ <<<<d, x>>>> \in Seq(Step) /\ ~Has(<<<<d, x>>>>, Unregisters)
             /\ ~Has(<<<<d, x>>>>, {<<"suspend", None>>}) /\ ~Has(<<<<d, x>>>>, Resume)
  <2>1. <<d, x>> \in Step  BY DEF Step, Do
  <2>2. \A B : Has(<<<<d, x>>>>, B) <=> <<d, x>> \in B  BY HasLiteral
  <2>3. <<d, x>> \notin Unregisters /\ <<d, x>> \notin {<<"suspend", None>>}
        /\ <<d, x>> \notin Resume
    BY DEF Unregisters, Resume
  <2>4. <<<<d, x>>>> \in Seq(Step)  BY <2>1, HandlerTypes
  <2>. QED  BY <2>2, <2>3, <2>4
<1>2. CASE ActionCameraControl(c)
  <2>1. Begins(<<<<"control", c>>>>)
        /\ UNCHANGED <<open, started, reset, watched, suspend, at, events, unsent>>
    BY <1>2 DEF ActionCameraControl, capVars, listVars
  <2>. QED  BY <1>1, <2>1, LoopBegins
<1>3. CASE ChgConnInfoHdmi(s)
  <2>1. Begins(<<<<"hold", s>>>>)
        /\ UNCHANGED <<open, started, reset, watched, suspend, at, events, unsent>>
    BY <1>3 DEF ChgConnInfoHdmi, capVars, listVars
  <2>. QED  BY <1>1, <2>1, LoopBegins
<1>4. CASE OpenOrClose(c)
  <2>1. PICK a \in {CloseCapture(c), OpenCapture(c), CloseCapture(c) \o OpenCapture(c)} :
          Begins(a)
    BY <1>4 DEF OpenOrClose
  <2>2. UNCHANGED <<open, started, reset, watched, suspend, at, events, unsent>>
    BY <1>4 DEF OpenOrClose, capVars, listVars
  <2>3. /\ a \in Seq(Step) /\ ~Has(a, Unregisters)
        /\ ~Has(a, {<<"suspend", None>>}) /\ ~Has(a, Resume)
    BY CloseOpenSteps
  <2>. QED  BY <2>1, <2>2, <2>3, LoopBegins
<1>5. CASE ResetCapture
  <2>. DEFINE k == Head(events)
              a == CloseCapture(k) \o OpenCapture(k)
  <2>1. events \in Seq(Captures) /\ events # <<>> /\ k \in Captures
    BY <1>5, TailType DEF ResetCapture, TypeOK
  <2>2. Begins(a) /\ events' = Tail(events)
        /\ UNCHANGED <<open, started, reset, watched, suspend, at, unsent>>
    BY <1>5 DEF ResetCapture, capVars, listVars
  <2>3. /\ a \in Seq(Step) /\ ~Has(a, Unregisters)
        /\ ~Has(a, {<<"suspend", None>>}) /\ ~Has(a, Resume) /\ Has(a, {<<"erase", k>>})
    BY <2>1, CloseOpenSteps
  <2>4. ASSUME NEW j, \E i \in DOMAIN events : events[i] = j
        PROVE  (\E i \in DOMAIN events' : events'[i] = j) \/ Has(a, {<<"erase", j>>})
    <3>1. Has(events, {j})  BY <2>4 DEF Has
    <3>2. k = j \/ Has(Tail(events), {j})  BY <2>1, <3>1, HasTail
    <3>. QED  BY <2>2, <2>3, <3>2 DEF Has
  <2>. HIDE DEF a
  <2>. QED  BY <2>2, <2>3, <2>4, LoopBegins
<1>6. CASE StrStateEvent
  <2>. DEFINE a == <<<<"suspend", None>>, <<"closeAll", None>>, <<"resume", None>>>>
  <2>1. Begins(a) /\ UNCHANGED <<open, started, reset, watched, suspend, at, events, unsent>>
    BY <1>6 DEF StrStateEvent, capVars, listVars
  <2>2. a \in Seq(Step)
    <3>1. <<"suspend", None>> \in Step /\ <<"closeAll", None>> \in Step
          /\ <<"resume", None>> \in Step
      BY DEF Step, Do
    <3>. QED  BY <3>1
  <2>3. ~Has(a, Unregisters)
    <3>1. \A B : Has(a, B) <=> \/ <<"suspend", None>> \in B \/ <<"closeAll", None>> \in B
                               \/ <<"resume", None>> \in B
      BY HasLiteral
    <3>. QED  BY <3>1 DEF Unregisters
  <2>4. a = <<<<"suspend", None>>, <<"closeAll", None>>, <<"resume", None>>>>  OBVIOUS
  <2>. HIDE DEF a
  <2>. QED  BY <2>1, <2>2, <2>3, <2>4, LoopBegins
<1>. QED  BY <1>2, <1>3, <1>4, <1>5, <1>6

-----------------------------------------------------------------------------
(* Steps of the callback and of the observer thread                        *)

\* A step of one of the two threads: a reset stays on its way, and a capture
\* leaves the list only when its reset is on its way.
LEMMA ThreadKeeps ==
  ASSUME TypeOK, IndInv, ~torn, NEW t \in {"lib", "obs"},
         \A u \in Thread \ {t} : todo'[u] = todo[u],
         UNCHANGED <<open, started, suspend>>, LibOK', ObsOK',
         reset \subseteq reset', reset' \subseteq open, unsent \subseteq unsent',
         \A c : (\E i \in DOMAIN events : events[i] = c)
                  => \E i \in DOMAIN events' : events'[i] = c,
         \A c : Has(todo[t], {<<"post", c>>})
                  => Has(todo'[t], {<<"post", c>>}) \/ ResetOnItsWay(c)',
         \A c \in reset' \ reset : ResetOnItsWay(c)',
         \A c \in started : c \in watched => c \in watched' \/ c \in reset
  PROVE  IndInv'
<1>1. /\ started \subseteq open /\ reset \subseteq open /\ MainOK(todo["main"])
      /\ StartedIsWatched
  BY DEF IndInv
<1>2. todo'["main"] = todo["main"]  BY DEF Thread
<1>3. MainOK(todo["main"])'
  BY <1>1, <1>2 DEF MainOK, Resume, Opens, CloseAll, Unregisters
<1>4. ASSUME NEW c, ResetOnItsWay(c)  PROVE ResetOnItsWay(c)'
  <2>1. CASE \E i \in DOMAIN events : events[i] = c
    BY <2>1 DEF ResetOnItsWay, Pending
  <2>2. CASE Pending("main", <<"erase", c>>) \/ Pending("main", <<"closeAll", None>>)
    BY <1>2, <2>2 DEF ResetOnItsWay, Pending
  <2>3. ASSUME NEW u \in {"lib", "obs"}, Pending(u, <<"post", c>>)
        PROVE  ResetOnItsWay(c)'
    <3>1. u \in Thread  BY DEF Thread
    <3>2. CASE u = t  BY <2>3, <3>2 DEF ResetOnItsWay, Pending
    <3>3. CASE u # t
      <4>1. todo'[u] = todo[u]  BY <3>1, <3>3
      <4>. QED  BY <2>3, <4>1 DEF ResetOnItsWay, Pending
    <3>. QED  BY <3>2, <3>3
  <2>4. CASE c \in unsent  BY <2>4 DEF ResetOnItsWay
  <2>. QED  BY <1>4, <2>1, <2>2, <2>3, <2>4 DEF ResetOnItsWay
<1>5. ASSUME NEW c \in reset'  PROVE ResetOnItsWay(c)'
  BY <1>1, <1>4, <1>5 DEF StartedIsWatched
<1>6. ASSUME NEW c \in started
      PROVE  c \in watched' \/ Pending("main", <<"register", c>>)' \/ ResetOnItsWay(c)'
  <2>1. c \in watched \/ Pending("main", <<"register", c>>) \/ ResetOnItsWay(c)
    BY <1>1 DEF StartedIsWatched
  <2>2. CASE c \in watched  BY <1>5, <2>2
  <2>3. CASE Pending("main", <<"register", c>>)  BY <1>2, <2>3 DEF Pending
  <2>4. CASE ResetOnItsWay(c)  BY <1>4, <2>4
  <2>. QED  BY <2>1, <2>2, <2>3, <2>4
<1>7. StartedIsWatched'  BY <1>5, <1>6 DEF StartedIsWatched
<1>. QED  BY <1>1, <1>3, <1>7 DEF IndInv

\* A step after which nothing is to be posted that was before, and that leaves
\* events, flags and the list of captures alone.
LEMMA ThreadQuiet ==
  ASSUME TypeOK, IndInv, ~torn, NEW t \in {"lib", "obs"},
         \A u \in Thread \ {t} : todo'[u] = todo[u],
         \A c : ~Has(todo[t], {<<"post", c>>}),
         UNCHANGED <<open, started, suspend, reset, events, unsent>>,
         watched' \cap Captures = watched \cap Captures,
         LibOK', ObsOK'
  PROVE  IndInv'
<1>1. started \subseteq Captures /\ reset \subseteq open  BY DEF TypeOK, IndInv
<1>2. \A c \in started : c \in watched => c \in watched' \/ c \in reset  BY <1>1
<1>3. reset \subseteq reset' /\ reset' \subseteq open /\ reset' \ reset = {}  BY <1>1
<1>. QED  BY <1>2, <1>3, ThreadKeeps

\* Posting: the event is in the event route, or it could not be written, or
\* VideoHAL is suspended and closes the capture before it resumes.
LEMMA PostStep ==
  ASSUME TypeOK, IndInv, NEW t \in {"lib", "obs"}, NEW c \in open,
         NotifyCaptureResetEvent(t, c), LibOK', ObsOK',
         \A k : k # c => ~Has(todo[t], {<<"post", k>>})
  PROVE  IndInv'
<1>1. /\ Does(t, "post", c, <<>>)
      /\ UNCHANGED <<open, started, suspend, reset, watched>>
      /\ \/ events' = (IF suspend THEN events ELSE Append(events, c)) /\ unsent' = unsent
         \/ events' = events /\ unsent' = unsent \cup {c}
  BY DEF NotifyCaptureResetEvent, capVars, listVars
<1>2. /\ ~torn /\ \A u \in Thread \ {t} : todo'[u] = todo[u]
  <2>1. t \in Thread  BY DEF Thread
  <2>2. <<>> \in Seq(Step)  OBVIOUS
  <2>. QED  BY <1>1, <2>1, <2>2, DoesFacts
<1>3. todo'["main"] = todo["main"]  BY <1>2 DEF Thread
<1>4. /\ \A k : (\E i \in DOMAIN events : events[i] = k)
                  => \E i \in DOMAIN events' : events'[i] = k
      /\ ~suspend => c \in unsent' \/ \E i \in DOMAIN events' : events'[i] = c
  <2>1. CASE events' = events /\ (suspend \/ unsent' = unsent \cup {c})  BY <2>1
  <2>2. CASE ~suspend /\ events' = Append(events, c)
    <3>1. events' = Append(events, c) /\ events \in Seq(Captures) /\ c \in Captures
      BY <2>2 DEF TypeOK
    <3>2. /\ DOMAIN events' = 1..(Len(events) + 1) /\ DOMAIN events = 1..Len(events)
          /\ Len(events) \in Nat /\ events'[Len(events) + 1] = c
          /\ \A i \in 1..Len(events) : events'[i] = events[i]
      BY <3>1
    <3>3. Len(events) + 1 \in DOMAIN events' /\ \A i \in DOMAIN events : i \in DOMAIN events'
      BY <3>2
    <3>. QED  BY <3>2, <3>3
  <2>. QED  BY <1>1, <2>1, <2>2
<1>5. ResetOnItsWay(c)'
  <2>1. CASE ~suspend  BY <1>4, <2>1 DEF ResetOnItsWay
  <2>2. CASE suspend
    <3>1. Has(todo["main"], CloseAll)  BY <1>2, <2>2 DEF IndInv, MainOK
    <3>. QED  BY <1>3, <3>1 DEF ResetOnItsWay, Pending, CloseAll
  <2>. QED  BY <2>1, <2>2
<1>6. \A k : Has(todo[t], {<<"post", k>>})
               => Has(todo'[t], {<<"post", k>>}) \/ ResetOnItsWay(k)'
  BY <1>5
<1>7. reset' = reset /\ reset \subseteq open /\ unsent \subseteq unsent'
  BY <1>1, <1>2 DEF IndInv
<1>. QED  BY <1>1, <1>2, <1>4, <1>6, <1>7, ThreadKeeps

\* What among the remaining steps of the callback and the observer posts a reset.
LEMMA Posts ==
  ASSUME NEW c, NEW s, NEW k
  PROVE  /\ s \in Searches(c) \cup Uses(c)
               \cup {<<<<"error", c>>>>, <<<<"check", c>>>>, <<<<"find", c>>, <<"check", c>>>>,
                     <<<<"end", c>>>>, <<>>}
             => ~Has(s, {<<"post", k>>})
         /\ s \in {<<<<"flag", c>>, <<"post", c>>>>, <<<<"flag", c>>, <<"post", c>>, <<"end", c>>>>,
                   <<<<"post", c>>>>, <<<<"post", c>>, <<"end", c>>>>}
             => (Has(s, {<<"post", k>>}) <=> k = c)
<1>1. s \in Searches(c) \cup Uses(c)
               \cup {<<<<"error", c>>>>, <<<<"check", c>>>>, <<<<"find", c>>, <<"check", c>>>>,
                     <<<<"end", c>>>>, <<>>}
             => ~Has(s, {<<"post", k>>})
  BY DEF Searches, Uses, FrameEvent, ErrorEvent, Has
<1>2. \A b : <<"flag", c>> \notin {<<"post", b>>} /\ <<"end", c>> \notin {<<"post", b>>}
             /\ (<<"post", c>> \in {<<"post", b>>} <=> b = c)
  OBVIOUS
<1>3. ASSUME s = <<<<"flag", c>>, <<"post", c>>>>  PROVE Has(s, {<<"post", k>>}) <=> k = c
  BY <1>2, <1>3, HasLiteral
<1>4. ASSUME s = <<<<"flag", c>>, <<"post", c>>, <<"end", c>>>>
      PROVE  Has(s, {<<"post", k>>}) <=> k = c
  BY <1>2, <1>4, HasLiteral
<1>5. ASSUME s = <<<<"post", c>>>>  PROVE Has(s, {<<"post", k>>}) <=> k = c
  BY <1>2, <1>5, HasLiteral
<1>6. ASSUME s = <<<<"post", c>>, <<"end", c>>>>  PROVE Has(s, {<<"post", k>>}) <=> k = c
  BY <1>2, <1>6, HasLiteral
<1>. QED  BY <1>1, <1>3, <1>4, <1>5, <1>6

\* What the callback has left after a step.
LEMMA LibTails ==
  ASSUME NEW c, NEW s
  PROVE  /\ s \in Searches(c) => /\ Tail(s) \in Uses(c) \cup {<<<<"error", c>>>>}
                                 /\ Tail(Tail(s)) \in Searches(c) \cup {<<>>}
         /\ s \in Uses(c) => Tail(s) \in Searches(c) \cup {<<>>}
<1>. DEFINE submit == <<<<"submit", c>>>>
            error  == <<<<"error", c>>>>
            last   == <<<<"find", c>>, <<"submit", c>>>>
            check  == <<<<"find", c>>, <<"error", c>>>>
            notify == <<<<"notify", c>>, <<"find", c>>, <<"submit", c>>>>
            middle == <<<<"find", c>>, <<"notify", c>>, <<"find", c>>, <<"submit", c>>>>
            frame  == <<<<"beat", c>>, <<"find", c>>, <<"notify", c>>, <<"find", c>>,
                        <<"submit", c>>>>
            beats  == <<<<"beat", c>>, <<"find", c>>, <<"error", c>>>>
<1>1. /\ Tail(FrameEvent(c)) = frame /\ Tail(frame) = middle
      /\ Tail(middle) = notify /\ Tail(notify) = last
      /\ Tail(last) = submit /\ Tail(submit) = <<>>
  BY Literals DEF FrameEvent
<1>2. /\ Tail(ErrorEvent(c)) = beats /\ Tail(beats) = check
      /\ Tail(check) = error /\ Tail(error) = <<>>
  BY Literals DEF ErrorEvent
<1>3. /\ Searches(c) = {FrameEvent(c), ErrorEvent(c), middle, last, check}
      /\ Uses(c) = {frame, notify, beats, submit}
  BY DEF Searches, Uses
<1>. HIDE DEF submit, error, last, check, notify, middle, frame, beats
<1>4. s \in Searches(c) => /\ Tail(s) \in Uses(c) \cup {error}
                           /\ Tail(Tail(s)) \in Searches(c) \cup {<<>>}
  BY <1>1, <1>2, <1>3
<1>5. s \in Uses(c) => Tail(s) \in Searches(c) \cup {<<>>}
  BY <1>1, <1>2, <1>3
<1>. QED  BY <1>4, <1>5 DEF error

\* Every step of the callback leaves every capture watched.
LEMMA LibStepCase ==
  ASSUME TypeOK, IndInv, NEW c \in Captures,
         \/ Find("lib", c) \/ NotifyInterruptHeartbeat(c) \/ NotifyCaptureEvent(c)
         \/ SettingSubmitRequestPrev(c) \/ CheckHdmiReceiverError(c)
         \/ SetCaptureResetEvent("lib", c) \/ NotifyCaptureResetEvent("lib", c)
  PROVE  IndInv'
<1>1. /\ "lib" \in Thread /\ "obs" \in Thread \ {"lib"} /\ <<>> \in Seq(Step)
      /\ at \in [Thread -> Captures \cup {None}]
  BY DEF Thread, TypeOK
<1>2. ~torn  BY DEF Find, NotifyInterruptHeartbeat, NotifyCaptureEvent,
               SettingSubmitRequestPrev, CheckHdmiReceiverError, SetCaptureResetEvent,
               NotifyCaptureResetEvent, Does
<1>3. LibOK /\ ObsOK /\ reset \subseteq open  BY <1>2 DEF IndInv
<1>4. CASE Find("lib", c)
  <2>1. /\ UNCHANGED <<open, started, suspend, reset, events, unsent, watched>>
        /\ At("lib", "find", c)
        /\ c \in open => at'["lib"] = c
        /\ c \notin open => at'["lib"] = at["lib"]
        /\ at'["obs"] = at["obs"]
    BY <1>1, <1>4 DEF Find, Does, capVars, listVars
  <2>2. LibIdle(c) /\ at["lib"] = None  BY <1>3, <2>1, LibCases
  <2>3. /\ \A u \in Thread \ {"lib"} : todo'[u] = todo[u]
        /\ c \in open => todo'["lib"] = Tail(todo["lib"])
        /\ c \notin open => todo'["lib"] = Tail(Tail(todo["lib"]))
    BY <1>3, <1>4, FindSteps
  <2>4. \A k : ~Has(todo["lib"], {<<"post", k>>})  BY <2>2, Posts DEF LibIdle
  <2>5. /\ Tail(todo["lib"]) \in Uses(c) \cup {<<<<"error", c>>>>}
        /\ Tail(Tail(todo["lib"])) \in Searches(c) \cup {<<>>}
    BY <2>2, LibTails DEF LibIdle
  <2>6. LibOK'
    <3>1. CASE c \in open
      BY <2>1, <2>3, <2>5, <3>1 DEF LibOK, LibHolds
    <3>2. CASE c \notin open
      BY <2>1, <2>2, <2>3, <2>5, <3>2 DEF LibOK, LibIdle
    <3>. QED  BY <3>1, <3>2
  <2>7. ObsOK'  BY <1>1, <1>3, <2>1, <2>3, ObsKept
  <2>. QED  BY <1>2, <2>1, <2>3, <2>4, <2>6, <2>7, ThreadQuiet
<1>5. ASSUME NEW d \in {"beat", "notify", "submit"}, Does("lib", d, c, <<>>),
             UNCHANGED <<open, started, suspend, reset, events, unsent, watched>>,
             at' = [at EXCEPT !["lib"] = None]
      PROVE  IndInv'
  <2>1. at["lib"] = c /\ c \in open /\ todo["lib"] \in Uses(c)
    BY <1>3, <1>5, LibCases DEF Does
  <2>2. /\ \A u \in Thread \ {"lib"} : todo'[u] = todo[u]
        /\ todo'["lib"] = Tail(todo["lib"])
    BY <1>1, <1>5, DoesFacts
  <2>3. \A k : ~Has(todo["lib"], {<<"post", k>>})  BY <2>1, Posts
  <2>4. Tail(todo["lib"]) \in Searches(c) \cup {<<>>}  BY <2>1, LibTails
  <2>5. at'["lib"] = None /\ at'["obs"] = at["obs"]  BY <1>1, <1>5
  <2>6. LibOK'  BY <2>2, <2>4, <2>5 DEF LibOK, LibIdle
  <2>7. ObsOK'  BY <1>1, <1>3, <1>5, <2>2, <2>5, ObsKept
  <2>. QED  BY <1>2, <1>5, <2>2, <2>3, <2>6, <2>7, ThreadQuiet
<1>6. CASE NotifyInterruptHeartbeat(c)
  BY <1>5, <1>6 DEF NotifyInterruptHeartbeat, listVars
<1>7. CASE SettingSubmitRequestPrev(c)
  BY <1>5, <1>7 DEF SettingSubmitRequestPrev, listVars, capVars
<1>8. CASE CheckHdmiReceiverError(c)
  <2>1. PICK then \in {<<>>, <<<<"flag", c>>, <<"post", c>>>>} :
          /\ Does("lib", "error", c, then)
          /\ then = <<>> => at' = [at EXCEPT !["lib"] = None]
          /\ then # <<>> => at' = at
    BY <1>8 DEF CheckHdmiReceiverError
  <2>2. UNCHANGED <<open, started, suspend, reset, events, unsent, watched>>
    BY <1>8 DEF CheckHdmiReceiverError, capVars, listVars
  <2>3. at["lib"] = c /\ todo["lib"] = <<<<"error", c>>>>
    BY <1>3, <2>1, LibCases DEF Does
  <2>4. then \in Seq(Step)
    <3>1. <<"flag", c>> \in Step /\ <<"post", c>> \in Step  BY DEF Step, Do
    <3>2. <<<<"flag", c>>, <<"post", c>>>> \in Seq(Step)  BY <3>1, HandlerTypes
    <3>. QED  BY <1>1, <2>1, <3>2
  <2>5. /\ \A u \in Thread \ {"lib"} : todo'[u] = todo[u]
        /\ todo'["lib"] = then
    <3>1. Tail(todo["lib"]) = <<>>  BY <2>3, Literals
    <3>2. /\ \A u \in Thread \ {"lib"} : todo'[u] = todo[u]
          /\ todo'["lib"] = then \o Tail(todo["lib"])
      BY <1>1, <2>1, <2>4, DoesFacts
    <3>. QED  BY <2>4, <3>1, <3>2, ConcatEmptySeq
  <2>6. \A k : ~Has(todo["lib"], {<<"post", k>>})  BY <2>3, Posts
  <2>7. LibOK' /\ at'["obs"] = at["obs"]
    <3>1. CASE then = <<>>
      BY <1>1, <2>1, <2>5, <3>1 DEF LibOK
    <3>2. CASE then = <<<<"flag", c>>, <<"post", c>>>>
      <4>1. c \in open  BY <1>3, <2>1, LibCases DEF Does
      <4>2. at' = at  BY <2>1, <3>2
      <4>. QED  BY <2>2, <2>3, <2>5, <3>2, <4>1, <4>2 DEF LibOK, LibHolds
    <3>. QED  BY <2>1, <3>1, <3>2
  <2>8. ObsOK'  BY <1>1, <1>3, <2>2, <2>5, <2>7, ObsKept
  <2>. QED  BY <1>2, <2>2, <2>5, <2>6, <2>7, <2>8, ThreadQuiet
<1>9. CASE SetCaptureResetEvent("lib", c)
  <2>1. /\ Does("lib", "flag", c, <<>>) /\ reset' = reset \cup {c}
        /\ UNCHANGED <<open, started, suspend, events, unsent, watched, at>>
    BY <1>9 DEF SetCaptureResetEvent, listVars
  <2>2. at["lib"] = c /\ c \in open /\ todo["lib"] = <<<<"flag", c>>, <<"post", c>>>>
    BY <1>3, <2>1, LibCases DEF Does
  <2>3. /\ \A u \in Thread \ {"lib"} : todo'[u] = todo[u]
        /\ todo'["lib"] = Tail(todo["lib"])
    BY <1>1, <2>1, DoesFacts
  <2>4. todo'["lib"] = <<<<"post", c>>>>  BY <2>2, <2>3, Literals
  <2>5. Has(todo'["lib"], {<<"post", c>>})  BY <2>4, Posts
  <2>6. ResetOnItsWay(c)'  BY <2>5 DEF ResetOnItsWay, Pending
  <2>7. \A k : Has(todo["lib"], {<<"post", k>>}) => k = c  BY <2>2, Posts
  <2>8. LibOK'  BY <2>1, <2>2, <2>4 DEF LibOK, LibHolds
  <2>9. ObsOK'  BY <1>1, <1>3, <2>1, <2>3, ObsKept
  <2>10. reset \subseteq reset' /\ reset' \subseteq open
         /\ \A k \in reset' \ reset : ResetOnItsWay(k)'
    BY <1>3, <2>1, <2>2, <2>6
  <2>. QED  BY <1>2, <2>1, <2>3, <2>5, <2>7, <2>8, <2>9, <2>10, ThreadKeeps
<1>10. CASE NotifyCaptureResetEvent("lib", c)
  <2>1. /\ Does("lib", "post", c, <<>>) /\ at' = [at EXCEPT !["lib"] = None]
        /\ UNCHANGED <<open, reset>>
    BY <1>10 DEF NotifyCaptureResetEvent, capVars
  <2>2. at["lib"] = c /\ c \in open /\ todo["lib"] = <<<<"post", c>>>>
    BY <1>3, <2>1, LibCases DEF Does
  <2>3. /\ \A u \in Thread \ {"lib"} : todo'[u] = todo[u]
        /\ todo'["lib"] = Tail(todo["lib"])
    BY <1>1, <2>1, DoesFacts
  <2>4. todo'["lib"] = <<>>  BY <2>2, <2>3, Literals
  <2>5. at'["lib"] = None /\ at'["obs"] = at["obs"]  BY <1>1, <2>1
  <2>6. LibOK'  BY <2>4, <2>5 DEF LibOK
  <2>7. ObsOK'  BY <1>1, <1>3, <2>1, <2>3, <2>5, ObsKept
  <2>8. \A k : k # c => ~Has(todo["lib"], {<<"post", k>>})  BY <2>2, Posts
  <2>. QED  BY <1>10, <2>2, <2>6, <2>7, <2>8, PostStep
<1>11. CASE NotifyCaptureEvent(c)
  BY <1>5, <1>11 DEF NotifyCaptureEvent, listVars, capVars
<1>. QED  BY <1>4, <1>6, <1>7, <1>8, <1>9, <1>10, <1>11

\* What the observer thread has left where its next step is for the HDMI state.
LEMMA ObsHdmiCases ==
  ASSUME ObsOK, NEW x, NEW d \in {"read", "endHdmi", "clear", "write", "set"},
         At("obs", d, x)
  PROVE  /\ at["obs"] = None
         /\ \A k : ~Has(todo["obs"], {<<"post", k>>})
         /\ \/ Tail(todo["obs"]) = <<>>
            \/ d = "set" /\ Tail(todo["obs"]) = <<<<"clear", None>>>>
<1>1. todo["obs"] # <<>> /\ Head(todo["obs"]) = <<d, x>>  BY DEF At, Busy
<1>2. at["obs"] = None /\ ObsHdmi  BY ObsCases
<1>3. \/ \E e \in {"read", "endHdmi", "clear", "write"} : \E y : todo["obs"] = <<<<e, y>>>>
      \/ \E y : todo["obs"] = <<<<"set", y>>, <<"clear", None>>>>
  BY <1>1, <1>2 DEF ObsHdmi
<1>4. ASSUME NEW e \in {"read", "endHdmi", "clear", "write"}, NEW y,
             todo["obs"] = <<<<e, y>>>>
      PROVE  Tail(todo["obs"]) = <<>> /\ \A k : ~Has(todo["obs"], {<<"post", k>>})
  <2>1. Tail(todo["obs"]) = <<>>  BY <1>4, Literals
  <2>2. DOMAIN todo["obs"] = {1} /\ todo["obs"][1] = <<e, y>>  BY <1>4
  <2>. QED  BY <2>1, <2>2 DEF Has
<1>5. ASSUME NEW y, todo["obs"] = <<<<"set", y>>, <<"clear", None>>>>
      PROVE  /\ Tail(todo["obs"]) = <<<<"clear", None>>>> /\ d = "set"
             /\ \A k : ~Has(todo["obs"], {<<"post", k>>})
  <2>1. Tail(todo["obs"]) = <<<<"clear", None>>>> /\ Head(todo["obs"]) = <<"set", y>>
    BY <1>5, Literals
  <2>2. \A k : ~Has(todo["obs"], {<<"post", k>>})
    <3>1. \A B : Has(<<<<"set", y>>, <<"clear", None>>>>, B)
                   <=> <<"set", y>> \in B \/ <<"clear", None>> \in B
      BY HasLiteral
    <3>. QED  BY <1>5, <3>1
  <2>3. <<d, x>> = <<"set", y>>  BY <1>1, <2>1
  <2>4. d = "set"  BY <2>3
  <2>. QED  BY <2>1, <2>2, <2>4
<1>. QED  BY <1>2, <1>3, <1>4, <1>5

\* A step of the observer thread for the HDMI state.
LEMMA ObsHdmiAdvances ==
  ASSUME WatchAssumption, TypeOK, IndInv, NEW x,
         NEW d \in {"read", "endHdmi", "clear", "write", "set"},
         NEW then \in Seq(Step), Does("obs", d, x, then),
         \/ then = <<>>
         \/ d # "set" /\ then \in {<<<<"endHdmi", None>>>>}
         \/ d # "set" /\ \E s \in HdmiStates \cup {None} :
                            \/ then = <<<<"write", s>>>>
                            \/ then = <<<<"set", s>>, <<"clear", None>>>>,
         UNCHANGED <<open, started, suspend, reset, events, unsent, at>>,
         watched' \cap Captures = watched \cap Captures
  PROVE  IndInv'
<1>1. "obs" \in Thread /\ "lib" \in Thread \ {"obs"}  BY DEF Thread
<1>2. /\ ~torn /\ todo'["obs"] = then \o Tail(todo["obs"])
      /\ then = <<>> => todo'["obs"] = Tail(todo["obs"])
      /\ \A u \in Thread \ {"obs"} : todo'[u] = todo[u]
  BY <1>1, DoesFacts
<1>3. LibOK /\ ObsOK /\ At("obs", d, x)  BY <1>2 DEF IndInv, Does
<1>4. /\ at["obs"] = None /\ \A k : ~Has(todo["obs"], {<<"post", k>>})
      /\ \/ Tail(todo["obs"]) = <<>>
         \/ d = "set" /\ Tail(todo["obs"]) = <<<<"clear", None>>>>
  BY <1>3, ObsHdmiCases
<1>5. Tail(todo["obs"]) = <<>> => todo'["obs"] = then
  BY <1>2, ConcatEmptySeq
<1>6. \/ todo'["obs"] \in {<<>>, <<<<"endHdmi", None>>>>, <<<<"clear", None>>>>}
      \/ \E s \in HdmiStates \cup {None} :
           \/ todo'["obs"] = <<<<"write", s>>>>
           \/ todo'["obs"] = <<<<"set", s>>, <<"clear", None>>>>
  <2>1. CASE then = <<>>  BY <1>2, <1>4, <2>1
  <2>2. CASE then # <<>>  BY <1>4, <1>5, <2>2
  <2>. QED  BY <2>1, <2>2
<1>7. ObsOK'
  <2>1. at'["obs"] = None  BY <1>4
  <2>. QED  BY <1>6, <2>1 DEF ObsOK, ObsHdmi
<1>8. LibOK'  BY <1>1, <1>2, <1>3, LibKept
<1>. QED  BY <1>2, <1>4, <1>7, <1>8, ThreadQuiet

\* What the observer thread does for the HDMI state leaves every capture watched.
LEMMA ObsHdmiStep ==
  ASSUME WatchAssumption, TypeOK, IndInv, NEW s \in HdmiStates \cup {None},
         \/ HdmiNotify \/ HdmiEnd \/ ClearObserver("obs")
         \/ WriteHdmiState("obs", s) \/ SetHdmiState("obs", s)
  PROVE  IndInv'
<1>1. /\ <<>> \in Seq(Step) /\ <<<<"endHdmi", None>>>> \in Seq(Step)
      /\ <<<<"write", held>>>> \in Seq(Step)
      /\ <<<<"set", s>>, <<"clear", None>>>> \in Seq(Step)
      /\ held \in HdmiStates \cup {None}
  <2>1. <<"endHdmi", None>> \in Step /\ <<"write", held>> \in Step
        /\ <<"set", s>> \in Step /\ <<"clear", None>> \in Step
        /\ held \in HdmiStates \cup {None}
    BY DEF Step, Do, TypeOK
  <2>. QED  BY <2>1, HandlerTypes
<1>2. "hdmiState" \notin Captures  BY DEF WatchAssumption
<1>3. CASE HdmiNotify
  <2>1. PICK then \in {<<>>, <<<<"endHdmi", None>>>>, <<<<"write", held>>>>} :
          Does("obs", "read", None, then)
    BY <1>3 DEF HdmiNotify
  <2>2. UNCHANGED <<open, started, suspend, reset, events, unsent, at, watched>>
    BY <1>3 DEF HdmiNotify, capVars, listVars
  <2>3. then \in Seq(Step)  BY <1>1, <2>1
  <2>. QED  BY <1>1, <2>1, <2>2, <2>3, ObsHdmiAdvances
<1>4. CASE HdmiEnd
  <2>1. /\ Does("obs", "endHdmi", None, <<>>) /\ watched' \cap Captures = watched \cap Captures
        /\ UNCHANGED <<open, started, suspend, reset, events, unsent, at>>
    BY <1>2, <1>4 DEF HdmiEnd, capVars
  <2>. QED  BY <1>1, <2>1, ObsHdmiAdvances
<1>5. CASE ClearObserver("obs")
  <2>1. /\ Does("obs", "clear", None, <<>>) /\ watched' \cap Captures = watched \cap Captures
        /\ UNCHANGED <<open, started, suspend, reset, events, unsent, at>>
    BY <1>2, <1>5 DEF ClearObserver, capVars
  <2>. QED  BY <1>1, <2>1, ObsHdmiAdvances
<1>6. CASE WriteHdmiState("obs", s)
  <2>1. PICK then \in {<<>>, <<<<"set", s>>, <<"clear", None>>>>} :
          Does("obs", "write", s, then)
    BY <1>6 DEF WriteHdmiState
  <2>2. UNCHANGED <<open, started, suspend, reset, events, unsent, at, watched>>
    BY <1>6 DEF WriteHdmiState, capVars, listVars
  <2>3. then \in Seq(Step)  BY <1>1, <2>1
  <2>. QED  BY <2>1, <2>2, <2>3, ObsHdmiAdvances
<1>7. CASE SetHdmiState("obs", s)
  <2>1. /\ Does("obs", "set", s, <<>>)
        /\ UNCHANGED <<open, started, suspend, reset, events, unsent, at, watched>>
    BY <1>7 DEF SetHdmiState, capVars, listVars
  <2>. QED  BY <1>1, <2>1, ObsHdmiAdvances
<1>. QED  BY <1>3, <1>4, <1>5, <1>6, <1>7

\* Every step of the observer thread for a capture leaves every capture watched.
LEMMA ObsCaptureStep ==
  ASSUME TypeOK, IndInv, NEW c \in Captures,
         \/ Find("obs", c) \/ CheckInterruptHeartbeat(c) \/ SetCaptureResetEvent("obs", c)
         \/ NotifyCaptureResetEvent("obs", c) \/ ObserverEnd(c)
  PROVE  IndInv'
<1>1. /\ "obs" \in Thread /\ "lib" \in Thread \ {"obs"} /\ <<>> \in Seq(Step)
      /\ at \in [Thread -> Captures \cup {None}]
  BY DEF Thread, TypeOK
<1>2. ~torn  BY DEF Find, CheckInterruptHeartbeat, SetCaptureResetEvent,
               NotifyCaptureResetEvent, ObserverEnd, Does
<1>3. LibOK /\ ObsOK /\ reset \subseteq open  BY <1>2 DEF IndInv
<1>4. CASE Find("obs", c)
  <2>1. /\ UNCHANGED <<open, started, suspend, reset, events, unsent, watched>>
        /\ At("obs", "find", c)
        /\ c \in open => at'["obs"] = c
        /\ c \notin open => at'["obs"] = at["obs"]
        /\ at'["lib"] = at["lib"]
    BY <1>1, <1>4 DEF Find, Does, capVars, listVars
  <2>2. todo["obs"] = <<<<"find", c>>, <<"check", c>>>> /\ at["obs"] = None
    BY <1>3, <2>1, ObsCases
  <2>3. /\ \A u \in Thread \ {"obs"} : todo'[u] = todo[u]
        /\ c \in open => todo'["obs"] = Tail(todo["obs"])
        /\ c \notin open => todo'["obs"] = Tail(Tail(todo["obs"]))
    BY <1>3, <1>4, FindSteps
  <2>4. \A k : ~Has(todo["obs"], {<<"post", k>>})  BY <2>2, Posts
  <2>5. Tail(todo["obs"]) = <<<<"check", c>>>> /\ Tail(Tail(todo["obs"])) = <<>>
    BY <2>2, Literals
  <2>6. ObsOK'
    <3>1. CASE c \in open
      BY <2>1, <2>3, <2>5, <3>1 DEF ObsOK, ObsHolds
    <3>2. CASE c \notin open
      BY <2>1, <2>2, <2>3, <2>5, <3>2 DEF ObsOK, ObsHdmi
    <3>. QED  BY <3>1, <3>2
  <2>7. LibOK'  BY <1>1, <1>3, <2>1, <2>3, LibKept
  <2>. QED  BY <1>2, <2>1, <2>3, <2>4, <2>6, <2>7, ThreadQuiet
<1>5. CASE CheckInterruptHeartbeat(c)
  <2>1. <<"flag", c>> \in Step /\ <<"post", c>> \in Step /\ <<"end", c>> \in Step
    BY DEF Step, Do
  <2>2. PICK then \in Seq(Step) :
          /\ Does("obs", "check", c, then)
          /\ \/ then = <<>> /\ at' = [at EXCEPT !["obs"] = None]
             \/ then = <<<<"end", c>>>> /\ c \in reset /\ at' = at
             \/ then = <<<<"flag", c>>, <<"post", c>>, <<"end", c>>>> /\ at' = at
    <3>1. CASE c \in beat
      BY <1>1, <1>5, <3>1 DEF CheckInterruptHeartbeat
    <3>2. CASE c \notin beat /\ c \in reset
      <4>1. <<<<"end", c>>>> \in Seq(Step)  BY <2>1, HandlerTypes
      <4>2. <<>> \o <<<<"end", c>>>> = <<<<"end", c>>>>  BY <4>1, ConcatEmptySeq
      <4>3. Does("obs", "check", c, <<<<"end", c>>>>) /\ at' = at
        BY <1>5, <3>2, <4>2 DEF CheckInterruptHeartbeat
      <4>. QED  BY <3>2, <4>1, <4>3
    <3>3. CASE c \notin beat /\ c \notin reset
      <4>1. <<<<"flag", c>>, <<"post", c>>>> \o <<<<"end", c>>>>
              = <<<<"flag", c>>, <<"post", c>>, <<"end", c>>>>
        BY JoinLiterals
      <4>2. <<<<"flag", c>>, <<"post", c>>, <<"end", c>>>> \in Seq(Step)  BY <2>1
      <4>3. Does("obs", "check", c, <<<<"flag", c>>, <<"post", c>>, <<"end", c>>>>)
            /\ at' = at
        BY <1>5, <3>3, <4>1 DEF CheckInterruptHeartbeat
      <4>. QED  BY <4>2, <4>3
    <3>. QED  BY <3>1, <3>2, <3>3
  <2>3. UNCHANGED <<open, started, suspend, reset, events, unsent, watched>>
    BY <1>5 DEF CheckInterruptHeartbeat, listVars
  <2>4. at["obs"] = c /\ c \in open /\ todo["obs"] = <<<<"check", c>>>>
    BY <1>3, <2>2, ObsCases DEF Does
  <2>5. /\ \A u \in Thread \ {"obs"} : todo'[u] = todo[u]
        /\ todo'["obs"] = then
    <3>1. Tail(todo["obs"]) = <<>>  BY <2>4, Literals
    <3>2. /\ \A u \in Thread \ {"obs"} : todo'[u] = todo[u]
          /\ todo'["obs"] = then \o Tail(todo["obs"])
      <4>1. Does("obs", "check", c, then)  BY <2>2
      <4>. QED  BY <1>1, <4>1, DoesFacts
    <3>. QED  BY <3>1, <3>2, ConcatEmptySeq
  <2>6. \A k : ~Has(todo["obs"], {<<"post", k>>})  BY <2>4, Posts
  <2>7. at'["lib"] = at["lib"] /\ (then = <<>> => at'["obs"] = None)
    <3>1. then = <<>> => at' = [at EXCEPT !["obs"] = None]
      BY <2>2, Literals
    <3>2. at' = at \/ at' = [at EXCEPT !["obs"] = None]  BY <2>2
    <3>. QED  BY <1>1, <3>1, <3>2
  <2>8. ObsOK'
    <3>1. CASE then = <<>>  BY <2>5, <2>7, <3>1 DEF ObsOK, ObsHdmi
    <3>2. CASE then # <<>>
      BY <2>2, <2>3, <2>4, <2>5, <3>2 DEF ObsOK, ObsHolds
    <3>. QED  BY <3>1, <3>2
  <2>9. LibOK'  BY <1>1, <1>3, <2>3, <2>5, <2>7, LibKept
  <2>. QED  BY <1>2, <2>3, <2>5, <2>6, <2>8, <2>9, ThreadQuiet
<1>6. CASE SetCaptureResetEvent("obs", c)
  <2>1. /\ Does("obs", "flag", c, <<>>) /\ reset' = reset \cup {c}
        /\ UNCHANGED <<open, started, suspend, events, unsent, watched, at>>
    BY <1>6 DEF SetCaptureResetEvent, listVars
  <2>2. /\ at["obs"] = c /\ c \in open
        /\ todo["obs"] = <<<<"flag", c>>, <<"post", c>>, <<"end", c>>>>
    BY <1>3, <2>1, ObsCases DEF Does
  <2>3. /\ \A u \in Thread \ {"obs"} : todo'[u] = todo[u]
        /\ todo'["obs"] = Tail(todo["obs"])
    BY <1>1, <2>1, DoesFacts
  <2>4. todo'["obs"] = <<<<"post", c>>, <<"end", c>>>>  BY <2>2, <2>3, Literals
  <2>5. Has(todo'["obs"], {<<"post", c>>})  BY <2>4, Posts
  <2>6. ResetOnItsWay(c)'  BY <2>5 DEF ResetOnItsWay, Pending
  <2>7. \A k : Has(todo["obs"], {<<"post", k>>}) => k = c  BY <2>2, Posts
  <2>8. ObsOK'  BY <2>1, <2>2, <2>4 DEF ObsOK, ObsHolds
  <2>9. LibOK'  BY <1>1, <1>3, <2>1, <2>3, LibKept
  <2>10. reset \subseteq reset' /\ reset' \subseteq open
         /\ \A k \in reset' \ reset : ResetOnItsWay(k)'
    BY <1>3, <2>1, <2>2, <2>6
  <2>. QED  BY <1>2, <2>1, <2>3, <2>5, <2>7, <2>8, <2>9, <2>10, ThreadKeeps
<1>7. CASE NotifyCaptureResetEvent("obs", c)
  <2>1. /\ Does("obs", "post", c, <<>>) /\ at' = at
        /\ UNCHANGED <<open, reset>>
    BY <1>7 DEF NotifyCaptureResetEvent, capVars
  <2>2. /\ at["obs"] = c /\ c \in open /\ c \in reset
        /\ todo["obs"] = <<<<"post", c>>, <<"end", c>>>>
    BY <1>3, <2>1, ObsCases DEF Does
  <2>3. /\ \A u \in Thread \ {"obs"} : todo'[u] = todo[u]
        /\ todo'["obs"] = Tail(todo["obs"])
    BY <1>1, <2>1, DoesFacts
  <2>4. todo'["obs"] = <<<<"end", c>>>>  BY <2>2, <2>3, Literals
  <2>5. ObsOK'  BY <2>1, <2>2, <2>4 DEF ObsOK, ObsHolds
  <2>6. LibOK'  BY <1>1, <1>3, <2>1, <2>3, LibKept
  <2>7. \A k : k # c => ~Has(todo["obs"], {<<"post", k>>})  BY <2>2, Posts
  <2>. QED  BY <1>7, <2>2, <2>5, <2>6, <2>7, PostStep
<1>8. CASE ObserverEnd(c)
  <2>1. /\ Does("obs", "end", c, <<>>) /\ watched' = watched \ {c}
        /\ at' = [at EXCEPT !["obs"] = None]
        /\ UNCHANGED <<open, started, suspend, reset, events, unsent>>
    BY <1>8 DEF ObserverEnd, capVars
  <2>2. at["obs"] = c /\ c \in open /\ c \in reset /\ todo["obs"] = <<<<"end", c>>>>
    BY <1>3, <2>1, ObsCases DEF Does
  <2>3. /\ \A u \in Thread \ {"obs"} : todo'[u] = todo[u]
        /\ todo'["obs"] = Tail(todo["obs"])
    BY <1>1, <2>1, DoesFacts
  <2>4. todo'["obs"] = <<>>  BY <2>2, <2>3, Literals
  <2>5. at'["obs"] = None /\ at'["lib"] = at["lib"]  BY <1>1, <2>1
  <2>6. ObsOK'  BY <2>4, <2>5 DEF ObsOK, ObsHdmi
  <2>7. LibOK'  BY <1>1, <1>3, <2>1, <2>3, <2>5, LibKept
  <2>8. \A k : ~Has(todo["obs"], {<<"post", k>>})  BY <2>2, Posts
  <2>9. \A k \in started : k \in watched => k \in watched' \/ k \in reset  BY <2>1, <2>2
  <2>10. reset \subseteq reset' /\ reset' \subseteq open /\ reset' \ reset = {}
    BY <1>3, <2>1
  <2>. QED  BY <1>2, <2>1, <2>3, <2>6, <2>7, <2>8, <2>9, <2>10, ThreadKeeps
<1>. QED  BY <1>4, <1>5, <1>6, <1>7, <1>8

-----------------------------------------------------------------------------
(* The theorems                                                            *)

\* What else may happen: the threads begin an execution or a callback, a
\* stream stalls, a freed observer is called.
LEMMA ThreadBegins ==
  ASSUME TypeOK, IndInv, NEW c \in Captures, NEW w \in Captures \cup {"hdmiState"},
         Execute(w) \/ ExecuteGhost \/ EventCallback(c) \/ StreamStalls(c)
  PROVE  IndInv'
<1>1. /\ "obs" \in Thread \ {"lib"} /\ "lib" \in Thread \ {"obs"} /\ "main" \in Thread
      /\ todo \in [Thread -> Seq(Step)]
  BY DEF Thread, TypeOK
<1>2. CASE Execute(w)
  <2>1. /\ ~torn /\ todo["obs"] = <<>>
        /\ UNCHANGED <<open, started, suspend, reset, events, unsent, watched, at>>
        /\ \A u \in Thread \ {"obs"} : todo'[u] = todo[u]
        /\ \/ w \in Captures /\ todo'["obs"] = <<<<"find", w>>, <<"check", w>>>>
           \/ todo'["obs"] = <<<<"read", None>>>>
    BY <1>1, <1>2 DEF Execute, Busy, capVars, listVars
  <2>2. LibOK /\ ObsOK  BY <2>1 DEF IndInv
  <2>3. at["obs"] = None
    BY <2>1, <2>2, Literals DEF ObsOK, ObsHolds
  <2>4. ObsOK'  BY <2>1, <2>3 DEF ObsOK, ObsHdmi
  <2>5. LibOK'  BY <1>1, <2>1, <2>2, LibKept
  <2>6. \A k : ~Has(todo["obs"], {<<"post", k>>})  BY <2>1, Posts
  <2>. QED  BY <2>1, <2>4, <2>5, <2>6, ThreadQuiet
<1>3. CASE ExecuteGhost
  BY <1>3 DEF ExecuteGhost, IndInv
<1>4. CASE EventCallback(c)
  <2>1. /\ ~torn /\ todo["lib"] = <<>>
        /\ UNCHANGED <<open, started, suspend, reset, events, unsent, watched, at>>
        /\ \A u \in Thread \ {"lib"} : todo'[u] = todo[u]
        /\ todo'["lib"] \in {FrameEvent(c), ErrorEvent(c)}
    BY <1>1, <1>4 DEF EventCallback, Busy, capVars, listVars
  <2>2. LibOK /\ ObsOK  BY <2>1 DEF IndInv
  <2>3. at["lib"] = None
    BY <2>1, <2>2, Literals DEF LibOK, LibHolds, Uses
  <2>4. LibOK'  BY <2>1, <2>3 DEF LibOK, LibIdle, Searches
  <2>5. ObsOK'  BY <1>1, <2>1, <2>2, ObsKept
  <2>6. \A k : ~Has(todo["lib"], {<<"post", k>>})  BY <2>1, Posts
  <2>. QED  BY <2>1, <2>4, <2>5, <2>6, ThreadQuiet
<1>5. CASE StreamStalls(c)
  <2>1. /\ ~torn
        /\ UNCHANGED <<open, started, suspend, reset, events, unsent, watched, at, todo>>
    BY <1>5 DEF StreamStalls, listVars
  <2>. QED  BY <2>1 DEF IndInv, MainOK, Resume, Opens, CloseAll, Unregisters, LibOK,
              LibIdle, LibHolds, Searches, Uses, ObsOK, ObsHdmi, ObsHolds, StartedIsWatched,
              ResetOnItsWay, Pending
<1>. QED  BY <1>2, <1>3, <1>4, <1>5

\* At the start nothing is open and nothing is to be done.
LEMMA WatchInit ==
  ASSUME WatchAssumption, Init
  PROVE  TypeOK /\ IndInv
<1>1. /\ \A t \in Thread : todo[t] = <<>> /\ at[t] = None
      /\ "main" \in Thread /\ "lib" \in Thread /\ "obs" \in Thread
  BY DEF Init, Thread
<1>2. TypeOK
  <2>1. events \in Seq(Captures) /\ todo \in [Thread -> Seq(Step)]
    <3>1. <<>> \in Seq(Captures) /\ <<>> \in Seq(Step)  OBVIOUS
    <3>. QED  BY <3>1 DEF Init
  <2>. QED  BY <2>1 DEF Init, TypeOK, WatchAssumption
<1>3. MainOK(todo["main"])
  <2>1. \A B : ~Has(<<>>, B)  BY HasLiteral
  <2>2. Later(<<>>, <<"suspend", None>>, Resume)  BY DEF Later
  <2>. QED  BY <1>1, <2>1, <2>2 DEF MainOK, Init
<1>4. LibOK /\ ObsOK  BY <1>1 DEF LibOK, ObsOK, ObsHdmi
<1>5. started = {} /\ reset = {}  BY DEF Init
<1>. QED  BY <1>2, <1>3, <1>4, <1>5 DEF IndInv, StartedIsWatched

\* Every step keeps the inductive invariant.
LEMMA WatchStep ==
  ASSUME WatchAssumption, TypeOK, IndInv, [Next]_vars
  PROVE  IndInv'
<1>0. HdmiInput \in Captures /\ None \in HdmiStates \cup {None}  BY DEF WatchAssumption
<1>1. CASE UNCHANGED vars
  BY <1>1 DEF vars, capVars, listVars, IndInv, MainOK, Resume, Opens, CloseAll, Unregisters,
         LibOK, LibIdle, LibHolds, Searches, Uses, ObsOK, ObsHdmi, ObsHolds, StartedIsWatched,
         ResetOnItsWay, Pending
<1>2. CASE MainStep
  <2>1. ASSUME NEW c \in Captures,
               \/ ControlCapture(c) \/ StartCapture(c) \/ StopCapture(c)
               \/ StartInterruptObserver(c) \/ StopInterruptObserver(c)
        PROVE  IndInv'
    BY <2>1, StartStopStep
  <2>2. ASSUME NEW c \in Captures, OpenEntry(c)  PROVE IndInv'  BY <2>2, OpenStep
  <2>3. ASSUME NEW c \in Captures, EraseEntry(c)  PROVE IndInv'  BY <2>3, EraseStep
  <2>4. ASSUME NEW s \in HdmiStates,
               \/ HoldHdmiState(s) \/ WriteHdmiState("main", s) \/ HdmiIsRunning(s)
               \/ SetHdmiState("main", s)
        PROVE  IndInv'
    BY <2>4, MainHdmiStep
  <2>5. CASE SuspendStep  BY <2>5, SuspendCase
  <2>6. CASE ClearObserver("main") \/ WatchHdmi  BY <1>0, <2>6, MainHdmiStep
  <2>. QED  BY <1>2, <2>1, <2>2, <2>3, <2>4, <2>5, <2>6 DEF MainStep
<1>3. CASE ObsStep
  <2>1. ASSUME NEW c \in Captures,
               \/ Find("obs", c) \/ CheckInterruptHeartbeat(c)
               \/ SetCaptureResetEvent("obs", c)
               \/ NotifyCaptureResetEvent("obs", c) \/ ObserverEnd(c)
        PROVE  IndInv'
    BY <2>1, ObsCaptureStep
  <2>2. ASSUME NEW s \in HdmiStates, WriteHdmiState("obs", s) \/ SetHdmiState("obs", s)
        PROVE  IndInv'
    BY <2>2, ObsHdmiStep
  <2>3. CASE HdmiNotify \/ HdmiEnd \/ ClearObserver("obs")
    BY <1>0, <2>3, ObsHdmiStep
  <2>. QED  BY <1>3, <2>1, <2>2, <2>3 DEF ObsStep
<1>4. CASE LibStep
  BY <1>4, LibStepCase DEF LibStep
<1>5. CASE ResetCapture \/ StrStateEvent
  BY <1>0, <1>5, LoopStep
<1>6. ASSUME NEW c \in Captures, ActionCameraControl(c) \/ OpenOrClose(c)
      PROVE  IndInv'
  BY <1>0, <1>6, LoopStep
<1>7. ASSUME NEW s \in HdmiStates, ChgConnInfoHdmi(s)  PROVE IndInv'
  BY <1>0, <1>7, LoopStep
<1>8. ASSUME NEW c \in Captures, EventCallback(c) \/ StreamStalls(c)  PROVE IndInv'
  <2>1. c \in Captures \cup {"hdmiState"}  OBVIOUS
  <2>. QED  BY <1>8, <2>1, ThreadBegins
<1>9. ASSUME NEW w \in Captures \cup {"hdmiState"}, Execute(w)  PROVE IndInv'
  BY <1>0, <1>9, ThreadBegins
<1>10. CASE ExecuteGhost
  BY <1>10 DEF ExecuteGhost, IndInv
<1>. QED  BY <1>1, <1>2, <1>3, <1>4, <1>5, <1>6, <1>7, <1>8, <1>9, <1>10 DEF Next, Outside

\* The variables of the capture watch keep their types.
THEOREM WatchTypeCorrect == Spec => []TypeOK
<1>1. Init => TypeOK /\ IndInv  BY WatchAssumption, WatchInit
<1>2. TypeOK /\ IndInv /\ [Next]_vars => TypeOK' /\ IndInv'
  BY WatchAssumption, TypeStep, WatchStep
<1>. QED  BY <1>1, <1>2, PTL DEF Spec

\* However the main thread, the callback of the library and the observer
\* thread interleave, and whatever fails: a started capture is in the
\* observer's list, about to be registered, or its reset is on its way; and a
\* reset that has been asked for, which is asked for once, is never lost, unless
\* its event could not be written.
THEOREM WatchedCorrect == Spec => []StartedIsWatched
<1>1. Init => TypeOK /\ IndInv  BY WatchAssumption, WatchInit
<1>2. TypeOK /\ IndInv /\ [Next]_vars => TypeOK' /\ IndInv'
  BY WatchAssumption, TypeStep, WatchStep
<1>3. IndInv => StartedIsWatched  BY DEF IndInv, StartedIsWatched
<1>. QED  BY <1>1, <1>2, <1>3, PTL DEF Spec
=============================================================================
