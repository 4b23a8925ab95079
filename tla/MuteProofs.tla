----------------------------- MODULE MuteProofs -----------------------------
(***************************************************************************)
(* CameraMute for every set of paths and every budget: its variables keep  *)
(* their types, no switch is answered again after it was given up, the     *)
(* mute of a switch is never left behind, however the two threads          *)
(* interleave, and a switch moves the picture under the blinder unless the *)
(* callback comes in between.                                              *)
(***************************************************************************)
EXTENDS CameraMute, SequenceTheorems, TLAPS

-----------------------------------------------------------------------------
(* What becomes of the steps a thread still has to take when it takes the  *)
(* first and puts others in its place.                                     *)

\* Taking a step leaves a sequence of steps.
LEMMA TailType ==
  ASSUME NEW S, NEW s \in Seq(S), s # <<>>
  PROVE  Tail(s) \in Seq(S) /\ Head(s) \in S
OBVIOUS

\* So does putting steps before others.
LEMMA ConcatType ==
  ASSUME NEW S, NEW a \in Seq(S), NEW b \in Seq(S)
  PROVE  a \o b \in Seq(S)
OBVIOUS

\* What is among one, two or three steps.
LEMMA HasLiteral ==
  ASSUME NEW B, NEW x, NEW y, NEW z
  PROVE  /\ ~Has(<<>>, B)
         /\ Has(<<x>>, B) <=> x \in B
         /\ Has(<<x, y>>, B) <=> x \in B \/ y \in B
         /\ Has(<<x, y, z>>, B) <=> x \in B \/ y \in B \/ z \in B
<1>1. ~Has(<<>>, B)  BY DEF Has
<1>2. Has(<<x>>, B) <=> x \in B  BY DEF Has
<1>3. Has(<<x, y>>, B) <=> x \in B \/ y \in B  BY DEF Has
<1>4. Has(<<x, y, z>>, B) <=> x \in B \/ y \in B \/ z \in B  BY DEF Has
<1>. QED  BY <1>1, <1>2, <1>3, <1>4

\* What is still to come is the next step or comes after it.
LEMMA HasTail ==
  ASSUME NEW S, NEW s \in Seq(S), s # <<>>, NEW B
  PROVE  Has(s, B) <=> Head(s) \in B \/ Has(Tail(s), B)
<1>1. /\ Len(s) \in Nat \ {0} /\ DOMAIN s = 1..Len(s)
      /\ DOMAIN Tail(s) = 1..(Len(s) - 1) /\ Head(s) = s[1]
      /\ \A i \in 1..(Len(s) - 1) : Tail(s)[i] = s[i + 1]
  OBVIOUS
<1>2. ASSUME Has(s, B), Head(s) \notin B  PROVE Has(Tail(s), B)
  <2>1. PICK i \in 1..Len(s) : s[i] \in B  BY <1>1, <1>2 DEF Has
  <2>2. i # 1  BY <1>1, <1>2, <2>1
  <2>3. i - 1 \in 1..(Len(s) - 1) /\ Tail(s)[i - 1] = s[(i - 1) + 1]
    BY <1>1, <2>1, <2>2
  <2>4. Tail(s)[i - 1] \in B  BY <2>1, <2>3
  <2>. QED  BY <1>1, <2>3, <2>4 DEF Has
<1>3. ASSUME Has(Tail(s), B)  PROVE Has(s, B)
  <2>1. PICK i \in 1..(Len(s) - 1) : Tail(s)[i] \in B  BY <1>1, <1>3 DEF Has
  <2>2. i + 1 \in DOMAIN s /\ s[i + 1] \in B  BY <1>1, <2>1
  <2>. QED  BY <2>2 DEF Has
<1>4. ASSUME Head(s) \in B  PROVE Has(s, B)
  <2>1. 1 \in DOMAIN s /\ s[1] \in B  BY <1>1, <1>4
  <2>. QED  BY <2>1 DEF Has
<1>. QED  BY <1>2, <1>3, <1>4

\* What is still to come in a sequence of two parts is in one of them.
LEMMA HasConcat ==
  ASSUME NEW S, NEW a \in Seq(S), NEW b \in Seq(S), NEW B
  PROVE  Has(a \o b, B) <=> Has(a, B) \/ Has(b, B)
<1>1. /\ Len(a) \in Nat /\ Len(b) \in Nat
      /\ DOMAIN a = 1..Len(a) /\ DOMAIN b = 1..Len(b)
      /\ DOMAIN (a \o b) = 1..(Len(a) + Len(b))
      /\ \A i \in 1..(Len(a) + Len(b)) :
           (a \o b)[i] = IF i <= Len(a) THEN a[i] ELSE b[i - Len(a)]
  OBVIOUS
<1>2. ASSUME Has(a, B)  PROVE Has(a \o b, B)
  <2>1. PICK i \in 1..Len(a) : a[i] \in B  BY <1>1, <1>2 DEF Has
  <2>2. i \in 1..(Len(a) + Len(b)) /\ (a \o b)[i] = a[i]  BY <1>1, <2>1
  <2>. QED  BY <1>1, <2>1, <2>2 DEF Has
<1>3. ASSUME Has(b, B)  PROVE Has(a \o b, B)
  <2>1. PICK i \in 1..Len(b) : b[i] \in B  BY <1>1, <1>3 DEF Has
  <2>2. /\ i + Len(a) \in 1..(Len(a) + Len(b)) /\ ~(i + Len(a) <= Len(a))
        /\ (i + Len(a)) - Len(a) = i
    BY <1>1, <2>1
  <2>3. (a \o b)[i + Len(a)] = b[i]  BY <1>1, <2>2
  <2>. QED  BY <1>1, <2>1, <2>2, <2>3 DEF Has
<1>4. ASSUME Has(a \o b, B)  PROVE Has(a, B) \/ Has(b, B)
  <2>1. PICK i \in 1..(Len(a) + Len(b)) : (a \o b)[i] \in B  BY <1>1, <1>4 DEF Has
  <2>2. CASE i <= Len(a)
    <3>1. i \in DOMAIN a /\ a[i] \in B  BY <1>1, <2>1, <2>2
    <3>. QED  BY <3>1 DEF Has
  <2>3. CASE ~(i <= Len(a))
    <3>1. i - Len(a) \in DOMAIN b /\ b[i - Len(a)] \in B  BY <1>1, <2>1, <2>3
    <3>. QED  BY <3>1 DEF Has
  <2>. QED  BY <2>2, <2>3
<1>. QED  BY <1>2, <1>3, <1>4

\* Taking a step breaks no promise, and leaves what the step has promised.
LEMMA LaterTail ==
  ASSUME NEW S, NEW s \in Seq(S), s # <<>>, NEW a, NEW B, Later(s, a, B)
  PROVE  /\ Later(Tail(s), a, B)
         /\ Head(s) = a => Has(Tail(s), B)
<1>1. /\ Len(s) \in Nat \ {0} /\ DOMAIN s = 1..Len(s)
      /\ DOMAIN Tail(s) = 1..(Len(s) - 1) /\ Head(s) = s[1]
      /\ \A i \in 1..(Len(s) - 1) : Tail(s)[i] = s[i + 1]
  OBVIOUS
<1>2. ASSUME NEW i \in 1..(Len(s) - 1), Tail(s)[i] = a
      PROVE  \E j \in DOMAIN Tail(s) : j > i /\ Tail(s)[j] \in B
  <2>1. i + 1 \in DOMAIN s /\ s[i + 1] = a  BY <1>1, <1>2
  <2>2. PICK j \in 1..Len(s) : j > i + 1 /\ s[j] \in B  BY <1>1, <2>1 DEF Later
  <2>3. /\ j - 1 \in 1..(Len(s) - 1) /\ j - 1 > i
        /\ Tail(s)[j - 1] = s[(j - 1) + 1] /\ (j - 1) + 1 = j
    BY <1>1, <2>2
  <2>. QED  BY <1>1, <2>2, <2>3
<1>3. ASSUME Head(s) = a  PROVE Has(Tail(s), B)
  <2>1. 1 \in DOMAIN s /\ s[1] = a  BY <1>1, <1>3
  <2>2. PICK j \in 1..Len(s) : j > 1 /\ s[j] \in B  BY <1>1, <2>1 DEF Later
  <2>3. Has(s, B) /\ j - 1 \in 1..(Len(s) - 1) /\ Tail(s)[j - 1] = s[(j - 1) + 1]
        /\ (j - 1) + 1 = j
    BY <1>1, <2>2 DEF Has
  <2>. QED  BY <1>1, <2>2, <2>3 DEF Has
<1>. QED  BY <1>1, <1>2, <1>3 DEF Later

\* In front of a sequence that ends in B, or without a, nothing is violated.
LEMMA LaterConcat ==
  ASSUME NEW S, NEW p \in Seq(S), NEW s \in Seq(S), NEW a, NEW B,
         Later(s, a, B), ~Has(p, {a}) \/ Has(s, B)
  PROVE  Later(p \o s, a, B)
<1>1. /\ Len(p) \in Nat /\ Len(s) \in Nat
      /\ DOMAIN p = 1..Len(p) /\ DOMAIN s = 1..Len(s)
      /\ DOMAIN (p \o s) = 1..(Len(p) + Len(s))
      /\ \A i \in 1..(Len(p) + Len(s)) :
           (p \o s)[i] = IF i <= Len(p) THEN p[i] ELSE s[i - Len(p)]
  OBVIOUS
<1>2. ASSUME NEW k \in 1..Len(s)
      PROVE  k + Len(p) \in 1..(Len(p) + Len(s)) /\ (p \o s)[k + Len(p)] = s[k]
  <2>1. /\ k + Len(p) \in 1..(Len(p) + Len(s)) /\ ~(k + Len(p) <= Len(p))
        /\ (k + Len(p)) - Len(p) = k
    BY <1>1
  <2>. QED  BY <1>1, <2>1
<1>3. ASSUME NEW i \in 1..(Len(p) + Len(s)), (p \o s)[i] = a
      PROVE  \E j \in 1..(Len(p) + Len(s)) : j > i /\ (p \o s)[j] \in B
  <2>1. CASE i <= Len(p)
    <3>1. i \in DOMAIN p /\ p[i] = a  BY <1>1, <1>3, <2>1
    <3>2. Has(p, {a})  BY <3>1 DEF Has
    <3>3. PICK k \in 1..Len(s) : s[k] \in B  BY <1>1, <3>2 DEF Has
    <3>4. k + Len(p) > i  BY <1>1, <2>1, <3>3
    <3>. QED  BY <1>2, <3>3, <3>4
  <2>2. CASE ~(i <= Len(p))
    <3>1. i - Len(p) \in 1..Len(s) /\ s[i - Len(p)] = a  BY <1>1, <1>3, <2>2
    <3>2. PICK k \in 1..Len(s) : k > i - Len(p) /\ s[k] \in B
      BY <1>1, <3>1 DEF Later
    <3>3. k + Len(p) > i  BY <1>1, <3>2
    <3>. QED  BY <1>2, <3>2, <3>3
  <2>. QED  BY <2>1, <2>2
<1>. QED  BY <1>1, <1>3 DEF Later

\* Where a does not occur, nothing is promised.
LEMMA LaterWithout ==
  ASSUME NEW s, NEW a, NEW B, ~Has(s, {a})
  PROVE  Later(s, a, B)
BY DEF Has, Later

\* Two sequences that keep their promises keep them together.
LEMMA LaterJoin ==
  ASSUME NEW S, NEW p \in Seq(S), NEW s \in Seq(S), NEW a, NEW B,
         Later(p, a, B), Later(s, a, B)
  PROVE  Later(p \o s, a, B)
<1>1. /\ Len(p) \in Nat /\ Len(s) \in Nat
      /\ DOMAIN p = 1..Len(p) /\ DOMAIN s = 1..Len(s)
      /\ DOMAIN (p \o s) = 1..(Len(p) + Len(s))
      /\ \A i \in 1..(Len(p) + Len(s)) :
           (p \o s)[i] = IF i <= Len(p) THEN p[i] ELSE s[i - Len(p)]
  OBVIOUS
<1>2. ASSUME NEW k \in 1..Len(s)
      PROVE  k + Len(p) \in 1..(Len(p) + Len(s)) /\ (p \o s)[k + Len(p)] = s[k]
  <2>1. /\ k + Len(p) \in 1..(Len(p) + Len(s)) /\ ~(k + Len(p) <= Len(p))
        /\ (k + Len(p)) - Len(p) = k
    BY <1>1
  <2>. QED  BY <1>1, <2>1
<1>3. ASSUME NEW i \in 1..(Len(p) + Len(s)), (p \o s)[i] = a
      PROVE  \E j \in 1..(Len(p) + Len(s)) : j > i /\ (p \o s)[j] \in B
  <2>1. CASE i <= Len(p)
    <3>1. i \in 1..Len(p) /\ p[i] = a  BY <1>1, <1>3, <2>1
    <3>2. PICK j \in 1..Len(p) : j > i /\ p[j] \in B  BY <1>1, <3>1 DEF Later
    <3>3. j \in 1..(Len(p) + Len(s)) /\ (p \o s)[j] = p[j]  BY <1>1, <3>2
    <3>. QED  BY <3>2, <3>3
  <2>2. CASE ~(i <= Len(p))
    <3>1. i - Len(p) \in 1..Len(s) /\ s[i - Len(p)] = a  BY <1>1, <1>3, <2>2
    <3>2. PICK k \in 1..Len(s) : k > i - Len(p) /\ s[k] \in B
      BY <1>1, <3>1 DEF Later
    <3>3. k + Len(p) > i  BY <1>1, <3>2
    <3>. QED  BY <1>2, <3>2, <3>3
  <2>. QED  BY <2>1, <2>2
<1>. QED  BY <1>1, <1>3 DEF Later

\* Taking a step from a sequence of two parts takes it from the first.
LEMMA TailConcat ==
  ASSUME NEW S, NEW a \in Seq(S), NEW b \in Seq(S), a # <<>>
  PROVE  Tail(a \o b) = Tail(a) \o b /\ Head(a \o b) = Head(a) /\ a \o b # <<>>
<1>. DEFINE l == Tail(a \o b)
            r == Tail(a) \o b
<1>1. /\ Len(a) \in Nat \ {0} /\ Len(b) \in Nat
      /\ Len(a \o b) = Len(a) + Len(b) /\ Len(Tail(a)) = Len(a) - 1
      /\ a \o b \in Seq(S) /\ Tail(a) \in Seq(S)
  OBVIOUS
<1>2. a \o b # <<>>  BY <1>1
<1>3. l \in Seq(S) /\ r \in Seq(S)  BY <1>1, <1>2
<1>4. Len(l) = Len(a) + Len(b) - 1 /\ Len(r) = Len(a) + Len(b) - 1  BY <1>1, <1>2
<1>5. ASSUME NEW i \in 1..(Len(a) + Len(b) - 1)  PROVE l[i] = r[i]
  BY <1>1, <1>2
<1>6. l = r  BY <1>3, <1>4, <1>5
<1>7. Head(a \o b) = Head(a)  BY <1>1, <1>2
<1>. QED  BY <1>2, <1>6, <1>7

\* Taking a step from a sequence that is written out.
LEMMA Literals ==
  ASSUME NEW a, NEW b, NEW c, NEW d
  PROVE  /\ Head(<<a>>) = a /\ Tail(<<a>>) = <<>>
         /\ Head(<<a, b>>) = a /\ Tail(<<a, b>>) = <<b>>
         /\ Head(<<a, b, c>>) = a /\ Tail(<<a, b, c>>) = <<b, c>>
         /\ Head(<<a, b, c, d>>) = a /\ Tail(<<a, b, c, d>>) = <<b, c, d>>
         /\ <<a>> # <<>> /\ <<a, b>> # <<>> /\ <<a, b, c>> # <<>> /\ <<a, b, c, d>> # <<>>
OBVIOUS

\* Putting two steps before a third.
LEMMA JoinLiterals ==
  ASSUME NEW a, NEW b, NEW c
  PROVE  <<a, b>> \o <<c>> = <<a, b, c>>
<1>. DEFINE S == {a, b, c}
<1>1. <<a, b>> \in Seq(S) /\ <<c>> \in Seq(S) /\ <<a, b, c>> \in Seq(S)  OBVIOUS
<1>2. Len(<<a, b>> \o <<c>>) = 3 /\ Len(<<a, b, c>>) = 3  OBVIOUS
<1>3. ASSUME NEW i \in 1..3  PROVE (<<a, b>> \o <<c>>)[i] = <<a, b, c>>[i]  OBVIOUS
<1>4. <<a, b>> \o <<c>> \in Seq(S)  BY <1>1, ConcatType
<1>. QED  BY <1>1, <1>2, <1>3, <1>4, SeqEqual

\* Putting one step before one or three others.
LEMMA PrependLiterals ==
  ASSUME NEW a, NEW b, NEW c, NEW d
  PROVE  <<a>> \o <<b>> = <<a, b>> /\ <<a>> \o <<b, c, d>> = <<a, b, c, d>>
<1>. DEFINE S == {a, b, c, d}
<1>1. /\ <<a>> \in Seq(S) /\ <<b>> \in Seq(S) /\ <<b, c, d>> \in Seq(S)
      /\ <<a, b>> \in Seq(S) /\ <<a, b, c, d>> \in Seq(S)
  OBVIOUS
<1>2. /\ Len(<<a>> \o <<b>>) = 2 /\ Len(<<a, b>>) = 2
      /\ \A i \in 1..2 : (<<a>> \o <<b>>)[i] = <<a, b>>[i]
  OBVIOUS
<1>3. /\ Len(<<a>> \o <<b, c, d>>) = 4 /\ Len(<<a, b, c, d>>) = 4
      /\ \A i \in 1..4 : (<<a>> \o <<b, c, d>>)[i] = <<a, b, c, d>>[i]
  OBVIOUS
<1>4. <<a>> \o <<b>> \in Seq(S) /\ <<a>> \o <<b, c, d>> \in Seq(S)
  BY <1>1, ConcatType
<1>5. <<a>> \o <<b>> = <<a, b>>  BY <1>1, <1>2, <1>4, SeqEqual
<1>6. <<a>> \o <<b, c, d>> = <<a, b, c, d>>  BY <1>1, <1>3, <1>4, SeqEqual
<1>. QED  BY <1>5, <1>6

\* The notification flag is a credit: it is armed by a switch, taken back by a
\* failure and spent by every event posted.
Credit == posted + (IF notify THEN 1 ELSE 0) <= accepted

-----------------------------------------------------------------------------
(* Sequences of steps                                                      *)

\* Every handler is a sequence of steps.
LEMMA HandlerTypes ==
  /\ SetMuteCamera \in Seq(Step)
  /\ SetMuteCameraPathOn \in Seq(Step) /\ SetMuteCameraPathOff \in Seq(Step)
  /\ SetMuteCameraOff \in Seq(Step) /\ SetMuteCameraPathFailed \in Seq(Step)
  /\ \A p : Release(p) \in Seq(Step)
  /\ \A p : Switch(p) \in Seq(Step)
<1>1. SetMuteCamera \in Seq(Step) /\ SetMuteCameraOff \in Seq(Step)
  BY DEF SetMuteCamera, SetMuteCameraOff, Step
<1>2. SetMuteCameraPathOn \in Seq(Step) /\ SetMuteCameraPathOff \in Seq(Step)
  <2>1. <<"pathOn">> \in Seq(Step) /\ <<"pathOff">> \in Seq(Step)  BY DEF Step
  <2>. QED  BY <1>1, <2>1, ConcatType DEF SetMuteCameraPathOn, SetMuteCameraPathOff
<1>3. SetMuteCameraPathFailed \in Seq(Step)
  <2>1. <<"notifyOff">> \in Seq(Step) /\ <<"failed">> \in Seq(Step)  BY DEF Step
  <2>2. <<"notifyOff">> \o SetMuteCameraOff \in Seq(Step)  BY <1>1, <2>1, ConcatType
  <2>. QED  BY <2>1, <2>2, ConcatType DEF SetMuteCameraPathFailed
<1>4. ASSUME NEW p PROVE Release(p) \in Seq(Step)
  <2>1. <<"result", "notify">> \in Seq(Step) /\ <<"success", "notify">> \in Seq(Step)
    BY DEF Step
  <2>2. ReleaseMuteCameraOn \in Seq(Step)
    BY <1>2, <2>1, ConcatType DEF ReleaseMuteCameraOn
  <2>3. ReleaseMuteCameraOff \in Seq(Step)
    BY <1>1, <2>1, ConcatType DEF ReleaseMuteCameraOff
  <2>. QED  BY <2>2, <2>3 DEF Release
<1>5. ASSUME NEW p PROVE Switch(p) \in Seq(Step)
  <2>1. <<"notifyOn", "stop">> \in Seq(Step) /\ <<"camera">> \in Seq(Step)
        /\ <<"layout">> \in Seq(Step) /\ <<>> \in Seq(Step)
    BY DEF Step
  <2>. DEFINE mid == IF p = NoPath THEN <<>> ELSE <<"camera">>
  <2>2. mid \in Seq(Step)  BY <2>1
  <2>3. <<"notifyOn", "stop">> \o mid \in Seq(Step)
    <3>. HIDE DEF mid
    <3>. QED  BY <2>1, <2>2, ConcatType
  <2>4. (<<"notifyOn", "stop">> \o mid) \o <<"layout">> \in Seq(Step)
    <3>. HIDE DEF mid
    <3>. QED  BY <2>1, <2>3, ConcatType
  <2>. QED  BY <2>4 DEF Switch, SetMuteCameraPath
<1>. QED  BY <1>1, <1>2, <1>3, <1>4, <1>5

\* A step of a thread keeps the type of todo.
LEMMA DoesType ==
  ASSUME TypeOK, NEW t \in Thread, NEW s, NEW then \in Seq(Step), Does(t, s, then)
  PROVE  todo' \in [Thread -> Seq(Step)] /\ overlap' \in BOOLEAN
<1>1. todo[t] \in Seq(Step) /\ todo[t] # <<>>  BY DEF TypeOK, Does, Busy
<1>2. Tail(todo[t]) \in Seq(Step)  BY <1>1, TailType
<1>3. then \o Tail(todo[t]) \in Seq(Step)  BY <1>2, ConcatType
<1>4. overlap' \in BOOLEAN  BY DEF Does, TypeOK
<1>. QED  BY <1>3, <1>4 DEF Does, TypeOK

-----------------------------------------------------------------------------
(* Steps inside CVhalMute                                                  *)

LEMMA MuteStepType ==
  ASSUME TypeOK, NEW t \in Thread, MuteStep(t)
  PROVE  TypeOK'
<1>0. <<>> \in Seq(Step) /\ <<"arg", "show">> \in Seq(Step)  BY DEF Step
<1>1. CASE SetPathFlag(t)
  <2>1. todo' \in [Thread -> Seq(Step)] /\ overlap' \in BOOLEAN
    BY <1>0, <1>1, DoesType DEF SetPathFlag
  <2>2. pathMute' \in BOOLEAN  BY <1>1 DEF SetPathFlag
  <2>3. UNCHANGED <<syncMute, powerMute, setting, notify, blinder, timer, local,
                    result, path, target, pathSync, visual, suspend, events,
                    open, accepted, posted, left>>
    BY <1>1 DEF SetPathFlag, mainVars, histVars
  <2>. QED  BY <2>1, <2>2, <2>3 DEF TypeOK
<1>2. CASE Decide(t)
  <2>1. todo' \in [Thread -> Seq(Step)] /\ overlap' \in BOOLEAN
    BY <1>0, <1>2, DoesType DEF Decide
  <2>2. local' \in [Thread -> BOOLEAN]  BY <1>2 DEF Decide, TypeOK
  <2>. QED  BY <1>2, <2>1, <2>2 DEF Decide, TypeOK, mainVars, histVars, flagVars
<1>3. CASE ChangeSetting(t)
  <2>1. todo' \in [Thread -> Seq(Step)] /\ overlap' \in BOOLEAN
    BY <1>0, <1>3, DoesType DEF ChangeSetting
  <2>2. setting' \in BOOLEAN  BY <1>3 DEF ChangeSetting, TypeOK
  <2>. QED  BY <1>3, <2>1, <2>2 DEF ChangeSetting, TypeOK, mainVars, histVars, flagVars
<1>4. CASE SetBlinderEnable(t)
  <2>1. todo' \in [Thread -> Seq(Step)] /\ overlap' \in BOOLEAN
    BY <1>0, <1>4, DoesType DEF SetBlinderEnable
  <2>2. local' \in [Thread -> BOOLEAN] /\ blinder' \in BOOLEAN
    BY <1>4 DEF SetBlinderEnable, TypeOK
  <2>. QED  BY <1>4, <2>1, <2>2 DEF SetBlinderEnable, TypeOK, mainVars, histVars, flagVars
<1>5. CASE ReleaseResult(t)
  <2>1. todo' \in [Thread -> Seq(Step)] /\ overlap' \in BOOLEAN
    BY <1>0, <1>5, DoesType DEF ReleaseResult
  <2>2. result' \in [Thread -> Result]  BY <1>5 DEF ReleaseResult, TypeOK, Result
  <2>. QED  BY <1>5, <2>1, <2>2 DEF ReleaseResult, TypeOK, mainVars, histVars, flagVars
<1>6. CASE NotifyCameraChanged(t)
  <2>1. todo' \in [Thread -> Seq(Step)] /\ overlap' \in BOOLEAN
    BY <1>0, <1>6, DoesType DEF NotifyCameraChanged
  <2>2. result[t] \in Result  BY DEF TypeOK
  <2>3. events' \in Seq(Result) /\ posted' \in Nat /\ notify' \in BOOLEAN
    <3>1. events \in Seq(Result) /\ posted \in Nat  BY DEF TypeOK
    <3>2. notify' = FALSE  BY <1>6 DEF NotifyCameraChanged
    <3>3. CASE notify /\ ~suspend
      <4>1. events' = Append(events, result[t]) /\ posted' = posted + 1
        BY <1>6, <3>3 DEF NotifyCameraChanged
      <4>2. events' \in Seq(Result) /\ posted' \in Nat  BY <2>2, <3>1, <4>1
      <4>. QED  BY <3>2, <4>2
    <3>4. CASE ~(notify /\ ~suspend)
      <4>1. events' = events /\ posted' = posted
        BY <1>6, <3>4 DEF NotifyCameraChanged
      <4>. QED  BY <3>1, <3>2, <4>1
    <3>. QED  BY <3>3, <3>4
  <2>. QED  BY <1>6, <2>1, <2>3 DEF NotifyCameraChanged, TypeOK, mainVars, flagVars
<1>. QED  BY <1>1, <1>2, <1>3, <1>4, <1>5, <1>6 DEF MuteStep

LEMMA MuteStepCredit ==
  ASSUME TypeOK, Credit, NEW t \in Thread, MuteStep(t)
  PROVE  Credit'
<1>1. CASE NotifyCameraChanged(t)
  <2>1. accepted' = accepted /\ notify' = FALSE  BY <1>1 DEF NotifyCameraChanged
  <2>2. posted' = (IF notify /\ ~suspend THEN posted + 1 ELSE posted)
    BY <1>1 DEF NotifyCameraChanged
  <2>. QED  BY <2>1, <2>2 DEF Credit, TypeOK
<1>2. CASE ~NotifyCameraChanged(t)
  <2>1. notify' = notify /\ posted' = posted /\ accepted' = accepted
    BY <1>2 DEF MuteStep, SetPathFlag, Decide, ChangeSetting, SetBlinderEnable,
                ReleaseResult, histVars
  <2>. QED  BY <2>1 DEF Credit
<1>. QED  BY <1>1, <1>2

-----------------------------------------------------------------------------
(* The timer                                                               *)

LEMMA TimerType ==
  ASSUME TypeOK, TimerFires \/ CallbackGuard \/ StopMuteTimer \/ StartMuteTimer
  PROVE  TypeOK'
<1>0. "main" \in Thread /\ "timer" \in Thread /\ <<>> \in Seq(Step)  BY DEF Thread
<1>1. CASE TimerFires
  <2>1. <<"guard">> \in Seq(Step)  BY DEF Step
  <2>2. <<"guard">> \o Release(timer) \in Seq(Step)
    BY <2>1, HandlerTypes, ConcatType
  <2>3. todo' \in [Thread -> Seq(Step)]  BY <1>1, <2>2 DEF TimerFires, TypeOK
  <2>4. overlap' \in BOOLEAN  BY <1>1 DEF TimerFires, TypeOK, Busy
  <2>. QED  BY <1>1, <2>3, <2>4 DEF TimerFires, TypeOK, flagVars, mainVars, histVars
<1>2. CASE CallbackGuard
  <2>1. todo["timer"] \in Seq(Step) /\ todo["timer"] # <<>>
    BY <1>0, <1>2 DEF CallbackGuard, TypeOK, Busy
  <2>2. Tail(todo["timer"]) \in Seq(Step) /\ <<>> \in Seq(Step)
    BY <2>1, TailType
  <2>3. todo' \in [Thread -> Seq(Step)]  BY <1>2, <2>2 DEF CallbackGuard, TypeOK
  <2>4. overlap' \in BOOLEAN  BY <1>2 DEF CallbackGuard, TypeOK, Busy
  <2>. QED  BY <1>2, <2>3, <2>4 DEF CallbackGuard, TypeOK, flagVars, mainVars, histVars
<1>3. ASSUME Busy("main")
      PROVE  Release(target) \o Tail(todo["main"]) \in Seq(Step)
  <2>1. todo["main"] \in Seq(Step) /\ todo["main"] # <<>>
    BY <1>0, <1>3 DEF TypeOK, Busy
  <2>. QED  BY <2>1, TailType, HandlerTypes, ConcatType
<1>4. CASE StopMuteTimer
  <2>1. <<"start">> \in Seq(Step)  BY DEF Step
  <2>2. SetMuteCameraPathOn \o <<"start">> \in Seq(Step)
    BY <2>1, HandlerTypes, ConcatType
  <2>3. todo' \in [Thread -> Seq(Step)] /\ overlap' \in BOOLEAN
    <3>1. CASE Does("main", "stop", SetMuteCameraPathOn \o <<"start">>)
      BY <1>0, <2>2, <3>1, DoesType
    <3>2. CASE ~Does("main", "stop", SetMuteCameraPathOn \o <<"start">>)
      <4>1. Busy("main") /\ overlap' = TRUE
            /\ todo' = [todo EXCEPT !["main"] = Release(target) \o Tail(@)]
        BY <1>4, <3>2 DEF StopMuteTimer
      <4>. QED  BY <1>3, <4>1 DEF TypeOK
    <3>. QED  BY <3>1, <3>2
  <2>4. timer' \in {"off", NoPath} \cup Paths  BY <1>4 DEF StopMuteTimer, TypeOK
  <2>. QED  BY <1>4, <2>3, <2>4 DEF StopMuteTimer, TypeOK, flagVars, mainVars, histVars
<1>5. CASE StartMuteTimer
  <2>1. todo' \in [Thread -> Seq(Step)] /\ overlap' \in BOOLEAN
    <3>1. CASE Does("main", "start", <<>>)
      BY <1>0, <3>1, DoesType
    <3>2. CASE ~Does("main", "start", <<>>)
      <4>1. Busy("main") /\ overlap' = TRUE
            /\ todo' = [todo EXCEPT !["main"] = Release(target) \o Tail(@)]
        BY <1>5, <3>2 DEF StartMuteTimer
      <4>. QED  BY <1>3, <4>1 DEF TypeOK
    <3>. QED  BY <3>1, <3>2
  <2>2. timer' \in {"off", NoPath} \cup Paths  BY <1>5 DEF StartMuteTimer, TypeOK
  <2>. QED  BY <1>5, <2>1, <2>2 DEF StartMuteTimer, TypeOK, flagVars, mainVars, histVars
<1>. QED  BY <1>1, <1>2, <1>4, <1>5

-----------------------------------------------------------------------------
(* The main thread's other steps                                           *)

LEMMA MainOtherType ==
  ASSUME TypeOK,
         SetNotifyCameraChanged \/ SwitchStep \/ SwitchFailed
           \/ StrSuspendPathClear \/ ReInit \/ SuspendResume
  PROVE  TypeOK'
<1>0. "main" \in Thread /\ <<>> \in Seq(Step)  BY DEF Thread
<1>1. CASE SetNotifyCameraChanged
  <2>1. todo' \in [Thread -> Seq(Step)] /\ overlap' \in BOOLEAN
    BY <1>0, <1>1, DoesType DEF SetNotifyCameraChanged
  <2>2. notify' \in BOOLEAN  BY <1>1 DEF SetNotifyCameraChanged
  <2>3. open' \in BOOLEAN  BY <1>1 DEF SetNotifyCameraChanged, TypeOK
  <2>4. accepted' \in Int
    <3>1. accepted' \in {accepted, accepted + 1, accepted - 1}
      BY <1>1 DEF SetNotifyCameraChanged
    <3>2. accepted \in Int  BY DEF TypeOK
    <3>. QED  BY <3>1, <3>2
  <2>. QED  BY <1>1, <2>1, <2>2, <2>3, <2>4 DEF SetNotifyCameraChanged, TypeOK, flagVars, mainVars
<1>2. CASE SwitchStep
  <2>1. todo' \in [Thread -> Seq(Step)] /\ overlap' \in BOOLEAN
    <3>1. CASE GiveUpSwitch
      BY <3>1, HandlerTypes DEF GiveUpSwitch, TypeOK
    <3>2. CASE ~GiveUpSwitch
      BY <1>0, <1>2, <3>2, DoesType DEF SwitchStep
    <3>. QED  BY <3>1, <3>2
  <2>2. path' \in Paths \cup {NoPath}  BY <1>2 DEF SwitchStep, GiveUpSwitch, TypeOK
  <2>. QED  BY <1>2, <2>1, <2>2 DEF SwitchStep, TypeOK, flagVars, histVars
<1>3. CASE SwitchFailed
  <2>1. todo' \in [Thread -> Seq(Step)] /\ overlap' \in BOOLEAN
    BY <1>0, <1>3, DoesType DEF SwitchFailed
  <2>2. open' \in BOOLEAN  BY <1>3 DEF SwitchFailed
  <2>. QED  BY <1>3, <2>1, <2>2 DEF SwitchFailed, TypeOK, flagVars, mainVars, histVars
<1>4. CASE StrSuspendPathClear
  <2>1. todo' \in [Thread -> Seq(Step)] /\ overlap' \in BOOLEAN
    BY <1>0, <1>4, DoesType, HandlerTypes DEF StrSuspendPathClear
  <2>2. path' \in Paths \cup {NoPath}  BY <1>4 DEF StrSuspendPathClear, TypeOK
  <2>. QED  BY <1>4, <2>1, <2>2 DEF StrSuspendPathClear, TypeOK, flagVars, histVars
<1>5. CASE ReInit
  <2>1. todo' \in [Thread -> Seq(Step)] /\ overlap' \in BOOLEAN
    BY <1>0, <1>5, DoesType DEF ReInit
  <2>2. timer' \in {"off", NoPath} \cup Paths  BY <1>5 DEF ReInit, TypeOK
  <2>3. pathSync' \in Sync  BY <1>5 DEF ReInit, Sync
  <2>. QED  BY <1>5, <2>1, <2>2, <2>3 DEF ReInit, TypeOK, histVars
<1>6. CASE SuspendResume
  <2>1. todo' \in [Thread -> Seq(Step)] /\ overlap' \in BOOLEAN
    BY <1>0, <1>6, DoesType DEF SuspendResume
  <2>2. suspend' \in BOOLEAN  BY <1>6 DEF SuspendResume
  <2>3. /\ events' = events \/ events' = <<>>
        /\ <<>> \in Seq(Result) /\ events \in Seq(Result)
    BY <1>6 DEF SuspendResume, TypeOK
  <2>4. events' \in Seq(Result)  BY <2>3
  <2>. QED  BY <1>6, <2>1, <2>2, <2>4 DEF SuspendResume, TypeOK, flagVars, mainVars, histVars
<1>. QED  BY <1>1, <1>2, <1>3, <1>4, <1>5, <1>6

-----------------------------------------------------------------------------
(* What the event loop begins                                              *)

LEMMA BeginsType ==
  ASSUME TypeOK, NEW k \in Kinds, NEW steps \in Seq(Step), Begins(k, steps)
  PROVE  todo' \in [Thread -> Seq(Step)] /\ left' \in [Kinds -> Nat]
<1>1. left[k] \in Nat /\ left[k] > 0  BY DEF TypeOK, Begins
<1>2. left[k] - 1 \in Nat  BY <1>1
<1>. QED  BY <1>2 DEF Begins, TypeOK

LEMMA OutsideType ==
  ASSUME TypeOK, Outside \/ UpdateCameraPathStatus
  PROVE  TypeOK'
<1>0. "switch" \in Kinds /\ "sense" \in Kinds /\ "reset" \in Kinds
      /\ <<>> \in Seq(Step)
  BY DEF Kinds
<1>1. CASE UpdateCameraPathStatus
  <2>1. events' \in Seq(Result)
    BY <1>1, TailType DEF UpdateCameraPathStatus, TypeOK
  <2>2. open' \in BOOLEAN  BY <1>1 DEF UpdateCameraPathStatus
  <2>. QED  BY <1>1, <2>1, <2>2 DEF UpdateCameraPathStatus, TypeOK, flagVars, mainVars, histVars
<1>2. ASSUME NEW p \in Paths \cup {NoPath}, ActionVpathCameraCurrent(p)
      PROVE  TypeOK'
  <2>1. todo' \in [Thread -> Seq(Step)] /\ left' \in [Kinds -> Nat]
    BY <1>0, <1>2, BeginsType, HandlerTypes DEF ActionVpathCameraCurrent
  <2>. QED  BY <1>2, <2>1 DEF ActionVpathCameraCurrent, TypeOK, flagVars
<1>3. ASSUME NEW s \in Sync, ActionCameraSync(s)  PROVE TypeOK'
  <2>. DEFINE steps == IF path # NoPath /\ pathSync # s THEN SetMuteCamera ELSE <<>>
  <2>1. steps \in Seq(Step)  BY <1>0, HandlerTypes
  <2>2. Begins("sense", steps)  BY <1>3 DEF ActionCameraSync
  <2>3. todo' \in [Thread -> Seq(Step)] /\ left' \in [Kinds -> Nat]
    <3>. HIDE DEF steps
    <3>. QED  BY <1>0, <2>1, <2>2, BeginsType
  <2>4. syncMute' \in BOOLEAN  BY <1>3 DEF ActionCameraSync
  <2>5. pathSync' \in Sync  BY <1>3 DEF ActionCameraSync, TypeOK
  <2>. QED  BY <1>3, <2>3, <2>4, <2>5 DEF ActionCameraSync, TypeOK
<1>4. ASSUME NEW on \in BOOLEAN, ActionCameraPowerState(on)  PROVE TypeOK'
  <2>. DEFINE steps == IF on # visual /\ path # NoPath THEN SetMuteCamera ELSE <<>>
  <2>1. steps \in Seq(Step)  BY <1>0, HandlerTypes
  <2>2. Begins("sense", steps)  BY <1>4 DEF ActionCameraPowerState
  <2>3. todo' \in [Thread -> Seq(Step)] /\ left' \in [Kinds -> Nat]
    <3>. HIDE DEF steps
    <3>. QED  BY <1>0, <2>1, <2>2, BeginsType
  <2>4. powerMute' \in BOOLEAN /\ visual' \in BOOLEAN
    BY <1>4 DEF ActionCameraPowerState, TypeOK
  <2>. QED  BY <1>4, <2>3, <2>4 DEF ActionCameraPowerState, TypeOK
<1>5. CASE ResetCapture
  <2>1. SetMuteCameraPathOn \o SetMuteCameraOff \in Seq(Step)
    BY HandlerTypes, ConcatType
  <2>2. todo' \in [Thread -> Seq(Step)] /\ left' \in [Kinds -> Nat]
    BY <1>0, <1>5, <2>1, BeginsType DEF ResetCapture
  <2>. QED  BY <1>5, <2>2 DEF ResetCapture, TypeOK, flagVars, mainVars
<1>6. CASE StrState
  <2>. DEFINE clear == IF path = NoPath THEN <<>>
                       ELSE SetMuteCameraPathOn \o <<"clearPath">>
              steps == ((<<"suspend">> \o clear) \o <<"reInit", "notifyOff">>)
                         \o SetMuteCamera \o <<"resume">>
  <2>1. <<"suspend">> \in Seq(Step) /\ <<"clearPath">> \in Seq(Step)
        /\ <<"reInit", "notifyOff">> \in Seq(Step) /\ <<"resume">> \in Seq(Step)
    BY DEF Step
  <2>2. clear \in Seq(Step)  BY <1>0, <2>1, HandlerTypes, ConcatType
  <2>3. steps \in Seq(Step)
    <3>. HIDE DEF clear
    <3>1. <<"suspend">> \o clear \in Seq(Step)  BY <2>1, <2>2, ConcatType
    <3>2. (<<"suspend">> \o clear) \o <<"reInit", "notifyOff">> \in Seq(Step)
      BY <2>1, <3>1, ConcatType
    <3>3. ((<<"suspend">> \o clear) \o <<"reInit", "notifyOff">>) \o SetMuteCamera
            \in Seq(Step)
      BY <3>2, HandlerTypes, ConcatType
    <3>. QED  BY <2>1, <3>3, ConcatType
  <2>4. Begins("reset", steps)  BY <1>6 DEF StrState
  <2>5. todo' \in [Thread -> Seq(Step)] /\ left' \in [Kinds -> Nat]
    <3>. HIDE DEF steps
    <3>. QED  BY <1>0, <2>3, <2>4, BeginsType
  <2>. QED  BY <1>6, <2>5 DEF StrState, TypeOK, flagVars, mainVars
<1>. QED  BY <1>1, <1>2, <1>3, <1>4, <1>5, <1>6 DEF Outside

-----------------------------------------------------------------------------
(* The theorems                                                            *)

LEMMA TypeStep == TypeOK /\ [Next]_vars => TypeOK'
<1>. SUFFICES ASSUME TypeOK, [Next]_vars PROVE TypeOK'
  OBVIOUS
<1>0. "main" \in Thread /\ "timer" \in Thread  BY DEF Thread
<1>1. CASE MuteStep("main") \/ MuteStep("timer")  BY <1>0, <1>1, MuteStepType
<1>2. CASE TimerFires \/ CallbackGuard \/ StopMuteTimer \/ StartMuteTimer
  BY <1>2, TimerType
<1>3. CASE SetNotifyCameraChanged \/ SwitchStep \/ SwitchFailed
             \/ StrSuspendPathClear \/ ReInit \/ SuspendResume
  BY <1>3, MainOtherType
<1>4. CASE Outside \/ UpdateCameraPathStatus  BY <1>4, OutsideType
<1>5. CASE UNCHANGED vars
  BY <1>5 DEF TypeOK, vars, flagVars, mainVars, histVars
<1>. QED  BY <1>1, <1>2, <1>3, <1>4, <1>5 DEF Next, MainStep, TimerStep

LEMMA CreditStep == TypeOK /\ Credit /\ [Next]_vars => Credit'
<1>. SUFFICES ASSUME TypeOK, Credit, [Next]_vars PROVE Credit'
  OBVIOUS
<1>0. "main" \in Thread /\ "timer" \in Thread  BY DEF Thread
<1>1. CASE MuteStep("main") \/ MuteStep("timer")  BY <1>0, <1>1, MuteStepCredit
<1>2. CASE SetNotifyCameraChanged
  <2>1. posted' = posted  BY <1>2 DEF SetNotifyCameraChanged
  <2>2. \/ notify' = TRUE /\ accepted' = (IF notify THEN accepted ELSE accepted + 1)
        \/ notify' = FALSE /\ accepted' = (IF notify THEN accepted - 1 ELSE accepted)
    BY <1>2 DEF SetNotifyCameraChanged
  <2>3. posted \in Nat /\ accepted \in Int  BY DEF TypeOK
  <2>4. CASE notify
    <3>1. posted + 1 <= accepted  BY <2>4 DEF Credit
    <3>2. \/ notify' = TRUE /\ accepted' = accepted
          \/ notify' = FALSE /\ accepted' = accepted - 1
      BY <2>2, <2>4
    <3>. QED  BY <2>1, <2>3, <3>1, <3>2 DEF Credit
  <2>5. CASE ~notify
    <3>1. posted + 0 <= accepted  BY <2>5 DEF Credit
    <3>2. \/ notify' = TRUE /\ accepted' = accepted + 1
          \/ notify' = FALSE /\ accepted' = accepted
      BY <2>2, <2>5
    <3>. QED  BY <2>1, <2>3, <3>1, <3>2 DEF Credit
  <2>. QED  BY <2>4, <2>5
<1>3. CASE \/ TimerFires \/ CallbackGuard \/ StopMuteTimer \/ StartMuteTimer
           \/ SwitchStep \/ SwitchFailed \/ StrSuspendPathClear \/ ReInit
           \/ SuspendResume \/ Outside \/ UpdateCameraPathStatus \/ UNCHANGED vars
  <2>1. notify' = notify /\ posted' = posted /\ accepted' = accepted
    BY <1>3 DEF TimerFires, CallbackGuard, StopMuteTimer, StartMuteTimer,
                SwitchStep, SwitchFailed, StrSuspendPathClear, ReInit,
                SuspendResume, Outside, ActionVpathCameraCurrent,
                ActionCameraSync, ActionCameraPowerState, ResetCapture, StrState,
                UpdateCameraPathStatus, vars, histVars
  <2>. QED  BY <2>1 DEF Credit
<1>. QED  BY <1>1, <1>2, <1>3 DEF Next, MainStep, TimerStep

LEMMA InitTyped == Init => TypeOK /\ Credit
<1>. SUFFICES ASSUME Init PROVE TypeOK /\ Credit
  OBVIOUS
<1>1. todo \in [Thread -> Seq(Step)]  BY DEF Init
<1>2. local \in [Thread -> BOOLEAN] /\ result \in [Thread -> Result]
  BY DEF Init, Result
<1>3. left \in [Kinds -> Nat]  BY MuteAssumption DEF Init
<1>4. /\ syncMute \in BOOLEAN /\ powerMute \in BOOLEAN /\ pathMute \in BOOLEAN
      /\ setting \in BOOLEAN /\ notify \in BOOLEAN /\ blinder \in BOOLEAN
      /\ visual \in BOOLEAN /\ suspend \in BOOLEAN /\ open \in BOOLEAN
      /\ overlap \in BOOLEAN
  BY DEF Init
<1>5. /\ timer \in {"off", NoPath} \cup Paths
      /\ path \in Paths \cup {NoPath} /\ target \in Paths \cup {NoPath}
      /\ pathSync \in Sync /\ events \in Seq(Result)
      /\ accepted \in Nat /\ posted \in Nat
  BY DEF Init, Sync
<1>6. TypeOK  BY <1>1, <1>2, <1>3, <1>4, <1>5 DEF TypeOK
<1>. QED  BY <1>6 DEF Init, Credit

\* Every variable keeps its type, in particular each thread's remaining steps
\* (the handlers of vhal_mute.cpp and those that call it).
THEOREM TypeCorrect == Spec => []TypeOK
<1>1. Init => TypeOK  BY InitTyped
<1>. QED  BY <1>1, TypeStep, PTL DEF Spec

\* No more camera-changed notifications are sent than were armed and not taken
\* back, for any number of switches, callbacks, failures, resets and suspends
\* (NotifyCameraChanged and SetNotifyCameraChanged under one mutex).
THEOREM AnswersCorrect == Spec => []OneAnswerPerSwitch
<1>1. TypeOK /\ Credit => OneAnswerPerSwitch
  BY DEF TypeOK, Credit, OneAnswerPerSwitch
<1>. QED  BY <1>1, InitTyped, TypeStep, CreditStep, PTL DEF Spec

-----------------------------------------------------------------------------
(* The shape of the main thread's remaining steps                          *)

Ends == {"pathOff", "start", "reInit"}
SwitchSteps == {"stop", "start", "camera", "layout"}

\* In a sequence of steps, with VideoHAL suspended or not: the switch mute is
\* followed by what ends it; a suspend is followed by the re-initialisation
\* and the resume, and holds no step of a switch.
MainOK(s, sus) ==
  /\ Later(s, "pathOn", Ends)
  /\ Later(s, "suspend", {"reInit"}) /\ Later(s, "suspend", {"resume"})
  /\ (sus \/ Has(s, {"suspend"})) =>
        (~Has(s, SwitchSteps) /\ Later(s, "pathOn", {"reInit"}))
  /\ sus => Has(s, {"resume"})

OwnerInv ==
  /\ MainOK(todo["main"], suspend)
  /\ ~Has(todo["timer"], {"pathOn"})
  /\ (suspend /\ pathMute) => Has(todo["main"], {"reInit"})
  /\ MuteHasOwner

LEMMA MainOKTail ==
  ASSUME NEW s \in Seq(Step), s # <<>>, NEW sus, MainOK(s, sus),
         Head(s) \notin {"suspend", "resume"}
  PROVE  MainOK(Tail(s), sus)
<1>1. /\ Later(Tail(s), "pathOn", Ends)
      /\ Later(Tail(s), "suspend", {"reInit"}) /\ Later(Tail(s), "suspend", {"resume"})
  BY LaterTail DEF MainOK
<1>2. Has(s, {"suspend"}) <=> Has(Tail(s), {"suspend"})  BY HasTail
<1>3. Has(s, {"resume"}) <=> Has(Tail(s), {"resume"})  BY HasTail
<1>4. ASSUME sus \/ Has(Tail(s), {"suspend"})
      PROVE  ~Has(Tail(s), SwitchSteps) /\ Later(Tail(s), "pathOn", {"reInit"})
  <2>1. ~Has(s, SwitchSteps) /\ Later(s, "pathOn", {"reInit"})
    BY <1>2, <1>4 DEF MainOK
  <2>2. ~Has(Tail(s), SwitchSteps)  BY <2>1, HasTail
  <2>3. Later(Tail(s), "pathOn", {"reInit"})  BY <2>1, LaterTail
  <2>. QED  BY <2>2, <2>3
<1>. QED  BY <1>1, <1>3, <1>4 DEF MainOK

LEMMA MainOKSuspend ==
  ASSUME NEW s \in Seq(Step), s # <<>>, MainOK(s, FALSE), Head(s) = "suspend"
  PROVE  MainOK(Tail(s), TRUE) /\ Has(Tail(s), {"reInit"})
<1>1. Has(s, {"suspend"})  BY HasTail
<1>2. ~Has(s, SwitchSteps) /\ Later(s, "pathOn", {"reInit"})  BY <1>1 DEF MainOK
<1>3. ~Has(Tail(s), SwitchSteps)  BY <1>2, HasTail
<1>4. Later(Tail(s), "pathOn", {"reInit"})  BY <1>2, LaterTail
<1>5. Has(Tail(s), {"reInit"}) /\ Has(Tail(s), {"resume"})  BY LaterTail DEF MainOK
<1>6. /\ Later(Tail(s), "pathOn", Ends)
      /\ Later(Tail(s), "suspend", {"reInit"}) /\ Later(Tail(s), "suspend", {"resume"})
  BY LaterTail DEF MainOK
<1>. QED  BY <1>3, <1>4, <1>5, <1>6 DEF MainOK

LEMMA MainOKResume ==
  ASSUME NEW s \in Seq(Step), s # <<>>, NEW sus, MainOK(s, sus), Head(s) = "resume"
  PROVE  MainOK(Tail(s), FALSE)
<1>1. /\ Later(Tail(s), "pathOn", Ends)
      /\ Later(Tail(s), "suspend", {"reInit"}) /\ Later(Tail(s), "suspend", {"resume"})
  BY LaterTail DEF MainOK
<1>2. ASSUME Has(Tail(s), {"suspend"})
      PROVE  ~Has(Tail(s), SwitchSteps) /\ Later(Tail(s), "pathOn", {"reInit"})
  <2>1. Has(s, {"suspend"})  BY <1>2, HasTail
  <2>2. ~Has(s, SwitchSteps) /\ Later(s, "pathOn", {"reInit"})  BY <2>1 DEF MainOK
  <2>3. ~Has(Tail(s), SwitchSteps)  BY <2>2, HasTail
  <2>4. Later(Tail(s), "pathOn", {"reInit"})  BY <2>2, LaterTail
  <2>. QED  BY <2>3, <2>4
<1>. QED  BY <1>1, <1>2 DEF MainOK

\* Steps that neither suspend, nor switch, nor set the mute may be put in front.
LEMMA MainOKConcat ==
  ASSUME NEW p \in Seq(Step), NEW s \in Seq(Step), NEW sus, MainOK(s, sus),
         ~Has(p, {"suspend"}), ~Has(p, SwitchSteps), ~Has(p, {"pathOn"})
  PROVE  MainOK(p \o s, sus)
<1>1. /\ Later(p \o s, "pathOn", Ends)
      /\ Later(p \o s, "suspend", {"reInit"}) /\ Later(p \o s, "suspend", {"resume"})
  BY LaterConcat DEF MainOK
<1>2. Has(p \o s, {"suspend"}) <=> Has(s, {"suspend"})  BY HasConcat
<1>3. ASSUME sus \/ Has(s, {"suspend"})
      PROVE  ~Has(p \o s, SwitchSteps) /\ Later(p \o s, "pathOn", {"reInit"})
  <2>1. ~Has(s, SwitchSteps) /\ Later(s, "pathOn", {"reInit"})  BY <1>3 DEF MainOK
  <2>2. ~Has(p \o s, SwitchSteps)  BY <2>1, HasConcat
  <2>3. Later(p \o s, "pathOn", {"reInit"})  BY <2>1, LaterConcat
  <2>. QED  BY <2>2, <2>3
<1>4. sus => Has(p \o s, {"resume"})
  <2>1. sus => Has(s, {"resume"})  BY DEF MainOK
  <2>. QED  BY <2>1, HasConcat
<1>. QED  BY <1>1, <1>2, <1>3, <1>4 DEF MainOK

\* A sequence without a suspend, in which the mute is set only to be ended.
LEMMA MainOKPlain ==
  ASSUME NEW s \in Seq(Step), ~Has(s, {"suspend"}), Later(s, "pathOn", Ends)
  PROVE  MainOK(s, FALSE)
BY LaterWithout DEF MainOK

-----------------------------------------------------------------------------
(* What the handlers hold                                                  *)

LEMMA HandlerSteps ==
  /\ \A B : Has(SetMuteCamera, B) <=> ("decide" \in B \/ "change" \in B)
  /\ \A B : Has(SetMuteCameraPathOn, B)
              <=> ("pathOn" \in B \/ "decide" \in B \/ "change" \in B)
  /\ \A B : Has(SetMuteCameraPathOff, B)
              <=> ("pathOff" \in B \/ "decide" \in B \/ "change" \in B)
  /\ \A B : Has(SetMuteCameraOff, B)
              <=> ("pathOff" \in B \/ "decideOff" \in B \/ "change" \in B)
  /\ \A B : Has(SetMuteCameraPathFailed, B)
              <=> \/ "notifyOff" \in B \/ "pathOff" \in B \/ "decideOff" \in B
                  \/ "change" \in B \/ "failed" \in B
<1>1. ASSUME NEW B  PROVE Has(SetMuteCamera, B) <=> ("decide" \in B \/ "change" \in B)
  BY HasLiteral DEF SetMuteCamera
<1>2. ASSUME NEW B
      PROVE  Has(SetMuteCameraPathOn, B)
               <=> ("pathOn" \in B \/ "decide" \in B \/ "change" \in B)
  <2>1. <<"pathOn">> \in Seq(Step)  BY DEF Step
  <2>2. Has(<<"pathOn">>, B) <=> "pathOn" \in B  BY HasLiteral
  <2>. QED  BY <1>1, <2>1, <2>2, HandlerTypes, HasConcat DEF SetMuteCameraPathOn
<1>3. ASSUME NEW B
      PROVE  Has(SetMuteCameraPathOff, B)
               <=> ("pathOff" \in B \/ "decide" \in B \/ "change" \in B)
  <2>1. <<"pathOff">> \in Seq(Step)  BY DEF Step
  <2>2. Has(<<"pathOff">>, B) <=> "pathOff" \in B  BY HasLiteral
  <2>. QED  BY <1>1, <2>1, <2>2, HandlerTypes, HasConcat DEF SetMuteCameraPathOff
<1>4. ASSUME NEW B
      PROVE  Has(SetMuteCameraOff, B)
               <=> ("pathOff" \in B \/ "decideOff" \in B \/ "change" \in B)
  BY HasLiteral DEF SetMuteCameraOff
<1>5. ASSUME NEW B
      PROVE  Has(SetMuteCameraPathFailed, B)
               <=> \/ "notifyOff" \in B \/ "pathOff" \in B \/ "decideOff" \in B
                   \/ "change" \in B \/ "failed" \in B
  <2>1. <<"notifyOff">> \in Seq(Step) /\ <<"failed">> \in Seq(Step)  BY DEF Step
  <2>2. <<"notifyOff">> \o SetMuteCameraOff \in Seq(Step)
    BY <2>1, HandlerTypes, ConcatType
  <2>3. (Has(<<"notifyOff">>, B) <=> "notifyOff" \in B)
        /\ (Has(<<"failed">>, B) <=> "failed" \in B)
    BY HasLiteral
  <2>4. Has(<<"notifyOff">> \o SetMuteCameraOff, B)
          <=> Has(<<"notifyOff">>, B) \/ Has(SetMuteCameraOff, B)
    BY <2>1, HandlerTypes, HasConcat
  <2>5. Has(SetMuteCameraPathFailed, B)
          <=> Has(<<"notifyOff">> \o SetMuteCameraOff, B) \/ Has(<<"failed">>, B)
    BY <2>1, <2>2, HasConcat DEF SetMuteCameraPathFailed
  <2>. QED  BY <1>4, <2>3, <2>4, <2>5
<1>. QED  BY <1>1, <1>2, <1>3, <1>4, <1>5

\* A release clears the mute, and does nothing else that matters here.
LEMMA ReleaseSteps ==
  ASSUME NEW p
  PROVE  /\ Has(Release(p), {"pathOff"})
         /\ ~Has(Release(p), {"pathOn"}) /\ ~Has(Release(p), {"suspend"})
         /\ ~Has(Release(p), SwitchSteps)
<1>1. <<"result", "notify">> \in Seq(Step) /\ <<"success", "notify">> \in Seq(Step)
  BY DEF Step
<1>2. ASSUME NEW B
      PROVE  /\ Has(<<"result", "notify">>, B) <=> ("result" \in B \/ "notify" \in B)
             /\ Has(<<"success", "notify">>, B) <=> ("success" \in B \/ "notify" \in B)
  BY HasLiteral
<1>3. ASSUME NEW B
      PROVE  Has(ReleaseMuteCameraOn, B)
               <=> Has(SetMuteCameraPathOff, B) \/ Has(<<"result", "notify">>, B)
  BY <1>1, HandlerTypes, HasConcat DEF ReleaseMuteCameraOn
<1>4. ASSUME NEW B
      PROVE  Has(ReleaseMuteCameraOff, B)
               <=> Has(SetMuteCameraOff, B) \/ Has(<<"success", "notify">>, B)
  BY <1>1, HandlerTypes, HasConcat DEF ReleaseMuteCameraOff
<1>5. /\ Has(ReleaseMuteCameraOn, {"pathOff"}) /\ ~Has(ReleaseMuteCameraOn, {"pathOn"})
      /\ ~Has(ReleaseMuteCameraOn, {"suspend"}) /\ ~Has(ReleaseMuteCameraOn, SwitchSteps)
  BY <1>2, <1>3, HandlerSteps DEF SwitchSteps
<1>6. /\ Has(ReleaseMuteCameraOff, {"pathOff"}) /\ ~Has(ReleaseMuteCameraOff, {"pathOn"})
      /\ ~Has(ReleaseMuteCameraOff, {"suspend"}) /\ ~Has(ReleaseMuteCameraOff, SwitchSteps)
  BY <1>2, <1>4, HandlerSteps DEF SwitchSteps
<1>. QED  BY <1>5, <1>6 DEF Release

-----------------------------------------------------------------------------
(* What the event loop begins is in that shape                             *)

\* Stopping the timer leads to its start again.
LEMMA MainOKStop ==
  ASSUME NEW s \in Seq(Step), s # <<>>, NEW sus \in BOOLEAN, MainOK(s, sus),
         Head(s) = "stop"
  PROVE  /\ ~sus
         /\ MainOK((SetMuteCameraPathOn \o <<"start">>) \o Tail(s), sus)
         /\ Has((SetMuteCameraPathOn \o <<"start">>) \o Tail(s), {"start"})
<1>. DEFINE p == SetMuteCameraPathOn \o <<"start">>
<1>0. <<"start">> \in Seq(Step)  BY DEF Step
<1>1. p \in Seq(Step)  BY <1>0, HandlerTypes, ConcatType
<1>2. Tail(s) \in Seq(Step)  BY TailType
<1>3. Has(s, SwitchSteps)  BY HasTail DEF SwitchSteps
<1>4. ~sus /\ ~Has(s, {"suspend"})  BY <1>3 DEF MainOK
<1>5. ASSUME NEW B  PROVE Has(p, B) <=> \/ "pathOn" \in B \/ "decide" \in B
                                        \/ "change" \in B \/ "start" \in B
  <2>1. Has(p, B) <=> Has(SetMuteCameraPathOn, B) \/ Has(<<"start">>, B)
    BY <1>0, HandlerTypes, HasConcat
  <2>2. Has(<<"start">>, B) <=> "start" \in B  BY HasLiteral
  <2>. QED  BY <2>1, <2>2, HandlerSteps
<1>6. Later(p, "pathOn", Ends)
  <2>. HIDE DEF p
  <2>1. \A B : Has(<<"start">>, B) <=> "start" \in B  BY HasLiteral
  <2>2. Has(<<"start">>, Ends) /\ ~Has(<<"start">>, {"pathOn"})
    BY <2>1 DEF Ends
  <2>3. Later(<<"start">>, "pathOn", Ends)  BY <2>2, LaterWithout
  <2>4. Later(SetMuteCameraPathOn \o <<"start">>, "pathOn", Ends)
    BY <1>0, <2>2, <2>3, HandlerTypes, LaterConcat
  <2>. QED  BY <2>4 DEF p
<1>. HIDE DEF p
<1>7. MainOK(Tail(s), sus)  BY MainOKTail
<1>8. Later(p \o Tail(s), "pathOn", Ends)
  BY <1>1, <1>2, <1>6, <1>7, LaterJoin DEF MainOK
<1>9. ~Has(p \o Tail(s), {"suspend"})
  <2>1. ~Has(Tail(s), {"suspend"})  BY <1>4, HasTail
  <2>2. ~Has(p, {"suspend"})  BY <1>5
  <2>. QED  BY <1>1, <1>2, <2>1, <2>2, HasConcat
<1>10. p \o Tail(s) \in Seq(Step)  BY <1>1, <1>2, ConcatType
<1>11. MainOK(p \o Tail(s), FALSE)  BY <1>8, <1>9, <1>10, MainOKPlain
<1>12. Has(p \o Tail(s), {"start"})
  <2>1. Has(p, {"start"})  BY <1>5
  <2>. QED  BY <1>1, <1>2, <2>1, HasConcat
<1>. QED  BY <1>4, <1>11, <1>12 DEF p

LEMMA HandlersOK ==
  /\ MainOK(<<>>, FALSE) /\ MainOK(SetMuteCamera, FALSE)
  /\ MainOK(SetMuteCameraPathFailed, FALSE)
  /\ MainOK(SetMuteCameraPathOn \o SetMuteCameraOff, FALSE)
  /\ \A p : MainOK(Switch(p), FALSE)
<1>0. <<>> \in Seq(Step)  OBVIOUS
<1>1. MainOK(<<>>, FALSE)
  <2>1. ~Has(<<>>, {"suspend"}) /\ ~Has(<<>>, {"pathOn"})  BY HasLiteral
  <2>. QED  BY <1>0, <2>1, LaterWithout, MainOKPlain
<1>2. MainOK(SetMuteCamera, FALSE) /\ MainOK(SetMuteCameraPathFailed, FALSE)
  <2>1. ~Has(SetMuteCamera, {"suspend"}) /\ ~Has(SetMuteCamera, {"pathOn"})
    BY HandlerSteps
  <2>2. /\ ~Has(SetMuteCameraPathFailed, {"suspend"})
        /\ ~Has(SetMuteCameraPathFailed, {"pathOn"})
    BY HandlerSteps
  <2>. QED  BY <2>1, <2>2, HandlerTypes, LaterWithout, MainOKPlain
<1>3. MainOK(SetMuteCameraPathOn \o SetMuteCameraOff, FALSE)
  <2>1. /\ Has(SetMuteCameraOff, Ends) /\ ~Has(SetMuteCameraOff, {"pathOn"})
        /\ ~Has(SetMuteCameraOff, {"suspend"})
        /\ ~Has(SetMuteCameraPathOn, {"suspend"})
    BY HandlerSteps DEF Ends
  <2>2. Later(SetMuteCameraOff, "pathOn", Ends)  BY <2>1, LaterWithout
  <2>3. Later(SetMuteCameraPathOn \o SetMuteCameraOff, "pathOn", Ends)
    BY <2>1, <2>2, HandlerTypes, LaterConcat
  <2>4. ~Has(SetMuteCameraPathOn \o SetMuteCameraOff, {"suspend"})
    BY <2>1, HandlerTypes, HasConcat
  <2>5. SetMuteCameraPathOn \o SetMuteCameraOff \in Seq(Step)
    BY HandlerTypes, ConcatType
  <2>. QED  BY <2>3, <2>4, <2>5, MainOKPlain
<1>4. ASSUME NEW p  PROVE MainOK(Switch(p), FALSE)
  <2>. DEFINE c == IF p = NoPath THEN <<>> ELSE <<"camera">>
  <2>1. /\ SetMuteCameraPath \in Seq(Step) /\ c \in Seq(Step)
        /\ <<"layout">> \in Seq(Step)
    <3>1. <<"notifyOn", "stop">> \in Seq(Step)  BY DEF Step
    <3>2. <<"camera">> \in Seq(Step) /\ <<"layout">> \in Seq(Step)  BY DEF Step
    <3>. QED  BY <3>1, <3>2, <1>0 DEF SetMuteCameraPath
  <2>2. ASSUME NEW x, x \notin {"notifyOn", "stop", "camera", "layout"}
        PROVE  ~Has(SetMuteCameraPath, {x}) /\ ~Has(c, {x}) /\ ~Has(<<"layout">>, {x})
    BY <2>2, HasLiteral DEF SetMuteCameraPath
  <2>3. Switch(p) = (SetMuteCameraPath \o c) \o <<"layout">>  BY DEF Switch
  <2>. HIDE DEF c
  <2>4. SetMuteCameraPath \o c \in Seq(Step) /\ Switch(p) \in Seq(Step)
    BY <2>1, <2>3, ConcatType
  <2>5. ASSUME NEW x, x \notin {"notifyOn", "stop", "camera", "layout"}
        PROVE  ~Has(Switch(p), {x})
    <3>1. ~Has(SetMuteCameraPath \o c, {x})  BY <2>1, <2>2, <2>5, HasConcat
    <3>2. ~Has(<<"layout">>, {x})  BY <2>2, <2>5
    <3>3. PICK l \in Seq(Step) : l = <<"layout">>  BY <2>1
    <3>4. ~Has(l, {x})  BY <3>2, <3>3
    <3>5. PICK m \in Seq(Step) : m = SetMuteCameraPath \o c  BY <2>4
    <3>6. ~Has(m, {x})  BY <3>1, <3>5
    <3>7. ~Has(m \o l, {x})  BY <3>4, <3>6, HasConcat
    <3>. QED  BY <2>3, <3>3, <3>5, <3>7
  <2>6. ~Has(Switch(p), {"suspend"}) /\ ~Has(Switch(p), {"pathOn"})  BY <2>5
  <2>. QED  BY <2>4, <2>6, LaterWithout, MainOKPlain
<1>. QED  BY <1>1, <1>2, <1>3, <1>4

\* The suspend and resume of the STR cycle.
LEMMA StrStateOK ==
  ASSUME NEW clear,
         clear = <<>> \/ clear = SetMuteCameraPathOn \o <<"clearPath">>
  PROVE  MainOK(<<"suspend">> \o clear \o <<"reInit", "notifyOff">>
                  \o SetMuteCamera \o <<"resume">>, FALSE)
<1>. DEFINE a == <<"suspend">> \o clear
            r == <<"reInit", "notifyOff">>
            s == ((a \o r) \o SetMuteCamera) \o <<"resume">>
<1>1. /\ <<"suspend">> \in Seq(Step) /\ <<"clearPath">> \in Seq(Step)
      /\ r \in Seq(Step) /\ <<"resume">> \in Seq(Step) /\ <<>> \in Seq(Step)
  BY DEF Step
<1>2. clear \in Seq(Step)  BY <1>1, HandlerTypes, ConcatType
<1>3. ~Has(clear, SwitchSteps)
  <2>0. \A B : ~Has(<<>>, B) /\ (Has(<<"clearPath">>, B) <=> "clearPath" \in B)
    BY HasLiteral
  <2>1. ~Has(<<>>, SwitchSteps) /\ ~Has(<<"clearPath">>, SwitchSteps)
    BY <2>0 DEF SwitchSteps
  <2>2. ~Has(SetMuteCameraPathOn, SwitchSteps)  BY HandlerSteps DEF SwitchSteps
  <2>3. ~Has(SetMuteCameraPathOn \o <<"clearPath">>, SwitchSteps)
    BY <1>1, <2>1, <2>2, HandlerTypes, HasConcat
  <2>. QED  BY <2>1, <2>3
<1>4. /\ ~Has(<<"suspend">>, SwitchSteps) /\ ~Has(<<"resume">>, SwitchSteps)
      /\ ~Has(r, SwitchSteps) /\ Has(r, {"reInit"})
      /\ ~Has(r, {"pathOn"}) /\ ~Has(r, {"suspend"})
      /\ ~Has(<<"resume">>, {"pathOn"}) /\ ~Has(<<"resume">>, {"suspend"})
      /\ Has(<<"resume">>, {"resume"})
  <2>. HIDE DEF a, s
  <2>1. \A B : /\ Has(<<"suspend">>, B) <=> "suspend" \in B
               /\ Has(<<"resume">>, B) <=> "resume" \in B
               /\ Has(<<"reInit", "notifyOff">>, B)
                     <=> "reInit" \in B \/ "notifyOff" \in B
    BY HasLiteral
  <2>. QED  BY <2>1 DEF SwitchSteps
<1>5. /\ ~Has(SetMuteCamera, SwitchSteps) /\ ~Has(SetMuteCamera, {"pathOn"})
      /\ ~Has(SetMuteCamera, {"suspend"})
  BY HandlerSteps DEF SwitchSteps
<1>. HIDE DEF r
<1>6. a \in Seq(Step) /\ ~Has(a, SwitchSteps)
  BY <1>1, <1>2, <1>3, <1>4, ConcatType, HasConcat
<1>. HIDE DEF a
<1>7. a \o r \in Seq(Step) /\ ~Has(a \o r, SwitchSteps)
  BY <1>1, <1>4, <1>6, ConcatType, HasConcat
<1>8. Later(a \o r, "pathOn", {"reInit"}) /\ Later(a \o r, "suspend", {"reInit"})
  <2>1. Later(r, "pathOn", {"reInit"}) /\ Later(r, "suspend", {"reInit"})
    BY <1>4, LaterWithout
  <2>. QED  BY <1>1, <1>4, <1>6, <2>1, LaterConcat
<1>. DEFINE q == (a \o r) \o SetMuteCamera
<1>9. q \in Seq(Step) /\ ~Has(q, SwitchSteps)
  BY <1>5, <1>7, HandlerTypes, ConcatType, HasConcat
<1>10. Later(q, "pathOn", {"reInit"}) /\ Later(q, "suspend", {"reInit"})
  <2>1. /\ Later(SetMuteCamera, "pathOn", {"reInit"})
        /\ Later(SetMuteCamera, "suspend", {"reInit"})
    BY <1>5, LaterWithout
  <2>. QED  BY <1>7, <1>8, <2>1, HandlerTypes, LaterJoin
<1>11. s = q \o <<"resume">>  OBVIOUS
<1>. HIDE DEF q, s
<1>12. ~Has(s, SwitchSteps)
  <2>1. PICK l \in Seq(Step) : l = <<"resume">>  BY <1>1
  <2>2. ~Has(l, SwitchSteps)  BY <1>4, <2>1
  <2>3. ~Has(q \o l, SwitchSteps)  BY <1>9, <2>2, HasConcat
  <2>. QED  BY <1>11, <2>1, <2>3
<1>13. Later(s, "pathOn", {"reInit"}) /\ Later(s, "suspend", {"reInit"})
  <2>1. /\ Later(<<"resume">>, "pathOn", {"reInit"})
        /\ Later(<<"resume">>, "suspend", {"reInit"})
    BY <1>4, LaterWithout
  <2>. QED  BY <1>1, <1>9, <1>10, <1>11, <2>1, LaterJoin
<1>14. Later(s, "suspend", {"resume"})
  <2>1. Later(<<"resume">>, "suspend", {"resume"})  BY <1>4, LaterWithout
  <2>. QED  BY <1>1, <1>4, <1>9, <1>11, <2>1, LaterConcat
<1>15. Later(s, "pathOn", Ends)  BY <1>13 DEF Later, Ends
<1>16. MainOK(s, FALSE)  BY <1>12, <1>13, <1>14, <1>15 DEF MainOK
<1>. QED  BY <1>16 DEF s, q, a, r

-----------------------------------------------------------------------------
(* Every step keeps OwnerInv                                               *)

\* The main thread takes a step that neither suspends, nor resumes, nor sets
\* the mute, and puts p in its place.
LEMMA MainPops ==
  ASSUME TypeOK, OwnerInv, NEW p \in Seq(Step),
         ~Has(p, {"suspend"}), ~Has(p, SwitchSteps), ~Has(p, {"pathOn"}),
         Busy("main"), Head(todo["main"]) \notin {"suspend", "resume"},
         todo' = [todo EXCEPT !["main"] = p \o Tail(@)], suspend' = suspend
  PROVE  /\ MainOK(todo'["main"], suspend')
         /\ todo'["timer"] = todo["timer"]
         /\ todo["main"] \in Seq(Step) /\ todo["main"] # <<>>
         /\ \A B : Has(todo'["main"], B)
                     <=> Has(p, B) \/ Has(Tail(todo["main"]), B)
<1>1. todo["main"] \in Seq(Step) /\ todo["main"] # <<>>
  BY DEF TypeOK, Thread, Busy
<1>2. todo'["main"] = p \o Tail(todo["main"]) /\ todo'["timer"] = todo["timer"]
  BY DEF TypeOK, Thread
<1>3. MainOK(Tail(todo["main"]), suspend)  BY <1>1, MainOKTail DEF OwnerInv
<1>4. Tail(todo["main"]) \in Seq(Step)  BY <1>1, TailType
<1>5. MainOK(p \o Tail(todo["main"]), suspend)  BY <1>3, <1>4, MainOKConcat
<1>6. ASSUME NEW B
      PROVE  Has(p \o Tail(todo["main"]), B)
               <=> Has(p, B) \/ Has(Tail(todo["main"]), B)
  BY <1>4, HasConcat
<1>. QED  BY <1>1, <1>2, <1>5, <1>6

\* Such a step may take away what ends the mute only if it ends the mute, arms
\* the timer or leaves another end in its place.
LEMMA MainKeeps ==
  ASSUME TypeOK, OwnerInv, NEW p \in Seq(Step),
         ~Has(p, {"suspend"}), ~Has(p, SwitchSteps), ~Has(p, {"pathOn"}),
         Busy("main"), Head(todo["main"]) \notin {"suspend", "resume"},
         todo' = [todo EXCEPT !["main"] = p \o Tail(@)], suspend' = suspend,
         \/ pathMute' = FALSE
         \/ /\ pathMute' = pathMute
            /\ timer' = timer \/ timer' # "off"
            /\ Head(todo["main"]) # "reInit"
            /\ \/ Head(todo["main"]) \notin Ends
               \/ Has(p, {"pathOff"}) \/ timer' # "off"
  PROVE  OwnerInv'
<1>1. /\ MainOK(todo'["main"], suspend')
      /\ todo'["timer"] = todo["timer"]
      /\ todo["main"] \in Seq(Step) /\ todo["main"] # <<>>
      /\ \A B : Has(todo'["main"], B)
                  <=> Has(p, B) \/ Has(Tail(todo["main"]), B)
  BY MainPops
<1>2. ~Has(todo'["timer"], {"pathOn"})  BY <1>1 DEF OwnerInv
<1>3. CASE pathMute' = FALSE
  BY <1>1, <1>2, <1>3 DEF OwnerInv, MuteHasOwner
<1>4. CASE /\ pathMute' = pathMute
           /\ timer' = timer \/ timer' # "off"
           /\ Head(todo["main"]) # "reInit"
           /\ \/ Head(todo["main"]) \notin Ends
              \/ Has(p, {"pathOff"}) \/ timer' # "off"
  <2>1. ASSUME NEW B, Has(todo["main"], B), Head(todo["main"]) \notin B
        PROVE  Has(todo'["main"], B)
    <3>1. Has(Tail(todo["main"]), B)  BY <1>1, <2>1, HasTail
    <3>. QED  BY <1>1, <3>1
  <2>2. (suspend' /\ pathMute') => Has(todo'["main"], {"reInit"})
    BY <1>4, <2>1 DEF OwnerInv
  <2>3. Has(p, {"pathOff"}) => Has(todo'["main"], Ends)
    <3>1. Has(p, {"pathOff"}) => Has(p, Ends)  BY DEF Has, Ends
    <3>. QED  BY <1>1, <3>1
  <2>4. Has(todo["main"], Ends) =>
          \/ Has(todo'["main"], Ends) \/ timer' # "off"
    BY <1>4, <2>1, <2>3
  <2>5. MuteHasOwner'
    <3>1. pathMute => \/ timer # "off" \/ Has(todo["timer"], {"pathOff"})
                      \/ Has(todo["main"], Ends)
      BY DEF OwnerInv, MuteHasOwner, Ends
    <3>2. pathMute' => \/ timer' # "off" \/ Has(todo'["timer"], {"pathOff"})
                       \/ Has(todo'["main"], Ends)
      BY <1>1, <1>4, <2>4, <3>1
    <3>. QED  BY <3>2 DEF MuteHasOwner, Ends
  <2>. QED  BY <1>1, <1>2, <2>2, <2>5 DEF OwnerInv
<1>. QED  BY <1>3, <1>4

\* The same for the timer library's thread.
LEMMA TimerKeeps ==
  ASSUME TypeOK, OwnerInv, NEW p \in Seq(Step), ~Has(p, {"pathOn"}),
         Busy("timer"),
         todo' = [todo EXCEPT !["timer"] = p \o Tail(@)],
         suspend' = suspend, timer' = timer,
         \/ pathMute' = FALSE
         \/ pathMute' = pathMute /\ Head(todo["timer"]) # "pathOff"
  PROVE  OwnerInv'
<1>1. todo["timer"] \in Seq(Step) /\ todo["timer"] # <<>>
  BY DEF TypeOK, Thread, Busy
<1>2. todo'["timer"] = p \o Tail(todo["timer"]) /\ todo'["main"] = todo["main"]
  BY DEF TypeOK, Thread
<1>3. Tail(todo["timer"]) \in Seq(Step)  BY <1>1, TailType
<1>4. \A B : Has(todo'["timer"], B) <=> Has(p, B) \/ Has(Tail(todo["timer"]), B)
  <2>1. ASSUME NEW B
        PROVE  Has(p \o Tail(todo["timer"]), B)
                 <=> Has(p, B) \/ Has(Tail(todo["timer"]), B)
    BY <1>3, HasConcat
  <2>. QED  BY <1>2, <2>1
<1>5. ~Has(todo'["timer"], {"pathOn"})
  <2>1. ~Has(Tail(todo["timer"]), {"pathOn"})  BY <1>1, HasTail DEF OwnerInv
  <2>. QED  BY <1>4, <2>1
<1>6. MainOK(todo'["main"], suspend')  BY <1>2 DEF OwnerInv
<1>7. CASE pathMute' = FALSE
  BY <1>5, <1>6, <1>7 DEF OwnerInv, MuteHasOwner
<1>8. CASE pathMute' = pathMute /\ Head(todo["timer"]) # "pathOff"
  <2>1. Has(todo["timer"], {"pathOff"}) => Has(Tail(todo["timer"]), {"pathOff"})
    BY <1>1, <1>8, HasTail
  <2>2. Has(todo["timer"], {"pathOff"}) => Has(todo'["timer"], {"pathOff"})
    BY <1>4, <2>1
  <2>. QED  BY <1>2, <1>5, <1>6, <1>8, <2>2 DEF OwnerInv, MuteHasOwner
<1>. QED  BY <1>7, <1>8

\* A step inside CVhalMute puts nothing that matters in its place, and touches
\* the mute of the switch only to set or to clear it.
LEMMA MuteStepShape ==
  ASSUME NEW t \in Thread, MuteStep(t)
  PROVE  \E s \in Step, p \in {<<>>, <<"arg", "show">>} :
           /\ Does(t, s, p) /\ suspend' = suspend /\ timer' = timer
           /\ s \notin {"suspend", "resume", "start", "reInit"}
           /\ \/ s = "pathOn"
              \/ s = "pathOff" /\ pathMute' = FALSE
              \/ s \notin {"pathOn", "pathOff"} /\ pathMute' = pathMute
<1>1. CASE SetPathFlag(t)  BY <1>1 DEF SetPathFlag, Step
<1>2. CASE Decide(t)  BY <1>2 DEF Decide, Step, flagVars
<1>3. CASE ChangeSetting(t)
  <2>1. PICK p \in {<<>>, <<"arg", "show">>} : Does(t, "change", p)
    BY <1>3 DEF ChangeSetting
  <2>2. pathMute' = pathMute /\ suspend' = suspend /\ timer' = timer
    BY <1>3 DEF ChangeSetting, flagVars
  <2>. QED  BY <2>1, <2>2 DEF Step
<1>4. CASE SetBlinderEnable(t)  BY <1>4 DEF SetBlinderEnable, Step, flagVars
<1>5. CASE ReleaseResult(t)  BY <1>5 DEF ReleaseResult, Step, flagVars
<1>6. CASE NotifyCameraChanged(t)  BY <1>6 DEF NotifyCameraChanged, Step, flagVars
<1>. QED  BY <1>1, <1>2, <1>3, <1>4, <1>5, <1>6 DEF MuteStep

LEMMA MuteStepOwner ==
  ASSUME TypeOK, OwnerInv, NEW t \in Thread, MuteStep(t)
  PROVE  OwnerInv'
<1>1. PICK s \in Step, p \in {<<>>, <<"arg", "show">>} :
           /\ Does(t, s, p) /\ suspend' = suspend /\ timer' = timer
           /\ s \notin {"suspend", "resume", "start", "reInit"}
           /\ \/ s = "pathOn"
              \/ s = "pathOff" /\ pathMute' = FALSE
              \/ s \notin {"pathOn", "pathOff"} /\ pathMute' = pathMute
  BY MuteStepShape
<1>2. /\ Busy(t) /\ Head(todo[t]) = s
      /\ todo' = [todo EXCEPT ![t] = p \o Tail(@)]
  BY <1>1 DEF Does
<1>3. p \in Seq(Step)
  <2>1. <<>> \in Seq(Step) /\ <<"arg", "show">> \in Seq(Step)  BY DEF Step
  <2>. QED  BY <2>1
<1>4. /\ ~Has(p, {"suspend"}) /\ ~Has(p, SwitchSteps) /\ ~Has(p, {"pathOn"})
  <2>1. \A B : /\ ~Has(<<>>, B)
               /\ Has(<<"arg", "show">>, B) <=> "arg" \in B \/ "show" \in B
    BY HasLiteral
  <2>. QED  BY <2>1 DEF SwitchSteps
<1>5. todo[t] \in Seq(Step) /\ todo[t] # <<>>  BY <1>2 DEF TypeOK, Busy
<1>6. CASE t = "main" /\ s = "pathOn"
  <2>1. /\ MainOK(todo'["main"], suspend')
        /\ todo'["timer"] = todo["timer"]
        /\ \A B : Has(todo'["main"], B)
                    <=> Has(p, B) \/ Has(Tail(todo["main"]), B)
    BY <1>1, <1>2, <1>3, <1>4, <1>6, MainPops
  <2>2. Later(todo["main"], "pathOn", Ends)  BY DEF OwnerInv, MainOK
  <2>3. Has(Tail(todo["main"]), Ends)  BY <1>2, <1>5, <1>6, <2>2, LaterTail
  <2>4. suspend => Later(todo["main"], "pathOn", {"reInit"})
    BY DEF OwnerInv, MainOK
  <2>5. suspend => Has(Tail(todo["main"]), {"reInit"})
    BY <1>2, <1>5, <1>6, <2>4, LaterTail
  <2>6. ~Has(todo'["timer"], {"pathOn"})  BY <2>1 DEF OwnerInv
  <2>7. suspend' => Has(todo'["main"], {"reInit"})  BY <1>1, <2>1, <2>5
  <2>8. Has(todo'["main"], Ends)  BY <2>1, <2>3
  <2>. QED  BY <2>1, <2>6, <2>7, <2>8 DEF OwnerInv, MuteHasOwner, Ends
<1>7. CASE t = "main" /\ s # "pathOn"
  <2>1. \/ pathMute' = FALSE
        \/ /\ pathMute' = pathMute
           /\ timer' = timer \/ timer' # "off"
           /\ Head(todo["main"]) # "reInit"
           /\ \/ Head(todo["main"]) \notin Ends
              \/ Has(p, {"pathOff"}) \/ timer' # "off"
    BY <1>1, <1>2, <1>7 DEF Ends
  <2>2. Busy("main") /\ Head(todo["main"]) \notin {"suspend", "resume"}
    BY <1>1, <1>2, <1>7
  <2>3. todo' = [todo EXCEPT !["main"] = p \o Tail(@)] /\ suspend' = suspend
    BY <1>1, <1>2, <1>7
  <2>. QED  BY <1>3, <1>4, <2>1, <2>2, <2>3, MainKeeps
<1>8. CASE t = "timer"
  <2>1. s # "pathOn"
    <3>1. Has(todo["timer"], {"pathOn"}) <=>
            Head(todo["timer"]) \in {"pathOn"} \/ Has(Tail(todo["timer"]), {"pathOn"})
      BY <1>5, <1>8, HasTail
    <3>. QED  BY <1>2, <1>8, <3>1 DEF OwnerInv
  <2>2. \/ pathMute' = FALSE
        \/ pathMute' = pathMute /\ Head(todo["timer"]) # "pathOff"
    BY <1>1, <1>2, <1>8, <2>1
  <2>3. /\ Busy("timer") /\ suspend' = suspend /\ timer' = timer
        /\ todo' = [todo EXCEPT !["timer"] = p \o Tail(@)]
    BY <1>1, <1>2, <1>8
  <2>. QED  BY <1>3, <1>4, <2>2, <2>3, TimerKeeps
<1>. QED  BY <1>6, <1>7, <1>8 DEF Thread

LEMMA TimerOwner ==
  ASSUME TypeOK, OwnerInv, TimerFires \/ CallbackGuard
  PROVE  OwnerInv'
<1>1. CASE TimerFires
  <2>1. <<"guard">> \in Seq(Step) /\ Release(timer) \in Seq(Step)
    <3>1. <<"guard">> \in Seq(Step)  BY DEF Step
    <3>. QED  BY <3>1, HandlerTypes
  <2>2. /\ todo'["timer"] = <<"guard">> \o Release(timer)
        /\ todo'["main"] = todo["main"]
        /\ suspend' = suspend /\ pathMute' = pathMute
    BY <1>1 DEF TimerFires, TypeOK, Thread, flagVars
  <2>3. PICK g \in Seq(Step) : g = <<"guard">>  BY <2>1
  <2>4. ~Has(g, {"pathOn"})
    <3>1. \A B : Has(<<"guard">>, B) <=> "guard" \in B  BY HasLiteral
    <3>. QED  BY <2>3, <3>1
  <2>5. ~Has(g \o Release(timer), {"pathOn"}) /\ Has(g \o Release(timer), {"pathOff"})
    BY <2>1, <2>4, ReleaseSteps, HasConcat
  <2>6. ~Has(todo'["timer"], {"pathOn"}) /\ Has(todo'["timer"], {"pathOff"})
    BY <2>2, <2>3, <2>5
  <2>. QED  BY <2>2, <2>6 DEF OwnerInv, MuteHasOwner
<1>2. CASE CallbackGuard /\ suspend
  <2>1. /\ todo'["timer"] = <<>> /\ todo'["main"] = todo["main"]
        /\ suspend' = suspend /\ pathMute' = pathMute
    BY <1>2 DEF CallbackGuard, TypeOK, Thread, flagVars
  <2>2. \A B : ~Has(<<>>, B)  BY HasLiteral
  <2>3. pathMute => Has(todo["main"], {"reInit"})  BY <1>2 DEF OwnerInv
  <2>4. pathMute => Has(todo["main"], Ends)
    <3>1. Has(todo["main"], {"reInit"}) => Has(todo["main"], Ends)  BY DEF Has, Ends
    <3>. QED  BY <2>3, <3>1
  <2>. QED  BY <2>1, <2>2, <2>3, <2>4 DEF OwnerInv, MuteHasOwner, Ends
<1>3. CASE CallbackGuard /\ ~suspend
  <2>1. todo["timer"] \in Seq(Step) /\ todo["timer"] # <<>>
    BY <1>3 DEF CallbackGuard, TypeOK, Thread, Busy
  <2>2. Head(todo["timer"]) = "guard"  BY <1>3 DEF CallbackGuard
  <2>3. /\ todo'["timer"] = Tail(todo["timer"]) /\ todo'["main"] = todo["main"]
        /\ suspend' = suspend /\ pathMute' = pathMute /\ timer' = timer
    BY <1>3 DEF CallbackGuard, TypeOK, Thread, flagVars
  <2>4. ~Has(todo'["timer"], {"pathOn"})  BY <2>1, <2>3, HasTail DEF OwnerInv
  <2>5. Has(todo["timer"], {"pathOff"}) => Has(todo'["timer"], {"pathOff"})
    BY <2>1, <2>2, <2>3, HasTail
  <2>. QED  BY <2>3, <2>4, <2>5 DEF OwnerInv, MuteHasOwner
<1>. QED  BY <1>1, <1>2, <1>3

LEMMA NothingHas ==
  /\ <<>> \in Seq(Step) /\ ~Has(<<>>, {"suspend"})
  /\ ~Has(<<>>, SwitchSteps) /\ ~Has(<<>>, {"pathOn"})
<1>1. <<>> \in Seq(Step)  OBVIOUS
<1>2. \A B : ~Has(<<>>, B)  BY HasLiteral
<1>. QED  BY <1>1, <1>2

LEMMA StopStartOwner ==
  ASSUME TypeOK, OwnerInv, StopMuteTimer \/ StartMuteTimer
  PROVE  OwnerInv'
<1>0. /\ todo["main"] \in Seq(Step) /\ todo["main"] # <<>> /\ Busy("main")
      /\ Head(todo["main"]) \in {"stop", "start"}
  BY DEF TypeOK, Thread, Busy, StopMuteTimer, StartMuteTimer, Does
<1>1. suspend' = suspend /\ pathMute' = pathMute
  BY DEF StopMuteTimer, StartMuteTimer, flagVars
<1>2. /\ Release(target) \in Seq(Step) /\ Has(Release(target), {"pathOff"})
      /\ ~Has(Release(target), {"pathOn"}) /\ ~Has(Release(target), {"suspend"})
      /\ ~Has(Release(target), SwitchSteps)
  BY ReleaseSteps, HandlerTypes
<1>3. CASE todo' = [todo EXCEPT !["main"] = Release(target) \o Tail(@)]
             /\ timer' = timer
  BY <1>0, <1>1, <1>2, <1>3, MainKeeps
<1>4. CASE Does("main", "stop", SetMuteCameraPathOn \o <<"start">>)
  <2>1. Head(todo["main"]) = "stop"  BY <1>4 DEF Does
  <2>2. /\ todo'["main"] = (SetMuteCameraPathOn \o <<"start">>) \o Tail(todo["main"])
        /\ todo'["timer"] = todo["timer"]
    BY <1>4 DEF Does, TypeOK, Thread
  <2>3. MainOK(todo["main"], suspend) /\ suspend \in BOOLEAN
    BY DEF OwnerInv, TypeOK
  <2>4. /\ ~suspend
        /\ MainOK((SetMuteCameraPathOn \o <<"start">>) \o Tail(todo["main"]), suspend)
        /\ Has((SetMuteCameraPathOn \o <<"start">>) \o Tail(todo["main"]), {"start"})
    BY <1>0, <2>1, <2>3, MainOKStop
  <2>5. MainOK(todo'["main"], suspend') /\ Has(todo'["main"], {"start"})
    BY <1>1, <2>2, <2>4
  <2>6. Has(todo'["main"], Ends)  BY <2>5 DEF Has, Ends
  <2>. QED  BY <1>1, <2>2, <2>4, <2>5, <2>6 DEF OwnerInv, MuteHasOwner, Ends
<1>5. CASE Does("main", "start", <<>>) /\ timer' = target
  <2>1. /\ <<>> \in Seq(Step) /\ ~Has(<<>>, {"suspend"})
        /\ ~Has(<<>>, SwitchSteps) /\ ~Has(<<>>, {"pathOn"})
    BY NothingHas
  <2>2. timer' # "off"  BY <1>5, MuteAssumption DEF TypeOK
  <2>3. todo' = [todo EXCEPT !["main"] = <<>> \o Tail(@)]
        /\ Head(todo["main"]) = "start"
    BY <1>5 DEF Does
  <2>. QED  BY <1>0, <1>1, <2>1, <2>2, <2>3, MainKeeps
<1>6. \/ todo' = [todo EXCEPT !["main"] = Release(target) \o Tail(@)]
         /\ timer' = timer
      \/ Does("main", "stop", SetMuteCameraPathOn \o <<"start">>)
      \/ Does("main", "start", <<>>) /\ timer' = target
  BY DEF StopMuteTimer, StartMuteTimer
<1>. QED  BY <1>3, <1>4, <1>5, <1>6

LEMMA MainOtherOwner ==
  ASSUME TypeOK, OwnerInv,
         SetNotifyCameraChanged \/ SwitchStep \/ SwitchFailed
           \/ StrSuspendPathClear \/ ReInit \/ SuspendResume
  PROVE  OwnerInv'
<1>0. /\ <<>> \in Seq(Step) /\ ~Has(<<>>, {"suspend"})
      /\ ~Has(<<>>, SwitchSteps) /\ ~Has(<<>>, {"pathOn"})
  BY NothingHas
<1>1. ASSUME NEW s, Does("main", s, <<>>),
             s \notin {"suspend", "resume", "reInit"} \cup Ends,
             pathMute' = pathMute, timer' = timer, suspend' = suspend
      PROVE  OwnerInv'
  <2>1. /\ Busy("main") /\ Head(todo["main"]) = s
        /\ todo' = [todo EXCEPT !["main"] = <<>> \o Tail(@)]
    BY <1>1 DEF Does
  <2>. QED  BY <1>0, <1>1, <2>1, MainKeeps
<1>2. CASE SetNotifyCameraChanged
  BY <1>1, <1>2 DEF SetNotifyCameraChanged, flagVars, Ends
<1>3. CASE SwitchStep /\ ~GiveUpSwitch
  BY <1>1, <1>3 DEF SwitchStep, flagVars, Ends
<1>4. CASE SwitchStep /\ GiveUpSwitch
  <2>1. /\ todo["main"] \in Seq(Step) /\ todo["main"] # <<>>
        /\ Head(todo["main"]) \in SwitchSteps
    BY <1>4 DEF GiveUpSwitch, TypeOK, Thread, Busy, SwitchSteps
  <2>2. Has(todo["main"], SwitchSteps)  BY <2>1, HasTail
  <2>3. ~suspend  BY <2>2 DEF OwnerInv, MainOK
  <2>4. /\ todo'["main"] = SetMuteCameraPathFailed /\ todo'["timer"] = todo["timer"]
        /\ suspend' = suspend
    BY <1>4 DEF SwitchStep, GiveUpSwitch, TypeOK, Thread
  <2>5. MainOK(SetMuteCameraPathFailed, FALSE)  BY HandlersOK
  <2>6. Has(SetMuteCameraPathFailed, Ends)  BY HandlerSteps DEF Ends
  <2>7. suspend = FALSE  BY <2>3 DEF TypeOK
  <2>. QED  BY <2>4, <2>5, <2>6, <2>7 DEF OwnerInv, MuteHasOwner, Ends
<1>5. CASE SwitchFailed
  BY <1>1, <1>5 DEF SwitchFailed, flagVars, Ends
<1>6. CASE StrSuspendPathClear
  <2>1. pathMute' = pathMute /\ timer' = timer /\ suspend' = suspend
    BY <1>6 DEF StrSuspendPathClear, flagVars
  <2>2. CASE Does("main", "clearPath", <<>>)
    BY <1>1, <2>1, <2>2 DEF Ends
  <2>3. CASE Does("main", "clearPath", SetMuteCameraPathOff)
    <3>1. /\ SetMuteCameraPathOff \in Seq(Step)
          /\ ~Has(SetMuteCameraPathOff, {"suspend"})
          /\ ~Has(SetMuteCameraPathOff, SwitchSteps)
          /\ ~Has(SetMuteCameraPathOff, {"pathOn"})
      BY HandlerTypes, HandlerSteps DEF SwitchSteps
    <3>2. /\ Busy("main") /\ Head(todo["main"]) = "clearPath"
          /\ todo' = [todo EXCEPT !["main"] = SetMuteCameraPathOff \o Tail(@)]
      BY <2>3 DEF Does
    <3>3. Head(todo["main"]) \notin Ends \cup {"suspend", "resume", "reInit"}
      BY <3>2 DEF Ends
    <3>. QED  BY <2>1, <3>1, <3>2, <3>3, MainKeeps
  <2>. QED  BY <1>6, <2>2, <2>3 DEF StrSuspendPathClear
<1>7. CASE ReInit
  <2>1. /\ Busy("main") /\ Head(todo["main"]) = "reInit"
        /\ todo' = [todo EXCEPT !["main"] = <<>> \o Tail(@)]
        /\ pathMute' = FALSE /\ suspend' = suspend
    BY <1>7 DEF ReInit, Does
  <2>. QED  BY <1>0, <2>1, MainKeeps
<1>8. CASE SuspendResume
  <2>1. /\ todo["main"] \in Seq(Step) /\ todo["main"] # <<>>
        /\ Head(todo["main"]) \in {"suspend", "resume"}
        /\ pathMute' = pathMute /\ timer' = timer
        /\ todo' = [todo EXCEPT !["main"] = <<>> \o Tail(@)]
        /\ \/ Head(todo["main"]) = "suspend" /\ suspend' = TRUE
           \/ Head(todo["main"]) = "resume" /\ suspend' = FALSE
    BY <1>8 DEF SuspendResume, Does, Busy, TypeOK, Thread, flagVars
  <2>2. Tail(todo["main"]) \in Seq(Step)  BY <2>1, TailType
  <2>3. todo'["main"] = <<>> \o Tail(todo["main"]) /\ todo'["timer"] = todo["timer"]
    BY <2>1 DEF TypeOK, Thread
  <2>4. todo'["main"] = Tail(todo["main"])  BY <2>2, <2>3
  <2>5. Has(todo["main"], Ends) => Has(Tail(todo["main"]), Ends)
    BY <2>1, HasTail DEF Ends
  <2>6. MuteHasOwner'
    <3>1. pathMute => \/ timer # "off" \/ Has(todo["timer"], {"pathOff"})
                      \/ Has(todo["main"], Ends)
      BY DEF OwnerInv, MuteHasOwner, Ends
    <3>2. pathMute' => \/ timer' # "off" \/ Has(todo'["timer"], {"pathOff"})
                       \/ Has(todo'["main"], Ends)
      BY <2>1, <2>3, <2>4, <2>5, <3>1
    <3>. QED  BY <3>2 DEF MuteHasOwner, Ends
  <2>7. MainOK(todo["main"], suspend) /\ suspend \in BOOLEAN
    BY DEF OwnerInv, TypeOK
  <2>8. CASE Head(todo["main"]) = "suspend"
    <3>1. MainOK(todo["main"], FALSE)  BY <2>7 DEF MainOK
    <3>2. MainOK(Tail(todo["main"]), TRUE) /\ Has(Tail(todo["main"]), {"reInit"})
      BY <2>1, <2>8, <3>1, MainOKSuspend
    <3>3. suspend' = TRUE  BY <2>1, <2>8
    <3>. QED  BY <2>3, <2>4, <2>6, <3>2, <3>3 DEF OwnerInv
  <2>9. CASE Head(todo["main"]) = "resume"
    <3>1. MainOK(Tail(todo["main"]), FALSE)  BY <2>1, <2>7, <2>9, MainOKResume
    <3>2. suspend' = FALSE  BY <2>1, <2>9
    <3>. QED  BY <2>3, <2>4, <2>6, <3>1, <3>2 DEF OwnerInv
  <2>. QED  BY <2>1, <2>8, <2>9
<1>. QED  BY <1>2, <1>3, <1>4, <1>5, <1>6, <1>7, <1>8

LEMMA OutsideOwner ==
  ASSUME TypeOK, OwnerInv, Outside \/ UpdateCameraPathStatus
  PROVE  OwnerInv'
<1>1. CASE UpdateCameraPathStatus
  <2>1. /\ todo' = todo /\ timer' = timer /\ pathMute' = pathMute
        /\ suspend' = suspend
    BY <1>1 DEF UpdateCameraPathStatus, flagVars
  <2>. QED  BY <2>1 DEF OwnerInv, MuteHasOwner
<1>2. ASSUME NEW k \in Kinds, NEW steps, Begins(k, steps), MainOK(steps, FALSE),
             timer' = timer, pathMute' = pathMute, suspend' = suspend
      PROVE  OwnerInv'
  <2>1. todo["main"] = <<>>  BY <1>2 DEF Begins, Busy
  <2>2. \A B : ~Has(todo["main"], B)  BY <2>1, HasLiteral
  <2>3. suspend = FALSE  BY <2>2 DEF OwnerInv, MainOK, TypeOK
  <2>4. todo'["main"] = steps /\ todo'["timer"] = todo["timer"]
    BY <1>2 DEF Begins, TypeOK, Thread
  <2>5. MuteHasOwner'  BY <1>2, <2>2, <2>4 DEF OwnerInv, MuteHasOwner
  <2>. QED  BY <1>2, <2>3, <2>4, <2>5 DEF OwnerInv
<1>0. "switch" \in Kinds /\ "sense" \in Kinds /\ "reset" \in Kinds
  BY DEF Kinds
<1>3. ASSUME NEW p \in Paths \cup {NoPath}, ActionVpathCameraCurrent(p)
      PROVE  OwnerInv'
  <2>1. \/ Begins("switch", Switch(p))
        \/ Begins("switch", SetMuteCameraPathFailed)
    BY <1>3 DEF ActionVpathCameraCurrent
  <2>2. timer' = timer /\ pathMute' = pathMute /\ suspend' = suspend
    BY <1>3 DEF ActionVpathCameraCurrent, flagVars
  <2>3. MainOK(Switch(p), FALSE) /\ MainOK(SetMuteCameraPathFailed, FALSE)
    BY HandlersOK
  <2>. QED  BY <1>0, <1>2, <2>1, <2>2, <2>3
<1>4. ASSUME NEW s \in Sync, ActionCameraSync(s)  PROVE OwnerInv'
  <2>1. Begins("sense", SetMuteCamera) \/ Begins("sense", <<>>)
    BY <1>4 DEF ActionCameraSync
  <2>2. timer' = timer /\ pathMute' = pathMute /\ suspend' = suspend
    BY <1>4 DEF ActionCameraSync
  <2>3. MainOK(SetMuteCamera, FALSE) /\ MainOK(<<>>, FALSE)  BY HandlersOK
  <2>. QED  BY <1>0, <1>2, <2>1, <2>2, <2>3
<1>5. ASSUME NEW on \in BOOLEAN, ActionCameraPowerState(on)  PROVE OwnerInv'
  <2>1. Begins("sense", SetMuteCamera) \/ Begins("sense", <<>>)
    BY <1>5 DEF ActionCameraPowerState
  <2>2. timer' = timer /\ pathMute' = pathMute /\ suspend' = suspend
    BY <1>5 DEF ActionCameraPowerState
  <2>3. MainOK(SetMuteCamera, FALSE) /\ MainOK(<<>>, FALSE)  BY HandlersOK
  <2>. QED  BY <1>0, <1>2, <2>1, <2>2, <2>3
<1>6. CASE ResetCapture
  <2>1. Begins("reset", SetMuteCameraPathOn \o SetMuteCameraOff)
    BY <1>6 DEF ResetCapture
  <2>2. timer' = timer /\ pathMute' = pathMute /\ suspend' = suspend
    BY <1>6 DEF ResetCapture, flagVars
  <2>3. MainOK(SetMuteCameraPathOn \o SetMuteCameraOff, FALSE)  BY HandlersOK
  <2>. QED  BY <1>0, <1>2, <2>1, <2>2, <2>3
<1>7. CASE StrState
  <2>. DEFINE clear == IF path = NoPath THEN <<>>
                       ELSE SetMuteCameraPathOn \o <<"clearPath">>
              steps == <<"suspend">> \o clear \o <<"reInit", "notifyOff">>
                         \o SetMuteCamera \o <<"resume">>
  <2>1. clear = <<>> \/ clear = SetMuteCameraPathOn \o <<"clearPath">>
    OBVIOUS
  <2>2. Begins("reset", steps)  BY <1>7 DEF StrState
  <2>3. timer' = timer /\ pathMute' = pathMute /\ suspend' = suspend
    BY <1>7 DEF StrState, flagVars
  <2>4. MainOK(steps, FALSE)
    <3>. HIDE DEF clear
    <3>. QED  BY <2>1, StrStateOK
  <2>. HIDE DEF steps
  <2>. QED  BY <1>0, <1>2, <2>2, <2>3, <2>4
<1>. QED  BY <1>1, <1>3, <1>4, <1>5, <1>6, <1>7 DEF Outside

LEMMA OwnerStep == TypeOK /\ OwnerInv /\ [Next]_vars => OwnerInv'
<1>. SUFFICES ASSUME TypeOK, OwnerInv, [Next]_vars PROVE OwnerInv'
  OBVIOUS
<1>0. "main" \in Thread /\ "timer" \in Thread  BY DEF Thread
<1>1. CASE MuteStep("main") \/ MuteStep("timer")  BY <1>0, <1>1, MuteStepOwner
<1>2. CASE TimerFires \/ CallbackGuard  BY <1>2, TimerOwner
<1>3. CASE StopMuteTimer \/ StartMuteTimer  BY <1>3, StopStartOwner
<1>4. CASE SetNotifyCameraChanged \/ SwitchStep \/ SwitchFailed
             \/ StrSuspendPathClear \/ ReInit \/ SuspendResume
  BY <1>4, MainOtherOwner
<1>5. CASE Outside \/ UpdateCameraPathStatus  BY <1>5, OutsideOwner
<1>6. CASE UNCHANGED vars
  BY <1>6 DEF vars, flagVars, OwnerInv, MuteHasOwner
<1>. QED  BY <1>1, <1>2, <1>3, <1>4, <1>5, <1>6 DEF Next, MainStep, TimerStep

LEMMA InitOwner == Init => OwnerInv
<1>. SUFFICES ASSUME Init PROVE OwnerInv
  OBVIOUS
<1>1. todo["main"] = <<>> /\ todo["timer"] = <<>> /\ pathMute = FALSE
      /\ suspend = FALSE
  BY DEF Init, Thread
<1>2. ~Has(todo["timer"], {"pathOn"})  BY <1>1, HasLiteral
<1>3. MainOK(todo["main"], suspend)  BY <1>1, HandlersOK
<1>. QED  BY <1>1, <1>2, <1>3 DEF OwnerInv, MuteHasOwner

\* A switch mute is never left behind with nobody to clear it, whatever the
\* order of switches, callbacks, refused timer calls, capture resets and
\* suspends (SetMuteCameraPath, MuteReleaseMuteCameraOn/Off, ReInit).
THEOREM OwnerCorrect == Spec => []MuteHasOwner
<1>1. OwnerInv => MuteHasOwner  BY DEF OwnerInv
<1>. QED  BY <1>1, InitTyped, InitOwner, TypeStep, OwnerStep, PTL DEF Spec

-----------------------------------------------------------------------------
(* What covers the camera during a switch                                  *)

\* No step of SetBlinderEnable is to come.
Plain(s) == ~Has(s, {"arg", "show"})

\* SetBlinderEnable is either not begun or the next thing the thread does.
InOrder(s) ==
  \/ Plain(s)
  \/ s # <<>> /\ Head(s) = "show" /\ Plain(Tail(s))
  \/ /\ s # <<>> /\ Head(s) = "arg"
     /\ Tail(s) # <<>> /\ Head(Tail(s)) = "show" /\ Plain(Tail(Tail(s)))

\* The thread has changed the setting and not yet the surface.
Applying(s) == s # <<>> /\ Head(s) \in {"arg", "show"}

\* The surface is as it is set, or a thread is about to make it so.
Applied ==
  /\ \A t \in Thread : InOrder(todo[t])
  /\ \A t \in Thread : todo[t] # <<>> /\ Head(todo[t]) = "show" => local[t] = setting
  /\ (\A t \in Thread : ~Applying(todo[t])) => setting = blinder

\* What a switch still has to do once its mute is set.
Layouts == {<<"layout">>, <<"camera", "layout">>}
At(s, a) == \E l \in Layouts : s = a \o l

\* How far the main thread is with a switch, and what it has set so far.
Stage(s) ==
  \/ At(s, <<"notifyOn", "stop">>) \/ At(s, <<"stop">>)
  \/ At(s, <<"pathOn", "decide", "change", "start">>)
  \/ At(s, <<"decide", "change", "start">>) /\ pathMute
  \/ At(s, <<"change", "start">>) /\ local["main"]
  \/ /\ \/ At(s, <<"arg", "show", "start">>) \/ At(s, <<"show", "start">>)
        \/ At(s, <<"start">>) \/ s \in Layouts
     /\ setting

Moves == {"camera", "layout"}
Switching == Has(todo["main"], Moves) => Stage(todo["main"])

\* From the first step of a switch on, no callback has been in CVhalMute.
Undisturbed ==
  Has(todo["main"], Moves) /\ Head(todo["main"]) # "notifyOn" => todo["timer"] = <<>>

CoverInv == ~overlap => Applied /\ Switching /\ Undisturbed

\* Steps put before others hold what either holds.
LEMMA StepJoin ==
  ASSUME NEW a \in Seq(Step), NEW b \in Seq(Step)
  PROVE  /\ a \o b \in Seq(Step)
         /\ \A B : Has(a \o b, B) <=> Has(a, B) \/ Has(b, B)
BY ConcatType, HasConcat

\* A thread that has no step of SetBlinderEnable to come is not about to take one.
LEMMA PlainIdle ==
  ASSUME NEW s \in Seq(Step), Plain(s)
  PROVE  ~Applying(s) /\ (s # <<>> => Head(s) # "show")
<1>1. s # <<>> => Head(s) \notin {"arg", "show"}  BY HasTail DEF Plain
<1>. QED  BY <1>1 DEF Applying

\* A thread that is not about to apply a setting goes on without a step of
\* SetBlinderEnable, whatever other steps it puts first.
LEMMA PlainNext ==
  ASSUME NEW s \in Seq(Step), s # <<>>, InOrder(s), ~Applying(s),
         NEW p \in Seq(Step), Plain(p)
  PROVE  p \o Tail(s) \in Seq(Step) /\ Plain(p \o Tail(s))
<1>1. Plain(s)  BY DEF InOrder, Applying
<1>2. Tail(s) \in Seq(Step) /\ ~Has(Tail(s), {"arg", "show"})
  BY <1>1, TailType, HasTail DEF Plain
<1>3. p \o Tail(s) \in Seq(Step)  BY <1>2, ConcatType
<1>4. ~Has(p \o Tail(s), {"arg", "show"})  BY <1>2, HasConcat DEF Plain
<1>. QED  BY <1>3, <1>4 DEF Plain

\* A thread that takes any other step, or begins a handler, leaves the surface
\* as it is set.
LEMMA AppliedPlain ==
  ASSUME TypeOK, Applied, NEW t \in Thread, ~Applying(todo[t]),
         NEW x \in Seq(Step), Plain(x), todo' = [todo EXCEPT ![t] = x],
         setting' = setting, blinder' = blinder,
         \A u \in Thread \ {t} : local'[u] = local[u]
  PROVE  Applied'
<1>1. todo'[t] = x /\ \A u \in Thread \ {t} : todo'[u] = todo[u]  BY DEF TypeOK
<1>2. ~Applying(x) /\ (x # <<>> => Head(x) # "show")  BY PlainIdle
<1>3. \A u \in Thread : InOrder(todo'[u])  BY <1>1 DEF Applied, InOrder
<1>4. \A u \in Thread : todo'[u] # <<>> /\ Head(todo'[u]) = "show"
                          => local'[u] = setting'
  BY <1>1, <1>2 DEF Applied
<1>5. (\A u \in Thread : ~Applying(todo'[u])) => setting' = blinder'
  <2>. SUFFICES ASSUME \A u \in Thread : ~Applying(todo'[u])
                PROVE  setting = blinder
    OBVIOUS
  <2>1. \A u \in Thread : ~Applying(todo[u])  BY <1>1
  <2>. QED  BY <2>1 DEF Applied
<1>. QED  BY <1>3, <1>4, <1>5 DEF Applied

\* The same for a step that puts others in its place.
LEMMA AppliedStep ==
  ASSUME TypeOK, Applied, NEW t \in Thread, NEW p \in Seq(Step), Plain(p),
         Busy(t), Head(todo[t]) \notin {"arg", "show"},
         todo' = [todo EXCEPT ![t] = p \o Tail(@)],
         setting' = setting, blinder' = blinder,
         \A u \in Thread \ {t} : local'[u] = local[u]
  PROVE  Applied'
<1>1. todo[t] \in Seq(Step) /\ todo[t] # <<>>  BY DEF TypeOK, Busy
<1>2. InOrder(todo[t]) /\ ~Applying(todo[t])  BY DEF Applied, Applying
<1>3. p \o Tail(todo[t]) \in Seq(Step) /\ Plain(p \o Tail(todo[t]))
  BY <1>1, <1>2, PlainNext
<1>4. todo' = [todo EXCEPT ![t] = p \o Tail(todo[t])]  OBVIOUS
<1>. QED  BY <1>2, <1>3, <1>4, AppliedPlain

\* A thread that takes a step without an overlap is the only one in CVhalMute.
LEMMA Alone ==
  ASSUME NEW t \in Thread, NEW s, NEW p, Does(t, s, p), ~overlap'
  PROVE  ~overlap /\ \A u \in Thread \ {t} : todo[u] = <<>>
BY DEF Does, Busy, Thread

\* Nothing, or a handler, holds no step of SetBlinderEnable.
LEMMA PlainHandlers ==
  /\ <<>> \in Seq(Step) /\ Plain(<<>>)
  /\ Plain(SetMuteCamera) /\ Plain(SetMuteCameraPathOn) /\ Plain(SetMuteCameraOff)
  /\ Plain(SetMuteCameraPathOff) /\ Plain(SetMuteCameraPathFailed)
<1>1. <<>> \in Seq(Step)  OBVIOUS
<1>2. ~Has(<<>>, {"arg", "show"})  BY HasLiteral
<1>. QED  BY <1>1, <1>2, HandlerSteps DEF Plain

\* Neither thread, alone in CVhalMute, leaves the surface other than as set.
LEMMA MuteStepApplied ==
  ASSUME TypeOK, Applied, NEW t \in Thread, MuteStep(t), ~overlap'
  PROVE  Applied'
<1>0. /\ todo[t] \in Seq(Step) /\ InOrder(todo[t])
      /\ <<>> \in Seq(Step) /\ Plain(<<>>)
  BY PlainHandlers DEF TypeOK, Applied
<1>1. ASSUME NEW s, Does(t, s, <<>>), s \notin {"arg", "show"},
             setting' = setting, blinder' = blinder,
             \A u \in Thread \ {t} : local'[u] = local[u]
      PROVE  Applied'
  <2>1. /\ Busy(t) /\ Head(todo[t]) \notin {"arg", "show"}
        /\ todo' = [todo EXCEPT ![t] = <<>> \o Tail(@)]
    BY <1>1 DEF Does
  <2>. QED  BY <1>0, <1>1, <2>1, AppliedStep
<1>2. CASE SetPathFlag(t)
  <2>1. setting' = setting /\ blinder' = blinder /\ local' = local
    BY <1>2 DEF SetPathFlag
  <2>. QED  BY <1>1, <1>2, <2>1 DEF SetPathFlag
<1>3. CASE Decide(t)
  <2>1. /\ setting' = setting /\ blinder' = blinder
        /\ \A u \in Thread \ {t} : local'[u] = local[u]
    BY <1>3 DEF Decide, TypeOK
  <2>. QED  BY <1>1, <1>3, <2>1 DEF Decide
<1>4. CASE ReleaseResult(t) \/ NotifyCameraChanged(t)
  <2>1. setting' = setting /\ blinder' = blinder /\ local' = local
    BY <1>4 DEF ReleaseResult, NotifyCameraChanged
  <2>. QED  BY <1>1, <1>4, <2>1 DEF ReleaseResult, NotifyCameraChanged
<1>5. CASE ChangeSetting(t)
  <2>1. /\ Busy(t) /\ Head(todo[t]) = "change"
        /\ setting' = local[t] /\ blinder' = blinder /\ local' = local
    BY <1>5 DEF ChangeSetting, Does
  <2>2. todo[t] # <<>> /\ ~Applying(todo[t]) /\ Plain(todo[t])
    BY <1>0, <2>1 DEF Busy, Applying, InOrder
  <2>3. Tail(todo[t]) \in Seq(Step) /\ Plain(Tail(todo[t]))
    BY <1>0, <2>2, TailType, HasTail DEF Plain
  <2>4. CASE setting = local[t]
    <3>1. Does(t, "change", <<>>)  BY <1>5, <2>4 DEF ChangeSetting
    <3>. QED  BY <1>1, <2>1, <2>4, <3>1
  <2>5. CASE setting # local[t]
    <3>1. Does(t, "change", <<"arg", "show">>)  BY <1>5, <2>5 DEF ChangeSetting
    <3>2. \A u \in Thread \ {t} : todo[u] = <<>>  BY <3>1, Alone
    <3>3. /\ todo'[t] = <<"arg", "show">> \o Tail(todo[t])
          /\ \A u \in Thread \ {t} : todo'[u] = <<>>
      BY <3>1, <3>2 DEF Does, TypeOK
    <3>4. <<"arg", "show">> \in Seq(Step) /\ <<"show">> \in Seq(Step)  BY DEF Step
    <3>5. /\ todo'[t] # <<>> /\ Head(todo'[t]) = "arg"
          /\ Tail(todo'[t]) = <<"show">> \o Tail(todo[t])
      BY <2>3, <3>3, <3>4, TailConcat, Literals
    <3>6. /\ Tail(todo'[t]) # <<>> /\ Head(Tail(todo'[t])) = "show"
          /\ Tail(Tail(todo'[t])) = Tail(todo[t])
      <4>. DEFINE x == Tail(todo[t])
      <4>1. /\ Tail(<<"show">> \o x) = Tail(<<"show">>) \o x
            /\ Head(<<"show">> \o x) = Head(<<"show">>)
            /\ <<"show">> \o x # <<>>
        <5>. HIDE DEF x
        <5>1. x \in Seq(Step)  BY <2>3 DEF x
        <5>2. <<"show">> # <<>>  OBVIOUS
        <5>. QED  BY <3>4, <5>1, <5>2, TailConcat
      <4>2. Head(<<"show">>) = "show" /\ Tail(<<"show">>) = <<>>  BY Literals
      <4>3. <<>> \o x = x  BY <2>3
      <4>. QED  BY <3>5, <4>1, <4>2, <4>3
    <3>7. InOrder(todo'[t]) /\ Applying(todo'[t])
      BY <2>3, <3>5, <3>6 DEF InOrder, Applying
    <3>8. \A u \in Thread : InOrder(todo'[u])
      BY <1>0, <3>3, <3>7 DEF InOrder
    <3>. QED  BY <3>3, <3>5, <3>7, <3>8 DEF Applied
  <2>. QED  BY <2>4, <2>5
<1>6. CASE SetBlinderEnable(t) /\ Does(t, "arg", <<>>)
  <2>1. /\ Busy(t) /\ Head(todo[t]) = "arg"
        /\ todo'[t] = <<>> \o Tail(todo[t])
        /\ \A u \in Thread \ {t} : todo'[u] = todo[u]
        /\ local'[t] = setting /\ setting' = setting
    BY <1>6 DEF SetBlinderEnable, Does, TypeOK
  <2>2. \A u \in Thread \ {t} : todo'[u] = <<>>  BY <1>6, <2>1, Alone
  <2>3. Tail(todo[t]) \in Seq(Step)  BY <1>0, <2>1, TailType DEF Busy
  <2>4. todo'[t] = Tail(todo[t])  BY <2>1, <2>3
  <2>5. ~Plain(todo[t])  BY <1>0, <2>1, PlainIdle DEF Applying, Busy
  <2>6. todo'[t] # <<>> /\ Head(todo'[t]) = "show" /\ Plain(Tail(todo'[t]))
    BY <1>0, <2>1, <2>4, <2>5 DEF InOrder
  <2>7. InOrder(todo'[t]) /\ Applying(todo'[t])  BY <2>6 DEF InOrder, Applying
  <2>8. \A u \in Thread : InOrder(todo'[u])  BY <1>0, <2>2, <2>7 DEF InOrder
  <2>. QED  BY <2>1, <2>2, <2>7, <2>8 DEF Applied
<1>7. CASE SetBlinderEnable(t) /\ Does(t, "show", <<>>)
  <2>1. /\ Busy(t) /\ Head(todo[t]) = "show"
        /\ todo'[t] = <<>> \o Tail(todo[t])
        /\ \A u \in Thread \ {t} : todo'[u] = todo[u]
        /\ blinder' = local[t] /\ setting' = setting
    BY <1>7 DEF SetBlinderEnable, Does, TypeOK
  <2>2. \A u \in Thread \ {t} : todo'[u] = <<>>  BY <1>7, <2>1, Alone
  <2>3. Tail(todo[t]) \in Seq(Step)  BY <1>0, <2>1, TailType DEF Busy
  <2>4. todo'[t] = Tail(todo[t])  BY <2>1, <2>3
  <2>5. ~Plain(todo[t])  BY <1>0, <2>1, PlainIdle DEF Applying, Busy
  <2>6. Plain(todo'[t])  BY <1>0, <2>1, <2>4, <2>5 DEF InOrder
  <2>7. ~Applying(todo'[t]) /\ (todo'[t] # <<>> => Head(todo'[t]) # "show")
    BY <2>3, <2>4, <2>6, PlainIdle
  <2>8. \A u \in Thread : InOrder(todo'[u])
    BY <1>0, <2>2, <2>6 DEF InOrder
  <2>9. local[t] = setting  BY <2>1 DEF Applied, Busy
  <2>. QED  BY <2>1, <2>2, <2>7, <2>8, <2>9 DEF Applied
<1>8. SetBlinderEnable(t) => Does(t, "arg", <<>>) \/ Does(t, "show", <<>>)
  BY DEF SetBlinderEnable
<1>. QED  BY <1>2, <1>3, <1>4, <1>5, <1>6, <1>7, <1>8 DEF MuteStep

-----------------------------------------------------------------------------
(* The stages of a switch                                                  *)

LEMMA LayoutsType == \A l \in Layouts : l \in Seq(Step)
<1>1. <<"layout">> \in Seq(Step) /\ <<"camera", "layout">> \in Seq(Step)
  BY DEF Step
<1>. QED  BY <1>1 DEF Layouts

\* Taking the first step of a stage leaves the rest of the stage.
LEMMA AtNext ==
  ASSUME NEW s \in Seq(Step), NEW a \in Seq(Step), a # <<>>, At(s, a)
  PROVE  /\ s # <<>> /\ Head(s) = Head(a)
         /\ \A p \in Seq(Step) : At(p \o Tail(s), p \o Tail(a))
<1>1. PICK l \in Layouts : s = a \o l  BY DEF At
<1>2. l \in Seq(Step)  BY LayoutsType
<1>3. Tail(s) = Tail(a) \o l /\ Head(s) = Head(a) /\ s # <<>>
  BY <1>1, <1>2, TailConcat
<1>4. Tail(a) \in Seq(Step)  BY TailType
<1>5. ASSUME NEW p \in Seq(Step)  PROVE At(p \o Tail(s), p \o Tail(a))
  <2>1. (p \o Tail(a)) \o l = p \o (Tail(a) \o l)
    BY <1>2, <1>4, ConcatAssociative, SMTT(30)
  <2>2. p \o Tail(s) = (p \o Tail(a)) \o l  BY <1>3, <2>1
  <2>. QED  BY <2>2 DEF At
<1>. QED  BY <1>3, <1>5

\* The same when nothing is put in the step's place.
LEMMA AtTail ==
  ASSUME NEW s \in Seq(Step), NEW a \in Seq(Step), a # <<>>, At(s, a)
  PROVE  Head(s) = Head(a) /\ At(Tail(s), Tail(a))
<1>1. s # <<>> /\ Head(s) = Head(a)
      /\ \A p \in Seq(Step) : At(p \o Tail(s), p \o Tail(a))
  BY AtNext
<1>2. <<>> \in Seq(Step)  OBVIOUS
<1>3. At(<<>> \o Tail(s), <<>> \o Tail(a))  BY <1>1, <1>2
<1>4. Tail(s) \in Seq(Step) /\ Tail(a) \in Seq(Step)  BY <1>1, TailType
<1>5. <<>> \o Tail(s) = Tail(s) /\ <<>> \o Tail(a) = Tail(a)  BY <1>4
<1>. QED  BY <1>1, <1>3, <1>5

\* What each step of a switch leaves to do, and what had been set when it is
\* reached.
LEMMA StageNext ==
  ASSUME NEW s \in Seq(Step), Stage(s)
  PROVE  \/ Head(s) = "notifyOn" /\ At(Tail(s), <<"stop">>)
         \/ /\ Head(s) = "stop"
            /\ At((SetMuteCameraPathOn \o <<"start">>) \o Tail(s),
                  <<"pathOn", "decide", "change", "start">>)
         \/ Head(s) = "pathOn" /\ At(Tail(s), <<"decide", "change", "start">>)
         \/ /\ Head(s) = "decide" /\ pathMute
            /\ At(Tail(s), <<"change", "start">>)
         \/ /\ Head(s) = "change" /\ local["main"]
            /\ At(Tail(s), <<"start">>)
            /\ At(<<"arg", "show">> \o Tail(s), <<"arg", "show", "start">>)
         \/ Head(s) = "arg" /\ setting /\ At(Tail(s), <<"show", "start">>)
         \/ Head(s) = "show" /\ setting /\ At(Tail(s), <<"start">>)
         \/ Head(s) = "start" /\ setting /\ Tail(s) \in Layouts
         \/ Head(s) = "camera" /\ setting /\ Tail(s) \in Layouts
         \/ Head(s) = "layout" /\ setting /\ Tail(s) = <<>>
<1>0. /\ <<"notifyOn", "stop">> \in Seq(Step) /\ <<"stop">> \in Seq(Step)
      /\ <<"pathOn", "decide", "change", "start">> \in Seq(Step)
      /\ <<"decide", "change", "start">> \in Seq(Step)
      /\ <<"change", "start">> \in Seq(Step)
      /\ <<"arg", "show", "start">> \in Seq(Step)
      /\ <<"show", "start">> \in Seq(Step) /\ <<"start">> \in Seq(Step)
      /\ <<"arg", "show">> \in Seq(Step)
  BY DEF Step
<1>a. /\ Head(<<"notifyOn", "stop">>) = "notifyOn" /\ <<"notifyOn", "stop">> # <<>>
      /\ Tail(<<"notifyOn", "stop">>) = <<"stop">>
  BY Literals
<1>b. Head(<<"stop">>) = "stop" /\ Tail(<<"stop">>) = <<>> /\ <<"stop">> # <<>>
  BY Literals
<1>c. /\ Head(<<"pathOn", "decide", "change", "start">>) = "pathOn"
      /\ Tail(<<"pathOn", "decide", "change", "start">>)
           = <<"decide", "change", "start">>
      /\ <<"pathOn", "decide", "change", "start">> # <<>>
  BY Literals
<1>d. /\ Head(<<"decide", "change", "start">>) = "decide"
      /\ Tail(<<"decide", "change", "start">>) = <<"change", "start">>
      /\ <<"decide", "change", "start">> # <<>>
  BY Literals
<1>e. /\ Head(<<"change", "start">>) = "change"
      /\ Tail(<<"change", "start">>) = <<"start">> /\ <<"change", "start">> # <<>>
  BY Literals
<1>f. /\ Head(<<"arg", "show", "start">>) = "arg"
      /\ Tail(<<"arg", "show", "start">>) = <<"show", "start">>
      /\ <<"arg", "show", "start">> # <<>>
  BY Literals
<1>g. /\ Head(<<"show", "start">>) = "show"
      /\ Tail(<<"show", "start">>) = <<"start">> /\ <<"show", "start">> # <<>>
  BY Literals
<1>h. Head(<<"start">>) = "start" /\ Tail(<<"start">>) = <<>> /\ <<"start">> # <<>>
  BY Literals
<1>1. CASE At(s, <<"notifyOn", "stop">>)
  <2>1. Head(s) = "notifyOn" /\ At(Tail(s), <<"stop">>)
    BY <1>0, <1>1, <1>a, AtTail
  <2>. QED  BY <2>1
<1>2. CASE At(s, <<"stop">>)
  <2>1. Head(s) = "stop"  BY <1>0, <1>2, <1>b, AtTail
  <2>. DEFINE p == SetMuteCameraPathOn \o <<"start">>
  <2>2. p \in Seq(Step) /\ p = <<"pathOn", "decide", "change", "start">>
    <3>1. <<"pathOn">> \in Seq(Step) /\ <<"decide", "change">> \in Seq(Step)
      BY DEF Step
    <3>2. <<"decide", "change">> \o <<"start">> = <<"decide", "change", "start">>
      BY JoinLiterals
    <3>3. p = <<"pathOn">> \o <<"decide", "change", "start">>
      BY <1>0, <3>1, <3>2, ConcatAssociative DEF SetMuteCameraPathOn, SetMuteCamera
    <3>4. <<"pathOn">> \o <<"decide", "change", "start">>
            = <<"pathOn", "decide", "change", "start">>
      BY PrependLiterals
    <3>. HIDE DEF p
    <3>. QED  BY <1>0, <3>3, <3>4
  <2>3. At(p \o Tail(s), p \o Tail(<<"stop">>))
    <3>. HIDE DEF p
    <3>. QED  BY <1>0, <1>2, <2>2, AtNext
  <2>4. p \o Tail(<<"stop">>) = p
    <3>. HIDE DEF p
    <3>. QED  BY <2>2, Literals
  <2>5. At(p \o Tail(s), <<"pathOn", "decide", "change", "start">>)
    <3>. HIDE DEF p
    <3>. QED  BY <2>2, <2>3, <2>4
  <2>. QED  BY <2>1, <2>5
<1>3. CASE At(s, <<"pathOn", "decide", "change", "start">>)
  <2>1. Head(s) = "pathOn" /\ At(Tail(s), <<"decide", "change", "start">>)
    BY <1>0, <1>3, <1>c, AtTail
  <2>. QED  BY <2>1
<1>4. CASE At(s, <<"decide", "change", "start">>) /\ pathMute
  <2>1. Head(s) = "decide" /\ At(Tail(s), <<"change", "start">>)
    BY <1>0, <1>4, <1>d, AtTail
  <2>. QED  BY <1>4, <2>1
<1>5. CASE At(s, <<"change", "start">>) /\ local["main"]
  <2>1. Head(s) = "change" /\ At(Tail(s), <<"start">>)
    BY <1>0, <1>5, <1>e, AtTail
  <2>2. At(<<"arg", "show">> \o Tail(s), <<"arg", "show">> \o Tail(<<"change", "start">>))
    BY <1>0, <1>5, <1>e, AtNext
  <2>3. <<"arg", "show">> \o Tail(<<"change", "start">>) = <<"arg", "show", "start">>
    BY Literals, JoinLiterals
  <2>. QED  BY <1>5, <2>1, <2>2, <2>3
<1>6. CASE At(s, <<"arg", "show", "start">>) /\ setting
  <2>1. Head(s) = "arg" /\ At(Tail(s), <<"show", "start">>)
    BY <1>0, <1>6, <1>f, AtTail
  <2>. QED  BY <1>6, <2>1
<1>7. CASE At(s, <<"show", "start">>) /\ setting
  <2>1. Head(s) = "show" /\ At(Tail(s), <<"start">>)
    BY <1>0, <1>7, <1>g, AtTail
  <2>. QED  BY <1>7, <2>1
<1>8. CASE At(s, <<"start">>) /\ setting
  <2>1. Head(s) = "start" /\ At(Tail(s), <<>>)
    BY <1>0, <1>8, <1>h, AtTail
  <2>2. PICK l \in Layouts : Tail(s) = <<>> \o l  BY <2>1 DEF At
  <2>3. l \in Seq(Step)  BY LayoutsType
  <2>4. Tail(s) = l  BY <2>2, <2>3
  <2>. QED  BY <1>8, <2>1, <2>4
<1>9. CASE s \in Layouts /\ setting
  <2>1. CASE s = <<"layout">>  BY <1>9, <2>1, Literals
  <2>2. CASE s = <<"camera", "layout">>
    <3>1. Head(s) = "camera" /\ Tail(s) = <<"layout">>  BY <2>2, Literals
    <3>. QED  BY <1>9, <3>1 DEF Layouts
  <2>. QED  BY <1>9, <2>1, <2>2 DEF Layouts
<1>. QED  BY <1>1, <1>2, <1>3, <1>4, <1>5, <1>6, <1>7, <1>8, <1>9 DEF Stage

\* Handlers other than a switch change no layout; a switch begins as a stage.
LEMMA NoMoves ==
  /\ ~Has(<<>>, Moves) /\ ~Has(<<"arg", "show">>, Moves) /\ ~Has(SetMuteCamera, Moves)
  /\ ~Has(SetMuteCameraPathOff, Moves) /\ ~Has(SetMuteCameraPathFailed, Moves)
  /\ ~Has(SetMuteCameraPathOn \o SetMuteCameraOff, Moves)
  /\ ~Has(SetMuteCameraPathOn \o <<"start">>, Moves)
<1>1. /\ ~Has(<<>>, Moves) /\ ~Has(<<"arg", "show">>, Moves)
      /\ ~Has(<<"start">>, Moves)
  <2>1. ~Has(<<>>, Moves)  BY HasLiteral
  <2>2. Has(<<"arg", "show">>, Moves) <=> "arg" \in Moves \/ "show" \in Moves
    BY HasLiteral
  <2>3. Has(<<"start">>, Moves) <=> "start" \in Moves  BY HasLiteral
  <2>. QED  BY <2>1, <2>2, <2>3 DEF Moves
<1>2. /\ ~Has(SetMuteCamera, Moves) /\ ~Has(SetMuteCameraPathOff, Moves)
      /\ ~Has(SetMuteCameraPathFailed, Moves) /\ ~Has(SetMuteCameraPathOn, Moves)
      /\ ~Has(SetMuteCameraOff, Moves)
  BY HandlerSteps DEF Moves
<1>3. <<"start">> \in Seq(Step)  BY DEF Step
<1>4. ~Has(SetMuteCameraPathOn \o SetMuteCameraOff, Moves)
  BY <1>2, HandlerTypes, StepJoin
<1>5. ~Has(SetMuteCameraPathOn \o <<"start">>, Moves)
  BY <1>1, <1>2, <1>3, HandlerTypes, StepJoin
<1>. QED  BY <1>1, <1>2, <1>4, <1>5

LEMMA SwitchBegins ==
  ASSUME NEW p
  PROVE  Plain(Switch(p)) /\ At(Switch(p), <<"notifyOn", "stop">>)
<1>1. CASE p = NoPath
  <2>1. Switch(p) = (<<"notifyOn", "stop">> \o <<>>) \o <<"layout">>
    BY <1>1 DEF Switch, SetMuteCameraPath
  <2>2. Switch(p) = <<"notifyOn", "stop">> \o <<"layout">>
    BY <2>1
  <2>3. Switch(p) = <<"notifyOn", "stop", "layout">>  BY <2>2, JoinLiterals
  <2>4. \A B : Has(<<"notifyOn", "stop", "layout">>, B)
                 <=> "notifyOn" \in B \/ "stop" \in B \/ "layout" \in B
    BY HasLiteral
  <2>. QED  BY <2>2, <2>3, <2>4 DEF Plain, At, Layouts
<1>2. CASE p # NoPath
  <2>1. Switch(p) = (<<"notifyOn", "stop">> \o <<"camera">>) \o <<"layout">>
    BY <1>2 DEF Switch, SetMuteCameraPath
  <2>2. /\ <<"notifyOn", "stop">> \in Seq(Step) /\ <<"camera">> \in Seq(Step)
        /\ <<"layout">> \in Seq(Step) /\ <<"camera", "layout">> \in Seq(Step)
    BY DEF Step
  <2>3. <<"camera">> \o <<"layout">> = <<"camera", "layout">>  BY PrependLiterals
  <2>4. Switch(p) = <<"notifyOn", "stop">> \o <<"camera", "layout">>
    BY <2>1, <2>2, <2>3, ConcatAssociative
  <2>5. /\ \A B : Has(<<"notifyOn", "stop">>, B) <=> "notifyOn" \in B \/ "stop" \in B
        /\ \A B : Has(<<"camera", "layout">>, B) <=> "camera" \in B \/ "layout" \in B
    BY HasLiteral
  <2>6. ~Has(Switch(p), {"arg", "show"})
    <3>1. /\ ~Has(<<"notifyOn", "stop">>, {"arg", "show"})
          /\ ~Has(<<"camera", "layout">>, {"arg", "show"})
      BY <2>5
    <3>2. Has(<<"notifyOn", "stop">> \o <<"camera", "layout">>, {"arg", "show"})
            <=> \/ Has(<<"notifyOn", "stop">>, {"arg", "show"})
                \/ Has(<<"camera", "layout">>, {"arg", "show"})
      BY <2>2, StepJoin
    <3>. QED  BY <2>4, <3>1, <3>2
  <2>. QED  BY <2>4, <2>6 DEF Plain, At, Layouts
<1>. QED  BY <1>1, <1>2

\* A step that puts no layout change in its place was one of a switch if a
\* layout change follows it.
LEMMA MainWasSwitching ==
  ASSUME TypeOK, Switching, NEW s, NEW p \in Seq(Step), ~Has(p, Moves),
         Does("main", s, p), Has(todo'["main"], Moves)
  PROVE  /\ todo["main"] \in Seq(Step) /\ Head(todo["main"]) = s
         /\ Stage(todo["main"])
         /\ Tail(todo["main"]) \in Seq(Step)
         /\ todo'["main"] = p \o Tail(todo["main"])
         /\ p = <<>> => todo'["main"] = Tail(todo["main"])
<1>1. /\ todo["main"] \in Seq(Step) /\ todo["main"] # <<>>
      /\ Head(todo["main"]) = s /\ todo'["main"] = p \o Tail(todo["main"])
  BY DEF Does, Busy, TypeOK, Thread
<1>2. Tail(todo["main"]) \in Seq(Step)  BY <1>1, TailType
<1>3. Has(Tail(todo["main"]), Moves)
  <2>1. Has(p \o Tail(todo["main"]), Moves)
          <=> Has(p, Moves) \/ Has(Tail(todo["main"]), Moves)
    BY <1>2, StepJoin
  <2>. QED  BY <1>1, <2>1
<1>4. Has(todo["main"], Moves)  BY <1>1, <1>3, HasTail
<1>5. p = <<>> => todo'["main"] = Tail(todo["main"])  BY <1>1, <1>2
<1>. QED  BY <1>1, <1>2, <1>4, <1>5 DEF Switching

\* The main thread's steps in CVhalMute take a switch to its next stage.
LEMMA MuteStepSwitching ==
  ASSUME TypeOK, Applied, Switching, MuteStep("main")
  PROVE  Switching'
<1>. SUFFICES ASSUME Has(todo'["main"], Moves) PROVE Stage(todo["main"])'
  BY DEF Switching
<1>. DEFINE s == todo["main"]
<1>0. /\ <<>> \in Seq(Step) /\ ~Has(<<>>, Moves)
      /\ <<"arg", "show">> \in Seq(Step) /\ ~Has(<<"arg", "show">>, Moves)
  BY NoMoves DEF Step
<1>1. ASSUME NEW h, Does("main", h, <<>>)
      PROVE  s \in Seq(Step) /\ Head(s) = h /\ Stage(s) /\ todo'["main"] = Tail(s)
  BY <1>0, <1>1, MainWasSwitching
<1>2. CASE SetPathFlag("main")
  <2>1. CASE Does("main", "pathOn", <<>>) /\ pathMute' = TRUE
    <3>1. s \in Seq(Step) /\ Head(s) = "pathOn" /\ Stage(s)
          /\ todo'["main"] = Tail(s)
      BY <1>1, <2>1
    <3>2. At(todo'["main"], <<"decide", "change", "start">>)
      BY <3>1, StageNext
    <3>. QED  BY <2>1, <3>2 DEF Stage, At
  <2>2. CASE Does("main", "pathOff", <<>>)  BY <1>1, <2>2, StageNext
  <2>. QED  BY <1>2, <2>1, <2>2 DEF SetPathFlag
<1>3. CASE Decide("main")
  <2>1. CASE Does("main", "decide", <<>>)
    <3>1. pathMute /\ At(todo'["main"], <<"change", "start">>)
      BY <1>1, <2>1, StageNext
    <3>2. Head(todo["main"]) = "decide"  BY <2>1 DEF Does
    <3>3. local'["main"] = (syncMute \/ powerMute \/ pathMute)
      BY <1>3, <3>2 DEF Decide, Does, TypeOK, Thread
    <3>4. local'["main"]  BY <3>1, <3>3
    <3>. QED  BY <3>1, <3>4 DEF Stage, At
  <2>2. CASE Does("main", "decideOff", <<>>)  BY <1>1, <2>2, StageNext
  <2>. QED  BY <1>3, <2>1, <2>2 DEF Decide
<1>4. CASE ChangeSetting("main")
  <2>1. setting' = local["main"]  BY <1>4 DEF ChangeSetting
  <2>2. CASE Does("main", "change", <<>>)
    <3>1. local["main"] /\ At(todo'["main"], <<"start">>)
      BY <1>1, <2>2, StageNext
    <3>. QED  BY <2>1, <3>1 DEF Stage, At
  <2>3. CASE Does("main", "change", <<"arg", "show">>)
    <3>1. /\ s \in Seq(Step) /\ Head(s) = "change" /\ Stage(s)
          /\ todo'["main"] = <<"arg", "show">> \o Tail(s)
      BY <1>0, <2>3, MainWasSwitching
    <3>2. local["main"] /\ At(todo'["main"], <<"arg", "show", "start">>)
      BY <3>1, StageNext
    <3>. QED  BY <2>1, <3>2 DEF Stage, At
  <2>. QED  BY <1>4, <2>2, <2>3 DEF ChangeSetting
<1>5. CASE SetBlinderEnable("main")
  <2>1. setting' = setting  BY <1>5 DEF SetBlinderEnable
  <2>2. CASE Does("main", "arg", <<>>)
    <3>1. setting /\ At(todo'["main"], <<"show", "start">>)
      BY <1>1, <2>2, StageNext
    <3>. QED  BY <2>1, <3>1 DEF Stage, At
  <2>3. CASE Does("main", "show", <<>>)
    <3>1. setting /\ At(todo'["main"], <<"start">>)
      BY <1>1, <2>3, StageNext
    <3>. QED  BY <2>1, <3>1 DEF Stage, At
  <2>. QED  BY <1>5, <2>2, <2>3 DEF SetBlinderEnable
<1>6. CASE ReleaseResult("main") \/ NotifyCameraChanged("main")
  <2>1. \E h \in {"result", "success", "notify"} : Does("main", h, <<>>)
    BY <1>6 DEF ReleaseResult, NotifyCameraChanged
  <2>. QED  BY <1>1, <2>1, StageNext
<1>. QED  BY <1>2, <1>3, <1>4, <1>5, <1>6 DEF MuteStep

\* Nothing but a step in CVhalMute touches the setting or the surface.
LEMMA OtherStepsLeave ==
  ASSUME \/ SetNotifyCameraChanged \/ StopMuteTimer \/ StartMuteTimer
         \/ SwitchStep \/ SwitchFailed \/ StrSuspendPathClear \/ ReInit
         \/ SuspendResume \/ CallbackGuard \/ TimerFires
         \/ UpdateCameraPathStatus \/ Outside
  PROVE  setting' = setting /\ blinder' = blinder /\ local' = local
BY DEF SetNotifyCameraChanged, StopMuteTimer, StartMuteTimer, SwitchStep,
       SwitchFailed, StrSuspendPathClear, ReInit, SuspendResume, CallbackGuard,
       TimerFires, UpdateCameraPathStatus, Outside, ActionVpathCameraCurrent,
       ActionCameraSync, ActionCameraPowerState, ResetCapture, StrState

\* The main thread's other steps, alone, leave the surface as set, and take a
\* switch to its next stage or give it up.
LEMMA MainOtherCover ==
  ASSUME TypeOK, CoverInv, ~overlap',
         \/ SetNotifyCameraChanged \/ StopMuteTimer \/ StartMuteTimer
         \/ SwitchStep \/ SwitchFailed \/ StrSuspendPathClear \/ ReInit
         \/ SuspendResume
  PROVE  Applied' /\ Switching'
<1>. DEFINE s == todo["main"]
<1>0. /\ setting' = setting /\ blinder' = blinder /\ local' = local
      /\ "main" \in Thread
  BY OtherStepsLeave DEF Thread
<1>1. ASSUME NEW h, NEW p \in Seq(Step), Does("main", h, p), Plain(p),
             ~Has(p, Moves), h \notin {"arg", "show"}
      PROVE  /\ Applied'
             /\ Has(todo'["main"], Moves)
                  => /\ s \in Seq(Step) /\ Head(s) = h /\ Stage(s)
                     /\ todo'["main"] = p \o Tail(s)
                     /\ p = <<>> => todo'["main"] = Tail(s)
  <2>1. Applied /\ Switching  BY <1>0, <1>1, Alone DEF CoverInv
  <2>2. /\ Busy("main") /\ Head(todo["main"]) \notin {"arg", "show"}
        /\ todo' = [todo EXCEPT !["main"] = p \o Tail(@)]
    BY <1>1 DEF Does
  <2>3. Applied'  BY <1>0, <1>1, <2>1, <2>2, AppliedStep
  <2>. QED  BY <1>1, <2>1, <2>3, MainWasSwitching
<1>2. <<>> \in Seq(Step) /\ Plain(<<>>) /\ ~Has(<<>>, Moves)
  BY PlainHandlers, NoMoves
<1>3. ASSUME NEW h, Does("main", h, <<>>),
             h \notin {"arg", "show", "notifyOn", "stop", "pathOn", "decide",
                       "change", "start", "camera"}
      PROVE  Applied' /\ Switching'
  <2>1. ASSUME Has(todo'["main"], Moves)  PROVE FALSE
    <3>1. s \in Seq(Step) /\ Head(s) = h /\ Stage(s) /\ todo'["main"] = Tail(s)
      BY <1>1, <1>2, <1>3, <2>1
    <3>2. CASE h = "layout"
      <4>1. Tail(s) = <<>>  BY <3>1, <3>2, StageNext
      <4>. QED  BY <1>2, <2>1, <3>1, <4>1
    <3>. QED  BY <1>3, <3>1, <3>2, StageNext
  <2>2. Applied'  BY <1>1, <1>2, <1>3
  <2>. QED  BY <2>1, <2>2 DEF Switching
<1>4. ASSUME NEW h, Does("main", h, <<>>), h \in {"notifyOn", "start", "camera"}
      PROVE  Applied' /\ Switching'
  <2>1. ASSUME Has(todo'["main"], Moves)  PROVE Stage(todo["main"])'
    <3>1. s \in Seq(Step) /\ Head(s) = h /\ Stage(s) /\ todo'["main"] = Tail(s)
      BY <1>1, <1>2, <1>4, <2>1
    <3>2. \/ At(todo'["main"], <<"stop">>)
          \/ todo'["main"] \in Layouts /\ setting
      BY <1>4, <3>1, StageNext
    <3>. QED  BY <1>0, <3>2 DEF Stage, At
  <2>2. Applied'  BY <1>1, <1>2, <1>4
  <2>. QED  BY <2>1, <2>2 DEF Switching
<1>5. CASE SetNotifyCameraChanged
  <2>1. Does("main", "notifyOn", <<>>) \/ Does("main", "notifyOff", <<>>)
    BY <1>5 DEF SetNotifyCameraChanged
  <2>. QED  BY <1>3, <1>4, <2>1
<1>6. CASE StopMuteTimer
  <2>. DEFINE p == SetMuteCameraPathOn \o <<"start">>
  <2>1. Does("main", "stop", p)  BY <1>6 DEF StopMuteTimer
  <2>2. p \in Seq(Step) /\ Plain(p) /\ ~Has(p, Moves)
    <3>1. <<"start">> \in Seq(Step) /\ ~Has(<<"start">>, {"arg", "show"})
      <4>1. Has(<<"start">>, {"arg", "show"}) <=> "start" \in {"arg", "show"}
        BY HasLiteral
      <4>. QED  BY <4>1 DEF Step
    <3>2. p \in Seq(Step)  BY <3>1, HandlerTypes, ConcatType
    <3>3. ~Has(p, {"arg", "show"})
      BY <3>1, HandlerTypes, PlainHandlers, StepJoin DEF Plain
    <3>. QED  BY <3>2, <3>3, NoMoves DEF Plain
  <2>. HIDE DEF p
  <2>3. Applied'  BY <1>1, <2>1, <2>2
  <2>4. ASSUME Has(todo'["main"], Moves)  PROVE Stage(todo["main"])'
    <3>1. s \in Seq(Step) /\ Head(s) = "stop" /\ Stage(s)
          /\ todo'["main"] = p \o Tail(s)
      BY <1>1, <2>1, <2>2, <2>4
    <3>2. At(todo'["main"], <<"pathOn", "decide", "change", "start">>)
      BY <3>1, StageNext DEF p
    <3>. QED  BY <3>2 DEF Stage, At
  <2>. QED  BY <2>3, <2>4 DEF Switching
<1>7. CASE StartMuteTimer
  <2>1. Does("main", "start", <<>>)  BY <1>7 DEF StartMuteTimer
  <2>. QED  BY <1>4, <2>1
<1>8. CASE SwitchStep /\ ~GiveUpSwitch
  <2>1. Does("main", "camera", <<>>) \/ Does("main", "layout", <<>>)
    BY <1>8 DEF SwitchStep
  <2>. QED  BY <1>3, <1>4, <2>1
<1>9. CASE SwitchStep /\ GiveUpSwitch
  <2>1. /\ todo["main"] # <<>> /\ Head(todo["main"]) \in {"camera", "layout"}
        /\ todo' = [todo EXCEPT !["main"] = SetMuteCameraPathFailed]
        /\ overlap' = overlap
    BY <1>9 DEF GiveUpSwitch, Busy
  <2>2. Applied  BY <2>1 DEF CoverInv
  <2>3. ~Applying(todo["main"])  BY <2>1 DEF Applying
  <2>4. Applied'
    BY <1>0, <2>1, <2>2, <2>3, HandlerTypes, PlainHandlers, AppliedPlain
  <2>5. todo'["main"] = SetMuteCameraPathFailed  BY <2>1 DEF TypeOK, Thread
  <2>. QED  BY <2>4, <2>5, NoMoves DEF Switching
<1>10. CASE SwitchFailed \/ ReInit \/ SuspendResume
  <2>1. \E h \in {"failed", "reInit", "suspend", "resume"} : Does("main", h, <<>>)
    BY <1>10 DEF SwitchFailed, ReInit, SuspendResume
  <2>. QED  BY <1>3, <2>1
<1>11. CASE StrSuspendPathClear
  <2>1. CASE Does("main", "clearPath", <<>>)  BY <1>3, <2>1
  <2>2. CASE Does("main", "clearPath", SetMuteCameraPathOff)
    <3>1. /\ SetMuteCameraPathOff \in Seq(Step) /\ Plain(SetMuteCameraPathOff)
          /\ ~Has(SetMuteCameraPathOff, Moves)
      BY HandlerTypes, PlainHandlers, NoMoves
    <3>2. Applied'  BY <1>1, <2>2, <3>1
    <3>3. ASSUME Has(todo'["main"], Moves)  PROVE FALSE
      <4>1. s \in Seq(Step) /\ Head(s) = "clearPath" /\ Stage(s)
        BY <1>1, <2>2, <3>1, <3>3
      <4>. QED  BY <4>1, StageNext
    <3>. QED  BY <3>2, <3>3 DEF Switching
  <2>. QED  BY <1>11, <2>1, <2>2 DEF StrSuspendPathClear
<1>. QED  BY <1>5, <1>6, <1>7, <1>8, <1>9, <1>10, <1>11

\* The callback's release holds no step of SetBlinderEnable.
LEMMA PlainRelease == \A p : Plain(Release(p))
<1>. SUFFICES ASSUME NEW p PROVE Plain(Release(p))
  OBVIOUS
<1>1. /\ Has(<<"result", "notify">>, {"arg", "show"})
           <=> "result" \in {"arg", "show"} \/ "notify" \in {"arg", "show"}
      /\ Has(<<"success", "notify">>, {"arg", "show"})
           <=> "success" \in {"arg", "show"} \/ "notify" \in {"arg", "show"}
  BY HasLiteral
<1>2. <<"result", "notify">> \in Seq(Step) /\ <<"success", "notify">> \in Seq(Step)
  BY DEF Step
<1>3. /\ ~Has(SetMuteCameraPathOff \o <<"result", "notify">>, {"arg", "show"})
      /\ ~Has(SetMuteCameraOff \o <<"success", "notify">>, {"arg", "show"})
  BY <1>1, <1>2, HandlerTypes, PlainHandlers, StepJoin DEF Plain
<1>. QED  BY <1>3 DEF Plain, Release, ReleaseMuteCameraOn, ReleaseMuteCameraOff

\* A step of the main thread, alone, leaves the callback out of CVhalMute.
LEMMA MainUndisturbed ==
  ASSUME TypeOK, ~overlap', MainStep
  PROVE  Undisturbed'
<1>0. "main" \in Thread /\ "timer" \in Thread  BY DEF Thread
<1>1. ASSUME NEW h, NEW p, Does("main", h, p)  PROVE Undisturbed'
  <2>1. todo["timer"] = <<>>  BY <1>0, <1>1, Alone
  <2>2. todo'["timer"] = todo["timer"]  BY <1>1 DEF Does, TypeOK, Thread
  <2>. QED  BY <2>1, <2>2 DEF Undisturbed
<1>2. CASE MuteStep("main")  BY <1>0, <1>1, <1>2, MuteStepShape
<1>3. CASE SwitchStep /\ GiveUpSwitch
  <2>1. todo'["main"] = SetMuteCameraPathFailed
    BY <1>3 DEF GiveUpSwitch, TypeOK, Thread
  <2>. QED  BY <2>1, NoMoves DEF Undisturbed
<1>4. CASE \/ SetNotifyCameraChanged \/ StopMuteTimer \/ StartMuteTimer
           \/ (SwitchStep /\ ~GiveUpSwitch) \/ SwitchFailed
           \/ StrSuspendPathClear \/ ReInit \/ SuspendResume
  <2>1. \E h, p : Does("main", h, p)
    BY <1>4 DEF SetNotifyCameraChanged, StopMuteTimer, StartMuteTimer, SwitchStep,
                SwitchFailed, StrSuspendPathClear, ReInit, SuspendResume
  <2>. QED  BY <1>1, <2>1
<1>. QED  BY <1>2, <1>3, <1>4 DEF MainStep

\* With the main thread in its event loop, the callback leaves the surface as
\* set.
LEMMA TimerCover ==
  ASSUME TypeOK, CoverInv, ~overlap',
         TimerFires \/ CallbackGuard \/ MuteStep("timer")
  PROVE  Applied' /\ Switching' /\ Undisturbed'
<1>0. "main" \in Thread /\ "timer" \in Thread  BY DEF Thread
<1>1. ASSUME todo["main"] = <<>>, todo'["main"] = todo["main"]
      PROVE  Switching' /\ Undisturbed'
  BY <1>1, NoMoves DEF Switching, Undisturbed
<1>2. ASSUME NEW x \in Seq(Step), Plain(x), ~Applying(todo["timer"]),
             todo' = [todo EXCEPT !["timer"] = x], ~overlap, todo["main"] = <<>>,
             TimerFires \/ CallbackGuard
      PROVE  Applied' /\ Switching' /\ Undisturbed'
  <2>1. setting' = setting /\ blinder' = blinder /\ local' = local
    BY <1>2, OtherStepsLeave
  <2>2. todo'["main"] = todo["main"]  BY <1>2 DEF TypeOK, Thread
  <2>3. Applied  BY <1>2 DEF CoverInv
  <2>. QED  BY <1>0, <1>1, <1>2, <2>1, <2>2, <2>3, AppliedPlain
<1>3. CASE TimerFires
  <2>. DEFINE x == <<"guard">> \o Release(timer)
  <2>1. /\ todo["timer"] = <<>> /\ todo["main"] = <<>> /\ ~overlap
        /\ todo' = [todo EXCEPT !["timer"] = x]
    BY <1>3 DEF TimerFires, Busy
  <2>2. <<"guard">> \in Seq(Step) /\ ~Has(<<"guard">>, {"arg", "show"})
    <3>1. Has(<<"guard">>, {"arg", "show"}) <=> "guard" \in {"arg", "show"}
      BY HasLiteral
    <3>. QED  BY <3>1 DEF Step
  <2>3. x \in Seq(Step)  BY <2>2, HandlerTypes, ConcatType
  <2>4. Plain(x)  BY <2>2, HandlerTypes, PlainRelease, HasConcat DEF Plain
  <2>5. ~Applying(todo["timer"])  BY <2>1 DEF Applying
  <2>. HIDE DEF x
  <2>. QED  BY <1>2, <1>3, <2>1, <2>3, <2>4, <2>5
<1>4. CASE CallbackGuard
  <2>1. /\ todo["timer"] \in Seq(Step) /\ todo["timer"] # <<>>
        /\ Head(todo["timer"]) = "guard" /\ todo["main"] = <<>> /\ ~overlap
    BY <1>4 DEF CallbackGuard, Busy, TypeOK, Thread
  <2>2. PICK x \in {<<>>, Tail(todo["timer"])} : todo' = [todo EXCEPT !["timer"] = x]
    BY <1>4 DEF CallbackGuard
  <2>3. ~Applying(todo["timer"])  BY <2>1 DEF Applying
  <2>4. Plain(todo["timer"])
    BY <1>0, <2>1, <2>3 DEF CoverInv, Applied, InOrder, Applying
  <2>5. x \in Seq(Step) /\ Plain(x)
    <3>1. Tail(todo["timer"]) \in Seq(Step)  BY <2>1, TailType
    <3>2. ~Has(Tail(todo["timer"]), {"arg", "show"})
      BY <2>1, <2>4, HasTail DEF Plain
    <3>. QED  BY <2>2, <3>1, <3>2, PlainHandlers DEF Plain
  <2>. QED  BY <1>2, <1>4, <2>1, <2>2, <2>3, <2>5
<1>5. CASE MuteStep("timer")
  <2>1. PICK h, p : Does("timer", h, p)  BY <1>0, <1>5, MuteStepShape
  <2>2. ~overlap /\ todo["main"] = <<>> /\ todo'["main"] = todo["main"]
    <3>1. ~overlap /\ \A u \in Thread \ {"timer"} : todo[u] = <<>>
      BY <1>0, <2>1, Alone
    <3>2. todo'["main"] = todo["main"]  BY <2>1 DEF Does, TypeOK, Thread
    <3>. QED  BY <1>0, <3>1, <3>2
  <2>3. Applied  BY <2>2 DEF CoverInv
  <2>. QED  BY <1>0, <1>1, <1>5, <2>2, <2>3, MuteStepApplied
<1>. QED  BY <1>3, <1>4, <1>5

\* The event loop begins handlers while the surface is as set, and every
\* switch at its first stage.
LEMMA OutsideCover ==
  ASSUME TypeOK, CoverInv, ~overlap', Outside \/ UpdateCameraPathStatus
  PROVE  Applied' /\ Switching' /\ Undisturbed'
<1>0. /\ setting' = setting /\ blinder' = blinder /\ local' = local
      /\ "main" \in Thread
  BY OtherStepsLeave DEF Thread
<1>1. overlap' = overlap
  BY DEF Outside, UpdateCameraPathStatus, ActionVpathCameraCurrent,
         ActionCameraSync, ActionCameraPowerState, ResetCapture, StrState
<1>2. Applied /\ Switching  BY <1>1 DEF CoverInv
<1>3. CASE UpdateCameraPathStatus
  <2>1. todo' = todo /\ todo["main"] = <<>>
    BY <1>3 DEF UpdateCameraPathStatus, Busy
  <2>2. Applied'  BY <1>0, <1>2, <2>1 DEF Applied, InOrder, Applying
  <2>. QED  BY <2>1, <2>2, NoMoves DEF Switching, Undisturbed
<1>4. ASSUME NEW k, NEW x \in Seq(Step), Begins(k, x), Plain(x),
             ~Has(x, Moves) \/ At(x, <<"notifyOn", "stop">>)
      PROVE  Applied' /\ Switching' /\ Undisturbed'
  <2>1. todo["main"] = <<>> /\ todo' = [todo EXCEPT !["main"] = x]
    BY <1>4 DEF Begins, Busy
  <2>2. ~Applying(todo["main"])  BY <2>1 DEF Applying
  <2>3. Applied'  BY <1>0, <1>2, <1>4, <2>1, <2>2, AppliedPlain
  <2>4. todo'["main"] = x  BY <2>1 DEF TypeOK, Thread
  <2>5. Switching'  BY <1>4, <2>4 DEF Switching, Stage, At
  <2>6. At(x, <<"notifyOn", "stop">>) => Head(x) = "notifyOn"
    <3>1. <<"notifyOn", "stop">> \in Seq(Step)  BY DEF Step
    <3>2. Head(<<"notifyOn", "stop">>) = "notifyOn" /\ <<"notifyOn", "stop">> # <<>>
      BY Literals
    <3>. QED  BY <3>1, <3>2, AtNext
  <2>7. Undisturbed'  BY <1>4, <2>4, <2>6 DEF Undisturbed
  <2>. QED  BY <2>3, <2>5, <2>7
<1>5. ASSUME NEW p \in Paths \cup {NoPath}, ActionVpathCameraCurrent(p)
      PROVE  Applied' /\ Switching' /\ Undisturbed'
  <2>1. \/ Begins("switch", Switch(p))
        \/ Begins("switch", SetMuteCameraPathFailed)
    BY <1>5 DEF ActionVpathCameraCurrent
  <2>. QED  BY <1>4, <2>1, HandlerTypes, PlainHandlers, NoMoves, SwitchBegins
<1>6. CASE \/ \E s \in Sync : ActionCameraSync(s)
           \/ \E on \in BOOLEAN : ActionCameraPowerState(on)
  <2>1. Begins("sense", SetMuteCamera) \/ Begins("sense", <<>>)
    BY <1>6 DEF ActionCameraSync, ActionCameraPowerState
  <2>. QED  BY <1>4, <2>1, HandlerTypes, PlainHandlers, NoMoves
<1>7. CASE ResetCapture
  <2>. DEFINE x == SetMuteCameraPathOn \o SetMuteCameraOff
  <2>1. Begins("reset", x)  BY <1>7 DEF ResetCapture
  <2>2. x \in Seq(Step)  BY HandlerTypes, ConcatType
  <2>3. Plain(x)  BY HandlerTypes, PlainHandlers, HasConcat DEF Plain
  <2>4. ~Has(x, Moves)  BY NoMoves
  <2>. HIDE DEF x
  <2>. QED  BY <1>4, <2>1, <2>2, <2>3, <2>4
<1>8. CASE StrState
  <2>. DEFINE clear == IF path = NoPath THEN <<>>
                       ELSE SetMuteCameraPathOn \o <<"clearPath">>
              x == ((<<"suspend">> \o clear) \o <<"reInit", "notifyOff">>)
                     \o SetMuteCamera \o <<"resume">>
  <2>1. Begins("reset", x)  BY <1>8 DEF StrState
  <2>2. /\ <<"suspend">> \in Seq(Step) /\ <<"clearPath">> \in Seq(Step)
        /\ <<"reInit", "notifyOff">> \in Seq(Step) /\ <<"resume">> \in Seq(Step)
    BY DEF Step
  <2>. DEFINE B == {"arg", "show"} \cup Moves
  <2>3. /\ ~Has(<<"suspend">>, B) /\ ~Has(<<"clearPath">>, B)
        /\ ~Has(<<"reInit", "notifyOff">>, B) /\ ~Has(<<"resume">>, B)
    <3>1. /\ Has(<<"suspend">>, B) <=> "suspend" \in B
          /\ Has(<<"clearPath">>, B) <=> "clearPath" \in B
          /\ Has(<<"reInit", "notifyOff">>, B) <=> "reInit" \in B \/ "notifyOff" \in B
          /\ Has(<<"resume">>, B) <=> "resume" \in B
      BY HasLiteral
    <3>. QED  BY <3>1 DEF Moves
  <2>4. ~Has(SetMuteCameraPathOn, B) /\ ~Has(SetMuteCamera, B) /\ ~Has(<<>>, B)
    <3>1. ~Has(<<>>, B)  BY HasLiteral
    <3>. QED  BY <3>1, HandlerSteps DEF Moves
  <2>. HIDE DEF B
  <2>5. clear \in Seq(Step) /\ ~Has(clear, B)
    <3>1. /\ SetMuteCameraPathOn \o <<"clearPath">> \in Seq(Step)
          /\ ~Has(SetMuteCameraPathOn \o <<"clearPath">>, B)
      BY <2>2, <2>3, <2>4, HandlerTypes, StepJoin
    <3>. QED  BY <2>4, <3>1, PlainHandlers
  <2>. HIDE DEF clear
  <2>6. /\ <<"suspend">> \o clear \in Seq(Step) /\ ~Has(<<"suspend">> \o clear, B)
    BY <2>2, <2>3, <2>5, StepJoin
  <2>7. /\ (<<"suspend">> \o clear) \o <<"reInit", "notifyOff">> \in Seq(Step)
        /\ ~Has((<<"suspend">> \o clear) \o <<"reInit", "notifyOff">>, B)
    BY <2>2, <2>3, <2>6, StepJoin
  <2>8. /\ ((<<"suspend">> \o clear) \o <<"reInit", "notifyOff">>) \o SetMuteCamera
             \in Seq(Step)
        /\ ~Has(((<<"suspend">> \o clear) \o <<"reInit", "notifyOff">>)
                  \o SetMuteCamera, B)
    BY <2>4, <2>7, HandlerTypes, StepJoin
  <2>9. x \in Seq(Step) /\ ~Has(x, B)
    <3>. DEFINE y == ((<<"suspend">> \o clear) \o <<"reInit", "notifyOff">>)
                       \o SetMuteCamera
    <3>1. x = y \o <<"resume">>  OBVIOUS
    <3>2. y \in Seq(Step) /\ ~Has(y, B)  BY <2>8
    <3>. HIDE DEF x, y
    <3>. QED  BY <2>2, <2>3, <3>1, <3>2, StepJoin
  <2>10. Plain(x) /\ ~Has(x, Moves)
    <3>. HIDE DEF x
    <3>. QED  BY <2>9 DEF Plain, Has, B
  <2>. HIDE DEF x
  <2>. QED  BY <1>4, <2>1, <2>9, <2>10
<1>. QED  BY <1>3, <1>5, <1>6, <1>7, <1>8 DEF Outside

LEMMA CoverStep == TypeOK /\ CoverInv /\ [Next]_vars => CoverInv'
<1>. SUFFICES ASSUME TypeOK, CoverInv, [Next]_vars, ~overlap'
              PROVE  Applied' /\ Switching' /\ Undisturbed'
  BY DEF CoverInv
<1>0. "main" \in Thread  BY DEF Thread
<1>1. CASE MuteStep("main")
  <2>1. PICK h, p : Does("main", h, p)  BY <1>0, <1>1, MuteStepShape
  <2>2. Applied /\ Switching  BY <1>0, <2>1, Alone DEF CoverInv
  <2>3. MainStep  BY <1>1 DEF MainStep
  <2>. QED  BY <1>0, <1>1, <2>2, <2>3, MuteStepApplied, MuteStepSwitching,
               MainUndisturbed
<1>2. CASE \/ SetNotifyCameraChanged \/ StopMuteTimer \/ StartMuteTimer
           \/ SwitchStep \/ SwitchFailed \/ StrSuspendPathClear \/ ReInit
           \/ SuspendResume
  BY <1>2, MainOtherCover, MainUndisturbed DEF MainStep
<1>3. CASE TimerFires \/ TimerStep  BY <1>3, TimerCover DEF TimerStep
<1>4. CASE Outside \/ UpdateCameraPathStatus  BY <1>4, OutsideCover
<1>5. CASE UNCHANGED vars
  <2>1. /\ todo' = todo /\ local' = local /\ setting' = setting
        /\ blinder' = blinder /\ pathMute' = pathMute /\ overlap' = overlap
    BY <1>5 DEF vars, flagVars
  <2>2. Applied /\ Switching /\ Undisturbed  BY <2>1 DEF CoverInv
  <2>3. Applied'  BY <2>1, <2>2 DEF Applied, InOrder, Applying
  <2>4. Switching' /\ Undisturbed'
    BY <2>1, <2>2 DEF Switching, Stage, At, Undisturbed
  <2>. QED  BY <2>3, <2>4
<1>. QED  BY <1>1, <1>2, <1>3, <1>4, <1>5 DEF Next, MainStep

LEMMA InitCover == Init => CoverInv
<1>. SUFFICES ASSUME Init PROVE Applied /\ Switching /\ Undisturbed
  BY DEF CoverInv
<1>1. /\ \A t \in Thread : todo[t] = <<>>
      /\ todo["main"] = <<>> /\ setting = FALSE /\ blinder = FALSE
  BY DEF Init, Thread
<1>2. Plain(<<>>)  BY PlainHandlers
<1>. QED  BY <1>1, <1>2, NoMoves DEF Applied, InOrder, Switching, Undisturbed

\* Unless the callback overlaps the main thread in CVhalMute, or the timer
\* library refuses a call, the camera is covered whenever a switch starts the
\* capture or changes the layout (ActionVpathCameraCurrent after
\* SetMuteCameraPath).
THEOREM CoveredCorrect == Spec => []MutedWhileSwitching
<1>1. TypeOK /\ CoverInv => MutedWhileSwitching
  <2>. SUFFICES ASSUME TypeOK, CoverInv, todo["main"] # <<>>,
                       Head(todo["main"]) \in Moves, ~overlap
                PROVE  blinder
    BY DEF MutedWhileSwitching, Busy, Moves
  <2>1. todo["main"] \in Seq(Step)  BY DEF TypeOK, Thread
  <2>2. Has(todo["main"], Moves)  BY <2>1, HasTail
  <2>3. Applied /\ Stage(todo["main"])  BY <2>2 DEF CoverInv, Switching
  <2>4. setting  BY <2>1, <2>3, StageNext DEF Moves
  <2>5. ~Applying(todo["main"])  BY DEF Applying, Moves
  <2>6. ~Applying(todo["timer"])
    BY <2>2 DEF CoverInv, Undisturbed, Applying, Moves
  <2>. QED  BY <2>3, <2>4, <2>5, <2>6 DEF Applied, Thread
<1>. QED  BY <1>1, InitTyped, InitCover, TypeStep, CoverStep, PTL DEF Spec
=============================================================================
