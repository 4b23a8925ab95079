----------------------------- MODULE MiconProofs ----------------------------
(***************************************************************************)
(* Proofs about the two channels to the MICON.                             *)
(*                                                                         *)
(* MostChannel: IInv is inductive and says what a waiting sequence, the    *)
(* list and the interval timer have to do with each other; ActiveInv adds  *)
(* which command turns off each source that was turned on.                 *)
(*                                                                         *)
(* MiscChannel, as Misc: ShotInv says what may still end a request for a   *)
(* screen shot, HudInv what the surface over the head-up display and its   *)
(* parameters have to do with each other, KnownInv what the HAL will know  *)
(* once the messages on their way have been taken.                         *)
(***************************************************************************)
EXTENDS MiconChannels, SequenceTheorems, TLAPS

Answered(cmds) == \E i \in DOMAIN cmds : Responds(cmds[i])

\* Without an RSE only what is not answered is asked for, so that SendCmd never
\* waits for an answer to a command that was not sent.
QuietWithoutRse ==
  rse = "NONE" => /\ ~Answered(current.cmds)
                  /\ \A i \in DOMAIN queue : ~Answered(queue[i].cmds)

\* The event of a timer that is in the list, and not of one that was deleted.
TickHasTimer == TimerEvent("tick") \in ToSet(events) => timer # "none"

\* The list's timer belongs to the current sequence, which waits for it; no
\* suspend comes into SendCmd's loop.
TimerIsWaiting ==
  /\ timer # "none" /\ ~stale
       => resumed /\ ~suspended /\ ~sending /\ current # NoItem
  /\ sending => ~suspended

IInv ==
  /\ TypeOK
  /\ QuietWithoutRse
  /\ TickHasTimer
  /\ TimerIsWaiting
  /\ WaitingIsTimed
  /\ QueuedBehindCurrent
  /\ RefusedOnlyWhenStale

-----------------------------------------------------------------------------
(* Sequences of commands and of events                                     *)

LEMMA CommandsTyped ==
  ASSUME TypeOK, NEW id \in SeqId, NEW disp \in Paths \cup {NoPath},
         NEW m \in BOOLEAN
  PROVE  CreateSequenceItem(id, disp, m) \in Item
<1>1. /\ CurrentVideoSource \in Command /\ VideoMode \in Command
      /\ StatusVpathRear \in Command
      /\ VideoMute(m) \in Command /\ StatusMute(m) \in Command
      /\ SourceActivity("on", disp) \in Command
      /\ SourceActivity("off", prevRse) \in Command
  BY DEF TypeOK, CurrentVideoSource, VideoMode, StatusVpathRear, VideoMute,
         StatusMute, SourceActivity, Command, Names
<1> DEFINE off == IF prevRse \notin {disp, NoPath}
                    THEN <<SourceActivity("off", prevRse)>> ELSE <<>>
           new == IF disp \notin {prevRse, NoPath}
                    THEN <<SourceActivity("on", disp)>> ELSE <<>>
           set == IF disp # NoPath
                    THEN <<SourceActivity("on", disp)>> ELSE <<>>
<1>2. off \in Seq(Command) /\ new \in Seq(Command) /\ set \in Seq(Command)
  BY <1>1
<1>3. /\ <<CurrentVideoSource>> \in Seq(Command)
      /\ <<CurrentVideoSource, VideoMode>> \in Seq(Command)
      /\ <<CurrentVideoSource, VideoMode, StatusVpathRear>> \in Seq(Command)
      /\ <<VideoMute(m), StatusMute(m)>> \in Seq(Command)
  BY <1>1
<1>4. /\ off \o new \o <<CurrentVideoSource, VideoMode, StatusVpathRear>>
           \in Seq(Command)
      /\ set \o <<CurrentVideoSource, VideoMode>> \in Seq(Command)
  <2> HIDE DEF off, new, set
  <2> QED
    BY <1>2, <1>3
<1>5. CreateCommandItem(id, disp, m) \in Seq(Command)
  BY <1>3, <1>4 DEF CreateCommandItem, SeqId
<1> QED
  BY <1>5 DEF CreateSequenceItem, Item

\* Telling the front path is not answered.
LEMMA FrontIsQuiet ==
  ASSUME NEW disp
  PROVE  ~Answered(CreateSequenceItem("SetFrontPath", disp, FALSE).cmds)
BY DEF Answered, CreateSequenceItem, CreateCommandItem, CurrentVideoSource,
       Responds

LEMMA ItemFields ==
  ASSUME NEW x \in Item
  PROVE  x.cmds \in Seq(Command) /\ x.id \in SeqId
BY DEF Item

LEMMA ToldTyped ==
  ASSUME NEW cmds \in Seq(Command), NEW name
  PROVE  Told(name, cmds) \subseteq Paths \cup {NoPath}
<1>1. \A c \in ToSet(cmds) : c \in Command
  BY DEF ToSet
<1>2. \A c \in Command : c.path \in Paths \cup {NoPath}
  BY DEF Command
<1> QED
  BY <1>1, <1>2 DEF Told

LEMMA ToldByTyped ==
  ASSUME NEW q \in Seq(Item), NEW name
  PROVE  ToldBy(name, q) \subseteq Paths \cup {NoPath}
<1>1. \A i \in DOMAIN q : q[i].cmds \in Seq(Command)
  <2>1. \A i \in DOMAIN q : q[i] \in Item
    OBVIOUS
  <2> QED
    BY <2>1, ItemFields
<1> QED
  BY <1>1, ToldTyped DEF ToldBy, ToSet

\* What is left of the list is of the list.
LEMMA Erased ==
  ASSUME queue \in Seq(Item), NEW i \in DOMAIN queue
  PROVE  /\ RemoveAt(queue, i) \in Seq(Item)
         /\ \A k \in DOMAIN RemoveAt(queue, i) :
              \E j \in DOMAIN queue : RemoveAt(queue, i)[k] = queue[j]
<1> DEFINE a == SubSeq(queue, 1, i - 1)
           b == SubSeq(queue, i + 1, Len(queue))
<1>1. i \in 1..Len(queue) /\ Len(queue) \in Nat
  OBVIOUS
<1>2. /\ a \in Seq(Item) /\ Len(a) = i - 1
      /\ \A k \in 1..Len(a) : a[k] = queue[k]
  BY <1>1
<1>3. /\ b \in Seq(Item) /\ Len(b) = Len(queue) - i
      /\ \A k \in 1..Len(b) : b[k] = queue[i + k]
  BY <1>1
<1>4. RemoveAt(queue, i) = a \o b
  BY DEF RemoveAt
<1> HIDE DEF a, b
<1>5. a \o b \in Seq(Item) /\ Len(a \o b) = Len(a) + Len(b)
  BY <1>2, <1>3, ConcatProperties
<1>6. ASSUME NEW k \in DOMAIN (a \o b)
      PROVE  \E j \in DOMAIN queue : (a \o b)[k] = queue[j]
  <2>1. k \in 1..(Len(a) + Len(b))
    BY <1>5
  <2>2. CASE k <= Len(a)
    <3>1. (a \o b)[k] = a[k]
      BY <1>2, <1>3, <2>1, <2>2, ConcatProperties
    <3>2. k \in 1..Len(a) /\ k \in 1..Len(queue)
      BY <1>1, <1>2, <2>1, <2>2
    <3>3. a[k] = queue[k]
      BY <1>2, <3>2
    <3> QED
      BY <3>1, <3>2, <3>3
  <2>3. CASE k > Len(a)
    <3>1. (a \o b)[k] = b[k - Len(a)]
      BY <1>2, <1>3, <2>1, <2>3, ConcatProperties
    <3>2. Len(a) \in Nat /\ Len(b) \in Nat /\ k \in Int
      BY <1>2, <1>3, <2>1
    <3>3. k - Len(a) \in 1..Len(b)
      BY <2>1, <2>3, <3>2
    <3>4. b[k - Len(a)] = queue[i + (k - Len(a))]
      BY <1>3, <3>3
    <3>5. i + (k - Len(a)) \in 1..Len(queue)
      BY <1>1, <1>3, <3>2, <3>3
    <3> QED
      BY <3>1, <3>4, <3>5
  <2>4. Len(a) \in Nat /\ k \in Int
    BY <1>2, <2>1
  <2> QED
    BY <2>2, <2>3, <2>4
<1> QED
  BY <1>4, <1>5, <1>6

LEMMA Queued ==
  ASSUME TypeOK, NEW s \in Item, QueueSequence(s)
  PROVE  /\ queue' \in Seq(Item) /\ queue' # <<>>
         /\ left' \subseteq Paths \cup {NoPath}
         /\ \A k \in DOMAIN queue' :
              queue'[k] = s \/ \E j \in DOMAIN queue : queue'[k] = queue[j]
<1> DEFINE i == Waiting(s.id)
           q == EraseSequence(i)
<1>1. i = 0 \/ i \in DOMAIN queue
  <2>1. CASE \E n \in DOMAIN queue : queue[n].id = s.id
    BY <2>1 DEF Waiting
  <2>2. CASE ~\E n \in DOMAIN queue : queue[n].id = s.id
    BY <2>2 DEF Waiting
  <2> QED
    BY <2>1, <2>2
<1>2. queue \in Seq(Item)
  BY DEF TypeOK
<1>3. /\ q \in Seq(Item)
      /\ \A k \in DOMAIN q : \E j \in DOMAIN queue : q[k] = queue[j]
  <2>1. CASE i = 0
    BY <2>1, <1>2 DEF EraseSequence
  <2>2. CASE i # 0
    BY <2>2, <1>1, <1>2, Erased DEF EraseSequence
  <2> QED
    BY <2>1, <2>2
<1>4. queue' = Append(q, s)
  BY DEF QueueSequence
<1> HIDE DEF q
<1>5. queue' \in Seq(Item) /\ queue' # <<>>
  BY <1>3, <1>4
<1>6. \A k \in DOMAIN queue' : queue'[k] = s \/ (k \in DOMAIN q /\ queue'[k] = q[k])
  BY <1>3, <1>4, AppendProperties
<1>7. left' \subseteq Paths \cup {NoPath}
  <2>1. i # 0 => Told("off", queue[i].cmds) \subseteq Paths \cup {NoPath}
    <3>1. i # 0 => queue[i] \in Item
      BY <1>1, <1>2
    <3> QED
      BY <3>1, ItemFields, ToldTyped
  <2>2. Unnotified(s) \subseteq Paths \cup {NoPath}
    BY ItemFields, ToldTyped DEF Unnotified
  <2> QED
    BY <2>1, <2>2 DEF QueueSequence, TypeOK
<1> QED
  BY <1>3, <1>5, <1>6, <1>7

LEMMA Tails ==
  ASSUME NEW S, NEW q \in Seq(S), q # <<>>
  PROVE  /\ Tail(q) \in Seq(S)
         /\ Head(q) \in S
         /\ ToSet(Tail(q)) \subseteq ToSet(q)
         /\ \A x \in ToSet(q) : x # Head(q) => x \in ToSet(Tail(q))
<1>1. /\ Len(q) \in Nat \ {0} /\ Tail(q) \in Seq(S) /\ Len(Tail(q)) = Len(q) - 1
      /\ \A i \in 1..Len(Tail(q)) : Tail(q)[i] = q[i + 1]
      /\ Head(q) = q[1]
  OBVIOUS
<1>2. Head(q) \in S
  BY <1>1
<1>3. ToSet(Tail(q)) \subseteq ToSet(q)
  <2>1. \A i \in DOMAIN Tail(q) : i + 1 \in DOMAIN q /\ Tail(q)[i] = q[i + 1]
    BY <1>1
  <2> QED
    BY <2>1 DEF ToSet
<1>4. ASSUME NEW x \in ToSet(q), x # Head(q)
      PROVE  x \in ToSet(Tail(q))
  <2>1. PICK i \in DOMAIN q : q[i] = x
    BY DEF ToSet
  <2>2. i - 1 \in DOMAIN Tail(q) /\ Tail(q)[i - 1] = x
    <3>1. i # 1 /\ i \in 1..Len(q)
      BY <1>1, <1>4, <2>1
    <3>2. i - 1 \in 1..Len(Tail(q))
      BY <1>1, <3>1
    <3>3. Tail(q)[i - 1] = q[(i - 1) + 1] /\ (i - 1) + 1 = i
      BY <1>1, <3>1, <3>2
    <3>4. DOMAIN Tail(q) = 1..Len(Tail(q))
      BY <1>1
    <3> QED
      BY <2>1, <3>2, <3>3, <3>4
  <2> QED
    BY <2>2 DEF ToSet
<1> QED
  BY <1>1, <1>2, <1>3, <1>4

LEMMA Appended ==
  ASSUME NEW S, NEW q \in Seq(S), NEW e \in S
  PROVE  /\ Append(q, e) \in Seq(S)
         /\ ToSet(Append(q, e)) = ToSet(q) \cup {e}
<1>1. /\ Append(q, e) \in Seq(S) /\ DOMAIN q = 1..Len(q) /\ Len(q) \in Nat
      /\ DOMAIN Append(q, e) = 1..(Len(q) + 1)
      /\ Append(q, e)[Len(q) + 1] = e
      /\ \A i \in 1..Len(q) : Append(q, e)[i] = q[i]
  BY AppendProperties
<1>2. 1..(Len(q) + 1) = 1..Len(q) \cup {Len(q) + 1}
  BY <1>1
<1> QED
  BY <1>1, <1>2 DEF ToSet

LEMMA TimerEvents ==
  /\ TimerEvent("tick") \in Event /\ TimerEvent("deadTick") \in Event
  /\ TimerEvent("response") \in Event
  /\ TimerEvent("tick") # TimerEvent("deadTick")
  /\ TimerEvent("tick") # TimerEvent("response")
  /\ TimerEvent("deadTick") # TimerEvent("response")
BY DEF TimerEvent, Event

LEMMA OrphanedEvents ==
  ASSUME NEW ev \in Seq(Event)
  PROVE  /\ Orphaned(ev) \in Seq(Event)
         /\ TimerEvent("tick") \notin ToSet(Orphaned(ev))
         /\ TimerEvent("response") \in ToSet(ev)
              => TimerEvent("response") \in ToSet(Orphaned(ev))
<1>1. DOMAIN ev = 1..Len(ev) /\ Len(ev) \in Nat
      /\ \A i \in 1..Len(ev) : ev[i] \in Event
  OBVIOUS
<1>2. \A i \in 1..Len(ev) :
        (IF ev[i] = TimerEvent("tick") THEN TimerEvent("deadTick") ELSE ev[i])
          \in Event
  BY <1>1, TimerEvents
<1>3. Orphaned(ev) \in [1..Len(ev) -> Event]
  BY <1>1, <1>2 DEF Orphaned
<1>4. Orphaned(ev) \in Seq(Event)
  BY <1>1, <1>3
<1>5. \A i \in DOMAIN ev : Orphaned(ev)[i] # TimerEvent("tick")
  BY TimerEvents DEF Orphaned
<1>6. \A i \in DOMAIN ev : ev[i] = TimerEvent("response")
                             => Orphaned(ev)[i] = TimerEvent("response")
  BY TimerEvents DEF Orphaned
<1>7. DOMAIN Orphaned(ev) = DOMAIN ev
  BY DEF Orphaned
<1> QED
  BY <1>4, <1>5, <1>6, <1>7 DEF ToSet

-----------------------------------------------------------------------------
(* The helpers of the handlers                                             *)

LEMMA NoItemIsNone == NoItem \notin Item /\ NoItem.cmds = <<>>
BY DEF NoItem, Item, SeqId

LEMMA NoneIsQuiet == ~Answered(<<>>)
BY DEF Answered

LEMMA CurrentTyped ==
  ASSUME TypeOK
  PROVE  current.cmds \in Seq(Command)
<1>1. CASE current \in Item
  BY <1>1, ItemFields
<1>2. CASE current = NoItem
  BY <1>2, NoItemIsNone
<1> QED
  BY <1>1, <1>2 DEF TypeOK

\* A sequence is started if there is none, and waits otherwise.
LEMMA Sequenced ==
  ASSUME IInv, NEW s \in Item, SendSequenceItem(s),
         rse' = "NONE" => rse = "NONE" /\ ~Answered(s.cmds)
  PROVE  /\ current' \in Item /\ queue' \in Seq(Item)
         /\ sending' \in BOOLEAN
         /\ left' \subseteq Paths \cup {NoPath}
         /\ QuietWithoutRse'
         /\ current # NoItem => current' = current /\ sending' = sending
         /\ current = NoItem => sending'
<1>1. CASE current # NoItem /\ QueueSequence(s) /\ UNCHANGED <<current, sending>>
  BY <1>1, Queued DEF IInv, TypeOK, QuietWithoutRse
<1>2. CASE /\ current = NoItem
           /\ current' = s /\ sending' = TRUE
           /\ left' = left \cup Unnotified(s) \cup ToldBy("on", queue)
           /\ UNCHANGED queue
  <2>1. Unnotified(s) \subseteq Paths \cup {NoPath}
    BY ItemFields, ToldTyped DEF Unnotified
  <2>2. ToldBy("on", queue) \subseteq Paths \cup {NoPath}
    BY ToldByTyped DEF IInv, TypeOK
  <2> QED
    BY <1>2, <2>1, <2>2 DEF IInv, TypeOK, QuietWithoutRse
<1> QED
  BY <1>1, <1>2 DEF SendSequenceItem

LEMMA Reported ==
  ASSUME TypeOK, NEW ok \in BOOLEAN, NEW cmds, ReceiveEvent(ok, cmds)
  PROVE  pathSts' \in {"SUCCESS", "FAILED"} /\ muteSts' \in BOOLEAN
<1>1. pathSts' \in {"SUCCESS", "FAILED"}
  BY DEF ReceiveEvent, UpdateMostRsePathStatus, TypeOK
<1>2. muteSts' \in BOOLEAN
  <2> DEFINE names == {c.name : c \in ToSet(cmds)}
  <2>1. CASE names \cap {"statusMute", "statusUnmute"} # {}
    <3>1. muteSts' = ("statusMute" \in names)
      BY <2>1, Zenon DEF ReceiveEvent, UpdateMostMuteRearDispStatus
    <3> QED
      BY <3>1
  <2>2. CASE names \cap {"statusMute", "statusUnmute"} = {}
    <3>1. muteSts' = muteSts
      BY <2>2, Zenon DEF ReceiveEvent, UpdateMostMuteRearDispStatus
    <3> QED
      BY <3>1 DEF TypeOK
  <2> QED
    BY <2>1, <2>2
<1> QED
  BY <1>1, <1>2

LEMMA Cleared ==
  ASSUME TypeOK, ClearCurrentSequenceItem(current.cmds)
  PROVE  /\ current' = NoItem
         /\ left' \subseteq Paths \cup {NoPath}
         /\ pathSts' \in {"SUCCESS", "FAILED"} /\ muteSts' \in BOOLEAN
<1>1. Told("off", current.cmds) \subseteq Paths \cup {NoPath}
  BY CurrentTyped, ToldTyped
<1> QED
  BY <1>1, Reported DEF ClearCurrentSequenceItem, TypeOK

LEMMA KeyTyped == \A c \in Command : KeyOf(c) \in Key
BY DEF Command, KeyOf, Key

LEMMA Sent ==
  ASSUME TypeOK, NEW c \in Command \cup {NoCommand}, NEW ok \in SendResults,
         Send(c, ok)
  PROVE  /\ ok \in BOOLEAN /\ (ok => resumed)
         /\ sent' \in Key \cup {NoKey} /\ response' \in BOOLEAN
         /\ active' \subseteq Paths \cup {NoPath} /\ blinder' \in BOOLEAN
         /\ response => response'
         /\ ok /\ rse # "NONE" /\ c # NoCommand => response'
<1>1. /\ ok \in BOOLEAN /\ (ok => resumed)
      /\ (ok /\ rse # "NONE" => ls3)
  BY DEF SendResults, Connected, TypeOK
<1>2. sent' \in Key \cup {NoKey}
  BY KeyTyped DEF Send, TypeOK
<1>3. response' \in BOOLEAN /\ (response => response')
      /\ (ok /\ rse # "NONE" /\ c # NoCommand => response')
  BY <1>1 DEF Send, TypeOK, Connected
<1>4. active' \subseteq Paths \cup {NoPath}
  <2>1. c # NoCommand => c.path \in Paths \cup {NoPath}
    BY DEF Command
  <2>2. c.name = "on" => c # NoCommand
    BY DEF NoCommand
  <2> QED
    BY <2>1, <2>2 DEF Send, TypeOK
<1>5. blinder' \in BOOLEAN
  BY <1>1 DEF Send, TypeOK, Connected
<1> QED
  BY <1>1, <1>2, <1>3, <1>4, <1>5

\* What the end of a repetition leaves: no timer, or the one there was.
LEMMA IntervalEnded ==
  ASSUME IInv, NEW ev \in Seq(Event), ToSet(ev) \subseteq ToSet(events),
         SendIntervalEnd(ev)
  PROVE  /\ timer' \in {"none", "armed", "idle"} /\ count' \in 0..MaxSends
         /\ item' \in Command \cup {NoCommand} /\ stale' \in BOOLEAN
         /\ events' \in Seq(Event)
         /\ TimerEvent("tick") \in ToSet(events') => timer' # "none"
         /\ TimerEvent("response") \in ToSet(ev)
              => TimerEvent("response") \in ToSet(events')
         /\ timer' # "none" => timer' = timer /\ stale' = stale /\ ~resumed
<1>1. CASE resumed /\ timer # "none"
  <2>1. /\ timer' = "none" /\ count' = 0 /\ item' = NoCommand
        /\ events' = Orphaned(ev) /\ stale' = FALSE
    BY <1>1 DEF SendIntervalEnd
  <2>2. /\ events' \in Seq(Event)
        /\ TimerEvent("tick") \notin ToSet(events')
        /\ TimerEvent("response") \in ToSet(ev)
             => TimerEvent("response") \in ToSet(events')
    BY <2>1, OrphanedEvents
  <2>3. count' \in 0..MaxSends
    BY <2>1 DEF MaxSends
  <2> QED
    BY <2>1, <2>2, <2>3, Zenon
<1>2. CASE ~(resumed /\ timer # "none")
  BY <1>2 DEF SendIntervalEnd, IInv, TypeOK, TickHasTimer
<1> QED
  BY <1>1, <1>2

-----------------------------------------------------------------------------
THEOREM Initial == Init => IInv
<1> SUFFICES ASSUME Init PROVE IInv
  OBVIOUS
<1>1. TypeOK
  <2>1. 0 \in 0..MaxRequests /\ 0 \in 0..MaxSuspends /\ 0 \in 0..MaxSends
    BY MostChannelAssumption DEF MaxSends
  <2>2. queue \in Seq(Item) /\ events \in Seq(Event)
    BY DEF Init
  <2> QED
    BY <2>1, <2>2, MostChannelAssumption DEF Init, TypeOK, Rse
<1>2. ToSet(events) = {}
  BY DEF Init, ToSet
<1>3. QuietWithoutRse
  BY NoItemIsNone, NoneIsQuiet DEF Init, QuietWithoutRse
<1> QED
  BY <1>1, <1>2, <1>3 DEF Init, IInv, TickHasTimer, TimerIsWaiting,
     WaitingIsTimed, QueuedBehindCurrent, RefusedOnlyWhenStale

-----------------------------------------------------------------------------
(* SendCmd's loop                                                          *)

\* The command SendCmd takes is of the current sequence.
LEMMA CommandTaken ==
  ASSUME IInv, current.cmds # <<>>
  PROVE  /\ current \in Item /\ Head(current.cmds) \in Command
         /\ Head(current.cmds) # NoCommand
         /\ [current EXCEPT !.cmds = Tail(@)] \in Item
         /\ rse = "NONE" => /\ ~Responds(Head(current.cmds))
                            /\ ~Answered([current EXCEPT !.cmds = Tail(@)].cmds)
<1>1. current \in Item /\ current.cmds \in Seq(Command) /\ current.id \in SeqId
  BY NoItemIsNone, ItemFields DEF IInv, TypeOK
<1> DEFINE q == current.cmds
<1>2. Head(q) \in Command /\ Tail(q) \in Seq(Command)
  BY <1>1, Tails
<1>3. Head(q) # NoCommand
  BY <1>2 DEF NoCommand, Command, Names
<1>4. [current EXCEPT !.cmds = Tail(@)] = [id |-> current.id, cmds |-> Tail(q)]
  BY <1>1 DEF Item
<1>5. [current EXCEPT !.cmds = Tail(@)] \in Item
  BY <1>1, <1>2, <1>4 DEF Item
<1>6. ASSUME rse = "NONE"
      PROVE  ~Responds(Head(q)) /\ ~Answered(Tail(q))
  <2>1. \A i \in DOMAIN q : ~Responds(q[i])
    BY <1>6 DEF IInv, QuietWithoutRse, Answered
  <2>2. 1 \in DOMAIN q /\ Head(q) = q[1]
    BY <1>1
  <2>3. \A i \in DOMAIN Tail(q) : i + 1 \in DOMAIN q /\ Tail(q)[i] = q[i + 1]
    BY <1>1
  <2> QED
    BY <2>1, <2>2, <2>3 DEF Answered
<1> QED
  BY <1>1, <1>2, <1>3, <1>4, <1>5, <1>6

LEMMA IntervalStep ==
  ASSUME IInv, sending, current.cmds # <<>>, Responds(Head(current.cmds)),
         SendCmdInterval, UNCHANGED <<pathVars, stateVars, requests>>
  PROVE  IInv'
<1> DEFINE c == Head(current.cmds)
           rest == [current EXCEPT !.cmds = Tail(@)]
<1>1. c \in Command /\ c # NoCommand /\ rest \in Item /\ rse # "NONE"
  BY CommandTaken
<1>2. PICK ok \in SendResults :
        /\ SendIntervalStart(c, ok)
        /\ item' = IF timer' = "none" THEN NoCommand ELSE c
        /\ freed' = ~ok
        /\ sending' = FALSE
        /\ IF ok THEN /\ current' = rest
                      /\ UNCHANGED <<left, pathSts, muteSts>>
                 ELSE ClearCurrentSequenceItem(current.cmds)
        /\ UNCHANGED <<queue, cut, stale, events>>
  BY Zenon DEF SendCmdInterval
<1> HIDE DEF c, rest
<1>3. timer # "none" => stale
  BY DEF IInv, TimerIsWaiting
<1>4. ok \in BOOLEAN /\ (ok => timer = "none" /\ resumed)
  BY <1>2 DEF SendIntervalStart, SendResults
<1>5. refused' = FALSE
  BY <1>2, <1>3 DEF SendIntervalStart, IInv, RefusedOnlyWhenStale, TypeOK
<1>6. /\ sent' \in Key \cup {NoKey} /\ response' \in BOOLEAN
      /\ active' \subseteq Paths \cup {NoPath} /\ blinder' \in BOOLEAN
      /\ ok => response'
  <2>1. CASE resumed /\ timer = "none"
    <3>1. Send(c, ok)
      BY <1>2, <2>1 DEF SendIntervalStart
    <3> QED
      BY <1>1, <1>2, <3>1, Sent DEF IInv
  <2>2. CASE ~(resumed /\ timer = "none")
    BY <1>2, <1>4, <2>2 DEF SendIntervalStart, linkVars, IInv, TypeOK
  <2> QED
    BY <2>1, <2>2
<1>7. /\ timer' \in {"none", "armed", "idle"}
      /\ timer' # "none" => ok \/ (timer' = timer)
      /\ timer = "none" /\ ~ok => timer' = "none"
      /\ timer # "none" => timer' # "none"
  BY <1>2 DEF SendIntervalStart, IInv, TypeOK
<1>8. count' \in 0..MaxSends
  BY <1>2 DEF SendIntervalStart, IInv, TypeOK, MaxSends
<1>9. item' \in Command \cup {NoCommand}
  BY <1>1, <1>2
<1>10. /\ current' \in Item \cup {NoItem}
       /\ left' \subseteq Paths \cup {NoPath}
       /\ pathSts' \in {"SUCCESS", "FAILED"} /\ muteSts' \in BOOLEAN
       /\ ok <=> current' # NoItem
  BY <1>1, <1>2, <1>4, Cleared, NoItemIsNone DEF IInv, TypeOK
<1>11. TypeOK'
  BY <1>2, <1>4, <1>5, <1>6, <1>7, <1>8, <1>9, <1>10
     DEF IInv, TypeOK, pathVars, stateVars
<1>12. TickHasTimer' /\ TimerIsWaiting'
  BY <1>2, <1>3, <1>4, <1>7, <1>10
     DEF IInv, TickHasTimer, TimerIsWaiting, stateVars
<1>13. WaitingIsTimed' /\ QueuedBehindCurrent' /\ RefusedOnlyWhenStale'
  BY <1>2, <1>4, <1>5, <1>6, <1>10
     DEF WaitingIsTimed, QueuedBehindCurrent, RefusedOnlyWhenStale
<1>14. QuietWithoutRse'
  BY <1>1 DEF QuietWithoutRse, stateVars
<1> QED
  BY <1>11, <1>12, <1>13, <1>14 DEF IInv

LEMMA OneshotStep ==
  ASSUME IInv, sending, current.cmds # <<>>,
         SendCmdOneshot, UNCHANGED <<pathVars, stateVars, requests>>
  PROVE  IInv'
<1> DEFINE c == Head(current.cmds)
           rest == [current EXCEPT !.cmds = Tail(@)]
<1>1. /\ c \in Command /\ c # NoCommand /\ rest \in Item
      /\ rse = "NONE" => ~Answered(rest.cmds)
  BY CommandTaken
<1>2. PICK ok \in SendResults :
        /\ Send(c, ok)
        /\ item' = IF timer = "none" THEN NoCommand ELSE c
        /\ freed' = ~ok
        /\ IF ok THEN /\ current' = rest
                      /\ UNCHANGED <<left, pathSts, muteSts>>
                 ELSE ClearCurrentSequenceItem(current.cmds)
        /\ UNCHANGED <<queue, sending, timer, count, refused, cut, stale, events>>
  BY Zenon DEF SendCmdOneshot
<1> HIDE DEF c, rest
<1>3. /\ sent' \in Key \cup {NoKey} /\ response' \in BOOLEAN
      /\ active' \subseteq Paths \cup {NoPath} /\ blinder' \in BOOLEAN
      /\ ok \in BOOLEAN
  BY <1>1, <1>2, Sent DEF IInv
<1>4. /\ current' \in Item \cup {NoItem}
      /\ left' \subseteq Paths \cup {NoPath}
      /\ pathSts' \in {"SUCCESS", "FAILED"} /\ muteSts' \in BOOLEAN
      /\ rse = "NONE" => ~Answered(current'.cmds)
  BY <1>1, <1>2, <1>3, Cleared, NoItemIsNone, NoneIsQuiet DEF IInv, TypeOK
<1>5. TypeOK'
  <2>1. item' \in Command \cup {NoCommand} /\ freed' \in BOOLEAN
    BY <1>1, <1>2, <1>3
  <2>2. UNCHANGED <<queue, sending, timer, count, refused, cut, stale, events,
                    pathVars, stateVars, requests>>
    BY <1>2
  <2> QED
    BY <1>3, <1>4, <2>1, <2>2 DEF IInv, TypeOK, pathVars, stateVars
<1>6. TickHasTimer' /\ TimerIsWaiting'
  BY <1>2 DEF IInv, TickHasTimer, TimerIsWaiting, stateVars
<1>7. WaitingIsTimed' /\ QueuedBehindCurrent' /\ RefusedOnlyWhenStale'
  BY <1>2 DEF IInv, WaitingIsTimed, QueuedBehindCurrent, RefusedOnlyWhenStale
<1>8. QuietWithoutRse'
  BY <1>2, <1>4 DEF IInv, QuietWithoutRse, stateVars
<1> QED
  BY <1>5, <1>6, <1>7, <1>8 DEF IInv

LEMMA StatusStep ==
  ASSUME IInv, sending, current.cmds # <<>>,
         SendStatus, UNCHANGED <<pathVars, stateVars, requests>>
  PROVE  IInv'
<1> DEFINE rest == [current EXCEPT !.cmds = Tail(@)]
<1>1. /\ rest \in Item /\ current' = rest
      /\ rse = "NONE" => ~Answered(rest.cmds)
  BY CommandTaken DEF SendStatus
<1> HIDE DEF rest
<1>2. pathSts' \in {"SUCCESS", "FAILED"} /\ muteSts' \in BOOLEAN
  BY Reported DEF SendStatus, IInv
<1>3. UNCHANGED <<queue, sending, sendVars, linkVars, blinder, history, events,
                  pathVars, stateVars, requests>>
  BY DEF SendStatus
<1>4. TypeOK'
  BY <1>1, <1>2, <1>3
     DEF IInv, TypeOK, sendVars, linkVars, pathVars, stateVars, history
<1> QED
  BY <1>1, <1>3, <1>4 DEF IInv, TickHasTimer, TimerIsWaiting,
     WaitingIsTimed, QueuedBehindCurrent, RefusedOnlyWhenStale,
     QuietWithoutRse, sendVars, linkVars, stateVars, history

LEMMA NextSequenceStep ==
  ASSUME IInv, sending, current.cmds = <<>>, NextSequence,
         UNCHANGED <<sendVars, linkVars, stsVars, history, events>>,
         UNCHANGED <<pathVars, stateVars, requests>>
  PROVE  IInv'
<1>1. queue \in Seq(Item)
  BY DEF IInv, TypeOK
<1>2. /\ current' \in Item \cup {NoItem} /\ queue' \in Seq(Item)
      /\ sending' \in BOOLEAN
      /\ ~sending' => current' = NoItem /\ queue' = <<>>
  BY <1>1, Tails DEF NextSequence, IInv, TypeOK
<1>3. QuietWithoutRse'
  <2>1. CASE queue = <<>>
    BY <2>1, NoItemIsNone, NoneIsQuiet
       DEF NextSequence, IInv, QuietWithoutRse, stateVars
  <2>2. CASE queue # <<>>
    <3>1. /\ current' = queue[1] /\ 1 \in DOMAIN queue
          /\ \A i \in DOMAIN queue' :
               i + 1 \in DOMAIN queue /\ queue'[i] = queue[i + 1]
      BY <1>1, <2>2 DEF NextSequence
    <3> QED
      BY <3>1 DEF IInv, QuietWithoutRse, stateVars
  <2> QED
    BY <2>1, <2>2
<1>4. TypeOK'
  BY <1>2 DEF IInv, TypeOK, sendVars, linkVars, pathVars, stateVars, stsVars,
     history
<1> QED
  BY <1>2, <1>3, <1>4 DEF IInv, TickHasTimer, TimerIsWaiting, WaitingIsTimed,
     QueuedBehindCurrent, RefusedOnlyWhenStale, sendVars, stateVars, history,
     linkVars

LEMMA SendCmdStep ==
  ASSUME IInv, SendCmd
  PROVE  IInv'
BY IntervalStep, OneshotStep, StatusStep, NextSequenceStep, Zenon DEF SendCmd

-----------------------------------------------------------------------------
(* Property requests                                                       *)

LEMMA Counted ==
  ASSUME TypeOK, Request
  PROVE  requests' \in 0..MaxRequests
BY MostChannelAssumption DEF TypeOK, Request

LEMMA SetRearPathsStep ==
  ASSUME IInv, SetRearPaths
  PROVE  IInv'
<1>1. TypeOK'
  BY Counted DEF SetRearPaths, Request, IInv, TypeOK, seqVars, sendVars, linkVars,
     stateVars, stsVars, history
<1> QED
  BY <1>1 DEF SetRearPaths, IInv, TickHasTimer, TimerIsWaiting, WaitingIsTimed,
     QueuedBehindCurrent, RefusedOnlyWhenStale, QuietWithoutRse, seqVars,
     sendVars, linkVars, stateVars, history

\* A sequence that is asked for disturbs neither timers nor answers.
LEMMA RequestedStep ==
  ASSUME IInv, Idle,
         NEW s \in Item, SendSequenceItem(s),
         rse' = "NONE" => rse = "NONE" /\ ~Answered(s.cmds),
         UNCHANGED <<sendVars, linkVars, resumed, suspended, cut, stale, events>>
  PROVE  /\ QuietWithoutRse' /\ TickHasTimer' /\ TimerIsWaiting'
         /\ WaitingIsTimed' /\ QueuedBehindCurrent' /\ RefusedOnlyWhenStale'
<1>1. current' # NoItem
  BY Sequenced, NoItemIsNone
<1>2. QuietWithoutRse'
  BY Sequenced
<1>3. TickHasTimer' /\ TimerIsWaiting'
  <2>1. ~suspended' /\ UNCHANGED <<timer, stale, resumed, events>>
    BY DEF Idle, sendVars
  <2>2. current # NoItem => sending' = sending
    BY Sequenced
  <2>3. current = NoItem => (timer # "none" => stale)
    BY DEF IInv, TimerIsWaiting
  <2> QED
    BY <1>1, <2>1, <2>2, <2>3 DEF IInv, TickHasTimer, TimerIsWaiting
<1>4. WaitingIsTimed' /\ QueuedBehindCurrent' /\ RefusedOnlyWhenStale'
  BY <1>1, Sequenced
     DEF Idle, IInv, WaitingIsTimed, QueuedBehindCurrent, RefusedOnlyWhenStale,
         sendVars, linkVars
<1> QED
  BY <1>2, <1>3, <1>4

LEMMA SetFrontPathStep ==
  ASSUME IInv, SetFrontPath
  PROVE  IInv'
<1> DEFINE s == CreateSequenceItem("SetFrontPath", rsePath, FALSE)
<1>1. s \in Item /\ ~Answered(s.cmds)
  BY CommandsTyped, FrontIsQuiet DEF IInv, TypeOK, SeqId
<1>2. SendSequenceItem(s)
  BY DEF SetFrontPath
<1> HIDE DEF s
<1>3. /\ QuietWithoutRse' /\ TickHasTimer' /\ TimerIsWaiting'
      /\ WaitingIsTimed' /\ QueuedBehindCurrent' /\ RefusedOnlyWhenStale'
  <2>1. Idle /\ UNCHANGED <<sendVars, linkVars, resumed, suspended, cut, stale,
                          events, rse>>
    BY DEF SetFrontPath, Request, stateVars
  <2> QED
    BY <1>1, <1>2, <2>1, RequestedStep
<1>4. /\ current' \in Item /\ queue' \in Seq(Item) /\ sending' \in BOOLEAN
      /\ left' \subseteq Paths \cup {NoPath}
  BY <1>1, <1>2, Sequenced DEF SetFrontPath, stateVars
<1>5. TypeOK'
  BY <1>4, Counted DEF SetFrontPath, Request, IInv, TypeOK, sendVars, linkVars, pathVars,
     stateVars, stsVars
<1> QED
  BY <1>3, <1>5 DEF IInv

LEMMA NotifyStep ==
  ASSUME IInv, NEW disp \in Paths \cup {NoPath}, ActionVpathRearRseNotify(disp)
  PROVE  IInv'
<1> DEFINE s == CreateSequenceItem("SetRsePathNotify", disp, FALSE)
<1>1. s \in Item
  BY CommandsTyped DEF IInv, SeqId
<1> HIDE DEF s
<1>2. /\ Idle /\ requests' \in 0..MaxRequests /\ rsePath' = disp
      /\ UNCHANGED <<sendVars, linkVars, rear, stateVars, blinder, muteSts, cut,
                     stale, events>>
  BY Counted DEF ActionVpathRearRseNotify, Request, IInv
<1>3. CASE Connected /\ ~(prevRse = disp /\ prevRear = rear)
  <2>1. /\ SendSequenceItem(s) /\ rse # "NONE"
        /\ prevRse' = disp /\ prevRear' = rear /\ UNCHANGED pathSts
    BY <1>3 DEF ActionVpathRearRseNotify, Reflect, Connected, s
  <2>2. /\ QuietWithoutRse' /\ TickHasTimer' /\ TimerIsWaiting'
        /\ WaitingIsTimed' /\ QueuedBehindCurrent' /\ RefusedOnlyWhenStale'
    BY <1>1, <1>2, <2>1, RequestedStep DEF stateVars
  <2>3. /\ current' \in Item /\ queue' \in Seq(Item) /\ sending' \in BOOLEAN
        /\ left' \subseteq Paths \cup {NoPath}
    BY <1>1, <1>2, <2>1, Sequenced DEF stateVars
  <2>4. TypeOK'
    BY <1>2, <2>1, <2>3 DEF IInv, TypeOK, sendVars, linkVars, stateVars
  <2> QED
    BY <2>2, <2>4 DEF IInv
<1>4. CASE ~(Connected /\ ~(prevRse = disp /\ prevRear = rear))
  <2>1. /\ pathSts' = "FAILED"
        /\ UNCHANGED <<seqVars, left, prevRse, prevRear>>
    BY <1>4 DEF ActionVpathRearRseNotify, Reflect
  <2>2. TypeOK'
    BY <1>2, <2>1 DEF IInv, TypeOK, seqVars, sendVars, linkVars, stateVars
  <2> QED
    BY <1>2, <2>1, <2>2 DEF IInv, TickHasTimer, TimerIsWaiting, WaitingIsTimed,
       QueuedBehindCurrent, RefusedOnlyWhenStale, QuietWithoutRse, seqVars,
       sendVars, linkVars, stateVars
<1> QED
  BY <1>3, <1>4

LEMMA MuteStep ==
  ASSUME IInv, NEW m \in BOOLEAN, ActionMuteRearDisp(m)
  PROVE  IInv'
<1> DEFINE s == CreateSequenceItem("SetMuteRearDisp", rsePath, m)
<1>1. s \in Item
  BY CommandsTyped DEF IInv, TypeOK, SeqId
<1> HIDE DEF s
<1>2. /\ Idle /\ requests' \in 0..MaxRequests /\ blinder' = m
      /\ UNCHANGED <<sendVars, linkVars, pathVars, stateVars, pathSts, cut,
                     stale, events>>
  BY Counted DEF ActionMuteRearDisp, Request, IInv
<1>3. CASE rse = "DOP"
  <2>1. SendSequenceItem(s) /\ UNCHANGED muteSts
    BY <1>3 DEF ActionMuteRearDisp, s
  <2>2. /\ QuietWithoutRse' /\ TickHasTimer' /\ TimerIsWaiting'
        /\ WaitingIsTimed' /\ QueuedBehindCurrent' /\ RefusedOnlyWhenStale'
    BY <1>1, <1>2, <1>3, <2>1, RequestedStep DEF stateVars
  <2>3. /\ current' \in Item /\ queue' \in Seq(Item) /\ sending' \in BOOLEAN
        /\ left' \subseteq Paths \cup {NoPath}
    BY <1>1, <1>2, <1>3, <2>1, Sequenced DEF stateVars
  <2>4. TypeOK'
    BY <1>2, <2>1, <2>3 DEF IInv, TypeOK, sendVars, linkVars, pathVars, stateVars
  <2> QED
    BY <2>2, <2>4 DEF IInv
<1>4. CASE rse # "DOP"
  <2>1. muteSts' = m /\ UNCHANGED <<seqVars, left>>
    BY <1>4 DEF ActionMuteRearDisp
  <2>2. TypeOK'
    BY <1>2, <2>1 DEF IInv, TypeOK, seqVars, sendVars, linkVars, pathVars,
       stateVars
  <2> QED
    BY <1>2, <2>1, <2>2 DEF IInv, TickHasTimer, TimerIsWaiting, WaitingIsTimed,
       QueuedBehindCurrent, RefusedOnlyWhenStale, QuietWithoutRse, seqVars,
       sendVars, linkVars, stateVars
<1> QED
  BY <1>3, <1>4

LEMMA DisconnectStep ==
  ASSUME IInv, Request, Disconnect,
         UNCHANGED <<resumed, suspended, suspends, sendVars, linkVars, events>>
  PROVE  IInv'
<1>1. left' \subseteq Paths \cup {NoPath}
  <2>1. Told("off", current.cmds) \subseteq Paths \cup {NoPath}
    BY CurrentTyped, ToldTyped DEF IInv
  <2>2. ToldBy("off", queue) \subseteq Paths \cup {NoPath}
    BY ToldByTyped DEF IInv, TypeOK
  <2> QED
    BY <2>1, <2>2 DEF Disconnect, IInv, TypeOK
<1>2. pathSts' \in {"SUCCESS", "FAILED"} /\ muteSts' \in BOOLEAN
  BY Reported DEF Disconnect, IInv
<1>3. /\ rse' = "NONE" /\ current' = NoItem /\ queue' = <<>> /\ cut' = FALSE
      /\ stale' = (timer # "none")
      /\ UNCHANGED <<initMost, ls3, sending, pathVars, blinder>>
  BY DEF Disconnect
<1>4. queue' \in Seq(Item) /\ stale' \in BOOLEAN
  BY <1>3
<1>5. TypeOK'
  <2>1. /\ rse' \in Rse /\ current' = NoItem /\ cut' \in BOOLEAN
        /\ UNCHANGED <<initMost, ls3, sending, pathVars, blinder>>
    BY <1>3 DEF Rse
  <2>2. requests' \in 0..MaxRequests
    BY Counted DEF IInv
  <2> QED
    BY <1>1, <1>2, <1>4, <2>1, <2>2 DEF IInv, TypeOK, sendVars, linkVars, pathVars
<1>6. QuietWithoutRse'
  BY <1>3, NoItemIsNone, NoneIsQuiet DEF QuietWithoutRse
<1>7. TickHasTimer' /\ TimerIsWaiting'
  BY <1>3 DEF IInv, TickHasTimer, TimerIsWaiting, sendVars
<1>8. WaitingIsTimed' /\ QueuedBehindCurrent' /\ RefusedOnlyWhenStale'
  BY <1>3 DEF IInv, WaitingIsTimed, QueuedBehindCurrent, RefusedOnlyWhenStale,
     sendVars
<1> QED
  BY <1>5, <1>6, <1>7, <1>8 DEF IInv

\* What the two ways of connecting an RSE leave.
LEMMA Connects ==
  ASSUME IInv, Request, NEW type \in Rse, type # "NONE",
         Reconnect(type) \/ ConnectFirst(type),
         UNCHANGED <<pathSts, cut, stale, muteSts>>,
         blinder' = (blinder /\ type # "FULL"),
         UNCHANGED <<resumed, suspended, suspends, sendVars, linkVars, events>>
  PROVE  IInv'
<1>1. /\ rse' = type /\ blinder' \in BOOLEAN /\ Idle
      /\ requests' \in 0..MaxRequests
  BY Counted, Zenon DEF Reconnect, ConnectFirst, Request, IInv
<1>2. /\ initMost' \in BOOLEAN /\ ls3' \in BOOLEAN
      /\ rsePath' \in Paths \cup {NoPath} /\ rear' \in RearPaths
      /\ UNCHANGED <<prevRse, prevRear>>
  BY MostChannelAssumption DEF Reconnect, ConnectFirst, IInv, TypeOK, pathVars
<1>3. \/ \E id \in SeqId : SendSequenceItem(CreateSequenceItem(id, rsePath, FALSE))
      \/ UNCHANGED <<seqVars, left>>
  BY DEF Reconnect, ConnectFirst, SeqId
<1>4. CASE UNCHANGED <<seqVars, left>>
  <2>1. TypeOK'
    BY <1>1, <1>2, <1>4 DEF IInv, TypeOK, seqVars, sendVars, linkVars
  <2> QED
    BY <1>1, <1>4, <2>1 DEF IInv, TickHasTimer, TimerIsWaiting, WaitingIsTimed,
       QueuedBehindCurrent, RefusedOnlyWhenStale, QuietWithoutRse, seqVars,
       sendVars, linkVars
<1>5. CASE \E id \in SeqId : SendSequenceItem(CreateSequenceItem(id, rsePath, FALSE))
  <2>1. PICK id \in SeqId : SendSequenceItem(CreateSequenceItem(id, rsePath, FALSE))
    BY <1>5
  <2> DEFINE s == CreateSequenceItem(id, rsePath, FALSE)
  <2>2. s \in Item /\ SendSequenceItem(s)
    BY <2>1, CommandsTyped DEF IInv, TypeOK
  <2> HIDE DEF s
  <2>3. /\ QuietWithoutRse' /\ TickHasTimer' /\ TimerIsWaiting'
        /\ WaitingIsTimed' /\ QueuedBehindCurrent' /\ RefusedOnlyWhenStale'
    BY <1>1, <2>2, RequestedStep
  <2>4. /\ current' \in Item /\ queue' \in Seq(Item) /\ sending' \in BOOLEAN
        /\ left' \subseteq Paths \cup {NoPath}
    BY <1>1, <2>2, Sequenced
  <2>5. TypeOK'
    BY <1>1, <1>2, <2>4 DEF IInv, TypeOK, sendVars, linkVars
  <2> QED
    BY <2>3, <2>5 DEF IInv
<1> QED
  BY <1>3, <1>4, <1>5

LEMMA ConnectedRseStep ==
  ASSUME IInv, NEW type \in Rse, ActionSettingConnectedRSE(type)
  PROVE  IInv'
<1>1. Request /\ UNCHANGED <<resumed, suspended, suspends, sendVars, linkVars,
                             events>>
  BY DEF ActionSettingConnectedRSE
<1>2. CASE Disconnect
  BY <1>1, <1>2, DisconnectStep
<1>3. CASE /\ type # "NONE"
           /\ Reconnect(type) \/ ConnectFirst(type)
           /\ UNCHANGED <<pathSts, cut, stale>>
           /\ blinder' = (blinder /\ type # "FULL")
           /\ UNCHANGED muteSts
  BY <1>1, <1>3, Connects
<1> QED
  BY <1>2, <1>3, Zenon DEF ActionSettingConnectedRSE

-----------------------------------------------------------------------------
(* Timers, answers, suspends                                               *)

LEMMA PostedStep ==
  ASSUME IInv, TimerExpires \/ ResponseExpires
               \/ \E k \in AnswerKeys, op \in Op : Ls3CtlCallback(k, op)
  PROVE  IInv'
<1>1. PICK e \in Event : /\ events' = Append(events, e)
                         /\ TimerExpires => e = TimerEvent("tick")
                         /\ ~TimerExpires => e # TimerEvent("tick")
                         /\ response' # response => e = TimerEvent("response")
  <2>1. CASE TimerExpires
    BY <2>1, TimerEvents DEF TimerExpires, linkVars
  <2>2. CASE ResponseExpires /\ ~TimerExpires
    BY <2>2, TimerEvents DEF ResponseExpires
  <2>3. CASE ~TimerExpires /\ \E k \in AnswerKeys, op \in Op : Ls3CtlCallback(k, op)
    <3>1. PICK k \in AnswerKeys, op \in Op : Ls3CtlCallback(k, op)
      BY <2>3
    <3>2. k \in Key
      BY DEF AnswerKeys, KeyOf, SourceActivity, VideoMode, Key
    <3>3. [type |-> "ls3", key |-> k, op |-> op] \in Event
      BY <3>2 DEF Event
    <3> QED
      BY <2>3, <3>1, <3>3 DEF Ls3CtlCallback, linkVars, TimerEvent
  <2> QED
    BY <2>1, <2>2, <2>3
<1>2. /\ events' \in Seq(Event) /\ ToSet(events') = ToSet(events) \cup {e}
  BY <1>1, Appended DEF IInv, TypeOK
<1>3. /\ UNCHANGED <<seqVars, item, freed, count, refused, sent, active, pathVars,
                     stateVars, stsVars, history, requests>>
      /\ timer' = timer \/ (TimerExpires /\ timer = "armed" /\ timer' = "idle")
      /\ TimerExpires => timer' = "idle"
      /\ response' = response \/ (response /\ response' = FALSE)
  BY DEF TimerExpires, ResponseExpires, Ls3CtlCallback, sendVars, linkVars
<1>4. TypeOK'
  <2>1. timer' \in {"none", "armed", "idle"} /\ response' \in BOOLEAN
    BY <1>3 DEF IInv, TypeOK
  <2>2. UNCHANGED <<seqVars, item, freed, count, refused, sent, active, pathVars,
                    stateVars, stsVars, history, requests>>
    BY <1>3
  <2> QED
    BY <1>2, <2>1, <2>2 DEF IInv, TypeOK, seqVars, pathVars, stateVars, stsVars,
       history
<1>5. TickHasTimer' /\ TimerIsWaiting'
  BY <1>1, <1>2, <1>3 DEF IInv, TickHasTimer, TimerIsWaiting, seqVars, stateVars,
     history
<1>6. WaitingIsTimed' /\ QueuedBehindCurrent' /\ RefusedOnlyWhenStale'
      /\ QuietWithoutRse'
  BY <1>1, <1>2, <1>3 DEF IInv, TypeOK, WaitingIsTimed, QueuedBehindCurrent,
     RefusedOnlyWhenStale, QuietWithoutRse, seqVars, stateVars, history
<1> QED
  BY <1>4, <1>5, <1>6 DEF IInv

\* The event that is handled is gone; the others stay.
LEMMA Handled ==
  ASSUME IInv, events # <<>>
  PROVE  /\ Tail(events) \in Seq(Event) /\ Head(events) \in Event
         /\ ToSet(Tail(events)) \subseteq ToSet(events)
         /\ Head(events) \in ToSet(events)
         /\ \A x \in ToSet(events) : x # Head(events) => x \in ToSet(Tail(events))
<1>1. Head(events) \in ToSet(events)
  BY DEF IInv, TypeOK, ToSet
<1> QED
  BY <1>1, Tails DEF IInv, TypeOK

\* A failed sequence is followed by the next, whatever the timer does.
LEMMA FailedStep ==
  ASSUME IInv, Idle, FailAndContinue,
         timer' \in {"none", "armed", "idle"}, count' \in 0..MaxSends,
         item' \in Command \cup {NoCommand}, stale' \in BOOLEAN,
         response' \in BOOLEAN, events' \in Seq(Event),
         TimerEvent("tick") \in ToSet(events') => timer' # "none",
         timer' # "none" => stale',
         UNCHANGED <<freed, refused, sent, active, pathVars, stateVars, blinder,
                     cut, requests>>
  PROVE  IInv'
<1>1. /\ current' = NoItem /\ left' \subseteq Paths \cup {NoPath}
      /\ pathSts' \in {"SUCCESS", "FAILED"} /\ muteSts' \in BOOLEAN
      /\ sending' = TRUE /\ UNCHANGED queue
  BY Cleared DEF FailAndContinue, IInv
<1>2. TypeOK'
  BY <1>1 DEF IInv, TypeOK, pathVars, stateVars
<1>3. QuietWithoutRse'
  BY <1>1, NoItemIsNone, NoneIsQuiet DEF IInv, QuietWithoutRse, stateVars
<1>4. TickHasTimer' /\ TimerIsWaiting'
  BY <1>1 DEF Idle, TickHasTimer, TimerIsWaiting, stateVars
<1> QED
  BY <1>1, <1>2, <1>3, <1>4
     DEF IInv, WaitingIsTimed, QueuedBehindCurrent, RefusedOnlyWhenStale

\* An event is taken, and at most a command repeated.
LEMMA TakenStep ==
  ASSUME IInv, TypeOK',
         UNCHANGED <<current, queue, sending, cut, stale, resumed, suspended, rse,
                     freed, refused>>,
         timer # "none" => timer' # "none",
         timer' # "none" => timer # "none",
         response => response',
         TimerEvent("tick") \in ToSet(events')
           => TimerEvent("tick") \in ToSet(events),
         TimerEvent("response") \in ToSet(events)
           => TimerEvent("response") \in ToSet(events')
  PROVE  IInv'
<1>1. TickHasTimer' /\ TimerIsWaiting'
  BY DEF IInv, TickHasTimer, TimerIsWaiting
<1>2. WaitingIsTimed' /\ QueuedBehindCurrent' /\ RefusedOnlyWhenStale'
  BY DEF IInv, WaitingIsTimed, QueuedBehindCurrent, RefusedOnlyWhenStale
<1>3. QuietWithoutRse'
  BY DEF IInv, QuietWithoutRse
<1> QED
  BY <1>1, <1>2, <1>3 DEF IInv

LEMMA OnTimerStep ==
  ASSUME IInv, Idle, events # <<>>, OnTimer,
         \/ Head(events) = TimerEvent("tick")
         \/ Head(events) = TimerEvent("deadTick") /\ timer # "none",
         UNCHANGED <<freed, refused, pathVars, stateVars, requests>>
  PROVE  IInv'
<1>1. timer # "none"
  BY Handled DEF IInv, TickHasTimer
<1>2. CASE /\ count < MaxSends
           /\ \E ok \in SendResults,
                 c \in {item} \cup (IF freed THEN {NoCommand} ELSE {}) : Send(c, ok)
           /\ timer' = "armed" /\ count' = count + 1
           /\ events' = Tail(events)
           /\ UNCHANGED <<seqVars, item, stale, cut, left, pathSts, muteSts>>
  <2>1. PICK ok \in SendResults,
             c \in {item} \cup (IF freed THEN {NoCommand} ELSE {}) : Send(c, ok)
    BY <1>2
  <2>2. c \in Command \cup {NoCommand}
    BY DEF IInv, TypeOK
  <2>3. /\ sent' \in Key \cup {NoKey} /\ response' \in BOOLEAN
        /\ active' \subseteq Paths \cup {NoPath} /\ blinder' \in BOOLEAN
        /\ response => response'
    BY <2>1, <2>2, Sent DEF IInv
  <2>4. count' \in 0..MaxSends
    BY <1>2 DEF IInv, TypeOK, MaxSends
  <2>5. /\ events' \in Seq(Event)
        /\ TimerEvent("response") \in ToSet(events)
             => TimerEvent("response") \in ToSet(events')
    BY <1>2, Handled, TimerEvents
  <2>6. TypeOK'
    BY <1>2, <2>3, <2>4, <2>5 DEF IInv, TypeOK, seqVars, pathVars, stateVars
  <2>7. /\ UNCHANGED <<current, queue, sending, cut, stale, resumed, suspended, rse,
                       freed, refused>>
        /\ timer' # "none"
    BY <1>2 DEF seqVars, stateVars
  <2>8. TimerEvent("tick") \in ToSet(events') => TimerEvent("tick") \in ToSet(events)
    BY <1>2, Handled
  <2> QED
    BY <1>1, <2>3, <2>5, <2>6, <2>7, <2>8, TakenStep, Zenon
<1>3. CASE /\ count = MaxSends
           /\ response' = FALSE
           /\ SendIntervalEnd(Tail(events))
           /\ FailAndContinue
           /\ UNCHANGED <<sent, active, cut, blinder>>
  <2>1. /\ timer' \in {"none", "armed", "idle"} /\ count' \in 0..MaxSends
        /\ item' \in Command \cup {NoCommand} /\ stale' \in BOOLEAN
        /\ events' \in Seq(Event)
        /\ TimerEvent("tick") \in ToSet(events') => timer' # "none"
        /\ timer' # "none" => timer' = timer /\ stale' = stale /\ ~resumed
    BY <1>3, Handled, IntervalEnded
  <2>2. timer' # "none" => stale'
    BY <1>1, <2>1 DEF IInv, TimerIsWaiting
  <2> QED
    BY <1>3, <2>1, <2>2, FailedStep
<1> QED
  BY <1>2, <1>3, Zenon DEF OnTimer

\* The event of a timer that has gone is only taken.
LEMMA DeadTickStep ==
  ASSUME IInv, events # <<>>, Head(events) = TimerEvent("deadTick"),
         events' = Tail(events),
         UNCHANGED <<seqVars, timer, count, item, linkVars, stsVars, history>>,
         UNCHANGED <<freed, refused, pathVars, stateVars, requests>>
  PROVE  IInv'
<1>1. /\ events' \in Seq(Event) /\ ToSet(events') \subseteq ToSet(events)
      /\ TimerEvent("response") \in ToSet(events)
           => TimerEvent("response") \in ToSet(events')
  BY Handled, TimerEvents
<1>2. TypeOK'
  BY <1>1 DEF IInv, TypeOK, seqVars, linkVars, stsVars, history, pathVars,
     stateVars
<1>3. UNCHANGED <<current, queue, sending, cut, stale, resumed, suspended, rse,
                  freed, refused, timer, response>>
  BY DEF seqVars, linkVars, history, stateVars
<1>4. TimerEvent("tick") \in ToSet(events') => TimerEvent("tick") \in ToSet(events)
  BY <1>1
<1>5. response => response'
  BY <1>3
<1> QED
  BY <1>1, <1>2, <1>3, <1>4, <1>5, TakenStep, Zenon

LEMMA RunTimerStep ==
  ASSUME IInv, RunTimer
  PROVE  IInv'
BY OnTimerStep, DeadTickStep, Zenon DEF RunTimer

LEMMA RunResponseStep ==
  ASSUME IInv, RunResponse
  PROVE  IInv'
<1>1. /\ Idle /\ events # <<>> /\ events' = Tail(events) /\ FailAndContinue
      /\ stale' = (stale \/ timer # "none")
      /\ UNCHANGED <<sendVars, linkVars, pathVars, stateVars, blinder, cut,
                     requests>>
  BY DEF RunResponse
<1>2. /\ timer' \in {"none", "armed", "idle"} /\ count' \in 0..MaxSends
      /\ item' \in Command \cup {NoCommand} /\ response' \in BOOLEAN
      /\ UNCHANGED <<timer, freed, refused, sent, active>>
  BY <1>1 DEF sendVars, linkVars, IInv, TypeOK
<1>3. stale' \in BOOLEAN /\ (timer' # "none" => stale')
  BY <1>1, <1>2 DEF IInv, TypeOK
<1>4. events' \in Seq(Event) /\ ToSet(events') \subseteq ToSet(events)
  BY <1>1, Handled
<1>5. TimerEvent("tick") \in ToSet(events') => timer' # "none"
  BY <1>2, <1>4 DEF IInv, TickHasTimer
<1>6. UNCHANGED <<freed, refused, sent, active, pathVars, stateVars, blinder, cut,
                  requests>>
  BY <1>1, <1>2
<1> QED
  BY <1>1, <1>2, <1>3, <1>4, <1>5, <1>6, FailedStep

LEMMA RunLs3Step ==
  ASSUME IInv, RunLs3Data
  PROVE  IInv'
<1>1. /\ Idle /\ events # <<>> /\ Head(events).type = "ls3"
      /\ UNCHANGED <<freed, refused, sent, active, pathVars, stateVars, blinder,
                     cut, requests>>
  BY DEF RunLs3Data
<1>2. /\ Tail(events) \in Seq(Event) /\ ToSet(Tail(events)) \subseteq ToSet(events)
      /\ TimerEvent("response") \in ToSet(events)
           => TimerEvent("response") \in ToSet(Tail(events))
  <2>1. Head(events) # TimerEvent("response")
    BY <1>1 DEF TimerEvent
  <2> QED
    BY <1>1, <2>1, Handled
<1>3. CASE Matches(Head(events))
  <2>1. PICK op \in {Head(events).op} : ReceiveLs3Data(op)
    BY <1>3 DEF RunLs3Data
  <2>2. SendIntervalEnd(Tail(events)) /\ response' \in BOOLEAN
    BY <2>1 DEF ReceiveLs3Data, IInv, TypeOK
  <2>3. /\ timer' \in {"none", "armed", "idle"} /\ count' \in 0..MaxSends
        /\ item' \in Command \cup {NoCommand} /\ stale' \in BOOLEAN
        /\ events' \in Seq(Event)
        /\ TimerEvent("tick") \in ToSet(events') => timer' # "none"
        /\ TimerEvent("response") \in ToSet(Tail(events))
             => TimerEvent("response") \in ToSet(events')
        /\ timer' # "none" => timer' = timer /\ stale' = stale /\ ~resumed
    BY <1>2, <2>2, IntervalEnded
  <2>4. timer' # "none" => stale'
    BY <2>3 DEF IInv, TimerIsWaiting
  <2>5. CASE op = "Error" /\ FailAndContinue
    BY <1>1, <2>2, <2>3, <2>4, <2>5, FailedStep
  <2>6. CASE /\ op = "Result" /\ sending' = TRUE
             /\ UNCHANGED <<current, queue, left, pathSts, muteSts>>
    <3>1. TypeOK'
      BY <1>1, <2>2, <2>3, <2>6 DEF IInv, TypeOK, pathVars, stateVars
    <3>2. TickHasTimer' /\ TimerIsWaiting'
      BY <1>1, <2>3, <2>4, <2>6 DEF Idle, TickHasTimer, TimerIsWaiting, stateVars
    <3> QED
      BY <1>1, <2>6, <3>1, <3>2
         DEF IInv, WaitingIsTimed, QueuedBehindCurrent, RefusedOnlyWhenStale,
             QuietWithoutRse, stateVars
  <2>7. CASE op = "Processing" /\ UNCHANGED <<seqVars, left, pathSts, muteSts>>
    <3>1. TypeOK'
      BY <1>1, <2>2, <2>3, <2>7 DEF IInv, TypeOK, seqVars, pathVars, stateVars
    <3>2. response' = response
      BY <2>1, <2>7 DEF ReceiveLs3Data, IInv, TypeOK
    <3>3. TickHasTimer' /\ TimerIsWaiting'
      BY <1>1, <2>3, <2>4, <2>7
         DEF Idle, TickHasTimer, TimerIsWaiting, seqVars, stateVars
    <3>4. WaitingIsTimed' /\ QueuedBehindCurrent' /\ RefusedOnlyWhenStale'
      BY <1>1, <1>2, <2>3, <2>7, <3>2
         DEF IInv, WaitingIsTimed, QueuedBehindCurrent, RefusedOnlyWhenStale,
             seqVars
    <3> QED
      BY <1>1, <2>7, <3>1, <3>3, <3>4 DEF IInv, QuietWithoutRse, seqVars, stateVars
  <2> QED
    BY <2>1, <2>5, <2>6, <2>7, Zenon DEF ReceiveLs3Data
<1>4. CASE ~Matches(Head(events))
  <2>1. /\ events' = Tail(events)
        /\ UNCHANGED <<seqVars, timer, count, item, response, stale, left,
                       pathSts, muteSts>>
    BY <1>4 DEF RunLs3Data
  <2>2. TypeOK'
    BY <1>1, <1>2, <2>1 DEF IInv, TypeOK, seqVars, pathVars, stateVars
  <2> QED
    BY <1>1, <1>2, <2>1, <2>2
       DEF IInv, TickHasTimer, TimerIsWaiting, WaitingIsTimed,
           QueuedBehindCurrent, RefusedOnlyWhenStale, QuietWithoutRse, seqVars,
           stateVars
<1> QED
  BY <1>3, <1>4

LEMMA SuspendStep ==
  ASSUME IInv, FinalizeSuspend
  PROVE  IInv'
<1>1. suspends' \in 0..MaxSuspends
  BY MostChannelAssumption DEF FinalizeSuspend, IInv, TypeOK
<1>2. events' = <<>> /\ ToSet(events') = {}
  BY DEF FinalizeSuspend, ToSet
<1>3. /\ timer' \in {"none", "armed", "idle"} /\ (timer' # "none" => timer # "none")
      /\ cut' = (cut \/ current # NoItem)
      /\ stale' = (stale \/ timer # "none")
      /\ left' \subseteq Paths \cup {NoPath}
  BY DEF FinalizeSuspend, IInv, TypeOK
<1>4. cut' \in BOOLEAN /\ stale' \in BOOLEAN
  BY <1>3 DEF IInv, TypeOK
<1>5. /\ suspended' = TRUE /\ ls3' = FALSE /\ sent' = NoKey /\ response' = FALSE
      /\ resumed' = FALSE /\ rsePath' = NoPath /\ prevRse' = NoPath
      /\ rear' = NoPath /\ prevRear' = NoPath /\ blinder' = TRUE
      /\ UNCHANGED <<rse, initMost, seqVars, item, freed, count, refused, active,
                     muteSts, pathSts, requests>>
  BY DEF FinalizeSuspend
<1>6. events' \in Seq(Event)
  BY <1>2
<1>7. TypeOK'
  <2>1. timer' \in {"none", "armed", "idle"} /\ left' \subseteq Paths \cup {NoPath}
    BY <1>3
  <2> QED
    BY <1>1, <1>4, <1>5, <1>6, <2>1, MostChannelAssumption
       DEF IInv, TypeOK, seqVars
<1>8. TickHasTimer' /\ TimerIsWaiting'
  <2>1. timer' # "none" => stale'
    BY <1>3 DEF IInv, TypeOK
  <2>2. ~sending'
    BY <1>5 DEF FinalizeSuspend, Idle, seqVars
  <2> QED
    BY <1>2, <2>1, <2>2 DEF TickHasTimer, TimerIsWaiting
<1>9. WaitingIsTimed' /\ QueuedBehindCurrent' /\ RefusedOnlyWhenStale'
      /\ QuietWithoutRse'
  BY <1>3, <1>5 DEF IInv, WaitingIsTimed, QueuedBehindCurrent,
     RefusedOnlyWhenStale, QuietWithoutRse, seqVars
<1> QED
  BY <1>7, <1>8, <1>9 DEF IInv

LEMMA ResumeStep ==
  ASSUME IInv, InitializeResume
  PROVE  IInv'
<1>1. /\ suspended /\ suspended' = FALSE
      /\ resumed' \in BOOLEAN /\ blinder' \in {blinder, FALSE}
      /\ UNCHANGED <<rse, initMost, ls3, suspends, seqVars, sendVars, linkVars,
                     pathVars, muteSts, pathSts, history, events, requests>>
  BY DEF InitializeResume
<1>2. timer # "none" => stale
  BY <1>1 DEF IInv, TimerIsWaiting
<1>3. blinder' \in BOOLEAN
  BY <1>1 DEF IInv, TypeOK
<1>4. TypeOK'
  <2>1. resumed' \in BOOLEAN /\ suspended' \in BOOLEAN
    BY <1>1
  <2>2. UNCHANGED <<rse, initMost, ls3, suspends, seqVars, sendVars, linkVars,
                    pathVars, muteSts, pathSts, history, events, requests>>
    BY <1>1
  <2> QED
    BY <1>3, <2>1, <2>2
       DEF IInv, TypeOK, seqVars, sendVars, linkVars, pathVars, history
<1> QED
  BY <1>1, <1>2, <1>4 DEF IInv, TickHasTimer, TimerIsWaiting, WaitingIsTimed,
     QueuedBehindCurrent, RefusedOnlyWhenStale, QuietWithoutRse, seqVars,
     sendVars, linkVars, history

-----------------------------------------------------------------------------
LEMMA Step ==
  ASSUME IInv, [Next]_vars
  PROVE  IInv'
<1>1. CASE SendCmd
  BY <1>1, SendCmdStep
<1>2. CASE SetRearPaths
  BY <1>2, SetRearPathsStep
<1>3. CASE SetFrontPath
  BY <1>3, SetFrontPathStep
<1>4. CASE \E disp \in Paths \cup {NoPath} : ActionVpathRearRseNotify(disp)
  BY <1>4, NotifyStep
<1>5. CASE \E m \in BOOLEAN : ActionMuteRearDisp(m)
  BY <1>5, MuteStep
<1>6. CASE \E type \in Rse : ActionSettingConnectedRSE(type)
  BY <1>6, ConnectedRseStep
<1>7. CASE TimerExpires \/ ResponseExpires
           \/ \E k \in AnswerKeys, op \in Op : Ls3CtlCallback(k, op)
  BY <1>7, PostedStep
<1>8. CASE RunEvent
  BY <1>8, RunTimerStep, RunResponseStep, RunLs3Step DEF RunEvent
<1>9. CASE FinalizeSuspend
  BY <1>9, SuspendStep
<1>10. CASE InitializeResume
  BY <1>10, ResumeStep
<1>11. CASE UNCHANGED vars
  BY <1>11 DEF vars, seqVars, sendVars, linkVars, pathVars, stateVars, stsVars,
     history, IInv, TypeOK, TickHasTimer, TimerIsWaiting, WaitingIsTimed,
     QueuedBehindCurrent, RefusedOnlyWhenStale, QuietWithoutRse
<1> QED
  BY <1>1, <1>2, <1>3, <1>4, <1>5, <1>6, <1>7, <1>8, <1>9, <1>10, <1>11, Zenon
     DEF Next

\* CVhalMiconMostVideoInfo and the interval timers keep their types and what
\* IInv says of them.
THEOREM Invariance == Spec => []IInv
<1>1. Init => IInv
  BY Initial
<1>2. IInv /\ [Next]_vars => IInv'
  BY Step
<1> QED
  BY <1>1, <1>2, PTL DEF Spec

\* Every variable of the MOST channel keeps its type.
THEOREM TypeCorrect == Spec => []TypeOK
<1>1. IInv => TypeOK
  BY DEF IInv
<1> QED
  BY <1>1, Invariance, PTL

\* A sequence that waits for the RSE has its ten second timer (mvi 640-722,
\* most 286-390), whatever is answered, requested or disconnected.
THEOREM WaitingCorrect == Spec => []WaitingIsTimed
<1>1. IInv => WaitingIsTimed
  BY DEF IInv
<1> QED
  BY <1>1, Invariance, PTL

\* The list holds sequences without a current one only after a start that
\* failed (mvi 700-806).
THEOREM QueueCorrect == Spec => []QueuedBehindCurrent
<1>1. IInv => QueuedBehindCurrent
  BY DEF IInv
<1> QED
  BY <1>1, Invariance, PTL

\* SendIntervalStart refuses a command only for a timer that outlived its
\* sequence (mcc 556-619).
THEOREM RefusalCorrect == Spec => []RefusedOnlyWhenStale
<1>1. IInv => RefusedOnlyWhenStale
  BY DEF IInv
<1> QED
  BY <1>1, Invariance, PTL

-----------------------------------------------------------------------------
(* What becomes of a source that was turned on                             *)

Kept(p) == p = prevRse \/ p \in left
Covered(p) ==
  Kept(p) \/ p \in Told("off", current.cmds) \/ p \in ToldBy("off", queue)

\* A source that is still to be turned on is kept, or turned off again by a
\* sequence behind the one that turns it on.
OnsOfCurrent ==
  \A p \in Told("on", current.cmds) :
    p # NoPath /\ (Kept(p) \/ p \in ToldBy("off", queue))
OnsOfQueue ==
  \A i \in DOMAIN queue : \A p \in Told("on", queue[i].cmds) :
    /\ p # NoPath
    /\ \/ Kept(p)
       \/ \E j \in DOMAIN queue : j > i /\ p \in Told("off", queue[j].cmds)

\* The command that is repeated may turn a source on once more.
OnOfItem == item.name = "on" => item.path # NoPath /\ Covered(item.path)

ActiveInv ==
  /\ OnsOfCurrent /\ OnsOfQueue /\ OnOfItem
  /\ NoPath \notin active
  /\ \A p \in active : Covered(p)

LEMMA ToldEmpty == \A name : Told(name, <<>>) = {} /\ ToldBy(name, <<>>) = {}
BY DEF Told, ToldBy, ToSet

\* What the first command tells and what the others do.
LEMMA ToldTail ==
  ASSUME NEW q \in Seq(Command), q # <<>>, NEW name
  PROVE  Told(name, q) = Told(name, Tail(q))
                           \cup (IF Head(q).name = name THEN {Head(q).path} ELSE {})
<1>1. ToSet(q) = ToSet(Tail(q)) \cup {Head(q)}
  <2>1. Head(q) \in ToSet(q)
    <3>1. 1 \in DOMAIN q /\ Head(q) = q[1]
      OBVIOUS
    <3> QED
      BY <3>1 DEF ToSet
  <2> QED
    BY <2>1, Tails
<1> QED
  BY <1>1 DEF Told

LEMMA ToldByTail ==
  ASSUME NEW q \in Seq(Item), q # <<>>, NEW name
  PROVE  ToldBy(name, q) = Told(name, Head(q).cmds) \cup ToldBy(name, Tail(q))
<1>1. ToSet(q) = ToSet(Tail(q)) \cup {Head(q)}
  <2>1. Head(q) \in ToSet(q)
    <3>1. 1 \in DOMAIN q /\ Head(q) = q[1]
      OBVIOUS
    <3> QED
      BY <3>1 DEF ToSet
  <2> QED
    BY <2>1, Tails
<1> QED
  BY <1>1 DEF ToldBy

\* What a list tells is told by one of its sequences.
LEMMA ToldByOne ==
  ASSUME NEW q, NEW name, NEW p
  PROVE  p \in ToldBy(name, q) <=> \E i \in DOMAIN q : p \in Told(name, q[i].cmds)
BY DEF ToldBy, ToSet

\* Where the sequences of the list are once one is erased.
LEMMA ErasedAt ==
  ASSUME queue \in Seq(Item), NEW i \in DOMAIN queue
  PROVE  /\ DOMAIN RemoveAt(queue, i) = 1..(Len(queue) - 1)
         /\ Len(RemoveAt(queue, i)) = Len(queue) - 1
         /\ \A k \in 1..(Len(queue) - 1) :
              RemoveAt(queue, i)[k] = IF k < i THEN queue[k] ELSE queue[k + 1]
<1> DEFINE a == SubSeq(queue, 1, i - 1)
           b == SubSeq(queue, i + 1, Len(queue))
<1>1. i \in 1..Len(queue) /\ Len(queue) \in Nat
  OBVIOUS
<1>2. /\ a \in Seq(Item) /\ Len(a) = i - 1
      /\ \A k \in 1..(i - 1) : a[k] = queue[k]
  BY <1>1
<1>3. /\ b \in Seq(Item) /\ Len(b) = Len(queue) - i
      /\ \A k \in 1..(Len(queue) - i) : b[k] = queue[i + k]
  BY <1>1
<1>4. RemoveAt(queue, i) = a \o b
  BY DEF RemoveAt
<1> HIDE DEF a, b
<1>5. /\ DOMAIN (a \o b) = 1..(Len(queue) - 1)
      /\ Len(a \o b) = Len(queue) - 1
      /\ \A k \in 1..(Len(queue) - 1) :
           (a \o b)[k] = IF k <= i - 1 THEN a[k] ELSE b[k - (i - 1)]
  <2>1. /\ (a \o b) \in Seq(Item) /\ Len(a \o b) = Len(a) + Len(b)
        /\ \A k \in 1..(Len(a) + Len(b)) :
             (a \o b)[k] = IF k <= Len(a) THEN a[k] ELSE b[k - Len(a)]
    BY <1>2, <1>3, ConcatProperties
  <2>2. Len(a) + Len(b) = Len(queue) - 1
    BY <1>1, <1>2, <1>3
  <2> QED
    BY <1>2, <2>1, <2>2
<1>6. ASSUME NEW k \in 1..(Len(queue) - 1)
      PROVE  (a \o b)[k] = IF k < i THEN queue[k] ELSE queue[k + 1]
  <2>1. CASE k < i
    <3>1. k <= i - 1 /\ k \in 1..(i - 1)
      BY <1>1, <2>1
    <3> QED
      BY <1>2, <1>5, <2>1, <3>1
  <2>2. CASE ~(k < i)
    <3>1. ~(k <= i - 1) /\ k - (i - 1) \in 1..(Len(queue) - i)
      BY <1>1, <2>2
    <3>2. i + (k - (i - 1)) = k + 1
      BY <1>1
    <3>3. (a \o b)[k] = b[k - (i - 1)]
      BY <1>5, <3>1
    <3>4. b[k - (i - 1)] = queue[i + (k - (i - 1))]
      BY <1>3, <3>1
    <3> QED
      BY <2>2, <3>2, <3>3, <3>4
  <2> QED
    BY <2>1, <2>2
<1> QED
  BY <1>4, <1>5, <1>6

LEMMA WaitingAt ==
  ASSUME NEW id
  PROVE  Waiting(id) = 0 \/ Waiting(id) \in DOMAIN queue
<1>1. CASE \E n \in DOMAIN queue : queue[n].id = id
  BY <1>1 DEF Waiting
<1>2. CASE ~\E n \in DOMAIN queue : queue[n].id = id
  BY <1>2 DEF Waiting
<1> QED
  BY <1>1, <1>2

\* A sequence of the list is followed by what followed it, but for the erased
\* one, whose sources are left on, and by the new one.
Follows(k, s) ==
  \E i \in DOMAIN queue :
    /\ queue'[k] = queue[i]
    /\ \A j \in DOMAIN queue :
         j > i => \/ Told("off", queue[j].cmds) \subseteq left'
                  \/ \E l \in DOMAIN queue' : l > k /\ queue'[l] = queue[j]
    /\ \E l \in DOMAIN queue' : l > k /\ queue'[l] = s

LEMMA QueuedBehind ==
  ASSUME queue \in Seq(Item), NEW s \in Item, QueueSequence(s)
  PROVE  /\ left \subseteq left' /\ Unnotified(s) \subseteq left'
         /\ \A k \in DOMAIN queue' : queue'[k] = s \/ Follows(k, s)
         /\ ToldBy("off", queue) \subseteq ToldBy("off", queue') \cup left'
         /\ Told("off", s.cmds) \subseteq ToldBy("off", queue')
<1> DEFINE w == Waiting(s.id)
           n == Len(queue)
<1>1. /\ left \subseteq left' /\ Unnotified(s) \subseteq left'
      /\ w # 0 => Told("off", queue[w].cmds) \subseteq left'
      /\ queue' = Append(EraseSequence(w), s)
  BY DEF QueueSequence
<1>2. n \in Nat /\ DOMAIN queue = 1..n /\ (w = 0 \/ w \in 1..n)
  BY WaitingAt
<1> HIDE DEF w
<1>3. CASE w = 0
  <2>1. queue' = Append(queue, s)
    BY <1>1, <1>3 DEF EraseSequence
  <2>2. /\ DOMAIN queue' = 1..(n + 1) /\ queue'[n + 1] = s
        /\ \A k \in 1..n : queue'[k] = queue[k]
    BY <1>2, <2>1, AppendProperties
  <2>3. ASSUME NEW k \in DOMAIN queue'  PROVE queue'[k] = s \/ Follows(k, s)
    <3>1. CASE k = n + 1
      BY <2>2, <3>1
    <3>2. CASE k # n + 1
      <4>1. k \in 1..n /\ n + 1 > k /\ n + 1 \in DOMAIN queue'
        BY <1>2, <2>2, <3>2
      <4>2. \A j \in 1..n : j \in DOMAIN queue' /\ queue'[j] = queue[j]
        BY <1>2, <2>2
      <4>3. \E l \in DOMAIN queue' : l > k /\ queue'[l] = s
        BY <2>2, <4>1
      <4> QED
        BY <1>2, <4>1, <4>2, <4>3 DEF Follows
    <3> QED
      BY <3>1, <3>2
  <2>4. \A j \in DOMAIN queue : j \in DOMAIN queue' /\ queue'[j] = queue[j]
    BY <1>2, <2>2
  <2>5. n + 1 \in DOMAIN queue'
    BY <1>2, <2>2
  <2> QED
    BY <1>1, <2>2, <2>3, <2>4, <2>5, ToldByOne
<1>4. CASE w # 0
  <2> DEFINE q == RemoveAt(queue, w)
  <2>1. w \in 1..n /\ queue' = Append(q, s)
    BY <1>1, <1>2, <1>4 DEF EraseSequence
  <2>2. /\ q \in Seq(Item) /\ DOMAIN q = 1..(n - 1) /\ Len(q) = n - 1
        /\ \A k \in 1..(n - 1) : q[k] = IF k < w THEN queue[k] ELSE queue[k + 1]
    BY <1>2, <2>1, Erased, ErasedAt
  <2> HIDE DEF q
  <2>3. n \in 1..n
    BY <1>2, <2>1
  <2>4. /\ DOMAIN queue' = 1..n /\ queue'[n] = s
        /\ \A k \in 1..(n - 1) : queue'[k] = q[k]
    <3>1. /\ DOMAIN queue' = 1..((n - 1) + 1) /\ queue'[(n - 1) + 1] = s
          /\ \A k \in 1..(n - 1) : queue'[k] = q[k]
      BY <2>1, <2>2, AppendProperties
    <3>2. (n - 1) + 1 = n
      BY <1>2
    <3> QED
      BY <3>1, <3>2
  <2>5. \A k \in 1..(n - 1) :
          queue'[k] = IF k < w THEN queue[k] ELSE queue[k + 1]
    BY <2>2, <2>4
  <2>6. ASSUME NEW j \in 1..n, j # w
        PROVE  \E l \in 1..n : /\ queue'[l] = queue[j]
                               /\ l = IF j < w THEN j ELSE j - 1
    <3>1. CASE j < w
      <4>1. j \in 1..(n - 1)
        BY <1>2, <2>1, <3>1
      <4> QED
        BY <2>5, <3>1, <4>1
    <3>2. CASE ~(j < w)
      <4>1. j - 1 \in 1..(n - 1) /\ ~(j - 1 < w) /\ (j - 1) + 1 = j /\ j - 1 \in 1..n
        BY <1>2, <2>1, <2>6, <3>2
      <4>2. queue'[j - 1] = queue[(j - 1) + 1]
        BY <2>5, <4>1
      <4> QED
        BY <3>2, <4>1, <4>2
    <3> QED
      BY <3>1, <3>2
  <2>7. ASSUME NEW k \in DOMAIN queue'  PROVE queue'[k] = s \/ Follows(k, s)
    <3>1. CASE k = n
      BY <2>4, <3>1
    <3>2. CASE k # n
      <4> DEFINE i == IF k < w THEN k ELSE k + 1
      <4>1. k \in 1..(n - 1) /\ n > k /\ n \in DOMAIN queue' /\ i \in 1..n
        <5>1. k \in 1..n
          BY <2>4
        <5>2. k \in 1..(n - 1) /\ n > k
          BY <1>2, <3>2, <5>1
        <5>3. i \in 1..n
          BY <1>2, <5>2
        <5> QED
          BY <2>3, <2>4, <5>2, <5>3
      <4>2. queue'[k] = queue[i]
        BY <2>5, <4>1
      <4>3. ASSUME NEW j \in 1..n, j > i
            PROVE  \/ Told("off", queue[j].cmds) \subseteq left'
                   \/ \E l \in DOMAIN queue' : l > k /\ queue'[l] = queue[j]
        <5>1. CASE j = w
          BY <1>1, <1>4, <5>1
        <5>2. CASE j # w
          <6>1. PICK l \in 1..n : /\ queue'[l] = queue[j]
                                  /\ l = IF j < w THEN j ELSE j - 1
            BY <2>6, <5>2
          <6>2. l > k
            BY <1>2, <2>1, <4>1, <4>3, <5>2, <6>1
          <6> QED
            BY <2>4, <6>1, <6>2
        <5> QED
          BY <5>1, <5>2
      <4>4. \E l \in DOMAIN queue' : l > k /\ queue'[l] = s
        BY <2>4, <4>1
      <4> HIDE DEF i
      <4> QED
        BY <1>2, <4>1, <4>2, <4>3, <4>4 DEF Follows
    <3> QED
      BY <3>1, <3>2
  <2>8. ToldBy("off", queue) \subseteq ToldBy("off", queue') \cup left'
    <3> SUFFICES ASSUME NEW p \in ToldBy("off", queue), p \notin left'
                 PROVE  p \in ToldBy("off", queue')
      OBVIOUS
    <3>1. PICK j \in 1..n : p \in Told("off", queue[j].cmds)
      BY <1>2, ToldByOne
    <3>2. j # w
      BY <1>1, <1>4, <3>1
    <3>3. PICK l \in 1..n : queue'[l] = queue[j]
      BY <2>6, <3>2
    <3> QED
      BY <2>4, <3>1, <3>3, ToldByOne
  <2>9. Told("off", s.cmds) \subseteq ToldBy("off", queue')
    <3>1. n \in DOMAIN queue'
      BY <2>3, <2>4
    <3> QED
      BY <2>4, <3>1, ToldByOne
  <2> QED
    BY <1>1, <2>7, <2>8, <2>9
<1> QED
  BY <1>3, <1>4

\* The new sequence turns off what was shown, if that changes, and turns on
\* what is shown now.
LEMMA SequencedActive ==
  ASSUME TypeOK, ActiveInv, NEW s \in Item, SendSequenceItem(s),
         active' = active, item' = item,
         \A p \in Told("on", s.cmds) : p # NoPath /\ (p = prevRse' \/ p \in Unnotified(s)),
         prevRse' = prevRse \/ prevRse = NoPath \/ prevRse \in Told("off", s.cmds)
  PROVE  ActiveInv'
<1>1. queue \in Seq(Item)
  BY DEF TypeOK
<1>2. CASE current # NoItem /\ QueueSequence(s) /\ UNCHANGED <<current, sending>>
  <2>1. /\ left \subseteq left' /\ Unnotified(s) \subseteq left'
        /\ \A k \in DOMAIN queue' : queue'[k] = s \/ Follows(k, s)
        /\ ToldBy("off", queue) \subseteq ToldBy("off", queue') \cup left'
        /\ Told("off", s.cmds) \subseteq ToldBy("off", queue')
    BY <1>1, <1>2, QueuedBehind
  <2>2. ASSUME NEW p, p # NoPath, Kept(p)
        PROVE  Kept(p)' \/ p \in Told("off", s.cmds)
    BY <2>1, <2>2 DEF Kept
  <2>3. ASSUME NEW p, p # NoPath, Covered(p)  PROVE Covered(p)'
    BY <1>2, <2>1, <2>2, <2>3 DEF Covered, Kept
  <2>4. OnsOfCurrent'
    <3> SUFFICES ASSUME NEW p \in Told("on", current.cmds)
                 PROVE  p # NoPath /\ (Kept(p)' \/ p \in ToldBy("off", queue'))
      BY <1>2 DEF OnsOfCurrent, Kept
    <3>1. p # NoPath /\ (Kept(p) \/ p \in ToldBy("off", queue))
      BY DEF ActiveInv, OnsOfCurrent
    <3> QED
      BY <2>1, <2>2, <3>1 DEF Kept
  <2>5. ASSUME NEW k \in DOMAIN queue', NEW p \in Told("on", queue'[k].cmds)
        PROVE  /\ p # NoPath
               /\ \/ Kept(p)'
                  \/ \E j \in DOMAIN queue' : j > k /\ p \in Told("off", queue'[j].cmds)
    <3>1. CASE queue'[k] = s
      BY <2>1, <2>5, <3>1 DEF Kept
    <3>2. CASE Follows(k, s)
      <4>1. PICK i \in DOMAIN queue :
              /\ queue'[k] = queue[i]
              /\ \A j \in DOMAIN queue :
                   j > i => \/ Told("off", queue[j].cmds) \subseteq left'
                            \/ \E l \in DOMAIN queue' : l > k /\ queue'[l] = queue[j]
              /\ \E l \in DOMAIN queue' : l > k /\ queue'[l] = s
        BY <3>2 DEF Follows
      <4>2. /\ p # NoPath
            /\ \/ Kept(p)
               \/ \E j \in DOMAIN queue : j > i /\ p \in Told("off", queue[j].cmds)
        BY <2>5, <4>1 DEF ActiveInv, OnsOfQueue
      <4>3. CASE Kept(p)
        BY <2>2, <4>1, <4>2, <4>3
      <4>4. CASE \E j \in DOMAIN queue : j > i /\ p \in Told("off", queue[j].cmds)
        <5>1. PICK j \in DOMAIN queue : j > i /\ p \in Told("off", queue[j].cmds)
          BY <4>4
        <5>2. CASE Told("off", queue[j].cmds) \subseteq left'
          BY <4>2, <5>1, <5>2 DEF Kept
        <5>3. CASE \E l \in DOMAIN queue' : l > k /\ queue'[l] = queue[j]
          BY <4>2, <5>1, <5>3
        <5> QED
          BY <4>1, <5>1, <5>2, <5>3
      <4> QED
        BY <4>2, <4>3, <4>4
    <3> QED
      BY <2>1, <3>1, <3>2
  <2>6. OnsOfQueue'
    BY <2>5 DEF OnsOfQueue, Kept
  <2>7. OnOfItem'
    BY <2>3 DEF ActiveInv, OnOfItem
  <2>8. NoPath \notin active' /\ \A p \in active' : Covered(p)'
    BY <2>3 DEF ActiveInv
  <2> QED
    BY <2>4, <2>6, <2>7, <2>8 DEF ActiveInv
<1>3. CASE /\ current = NoItem
           /\ current' = s /\ sending' = TRUE
           /\ left' = left \cup Unnotified(s) \cup ToldBy("on", queue)
           /\ UNCHANGED queue
  <2>1. \A p : p # NoPath /\ Kept(p) => Kept(p)' \/ p \in Told("off", current'.cmds)
    BY <1>3 DEF Kept
  <2>2. Told("off", current.cmds) = {}
    BY <1>3, NoItemIsNone, ToldEmpty
  <2>3. ASSUME NEW p, p # NoPath, Covered(p)  PROVE Covered(p)'
    BY <1>3, <2>1, <2>2, <2>3 DEF Covered, Kept
  <2>4. OnsOfCurrent'
    BY <1>3 DEF OnsOfCurrent, Kept
  <2>5. ASSUME NEW i \in DOMAIN queue, NEW p \in Told("on", queue[i].cmds)
        PROVE  p # NoPath /\ Kept(p)'
    <3>1. p \in ToldBy("on", queue)
      BY ToldByOne
    <3> QED
      BY <1>3, <3>1 DEF ActiveInv, OnsOfQueue, Kept
  <2>6. OnsOfQueue'
    BY <1>3, <2>5 DEF OnsOfQueue, Kept
  <2>7. OnOfItem'
    BY <2>3 DEF ActiveInv, OnOfItem
  <2>8. NoPath \notin active' /\ \A p \in active' : Covered(p)'
    BY <2>3 DEF ActiveInv
  <2> QED
    BY <2>4, <2>6, <2>7, <2>8 DEF ActiveInv
<1> QED
  BY <1>2, <1>3 DEF SendSequenceItem

\* The sequences stay, and nothing is turned on but what is repeated.
LEMMA ActiveSame ==
  ASSUME ActiveInv, current' = current, queue' = queue, prevRse' = prevRse,
         left \subseteq left', item' = item \/ item'.name # "on",
         \A p \in active' : p \in active \/ (item.name = "on" /\ p = item.path)
  PROVE  ActiveInv'
<1>1. \A p : (Kept(p) => Kept(p)') /\ (Covered(p) => Covered(p)')
  BY DEF Kept, Covered
<1>2. OnsOfCurrent' /\ OnsOfQueue' /\ OnOfItem'
  BY <1>1 DEF ActiveInv, OnsOfCurrent, OnsOfQueue, OnOfItem
<1>3. NoPath \notin active' /\ \A p \in active' : Covered(p)'
  BY <1>1 DEF ActiveInv, OnOfItem
<1> QED
  BY <1>2, <1>3 DEF ActiveInv

\* The current sequence is given up, and what it would have turned off is left.
LEMMA ActiveCleared ==
  ASSUME ActiveInv, current' = NoItem, queue' = queue, prevRse' = prevRse,
         left \cup Told("off", current.cmds) \subseteq left',
         \/ item' = item \/ item'.name # "on"
         \/ item'.path \in Told("on", current.cmds),
         \A p \in active' : p \in active
  PROVE  ActiveInv'
<1>1. \A p : (Kept(p) => Kept(p)') /\ (Covered(p) => Covered(p)')
  BY DEF Kept, Covered
<1>2. OnsOfCurrent'
  BY NoItemIsNone, ToldEmpty DEF OnsOfCurrent
<1>3. OnsOfQueue'
  BY <1>1 DEF ActiveInv, OnsOfQueue
<1>4. OnOfItem'
  BY <1>1 DEF ActiveInv, OnOfItem, OnsOfCurrent, Covered
<1>5. NoPath \notin active' /\ \A p \in active' : Covered(p)'
  BY <1>1 DEF ActiveInv
<1> QED
  BY <1>2, <1>3, <1>4, <1>5 DEF ActiveInv

\* A command is taken: its source is on or off from now on.
LEMMA ActiveTaken ==
  ASSUME TypeOK, ActiveInv, current.cmds # <<>>, NEW c, c = Head(current.cmds),
         current'.cmds = Tail(current.cmds), queue' = queue,
         prevRse' = prevRse, left' = left,
         active' = CASE c.name = "on" -> active \cup {c.path}
                     [] c.name = "off" -> active \ {c.path}
                     [] OTHER -> active,
         \/ item'.name # "on"
         \/ item' = c
         \/ item' = item /\ c.name # "off"
  PROVE  ActiveInv'
<1>1. /\ Told("on", current.cmds) = Told("on", current'.cmds)
                 \cup (IF c.name = "on" THEN {c.path} ELSE {})
      /\ Told("off", current.cmds) = Told("off", current'.cmds)
                 \cup (IF c.name = "off" THEN {c.path} ELSE {})
  BY CurrentTyped, ToldTail
<1>2. \A p : Kept(p) => Kept(p)'
  BY DEF Kept
<1>3. \A p : Covered(p) /\ (c.name = "off" => p # c.path) => Covered(p)'
  BY <1>1, <1>2 DEF Covered
<1>4. c.name = "on" => c.path # NoPath /\ Covered(c.path)'
  BY <1>1, <1>2 DEF ActiveInv, OnsOfCurrent, Covered
<1>5. OnsOfCurrent'
  <2> SUFFICES ASSUME NEW p \in Told("on", current'.cmds)
               PROVE  p # NoPath /\ (Kept(p)' \/ p \in ToldBy("off", queue'))
    BY DEF OnsOfCurrent
  <2> QED
    BY <1>1, <1>2 DEF ActiveInv, OnsOfCurrent
<1>6. OnsOfQueue'
  BY <1>2 DEF ActiveInv, OnsOfQueue
<1>7. OnOfItem'
  BY <1>3, <1>4 DEF ActiveInv, OnOfItem
<1>8. NoPath \notin active' /\ \A p \in active' : Covered(p)'
  BY <1>3, <1>4 DEF ActiveInv
<1> QED
  BY <1>5, <1>6, <1>7, <1>8 DEF ActiveInv

LEMMA NothingOn == NoCommand.name # "on"
BY DEF NoCommand

LEMMA IntervalActive ==
  ASSUME IInv, ActiveInv, current.cmds # <<>>, Responds(Head(current.cmds)),
         SendCmdInterval, UNCHANGED <<pathVars, stateVars, requests>>
  PROVE  ActiveInv'
<1> DEFINE c == Head(current.cmds)
           rest == [current EXCEPT !.cmds = Tail(@)]
<1>1. /\ c \in Command /\ c # NoCommand /\ current \in Item /\ rse # "NONE"
      /\ current.cmds \in Seq(Command) /\ rest.cmds = Tail(current.cmds)
  <2>1. c \in Command /\ c # NoCommand /\ current \in Item /\ rse # "NONE"
    BY CommandTaken
  <2> QED
    BY <2>1 DEF Item
<1>2. PICK ok \in SendResults :
        /\ SendIntervalStart(c, ok)
        /\ item' = IF timer' = "none" THEN NoCommand ELSE c
        /\ IF ok THEN current' = rest /\ UNCHANGED left
                 ELSE ClearCurrentSequenceItem(current.cmds)
        /\ UNCHANGED queue
  BY Zenon DEF SendCmdInterval
<1>3. prevRse' = prevRse
  BY DEF pathVars
<1>4. item' = c \/ item'.name # "on"
  BY <1>2, NothingOn
<1>5. c.name = "on" => c.path \in Told("on", current.cmds)
  BY <1>1, ToldTail
<1> HIDE DEF c, rest
<1>6. CASE ok
  <2>1. resumed /\ Connected /\ ls3 /\ timer = "none" /\ Send(c, ok)
    BY <1>1, <1>2, <1>6 DEF SendIntervalStart, SendResults, Connected
  <2>2. active' = CASE c.name = "on" -> active \cup {c.path}
                    [] c.name = "off" -> active \ {c.path}
                    [] OTHER -> active
    BY <1>1, <1>6, <2>1, Zenon DEF Send
  <2>3. current'.cmds = Tail(current.cmds) /\ queue' = queue /\ left' = left
    BY <1>1, <1>2, <1>6
  <2> QED
    BY <1>3, <1>4, <2>2, <2>3, ActiveTaken DEF IInv, c
<1>7. CASE ~ok
  <2>1. active' = active
    BY <1>2, <1>7 DEF SendIntervalStart, Send, linkVars
  <2>2. /\ current' = NoItem /\ queue' = queue
        /\ left \cup Told("off", current.cmds) \subseteq left'
    BY <1>2, <1>7 DEF ClearCurrentSequenceItem
  <2>3. item' = item \/ item'.name # "on" \/ item'.path \in Told("on", current.cmds)
    BY <1>4, <1>5
  <2> QED
    BY <1>3, <2>1, <2>2, <2>3, ActiveCleared
<1> QED
  BY <1>6, <1>7

LEMMA OneshotActive ==
  ASSUME IInv, ActiveInv, current.cmds # <<>>, ~Responds(Head(current.cmds)),
         SendCmdOneshot, UNCHANGED <<pathVars, stateVars, requests>>
  PROVE  ActiveInv'
<1> DEFINE c == Head(current.cmds)
           rest == [current EXCEPT !.cmds = Tail(@)]
<1>1. current \in Item /\ rest.cmds = Tail(current.cmds)
  <2>1. current \in Item
    BY CommandTaken
  <2> QED
    BY <2>1 DEF Item
<1>2. PICK ok \in SendResults :
        /\ Send(c, ok)
        /\ item' = IF timer = "none" THEN NoCommand ELSE c
        /\ IF ok THEN current' = rest /\ UNCHANGED left
                 ELSE ClearCurrentSequenceItem(current.cmds)
        /\ UNCHANGED queue
  BY Zenon DEF SendCmdOneshot
<1>3. c.name # "on" /\ c.name # "off" /\ prevRse' = prevRse
  BY DEF Responds, pathVars
<1> HIDE DEF c, rest
<1>4. active' = active /\ item'.name # "on"
  BY <1>2, <1>3, NothingOn DEF Send
<1>5. CASE ok
  <2>1. current'.cmds = Tail(current.cmds) /\ queue' = queue /\ left' = left
    BY <1>1, <1>2, <1>5
  <2> QED
    BY <1>3, <1>4, <2>1, ActiveTaken DEF IInv, c
<1>6. CASE ~ok
  <2>1. /\ current' = NoItem /\ queue' = queue
        /\ left \cup Told("off", current.cmds) \subseteq left'
    BY <1>2, <1>6 DEF ClearCurrentSequenceItem
  <2> QED
    BY <1>3, <1>4, <2>1, ActiveCleared
<1> QED
  BY <1>5, <1>6

LEMMA StatusActive ==
  ASSUME IInv, ActiveInv, current.cmds # <<>>, IsStatus(Head(current.cmds)),
         SendStatus, UNCHANGED <<pathVars, stateVars, requests>>
  PROVE  ActiveInv'
<1>1. Head(current.cmds).name # "on" /\ Head(current.cmds).name # "off"
  BY DEF IsStatus
<1>2. current'.cmds = Tail(current.cmds)
  <2>1. current \in Item
    BY CommandTaken
  <2> QED
    BY <2>1 DEF Item, SendStatus
<1>3. /\ queue' = queue /\ prevRse' = prevRse /\ left' = left
      /\ active' = active /\ item' = item
  BY DEF SendStatus, sendVars, linkVars, history, pathVars
<1> QED
  BY <1>1, <1>2, <1>3, ActiveTaken DEF IInv

LEMMA NextSequenceActive ==
  ASSUME IInv, ActiveInv, current.cmds = <<>>, NextSequence,
         UNCHANGED <<sendVars, linkVars, stsVars, history, events>>,
         UNCHANGED <<pathVars, stateVars, requests>>
  PROVE  ActiveInv'
<1>1. /\ prevRse' = prevRse /\ left' = left /\ active' = active /\ item' = item
      /\ queue \in Seq(Item)
  BY DEF sendVars, linkVars, history, pathVars, IInv, TypeOK
<1>2. \A p : Kept(p)' <=> Kept(p)
  BY <1>1 DEF Kept
<1>3. Told("off", current.cmds) = {}
  BY ToldEmpty
<1>4. CASE queue = <<>>
  <2>1. current'.cmds = <<>> /\ queue' = <<>>
    BY <1>4, NoItemIsNone DEF NextSequence
  <2>2. \A p : Covered(p) => Covered(p)'
    BY <1>2, <1>3, <1>4, <2>1, ToldEmpty DEF Covered
  <2>3. OnsOfCurrent'
    BY <2>1, ToldEmpty DEF OnsOfCurrent
  <2>4. OnsOfQueue'
    BY <2>1 DEF OnsOfQueue
  <2> QED
    BY <1>1, <2>2, <2>3, <2>4 DEF ActiveInv, OnOfItem
<1>5. CASE queue # <<>>
  <2>1. /\ current' = queue[1] /\ 1 \in DOMAIN queue /\ current' = Head(queue)
        /\ queue' = Tail(queue) /\ DOMAIN queue = 1..Len(queue)
        /\ Len(queue) \in Nat
        /\ \A i \in DOMAIN queue' :
             i + 1 \in DOMAIN queue /\ queue'[i] = queue[i + 1]
        /\ \A i \in DOMAIN queue : i > 1 => i - 1 \in DOMAIN queue'
        /\ DOMAIN queue' \subseteq Nat
    BY <1>1, <1>5 DEF NextSequence
  <2>2. ToldBy("off", queue) = Told("off", current'.cmds) \cup ToldBy("off", queue')
    BY <1>1, <1>5, <2>1, ToldByTail
  <2>3. \A p : Covered(p) => Covered(p)'
    BY <1>2, <1>3, <2>2 DEF Covered
  <2>4. ASSUME NEW i \in DOMAIN queue, NEW j \in DOMAIN queue, j > i
        PROVE  \E k \in DOMAIN queue' : k = j - 1 /\ queue'[k] = queue[j]
    <3>1. j - 1 \in DOMAIN queue' /\ (j - 1) + 1 = j
      BY <2>1, <2>4
    <3>2. queue'[j - 1] = queue[(j - 1) + 1]
      BY <2>1, <3>1
    <3> QED
      BY <3>1, <3>2
  <2>5. OnsOfCurrent'
    <3> SUFFICES ASSUME NEW p \in Told("on", queue[1].cmds)
                 PROVE  p # NoPath /\ (Kept(p)' \/ p \in ToldBy("off", queue'))
      BY <2>1 DEF OnsOfCurrent
    <3>1. /\ p # NoPath
          /\ \/ Kept(p)
             \/ \E j \in DOMAIN queue : j > 1 /\ p \in Told("off", queue[j].cmds)
      BY <2>1 DEF ActiveInv, OnsOfQueue
    <3>2. CASE \E j \in DOMAIN queue : j > 1 /\ p \in Told("off", queue[j].cmds)
      BY <2>1, <2>4, <3>1, <3>2, ToldByOne
    <3> QED
      BY <1>2, <3>1, <3>2
  <2>6. OnsOfQueue'
    <3> SUFFICES ASSUME NEW i \in DOMAIN queue', NEW p \in Told("on", queue'[i].cmds)
                 PROVE  /\ p # NoPath
                        /\ \/ Kept(p)'
                           \/ \E j \in DOMAIN queue' :
                                j > i /\ p \in Told("off", queue'[j].cmds)
      BY DEF OnsOfQueue
    <3>1. i + 1 \in DOMAIN queue /\ queue'[i] = queue[i + 1] /\ i \in Nat
      BY <2>1
    <3>2. /\ p # NoPath
          /\ \/ Kept(p)
             \/ \E j \in DOMAIN queue : j > i + 1 /\ p \in Told("off", queue[j].cmds)
      BY <3>1 DEF ActiveInv, OnsOfQueue
    <3>3. CASE \E j \in DOMAIN queue : j > i + 1 /\ p \in Told("off", queue[j].cmds)
      <4>1. PICK j \in DOMAIN queue : j > i + 1 /\ p \in Told("off", queue[j].cmds)
        BY <3>3
      <4>2. PICK k \in DOMAIN queue' : k = j - 1 /\ queue'[k] = queue[j]
        BY <2>4, <3>1, <4>1
      <4>3. j \in Nat
        BY <2>1
      <4>4. k > i
        BY <3>1, <4>1, <4>2, <4>3
      <4> QED
        BY <3>2, <4>1, <4>2, <4>4
    <3> QED
      BY <1>2, <3>2, <3>3
  <2> QED
    BY <1>1, <2>3, <2>5, <2>6 DEF ActiveInv, OnOfItem
<1> QED
  BY <1>4, <1>5

LEMMA SendCmdActive ==
  ASSUME IInv, ActiveInv, SendCmd
  PROVE  ActiveInv'
<1>1. \A c : IsStatus(c) => ~Responds(c)
  BY DEF IsStatus, Responds
<1> QED
  BY IntervalActive, OneshotActive, StatusActive, NextSequenceActive, Zenon
     DEF SendCmd

\* What is told by commands one after the other.
LEMMA ToldConcat ==
  ASSUME NEW a \in Seq(Command), NEW b \in Seq(Command), NEW name
  PROVE  Told(name, a \o b) = Told(name, a) \cup Told(name, b)
<1>1. /\ a \o b \in Seq(Command) /\ Len(a) \in Nat /\ Len(b) \in Nat
      /\ DOMAIN a = 1..Len(a) /\ DOMAIN b = 1..Len(b)
      /\ DOMAIN (a \o b) = 1..(Len(a) + Len(b))
      /\ \A i \in 1..(Len(a) + Len(b)) :
           (a \o b)[i] = IF i <= Len(a) THEN a[i] ELSE b[i - Len(a)]
  OBVIOUS
<1>2. ToSet(a \o b) = ToSet(a) \cup ToSet(b)
  <2>1. ASSUME NEW i \in 1..(Len(a) + Len(b))
        PROVE  (a \o b)[i] \in ToSet(a) \cup ToSet(b)
    <3>1. CASE i <= Len(a)
      <4>1. i \in DOMAIN a
        BY <1>1, <3>1
      <4> QED
        BY <1>1, <3>1, <4>1 DEF ToSet
    <3>2. CASE ~(i <= Len(a))
      <4>1. i - Len(a) \in DOMAIN b
        BY <1>1, <3>2
      <4> QED
        BY <1>1, <3>2, <4>1 DEF ToSet
    <3> QED
      BY <3>1, <3>2
  <2>2. ASSUME NEW i \in DOMAIN a
        PROVE  a[i] \in ToSet(a \o b)
    <3>1. i \in DOMAIN (a \o b) /\ (a \o b)[i] = a[i]
      BY <1>1
    <3> QED
      BY <3>1 DEF ToSet
  <2>3. ASSUME NEW i \in DOMAIN b
        PROVE  b[i] \in ToSet(a \o b)
    <3>1. /\ i + Len(a) \in DOMAIN (a \o b) /\ ~(i + Len(a) <= Len(a))
          /\ (i + Len(a)) - Len(a) = i
      BY <1>1
    <3>2. (a \o b)[i + Len(a)] = b[i]
      BY <1>1, <3>1
    <3> QED
      BY <3>1, <3>2 DEF ToSet
  <2> QED
    BY <1>1, <2>1, <2>2, <2>3 DEF ToSet
<1> QED
  BY <1>2 DEF Told

LEMMA ToldOne ==
  ASSUME NEW c, NEW name
  PROVE  Told(name, <<c>>) = IF c.name = name THEN {c.path} ELSE {}
<1>1. ToSet(<<c>>) = {c}
  BY DEF ToSet
<1> QED
  BY <1>1 DEF Told

\* What each sequence turns on and off.
LEMMA SequenceTells ==
  ASSUME TypeOK, NEW disp \in Paths \cup {NoPath}, NEW m \in BOOLEAN
  PROVE  /\ \A id \in {"SetFrontPath", "ColdBoot", "SetMuteRearDisp"} :
              Told("on", CreateSequenceItem(id, disp, m).cmds) = {}
         /\ Told("on", CreateSequenceItem("RecoveryRse", disp, m).cmds)
              \subseteq {disp} \ {NoPath}
         /\ Told("on", CreateSequenceItem("SetRsePathNotify", disp, m).cmds)
              \subseteq {disp} \ {NoPath}
         /\ prevRse \notin {disp, NoPath}
              => prevRse \in Told("off",
                               CreateSequenceItem("SetRsePathNotify", disp, m).cmds)
<1> DEFINE off == IF prevRse \notin {disp, NoPath}
                    THEN <<SourceActivity("off", prevRse)>> ELSE <<>>
           new == IF disp \notin {prevRse, NoPath}
                    THEN <<SourceActivity("on", disp)>> ELSE <<>>
           set == IF disp # NoPath
                    THEN <<SourceActivity("on", disp)>> ELSE <<>>
           one == <<CurrentVideoSource>>
           two == <<CurrentVideoSource, VideoMode>>
           three == <<CurrentVideoSource, VideoMode, StatusVpathRear>>
           mute == <<VideoMute(m), StatusMute(m)>>
<1>1. /\ CurrentVideoSource \in Command /\ VideoMode \in Command
      /\ StatusVpathRear \in Command
      /\ SourceActivity("on", disp) \in Command
      /\ SourceActivity("off", prevRse) \in Command
  BY DEF TypeOK, CurrentVideoSource, VideoMode, StatusVpathRear,
         SourceActivity, Command, Names
<1>2. /\ off \in Seq(Command) /\ new \in Seq(Command) /\ set \in Seq(Command)
      /\ two \in Seq(Command) /\ three \in Seq(Command)
  BY <1>1
<1>3. /\ CurrentVideoSource.name = "source" /\ VideoMode.name = "mode"
      /\ StatusVpathRear.name = "status"
      /\ VideoMute(m).name # "on" /\ StatusMute(m).name # "on"
      /\ SourceActivity("on", disp).name = "on"
      /\ SourceActivity("on", disp).path = disp
      /\ SourceActivity("off", prevRse).name = "off"
      /\ SourceActivity("off", prevRse).path = prevRse
  BY DEF CurrentVideoSource, VideoMode, StatusVpathRear, VideoMute, StatusMute,
         SourceActivity
<1>4. /\ ToSet(one) = {CurrentVideoSource}
      /\ ToSet(two) = {CurrentVideoSource, VideoMode}
      /\ ToSet(three) = {CurrentVideoSource, VideoMode, StatusVpathRear}
      /\ ToSet(mute) = {VideoMute(m), StatusMute(m)}
  BY DEF ToSet
<1>5. /\ Told("on", one) = {} /\ Told("on", two) = {}
      /\ Told("on", three) = {} /\ Told("on", mute) = {}
  BY <1>3, <1>4 DEF Told
<1>6. /\ Told("on", off) = {}
      /\ Told("on", new) \subseteq {disp} \ {NoPath}
      /\ Told("on", set) \subseteq {disp} \ {NoPath}
      /\ prevRse \notin {disp, NoPath} => prevRse \in Told("off", off)
  BY <1>3, ToldOne, ToldEmpty
<1>7. /\ CreateSequenceItem("SetFrontPath", disp, m).cmds = one
      /\ CreateSequenceItem("ColdBoot", disp, m).cmds = two
      /\ CreateSequenceItem("SetMuteRearDisp", disp, m).cmds = mute
      /\ CreateSequenceItem("RecoveryRse", disp, m).cmds = set \o two
      /\ CreateSequenceItem("SetRsePathNotify", disp, m).cmds = off \o new \o three
  BY DEF CreateSequenceItem, CreateCommandItem
<1> HIDE DEF off, new, set, one, two, three, mute
<1>8. off \o new \in Seq(Command)
  BY <1>2
<1>9. /\ Told("on", set \o two) = Told("on", set) \cup Told("on", two)
      /\ \A name : Told(name, off \o new \o three)
                     = Told(name, off) \cup Told(name, new) \cup Told(name, three)
  <2>1. \A a, b \in Seq(Command) : \A name :
          Told(name, a \o b) = Told(name, a) \cup Told(name, b)
    BY ToldConcat
  <2>2. Told("on", set \o two) = Told("on", set) \cup Told("on", two)
    BY <1>2, <2>1
  <2>3. ASSUME NEW name
        PROVE  Told(name, off \o new \o three)
                 = Told(name, off) \cup Told(name, new) \cup Told(name, three)
    <3>1. Told(name, off \o new) = Told(name, off) \cup Told(name, new)
      BY <1>2, <2>1
    <3>2. Told(name, (off \o new) \o three)
            = Told(name, off \o new) \cup Told(name, three)
      BY <1>2, <1>8, <2>1
    <3>3. off \o new \o three = (off \o new) \o three
      OBVIOUS
    <3> QED
      BY <3>1, <3>2, <3>3
  <2> QED
    BY <2>2, <2>3
<1>10. /\ Told("on", set \o two) \subseteq {disp} \ {NoPath}
       /\ Told("on", off \o new \o three) \subseteq {disp} \ {NoPath}
       /\ prevRse \notin {disp, NoPath}
            => prevRse \in Told("off", off \o new \o three)
  BY <1>5, <1>6, <1>9, Zenon
<1>11. \A id \in {"SetFrontPath", "ColdBoot", "SetMuteRearDisp"} :
         Told("on", CreateSequenceItem(id, disp, m).cmds) = {}
  BY <1>5, <1>7
<1> QED
  BY <1>7, <1>10, <1>11, Zenon

LEMMA SetRearPathsActive ==
  ASSUME ActiveInv, SetRearPaths
  PROVE  ActiveInv'
BY ActiveSame DEF SetRearPaths, seqVars, sendVars, linkVars, history

LEMMA SetFrontPathActive ==
  ASSUME IInv, ActiveInv, SetFrontPath
  PROVE  ActiveInv'
<1> DEFINE s == CreateSequenceItem("SetFrontPath", rsePath, FALSE)
<1>1. s \in Item /\ Told("on", s.cmds) = {} /\ SendSequenceItem(s)
  BY CommandsTyped, SequenceTells DEF IInv, TypeOK, SetFrontPath, SeqId
<1>2. active' = active /\ item' = item /\ prevRse' = prevRse
  BY DEF SetFrontPath, linkVars, sendVars, pathVars
<1> HIDE DEF s
<1> QED
  BY <1>1, <1>2, SequencedActive DEF IInv

LEMMA NotifyActive ==
  ASSUME IInv, ActiveInv, NEW disp \in Paths \cup {NoPath},
         ActionVpathRearRseNotify(disp)
  PROVE  ActiveInv'
<1> DEFINE s == CreateSequenceItem("SetRsePathNotify", disp, FALSE)
<1>1. active' = active /\ item' = item
  BY DEF ActionVpathRearRseNotify, linkVars, sendVars
<1>2. s \in Item
  BY CommandsTyped DEF IInv, SeqId
<1>3. /\ Told("on", s.cmds) \subseteq {disp} \ {NoPath}
      /\ prevRse \notin {disp, NoPath} => prevRse \in Told("off", s.cmds)
  BY SequenceTells DEF IInv
<1>4. CASE SendSequenceItem(s) /\ prevRse' = disp
  <2> HIDE DEF s
  <2> QED
    BY <1>1, <1>2, <1>3, <1>4, SequencedActive DEF IInv
<1>5. CASE UNCHANGED <<seqVars, left, prevRse, prevRear>>
  BY <1>1, <1>5, ActiveSame DEF seqVars
<1> QED
  BY <1>4, <1>5 DEF ActionVpathRearRseNotify, Reflect

LEMMA MuteActive ==
  ASSUME IInv, ActiveInv, NEW m \in BOOLEAN, ActionMuteRearDisp(m)
  PROVE  ActiveInv'
<1> DEFINE s == CreateSequenceItem("SetMuteRearDisp", rsePath, m)
<1>1. active' = active /\ item' = item /\ prevRse' = prevRse
  BY DEF ActionMuteRearDisp, linkVars, sendVars, pathVars
<1>2. s \in Item /\ Told("on", s.cmds) = {}
  BY CommandsTyped, SequenceTells DEF IInv, TypeOK, SeqId
<1>3. CASE SendSequenceItem(s)
  <2> HIDE DEF s
  <2> QED
    BY <1>1, <1>2, <1>3, SequencedActive DEF IInv
<1>4. CASE UNCHANGED <<seqVars, left>>
  BY <1>1, <1>4, ActiveSame DEF seqVars
<1> QED
  BY <1>3, <1>4 DEF ActionMuteRearDisp

LEMMA DisconnectActive ==
  ASSUME IInv, ActiveInv, Disconnect, active' = active, item' = item
  PROVE  ActiveInv'
<1>1. /\ current' = NoItem /\ queue' = <<>> /\ prevRse' = prevRse
      /\ left' = left \cup Told("off", current.cmds) \cup ToldBy("off", queue)
  BY DEF Disconnect, pathVars
<1>2. \A p : Covered(p) => Kept(p)'
  BY <1>1 DEF Covered, Kept
<1>3. OnsOfCurrent' /\ OnsOfQueue'
  BY <1>1, NoItemIsNone, ToldEmpty DEF OnsOfCurrent, OnsOfQueue
<1> QED
  BY <1>2, <1>3 DEF ActiveInv, OnOfItem, Covered

LEMMA ConnectedRseActive ==
  ASSUME IInv, ActiveInv, NEW type \in Rse, ActionSettingConnectedRSE(type)
  PROVE  ActiveInv'
<1>1. active' = active /\ item' = item
  BY DEF ActionSettingConnectedRSE, linkVars, sendVars
<1>2. CASE Disconnect
  BY <1>1, <1>2, DisconnectActive
<1>3. CASE ConnectFirst(type)
  <2> DEFINE s == CreateSequenceItem("ColdBoot", rsePath, FALSE)
  <2>1. s \in Item /\ Told("on", s.cmds) = {}
    BY CommandsTyped, SequenceTells DEF IInv, TypeOK, SeqId
  <2>2. prevRse' = prevRse /\ (SendSequenceItem(s) \/ UNCHANGED <<seqVars, left>>)
    BY <1>3 DEF ConnectFirst
  <2> HIDE DEF s
  <2>3. CASE SendSequenceItem(s)
    BY <1>1, <2>1, <2>2, <2>3, SequencedActive DEF IInv
  <2>4. CASE UNCHANGED <<seqVars, left>>
    BY <1>1, <2>2, <2>4, ActiveSame DEF seqVars
  <2> QED
    BY <2>2, <2>3, <2>4
<1>4. CASE Reconnect(type)
  <2> DEFINE s == CreateSequenceItem("RecoveryRse", rsePath, FALSE)
  <2>1. /\ s \in Item /\ s.id = "RecoveryRse"
        /\ Told("on", s.cmds) \subseteq {rsePath} \ {NoPath}
    BY CommandsTyped, SequenceTells DEF IInv, TypeOK, SeqId, CreateSequenceItem
  <2>2. prevRse' = prevRse /\ SendSequenceItem(s)
    BY <1>4 DEF Reconnect, pathVars
  <2> HIDE DEF s
  <2>3. \A p \in Told("on", s.cmds) : p # NoPath /\ (p = prevRse' \/ p \in Unnotified(s))
    BY <2>1, <2>2 DEF Unnotified
  <2> QED
    BY <1>1, <2>1, <2>2, <2>3, SequencedActive DEF IInv
<1> QED
  BY <1>2, <1>3, <1>4, Zenon DEF ActionSettingConnectedRSE

-----------------------------------------------------------------------------
\* The current sequence ends in failure.
LEMMA FailedActive ==
  ASSUME ActiveInv, FailAndContinue, active' = active, prevRse' = prevRse,
         item' = item \/ item'.name # "on"
  PROVE  ActiveInv'
<1>1. /\ current' = NoItem /\ queue' = queue
      /\ left \cup Told("off", current.cmds) \subseteq left'
  BY DEF FailAndContinue, ClearCurrentSequenceItem
<1> QED
  BY <1>1, ActiveCleared

LEMMA EndedItem ==
  ASSUME NEW ev, SendIntervalEnd(ev)
  PROVE  item' = item \/ item'.name # "on"
BY NothingOn DEF SendIntervalEnd

LEMMA PostedActive ==
  ASSUME ActiveInv,
         \/ TimerExpires \/ ResponseExpires \/ InitializeResume
         \/ \E k \in AnswerKeys, op \in Op : Ls3CtlCallback(k, op)
  PROVE  ActiveInv'
<1>1. /\ current' = current /\ queue' = queue /\ prevRse' = prevRse
      /\ left' = left /\ item' = item /\ active' = active
  BY DEF TimerExpires, ResponseExpires, InitializeResume, Ls3CtlCallback,
     seqVars, sendVars, linkVars, pathVars, history
<1> QED
  BY <1>1, ActiveSame

\* The command that is sent again turns its own source on, if any.
LEMMA OnTimerActive ==
  ASSUME ActiveInv, OnTimer, UNCHANGED <<freed, refused, pathVars, stateVars, requests>>
  PROVE  ActiveInv'
<1>1. prevRse' = prevRse
  BY DEF pathVars
<1>2. CASE /\ \E ok \in SendResults,
                 c \in {item} \cup (IF freed THEN {NoCommand} ELSE {}) : Send(c, ok)
           /\ UNCHANGED <<seqVars, item, stale, cut, left, pathSts, muteSts>>
  <2>1. PICK ok \in SendResults,
             c \in {item} \cup (IF freed THEN {NoCommand} ELSE {}) : Send(c, ok)
    BY <1>2
  <2>2. c = item \/ c.name # "on"
    BY NothingOn
  <2>3. \A p \in active' : p \in active \/ (item.name = "on" /\ p = item.path)
    BY <2>1, <2>2 DEF Send
  <2>4. current' = current /\ queue' = queue /\ left' = left /\ item' = item
    BY <1>2 DEF seqVars
  <2> QED
    BY <1>1, <2>3, <2>4, ActiveSame
<1>3. CASE /\ SendIntervalEnd(Tail(events))
           /\ FailAndContinue
           /\ UNCHANGED <<sent, active, cut, blinder>>
  BY <1>1, <1>3, EndedItem, FailedActive
<1> QED
  BY <1>2, <1>3, Zenon DEF OnTimer

LEMMA RunTimerActive ==
  ASSUME ActiveInv, RunTimer
  PROVE  ActiveInv'
<1>1. UNCHANGED <<freed, refused, pathVars, stateVars, requests>>
  BY DEF RunTimer
<1>2. CASE OnTimer
  BY <1>1, <1>2, OnTimerActive
<1>3. CASE UNCHANGED <<seqVars, timer, count, item, linkVars, stsVars, history>>
  BY <1>1, <1>3, ActiveSame DEF seqVars, linkVars, history, pathVars
<1> QED
  BY <1>2, <1>3, Zenon DEF RunTimer

LEMMA RunResponseActive ==
  ASSUME ActiveInv, RunResponse
  PROVE  ActiveInv'
BY FailedActive DEF RunResponse, sendVars, linkVars, pathVars

LEMMA RunLs3Active ==
  ASSUME ActiveInv, RunLs3Data
  PROVE  ActiveInv'
<1>1. active' = active /\ prevRse' = prevRse
  BY DEF RunLs3Data, pathVars
<1>2. CASE Matches(Head(events))
  <2>1. PICK op \in {Head(events).op} : ReceiveLs3Data(op)
    BY <1>2 DEF RunLs3Data
  <2>2. item' = item \/ item'.name # "on"
    BY <2>1, EndedItem DEF ReceiveLs3Data
  <2>3. CASE FailAndContinue
    BY <1>1, <2>2, <2>3, FailedActive
  <2>4. CASE UNCHANGED <<current, queue, left, pathSts, muteSts>>
    BY <1>1, <2>2, <2>4, ActiveSame
  <2> QED
    BY <2>1, <2>3, <2>4 DEF ReceiveLs3Data, seqVars
<1>3. CASE ~Matches(Head(events))
  BY <1>1, <1>3, ActiveSame DEF RunLs3Data, seqVars
<1> QED
  BY <1>2, <1>3

\* A suspend forgets the source that is shown, and leaves it on.
LEMMA SuspendActive ==
  ASSUME IInv, ActiveInv, FinalizeSuspend
  PROVE  ActiveInv'
<1>1. /\ current' = current /\ queue' = queue /\ item' = item /\ active' = active
      /\ left' = left \cup ({prevRse} \cap Paths)
      /\ prevRse \in Paths \cup {NoPath}
  BY DEF FinalizeSuspend, seqVars, IInv, TypeOK
<1>2. \A p : p # NoPath /\ Kept(p) => Kept(p)'
  BY <1>1 DEF Kept
<1>3. \A p : p # NoPath /\ Covered(p) => Covered(p)'
  BY <1>1, <1>2 DEF Covered
<1>4. OnsOfCurrent' /\ OnsOfQueue'
  BY <1>1, <1>2 DEF ActiveInv, OnsOfCurrent, OnsOfQueue
<1>5. OnOfItem' /\ NoPath \notin active' /\ \A p \in active' : Covered(p)'
  BY <1>1, <1>3 DEF ActiveInv, OnOfItem
<1> QED
  BY <1>4, <1>5 DEF ActiveInv

LEMMA ActiveStep ==
  ASSUME IInv, ActiveInv, [Next]_vars
  PROVE  ActiveInv'
<1>1. CASE SendCmd
  BY <1>1, SendCmdActive
<1>2. CASE SetRearPaths
  BY <1>2, SetRearPathsActive
<1>3. CASE SetFrontPath
  BY <1>3, SetFrontPathActive
<1>4. CASE \E disp \in Paths \cup {NoPath} : ActionVpathRearRseNotify(disp)
  BY <1>4, NotifyActive
<1>5. CASE \E m \in BOOLEAN : ActionMuteRearDisp(m)
  BY <1>5, MuteActive
<1>6. CASE \E type \in Rse : ActionSettingConnectedRSE(type)
  BY <1>6, ConnectedRseActive
<1>7. CASE TimerExpires \/ ResponseExpires \/ InitializeResume
           \/ \E k \in AnswerKeys, op \in Op : Ls3CtlCallback(k, op)
  BY <1>7, PostedActive
<1>8. CASE RunEvent
  BY <1>8, RunTimerActive, RunResponseActive, RunLs3Active DEF RunEvent
<1>9. CASE FinalizeSuspend
  BY <1>9, SuspendActive
<1>10. CASE UNCHANGED vars
  BY <1>10, ActiveSame DEF vars, seqVars, sendVars, linkVars, pathVars, history
<1> QED
  BY <1>1, <1>2, <1>3, <1>4, <1>5, <1>6, <1>7, <1>8, <1>9, <1>10, Zenon DEF Next

\* A source the RSE turns on is the one that is set, or will be turned off, or
\* was given up with a sequence (mvi 300-640): no order of notifications,
\* disconnections, answers and repeated commands leaves one on unnoticed.
THEOREM ActiveCorrect == Spec => []ActiveIsShownOrLeft
<1>1. Init => ActiveInv
  <2>1. Init => NoItem.cmds = <<>> /\ item.name # "on" /\ active = {}
                /\ current = NoItem /\ queue = <<>>
    BY NoItemIsNone, NothingOn DEF Init
  <2> QED
    BY <2>1, ToldEmpty DEF ActiveInv, OnsOfCurrent, OnsOfQueue, OnOfItem
<1>2. IInv /\ ActiveInv /\ [Next]_vars => ActiveInv'
  BY ActiveStep
<1>3. ActiveInv => ActiveIsShownOrLeft
  BY DEF ActiveInv, Covered, Kept, ActiveIsShownOrLeft
<1> QED
  BY <1>1, <1>2, <1>3, Invariance, PTL DEF Spec

-----------------------------------------------------------------------------
(* The MISC channel                                                        *)

AllValues == {Misc!NoValue} \cup UNION {Values[k] : k \in Misc!Kinds}
Message == [step : {"idle", "entered", "compared"}, kind : Misc!Kinds \cup {"none"},
            value : AllValues, id : Nat]
ShotRequest == [result : {"pending", "failed", "success", "cancelled"},
                by : Nat, file : Nat, alone : BOOLEAN]
Shot == [dest : Nat, timer : Nat, callback : Nat, step : {"none", "stop", "post"},
         events : Seq(Nat), requests : Seq(ShotRequest), asked : SUBSET Nat,
         snapshot : Nat]

MessagesTyped ==
  /\ topic \subseteq Misc!Kinds /\ power \in {"on", "falling", "off", "rising"}
  /\ callback \in Message /\ received \in Seq(Message)
  /\ callback.kind = "none" <=> callback.step = "idle"

\* The shot's record is what it should be by itself.
ShotTyped(s) ==
  /\ s \in Shot
  /\ s.dest # Misc!Nobody => s.dest \in DOMAIN s.requests
  /\ \A i \in DOMAIN s.requests : s.requests[i].result = "pending" <=> i = s.dest
  /\ s.timer \in {Misc!Nobody, s.dest}
  /\ s.step = "none" <=> s.callback = Misc!Nobody

\* A request that ended, and was alone, ended by its own.
EndedByOwn(s) ==
  \A i \in DOMAIN s.requests :
    s.requests[i].alone =>
      /\ s.requests[i].by \in {Misc!Nobody, i}
      /\ s.requests[i].result = "success"
           => s.requests[i].by = i /\ s.requests[i].file = i

\* What may end the open request, d, is its own.
OwnMessage(e, s) ==
  e.kind = "shot" => e.id = s.dest /\ (e.value = "00" => s.snapshot = s.dest)
OwnTimer(s) ==
  /\ s.asked \subseteq {s.dest} /\ s.callback \in {Misc!Nobody, s.dest}
  /\ \A j \in DOMAIN s.events : s.events[j] = s.dest
OpenAlone(s) == s.dest # Misc!Nobody /\ s.requests[s.dest].alone
OpenIsOwn ==
  OpenAlone(shot) =>
    /\ OwnTimer(shot) /\ OwnMessage(callback, shot)
    /\ \A j \in DOMAIN received : OwnMessage(received[j], shot)

OpenWillEnd ==
  /\ power \in {"off", "rising"} => shot.dest = Misc!Nobody
  /\ power = "on" /\ shot.dest # Misc!Nobody =>
       shot.timer = shot.dest \/ shot.callback # Misc!Nobody \/ shot.events # <<>>

ShotInv ==
  /\ MessagesTyped
  /\ ShotTyped(shot) /\ EndedByOwn(shot)
  /\ OpenIsOwn /\ OpenWillEnd

-----------------------------------------------------------------------------
(* The operators on the record of the screen shot                          *)

LEMMA ShotFields ==
  ASSUME NEW s, ShotTyped(s)
  PROVE  /\ s \in Shot
         /\ s.dest \in Nat /\ s.timer \in Nat /\ s.callback \in Nat
         /\ s.step \in {"none", "stop", "post"}
         /\ s.events \in Seq(Nat) /\ s.requests \in Seq(ShotRequest)
         /\ s.asked \in SUBSET Nat /\ s.snapshot \in Nat
BY DEF ShotTyped, Shot

\* All but one field stay as they are.
LEMMA DestSet ==
  ASSUME NEW s \in Shot, NEW id \in Nat, NEW r, r = Misc!SetDestFilePath(s, id)
  PROVE  /\ r \in Shot /\ r.dest = id
         /\ r.timer = s.timer /\ r.callback = s.callback /\ r.step = s.step
         /\ r.events = s.events /\ r.requests = s.requests /\ r.asked = s.asked
         /\ r.snapshot = s.snapshot
BY DEF Misc!SetDestFilePath, Shot

LEMMA TimerSet ==
  ASSUME NEW s \in Shot, NEW id \in Nat, NEW r, r = [s EXCEPT !.timer = id]
  PROVE  /\ r \in Shot /\ r.timer = id
         /\ r.dest = s.dest /\ r.callback = s.callback /\ r.step = s.step
         /\ r.events = s.events /\ r.requests = s.requests /\ r.asked = s.asked
         /\ r.snapshot = s.snapshot
BY DEF Shot

LEMMA RequestsSet ==
  ASSUME NEW s \in Shot, NEW Q \in Seq(ShotRequest), NEW r,
         r = [s EXCEPT !.requests = Q]
  PROVE  /\ r \in Shot /\ r.requests = Q
         /\ r.dest = s.dest /\ r.callback = s.callback /\ r.step = s.step
         /\ r.events = s.events /\ r.timer = s.timer /\ r.asked = s.asked
         /\ r.snapshot = s.snapshot
BY DEF Shot

\* An answer or a timer ends the request that is open.
LEMMA ShotEnded ==
  ASSUME NEW s, ShotTyped(s), s.dest # Misc!Nobody,
         NEW success \in BOOLEAN, NEW by \in Nat, NEW copied \in BOOLEAN,
         NEW r, r = Misc!NotifyScreenShotMiconResponse(s, success, by, copied)
  PROVE  /\ ShotTyped(r) /\ r.dest = Misc!Nobody /\ r.timer = Misc!Nobody
         /\ r.callback = s.callback /\ r.step = s.step
         /\ r.events = s.events /\ r.asked = s.asked /\ r.snapshot = s.snapshot
         /\ DOMAIN r.requests = DOMAIN s.requests
         /\ \A i \in DOMAIN s.requests : i # s.dest => r.requests[i] = s.requests[i]
         /\ r.requests[s.dest].alone = s.requests[s.dest].alone
         /\ r.requests[s.dest].by = by
         /\ r.requests[s.dest].result = "success"
              => success /\ r.requests[s.dest].file = s.snapshot
<1> DEFINE d == s.dest
           q == s.requests[d]
           f == IF success THEN Misc!CopyScreenShot(s, copied) ELSE Misc!Nobody
           result == IF success /\ copied THEN "success" ELSE "failed"
           n == [q EXCEPT !.result = result, !.by = by, !.file = f]
           Q == [s.requests EXCEPT ![d] = n]
<1>1. /\ d \in DOMAIN s.requests /\ d \in Nat /\ s.requests \in Seq(ShotRequest)
      /\ \A i \in DOMAIN s.requests : i \in 1..Len(s.requests)
  BY ShotFields DEF ShotTyped
<1>2. q \in ShotRequest
  BY <1>1
<1>3. f \in Nat /\ (result = "success" => success /\ f = s.snapshot)
      /\ result \in {"failed", "success"}
  BY ShotFields DEF Misc!CopyScreenShot, Misc!Nobody
<1>4. r = Misc!SetDestFilePath(Misc!StopTimer([s EXCEPT !.requests[d] = n]), Misc!Nobody)
  BY DEF Misc!NotifyScreenShotMiconResponse
<1> HIDE DEF q, f, result
<1>5. /\ n \in ShotRequest /\ n.result = result /\ n.by = by /\ n.file = f
      /\ n.alone = q.alone
  BY <1>2, <1>3 DEF ShotRequest
<1> HIDE DEF n
<1>6. /\ Q \in Seq(ShotRequest) /\ DOMAIN Q = DOMAIN s.requests /\ Q[d] = n
      /\ \A i \in DOMAIN s.requests : i # d => Q[i] = s.requests[i]
  BY <1>1, <1>5
<1>7. [s EXCEPT !.requests[d] = n] = [s EXCEPT !.requests = Q]
  BY ShotFields
<1> HIDE DEF Q
<1>8. /\ r \in Shot /\ r.dest = Misc!Nobody /\ r.timer = Misc!Nobody
      /\ r.callback = s.callback /\ r.step = s.step /\ r.events = s.events
      /\ r.requests = Q /\ r.asked = s.asked /\ r.snapshot = s.snapshot
  <2> DEFINE a == [s EXCEPT !.requests = Q]
             b == [a EXCEPT !.timer = Misc!Nobody]
  <2>1. r = Misc!SetDestFilePath(b, Misc!Nobody) /\ Misc!Nobody \in Nat
    BY <1>4, <1>7 DEF Misc!StopTimer, Misc!Nobody
  <2>2. /\ a \in Shot /\ a.requests = Q /\ a.callback = s.callback
        /\ a.step = s.step /\ a.events = s.events /\ a.asked = s.asked
        /\ a.snapshot = s.snapshot
    BY <1>6, ShotFields, RequestsSet
  <2> HIDE DEF a
  <2>3. /\ b \in Shot /\ b.timer = Misc!Nobody /\ b.requests = Q
        /\ b.callback = s.callback /\ b.step = s.step /\ b.events = s.events
        /\ b.asked = s.asked /\ b.snapshot = s.snapshot
    BY <2>1, <2>2, TimerSet
  <2> HIDE DEF b
  <2> QED
    BY <2>1, <2>3, DestSet
<1>9. \A i \in DOMAIN Q : Q[i].result # "pending" /\ i # Misc!Nobody
  <2>1. \A i \in DOMAIN s.requests : i # Misc!Nobody
    BY <1>1 DEF Misc!Nobody
  <2> QED
    BY <1>3, <1>5, <1>6, <2>1 DEF ShotTyped
<1>10. ShotTyped(r)
  BY <1>8, <1>9 DEF ShotTyped
<1> QED
  BY <1>3, <1>5, <1>6, <1>8, <1>10 DEF q

\* What is asked for is open, under its own timer, or has failed.
LEMMA ShotRequested ==
  ASSUME NEW s, ShotTyped(s), s.dest = Misc!Nobody, NEW alone \in BOOLEAN,
         NEW how \in {"param", "send", "timer", "ok"},
         NEW r, r = Misc!SendScreenShotRequest(s, how, alone)
  PROVE  /\ ShotTyped(r)
         /\ r.callback = s.callback /\ r.step = s.step
         /\ r.events = s.events /\ r.snapshot = s.snapshot
         /\ DOMAIN s.requests \subseteq DOMAIN r.requests
         /\ \A i \in DOMAIN s.requests : r.requests[i] = s.requests[i]
         /\ \A i \in DOMAIN r.requests \ DOMAIN s.requests :
              /\ r.requests[i].alone = alone /\ r.requests[i].by = Misc!Nobody
              /\ r.requests[i].result # "success"
              /\ r.asked \subseteq s.asked \cup {i}
              /\ r.dest # Misc!Nobody => r.dest = i /\ r.timer = i
         /\ r.dest # Misc!Nobody => r.dest \notin DOMAIN s.requests
<1> DEFINE id == Len(s.requests) + 1
           n == Misc!Request(IF how = "ok" THEN "pending" ELSE "failed", alone)
           Q == Append(s.requests, n)
           new == [s EXCEPT !.requests = Q]
           set == Misc!SetDestFilePath(new, id)
           asking == [set EXCEPT !.asked = @ \cup {id}]
<1>1. /\ n \in ShotRequest /\ n.alone = alone /\ n.by = Misc!Nobody
      /\ n.result = IF how = "ok" THEN "pending" ELSE "failed"
  BY DEF Misc!Request, ShotRequest, Misc!Nobody
<1>2. s \in Shot /\ s.requests \in Seq(ShotRequest) /\ Len(s.requests) \in Nat
      /\ DOMAIN s.requests = 1..Len(s.requests)
      /\ id \in Nat /\ id # Misc!Nobody /\ Misc!Nobody \in Nat
  BY ShotFields DEF Misc!Nobody
<1>3. r = CASE how = "param" -> Misc!SetDestFilePath(new, Misc!Nobody)
            [] how = "send"  -> Misc!SetDestFilePath(set, Misc!Nobody)
            [] how = "timer" -> Misc!SetDestFilePath(asking, Misc!Nobody)
            [] how = "ok"    -> [asking EXCEPT !.timer = asking.dest]
  <2>1. [s EXCEPT !.requests = Append(@, n)] = new
    OBVIOUS
  <2> HIDE DEF n
  <2> QED
    BY <2>1 DEF Misc!SendScreenShotRequest, Misc!Sent, Misc!StartTimer, n
<1> HIDE DEF n
<1>4. /\ Q \in Seq(ShotRequest) /\ DOMAIN Q = 1..id /\ Q[id] = n
      /\ \A i \in 1..Len(s.requests) : Q[i] = s.requests[i]
  <2>1. Q \in Seq(ShotRequest) /\ Len(Q) = id /\ Q[id] = n
        /\ \A i \in 1..Len(s.requests) : Q[i] = s.requests[i]
    BY <1>1, <1>2, AppendProperties
  <2> QED
    BY <1>2, <2>1
<1> HIDE DEF Q
<1>5. /\ new \in Shot /\ new.requests = Q /\ new.timer = Misc!Nobody
      /\ new.callback = s.callback /\ new.step = s.step /\ new.events = s.events
      /\ new.asked = s.asked /\ new.snapshot = s.snapshot
  <2>1. s.timer = Misc!Nobody
    BY DEF ShotTyped
  <2> QED
    BY <1>2, <1>4, <2>1, RequestsSet
<1> HIDE DEF new
<1>6. /\ set \in Shot /\ set.requests = Q /\ set.timer = Misc!Nobody
      /\ set.callback = s.callback /\ set.step = s.step /\ set.events = s.events
      /\ set.asked = s.asked /\ set.snapshot = s.snapshot /\ set.dest = id
  <2>1. /\ set \in Shot /\ set.dest = id /\ set.timer = new.timer
        /\ set.callback = new.callback /\ set.step = new.step
        /\ set.events = new.events /\ set.requests = new.requests
        /\ set.asked = new.asked /\ set.snapshot = new.snapshot
    <3>1. new \in Shot /\ id \in Nat
      BY <1>2, <1>5
    <3> QED
      BY <3>1, DestSet
  <2> QED
    BY <1>5, <2>1
<1> HIDE DEF set
<1>7. /\ asking \in Shot /\ asking.requests = Q /\ asking.timer = Misc!Nobody
      /\ asking.callback = s.callback /\ asking.step = s.step
      /\ asking.events = s.events /\ asking.asked = s.asked \cup {id}
      /\ asking.snapshot = s.snapshot /\ asking.dest = id
  BY <1>2, <1>6 DEF Shot
<1> HIDE DEF asking, id
<1>8. /\ r \in Shot /\ r.requests = Q /\ r.callback = s.callback
      /\ r.step = s.step /\ r.events = s.events /\ r.snapshot = s.snapshot
      /\ r.asked \subseteq s.asked \cup {id}
      /\ IF how = "ok" THEN r.dest = id /\ r.timer = id
                       ELSE r.dest = Misc!Nobody /\ r.timer = Misc!Nobody
  <2>1. CASE how = "param"
    <3>1. r = Misc!SetDestFilePath(new, Misc!Nobody)
      BY <1>3, <2>1
    <3>2. /\ r \in Shot /\ r.dest = Misc!Nobody /\ r.timer = new.timer
          /\ r.callback = new.callback /\ r.step = new.step
          /\ r.events = new.events /\ r.requests = new.requests
          /\ r.asked = new.asked /\ r.snapshot = new.snapshot
      <4>1. new \in Shot /\ Misc!Nobody \in Nat
        BY <1>2, <1>5
      <4> QED
        BY <3>1, <4>1, DestSet
    <3> QED
      BY <1>5, <2>1, <3>2
  <2>2. CASE how = "send"
    <3>1. r = Misc!SetDestFilePath(set, Misc!Nobody)
      BY <1>3, <2>2
    <3>2. /\ r \in Shot /\ r.dest = Misc!Nobody /\ r.timer = set.timer
          /\ r.callback = set.callback /\ r.step = set.step
          /\ r.events = set.events /\ r.requests = set.requests
          /\ r.asked = set.asked /\ r.snapshot = set.snapshot
      <4>1. set \in Shot /\ Misc!Nobody \in Nat
        BY <1>2, <1>6
      <4> QED
        BY <3>1, <4>1, DestSet
    <3> QED
      BY <1>6, <2>2, <3>2
  <2>3. CASE how = "timer"
    <3>1. r = Misc!SetDestFilePath(asking, Misc!Nobody)
      BY <1>3, <2>3
    <3>2. /\ r \in Shot /\ r.dest = Misc!Nobody /\ r.timer = asking.timer
          /\ r.callback = asking.callback /\ r.step = asking.step
          /\ r.events = asking.events /\ r.requests = asking.requests
          /\ r.asked = asking.asked /\ r.snapshot = asking.snapshot
      <4>1. asking \in Shot /\ Misc!Nobody \in Nat
        BY <1>2, <1>7
      <4> QED
        BY <3>1, <4>1, DestSet
    <3> QED
      BY <1>7, <2>3, <3>2
  <2>4. CASE how = "ok"
    <3>1. r = [asking EXCEPT !.timer = id]
      BY <1>3, <1>7, <2>4
    <3> QED
      BY <1>2, <1>7, <2>4, <3>1, TimerSet
  <2> QED
    BY <2>1, <2>2, <2>3, <2>4
<1>9. 1..id = 1..Len(s.requests) \cup {id} /\ id \notin 1..Len(s.requests)
  BY <1>2 DEF id
<1>10. ShotTyped(r)
  <2>1. \A i \in 1..Len(s.requests) : i # Misc!Nobody /\ s.requests[i].result # "pending"
    <3>1. \A i \in 1..Len(s.requests) : i # Misc!Nobody
      BY DEF Misc!Nobody
    <3> QED
      BY <1>2, <3>1 DEF ShotTyped
  <2>2. \A i \in DOMAIN r.requests : r.requests[i].result = "pending" <=> i = r.dest
    BY <1>1, <1>2, <1>4, <1>8, <1>9, <2>1
  <2>3. r.step = "none" <=> r.callback = Misc!Nobody
    BY <1>8 DEF ShotTyped
  <2> QED
    BY <1>2, <1>4, <1>8, <1>9, <2>2, <2>3 DEF ShotTyped
<1> QED
  BY <1>1, <1>2, <1>4, <1>8, <1>9, <1>10

-----------------------------------------------------------------------------
(* Messages                                                                *)

LEMMA IdleTyped ==
  Misc!Idle \in Message /\ Misc!Idle.kind = "none" /\ Misc!Idle.step = "idle"
BY DEF Misc!Idle, Message, AllValues, Misc!NoValue, Misc!Nobody

LEMMA SendsMessage ==
  ASSUME Misc!MiscAssumption, MessagesTyped, NEW k \in topic, NEW v \in Values[k],
         Misc!MiconSends(k, v)
  PROVE  MessagesTyped' /\ callback'.kind # "shot"
<1>1. callback' = [step |-> "entered", kind |-> k, value |-> v, id |-> Misc!Nobody]
      /\ k # "shot" /\ k \in Misc!Kinds /\ k # "none"
  BY DEF Misc!MiconSends, MessagesTyped, Misc!MiscAssumption
<1>2. v \in AllValues
  BY <1>1 DEF AllValues
<1>3. callback' \in Message
  BY <1>1, <1>2 DEF Message, Misc!Nobody
<1> QED
  BY <1>1, <1>3 DEF Misc!MiconSends, MessagesTyped

LEMMA ComparesMessage ==
  ASSUME MessagesTyped, Misc!CallbackCompares
  PROVE  /\ MessagesTyped' /\ callback.step = "entered"
         /\ \/ callback' = Misc!Idle
            \/ /\ callback'.kind = callback.kind
               /\ callback'.value = callback.value /\ callback'.id = callback.id
               /\ callback'.step = "compared"
<1>1. callback' = Misc!Idle \/ callback' = [callback EXCEPT !.step = "compared"]
  BY DEF Misc!CallbackCompares
<1>2. CASE callback' = Misc!Idle
  BY <1>2, IdleTyped DEF Misc!CallbackCompares, MessagesTyped
<1>3. CASE callback' = [callback EXCEPT !.step = "compared"]
  <2>1. /\ callback'.kind = callback.kind /\ callback' \in Message
        /\ callback'.value = callback.value /\ callback'.id = callback.id
        /\ callback'.step = "compared"
    BY <1>3 DEF MessagesTyped, Message
  <2> QED
    BY <2>1 DEF Misc!CallbackCompares, MessagesTyped
<1> QED
  BY <1>1, <1>2, <1>3

LEMMA PostsMessage ==
  ASSUME MessagesTyped, Misc!NotifyReceiveEvent
  PROVE  /\ MessagesTyped' /\ callback' = Misc!Idle
         /\ received' = received \/ received' = Append(received, callback)
         /\ \A i \in DOMAIN received' :
              \/ received'[i] = callback
              \/ i \in DOMAIN received /\ received'[i] = received[i]
<1>1. callback' = Misc!Idle
      /\ (received' = received \/ received' = Append(received, callback))
  BY DEF Misc!NotifyReceiveEvent
<1>2. callback \in Message /\ received \in Seq(Message)
  BY DEF MessagesTyped
<1>3. /\ Append(received, callback) \in Seq(Message)
      /\ \A i \in DOMAIN Append(received, callback) :
           \/ Append(received, callback)[i] = callback
           \/ i \in DOMAIN received /\ Append(received, callback)[i] = received[i]
  BY <1>2, AppendProperties
<1> QED
  BY <1>1, <1>2, <1>3, IdleTyped DEF Misc!NotifyReceiveEvent, MessagesTyped

LEMMA TakesMessage ==
  ASSUME MessagesTyped, received # <<>>
  PROVE  /\ Tail(received) \in Seq(Message)
         /\ Head(received) \in Message
         /\ 1 \in DOMAIN received /\ Head(received) = received[1]
         /\ \A i \in DOMAIN Tail(received) :
              /\ i + 1 \in DOMAIN received
              /\ Tail(received)[i] = received[i + 1]
<1>1. received \in Seq(Message)
  BY DEF MessagesTyped
<1>2. /\ Tail(received) \in Seq(Message) /\ 1 \in DOMAIN received
      /\ Head(received) = received[1]
      /\ \A i \in DOMAIN Tail(received) :
              /\ i + 1 \in DOMAIN received
              /\ Tail(received)[i] = received[i + 1]
  BY <1>1
<1> QED
  BY <1>1, <1>2

-----------------------------------------------------------------------------
(* What ends a request for a screen shot                                   *)

\* The record of the shot stays, and no answer to it is added.
LEMMA ShotSame ==
  ASSUME ShotInv, MessagesTyped', shot' = shot,
         power' = power \/ power' = "falling"
           \/ (power' \in {"on", "rising"} /\ power \in {"off", "rising"}),
         OpenAlone(shot) =>
           /\ callback'.kind # "shot" \/ OwnMessage(callback', shot)
           /\ \A i \in DOMAIN received' : OwnMessage(received'[i], shot)
  PROVE  ShotInv'
<1>1. OpenIsOwn'
  BY DEF ShotInv, OpenIsOwn, OwnMessage
<1>2. OpenWillEnd'
  BY DEF ShotInv, OpenWillEnd
<1> QED
  BY <1>1, <1>2 DEF ShotInv

LEMMA SendsShot ==
  ASSUME Misc!MiscAssumption, ShotInv, NEW k \in topic, NEW v \in Values[k],
         Misc!MiconSends(k, v)
  PROVE  ShotInv'
<1>1. MessagesTyped' /\ callback'.kind # "shot"
  BY SendsMessage DEF ShotInv
<1>2. shot' = shot /\ power' = power /\ received' = received
  BY DEF Misc!MiconSends
<1>3. OpenAlone(shot) => \A i \in DOMAIN received' : OwnMessage(received'[i], shot)
  BY <1>2 DEF ShotInv, OpenIsOwn
<1> QED
  BY <1>1, <1>2, <1>3, ShotSame

LEMMA ComparesShot ==
  ASSUME ShotInv, Misc!CallbackCompares
  PROVE  ShotInv'
<1>1. /\ MessagesTyped'
      /\ \/ callback' = Misc!Idle
         \/ /\ callback'.kind = callback.kind
            /\ callback'.value = callback.value /\ callback'.id = callback.id
  BY ComparesMessage DEF ShotInv
<1>2. shot' = shot /\ power' = power /\ received' = received
  BY DEF Misc!CallbackCompares
<1>3. OpenAlone(shot) => callback'.kind # "shot" \/ OwnMessage(callback', shot)
  BY <1>1, IdleTyped DEF ShotInv, OpenIsOwn, OwnMessage
<1>4. OpenAlone(shot) => \A i \in DOMAIN received' : OwnMessage(received'[i], shot)
  BY <1>2 DEF ShotInv, OpenIsOwn
<1> QED
  BY <1>1, <1>2, <1>3, <1>4, ShotSame

LEMMA PostsShot ==
  ASSUME ShotInv, Misc!NotifyReceiveEvent
  PROVE  ShotInv'
<1>1. /\ MessagesTyped' /\ callback'.kind # "shot"
      /\ \A i \in DOMAIN received' :
           \/ received'[i] = callback
           \/ i \in DOMAIN received /\ received'[i] = received[i]
  BY PostsMessage, IdleTyped DEF ShotInv
<1>2. shot' = shot /\ power' = power
  BY DEF Misc!NotifyReceiveEvent
<1>3. OpenAlone(shot) => \A i \in DOMAIN received' : OwnMessage(received'[i], shot)
  BY <1>1 DEF ShotInv, OpenIsOwn
<1> QED
  BY <1>1, <1>2, <1>3, ShotSame

\* Nothing of the shot changes with the surface or with the power.
LEMMA OthersShot ==
  ASSUME ShotInv,
         Misc!MuteSurfaceChanges \/ Misc!MuteSurfaceEvent \/ Misc!SetSuspend \/ Misc!ResumeSystem
         \/ \E done \in SUBSET {"status", "exec", "ccm", "data"} : Misc!InitializeMisc(done)
  PROVE  ShotInv'
<1>1. /\ shot' = shot /\ callback' = callback /\ received' = received /\ topic' = topic
      /\ \/ power' = power \/ power' = "falling"
         \/ power' \in {"on", "rising"} /\ power \in {"off", "rising"}
  BY DEF Misc!MuteSurfaceChanges, Misc!MuteSurfaceEvent, Misc!SetSuspend, Misc!ResumeSystem, Misc!InitializeMisc
<1>2. MessagesTyped'
  <2>1. power' \in {"on", "falling", "off", "rising"}
    BY <1>1 DEF ShotInv, MessagesTyped
  <2> QED
    BY <1>1, <2>1 DEF ShotInv, MessagesTyped
<1>3. OpenAlone(shot) =>
        /\ callback'.kind # "shot" \/ OwnMessage(callback', shot)
        /\ \A i \in DOMAIN received' : OwnMessage(received'[i], shot)
  BY <1>1 DEF ShotInv, OpenIsOwn
<1> QED
  BY <1>1, <1>2, <1>3, ShotSame

\* The MICON answers a request, and has its picture if it succeeded.
LEMMA AnswersShot ==
  ASSUME Misc!MiscAssumption, ShotInv, NEW id \in shot.asked, NEW v \in Values["shot"],
         Misc!MiconAnswers(id, v)
  PROVE  ShotInv'
<1> DEFINE s == shot
<1>1. s \in Shot /\ ShotTyped(s) /\ id \in Nat /\ s.snapshot \in Nat
      /\ s.asked \in SUBSET Nat
  BY ShotFields DEF ShotInv
<1>2. /\ shot' \in Shot /\ shot'.asked = s.asked \ {id}
      /\ shot'.snapshot = IF v = "00" THEN id ELSE s.snapshot
      /\ shot'.dest = s.dest /\ shot'.timer = s.timer
      /\ shot'.callback = s.callback /\ shot'.step = s.step
      /\ shot'.events = s.events /\ shot'.requests = s.requests
  BY <1>1 DEF Misc!MiconAnswers, Shot
<1>3. ShotTyped(shot') /\ EndedByOwn(shot')
  BY <1>2 DEF ShotInv, ShotTyped, EndedByOwn
<1>4. /\ callback' = Misc!Idle \/ callback' = [step |-> "entered", kind |-> "shot",
                                          value |-> v, id |-> id]
      /\ UNCHANGED <<power, received, topic>>
  BY DEF Misc!MiconAnswers
<1>5. MessagesTyped'
  <2>1. v \in AllValues /\ "shot" \in Misc!Kinds
    BY DEF AllValues, Misc!MiscAssumption
  <2>2. [step |-> "entered", kind |-> "shot", value |-> v, id |-> id] \in Message
    BY <1>1, <2>1 DEF Message
  <2>3. callback' \in Message /\ (callback'.kind = "none" <=> callback'.step = "idle")
    BY <1>4, <2>2, IdleTyped
  <2> QED
    BY <1>4, <2>3 DEF ShotInv, MessagesTyped
<1>6. OpenIsOwn'
  <2> SUFFICES ASSUME OpenAlone(s)
               PROVE  /\ OwnTimer(shot') /\ OwnMessage(callback', shot')
                      /\ \A j \in DOMAIN received' : OwnMessage(received'[j], shot')
    BY <1>2 DEF OpenIsOwn, OpenAlone
  <2>1. /\ OwnTimer(s) /\ OwnMessage(callback, s)
        /\ \A j \in DOMAIN received : OwnMessage(received[j], s)
    BY DEF ShotInv, OpenIsOwn
  <2>2. id = s.dest
    BY <2>1 DEF OwnTimer
  <2>3. OwnTimer(shot')
    BY <1>2, <2>1 DEF OwnTimer
  <2>4. OwnMessage(callback', shot')
    BY <1>2, <1>4, <2>2, IdleTyped DEF OwnMessage
  <2>5. \A j \in DOMAIN received' : OwnMessage(received'[j], shot')
    BY <1>2, <1>4, <2>1, <2>2 DEF OwnMessage
  <2> QED
    BY <2>3, <2>4, <2>5
<1>7. OpenWillEnd'
  BY <1>2, <1>4 DEF ShotInv, OpenWillEnd
<1> QED
  BY <1>3, <1>5, <1>6, <1>7 DEF ShotInv

\* The request that was open has ended by its own if nothing else was there to
\* end it.
LEMMA EndsByOwn ==
  ASSUME NEW s, ShotTyped(s), EndedByOwn(s), s.dest # Misc!Nobody,
         NEW success \in BOOLEAN, NEW by \in Nat, NEW copied \in BOOLEAN,
         NEW r, r = Misc!NotifyScreenShotMiconResponse(s, success, by, copied),
         OpenAlone(s) => by = s.dest /\ (success => s.snapshot = s.dest)
  PROVE  ShotTyped(r) /\ EndedByOwn(r) /\ r.dest = Misc!Nobody
<1>1. /\ ShotTyped(r) /\ r.dest = Misc!Nobody
      /\ DOMAIN r.requests = DOMAIN s.requests
      /\ \A i \in DOMAIN s.requests : i # s.dest => r.requests[i] = s.requests[i]
      /\ r.requests[s.dest].alone = s.requests[s.dest].alone
      /\ r.requests[s.dest].by = by
      /\ r.requests[s.dest].result = "success"
           => success /\ r.requests[s.dest].file = s.snapshot
  BY ShotEnded
<1>2. ASSUME NEW i \in DOMAIN r.requests, r.requests[i].alone
      PROVE  /\ r.requests[i].by \in {Misc!Nobody, i}
             /\ r.requests[i].result = "success"
                  => r.requests[i].by = i /\ r.requests[i].file = i
  <2>1. CASE i # s.dest
    BY <1>1, <1>2, <2>1 DEF EndedByOwn
  <2>2. CASE i = s.dest
    <3>1. by = i /\ (success => s.snapshot = i)
      BY <1>1, <1>2, <2>2 DEF OpenAlone
    <3> QED
      BY <1>1, <2>2, <3>1
  <2> QED
    BY <2>1, <2>2
<1> QED
  BY <1>1, <1>2 DEF EndedByOwn

LEMMA NoneOpen ==
  ASSUME MessagesTyped', ShotTyped(shot'), EndedByOwn(shot'), shot'.dest = Misc!Nobody
  PROVE  ShotInv'
BY DEF ShotInv, OpenIsOwn, OpenAlone, OpenWillEnd

LEMMA ExecutesShot ==
  ASSUME ShotInv, NEW rejected, NEW copied \in BOOLEAN,
         Misc!ExecReceiveEvent(rejected, copied)
  PROVE  ShotInv'
<1> DEFINE e == Head(received)
<1>1. /\ received' = Tail(received) /\ callback' = callback /\ power' = power
      /\ power = "on" /\ topic' = topic /\ received # <<>>
  BY DEF Misc!ExecReceiveEvent, Misc!Awake
<1>2. /\ Tail(received) \in Seq(Message) /\ e \in Message
      /\ 1 \in DOMAIN received /\ e = received[1]
      /\ \A i \in DOMAIN Tail(received) :
           i + 1 \in DOMAIN received /\ Tail(received)[i] = received[i + 1]
  BY <1>1, TakesMessage DEF ShotInv
<1>3. MessagesTyped'
  BY <1>1, <1>2 DEF ShotInv, MessagesTyped
<1>4. OpenAlone(shot) =>
        /\ callback.kind # "shot" \/ OwnMessage(callback, shot)
        /\ OwnMessage(e, shot)
        /\ \A i \in DOMAIN received' : OwnMessage(received'[i], shot)
  BY <1>1, <1>2 DEF ShotInv, OpenIsOwn
<1>5. CASE shot' = shot
  BY <1>1, <1>3, <1>4, <1>5, ShotSame
<1>6. CASE e.kind = "shot" /\ shot.dest # Misc!Nobody
           /\ shot' = Misc!NotifyScreenShotMiconResponse(shot, e.value = "00", e.id, copied)
  <2> DEFINE success == e.value = "00"
  <2>1. success \in BOOLEAN /\ e.id \in Nat
    BY <1>2 DEF Message
  <2>2. OpenAlone(shot) => e.id = shot.dest /\ (success => shot.snapshot = shot.dest)
    BY <1>4, <1>6 DEF OwnMessage
  <2>3. shot' = Misc!NotifyScreenShotMiconResponse(shot, success, e.id, copied)
    BY <1>6
  <2> HIDE DEF success, e
  <2>4. ShotTyped(shot') /\ EndedByOwn(shot') /\ shot'.dest = Misc!Nobody
    BY <1>6, <2>1, <2>2, <2>3, EndsByOwn DEF ShotInv
  <2> QED
    BY <1>3, <2>4, NoneOpen
<1>7. shot' = shot \/ (e.kind = "shot" /\ shot.dest # Misc!Nobody
        /\ shot' = Misc!NotifyScreenShotMiconResponse(shot, e.value = "00", e.id, copied))
  <2>1. shot' = IF e.kind = "shot" /\ e.value # "short"
                THEN Misc!NotifyScreenShotMiconResponse(shot, e.value = "00", e.id, copied)
                ELSE shot
    BY DEF Misc!ExecReceiveEvent
  <2>2. shot.dest = Misc!Nobody =>
          Misc!NotifyScreenShotMiconResponse(shot, e.value = "00", e.id, copied) = shot
    BY Zenon DEF Misc!NotifyScreenShotMiconResponse
  <2> QED
    BY <2>1, <2>2, Zenon
<1> QED
  BY <1>5, <1>6, <1>7

LEMMA CapturesShot ==
  ASSUME ShotInv, NEW screen, NEW path, NEW busy, NEW taken, NEW timed,
         Misc!ActionScreenCapture(screen, path, busy, taken, timed)
  PROVE  ShotInv'
<1>1. /\ shot.dest = Misc!Nobody /\ power = "on"
      /\ UNCHANGED <<power, callback, received, topic>>
      /\ \E how \in {"param", "send", "timer", "ok"} :
           shot' = Misc!SendScreenShotRequest(shot, how, Misc!NoAnswerUnderWay)
  BY DEF Misc!ActionScreenCapture, Misc!GetDestFilePath, Misc!Awake
<1>2. PICK how \in {"param", "send", "timer", "ok"} :
        shot' = Misc!SendScreenShotRequest(shot, how, Misc!NoAnswerUnderWay)
  BY <1>1
<1>3. PICK alone \in BOOLEAN : alone = Misc!NoAnswerUnderWay
  BY DEF Misc!NoAnswerUnderWay
<1>4. MessagesTyped'
  BY <1>1 DEF ShotInv, MessagesTyped
<1>5. shot' = Misc!SendScreenShotRequest(shot, how, alone)
  BY <1>2, <1>3, Zenon
<1>6. /\ ShotTyped(shot')
      /\ shot'.callback = shot.callback /\ shot'.step = shot.step
      /\ shot'.events = shot.events /\ shot'.snapshot = shot.snapshot
      /\ DOMAIN shot.requests \subseteq DOMAIN shot'.requests
      /\ \A i \in DOMAIN shot.requests : shot'.requests[i] = shot.requests[i]
      /\ \A i \in DOMAIN shot'.requests \ DOMAIN shot.requests :
           /\ shot'.requests[i].alone = alone /\ shot'.requests[i].by = Misc!Nobody
           /\ shot'.requests[i].result # "success"
           /\ shot'.asked \subseteq shot.asked \cup {i}
           /\ shot'.dest # Misc!Nobody => shot'.dest = i /\ shot'.timer = i
      /\ shot'.dest # Misc!Nobody => shot'.dest \notin DOMAIN shot.requests
  <2>1. ShotTyped(shot)
    BY DEF ShotInv
  <2> QED
    BY <1>1, <1>5, <2>1, ShotRequested
<1>7. EndedByOwn(shot')
  BY <1>6 DEF ShotInv, EndedByOwn
<1>8. shot'.dest # Misc!Nobody => shot'.dest \in DOMAIN shot'.requests \ DOMAIN shot.requests
  BY <1>6 DEF ShotTyped
<1>9. OpenIsOwn'
  <2> SUFFICES ASSUME OpenAlone(shot')
               PROVE  /\ OwnTimer(shot') /\ OwnMessage(callback', shot')
                      /\ \A j \in DOMAIN received' : OwnMessage(received'[j], shot')
    BY DEF OpenIsOwn
  <2>1. shot'.dest # Misc!Nobody /\ Misc!NoAnswerUnderWay
    BY <1>3, <1>6, <1>8 DEF OpenAlone
  <2>2. /\ shot.asked = {} /\ shot.callback = Misc!Nobody /\ shot.events = <<>>
        /\ callback.kind # "shot"
        /\ \A i \in DOMAIN received : received[i].kind # "shot"
    BY <2>1 DEF Misc!NoAnswerUnderWay, Misc!Alone
  <2>3. OwnTimer(shot')
    BY <1>6, <1>8, <2>1, <2>2 DEF OwnTimer
  <2> QED
    BY <1>1, <2>2, <2>3 DEF OwnMessage
<1>10. OpenWillEnd'
  BY <1>1, <1>6, <1>8 DEF OpenWillEnd
<1> QED
  BY <1>4, <1>6, <1>7, <1>9, <1>10 DEF ShotInv

\* The timer's thread and the main thread take its steps.
LEMMA TimesShot ==
  ASSUME ShotInv, Misc!ShotTimerExpires \/ Misc!ShotTimerStops \/ Misc!ShotTimerPosts
  PROVE  ShotInv'
<1>1. UNCHANGED <<power, callback, received, topic>>
  BY DEF Misc!ShotTimerExpires, Misc!ShotTimerStops, Misc!ShotTimerPosts
<1>2. MessagesTyped'
  BY <1>1 DEF ShotInv, MessagesTyped
<1>3. ShotTyped(shot) /\ shot \in Shot
  BY DEF ShotInv, ShotTyped
<1>4. CASE Misc!ShotTimerExpires
  <2>1. shot.timer # Misc!Nobody /\ shot.timer = shot.dest /\ shot.step = "none"
    BY <1>3, <1>4 DEF Misc!ShotTimerExpires, ShotTyped
  <2>2. /\ shot' \in Shot /\ shot'.timer = Misc!Nobody /\ shot'.callback = shot.timer
        /\ shot'.step = "stop" /\ shot'.dest = shot.dest
        /\ shot'.events = shot.events /\ shot'.requests = shot.requests
        /\ shot'.asked = shot.asked /\ shot'.snapshot = shot.snapshot
    BY <1>3, <1>4 DEF Misc!ShotTimerExpires, Misc!Expire, Shot, Misc!Nobody
  <2>3. ShotTyped(shot') /\ EndedByOwn(shot')
    BY <2>1, <2>2 DEF ShotInv, ShotTyped, EndedByOwn
  <2>4. OpenIsOwn'
    BY <1>1, <2>1, <2>2 DEF ShotInv, OpenIsOwn, OpenAlone, OwnTimer, OwnMessage
  <2>5. OpenWillEnd'
    BY <1>1, <2>1, <2>2 DEF ShotInv, OpenWillEnd
  <2> QED
    BY <1>2, <2>3, <2>4, <2>5 DEF ShotInv
<1>5. CASE Misc!ShotTimerStops
  <2>1. shot.step = "stop" /\ shot.callback # Misc!Nobody
    BY <1>3, <1>5 DEF Misc!ShotTimerStops, ShotTyped
  <2>2. /\ shot' \in Shot /\ shot'.timer = Misc!Nobody /\ shot'.callback = shot.callback
        /\ shot'.step = "post" /\ shot'.dest = shot.dest
        /\ shot'.events = shot.events /\ shot'.requests = shot.requests
        /\ shot'.asked = shot.asked /\ shot'.snapshot = shot.snapshot
    BY <1>3, <1>5 DEF Misc!ShotTimerStops, Misc!EndTimer, Misc!StopTimer, Shot, Misc!Nobody
  <2>3. ShotTyped(shot') /\ EndedByOwn(shot')
    BY <2>1, <2>2 DEF ShotInv, ShotTyped, EndedByOwn
  <2>4. OpenIsOwn'
    BY <1>1, <2>1, <2>2 DEF ShotInv, OpenIsOwn, OpenAlone, OwnTimer, OwnMessage
  <2>5. OpenWillEnd'
    BY <1>1, <2>1, <2>2 DEF ShotInv, OpenWillEnd
  <2> QED
    BY <1>2, <2>3, <2>4, <2>5 DEF ShotInv
<1>6. CASE Misc!ShotTimerPosts
  <2>1. /\ shot.step = "post" /\ shot.callback # Misc!Nobody
        /\ shot.events \in Seq(Nat) /\ shot.callback \in Nat
    BY <1>3, <1>6 DEF Misc!ShotTimerPosts, ShotTyped, Shot
  <2> DEFINE q == IF Misc!Accepted THEN Append(shot.events, shot.callback) ELSE shot.events
  <2>2. /\ q \in Seq(Nat)
        /\ \A j \in DOMAIN q : q[j] = shot.callback
                                 \/ (j \in DOMAIN shot.events /\ q[j] = shot.events[j])
        /\ power = "on" => q # <<>>
    BY <2>1, AppendProperties DEF Misc!Accepted
  <2>3. shot' = [shot EXCEPT !.callback = Misc!Nobody, !.step = "none", !.events = q]
    BY <1>6 DEF Misc!ShotTimerPosts, Misc!PostTimeout
  <2> HIDE DEF q
  <2>4. /\ shot' \in Shot /\ shot'.timer = shot.timer /\ shot'.callback = Misc!Nobody
        /\ shot'.step = "none" /\ shot'.dest = shot.dest
        /\ shot'.events = q /\ shot'.requests = shot.requests
        /\ shot'.asked = shot.asked /\ shot'.snapshot = shot.snapshot
    BY <1>3, <2>2, <2>3 DEF Shot, Misc!Nobody
  <2>5. ShotTyped(shot') /\ EndedByOwn(shot')
    BY <2>1, <2>4 DEF ShotInv, ShotTyped, EndedByOwn
  <2>6. OpenIsOwn'
    <3> SUFFICES ASSUME OpenAlone(shot)
                 PROVE  /\ OwnTimer(shot') /\ OwnMessage(callback', shot')
                        /\ \A j \in DOMAIN received' : OwnMessage(received'[j], shot')
      BY <2>4 DEF OpenIsOwn, OpenAlone
    <3>1. /\ OwnTimer(shot) /\ OwnMessage(callback, shot)
          /\ \A j \in DOMAIN received : OwnMessage(received[j], shot)
      BY DEF ShotInv, OpenIsOwn
    <3>2. OwnTimer(shot')
      BY <2>1, <2>2, <2>4, <3>1 DEF OwnTimer
    <3>3. OwnMessage(callback', shot')
          /\ \A j \in DOMAIN received' : OwnMessage(received'[j], shot')
      BY <1>1, <2>4, <3>1 DEF OwnMessage
    <3> QED
      BY <3>2, <3>3
  <2>7. OpenWillEnd'
    BY <1>1, <2>2, <2>4 DEF ShotInv, OpenWillEnd
  <2> QED
    BY <1>2, <2>5, <2>6, <2>7 DEF ShotInv
<1> QED
  BY <1>4, <1>5, <1>6

LEMMA OnTimerShot ==
  ASSUME ShotInv, Misc!OnShotTimer
  PROVE  ShotInv'
<1> DEFINE q == Tail(shot.events)
           s == [shot EXCEPT !.events = q]
           by == Head(shot.events)
<1>1. /\ shot.events # <<>> /\ shot' = Misc!OnTimer(shot) /\ power = "on"
      /\ UNCHANGED <<power, callback, received, topic>>
  BY DEF Misc!OnShotTimer, Misc!Awake
<1>2. MessagesTyped' /\ ShotTyped(shot) /\ shot \in Shot /\ EndedByOwn(shot)
  BY <1>1 DEF ShotInv, MessagesTyped, ShotTyped
<1>3. /\ q \in Seq(Nat) /\ by \in Nat /\ 1 \in DOMAIN shot.events
      /\ by = shot.events[1]
      /\ \A j \in DOMAIN q : j + 1 \in DOMAIN shot.events /\ q[j] = shot.events[j + 1]
  <2>1. shot.events \in Seq(Nat)
    BY <1>2 DEF Shot
  <2> QED
    BY <1>1, <2>1
<1>4. shot' = Misc!NotifyScreenShotMiconResponse(s, FALSE, by, FALSE)
  BY <1>1 DEF Misc!OnTimer
<1> HIDE DEF q, by
<1>5. /\ s \in Shot /\ s.timer = shot.timer /\ s.callback = shot.callback
      /\ s.step = shot.step /\ s.dest = shot.dest
      /\ s.events = q /\ s.requests = shot.requests
      /\ s.asked = shot.asked /\ s.snapshot = shot.snapshot
  BY <1>2, <1>3 DEF Shot
<1> HIDE DEF s
<1>6. ShotTyped(s) /\ EndedByOwn(s)
  BY <1>2, <1>5 DEF ShotTyped, EndedByOwn
<1>7. OpenAlone(shot) => by = shot.dest /\ \A j \in DOMAIN q : q[j] = shot.dest
  BY <1>3 DEF ShotInv, OpenIsOwn, OwnTimer
<1>8. CASE shot.dest = Misc!Nobody
  <2>1. shot' = s
    BY <1>4, <1>5, <1>8 DEF Misc!NotifyScreenShotMiconResponse
  <2> QED
    BY <1>2, <1>5, <1>6, <1>8, <2>1, NoneOpen
<1>9. CASE shot.dest # Misc!Nobody
  <2>1. OpenAlone(s) => by = s.dest
    BY <1>5, <1>7 DEF OpenAlone
  <2>2. ShotTyped(shot') /\ EndedByOwn(shot') /\ shot'.dest = Misc!Nobody
    BY <1>3, <1>4, <1>5, <1>6, <1>9, <2>1, EndsByOwn
  <2> QED
    BY <1>2, <2>2, NoneOpen
<1> QED
  BY <1>8, <1>9

\* A suspend cancels the open request.
LEMMA SuspendsShot ==
  ASSUME ShotInv, Misc!StrSuspend
  PROVE  ShotInv'
<1> DEFINE d == shot.dest
           q == shot.requests[d]
           n == [q EXCEPT !.result = "cancelled"]
           Q == [shot.requests EXCEPT ![d] = n]
           c == Misc!CancelScreenShotRequest(shot)
<1>1. /\ received' = <<>> /\ callback' = callback /\ topic' = topic /\ power' = "off"
      /\ shot' = [c EXCEPT !.events = <<>>]
  BY DEF Misc!StrSuspend
<1>2. ShotTyped(shot) /\ shot \in Shot /\ EndedByOwn(shot)
  BY DEF ShotInv, ShotTyped
<1>3. MessagesTyped'
  <2>1. received' \in Seq(Message)
    BY <1>1
  <2> QED
    BY <1>1, <2>1 DEF ShotInv, MessagesTyped
<1>4. ShotTyped(c) /\ EndedByOwn(c) /\ c.dest = Misc!Nobody
  <2>1. CASE d = Misc!Nobody
    BY <1>2, <2>1 DEF Misc!CancelScreenShotRequest
  <2>2. CASE d # Misc!Nobody
    <3>1. /\ d \in DOMAIN shot.requests /\ shot.requests \in Seq(ShotRequest)
          /\ \A i \in DOMAIN shot.requests : i \in 1..Len(shot.requests)
      BY <1>2, <2>2 DEF ShotTyped, Shot
    <3>2. q \in ShotRequest
      BY <3>1
    <3>3. c = Misc!StopTimer(Misc!SetDestFilePath([shot EXCEPT !.requests[d].result = "cancelled"],
                                        Misc!Nobody))
      BY <2>2 DEF Misc!CancelScreenShotRequest
    <3>4. [shot EXCEPT !.requests[d].result = "cancelled"] = [shot EXCEPT !.requests = Q]
      BY <1>2 DEF Shot
    <3> HIDE DEF q, c
    <3>5. /\ n \in ShotRequest /\ n.result = "cancelled" /\ n.by = q.by
          /\ n.file = q.file /\ n.alone = q.alone
      BY <3>2 DEF ShotRequest
    <3> HIDE DEF n
    <3>6. /\ Q \in Seq(ShotRequest) /\ DOMAIN Q = DOMAIN shot.requests /\ Q[d] = n
          /\ \A i \in DOMAIN shot.requests : i # d => Q[i] = shot.requests[i]
      BY <3>1, <3>5
    <3> HIDE DEF Q
    <3> DEFINE a == [shot EXCEPT !.requests = Q]
               b == Misc!SetDestFilePath(a, Misc!Nobody)
    <3>7. c = [b EXCEPT !.timer = Misc!Nobody] /\ Misc!Nobody \in Nat
      BY <3>3, <3>4 DEF Misc!StopTimer, Misc!Nobody
    <3>8. a \in Shot /\ a.requests = Q /\ a.callback = shot.callback /\ a.step = shot.step
      BY <1>2, <3>6, RequestsSet
    <3> HIDE DEF a
    <3>9. /\ b \in Shot /\ b.requests = Q /\ b.callback = shot.callback
          /\ b.step = shot.step /\ b.dest = Misc!Nobody
      BY <3>7, <3>8, DestSet
    <3> HIDE DEF b
    <3>10. /\ c \in Shot /\ c.requests = Q /\ c.callback = shot.callback
           /\ c.step = shot.step /\ c.dest = Misc!Nobody /\ c.timer = Misc!Nobody
      BY <3>7, <3>9, TimerSet
    <3>11. \A i \in DOMAIN Q : Q[i].result # "pending" /\ i # Misc!Nobody
      <4>1. \A i \in DOMAIN shot.requests : i # Misc!Nobody
        BY <3>1 DEF Misc!Nobody
      <4> QED
        BY <1>2, <3>5, <3>6, <4>1 DEF ShotTyped
    <3>12. ShotTyped(c)
      BY <1>2, <3>10, <3>11 DEF ShotTyped
    <3>13. EndedByOwn(c)
      BY <1>2, <3>5, <3>6, <3>10 DEF EndedByOwn, q
    <3> QED
      BY <3>10, <3>12, <3>13
  <2> QED
    BY <2>1, <2>2
<1> HIDE DEF c
<1>5. /\ shot' \in Shot /\ shot'.timer = c.timer /\ shot'.callback = c.callback
      /\ shot'.step = c.step /\ shot'.dest = Misc!Nobody /\ shot'.requests = c.requests
  <2>1. c \in Shot /\ <<>> \in Seq(Nat)
    BY <1>4 DEF ShotTyped
  <2> QED
    BY <1>1, <1>4, <2>1 DEF Shot
<1>6. ShotTyped(shot') /\ EndedByOwn(shot')
  BY <1>4, <1>5 DEF ShotTyped, EndedByOwn
<1> QED
  BY <1>3, <1>5, <1>6, NoneOpen

-----------------------------------------------------------------------------
LEMMA ShotInitial ==
  ASSUME Misc!MiscAssumption, Misc!Init
  PROVE  ShotInv
<1>1. shot = Misc!ScreenShot /\ callback = Misc!Idle /\ received = <<>> /\ power = "rising"
      /\ topic \in Topics
  BY DEF Misc!Init
<1>2. MessagesTyped
  <2>1. received \in Seq(Message)
    BY <1>1
  <2> QED
    BY <1>1, <2>1, IdleTyped DEF MessagesTyped, Misc!MiscAssumption
<1>3. /\ shot \in Shot /\ shot.dest = Misc!Nobody /\ shot.timer = Misc!Nobody
      /\ shot.callback = Misc!Nobody /\ shot.step = "none" /\ shot.requests = <<>>
  <2>1. <<>> \in Seq(Nat) /\ <<>> \in Seq(ShotRequest)
    OBVIOUS
  <2> QED
    BY <1>1, <2>1 DEF Misc!ScreenShot, Shot, Misc!Nobody
<1>4. ShotTyped(shot) /\ EndedByOwn(shot)
  BY <1>3 DEF ShotTyped, EndedByOwn
<1> QED
  BY <1>2, <1>3, <1>4 DEF ShotInv, OpenIsOwn, OpenAlone, OpenWillEnd

LEMMA ShotStep ==
  ASSUME Misc!MiscAssumption, ShotInv, [Misc!Next]_(Misc!miscVars)
  PROVE  ShotInv'
<1>1. CASE \E k \in topic : \E v \in Values[k] : Misc!MiconSends(k, v)
  BY <1>1, SendsShot
<1>2. CASE \E id \in shot.asked, v \in Values["shot"] : Misc!MiconAnswers(id, v)
  BY <1>2, AnswersShot
<1>3. CASE Misc!CallbackCompares \/ Misc!NotifyReceiveEvent
  BY <1>3, ComparesShot, PostsShot
<1>4. CASE \E rejected \in SUBSET Misc!Parameters, copied \in BOOLEAN :
             Misc!ExecReceiveEvent(rejected, copied)
  BY <1>4, ExecutesShot
<1>5. CASE \E screen \in {0, 4}, path \in {"picture", "relative"},
              taken, timed \in BOOLEAN, busy \in 0..3 :
             Misc!ActionScreenCapture(screen, path, busy, taken, timed)
  BY <1>5, CapturesShot
<1>6. CASE Misc!ShotTimerExpires \/ Misc!ShotTimerStops \/ Misc!ShotTimerPosts \/ Misc!OnShotTimer
  BY <1>6, TimesShot, OnTimerShot
<1>7. CASE Misc!MuteSurfaceChanges \/ Misc!MuteSurfaceEvent \/ Misc!SetSuspend \/ Misc!ResumeSystem
           \/ \E done \in SUBSET {"status", "exec", "ccm", "data"} : Misc!InitializeMisc(done)
  BY <1>7, OthersShot
<1>8. CASE Misc!StrSuspend
  BY <1>8, SuspendsShot
<1>9. CASE UNCHANGED Misc!miscVars
  BY <1>9 DEF Misc!miscVars, ShotInv, MessagesTyped, OpenIsOwn, OpenWillEnd
<1> QED
  BY <1>1, <1>2, <1>3, <1>4, <1>5, <1>6, <1>7, <1>8, <1>9, Zenon DEF Misc!Next

\* A request for a screen shot that was alone when it was sent ends by its own answer or
\* timer and with its own picture; an open one always has a timer that will end it.
THEOREM ShotsCorrect == Misc!Spec => []ShotsEndWithTheirOwn
<1>1. Misc!Init => ShotInv
  BY ShotInitial, MiscConstants
<1>2. ShotInv /\ [Misc!Next]_(Misc!miscVars) => ShotInv'
  BY ShotStep, MiscConstants
<1>3. ShotInv => ShotsEndWithTheirOwn
  BY DEF ShotsEndWithTheirOwn, ShotInv, Misc!ShotsEndWithTheirOwn, EndedByOwn, ShotTyped, OpenWillEnd, Misc!Awake
<1> QED
  BY <1>1, <1>2, <1>3, PTL DEF Misc!Spec

-----------------------------------------------------------------------------
(* The head-up display                                                     *)

Stored == [Misc!Parameters -> AllValues]
HudRecord ==
  [available : BOOLEAN, func : BOOLEAN, black : BOOLEAN, stored : Stored,
   known : BOOLEAN, init : BOOLEAN,
   surface : {"none", "made", "added", "sized", "placed"}, shown : BOOLEAN,
   given : Stored, wanted : Stored, refused : SUBSET Misc!Parameters, taken : BOOLEAN,
   old : BOOLEAN, stale : BOOLEAN]

\* A parameter is given, was refused, or waits to be given.
Accounted(h) ==
  \A p \in Misc!Parameters :
    IF h.stored[p] = Misc!NotStored
      THEN p \in h.refused \/ h.wanted[p] \in {Misc!NotStored, h.given[p]}
      ELSE h.stored[p] = h.wanted[p]

Corrected(h) ==
  /\ Misc!IsHudStatusEnableAndBlackNoRequested(h) /\ h.taken
  /\ \A p \in Misc!Parameters \ h.refused : h.wanted[p] \in {Misc!NotStored, h.given[p]}

Covers(h) ==
  /\ h.surface # "none" => h.available
  /\ ~h.init /\ ~h.old => Corrected(h)
  /\ h.surface = "placed" /\ ~h.shown /\ ~h.stale => Corrected(h)

HudOK(h) == h \in HudRecord /\ Accounted(h) /\ Covers(h)

HudInv ==
  /\ HudOK(hud)
  /\ hud.surface = "placed" /\ power \in {"off", "rising"} => hud.shown
  /\ hudEvent # "none" => hud.available

\* What a decision of the controller leaves of the surface and of the parameters.
SameCommands(h, r) ==
  /\ r.available = h.available /\ r.func = h.func /\ r.black = h.black
  /\ r.wanted = h.wanted /\ r.surface = h.surface
SameSurface(h, r) ==
  /\ r.known = h.known /\ r.init = h.init /\ r.shown = h.shown
  /\ r.old = h.old /\ r.stale = h.stale
SameParameters(h, r) ==
  /\ r.stored = h.stored /\ r.given = h.given /\ r.refused = h.refused
  /\ r.taken = h.taken

LEMMA HudFields ==
  ASSUME NEW h \in HudRecord
  PROVE  /\ h.available \in BOOLEAN /\ h.func \in BOOLEAN /\ h.black \in BOOLEAN
         /\ h.known \in BOOLEAN /\ h.init \in BOOLEAN /\ h.shown \in BOOLEAN
         /\ h.taken \in BOOLEAN /\ h.old \in BOOLEAN /\ h.stale \in BOOLEAN
         /\ h.surface \in {"none", "made", "added", "sized", "placed"}
         /\ h.stored \in Stored /\ h.given \in Stored /\ h.wanted \in Stored
         /\ h.refused \in SUBSET Misc!Parameters
BY DEF HudRecord

LEMMA Updated ==
  ASSUME NEW f \in Stored, NEW p \in Misc!Parameters, NEW v \in AllValues
  PROVE  /\ [f EXCEPT ![p] = v] \in Stored /\ [f EXCEPT ![p] = v][p] = v
         /\ \A q \in Misc!Parameters : q # p => [f EXCEPT ![p] = v][q] = f[q]
BY DEF Stored

\* A stored parameter is given to the plugin, which takes or refuses it.
LEMMA Gives ==
  ASSUME NEW h \in HudRecord, NEW p \in Misc!Parameters,
         NEW rejected \in SUBSET Misc!Parameters, NEW r, r = Misc!Give(h, p, rejected)
  PROVE  /\ r \in HudRecord /\ SameCommands(h, r) /\ SameSurface(h, r)
         /\ r.stored[p] = Misc!NotStored
         /\ \A q \in Misc!Parameters : q # p => r.stored[q] = h.stored[q]
         /\ Accounted(h) => Accounted(r)
<1> DEFINE S == [h.stored EXCEPT ![p] = Misc!NotStored]
           G == [h.given EXCEPT ![p] = h.stored[p]]
<1>1. Misc!NotStored \in AllValues /\ h.stored[p] \in AllValues
  BY HudFields DEF Misc!NotStored, Misc!NoValue, AllValues, Stored
<1>2. /\ S \in Stored /\ S[p] = Misc!NotStored
      /\ \A q \in Misc!Parameters : q # p => S[q] = h.stored[q]
  BY <1>1, HudFields, Updated
<1>3. /\ G \in Stored /\ G[p] = h.stored[p]
      /\ \A q \in Misc!Parameters : q # p => G[q] = h.given[q]
  BY <1>1, HudFields, Updated
<1>4. CASE h.stored[p] = Misc!NotStored
  <2>1. r = [h EXCEPT !.taken = TRUE]
    BY <1>4 DEF Misc!Give
  <2>2. /\ r \in HudRecord /\ SameCommands(h, r) /\ SameSurface(h, r)
        /\ r.stored = h.stored /\ r.refused = h.refused /\ r.given = h.given
    BY <2>1 DEF HudRecord, SameCommands, SameSurface
  <2> QED
    BY <1>4, <2>2 DEF Accounted, SameCommands
<1>5. CASE h.stored[p] # Misc!NotStored /\ p \in rejected
  <2> DEFINE R == h.refused \cup {p}
  <2>1. r = [h EXCEPT !.stored = S, !.refused = R, !.taken = FALSE]
    BY <1>5 DEF Misc!Give
  <2>2. R \in SUBSET Misc!Parameters /\ p \in R /\ h.refused \subseteq R
    BY HudFields
  <2> HIDE DEF S, R
  <2>3. /\ r \in HudRecord /\ SameCommands(h, r) /\ SameSurface(h, r)
        /\ r.stored = S /\ r.refused = R /\ r.given = h.given
    BY <1>2, <2>1, <2>2 DEF HudRecord, SameCommands, SameSurface
  <2> QED
    BY <1>2, <1>5, <2>2, <2>3 DEF Accounted, SameCommands
<1>6. CASE h.stored[p] # Misc!NotStored /\ p \notin rejected
  <2> DEFINE R == h.refused \ {p}
  <2>1. r = [h EXCEPT !.stored = S, !.given = G, !.refused = R, !.taken = TRUE]
    BY <1>6 DEF Misc!Give
  <2>2. /\ R \in SUBSET Misc!Parameters
        /\ \A q \in Misc!Parameters : q # p /\ q \in h.refused => q \in R
    BY HudFields
  <2> HIDE DEF S, G, R
  <2>3. /\ r \in HudRecord /\ SameCommands(h, r) /\ SameSurface(h, r)
        /\ r.stored = S /\ r.refused = R /\ r.given = G
    <3>1. S \in Stored /\ G \in Stored /\ R \in SUBSET Misc!Parameters
      BY <1>2, <1>3, <2>2
    <3>2. r \in HudRecord
      BY <2>1, <3>1 DEF HudRecord
    <3>3. SameCommands(h, r)
      BY <2>1 DEF HudRecord, SameCommands
    <3>4. SameSurface(h, r)
      BY <2>1 DEF HudRecord, SameSurface
    <3>5. r.stored = S /\ r.refused = R /\ r.given = G
      BY <2>1 DEF HudRecord
    <3> QED
      BY <3>2, <3>3, <3>4, <3>5
  <2>4. Accounted(h) => Accounted(r)
    BY <1>2, <1>3, <1>6, <2>2, <2>3 DEF Accounted, SameCommands
  <2> QED
    BY <1>2, <2>3, <2>4
<1> QED
  BY <1>4, <1>5, <1>6

\* When the last attempt was taken nothing waits to be given.
LEMMA GivesStored ==
  ASSUME NEW h \in HudRecord, Accounted(h), NEW rejected \in SUBSET Misc!Parameters,
         NEW r, r = Misc!SetStoredHudParametersToWaylandPlugin(h, rejected)
  PROVE  /\ r \in HudRecord /\ SameCommands(h, r) /\ SameSurface(h, r)
         /\ Accounted(r)
         /\ r.taken => \A p \in Misc!Parameters : r.stored[p] = Misc!NotStored
<1> DEFINE c == Misc!Give(h, "corrections", rejected)
           t == Misc!Give(c, "rotation", rejected)
<1>1. "corrections" \in Misc!Parameters /\ "rotation" \in Misc!Parameters
      /\ \A p \in Misc!Parameters : p = "corrections" \/ p = "rotation"
  BY DEF Misc!Parameters
<1>2. /\ c \in HudRecord /\ SameCommands(h, c) /\ SameSurface(h, c) /\ Accounted(c)
      /\ c.stored["corrections"] = Misc!NotStored
  BY <1>1, Gives
<1>3. r = IF c.taken THEN t ELSE c
  BY DEF Misc!SetStoredHudParametersToWaylandPlugin
<1> HIDE DEF c
<1>4. /\ t \in HudRecord /\ SameCommands(c, t) /\ SameSurface(c, t) /\ Accounted(t)
      /\ t.stored["corrections"] = Misc!NotStored /\ t.stored["rotation"] = Misc!NotStored
  BY <1>1, <1>2, Gives
<1> HIDE DEF t
<1>5. CASE c.taken
  BY <1>1, <1>2, <1>3, <1>4, <1>5 DEF SameCommands, SameSurface
<1>6. CASE ~c.taken
  BY <1>2, <1>3, <1>6
<1> QED
  BY <1>5, <1>6

LEMMA SetsVisible ==
  ASSUME NEW h \in HudRecord, NEW on \in BOOLEAN,
         NEW r, r = Misc!SetHudMuteSurfaceVisible(h, on)
  PROVE  /\ r \in HudRecord /\ SameCommands(h, r) /\ SameParameters(h, r)
         /\ r.init = on /\ ~r.old
         /\ r.surface # "none" => r.shown = on /\ ~r.stale
         /\ r.surface = "none" => r.shown = h.shown /\ r.stale = h.stale
<1> DEFINE s == [h EXCEPT !.init = on, !.old = FALSE]
           k == [s EXCEPT !.known = TRUE]
<1>1. /\ s \in HudRecord /\ SameCommands(h, s) /\ SameParameters(h, s)
      /\ s.init = on /\ ~s.old /\ s.shown = h.shown /\ s.stale = h.stale
  BY DEF HudRecord, SameCommands, SameParameters
<1>2. r = IF Misc!IsHudMuteDisplaySurfaceEnabled(h) THEN Misc!SetBlinderEnable(k, on) ELSE s
  BY DEF Misc!SetHudMuteSurfaceVisible
<1> HIDE DEF s
<1>3. /\ k \in HudRecord /\ SameCommands(s, k) /\ SameParameters(s, k)
      /\ k.init = on /\ ~k.old /\ k.shown = h.shown /\ k.stale = h.stale
  BY <1>1 DEF HudRecord, SameCommands, SameParameters
<1> HIDE DEF k
<1>4. CASE ~Misc!IsHudMuteDisplaySurfaceEnabled(h)
  BY <1>1, <1>2, <1>4 DEF Misc!IsHudMuteDisplaySurfaceEnabled, SameCommands
<1>5. CASE Misc!IsHudMuteDisplaySurfaceEnabled(h) /\ k.surface = "none"
  BY <1>1, <1>2, <1>3, <1>5 DEF Misc!SetBlinderEnable, SameCommands, SameParameters
<1>6. CASE Misc!IsHudMuteDisplaySurfaceEnabled(h) /\ k.surface # "none"
  <2>1. r = [k EXCEPT !.shown = on, !.stale = FALSE]
    BY <1>2, <1>6 DEF Misc!SetBlinderEnable
  <2>2. /\ r \in HudRecord /\ SameCommands(k, r) /\ SameParameters(k, r)
        /\ r.init = k.init /\ r.old = k.old /\ r.shown = on /\ ~r.stale
    BY <1>3, <2>1 DEF HudRecord, SameCommands, SameParameters
  <2> QED
    BY <1>1, <1>3, <1>6, <2>2 DEF SameCommands, SameParameters
<1> QED
  BY <1>4, <1>5, <1>6

\* The cover goes only when everything is corrected.
LEMMA Decides ==
  ASSUME NEW s \in HudRecord, Accounted(s), s.available,
         NEW rejected \in SUBSET Misc!Parameters, NEW r,
         r = IF Misc!IsHudStatusEnableAndBlackNoRequested(s)
             THEN Misc!SetHudParametersCommon(s, rejected) ELSE Misc!SetHudMuteSurfaceVisible(s, TRUE)
  PROVE  HudOK(r) /\ SameCommands(s, r)
<1>1. CASE Misc!IsHudStatusEnableAndBlackNoRequested(s)
  <2> DEFINE t == Misc!SetStoredHudParametersToWaylandPlugin(s, rejected)
  <2>1. /\ t \in HudRecord /\ SameCommands(s, t) /\ Accounted(t) /\ t.taken \in BOOLEAN
        /\ t.taken => \A p \in Misc!Parameters : t.stored[p] = Misc!NotStored
    BY GivesStored, HudFields
  <2>2. r = Misc!SetHudMuteSurfaceVisible(t, ~t.taken)
    BY <1>1 DEF Misc!SetHudParametersCommon
  <2> HIDE DEF t
  <2>3. CASE t.taken
    <3>1. r = Misc!SetHudMuteSurfaceVisible(t, FALSE)
      BY <2>2, <2>3
    <3>2. /\ r \in HudRecord /\ SameCommands(t, r) /\ SameParameters(t, r)
      BY <2>1, <3>1, SetsVisible
    <3>3. /\ r.available = t.available /\ r.func = t.func /\ r.black = t.black
          /\ r.wanted = t.wanted /\ r.stored = t.stored /\ r.given = t.given
          /\ r.refused = t.refused /\ r.taken = t.taken
      BY <3>2 DEF SameCommands, SameParameters
    <3>4. Accounted(r)
      BY <2>1, <3>3 DEF Accounted
    <3>5. Misc!IsHudStatusEnableAndBlackNoRequested(r) /\ r.available
      BY <1>1, <2>1, <3>3 DEF Misc!IsHudStatusEnableAndBlackNoRequested, SameCommands
    <3>6. \A p \in Misc!Parameters : r.stored[p] = Misc!NotStored
      BY <2>1, <2>3, <3>3
    <3>7. Corrected(r)
      BY <2>3, <3>3, <3>4, <3>5, <3>6 DEF Corrected, Accounted
    <3> QED
      BY <2>1, <3>2, <3>4, <3>5, <3>7 DEF HudOK, Covers, SameCommands
  <2>4. CASE ~t.taken
    <3>1. r = Misc!SetHudMuteSurfaceVisible(t, TRUE)
      BY <2>2, <2>4
    <3>2. /\ r \in HudRecord /\ SameCommands(t, r) /\ SameParameters(t, r)
          /\ r.init /\ (r.surface # "none" => r.shown)
      BY <2>1, <3>1, SetsVisible
    <3>3. r.wanted = t.wanted /\ r.stored = t.stored /\ r.given = t.given
          /\ r.refused = t.refused
      BY <3>2 DEF SameCommands, SameParameters
    <3>4. Accounted(r)
      BY <2>1, <3>3 DEF Accounted
    <3> QED
      BY <2>1, <3>2, <3>4 DEF HudOK, Covers, SameCommands
  <2> QED
    BY <2>3, <2>4
<1>2. CASE ~Misc!IsHudStatusEnableAndBlackNoRequested(s)
  <2>1. /\ r \in HudRecord /\ SameCommands(s, r) /\ SameParameters(s, r)
        /\ r.init /\ (r.surface # "none" => r.shown)
    BY <1>2, SetsVisible
  <2>2. Accounted(r)
    BY <2>1 DEF Accounted, SameCommands, SameParameters
  <2> QED
    BY <2>1, <2>2 DEF HudOK, Covers, SameCommands
<1> QED
  BY <1>1, <1>2

\* What the record holds of the messages of a kind.
HudKnown(h, k) ==
  CASE k = "hudFunc" -> IF h.func THEN "on" ELSE "off"
    [] k = "hudCorr" -> IF h.black THEN "black" ELSE h.wanted["corrections"]
    [] OTHER         -> h.wanted["rotation"]

\* A message of kind k, of value v, has been taken.
HudTold(h, r, k, v) ==
  /\ HudKnown(r, k) = Misc!Receive(k, v)
  /\ \A j \in Misc!HudKinds : j # k => HudKnown(r, j) = HudKnown(h, j)

LEMMA HudKindsAre ==
  /\ \A k \in Misc!HudKinds : k = "hudFunc" \/ k = "hudCorr" \/ k = "hudRot"
  /\ "hudFunc" # "hudCorr" /\ "hudFunc" # "hudRot" /\ "hudCorr" # "hudRot"
  /\ "corrections" # "rotation" /\ "hudFunc" \in Misc!HudKinds /\ "hudCorr" \in Misc!HudKinds
  /\ "hudRot" \in Misc!HudKinds /\ "corrections" \in Misc!Parameters /\ "rotation" \in Misc!Parameters
  /\ \A p \in Misc!Parameters : p = "corrections" \/ p = "rotation"
BY DEF Misc!HudKinds, Misc!Parameters

LEMMA ToldAlike ==
  ASSUME NEW h, NEW s, NEW r, SameCommands(s, r), NEW k \in Misc!HudKinds, NEW v,
         HudTold(h, s, k, v)
  PROVE  HudTold(h, r, k, v)
<1>1. \A j \in Misc!HudKinds : HudKnown(r, j) = HudKnown(s, j)
  BY DEF HudKnown, SameCommands
<1> QED
  BY <1>1 DEF HudTold

LEMMA TakesFunction ==
  ASSUME NEW h, HudOK(h), h.available, NEW v, v # "short",
         NEW rejected \in SUBSET Misc!Parameters, NEW r,
         r = Misc!NotifyHudFunctionStatus(h, v, rejected)
  PROVE  HudOK(r) /\ r.available = h.available /\ HudTold(h, r, "hudFunc", v)
<1> DEFINE f == v = "01"
           s == [h EXCEPT !.func = f]
<1>1. f \in BOOLEAN /\ h \in HudRecord /\ Accounted(h)
  BY DEF HudOK
<1>2. r = IF Misc!IsHudStatusEnableAndBlackNoRequested(s)
          THEN Misc!SetHudParametersCommon(s, rejected) ELSE Misc!SetHudMuteSurfaceVisible(s, TRUE)
  BY DEF Misc!NotifyHudFunctionStatus, Misc!ApplyHudFunctionStatus
<1> HIDE DEF f
<1>3. /\ s \in HudRecord /\ s.available = h.available /\ s.func = f
      /\ s.black = h.black /\ s.wanted = h.wanted /\ s.stored = h.stored
      /\ s.given = h.given /\ s.refused = h.refused
  BY <1>1 DEF HudRecord
<1> HIDE DEF s
<1>4. Accounted(s)
  BY <1>1, <1>3 DEF Accounted
<1>5. HudOK(r) /\ SameCommands(s, r)
  BY <1>2, <1>3, <1>4, Decides
<1>6. HudTold(h, s, "hudFunc", v)
  <2>1. HudKnown(s, "hudFunc") = Misc!Receive("hudFunc", v)
    BY <1>3 DEF HudKnown, Misc!Receive, f
  <2>2. \A j \in Misc!HudKinds : j # "hudFunc" => HudKnown(s, j) = HudKnown(h, j)
    BY <1>3, HudKindsAre DEF HudKnown
  <2> QED
    BY <2>1, <2>2 DEF HudTold
<1>7. r.available = h.available
  BY <1>3, <1>5 DEF SameCommands
<1> QED
  BY <1>5, <1>6, <1>7, ToldAlike, HudKindsAre

LEMMA TakesCorrections ==
  ASSUME NEW h, HudOK(h), h.available, NEW v \in AllValues, v # "short",
         NEW rejected \in SUBSET Misc!Parameters, NEW r,
         r = Misc!NotifyHudDistortionCorrection(h, v, rejected)
  PROVE  HudOK(r) /\ r.available = h.available /\ HudTold(h, r, "hudCorr", v)
<1> DEFINE C == [h.stored EXCEPT !["corrections"] = v]
           W == [h.wanted EXCEPT !["corrections"] = v]
           b == [h EXCEPT !.black = TRUE]
           n == [h EXCEPT !.black = FALSE, !.stored = C, !.wanted = W]
           s == IF v \in {"black", "odd"} THEN b ELSE n
<1>1. h \in HudRecord /\ Accounted(h)
  BY DEF HudOK
<1>2. r = IF Misc!IsHudStatusEnableAndBlackNoRequested(s)
          THEN Misc!SetHudParametersCommon(s, rejected) ELSE Misc!SetHudMuteSurfaceVisible(s, TRUE)
  <2>1. CASE v \in {"black", "odd"}
    <3>1. s = b
      BY <2>1
    <3>2. r = Misc!ApplyHudDistortionCorrection(h, Misc!NotStored, TRUE, rejected)
      BY <2>1 DEF Misc!NotifyHudDistortionCorrection
    <3>3. r = IF Misc!IsHudStatusEnableAndBlackNoRequested(b)
              THEN Misc!SetHudParametersCommon(b, rejected) ELSE Misc!SetHudMuteSurfaceVisible(b, TRUE)
      BY <3>2 DEF Misc!ApplyHudDistortionCorrection
    <3> HIDE DEF b, s
    <3> QED
      BY <3>1, <3>3
  <2>2. CASE v \notin {"black", "odd"}
    <3>1. s = n
      BY <2>2
    <3>2. r = Misc!ApplyHudDistortionCorrection(h, v, FALSE, rejected)
      BY <2>2 DEF Misc!NotifyHudDistortionCorrection
    <3>3. r = IF Misc!IsHudStatusEnableAndBlackNoRequested(n)
              THEN Misc!SetHudParametersCommon(n, rejected) ELSE Misc!SetHudMuteSurfaceVisible(n, TRUE)
      BY <3>2 DEF Misc!ApplyHudDistortionCorrection
    <3> HIDE DEF n, s
    <3> QED
      BY <3>1, <3>3
  <2> QED
    BY <2>1, <2>2
<1>3. /\ s \in HudRecord /\ Accounted(s) /\ s.available = h.available
      /\ HudTold(h, s, "hudCorr", v)
  <2>1. CASE v \in {"black", "odd"}
    <3>1. s = b
      BY <2>1
    <3>2. /\ s \in HudRecord /\ s.available = h.available /\ s.func = h.func
          /\ s.black /\ s.wanted = h.wanted /\ s.stored = h.stored
          /\ s.given = h.given /\ s.refused = h.refused
      BY <1>1, <3>1 DEF HudRecord
    <3> HIDE DEF s
    <3>3. Accounted(s)
      BY <1>1, <3>2 DEF Accounted
    <3>4. HudKnown(s, "hudCorr") = Misc!Receive("hudCorr", v)
      BY <2>1, <3>2 DEF HudKnown, Misc!Receive
    <3>5. \A j \in Misc!HudKinds : j # "hudCorr" => HudKnown(s, j) = HudKnown(h, j)
      BY <3>2, HudKindsAre DEF HudKnown
    <3> QED
      BY <3>2, <3>3, <3>4, <3>5 DEF HudTold
  <2>2. CASE v \notin {"black", "odd"}
    <3>1. s = n
      BY <2>2
    <3>2. h.stored \in Stored /\ h.wanted \in Stored
      BY <1>1, HudFields
    <3>3. /\ C \in Stored /\ W \in Stored /\ C["corrections"] = v
          /\ W["corrections"] = v /\ C["rotation"] = h.stored["rotation"]
          /\ W["rotation"] = h.wanted["rotation"]
      BY <3>2, HudKindsAre, Updated
    <3> HIDE DEF C, W
    <3>4. s \in HudRecord
      BY <1>1, <3>1, <3>3 DEF HudRecord
    <3>5. /\ s.available = h.available /\ s.func = h.func /\ ~s.black
          /\ s.wanted = W /\ s.stored = C /\ s.given = h.given
          /\ s.refused = h.refused
      BY <1>1, <3>1 DEF HudRecord
    <3> HIDE DEF s
    <3>6. Accounted(s)
      BY <1>1, <3>3, <3>5, HudKindsAre DEF Accounted
    <3>7. HudKnown(s, "hudCorr") = Misc!Receive("hudCorr", v)
      BY <2>2, <3>3, <3>5 DEF HudKnown, Misc!Receive
    <3>8. \A j \in Misc!HudKinds : j # "hudCorr" => HudKnown(s, j) = HudKnown(h, j)
      BY <3>3, <3>5, HudKindsAre DEF HudKnown
    <3> QED
      BY <3>4, <3>5, <3>6, <3>7, <3>8 DEF HudTold
  <2> QED
    BY <2>1, <2>2
<1> HIDE DEF s
<1>4. HudOK(r) /\ SameCommands(s, r)
  BY <1>2, <1>3, Decides
<1>5. r.available = h.available
  BY <1>3, <1>4 DEF SameCommands
<1> QED
  BY <1>3, <1>4, <1>5, ToldAlike, HudKindsAre

\* While the picture may not be seen a rotation waits.
LEMMA TakesRotation ==
  ASSUME NEW h, HudOK(h), h.available, NEW v \in AllValues, v # "short",
         NEW rejected \in SUBSET Misc!Parameters, NEW r,
         r = Misc!NotifyHudRotation(h, v, rejected)
  PROVE  HudOK(r) /\ r.available = h.available /\ HudTold(h, r, "hudRot", v)
<1> DEFINE C == [h.stored EXCEPT !["rotation"] = v]
           W == [h.wanted EXCEPT !["rotation"] = v]
           s == [h EXCEPT !.stored = C, !.wanted = W]
<1>1. h \in HudRecord /\ Accounted(h) /\ Covers(h)
  BY DEF HudOK
<1>2. r = IF Misc!IsHudStatusEnableAndBlackNoRequested(s)
          THEN Misc!SetHudParametersCommon(s, rejected) ELSE s
  BY DEF Misc!NotifyHudRotation, Misc!ApplyHudRotation
<1>3. h.stored \in Stored /\ h.wanted \in Stored
  BY <1>1, HudFields
<1>4. /\ C \in Stored /\ W \in Stored /\ C["rotation"] = v /\ W["rotation"] = v
      /\ C["corrections"] = h.stored["corrections"]
      /\ W["corrections"] = h.wanted["corrections"]
  BY <1>3, HudKindsAre, Updated
<1> HIDE DEF C, W
<1>5. s \in HudRecord
  BY <1>1, <1>4 DEF HudRecord
<1>6. /\ s.available = h.available /\ s.func = h.func /\ s.black = h.black
      /\ s.wanted = W /\ s.stored = C /\ s.given = h.given
      /\ s.refused = h.refused
  BY <1>1 DEF HudRecord
<1>7. /\ s.surface = h.surface /\ s.init = h.init /\ s.shown = h.shown
      /\ s.old = h.old /\ s.stale = h.stale
  BY <1>1 DEF HudRecord
<1> HIDE DEF s
<1>8. Accounted(s)
  BY <1>1, <1>4, <1>6, HudKindsAre DEF Accounted
<1>9. HudTold(h, s, "hudRot", v)
  <2>1. HudKnown(s, "hudRot") = Misc!Receive("hudRot", v)
    BY <1>4, <1>6 DEF HudKnown, Misc!Receive
  <2>2. \A j \in Misc!HudKinds : j # "hudRot" => HudKnown(s, j) = HudKnown(h, j)
    BY <1>4, <1>6, HudKindsAre DEF HudKnown
  <2> QED
    BY <2>1, <2>2 DEF HudTold
<1>10. CASE Misc!IsHudStatusEnableAndBlackNoRequested(s)
  <2>1. HudOK(r) /\ SameCommands(s, r)
    BY <1>2, <1>5, <1>6, <1>8, <1>10, Decides
  <2>2. r.available = h.available
    BY <1>6, <2>1 DEF SameCommands
  <2> QED
    BY <1>9, <2>1, <2>2, ToldAlike, HudKindsAre
<1>11. CASE ~Misc!IsHudStatusEnableAndBlackNoRequested(s)
  <2>1. r = s
    BY <1>2, <1>11
  <2>2. ~Corrected(h)
    BY <1>6, <1>11 DEF Corrected, Misc!IsHudStatusEnableAndBlackNoRequested
  <2>3. Covers(s)
    BY <1>1, <1>6, <1>7, <2>2 DEF Covers
  <2> QED
    BY <1>5, <1>6, <1>8, <1>9, <2>1, <2>3 DEF HudOK
<1> QED
  BY <1>10, <1>11

\* A message without a head-up display, or too short, changes nothing.
LEMMA ReceivesHud ==
  ASSUME HudOK(hud), NEW k \in Misc!HudKinds, NEW v \in AllValues,
         NEW rejected \in SUBSET Misc!Parameters, NEW r, r = Misc!ReceiveHud(k, v, rejected)
  PROVE  /\ HudOK(r) /\ r.available = hud.available
         /\ ~hud.available \/ v = "short" => r = hud
         /\ hud.available /\ v # "short" => HudTold(hud, r, k, v)
<1>1. CASE ~hud.available \/ v = "short"
  <2>1. ASSUME v = "short"
       PROVE  r = hud
    BY <2>1 DEF Misc!ReceiveHud
  <2>2. ASSUME v # "short" /\ ~hud.available /\ k = "hudFunc"
       PROVE  r = hud
    BY <2>2 DEF Misc!ReceiveHud, Misc!NotifyHudFunctionStatus, Misc!ApplyHudFunctionStatus
  <2>3. ASSUME v # "short" /\ ~hud.available /\ k = "hudCorr"
       PROVE  r = hud
    <3>1. r = Misc!NotifyHudDistortionCorrection(hud, v, rejected)
      BY <2>3 DEF Misc!ReceiveHud
    <3>2. \A c, b : Misc!ApplyHudDistortionCorrection(hud, c, b, rejected) = hud
      BY <2>3 DEF Misc!ApplyHudDistortionCorrection
    <3> QED
      BY <2>3, <3>1, <3>2 DEF Misc!NotifyHudDistortionCorrection
  <2>4. ASSUME v # "short" /\ ~hud.available /\ k = "hudRot"
       PROVE  r = hud
    BY <2>4 DEF Misc!ReceiveHud, Misc!NotifyHudRotation, Misc!ApplyHudRotation
  <2>5. r = hud
    BY <1>1, <2>1, <2>2, <2>3, <2>4, HudKindsAre
  <2>6. ~(hud.available /\ v # "short")
    BY <1>1
  <2>7. HudOK(r)
    BY <2>5
  <2> QED
    BY <2>5, <2>6, <2>7
<1>2. CASE hud.available /\ v # "short" /\ k = "hudFunc"
  <2>1. r = Misc!NotifyHudFunctionStatus(hud, v, rejected)
    BY <1>2 DEF Misc!ReceiveHud
  <2> QED
    BY <1>2, <2>1, TakesFunction
<1>3. CASE hud.available /\ v # "short" /\ k = "hudCorr"
  <2>1. r = Misc!NotifyHudDistortionCorrection(hud, v, rejected)
    BY <1>3 DEF Misc!ReceiveHud
  <2> QED
    BY <1>3, <2>1, TakesCorrections
<1>4. CASE hud.available /\ v # "short" /\ k = "hudRot"
  <2>1. r = Misc!NotifyHudRotation(hud, v, rejected)
    BY <1>4 DEF Misc!ReceiveHud
  <2> QED
    BY <1>4, <2>1, TakesRotation
<1> QED
  BY <1>1, <1>2, <1>3, <1>4, HudKindsAre

\* The messages' part of the record.
SameKnown(h, r) ==
  /\ r.available = h.available /\ r.func = h.func /\ r.black = h.black
  /\ r.wanted = h.wanted

LEMMA SurfaceSet ==
  ASSUME NEW h, HudOK(h), NEW r \in HudRecord,
         SameKnown(h, r), r.stored = h.stored, r.given = h.given,
         r.refused = h.refused, r.taken = h.taken
  PROVE  Accounted(r) /\ (Corrected(h) => Corrected(r))
BY DEF HudOK, Accounted, Corrected, SameKnown, Misc!IsHudStatusEnableAndBlackNoRequested

\* The compositor's events about the surface.  It is not placed until the controller's
\* decision is followed.
LEMMA ChangesSurface ==
  ASSUME HudInv, Misc!MuteSurfaceChanges \/ Misc!MuteSurfaceEvent
  PROVE  HudInv' /\ SameKnown(hud, hud')
<1>1. hud \in HudRecord /\ HudOK(hud) /\ Covers(hud)
  BY DEF HudInv, HudOK
<1>2. CASE hud.available /\ hud' = Misc!CreateHudBlinder(hud)
  <2>1. /\ hud' \in HudRecord /\ hud'.surface = "made" /\ hud'.init
    BY <1>1, <1>2 DEF HudRecord, Misc!CreateHudBlinder
  <2>2. /\ SameKnown(hud, hud') /\ hud'.stored = hud.stored
        /\ hud'.given = hud.given /\ hud'.refused = hud.refused
        /\ hud'.taken = hud.taken
    BY <1>1, <1>2 DEF HudRecord, Misc!CreateHudBlinder, SameKnown
  <2>3. Accounted(hud')
    BY <1>1, <2>1, <2>2, SurfaceSet
  <2> QED
    BY <1>2, <2>1, <2>2, <2>3 DEF HudInv, HudOK, Covers, SameKnown
<1>3. CASE hud.surface = "added" /\ hud' = Misc!NotifyIviConfigureSurface(hud)
  <2>1. /\ hud' \in HudRecord /\ hud'.surface = "sized" /\ hud'.init = hud.init
        /\ hud'.old = hud.old
    BY <1>1, <1>3 DEF HudRecord, Misc!NotifyIviConfigureSurface
  <2>2. /\ SameKnown(hud, hud') /\ hud'.stored = hud.stored
        /\ hud'.given = hud.given /\ hud'.refused = hud.refused
        /\ hud'.taken = hud.taken
    BY <1>1, <1>3 DEF HudRecord, Misc!NotifyIviConfigureSurface, SameKnown
  <2>3. Accounted(hud') /\ (Corrected(hud) => Corrected(hud'))
    BY <1>1, <2>1, <2>2, SurfaceSet
  <2>4. hud.available
    BY <1>1, <1>3 DEF Covers
  <2> QED
    BY <1>1, <2>1, <2>2, <2>3, <2>4 DEF HudInv, HudOK, Covers, SameKnown
<1>4. CASE Misc!Awake /\ power' = power /\ hud.available /\ hud' = Misc!AddSurfaceToLayer(hud)
  <2>1. /\ hud' \in HudRecord /\ hud'.surface = "added" /\ hud'.init = hud.init
        /\ hud'.old = hud.old
    BY <1>1, <1>4 DEF HudRecord, Misc!AddSurfaceToLayer
  <2>2. /\ SameKnown(hud, hud') /\ hud'.stored = hud.stored
        /\ hud'.given = hud.given /\ hud'.refused = hud.refused
        /\ hud'.taken = hud.taken
    BY <1>1, <1>4 DEF HudRecord, Misc!AddSurfaceToLayer, SameKnown
  <2>3. Accounted(hud') /\ (Corrected(hud) => Corrected(hud'))
    BY <1>1, <2>1, <2>2, SurfaceSet
  <2> QED
    BY <1>1, <1>4, <2>1, <2>2, <2>3 DEF HudInv, HudOK, Covers, SameKnown
<1>5. CASE Misc!Awake /\ power' = power /\ hud.available /\ hud' = Misc!ConfigureBlinder(hud)
  <2>1. /\ hud' \in HudRecord /\ hud'.init = hud.init /\ hud'.old = hud.old
        /\ hud'.shown = hud.init /\ hud'.stale = hud.old
    BY <1>1, <1>5 DEF HudRecord, Misc!ConfigureBlinder
  <2>2. /\ SameKnown(hud, hud') /\ hud'.stored = hud.stored
        /\ hud'.given = hud.given /\ hud'.refused = hud.refused
        /\ hud'.taken = hud.taken
    BY <1>1, <1>5 DEF HudRecord, Misc!ConfigureBlinder, SameKnown
  <2>3. Accounted(hud') /\ (Corrected(hud) => Corrected(hud'))
    BY <1>1, <2>1, <2>2, SurfaceSet
  <2>4. power' \notin {"off", "rising"}
    BY <1>5 DEF Misc!Awake
  <2> QED
    BY <1>1, <1>5, <2>1, <2>2, <2>3, <2>4 DEF HudInv, HudOK, Covers, SameKnown
<1>6. hudEvent' # "none" => hud.available
  BY <1>1 DEF Misc!MuteSurfaceChanges, Misc!MuteSurfaceEvent, Covers
<1>7. power' = power /\ hud.available
  BY <1>1 DEF Misc!MuteSurfaceChanges, Misc!MuteSurfaceEvent, Covers, HudInv
<1>8. \/ hud' = Misc!CreateHudBlinder(hud)
      \/ (hud.surface = "added" /\ hud' = Misc!NotifyIviConfigureSurface(hud))
      \/ (Misc!Awake /\ hud' = Misc!AddSurfaceToLayer(hud))
      \/ (Misc!Awake /\ hud' = Misc!ConfigureBlinder(hud))
  BY DEF Misc!MuteSurfaceChanges, Misc!MuteSurfaceEvent
<1> QED
  BY <1>2, <1>3, <1>4, <1>5, <1>7, <1>8

-----------------------------------------------------------------------------
LEMMA SuspendsHud ==
  ASSUME HudInv, Misc!StrSuspend
  PROVE  HudInv'
<1> DEFINE m == Misc!StrSuspendMuteHud(hud)
<1>1. hud \in HudRecord /\ HudOK(hud) /\ Covers(hud) /\ Accounted(hud)
  BY DEF HudInv, HudOK
<1>2. hud' = Misc!ReInitHud(m) /\ hudEvent' = "none"
  BY DEF Misc!StrSuspend
<1>3. /\ m \in HudRecord /\ m.available = hud.available /\ m.surface = hud.surface
      /\ m.surface # "none" => m.shown
  <2>1. CASE hud.surface = "none" \/ ~hud.available
    <3>1. m = hud /\ hud.surface = "none"
      BY <1>1, <2>1
      DEF Misc!StrSuspendMuteHud, Misc!SetBlinderEnable, Misc!IsHudScreenAvailable, Covers
    <3> QED
      BY <1>1, <3>1
  <2>2. CASE hud.surface # "none" /\ hud.available
    <3>1. m = [hud EXCEPT !.shown = TRUE, !.stale = FALSE]
      BY <2>2 DEF Misc!StrSuspendMuteHud, Misc!SetBlinderEnable, Misc!IsHudScreenAvailable
    <3> QED
      BY <1>1, <3>1 DEF HudRecord
  <2> QED
    BY <2>1, <2>2
<1> HIDE DEF m
<1>4. Misc!NoParameters \in Stored /\ \A p \in Misc!Parameters : Misc!NoParameters[p] = Misc!NotStored
  BY DEF Misc!NoParameters, Stored, AllValues, Misc!NotStored, Misc!NoValue
<1>5. hud' = [m EXCEPT !.func = FALSE, !.black = TRUE, !.stored = Misc!NoParameters,
                       !.wanted = Misc!NoParameters, !.old = TRUE]
  BY <1>2 DEF Misc!ReInitHud
<1> HIDE DEF m
<1>6. hud' \in HudRecord
  BY <1>3, <1>4, <1>5 DEF HudRecord
<1>7. /\ hud'.available = m.available /\ hud'.surface = m.surface
      /\ hud'.shown = m.shown
  BY <1>3, <1>5 DEF HudRecord
<1>8. hud'.wanted = Misc!NoParameters /\ hud'.stored = Misc!NoParameters /\ hud'.old
  BY <1>3, <1>5 DEF HudRecord
<1>9. Accounted(hud')
  BY <1>4, <1>8 DEF Accounted
<1>10. Covers(hud')
  BY <1>1, <1>3, <1>7, <1>8 DEF Covers
<1> QED
  BY <1>1, <1>2, <1>3, <1>6, <1>7, <1>9, <1>10 DEF HudInv, HudOK

LEMMA ExecutesHud ==
  ASSUME MessagesTyped, HudInv, NEW rejected \in SUBSET Misc!Parameters, NEW copied,
         Misc!ExecReceiveEvent(rejected, copied)
  PROVE  HudInv'
<1> DEFINE e == Head(received)
<1>1. /\ received \in Seq(Message) /\ received # <<>> /\ power = "on"
      /\ power' = power /\ hudEvent' = hudEvent
  BY DEF MessagesTyped, Misc!ExecReceiveEvent, Misc!Awake
<1>2. e \in Message
  BY <1>1
<1>3. e.value \in AllValues
  BY <1>2 DEF Message
<1>4. hud' = IF e.kind \in Misc!HudKinds THEN Misc!ReceiveHud(e.kind, e.value, rejected) ELSE hud
  BY DEF Misc!ExecReceiveEvent
<1> HIDE DEF e
<1>5. HudOK(hud') /\ hud'.available = hud.available
  <2>1. CASE e.kind \in Misc!HudKinds
    BY <1>3, <1>4, <2>1, ReceivesHud DEF HudInv
  <2>2. CASE e.kind \notin Misc!HudKinds
    BY <1>4, <2>2 DEF HudInv
  <2> QED
    BY <2>1, <2>2
<1> QED
  BY <1>1, <1>5 DEF HudInv

LEMMA HudInitial ==
  ASSUME Misc!Init
  PROVE  HudInv
<1>1. PICK available \in BOOLEAN : hud = Misc!HudScreen(available)
  BY DEF Misc!Init
<1>2. Misc!NoParameters \in Stored /\ \A p \in Misc!Parameters : Misc!NoParameters[p] = Misc!NotStored
  BY DEF Misc!NoParameters, Stored, AllValues, Misc!NotStored, Misc!NoValue
<1>3. hud \in HudRecord
  BY <1>1, <1>2 DEF Misc!HudScreen, HudRecord
<1>4. /\ hud.init /\ hud.surface = "none" /\ hud.stored = Misc!NoParameters
      /\ hud.wanted = Misc!NoParameters
  BY <1>1 DEF Misc!HudScreen
<1>5. Accounted(hud) /\ Covers(hud)
  BY <1>2, <1>4 DEF Accounted, Covers
<1> QED
  BY <1>3, <1>4, <1>5 DEF HudInv, HudOK, Misc!Init

LEMMA HudStep ==
  ASSUME ShotInv, HudInv, [Misc!Next]_(Misc!miscVars)
  PROVE  HudInv'
<1>1. CASE \E k \in topic : \E v \in Values[k] : Misc!MiconSends(k, v)
  BY <1>1 DEF Misc!MiconSends, HudInv
<1>2. CASE \E id \in shot.asked, v \in Values["shot"] : Misc!MiconAnswers(id, v)
  BY <1>2 DEF Misc!MiconAnswers, HudInv
<1>3. CASE Misc!CallbackCompares \/ Misc!NotifyReceiveEvent
  BY <1>3 DEF Misc!CallbackCompares, Misc!NotifyReceiveEvent, HudInv
<1>4. CASE \E rejected \in SUBSET Misc!Parameters, copied \in BOOLEAN :
             Misc!ExecReceiveEvent(rejected, copied)
  BY <1>4, ExecutesHud DEF ShotInv
<1>5. CASE \E screen \in {0, 4}, path \in {"picture", "relative"},
              taken, timed \in BOOLEAN, busy \in 0..3 :
             Misc!ActionScreenCapture(screen, path, busy, taken, timed)
  BY <1>5 DEF Misc!ActionScreenCapture, HudInv
<1>6. CASE Misc!ShotTimerExpires \/ Misc!ShotTimerStops \/ Misc!ShotTimerPosts \/ Misc!OnShotTimer
  BY <1>6
  DEF Misc!ShotTimerExpires, Misc!ShotTimerStops, Misc!ShotTimerPosts, Misc!OnShotTimer, HudInv
<1>7. CASE Misc!MuteSurfaceChanges \/ Misc!MuteSurfaceEvent
  BY <1>7, ChangesSurface
<1>8. CASE Misc!StrSuspend
  BY <1>8, SuspendsHud
<1>9. CASE Misc!SetSuspend \/ Misc!ResumeSystem \/ \E done \in SUBSET {"status", "exec", "ccm", "data"} : Misc!InitializeMisc(done)
  BY <1>9 DEF Misc!SetSuspend, Misc!ResumeSystem, Misc!InitializeMisc, HudInv, Misc!Awake
<1>10. CASE UNCHANGED Misc!miscVars
  BY <1>10 DEF Misc!miscVars, HudInv
<1> QED
  BY <1>1, <1>2, <1>3, <1>4, <1>5, <1>6, <1>7, <1>8, <1>9, <1>10, Zenon DEF Misc!Next

\* The head-up display is uncovered only when the plugin has taken what it was given, and
\* covered while the system is suspended, whenever the compositor places the surface.
THEOREM HudCorrect == Misc!Spec => []HudShowsOnlyCorrected
<1>1. Misc!Init => ShotInv /\ HudInv
  BY ShotInitial, HudInitial, MiscConstants
<1>2. ShotInv /\ HudInv /\ [Misc!Next]_(Misc!miscVars) => ShotInv' /\ HudInv'
  BY ShotStep, HudStep, MiscConstants
<1>3. HudInv => HudShowsOnlyCorrected
  BY DEF HudShowsOnlyCorrected, HudInv, HudOK, Covers, Corrected, Misc!HudShowsOnlyCorrected
<1> QED
  BY <1>1, <1>2, <1>3, PTL DEF Misc!Spec

-----------------------------------------------------------------------------
(* What the HAL knows                                                      *)

Tells(e, k)  == e.kind = k /\ Misc!Receive(e.kind, e.value) # Misc!NoValue
Relevant(k)  == k \in Misc!HudKinds => hud.available
Caching      == Misc!Compared \cup Misc!Formats
Underway(k)  == Tells(callback, k)

\* When the queue has been worked off the HAL has made w of the messages of kind k.
WillKnow(k, w) ==
  \/ /\ \A j \in DOMAIN received : ~Tells(received[j], k)
     /\ Misc!KnownOf(k) = w
  \/ \E j \in DOMAIN received :
       /\ Tells(received[j], k) /\ Misc!Receive(k, received[j].value) = w
       /\ \A l \in DOMAIN received : l > j => ~Tells(received[l], k)

ValuesTyped ==
  /\ cache \in [Misc!Kinds -> AllValues] /\ said \in [Misc!Kinds -> AllValues]
  /\ DOMAIN known = Misc!Kinds /\ missed \subseteq Misc!Kinds
  /\ callback.kind # "none" => callback.value # Misc!NoValue
  /\ \A j \in DOMAIN received : received[j].value # Misc!NoValue

SaidSinceLinked ==
  /\ power \in {"off", "rising"} => ~linked
  /\ ~linked => \A k \in Misc!Kinds : said[k] = Misc!NoValue
  /\ \A k \in Misc!Kinds : Underway(k) => said[k] \in {Misc!NoValue, callback.value}

CacheKept ==
  \A k \in Caching \cap Misc!Kinds :
    Underway(k) /\ callback.step = "compared" => cache[k] \in {Misc!NoValue, callback.value}

CacheIsKnown ==
  \A k \in Caching \cap Misc!Kinds :
    /\ cache[k] # Misc!NoValue /\ Misc!Receive(k, cache[k]) # Misc!NoValue
    /\ k \notin missed /\ Relevant(k)
    /\ ~(Underway(k) /\ callback.step = "compared")
    => WillKnow(k, Misc!Receive(k, cache[k]))

SaidIsKnown ==
  \A k \in Misc!Kinds :
    said[k] # Misc!NoValue /\ k \notin missed /\ Relevant(k) /\ ~Underway(k)
    => WillKnow(k, Misc!Receive(k, said[k]))

KnownInv ==
  /\ ValuesTyped /\ SaidSinceLinked /\ CacheKept
  /\ CacheIsKnown /\ SaidIsKnown

LEMMA NothingTells ==
  /\ \A v : Misc!Receive("none", v) = Misc!NoValue /\ Misc!Receive("shot", v) = Misc!NoValue
  /\ \A v : v = "short" => \A k \in Misc!HudKinds : Misc!Receive(k, v) = Misc!NoValue
BY DEF Misc!Receive, Misc!HudKinds, Misc!NoValue

\* A format that is too short tells nothing.
LEMMA ShortFormat ==
  \A k \in Misc!Formats : Misc!Receive(k, "short") = Misc!NoValue
BY DEF Misc!Receive, Misc!Formats, Misc!NoValue, Misc!ActionHdmiVideoFormat, Misc!ActionHdmiAudioFormat

LEMMA KnownAppended ==
  ASSUME received \in Seq(Message), NEW e \in Message, received' = Append(received, e),
         NEW k, Misc!KnownOf(k)' = Misc!KnownOf(k), NEW w
  PROVE  /\ Tells(e, k) => WillKnow(k, Misc!Receive(k, e.value))'
         /\ ~Tells(e, k) /\ WillKnow(k, w) => WillKnow(k, w)'
<1> DEFINE n == Len(received)
<1>1. /\ n \in Nat /\ DOMAIN received = 1..n /\ DOMAIN received' = 1..(n + 1)
      /\ received'[n + 1] = e
      /\ \A j \in 1..n : received'[j] = received[j]
  OBVIOUS
<1> HIDE DEF n
<1>2. \A j \in 1..(n + 1) : j \in 1..n \/ j = n + 1
  BY <1>1
<1>3. n + 1 \in 1..(n + 1) /\ (\A j \in 1..(n + 1) : ~(j > n + 1))
      /\ (\A j \in 1..n : j \in 1..(n + 1))
  BY <1>1
<1>4. ASSUME Tells(e, k)
      PROVE  WillKnow(k, Misc!Receive(k, e.value))'
  BY <1>1, <1>3, <1>4 DEF WillKnow
<1>5. ASSUME ~Tells(e, k), \A j \in DOMAIN received : ~Tells(received[j], k),
             Misc!KnownOf(k) = w
      PROVE  WillKnow(k, w)'
  BY <1>1, <1>2, <1>5 DEF WillKnow
<1>6. ASSUME ~Tells(e, k), NEW j \in DOMAIN received, Tells(received[j], k),
             Misc!Receive(k, received[j].value) = w,
             \A l \in DOMAIN received : l > j => ~Tells(received[l], k)
      PROVE  WillKnow(k, w)'
  <2>1. j \in DOMAIN received' /\ received'[j] = received[j]
    BY <1>1, <1>3, <1>6
  <2>2. \A l \in DOMAIN received' : l > j => ~Tells(received'[l], k)
    BY <1>1, <1>2, <1>6
  <2> QED
    BY <1>6, <2>1, <2>2 DEF WillKnow
<1> QED
  BY <1>4, <1>5, <1>6 DEF WillKnow

LEMMA KnownTaken ==
  ASSUME received \in Seq(Message), received # <<>>, received' = Tail(received), NEW k,
         Tells(Head(received), k) => Misc!KnownOf(k)' = Misc!Receive(k, Head(received).value),
         ~Tells(Head(received), k) => Misc!KnownOf(k)' = Misc!KnownOf(k), NEW w, WillKnow(k, w)
  PROVE  WillKnow(k, w)'
<1> DEFINE n == Len(received)
           e == Head(received)
<1>1. /\ n \in Nat /\ n >= 1 /\ DOMAIN received = 1..n /\ DOMAIN received' = 1..(n - 1)
      /\ received[1] = e
      /\ \A j \in 1..(n - 1) : received'[j] = received[j + 1]
  OBVIOUS
<1> HIDE DEF n, e
<1>2. \A j \in 1..(n - 1) : j + 1 \in 1..n /\ j \in Nat
  BY <1>1
<1>3. /\ Tells(e, k) => Misc!KnownOf(k)' = Misc!Receive(k, e.value)
      /\ ~Tells(e, k) => Misc!KnownOf(k)' = Misc!KnownOf(k)
  BY DEF e
<1>4. ASSUME \A j \in DOMAIN received : ~Tells(received[j], k), Misc!KnownOf(k) = w
      PROVE  WillKnow(k, w)'
  <2>1. 1 \in DOMAIN received
    BY <1>1
  <2>2. Misc!KnownOf(k)' = w
    BY <1>1, <1>3, <1>4, <2>1
  <2>3. \A j \in DOMAIN received' : ~Tells(received'[j], k)
    BY <1>1, <1>2, <1>4
  <2> QED
    BY <2>2, <2>3 DEF WillKnow
<1>5. ASSUME NEW j \in DOMAIN received, Tells(received[j], k),
             Misc!Receive(k, received[j].value) = w,
             \A l \in DOMAIN received : l > j => ~Tells(received[l], k)
      PROVE  WillKnow(k, w)'
  <2>1. CASE j = 1
    <3>1. Misc!KnownOf(k)' = w
      BY <1>1, <1>3, <1>5, <2>1
    <3>2. \A l \in 1..(n - 1) : l + 1 \in 1..n /\ l + 1 > 1
      BY <1>1
    <3>3. \A l \in DOMAIN received' : ~Tells(received'[l], k)
      BY <1>1, <1>5, <2>1, <3>2
    <3> QED
      BY <3>1, <3>3 DEF WillKnow
  <2>2. CASE j # 1
    <3>1. j - 1 \in 1..(n - 1) /\ (j - 1) + 1 = j
      BY <1>1, <2>2
    <3>2. received'[j - 1] = received[j]
      BY <1>1, <3>1
    <3>3. \A l \in 1..(n - 1) : l > j - 1 => l + 1 \in 1..n /\ l + 1 > j
      BY <1>1
    <3>4. \A l \in DOMAIN received' : l > j - 1 => ~Tells(received'[l], k)
      BY <1>1, <1>5, <3>3
    <3> QED
      BY <1>1, <1>5, <3>1, <3>2, <3>4 DEF WillKnow
  <2> QED
    BY <2>1, <2>2
<1> QED
  BY <1>4, <1>5 DEF WillKnow

LEMMA KnownKept ==
  ASSUME known' = known, SameKnown(hud, hud'), NEW k
  PROVE  Misc!KnownOf(k)' = Misc!KnownOf(k) /\ (Relevant(k)' => Relevant(k))
BY DEF SameKnown, Misc!KnownOf, Relevant

LEMMA WillKnowKept ==
  ASSUME known' = known, SameKnown(hud, hud'), received' = received, NEW k, NEW w,
         WillKnow(k, w)
  PROVE  WillKnow(k, w)'
BY KnownKept DEF WillKnow

LEMMA SameItself ==
  ASSUME NEW h
  PROVE  SameKnown(h, h)
BY DEF SameKnown

\* What a step that neither delivers a message nor links leaves as it was.
LEMMA OthersKnown ==
  ASSUME KnownInv, SameKnown(hud, hud'),
         UNCHANGED <<callback, cache, received, known, said, missed, linked>>,
         power' \in {"off", "rising"} => power \in {"off", "rising"}
  PROVE  KnownInv'
<1>1. ValuesTyped' /\ SaidSinceLinked' /\ CacheKept'
  BY DEF KnownInv, ValuesTyped, SaidSinceLinked, CacheKept, Underway
<1>2. ASSUME NEW k
      PROVE  /\ Underway(k)' = Underway(k) /\ (Relevant(k)' => Relevant(k))
             /\ \A w : WillKnow(k, w) => WillKnow(k, w)'
  BY KnownKept, WillKnowKept DEF Underway
<1>3. CacheIsKnown'
  <2> SUFFICES ASSUME NEW k \in Caching \cap Misc!Kinds, cache[k] # Misc!NoValue,
                      Misc!Receive(k, cache[k]) # Misc!NoValue, k \notin missed, Relevant(k)',
                      ~(Underway(k)' /\ callback.step = "compared")
               PROVE  WillKnow(k, Misc!Receive(k, cache[k]))'
    BY DEF CacheIsKnown
  <2>1. WillKnow(k, Misc!Receive(k, cache[k]))
    BY <1>2 DEF KnownInv, CacheIsKnown
  <2> QED
    BY <1>2, <2>1
<1>4. SaidIsKnown'
  <2> SUFFICES ASSUME NEW k \in Misc!Kinds, said[k] # Misc!NoValue, k \notin missed,
                      Relevant(k)', ~Underway(k)'
               PROVE  WillKnow(k, Misc!Receive(k, said[k]))'
    BY DEF SaidIsKnown
  <2>1. WillKnow(k, Misc!Receive(k, said[k]))
    BY <1>2 DEF KnownInv, SaidIsKnown
  <2> QED
    BY <1>2, <2>1
<1> QED
  BY <1>1, <1>3, <1>4 DEF KnownInv

LEMMA SendsKnown ==
  ASSUME Misc!MiscAssumption, ShotInv, KnownInv, NEW k \in topic, NEW v \in Values[k],
         Misc!MiconSends(k, v)
  PROVE  KnownInv'
<1>1. /\ k \in Misc!Kinds /\ v # Misc!NoValue /\ v \in AllValues /\ k # "none"
  BY DEF ShotInv, MessagesTyped, Misc!MiscAssumption, AllValues
<1>2. /\ UNCHANGED <<power, linked, cache, received, known, missed, hud>>
      /\ linked /\ callback = Misc!Idle
      /\ callback' = [step |-> "entered", kind |-> k, value |-> v, id |-> Misc!Nobody]
      /\ said' = IF Misc!Receive(k, v) = Misc!NoValue THEN said ELSE [said EXCEPT ![k] = v]
  BY DEF Misc!MiconSends
<1>3. /\ callback'.kind = k /\ callback'.value = v /\ callback'.step = "entered"
  BY <1>2
<1>4. /\ \A j : ~Underway(j)
      /\ \A j : Underway(j)' <=> (j = k /\ Misc!Receive(k, v) # Misc!NoValue)
  BY <1>2, <1>3, NothingTells DEF Underway, Tells, Misc!Idle
<1>5. said \in [Misc!Kinds -> AllValues]
  BY DEF KnownInv, ValuesTyped
<1>6. /\ said' \in [Misc!Kinds -> AllValues]
      /\ \A j \in Misc!Kinds : ~Underway(j)' => said'[j] = said[j]
      /\ Underway(k)' => said'[k] = v
  BY <1>1, <1>2, <1>4, <1>5
<1>7. ValuesTyped' /\ SaidSinceLinked'
  <2>1. ValuesTyped'
    BY <1>1, <1>2, <1>3, <1>6 DEF KnownInv, ValuesTyped
  <2>2. power' \notin {"off", "rising"}
    BY <1>2 DEF KnownInv, SaidSinceLinked
  <2> QED
    BY <1>2, <1>3, <1>4, <1>6, <2>1, <2>2 DEF SaidSinceLinked
<1>8. CacheKept'
  BY <1>3 DEF CacheKept
<1>9. ASSUME NEW j
      PROVE  /\ Relevant(j)' => Relevant(j)
             /\ \A w : WillKnow(j, w) => WillKnow(j, w)'
  BY <1>2, KnownKept, WillKnowKept, SameItself
<1>10. CacheIsKnown'
  <2> SUFFICES ASSUME NEW j \in Caching \cap Misc!Kinds, cache[j] # Misc!NoValue,
                      Misc!Receive(j, cache[j]) # Misc!NoValue, j \notin missed, Relevant(j)'
               PROVE  WillKnow(j, Misc!Receive(j, cache[j]))'
    BY <1>2 DEF CacheIsKnown
  <2>1. WillKnow(j, Misc!Receive(j, cache[j]))
    BY <1>4, <1>9 DEF KnownInv, CacheIsKnown
  <2> QED
    BY <1>2, <1>9, <2>1
<1>11. SaidIsKnown'
  <2> SUFFICES ASSUME NEW j \in Misc!Kinds, said'[j] # Misc!NoValue, j \notin missed,
                      Relevant(j)', ~Underway(j)'
               PROVE  WillKnow(j, Misc!Receive(j, said[j]))'
    BY <1>2 DEF SaidIsKnown
  <2>1. WillKnow(j, Misc!Receive(j, said'[j]))
    BY <1>4, <1>6, <1>9 DEF KnownInv, SaidIsKnown
  <2> QED
    BY <1>2, <1>9, <2>1
<1> QED
  BY <1>7, <1>8, <1>10, <1>11 DEF KnownInv

\* The answer to a request for a screen shot tells nothing.
LEMMA AnswersKnown ==
  ASSUME Misc!MiscAssumption, KnownInv, NEW id, NEW v \in Values["shot"], Misc!MiconAnswers(id, v)
  PROVE  KnownInv'
<1>1. v # Misc!NoValue
  BY DEF Misc!MiscAssumption
<1>2. /\ UNCHANGED <<power, linked, cache, received, known, said, missed, hud>>
      /\ callback = Misc!Idle
      /\ callback' = IF linked THEN [step |-> "entered", kind |-> "shot", value |-> v, id |-> id]
                     ELSE Misc!Idle
  BY DEF Misc!MiconAnswers
<1>3. callback'.kind \in {"shot", "none"} /\ (callback'.kind # "none" => callback'.value # Misc!NoValue)
  BY <1>1, <1>2 DEF Misc!Idle
<1>4. \A j : ~Underway(j) /\ ~Underway(j)'
  BY <1>2, <1>3, NothingTells DEF Underway, Tells, Misc!Idle
<1>5. ValuesTyped' /\ SaidSinceLinked' /\ CacheKept'
  BY <1>2, <1>3, <1>4 DEF KnownInv, ValuesTyped, SaidSinceLinked, CacheKept
<1>6. ASSUME NEW j
      PROVE  /\ Relevant(j)' => Relevant(j)
             /\ \A w : WillKnow(j, w) => WillKnow(j, w)'
  BY <1>2, KnownKept, WillKnowKept, SameItself
<1>7. CacheIsKnown'
  <2> SUFFICES ASSUME NEW j \in Caching \cap Misc!Kinds, cache[j] # Misc!NoValue,
                      Misc!Receive(j, cache[j]) # Misc!NoValue, j \notin missed, Relevant(j)'
               PROVE  WillKnow(j, Misc!Receive(j, cache[j]))'
    BY <1>2 DEF CacheIsKnown
  <2>1. WillKnow(j, Misc!Receive(j, cache[j]))
    BY <1>4, <1>6 DEF KnownInv, CacheIsKnown
  <2> QED
    BY <1>2, <1>6, <2>1
<1>8. SaidIsKnown'
  <2> SUFFICES ASSUME NEW j \in Misc!Kinds, said[j] # Misc!NoValue, j \notin missed, Relevant(j)'
               PROVE  WillKnow(j, Misc!Receive(j, said[j]))'
    BY <1>2 DEF SaidIsKnown
  <2>1. WillKnow(j, Misc!Receive(j, said[j]))
    BY <1>4, <1>6 DEF KnownInv, SaidIsKnown
  <2> QED
    BY <1>2, <1>6, <2>1
<1> QED
  BY <1>5, <1>7, <1>8 DEF KnownInv

\* A message that is dropped repeats what the HAL knows already.
LEMMA ComparesKnown ==
  ASSUME ShotInv, KnownInv, Misc!CallbackCompares
  PROVE  KnownInv'
<1> DEFINE k == callback.kind
           v == callback.value
<1>1. /\ callback.step = "entered" /\ callback \in Message
      /\ UNCHANGED <<power, linked, received, known, said, hud>>
  BY DEF Misc!CallbackCompares, ShotInv, MessagesTyped
<1>2. k # "none"
  BY <1>1 DEF ShotInv, MessagesTyped
<1>3. /\ k \in Misc!Kinds /\ v \in AllValues /\ v # Misc!NoValue
  BY <1>1, <1>2 DEF Message, KnownInv, ValuesTyped
<1>4. ASSUME NEW j
      PROVE  /\ Underway(j) <=> (j = k /\ Misc!Receive(k, v) # Misc!NoValue)
             /\ Relevant(j)' => Relevant(j)
             /\ \A w : WillKnow(j, w) => WillKnow(j, w)'
  BY <1>1, KnownKept, WillKnowKept, SameItself DEF Underway, Tells
<1>5. /\ cache \in [Misc!Kinds -> AllValues] /\ missed \subseteq Misc!Kinds
  BY DEF KnownInv, ValuesTyped
<1>6. CASE Misc!IsNotifyEnabled(k, v)
  <2>1. /\ cache' = Misc!Cached(k, v)
        /\ missed' = IF Misc!Receive(k, v) = Misc!NoValue THEN missed ELSE missed \ {k}
        /\ callback' = [callback EXCEPT !.step = "compared"]
    BY <1>6 DEF Misc!CallbackCompares
  <2>2. callback'.kind = k /\ callback'.value = v /\ callback'.step = "compared"
    BY <1>1, <2>1 DEF Message
  <2>3. \A j : Underway(j)' <=> Underway(j)
    BY <1>4, <2>2 DEF Underway, Tells
  <2>4. /\ cache' \in [Misc!Kinds -> AllValues]
        /\ \A j \in Misc!Kinds : j # k => cache'[j] = cache[j]
        /\ cache'[k] = v \/ (cache' = cache /\ (k \notin Misc!Compared \cup Misc!Formats \/ v = "short"))
        /\ k \in Misc!Compared => cache'[k] = v
    BY <1>3, <1>5, <2>1 DEF Misc!Cached
  <2>5. Underway(k) /\ k \in Caching => cache'[k] = v
    <3>1. k \in Misc!Formats /\ Misc!Receive(k, v) # Misc!NoValue => v # "short"
      BY ShortFormat
    <3> QED
      BY <1>4, <2>4, <3>1 DEF Caching
  <2>6. /\ missed' \subseteq Misc!Kinds
        /\ \A j : j \notin missed' => j \notin missed \/ Underway(j)
    BY <1>4, <1>5, <2>1
  <2>7. ValuesTyped' /\ SaidSinceLinked' /\ CacheKept'
    <3>1. ValuesTyped'
      BY <1>1, <1>3, <2>2, <2>4, <2>6 DEF KnownInv, ValuesTyped
    <3>2. SaidSinceLinked'
      BY <1>1, <2>2, <2>3 DEF KnownInv, SaidSinceLinked
    <3>3. CacheKept'
      BY <1>4, <2>2, <2>3, <2>5 DEF CacheKept
    <3> QED
      BY <3>1, <3>2, <3>3
  <2>8. CacheIsKnown'
    <3> SUFFICES ASSUME NEW j \in Caching \cap Misc!Kinds, cache'[j] # Misc!NoValue,
                        Misc!Receive(j, cache'[j]) # Misc!NoValue, j \notin missed', Relevant(j)',
                        ~Underway(j)'
                 PROVE  WillKnow(j, Misc!Receive(j, cache[j]))'
      BY <2>2 DEF CacheIsKnown
    <3>1. ~Underway(j) /\ j \notin missed /\ Relevant(j)
      BY <1>4, <2>3, <2>6
    <3>2. cache'[j] = cache[j]
      BY <1>4, <2>4, <3>1
    <3>3. WillKnow(j, Misc!Receive(j, cache'[j]))
      BY <3>1, <3>2 DEF KnownInv, CacheIsKnown
    <3> QED
      BY <1>4, <3>3
  <2>9. SaidIsKnown'
    <3> SUFFICES ASSUME NEW j \in Misc!Kinds, said[j] # Misc!NoValue, j \notin missed', Relevant(j)',
                        ~Underway(j)'
                 PROVE  WillKnow(j, Misc!Receive(j, said[j]))'
      BY <1>1 DEF SaidIsKnown
    <3>1. WillKnow(j, Misc!Receive(j, said[j]))
      BY <1>4, <2>3, <2>6 DEF KnownInv, SaidIsKnown
    <3> QED
      BY <1>1, <1>4, <3>1
  <2> QED
    BY <2>7, <2>8, <2>9 DEF KnownInv
<1>7. CASE ~Misc!IsNotifyEnabled(k, v)
  <2>1. callback' = Misc!Idle /\ UNCHANGED <<cache, missed>>
    BY <1>7 DEF Misc!CallbackCompares
  <2>2. k \in Caching /\ v = cache[k]
    BY <1>7 DEF Misc!IsNotifyEnabled, Caching
  <2>3. \A j : ~Underway(j)'
    BY <2>1, NothingTells DEF Underway, Tells, Misc!Idle
  <2>4. ValuesTyped' /\ SaidSinceLinked' /\ CacheKept'
    BY <1>1, <2>1, <2>3 DEF KnownInv, ValuesTyped, SaidSinceLinked, CacheKept, Misc!Idle
  <2>5. CacheIsKnown'
    <3> SUFFICES ASSUME NEW j \in Caching \cap Misc!Kinds, cache[j] # Misc!NoValue,
                        Misc!Receive(j, cache[j]) # Misc!NoValue, j \notin missed, Relevant(j)'
                 PROVE  WillKnow(j, Misc!Receive(j, cache[j]))'
      BY <2>1 DEF CacheIsKnown
    <3>1. WillKnow(j, Misc!Receive(j, cache[j]))
      BY <1>1, <1>4 DEF KnownInv, CacheIsKnown
    <3> QED
      BY <1>4, <2>1, <3>1
  <2>6. SaidIsKnown'
    <3> SUFFICES ASSUME NEW j \in Misc!Kinds, said[j] # Misc!NoValue, j \notin missed, Relevant(j)'
                 PROVE  WillKnow(j, Misc!Receive(j, said[j]))'
      BY <1>1, <2>1 DEF SaidIsKnown
    <3>1. CASE ~Underway(j)
      BY <1>1, <1>4, <3>1 DEF KnownInv, SaidIsKnown
    <3>2. CASE Underway(j)
      <4>1. said[j] = v /\ j = k
        BY <1>4, <3>2 DEF KnownInv, SaidSinceLinked
      <4>2. WillKnow(j, Misc!Receive(j, cache[j]))
        BY <1>1, <1>3, <1>4, <2>2, <3>2, <4>1 DEF KnownInv, CacheIsKnown
      <4> QED
        BY <1>1, <1>4, <2>2, <4>1, <4>2
    <3> QED
      BY <3>1, <3>2
  <2> QED
    BY <2>4, <2>5, <2>6 DEF KnownInv
<1> QED
  BY <1>6, <1>7

LEMMA PostsKnown ==
  ASSUME ShotInv, KnownInv, Misc!NotifyReceiveEvent
  PROVE  KnownInv'
<1> DEFINE k == callback.kind
           v == callback.value
<1>1. /\ callback.step = "compared" /\ callback \in Message /\ received \in Seq(Message)
      /\ UNCHANGED <<power, linked, cache, known, said, hud>> /\ callback' = Misc!Idle
  BY DEF Misc!NotifyReceiveEvent, ShotInv, MessagesTyped
<1>2. k # "none"
  BY <1>1 DEF ShotInv, MessagesTyped
<1>3. k \in Misc!Kinds /\ v # Misc!NoValue
  BY <1>1, <1>2 DEF Message, KnownInv, ValuesTyped
<1>4. /\ \A j : ~Underway(j)'
      /\ \A j : Underway(j) <=> Tells(callback, j)
      /\ \A j : Underway(j) => j = k
  BY <1>1, NothingTells DEF Underway, Tells, Misc!Idle
<1>5. \A j : Misc!KnownOf(j)' = Misc!KnownOf(j) /\ (Relevant(j)' => Relevant(j))
  BY <1>1, KnownKept, SameItself
<1>6. SaidSinceLinked' /\ CacheKept'
  BY <1>1, <1>4 DEF KnownInv, SaidSinceLinked, CacheKept
<1>7. CASE Misc!Accepted
  <2>1. received' = Append(received, callback) /\ missed' = missed
    BY <1>7 DEF Misc!NotifyReceiveEvent
  <2>2. ASSUME NEW j
        PROVE  \A w :
                 /\ Underway(j) /\ w = Misc!Receive(j, v) => WillKnow(j, w)'
                 /\ ~Underway(j) /\ WillKnow(j, w) => WillKnow(j, w)'
    <3>1. Misc!KnownOf(j)' = Misc!KnownOf(j) /\ (Underway(j) <=> Tells(callback, j))
      BY <1>4, <1>5
    <3>2. ASSUME NEW e \in Message, received' = Append(received, e), NEW w
          PROVE  /\ Tells(e, j) /\ w = Misc!Receive(j, e.value) => WillKnow(j, w)'
                 /\ ~Tells(e, j) /\ WillKnow(j, w) => WillKnow(j, w)'
      BY <1>1, <3>1, <3>2, KnownAppended
    <3> QED
      BY <1>1, <2>1, <3>1, <3>2
  <2>3. ValuesTyped'
    <3>1. \A j \in DOMAIN received' : received'[j] = callback \/
            (j \in DOMAIN received /\ received'[j] = received[j])
      BY <1>1, <2>1
    <3> QED
      BY <1>1, <1>3, <2>1, <3>1 DEF KnownInv, ValuesTyped, Misc!Idle
  <2>4. CacheIsKnown'
    <3> SUFFICES ASSUME NEW j \in Caching \cap Misc!Kinds, cache[j] # Misc!NoValue,
                        Misc!Receive(j, cache[j]) # Misc!NoValue, j \notin missed, Relevant(j)'
                 PROVE  WillKnow(j, Misc!Receive(j, cache[j]))'
      BY <1>1, <2>1 DEF CacheIsKnown
    <3>1. CASE Underway(j)
      <4>1. cache[j] = v
        BY <1>1, <3>1 DEF KnownInv, CacheKept
      <4> QED
        BY <1>1, <2>2, <3>1, <4>1
    <3>2. CASE ~Underway(j)
      <4>1. WillKnow(j, Misc!Receive(j, cache[j]))
        BY <1>5, <3>2 DEF KnownInv, CacheIsKnown
      <4> QED
        BY <1>1, <2>2, <3>2, <4>1
    <3> QED
      BY <3>1, <3>2
  <2>5. SaidIsKnown'
    <3> SUFFICES ASSUME NEW j \in Misc!Kinds, said[j] # Misc!NoValue, j \notin missed, Relevant(j)'
                 PROVE  WillKnow(j, Misc!Receive(j, said[j]))'
      BY <1>1, <2>1 DEF SaidIsKnown
    <3>1. CASE Underway(j)
      <4>1. said[j] = v
        BY <3>1 DEF KnownInv, SaidSinceLinked
      <4> QED
        BY <1>1, <2>2, <3>1, <4>1
    <3>2. CASE ~Underway(j)
      <4>1. WillKnow(j, Misc!Receive(j, said[j]))
        BY <1>5, <3>2 DEF KnownInv, SaidIsKnown
      <4> QED
        BY <1>1, <2>2, <3>2, <4>1
    <3> QED
      BY <3>1, <3>2
  <2> QED
    BY <1>6, <2>3, <2>4, <2>5 DEF KnownInv
<1>8. CASE ~Misc!Accepted
  <2>1. received' = received /\ missed' = missed \cup {k}
    BY <1>8 DEF Misc!NotifyReceiveEvent
  <2>2. ASSUME NEW j
        PROVE  /\ \A w : WillKnow(j, w) => WillKnow(j, w)'
               /\ j \notin missed' => j \notin missed /\ ~Underway(j)
    BY <1>1, <1>4, <2>1, WillKnowKept, SameItself
  <2>3. ValuesTyped'
    BY <1>1, <1>3, <2>1 DEF KnownInv, ValuesTyped, Misc!Idle
  <2>4. CacheIsKnown'
    <3> SUFFICES ASSUME NEW j \in Caching \cap Misc!Kinds, cache[j] # Misc!NoValue,
                        Misc!Receive(j, cache[j]) # Misc!NoValue, j \notin missed', Relevant(j)'
                 PROVE  WillKnow(j, Misc!Receive(j, cache[j]))'
      BY <1>1 DEF CacheIsKnown
    <3>1. WillKnow(j, Misc!Receive(j, cache[j]))
      BY <1>5, <2>2 DEF KnownInv, CacheIsKnown
    <3> QED
      BY <1>1, <2>2, <3>1
  <2>5. SaidIsKnown'
    <3> SUFFICES ASSUME NEW j \in Misc!Kinds, said[j] # Misc!NoValue, j \notin missed', Relevant(j)'
                 PROVE  WillKnow(j, Misc!Receive(j, said[j]))'
      BY <1>1 DEF SaidIsKnown
    <3>1. WillKnow(j, Misc!Receive(j, said[j]))
      BY <1>5, <2>2 DEF KnownInv, SaidIsKnown
    <3> QED
      BY <1>1, <2>2, <3>1
  <2> QED
    BY <1>6, <2>3, <2>4, <2>5 DEF KnownInv
<1> QED
  BY <1>7, <1>8

LEMMA HudTells ==
  ASSUME NEW k \in Misc!HudKinds, NEW v, v # "short", v # Misc!NoValue
  PROVE  Misc!Receive(k, v) # Misc!NoValue
BY DEF Misc!HudKinds, Misc!Receive, Misc!NoValue

LEMMA KnownOfHud ==
  /\ \A k \in Misc!HudKinds : Misc!KnownOf(k) = HudKnown(hud, k) /\ Misc!KnownOf(k)' = HudKnown(hud', k)
  /\ \A k : k \notin Misc!HudKinds => Misc!KnownOf(k) = known[k] /\ Misc!KnownOf(k)' = known'[k]
BY HudKindsAre DEF Misc!KnownOf, HudKnown, Misc!HudKinds

\* The receivers make of a message what it tells, and of no other kind.
LEMMA TakesKnown ==
  ASSUME ShotInv, HudInv, KnownInv, NEW rejected \in SUBSET Misc!Parameters, NEW copied,
         Misc!ExecReceiveEvent(rejected, copied), NEW k \in Misc!Kinds, Relevant(k)
  PROVE  /\ Tells(Head(received), k) => Misc!KnownOf(k)' = Misc!Receive(k, Head(received).value)
         /\ ~Tells(Head(received), k) => Misc!KnownOf(k)' = Misc!KnownOf(k)
<1> DEFINE e == Head(received)
           v == e.value
           told == Misc!Receive(e.kind, v)
<1>1. /\ received \in Seq(Message) /\ received # <<>>
      /\ hud' = IF e.kind \in Misc!HudKinds THEN Misc!ReceiveHud(e.kind, v, rejected) ELSE hud
      /\ known' = IF told = Misc!NoValue \/ e.kind \in Misc!HudKinds THEN known
                  ELSE [known EXCEPT ![e.kind] = told]
  BY DEF Misc!ExecReceiveEvent, ShotInv, MessagesTyped
<1>2. e \in Message /\ 1 \in DOMAIN received /\ e = received[1]
  BY <1>1
<1>3. v \in AllValues /\ v # Misc!NoValue /\ DOMAIN known = Misc!Kinds
  BY <1>2 DEF Message, KnownInv, ValuesTyped
<1> HIDE DEF e
<1>4. CASE e.kind \in Misc!HudKinds
  <2>1. hud' = Misc!ReceiveHud(e.kind, v, rejected) /\ known' = known
    BY <1>1, <1>4
  <2>2. CASE k \notin Misc!HudKinds
    BY <1>4, <2>1, <2>2, KnownOfHud DEF Tells, e
  <2>3. CASE k \in Misc!HudKinds /\ v = "short"
    <3>1. hud' = hud
      BY <1>3, <1>4, <2>1, <2>3, ReceivesHud DEF HudInv
    <3>2. ~Tells(e, k)
      BY <2>3, NothingTells DEF Tells
    <3> QED
      BY <2>3, <3>1, <3>2, KnownOfHud DEF e
  <2>4. CASE k \in Misc!HudKinds /\ v # "short"
    <3>1. HudTold(hud, hud', e.kind, v)
      BY <1>3, <1>4, <2>1, <2>4, ReceivesHud DEF HudInv, Relevant
    <3>2. CASE k = e.kind
      <4>1. Tells(e, k)
        BY <1>3, <1>4, <2>4, <3>2, HudTells DEF Tells
      <4>2. Misc!KnownOf(k)' = Misc!Receive(k, v)
        BY <2>4, <3>1, <3>2, KnownOfHud DEF HudTold
      <4> QED
        BY <4>1, <4>2 DEF e
    <3>3. CASE k # e.kind
      <4>1. ~Tells(e, k)
        BY <3>3 DEF Tells
      <4>2. Misc!KnownOf(k)' = Misc!KnownOf(k)
        BY <2>4, <3>1, <3>3, KnownOfHud DEF HudTold
      <4> QED
        BY <4>1, <4>2 DEF e
    <3> QED
      BY <3>2, <3>3
  <2> QED
    BY <2>2, <2>3, <2>4
<1>5. CASE e.kind \notin Misc!HudKinds
  <2>1. hud' = hud
    BY <1>1, <1>5
  <2>2. CASE k \in Misc!HudKinds
    <3>1. ~Tells(e, k)
      BY <1>5, <2>2 DEF Tells
    <3> QED
      BY <2>1, <2>2, <3>1, KnownOfHud DEF e
  <2>3. CASE k \notin Misc!HudKinds /\ Tells(e, k)
    <3>1. e.kind = k /\ known' = [known EXCEPT ![k] = told]
      BY <1>1, <1>5, <2>3 DEF Tells
    <3>2. known'[k] = Misc!Receive(k, v)
      BY <1>3, <3>1
    <3> QED
      BY <2>3, <3>2, KnownOfHud DEF e
  <2>4. CASE k \notin Misc!HudKinds /\ ~Tells(e, k)
    <3>1. known'[k] = known[k]
      BY <1>1, <1>3, <2>4 DEF Tells
    <3> QED
      BY <2>4, <3>1, KnownOfHud DEF e
  <2> QED
    BY <2>2, <2>3, <2>4
<1> QED
  BY <1>4, <1>5

LEMMA ExecutesKnown ==
  ASSUME ShotInv, HudInv, KnownInv, NEW rejected \in SUBSET Misc!Parameters, NEW copied,
         Misc!ExecReceiveEvent(rejected, copied)
  PROVE  KnownInv'
<1>1. /\ received \in Seq(Message) /\ received # <<>> /\ received' = Tail(received)
      /\ UNCHANGED <<power, linked, callback, cache, said, missed>>
  BY DEF Misc!ExecReceiveEvent, ShotInv, MessagesTyped
<1>2. hud'.available = hud.available
  <2> DEFINE e == Head(received)
  <2>1. e \in Message
    BY <1>1
  <2>2. e.value \in AllValues
    BY <2>1 DEF Message
  <2>3. hud' = IF e.kind \in Misc!HudKinds THEN Misc!ReceiveHud(e.kind, e.value, rejected) ELSE hud
    BY DEF Misc!ExecReceiveEvent
  <2> HIDE DEF e
  <2> QED
    BY <2>2, <2>3, ReceivesHud DEF HudInv
<1>3. ASSUME NEW k \in Misc!Kinds, Relevant(k)'
      PROVE  /\ Relevant(k)
             /\ \A w : WillKnow(k, w) => WillKnow(k, w)'
  <2>1. Relevant(k)
    BY <1>2, <1>3 DEF Relevant
  <2> QED
    BY <1>1, <2>1, TakesKnown, KnownTaken
<1>4. \A j : Underway(j)' <=> Underway(j)
  BY <1>1 DEF Underway
<1>5. ValuesTyped' /\ SaidSinceLinked' /\ CacheKept'
  <2>1. \A j \in DOMAIN received' : j + 1 \in DOMAIN received /\ received'[j] = received[j + 1]
    BY <1>1
  <2>2. DOMAIN known' = Misc!Kinds
    BY DEF Misc!ExecReceiveEvent, KnownInv, ValuesTyped
  <2> QED
    BY <1>1, <1>4, <2>1, <2>2 DEF KnownInv, ValuesTyped, SaidSinceLinked, CacheKept
<1>6. CacheIsKnown'
  <2> SUFFICES ASSUME NEW j \in Caching \cap Misc!Kinds, cache[j] # Misc!NoValue,
                      Misc!Receive(j, cache[j]) # Misc!NoValue, j \notin missed, Relevant(j)',
                      ~(Underway(j)' /\ callback.step = "compared")
               PROVE  WillKnow(j, Misc!Receive(j, cache[j]))'
    BY <1>1 DEF CacheIsKnown
  <2>1. WillKnow(j, Misc!Receive(j, cache[j]))
    BY <1>3, <1>4 DEF KnownInv, CacheIsKnown
  <2> QED
    BY <1>1, <1>3, <2>1
<1>7. SaidIsKnown'
  <2> SUFFICES ASSUME NEW j \in Misc!Kinds, said[j] # Misc!NoValue, j \notin missed, Relevant(j)',
                      ~Underway(j)'
               PROVE  WillKnow(j, Misc!Receive(j, said[j]))'
    BY <1>1 DEF SaidIsKnown
  <2>1. WillKnow(j, Misc!Receive(j, said[j]))
    BY <1>3, <1>4 DEF KnownInv, SaidIsKnown
  <2> QED
    BY <1>1, <1>3, <2>1
<1> QED
  BY <1>5, <1>6, <1>7 DEF KnownInv

LEMMA SuspendsKnown ==
  ASSUME KnownInv, Misc!StrSuspend
  PROVE  KnownInv'
<1>1. /\ cache' = [k \in Misc!Kinds |-> Misc!NoValue] /\ said' = [k \in Misc!Kinds |-> Misc!NoValue]
      /\ missed' = {} /\ received' = <<>> /\ linked' = FALSE /\ UNCHANGED <<callback, known>>
  BY DEF Misc!StrSuspend, Misc!ReInit
<1>2. Misc!NoValue \in AllValues
  BY DEF AllValues
<1> QED
  BY <1>1, <1>2
  DEF KnownInv, ValuesTyped, SaidSinceLinked, CacheKept, CacheIsKnown, SaidIsKnown

\* Until the callback is registered nothing has been said.
LEMMA InitializesKnown ==
  ASSUME KnownInv, NEW done, Misc!InitializeMisc(done)
  PROVE  KnownInv'
<1>1. /\ power = "rising" /\ power' = "on"
      /\ UNCHANGED <<callback, received, known, said, hud>>
  BY DEF Misc!InitializeMisc
<1>2. \A k \in Misc!Kinds : said[k] = Misc!NoValue
  BY <1>1 DEF KnownInv, SaidSinceLinked
<1>3. SaidSinceLinked' /\ SaidIsKnown'
  BY <1>1, <1>2 DEF SaidSinceLinked, SaidIsKnown
<1>4. CASE UNCHANGED <<cache, missed>>
  <2>1. ValuesTyped' /\ CacheKept'
    BY <1>1, <1>4 DEF KnownInv, ValuesTyped, CacheKept, Underway
  <2>2. CacheIsKnown'
    <3> SUFFICES ASSUME NEW j \in Caching \cap Misc!Kinds, cache[j] # Misc!NoValue,
                        Misc!Receive(j, cache[j]) # Misc!NoValue, j \notin missed, Relevant(j)',
                        ~(Underway(j)' /\ callback.step = "compared")
                 PROVE  WillKnow(j, Misc!Receive(j, cache[j]))'
      BY <1>1, <1>4 DEF CacheIsKnown
    <3>1. WillKnow(j, Misc!Receive(j, cache[j]))
      BY <1>1 DEF KnownInv, CacheIsKnown, Underway, Relevant
    <3> QED
      BY <1>1, <1>4, <3>1, WillKnowKept, SameItself
  <2> QED
    BY <1>3, <2>1, <2>2 DEF KnownInv
<1>5. CASE cache' = [k \in Misc!Kinds |-> Misc!NoValue] /\ missed' = {}
  <2>1. Misc!NoValue \in AllValues
    BY DEF AllValues
  <2>2. ValuesTyped' /\ CacheKept' /\ CacheIsKnown'
    BY <1>1, <1>5, <2>1 DEF KnownInv, ValuesTyped, CacheKept, CacheIsKnown
  <2> QED
    BY <1>3, <2>2 DEF KnownInv
<1> QED
  BY <1>4, <1>5 DEF Misc!InitializeMisc, Misc!ReInit

LEMMA KnownInitial ==
  ASSUME Misc!Init
  PROVE  KnownInv
<1>1. /\ power = "rising" /\ linked = FALSE /\ callback = Misc!Idle /\ received = <<>>
      /\ cache = [k \in Misc!Kinds |-> Misc!NoValue] /\ known = cache /\ said = cache /\ missed = {}
  BY DEF Misc!Init
<1>2. Misc!NoValue \in AllValues
  BY DEF AllValues
<1>3. \A j : ~Underway(j)
  BY <1>1, NothingTells DEF Underway, Tells, Misc!Idle
<1> QED
  BY <1>1, <1>2, <1>3
  DEF KnownInv, ValuesTyped, SaidSinceLinked, CacheKept, CacheIsKnown, SaidIsKnown, Misc!Idle

LEMMA KnownStep ==
  ASSUME Misc!MiscAssumption, ShotInv, HudInv, KnownInv, [Misc!Next]_(Misc!miscVars)
  PROVE  KnownInv'
<1>1. CASE \E k \in topic : \E v \in Values[k] : Misc!MiconSends(k, v)
  BY <1>1, SendsKnown
<1>2. CASE \E id \in shot.asked, v \in Values["shot"] : Misc!MiconAnswers(id, v)
  BY <1>2, AnswersKnown
<1>3. CASE Misc!CallbackCompares
  BY <1>3, ComparesKnown
<1>4. CASE Misc!NotifyReceiveEvent
  BY <1>4, PostsKnown
<1>5. CASE \E rejected \in SUBSET Misc!Parameters, copied \in BOOLEAN :
             Misc!ExecReceiveEvent(rejected, copied)
  BY <1>5, ExecutesKnown
<1>6. CASE \E screen \in {0, 4}, path \in {"picture", "relative"},
              taken, timed \in BOOLEAN, busy \in 0..3 :
             Misc!ActionScreenCapture(screen, path, busy, taken, timed)
  BY <1>6, OthersKnown, SameItself DEF Misc!ActionScreenCapture
<1>7. CASE Misc!ShotTimerExpires \/ Misc!ShotTimerStops \/ Misc!ShotTimerPosts \/ Misc!OnShotTimer
  BY <1>7, OthersKnown, SameItself
  DEF Misc!ShotTimerExpires, Misc!ShotTimerStops, Misc!ShotTimerPosts, Misc!OnShotTimer
<1>8. CASE Misc!MuteSurfaceChanges \/ Misc!MuteSurfaceEvent
  BY <1>8, ChangesSurface, OthersKnown DEF Misc!MuteSurfaceChanges, Misc!MuteSurfaceEvent
<1>9. CASE Misc!SetSuspend \/ Misc!ResumeSystem
  BY <1>9, OthersKnown, SameItself DEF Misc!SetSuspend, Misc!ResumeSystem
<1>10. CASE Misc!StrSuspend
  BY <1>10, SuspendsKnown
<1>11. CASE \E done \in SUBSET {"status", "exec", "ccm", "data"} : Misc!InitializeMisc(done)
  BY <1>11, InitializesKnown
<1>12. CASE UNCHANGED Misc!miscVars
  BY <1>12, OthersKnown, SameItself DEF Misc!miscVars
<1> QED
  BY <1>1, <1>2, <1>3, <1>4, <1>5, <1>6, <1>7, <1>8, <1>9, <1>10, <1>11, <1>12, Zenon
  DEF Misc!Next

\* The messages that are dropped as repeated lose nothing: with none of a kind on its way,
\* the HAL knows the last one the MICON has sent since the callback was registered.
THEOREM LatestCorrect == Misc!Spec => []LatestIsKnown
<1>1. Misc!Init => ShotInv /\ HudInv /\ KnownInv
  BY ShotInitial, HudInitial, KnownInitial, MiscConstants
<1>2. ShotInv /\ HudInv /\ KnownInv /\ [Misc!Next]_(Misc!miscVars) => ShotInv' /\ HudInv' /\ KnownInv'
  BY ShotStep, HudStep, KnownStep, MiscConstants
<1>3. ShotInv /\ KnownInv => LatestIsKnown
  <2> SUFFICES ASSUME ShotInv, KnownInv, NEW k \in topic, said[k] # Misc!NoValue, k \notin missed,
                      k \in Misc!HudKinds => hud.available, callback.kind # k,
                      \A i \in DOMAIN received : received[i].kind # k
               PROVE  Misc!KnownOf(k) = Misc!Receive(k, said[k])
    BY DEF LatestIsKnown, Misc!LatestIsKnown
  <2>1. k \in Misc!Kinds
    BY DEF ShotInv, MessagesTyped
  <2>2. ~Underway(k) /\ \A i \in DOMAIN received : ~Tells(received[i], k)
    BY DEF Underway, Tells
  <2>3. WillKnow(k, Misc!Receive(k, said[k]))
    BY <2>1, <2>2 DEF KnownInv, SaidIsKnown, Relevant
  <2> QED
    BY <2>2, <2>3 DEF WillKnow
<1> QED
  BY <1>1, <1>2, <1>3, PTL DEF Misc!Spec

-----------------------------------------------------------------------------
(* The two channels together                                               *)

\* What is true of each channel by itself is true of it beside the other: a behaviour of
\* the two is one of either.
THEOREM EachChannelRuns == ChannelsSpec => Spec /\ Misc!Spec
<1>1. ChannelsInit => Init /\ Misc!Init
  BY DEF ChannelsInit
<1>2. [ChannelsNext]_<<channel, vars, miscVars>> => [Next]_vars
  BY DEF ChannelsNext
<1>3. [ChannelsNext]_<<channel, vars, miscVars>> => [Misc!Next]_(Misc!miscVars)
  BY DEF ChannelsNext, miscVars, Misc!miscVars
<1> QED
  BY <1>1, <1>2, <1>3, PTL DEF ChannelsSpec, Spec, Misc!Spec

=============================================================================
