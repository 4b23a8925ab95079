----------------------------- MODULE MostChannel -----------------------------
(***************************************************************************)
(* The rear seat entertainment (RSE) told over MOST what the displays      *)
(* show: CVhalMiconMostVideoInfo with its sequences of commands,           *)
(* CVhalNetSequenceManager, CVhalMiconCommMostControl and the part of      *)
(* CVhalMiconCommControl and CVhalTimer they use.                          *)
(*                                                                         *)
(* Everything but the timers' and the LS3 callbacks runs on the main       *)
(* thread; the callbacks post an event to its queue.  SendCmd's loop is    *)
(* one action per command, with sending set while it runs.  The suspend    *)
(* handshake around Suspend and Resume is StrHandshake; here a suspend     *)
(* empties the queue and refuses further events, as it does there.         *)
(*                                                                         *)
(* A timer event whose timer has been destroyed reads freed memory: the    *)
(* next timer of the same size is what it finds there, or nothing.         *)
(***************************************************************************)
EXTENDS Naturals, Sequences, FiniteSets, SequencesExt

CONSTANTS
  Paths,        \* the paths of the rear seats' own displays
  NoPath,       \* the empty path
  RearPaths,    \* the paths of the rear display, NoPath among them
  RseTypes,     \* VHAL_CONNECTED_RSE_* that use MOST
  MaxRequests,  \* bound: property requests
  MaxSuspends,  \* bound: suspends
  MaxEvents     \* bound: events in the queue when an answer arrives

ASSUME MostChannelAssumption ==
  /\ NoPath \notin Paths /\ NoPath \in RearPaths
  /\ RseTypes \subseteq {"DOP", "FULL"}
  /\ MaxRequests \in Nat /\ MaxSuspends \in Nat /\ MaxEvents \in Nat

MaxSends == 3             \* kMostCtrlApiCmdSendCountMax
Rse   == RseTypes \cup {"NONE"}
Op    == {"Result", "Error", "Processing"}
Names == {"off", "on", "source", "mode", "status", "mute", "unmute",
          "statusMute", "statusUnmute"}
Command == [name : Names, path : Paths \cup {NoPath}]
SeqId == {"SetFrontPath", "SetRsePathNotify", "ColdBoot", "RecoveryRse",
          "SetMuteRearDisp"}
Item  == [id : SeqId, cmds : Seq(Command)]
Key   == [function : {"activity", "mode", "other"}, path : Paths \cup {NoPath}]
NoKey     == [function |-> "none", path |-> NoPath]
Event == [type : {"tick", "deadTick", "response"}, key : {NoKey},
          op : {"none"}]
         \cup [type : {"ls3"}, key : Key, op : Op]

NoItem    == [id |-> "none", cmds |-> <<>>]
NoCommand == [name |-> "none", path |-> NoPath]

TimerEvent(t) == [type |-> t, key |-> NoKey, op |-> "none"]

VARIABLES
  rse,        \* connected_rse_
  resumed,    \* initialized_resume_
  initMost,   \* initialized_most_
  ls3,        \* ls3ctl_initialized_
  rsePath,    \* current_video_rear_rse_disp_path_
  prevRse,    \* prev_video_rear_rse_disp_path_
  rear,       \* current_video_rear_path_
  prevRear,   \* prev_video_rear_path_
  current,    \* p_current_sequence_item_, or NoItem
  queue,      \* sequence_list_
  sending,    \* the main thread is in SendCmd's loop
  item,       \* p_command_item_ of the send item, while its timer exists
  freed,      \* the command item points to has been destroyed
  timer,      \* the send item's entry of send_item_timer_list_
  count,      \* its time_cycle_count_
  response,   \* p_most_send_timer_ is running
  sent,       \* send_data_: what answers are compared with
  events,     \* the main thread's queue
  active,     \* sources the RSE has been told to turn on
  blinder,    \* the rear display's blinder
  muteSts, pathSts,  \* the status properties
  suspended,
  requests, suspends,
  cut,        \* history: a suspend hit the current sequence
  stale,      \* history: the list's timer has outlived its sequence
  refused,    \* history: a start was refused for the list's timer
  left        \* history: sources that may be left on, see ActiveIsShownOrLeft

seqVars   == <<current, queue, sending>>
sendVars  == <<item, freed, timer, count, refused>>
linkVars  == <<response, sent, active>>
pathVars  == <<rsePath, prevRse, rear, prevRear>>
stateVars == <<rse, resumed, initMost, ls3, suspended, suspends>>
stsVars   == <<blinder, muteSts, pathSts>>
history   == <<cut, stale, left>>
vars == <<seqVars, sendVars, linkVars, pathVars, stateVars, stsVars, history,
          events, requests>>

TypeOK ==
  /\ rse \in Rse
  /\ resumed \in BOOLEAN /\ initMost \in BOOLEAN /\ ls3 \in BOOLEAN
  /\ rsePath \in Paths \cup {NoPath} /\ prevRse \in Paths \cup {NoPath}
  /\ rear \in RearPaths /\ prevRear \in RearPaths
  /\ current \in Item \cup {NoItem} /\ queue \in Seq(Item)
  /\ sending \in BOOLEAN /\ freed \in BOOLEAN /\ refused \in BOOLEAN
  /\ item \in Command \cup {NoCommand}
  /\ timer \in {"none", "armed", "idle"} /\ count \in 0..MaxSends
  /\ response \in BOOLEAN
  /\ sent \in Key \cup {NoKey}
  /\ events \in Seq(Event)
  /\ active \subseteq Paths \cup {NoPath} /\ left \subseteq Paths \cup {NoPath}
  /\ blinder \in BOOLEAN /\ muteSts \in BOOLEAN
  /\ pathSts \in {"SUCCESS", "FAILED"}
  /\ suspended \in BOOLEAN /\ cut \in BOOLEAN /\ stale \in BOOLEAN
  /\ requests \in 0..MaxRequests /\ suspends \in 0..MaxSuspends

Init ==
  /\ rse = "NONE" /\ resumed \in BOOLEAN /\ initMost = FALSE /\ ls3 = FALSE
  /\ rsePath = NoPath /\ prevRse = NoPath
  /\ rear = NoPath /\ prevRear = NoPath
  /\ current = NoItem /\ queue = <<>> /\ sending = FALSE
  /\ item = NoCommand /\ freed = FALSE /\ refused = FALSE
  /\ timer = "none" /\ count = 0 /\ response = FALSE
  /\ sent = NoKey /\ events = <<>> /\ active = {}
  /\ blinder = FALSE /\ muteSts = FALSE /\ pathSts = "SUCCESS"
  /\ suspended = FALSE /\ requests = 0 /\ suspends = 0
  /\ cut = FALSE /\ stale = FALSE /\ left = {}

-----------------------------------------------------------------------------
(* The commands and the sequences they make up                             *)

\* A source of the rear seats' displays is turned off or on; answered.
SourceActivity(name, p) == [name |-> name, path |-> p]
\* What the front or the rear shows; a status, not answered.
CurrentVideoSource == [name |-> "source", path |-> NoPath]
\* The rear display's mode; answered.
VideoMode == [name |-> "mode", path |-> NoPath]
\* Mute of the rear display, not answered, and the report of it.
VideoMute(m)  == [name |-> IF m THEN "mute" ELSE "unmute", path |-> NoPath]
StatusMute(m) == [name |-> IF m THEN "statusMute" ELSE "statusUnmute",
                  path |-> NoPath]
StatusVpathRear == [name |-> "status", path |-> NoPath]

Responds(c) == c.name \in {"off", "on", "mode"}
IsStatus(c) == c.name \in {"status", "statusMute", "statusUnmute"}

\* FBlockID, InstID and FktID, by which an answer is recognised.
KeyOf(c) ==
  [function |-> CASE c.name \in {"off", "on"} -> "activity"
                  [] c.name = "mode" -> "mode"
                  [] OTHER -> "other",
   path |-> c.path]

\* RegistryCallBack: the functions whose answers LS3 hands over.
AnswerKeys == {KeyOf(SourceActivity("on", p)) : p \in Paths} \cup {KeyOf(VideoMode)}

\* Seeded fault: the source shown before is not turned off.
CreateCommandItem_NoOff(id, disp, m) ==
  CASE id = "SetFrontPath" -> <<CurrentVideoSource>>
    [] id = "SetRsePathNotify" ->
         (IF disp \notin {prevRse, NoPath}
            THEN <<SourceActivity("on", disp)>> ELSE <<>>)
         \o <<CurrentVideoSource, VideoMode, StatusVpathRear>>
    [] id = "ColdBoot" -> <<CurrentVideoSource, VideoMode>>
    [] id = "RecoveryRse" ->
         (IF disp # NoPath THEN <<SourceActivity("on", disp)>> ELSE <<>>)
         \o <<CurrentVideoSource, VideoMode>>
    [] id = "SetMuteRearDisp" -> <<VideoMute(m), StatusMute(m)>>

\* The commands of a sequence, fixed when it is created; disp is the rear
\* seats' path by then.
CreateCommandItem(id, disp, m) ==
  CASE id = "SetFrontPath" -> <<CurrentVideoSource>>
    [] id = "SetRsePathNotify" ->
         (IF prevRse \notin {disp, NoPath}
            THEN <<SourceActivity("off", prevRse)>> ELSE <<>>)
         \o (IF disp \notin {prevRse, NoPath}
               THEN <<SourceActivity("on", disp)>> ELSE <<>>)
         \o <<CurrentVideoSource, VideoMode, StatusVpathRear>>
    [] id = "ColdBoot" -> <<CurrentVideoSource, VideoMode>>
    [] id = "RecoveryRse" ->
         (IF disp # NoPath THEN <<SourceActivity("on", disp)>> ELSE <<>>)
         \o <<CurrentVideoSource, VideoMode>>
    [] id = "SetMuteRearDisp" -> <<VideoMute(m), StatusMute(m)>>

CreateSequenceItem(id, disp, m) ==
  [id |-> id, cmds |-> CreateCommandItem(id, disp, m)]

Told(name, cmds) == {c.path : c \in {d \in ToSet(cmds) : d.name = name}}
ToldBy(name, q) == UNION {Told(name, s.cmds) : s \in ToSet(q)}

\* A recovery turns on the source that is set, notified or not.
Unnotified(s) == IF s.id = "RecoveryRse" THEN Told("on", s.cmds) \ {prevRse} ELSE {}

\* The waiting request of a kind, of which there is one at most, or 0.
Waiting(id) ==
  IF \E i \in DOMAIN queue : queue[i].id = id
    THEN CHOOSE i \in DOMAIN queue : queue[i].id = id
    ELSE 0

\* EraseSequence: what is left without it.
EraseSequence(i) == IF i = 0 THEN queue ELSE RemoveAt(queue, i)

\* A waiting request of the same kind is dropped for the new one.
QueueSequence(s) ==
  LET i == Waiting(s.id)
  IN /\ queue' = Append(EraseSequence(i), s)
     /\ left' = left \cup Unnotified(s)
                     \cup (IF i = 0 THEN {} ELSE Told("off", queue[i].cmds))

\* Behind the current sequence, or at once.
SendSequenceItem(s) ==
  \/ /\ current # NoItem
     /\ QueueSequence(s)
     /\ UNCHANGED <<current, sending>>
  \/ /\ current = NoItem
     /\ current' = s /\ sending' = TRUE
     /\ left' = left \cup Unnotified(s) \cup ToldBy("on", queue)
     /\ UNCHANGED queue

-----------------------------------------------------------------------------
(* Sending one command                                                     *)

Connected == rse # "NONE"

\* Ls3CtlApiSndCmd may fail fifteen times; without an RSE nothing is sent and
\* that is a success.
SendResults ==
  CASE ~resumed -> {FALSE}
    [] resumed /\ ~Connected -> {TRUE}
    [] resumed /\ Connected /\ ~ls3 -> {FALSE}
    [] OTHER -> BOOLEAN

\* Seeded fault: the ten second timer is not started.
Send_NoResponseTimer(c, ok) ==
  LET tried == resumed /\ Connected /\ ls3 /\ c # NoCommand
      done  == tried /\ ok
  IN /\ sent' = IF tried THEN KeyOf(c) ELSE sent
     /\ active' = CASE done /\ c.name = "on" -> active \cup {c.path}
                    [] done /\ c.name = "off" -> active \ {c.path}
                    [] OTHER -> active
     /\ blinder' = (blinder \/ (tried /\ ~ok /\ c.name \in {"mute", "unmute"}))
     /\ UNCHANGED response

\* What was sent is kept to compare answers with; a success starts the ten
\* second timer, which here can always be started; a mute that cannot be sent
\* covers the rear display.
Send(c, ok) ==
  LET tried == resumed /\ Connected /\ ls3 /\ c # NoCommand
      done  == tried /\ ok
  IN /\ sent' = IF tried THEN KeyOf(c) ELSE sent
     /\ response' = (response \/ done)
     /\ active' = CASE done /\ c.name = "on" -> active \cup {c.path}
                    [] done /\ c.name = "off" -> active \ {c.path}
                    [] OTHER -> active
     /\ blinder' = (blinder \/ (tried /\ ~ok /\ c.name \in {"mute", "unmute"}))

\* UpdateMostRsePathStatus: ok for the sequence that has come to its report.
UpdateMostRsePathStatus(ok) ==
  pathSts' = IF ok THEN "SUCCESS" ELSE "FAILED"

\* UpdateMostMuteRearDispStatus: the mute asked for, sent or not.
UpdateMostMuteRearDispStatus(m) == muteSts' = m

\* ReceiveEvent: the report among cmds, if there is one.
ReceiveEvent(ok, cmds) ==
  LET names == {c.name : c \in ToSet(cmds)}
  IN /\ IF "status" \in names THEN UpdateMostRsePathStatus(ok)
                              ELSE UNCHANGED pathSts
     /\ IF names \cap {"statusMute", "statusUnmute"} # {}
          THEN UpdateMostMuteRearDispStatus("statusMute" \in names)
          ELSE UNCHANGED muteSts

\* The current sequence ends in failure with the commands cmds left.
ClearCurrentSequenceItem(cmds) ==
  /\ current' = NoItem
  /\ left' = left \cup Told("off", cmds)
  /\ ReceiveEvent(FALSE, cmds)

\* The list's timer is deleted; its event, if it is queued, is not.
Orphaned(ev) ==
  [i \in DOMAIN ev |-> IF ev[i] = TimerEvent("tick")
                         THEN TimerEvent("deadTick") ELSE ev[i]]

\* Seeded fault: the entry stays in the list.
SendIntervalEnd_KeepsEntry(ev) ==
  /\ timer' = IF timer = "none" THEN "none" ELSE "idle"
  /\ events' = ev
  /\ UNCHANGED <<count, item, stale>>

\* ev is what the queue holds besides.
SendIntervalEnd(ev) ==
  IF resumed /\ timer # "none"
    THEN /\ timer' = "none" /\ count' = 0 /\ item' = NoCommand
         /\ events' = Orphaned(ev)
         /\ stale' = FALSE
    ELSE /\ events' = ev
         /\ UNCHANGED <<timer, count, item, stale>>

\* A command that is answered: sent now, and again every 200 ms by a timer,
\* unless the list still holds the send item.
SendIntervalStart(c, ok) ==
  /\ ok = (timer = "none" /\ ok)
  /\ IF resumed /\ timer = "none" THEN Send(c, ok)
                                  ELSE UNCHANGED <<linkVars, blinder>>
  /\ IF ok THEN timer' = "armed" /\ count' = 1
           ELSE UNCHANGED <<timer, count>>
  /\ refused' = (refused \/ (resumed /\ timer # "none" /\ ~stale))

\* SendCmdInterval: a command that could not be started is destroyed.
SendCmdInterval ==
  LET c == Head(current.cmds)
  IN \E ok \in SendResults :
       /\ SendIntervalStart(c, ok)
       /\ item' = IF timer' = "none" THEN NoCommand ELSE c
       /\ freed' = ~ok
       /\ sending' = FALSE
       /\ IF ok THEN /\ current' = [current EXCEPT !.cmds = Tail(@)]
                     /\ UNCHANGED <<left, pathSts, muteSts>>
                ELSE ClearCurrentSequenceItem(current.cmds)
       /\ UNCHANGED <<queue, cut, stale, events>>

\* SendCmdOneshot: a command that is not answered.
SendCmdOneshot ==
  LET c == Head(current.cmds)
  IN \E ok \in SendResults :
       /\ Send(c, ok)
       /\ item' = IF timer = "none" THEN NoCommand ELSE c
       /\ freed' = ~ok
       /\ IF ok THEN /\ current' = [current EXCEPT !.cmds = Tail(@)]
                     /\ UNCHANGED <<left, pathSts, muteSts>>
                ELSE ClearCurrentSequenceItem(current.cmds)
       /\ UNCHANGED <<queue, sending, timer, count, refused, cut, stale,
                      events>>

\* The report at the end of a sequence.
SendStatus ==
  /\ ReceiveEvent(TRUE, <<Head(current.cmds)>>)
  /\ current' = [current EXCEPT !.cmds = Tail(@)]
  /\ UNCHANGED <<queue, sending, sendVars, linkVars, blinder, history, events>>

\* Seeded fault: the loop ends with the current sequence.
NextSequence_Stops ==
  /\ current' = NoItem /\ sending' = FALSE
  /\ UNCHANGED queue

\* The sequence is done; the next one, or the loop is over.
NextSequence ==
  IF queue = <<>> THEN current' = NoItem /\ sending' = FALSE /\ UNCHANGED queue
                  ELSE current' = Head(queue) /\ queue' = Tail(queue)
                       /\ UNCHANGED sending

\* One turn of SendCmd's loop.
SendCmd ==
  /\ sending
  /\ \/ /\ current.cmds # <<>>
        /\ LET c == Head(current.cmds)
           IN \/ IsStatus(c) /\ SendStatus
              \/ Responds(c) /\ SendCmdInterval
              \/ ~IsStatus(c) /\ ~Responds(c) /\ SendCmdOneshot
     \/ /\ current.cmds = <<>>
        /\ NextSequence
        /\ UNCHANGED <<sendVars, linkVars, stsVars, history, events>>
  /\ UNCHANGED <<pathVars, stateVars, requests>>

-----------------------------------------------------------------------------
(* Property requests, on the main thread                                   *)

Idle == ~sending /\ ~suspended

Request == Idle /\ requests < MaxRequests /\ requests' = requests + 1

\* ActionVpathRearRseDisp, and the rear path's part of ActionVpathRearCurrent:
\* the paths are kept until they are notified.
SetRearPaths ==
  /\ Request
  /\ \/ rsePath' \in (Paths \cup {NoPath}) \ {rsePath} /\ UNCHANGED rear
     \/ rear' \in RearPaths \ {rear} /\ UNCHANGED rsePath
  /\ UNCHANGED <<seqVars, sendVars, linkVars, prevRse, prevRear, stateVars,
                 stsVars, history, events>>

\* ActionVpathRearCurrent's counterpart for the front.
SetFrontPath ==
  /\ Request
  /\ SendSequenceItem(CreateSequenceItem("SetFrontPath", rsePath, FALSE))
  /\ UNCHANGED <<sendVars, linkVars, pathVars, stateVars, stsVars, cut, stale,
                 events>>

\* A change of paths is notified; the result comes with the last command.
Reflect(disp) ==
  IF prevRse = disp /\ prevRear = rear
    THEN /\ pathSts' = "FAILED"
         /\ UNCHANGED <<seqVars, left, prevRse, prevRear>>
    ELSE /\ SendSequenceItem(CreateSequenceItem("SetRsePathNotify", disp, FALSE))
         /\ prevRse' = disp /\ prevRear' = rear
         /\ UNCHANGED pathSts

\* The client's message may set the rear seats' path to disp first.
ActionVpathRearRseNotify(disp) ==
  /\ Request
  /\ rsePath' = disp
  /\ IF Connected THEN Reflect(disp)
                  ELSE /\ pathSts' = "FAILED"
                       /\ UNCHANGED <<seqVars, left, prevRse, prevRear>>
  /\ UNCHANGED <<sendVars, linkVars, rear, stateVars, blinder, muteSts, cut,
                 stale, events>>

\* SetMuteRearDisp: the blinder at once, a DOP over MOST; ActionMuteRearDisp
\* reports it at once unless MOST will.
ActionMuteRearDisp(m) ==
  /\ Request
  /\ blinder' = m
  /\ IF rse = "DOP"
       THEN /\ SendSequenceItem(CreateSequenceItem("SetMuteRearDisp", rsePath, m))
            /\ UNCHANGED muteSts
       ELSE muteSts' = m /\ UNCHANGED <<seqVars, left>>
  /\ UNCHANGED <<sendVars, linkVars, pathVars, stateVars, pathSts, cut, stale,
                 events>>

\* SetConnectedRse(kDisConnected): nothing is told to an RSE that has gone.
\* The list's timer is left.
Disconnect ==
  /\ rse' = "NONE"
  /\ current' = NoItem /\ queue' = <<>>
  /\ ReceiveEvent(FALSE, current.cmds)
  /\ left' = left \cup Told("off", current.cmds) \cup ToldBy("off", queue)
  /\ cut' = FALSE
  /\ stale' = (timer # "none")
  /\ UNCHANGED <<initMost, ls3, sending, pathVars, blinder>>

\* InitializeMost and the cold boot's sequence, the first time an RSE is there.
ConnectFirst(type) ==
  \E opened \in IF resumed THEN BOOLEAN ELSE {FALSE}, cold \in BOOLEAN :
    /\ rse' = type
    /\ ls3' = opened /\ initMost' = opened
    /\ IF opened /\ cold
         THEN /\ SendSequenceItem(CreateSequenceItem("ColdBoot", rsePath, FALSE))
              /\ rsePath' = NoPath /\ rear' = NoPath
         ELSE UNCHANGED <<seqVars, left, rsePath, rear>>
    /\ UNCHANGED <<prevRse, prevRear>>

\* An RSE that is back is told the source that is set, notified or not.
Reconnect(type) ==
  /\ rse' = type
  /\ SendSequenceItem(CreateSequenceItem("RecoveryRse", rsePath, FALSE))
  /\ UNCHANGED <<initMost, ls3, pathVars>>

ActionSettingConnectedRSE(type) ==
  /\ Request
  /\ \/ type = "NONE" /\ Disconnect
     \/ /\ type # "NONE"
        /\ IF initMost THEN Reconnect(type)
                       ELSE ConnectFirst(type)
        /\ UNCHANGED <<pathSts, cut, stale>>
        \* A full RSE is unmuted: its mute is a GPIO.
        /\ blinder' = (blinder /\ type # "FULL")
        /\ UNCHANGED muteSts
  /\ UNCHANGED <<resumed, suspended, suspends, sendVars, linkVars, events>>

-----------------------------------------------------------------------------
(* Timers and answers                                                      *)

\* CallbackTimer: stops the timer and posts its event.
TimerExpires ==
  /\ timer = "armed" /\ ~suspended
  /\ timer' = "idle" /\ events' = Append(events, TimerEvent("tick"))
  /\ UNCHANGED <<seqVars, item, freed, count, refused, linkVars, pathVars,
                 stateVars, stsVars, history, requests>>

\* Ten seconds without a send: longer than any interval of 200 ms.
ResponseExpires ==
  /\ response /\ ~suspended
  /\ timer # "armed" /\ TimerEvent("tick") \notin ToSet(events)
  /\ response' = FALSE /\ events' = Append(events, TimerEvent("response"))
  /\ UNCHANGED <<seqVars, sendVars, sent, active, pathVars, stateVars,
                 stsVars, history, requests>>

\* The LS3 callback posts what the RSE answers: late, twice or unasked for.
Ls3CtlCallback(k, op) ==
  /\ ls3 /\ Len(events) < MaxEvents
  /\ events' = Append(events, [type |-> "ls3", key |-> k, op |-> op])
  /\ UNCHANGED <<seqVars, sendVars, linkVars, pathVars,
                 stateVars, stsVars, history, requests>>

\* The current sequence fails and SendCmd goes on with the next.
FailAndContinue ==
  /\ ClearCurrentSequenceItem(current.cmds)
  /\ sending' = TRUE
  /\ UNCHANGED queue

\* OnTimer of the list's timer: send again and start again, or give up after
\* the third time.  Freed memory may hold the command still, or nothing.
OnTimer ==
  \/ /\ count < MaxSends
     /\ \E ok \in SendResults, c \in {item} \cup (IF freed THEN {NoCommand} ELSE {}) :
          Send(c, ok)
     /\ timer' = "armed" /\ count' = count + 1
     /\ events' = Tail(events)
     /\ UNCHANGED <<seqVars, item, stale, cut, left, pathSts, muteSts>>
  \/ /\ count = MaxSends
     /\ response' = FALSE
     /\ SendIntervalEnd(Tail(events))
     /\ FailAndContinue
     /\ UNCHANGED <<sent, active, cut, blinder>>

RunTimer ==
  /\ Idle /\ events # <<>>
  /\ \/ Head(events) = TimerEvent("tick") /\ OnTimer
     \/ Head(events) = TimerEvent("deadTick") /\ timer # "none" /\ OnTimer
     \/ /\ Head(events) = TimerEvent("deadTick")
        /\ events' = Tail(events)
        /\ UNCHANGED <<seqVars, timer, count, item, linkVars, stsVars, history>>
  /\ UNCHANGED <<freed, refused, pathVars, stateVars, requests>>

\* CVhalMostSendTimer::OnTimerImpl: no answer within ten seconds.
RunResponse ==
  /\ Idle /\ events # <<>> /\ Head(events) = TimerEvent("response")
  /\ events' = Tail(events)
  /\ FailAndContinue
  /\ stale' = (stale \/ timer # "none")
  /\ UNCHANGED <<sendVars, linkVars, pathVars, stateVars, blinder, cut,
                 requests>>

\* ExecReceiveEventLs3Data: is this an answer to what was sent last?
Matches(e) == e.key = sent

\* ReceiveLs3Data: any answer ends the repetition; a result goes on with the
\* sequence, an error ends it, and processing leaves the ten seconds to it.
ReceiveLs3Data(op) ==
  /\ SendIntervalEnd(Tail(events))
  /\ response' = (response /\ op = "Processing")
  /\ \/ op = "Result" /\ sending' = TRUE
        /\ UNCHANGED <<current, queue, left, pathSts, muteSts>>
     \/ op = "Error" /\ FailAndContinue
     \/ op = "Processing" /\ UNCHANGED <<seqVars, left, pathSts, muteSts>>

RunLs3Data ==
  /\ Idle /\ events # <<>> /\ Head(events).type = "ls3"
  /\ IF Matches(Head(events))
       THEN ReceiveLs3Data(Head(events).op)
       ELSE /\ events' = Tail(events)
            /\ UNCHANGED <<seqVars, timer, count, item, response, stale, left,
                           pathSts, muteSts>>
  /\ UNCHANGED <<freed, refused, sent, active, pathVars, stateVars,
                 blinder, cut, requests>>

-----------------------------------------------------------------------------
(* Suspend to RAM                                                          *)

\* FinalizeSuspend stops the timers, closes LS3 and leaves the list; ReInit
\* clears the paths and leaves the sequences.  Queued events are deleted.
FinalizeSuspend ==
  /\ Idle /\ suspends < MaxSuspends
  /\ suspended' = TRUE /\ suspends' = suspends + 1
  /\ timer' = IF timer = "armed" THEN "idle" ELSE timer
  /\ ls3' = FALSE /\ sent' = NoKey /\ response' = FALSE
  /\ resumed' = FALSE
  /\ events' = <<>>
  /\ rsePath' = NoPath /\ prevRse' = NoPath
  /\ rear' = NoPath /\ prevRear' = NoPath
  /\ blinder' = TRUE
  /\ cut' = (cut \/ current # NoItem)
  /\ stale' = (stale \/ timer # "none")
  /\ left' = left \cup ({prevRse} \cap Paths)
  /\ UNCHANGED <<rse, initMost, seqVars, item, freed, count, refused, active, muteSts, pathSts, requests>>

\* InitializeResume, which may fail; the rear blinder goes with the rear
\* display in use.
InitializeResume ==
  /\ suspended /\ suspended' = FALSE
  /\ resumed' \in BOOLEAN
  /\ blinder' \in {blinder, FALSE}
  /\ UNCHANGED <<rse, initMost, ls3, suspends, seqVars, sendVars, linkVars,
                 pathVars, muteSts, pathSts, history, events, requests>>

-----------------------------------------------------------------------------
RunEvent == RunTimer \/ RunResponse \/ RunLs3Data

Next ==
  \/ SendCmd
  \/ SetRearPaths \/ SetFrontPath
  \/ \E disp \in Paths \cup {NoPath} : ActionVpathRearRseNotify(disp)
  \/ \E m \in BOOLEAN : ActionMuteRearDisp(m)
  \/ \E type \in Rse : ActionSettingConnectedRSE(type)
  \/ TimerExpires \/ ResponseExpires
  \/ \E k \in AnswerKeys, op \in Op : Ls3CtlCallback(k, op)
  \/ RunEvent
  \/ FinalizeSuspend \/ InitializeResume

Spec == Init /\ [][Next]_vars

-----------------------------------------------------------------------------
(* Properties                                                              *)

\* A sequence that waits for an answer is watched by the ten second timer or
\* its event: whatever the RSE answers, or does not, it comes to an end.  A
\* suspend in the middle of a sequence takes the timer and leaves the
\* sequence.
WaitingIsTimed ==
  (~sending /\ current # NoItem /\ ~cut)
    => response \/ TimerEvent("response") \in ToSet(events)

\* A sequence waits in the list only behind a current one, or behind nothing
\* once an answered command could not be started: SendCmd then leaves its loop
\* and the list waits for whatever calls SendCmd next.
QueuedBehindCurrent == ~sending /\ current = NoItem /\ queue # <<>> => freed

\* A source the RSE was told to turn on is the one shown last, or is about to
\* be turned off, or its "off" was left: with a sequence that was dropped for
\* a newer one, failed, or was forgotten by a disconnection or a suspend.
ActiveIsShownOrLeft ==
  \A p \in active :
    \/ p = prevRse \/ p \in left
    \/ p \in Told("off", current.cmds) \cup ToldBy("off", queue)

\* The repetition of a command is refused only for a timer that has outlived
\* its sequence: through a disconnection, a suspend, or an answer that came
\* with the end of the ten seconds.
RefusedOnlyWhenStale == ~refused
=============================================================================
