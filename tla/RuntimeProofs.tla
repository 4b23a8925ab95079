---------------------------- MODULE RuntimeProofs ----------------------------
(***************************************************************************)
(* Proofs about the three components every request passes through on the   *)
(* server: the main loop (EventLoop), the opening of SysDB (SysdbStartup)  *)
(* and the video paths (VideoPath).  They share no variable; one module    *)
(* extends the three and proves each by itself, for any clients, paths,    *)
(* threads, keys and bounds.                                               *)
(***************************************************************************)
EXTENDS EventLoop, SysdbStartup, VideoPath, TLAPS

-----------------------------------------------------------------------------
(***************************************************************************)
(* The main loop                                                           *)
(***************************************************************************)

-----------------------------------------------------------------------------
(* What epoll reports                                                      *)

\* An entry of a poll has its source's type, and a client's entry is there
\* only while the client is connected; a source has at most one.
LEMMA ReadyEntries ==
  ASSUME LoopAssumption
  PROVE  /\ Ready \in SUBSET Entry
         /\ \A e \in Ready : e.src \in Clients => conn[e.src] = "open"
         /\ \A e, f \in Ready : e.src = f.src => e = f
<1>1. ASSUME NEW s \in Source  PROVE HungUp(s) \in BOOLEAN
  BY DEF HungUp
<1>2. ASSUME NEW s \in Clients, Readable(s) \/ HungUp(s)  PROVE conn[s] = "open"
  <2>1. s \notin Route /\ s # "server"  BY LoopAssumption DEF LoopAssumption, Route
  <2>. QED  BY <1>2, <2>1 DEF Readable, HungUp
<1>. QED  BY <1>1, <1>2 DEF Ready, Entry

\* The main thread takes an entry away and adds none.
LEMMA TakeShrinks ==
  ASSUME NEW e, Take(e)
  PROVE  /\ batch' \subseteq batch /\ drop' \subseteq drop
         /\ Dropping => batch' = batch /\ e \in drop
         /\ ~Dropping => mode = "batch" /\ e \in batch /\ batch' = batch \ {e}
BY DEF Take, Dropping

-----------------------------------------------------------------------------
(* Types                                                                   *)

LEMMA LoopEndsType ==
  ASSUME LoopTyped, LoopEnds
  PROVE  /\ mode' = "ended" /\ batch' \in SUBSET Entry /\ drop' \in SUBSET Entry
         /\ queue' \in [Route -> Seq(Event)]
         /\ conn' \in [Clients -> {"away", "pending", "open", "deaf"}]
         /\ gone' \in SUBSET Clients /\ sock' \in SUBSET Clients
         /\ subs' \in SUBSET Clients /\ owed' \in SUBSET Clients /\ updated' \in BOOLEAN
<1>1. queue' \in [Route -> Seq(Event)]
  <2>1. <<>> \in Seq(Event)  OBVIOUS
  <2>. QED  BY <2>1 DEF LoopEnds
<1>2. conn' \in [Clients -> {"away", "pending", "open", "deaf"}]  BY DEF LoopEnds
<1>. QED  BY <1>1, <1>2 DEF LoopEnds

\* Posting an event to a route.
LEMMA AppendType ==
  ASSUME LoopTyped, NEW r \in Route, NEW e \in Event
  PROVE  [queue EXCEPT ![r] = Append(@, e)] \in [Route -> Seq(Event)]
<1>1. Append(queue[r], e) \in Seq(Event)  BY DEF LoopTyped
<1>. QED  BY <1>1 DEF LoopTyped

LEMMA TypeStep == ASSUME LoopAssumption, LoopTyped, [LoopNext]_serverVars PROVE LoopTyped'
<1>. USE DEF LoopTyped, propVars, connVars, loopVars, waitVars
<1>1. CASE Poll \/ EndBatch \/ DropEvents
  <2>1. Ready \in SUBSET Entry  BY ReadyEntries
  <2>2. CASE Poll  BY <2>1, <2>2 DEF Poll
  <2>3. CASE EndBatch  BY <2>3 DEF EndBatch
  <2>4. CASE DropEvents  BY <2>1, <2>4 DEF DropEvents
  <2>. QED  BY <1>1, <2>2, <2>3, <2>4
<1>2. CASE ServerExec
  <2>1. conn' \in [Clients -> {"away", "pending", "open", "deaf"}]
    BY <1>2 DEF ServerExec, AcceptClient
  <2>. QED  BY <1>2, <2>1, TakeShrinks DEF ServerExec
<1>3. ASSUME NEW r \in Route, RouteExec(r)  PROVE LoopTyped'
  <2>1. batch' \in SUBSET Entry /\ drop' \in SUBSET Entry  BY <1>3, TakeShrinks DEF RouteExec
  <2>2. /\ Head(queue[r]) \in Event /\ queue' \in [Route -> Seq(Event)]
    BY <1>3 DEF RouteExec, ReadEvent
  <2>3. Head(queue[r]).n \in Nat  BY <2>2 DEF Event
  <2>. QED  BY <1>3, <2>1, <2>2, <2>3
            DEF RouteExec, RouteDrops, RoutePower, RouteChange, StrStateEvent, Publish
<1>4. CASE RouteHungUp
  BY <1>4, LoopEndsType DEF RouteHungUp
<1>5. CASE DropsHangUp
  BY <1>5, TakeShrinks DEF DropsHangUp
<1>6. ASSUME NEW c \in Clients, ClientHungUp(c)  PROVE LoopTyped'
  <2>1. batch' \in SUBSET Entry /\ drop' \in SUBSET Entry  BY <1>6, TakeShrinks DEF ClientHungUp
  <2>. QED  BY <1>6, <2>1 DEF ClientHungUp, ClientDisconnected
<1>7. ASSUME NEW c \in Clients, UseDangling(c)  PROVE LoopTyped'
  BY <1>7 DEF UseDangling
<1>8. ASSUME NEW c \in Clients, ClientExec(c)  PROVE LoopTyped'
  <2>1. batch' \in SUBSET Entry /\ drop' \in SUBSET Entry  BY <1>8, TakeShrinks DEF ClientExec
  <2>2. subs' \in SUBSET Clients /\ owed' \in SUBSET Clients /\ updated' \in BOOLEAN
    BY <1>8 DEF ClientExec, ClientSet, SetValueComplete, Publish, Subscribers, ClientGet,
                ClientSubscribe, ClientUnSubscribe
  <2>. QED  BY <1>8, <2>1, <2>2 DEF ClientExec
<1>9. CASE Park \/ Unpark \/ StrResume
  BY <1>9 DEF Park, Unpark, StrResume
<1>10. CASE WaitNext
  BY <1>10 DEF WaitNext, Wait, WaitReturns, WaitTimesOut, pfmUnchanged
<1>11. CASE VehiclePowerState
  <2>1. calls' \in Nat /\ Power(calls') \in Event  BY <1>11 DEF VehiclePowerState, Power, Event
  <2>2. queue' \in [Route -> Seq(Event)] /\ pfm' \in {"idle", "posted"}
    BY <1>11, <2>1, AppendType DEF VehiclePowerState, Route
  <2>. QED  BY <1>11, <2>1, <2>2 DEF VehiclePowerState, pfmUnchanged
<1>12. CASE SuspendStart
  <2>1. Other("str") \in Event  BY DEF Other, Event
  <2>2. queue' \in [Route -> Seq(Event)]  BY <1>12, <2>1, AppendType DEF SuspendStart, Route
  <2>. QED  BY <1>12, <2>2 DEF SuspendStart, pfmUnchanged
<1>13. CASE ResumeStart \/ ResumeTimesOut \/ ExitEventLoop
  BY <1>13 DEF ResumeStart, ResumeTimesOut, ExitEventLoop, pfmUnchanged
<1>14. CASE WriteEvent
  <2>1. Other("change") \in Event  BY DEF Other, Event
  <2>2. queue' \in [Route -> Seq(Event)]  BY <1>14, <2>1, AppendType DEF WriteEvent, Route
  <2>. QED  BY <1>14, <2>2 DEF WriteEvent, envUnchanged
<1>15. ASSUME NEW c \in Clients, Connect(c) \/ Send(c) \/ HangUp(c)  PROVE LoopTyped'
  <2>1. conn' \in [Clients -> {"away", "pending", "open", "deaf"}]
    BY <1>15 DEF Connect, Send, HangUp
  <2>2. sock' \in SUBSET Clients /\ gone' \in SUBSET Clients  BY <1>15 DEF Connect, Send, HangUp
  <2>3. exit' = exit /\ queue' = queue /\ envUnchanged
    BY <1>15 DEF Connect, Send, HangUp
  <2>. QED  BY <2>1, <2>2, <2>3 DEF envUnchanged
<1>16. CASE UNCHANGED serverVars
  BY <1>16 DEF serverVars
<1>. QED  BY <1>1, <1>2, <1>3, <1>4, <1>5, <1>6, <1>7, <1>8, <1>9, <1>10, <1>11, <1>12, <1>13,
             <1>14, <1>15, <1>16 DEF LoopNext, MainNext, PfmNext, EnvNext

LEMMA InitType == ASSUME LoopAssumption, LoopInit PROVE LoopTyped
<1>1. queue \in [Route -> Seq(Event)]
  <2>1. <<>> \in Seq(Event)  OBVIOUS
  <2>. QED  BY <2>1 DEF LoopInit
<1>2. conn \in [Clients -> {"away", "pending", "open", "deaf"}]  BY DEF LoopInit
<1>. QED  BY <1>1, <1>2 DEF LoopInit, LoopTyped

(* Every variable of the main loop keeps its type.                         *)
THEOREM LoopTypeCorrect == LoopSpec => []LoopTyped
<1>1. LoopInit => LoopTyped  BY LoopAssumption, InitType
<1>2. LoopTyped /\ [LoopNext]_serverVars => LoopTyped'  BY LoopAssumption, TypeStep
<1>. QED  BY <1>1, <1>2, PTL DEF LoopSpec

-----------------------------------------------------------------------------
(* The outer batch                                                         *)

\* A source has at most one entry in the batch.
OneEntryEach == \A e, f \in batch : e.src = f.src => e = f

BatchInv == LoopTyped /\ BatchIsLive /\ OneEntryEach

\* A client goes only when the entry in hand is its only one, or the nested
\* DropEvents writes its name down.
LEMMA DisconnectedKeepsBatch ==
  ASSUME BatchInv, LoopAssumption, NEW c \in Clients, ClientHungUp(c)
  PROVE  BatchIsLive' /\ OneEntryEach'
<1>. DEFINE e == [src |-> c, hup |-> TRUE]
<1>1. /\ Take(e) /\ conn' = [conn EXCEPT ![c] = "away"] /\ e.src = c
      /\ dangling' = IF Dropping /\ (\E f \in batch : f.src = c)
                     THEN dangling \cup {c} ELSE dangling
  BY DEF ClientHungUp, ClientDisconnected
<1>2. batch' \subseteq batch /\ dangling \subseteq dangling'
  BY <1>1, TakeShrinks
<1>3. OneEntryEach'  BY <1>2 DEF BatchInv, OneEntryEach
<1>4. ASSUME NEW f \in batch', f.src \in Clients, f.src # c
      PROVE  conn'[f.src] = "open" \/ f.src \in dangling'
  BY <1>1, <1>2, <1>4 DEF BatchInv, LoopTyped, BatchIsLive
<1>5. ASSUME NEW f \in batch', f.src = c  PROVE c \in dangling'
  <2>1. CASE Dropping
    BY <1>1, <1>2, <1>5, <2>1
  <2>2. CASE ~Dropping
    <3>1. e \in batch /\ batch' = batch \ {e}  BY <1>1, <2>2, TakeShrinks
    <3>. QED  BY <1>1, <1>5, <3>1 DEF BatchInv, OneEntryEach
  <2>. QED  BY <2>1, <2>2
<1>6. BatchIsLive'  BY <1>4, <1>5 DEF BatchIsLive
<1>. QED  BY <1>3, <1>6

LEMMA BatchStep == ASSUME LoopAssumption, BatchInv, [LoopNext]_serverVars PROVE BatchInv'
<1>type. LoopTyped /\ LoopTyped'  BY TypeStep DEF BatchInv
\* What most steps do: the batch may shrink, no client is closed.
<1>quiet. ASSUME batch' \subseteq batch, dangling' = dangling,
                 \A c \in Clients : conn[c] = "open" => conn'[c] = "open"
          PROVE  BatchInv'
  BY <1>type, <1>quiet DEF BatchInv, BatchIsLive, OneEntryEach
<1>1. CASE Poll
  <2>1. batch' = Ready /\ conn' = conn  BY <1>1 DEF Poll, connVars
  <2>. QED  BY <1>type, <2>1, ReadyEntries DEF BatchInv, BatchIsLive, OneEntryEach
<1>2. CASE EndBatch
  <2>1. batch' = {}  BY <1>2 DEF EndBatch
  <2>. QED  BY <1>type, <2>1 DEF BatchInv, BatchIsLive, OneEntryEach
<1>3. CASE DropEvents \/ Park \/ Unpark \/ StrResume \/ WaitNext \/ PfmNext \/ WriteEvent
  BY <1>3, <1>quiet
     DEF DropEvents, Park, Unpark, StrResume, WaitNext, Wait, WaitReturns, WaitTimesOut, PfmNext,
         VehiclePowerState, SuspendStart, ResumeStart, ResumeTimesOut, ExitEventLoop, WriteEvent,
         pfmUnchanged, envUnchanged, connVars, loopVars
<1>4. CASE ServerExec
  <2>1. batch' \subseteq batch /\ dangling' = dangling  BY <1>4, TakeShrinks DEF ServerExec
  <2>2. \A c \in Clients : conn[c] = "open" => conn'[c] = "open"
    BY <1>4, <1>type DEF ServerExec, AcceptClient, LoopTyped
  <2>. QED  BY <1>quiet, <2>1, <2>2
<1>5. ASSUME NEW r \in Route, RouteExec(r)  PROVE BatchInv'
  <2>1. batch' \subseteq batch  BY <1>5, TakeShrinks DEF RouteExec
  <2>. QED  BY <1>5, <1>quiet, <2>1 DEF RouteExec, connVars
<1>6. CASE RouteHungUp
  <2>1. batch' = {}  BY <1>6 DEF RouteHungUp, LoopEnds
  <2>. QED  BY <1>type, <2>1 DEF BatchInv, BatchIsLive, OneEntryEach
<1>7. CASE DropsHangUp
  <2>1. batch' \subseteq batch  BY <1>7, TakeShrinks DEF DropsHangUp
  <2>. QED  BY <1>7, <1>quiet, <2>1 DEF DropsHangUp, connVars
<1>8. ASSUME NEW c \in Clients, ClientHungUp(c)  PROVE BatchInv'
  BY <1>8, <1>type, DisconnectedKeepsBatch DEF BatchInv
<1>9. ASSUME NEW c \in Clients, UseDangling(c)  PROVE BatchInv'
  BY <1>9, <1>quiet DEF UseDangling, connVars
<1>10. ASSUME NEW c \in Clients, ClientExec(c)  PROVE BatchInv'
  <2>1. batch' \subseteq batch  BY <1>10, TakeShrinks DEF ClientExec
  <2>. QED  BY <1>10, <1>quiet, <2>1 DEF ClientExec
<1>11. ASSUME NEW c \in Clients, Connect(c) \/ Send(c) \/ HangUp(c)  PROVE BatchInv'
  <2>1. batch' = batch /\ dangling' = dangling
    BY <1>11 DEF Connect, Send, HangUp, envUnchanged, loopVars
  <2>2. \A d \in Clients : conn[d] = "open" => conn'[d] = "open"
    BY <1>11, <1>type DEF Connect, Send, HangUp, LoopTyped
  <2>. QED  BY <1>quiet, <2>1, <2>2
<1>12. CASE UNCHANGED serverVars
  BY <1>12, <1>quiet DEF serverVars, connVars, loopVars
<1>. QED  BY <1>1, <1>2, <1>3, <1>4, <1>5, <1>6, <1>7, <1>8, <1>9, <1>10, <1>11, <1>12
          DEF LoopNext, MainNext, EnvNext

(* RunEventLoop hands an entry to a live client, or to one whose deletion  *)
(* by a nested DropEvents is known: the only use of a deleted client.      *)
THEOREM BatchCorrect == LoopSpec => []BatchIsLive
<1>1. LoopInit => BatchInv
  BY LoopAssumption, InitType DEF LoopInit, BatchInv, BatchIsLive, OneEntryEach
<1>2. BatchInv /\ [LoopNext]_serverVars => BatchInv'  BY LoopAssumption, BatchStep
<1>3. BatchInv => BatchIsLive  BY DEF BatchInv
<1>. QED  BY <1>1, <1>2, <1>3, PTL DEF LoopSpec

-----------------------------------------------------------------------------
(* Notifications                                                           *)

LEMMA SubscribersStep == SubscribersAreTold /\ [LoopNext]_serverVars => SubscribersAreTold'
<1>. SUFFICES ASSUME owed # {} => updated, [LoopNext]_serverVars
              PROVE  owed' # {} => updated'
  BY DEF SubscribersAreTold
<1>1. CASE UNCHANGED propVars
  BY <1>1 DEF propVars
<1>2. ASSUME NEW r \in Route, RouteExec(r)  PROVE owed' # {} => updated'
  <2>1. CASE UNCHANGED propVars  BY <1>1, <2>1
  <2>2. CASE RouteChange(r) \/ StrStateEvent(r)
    BY <2>2 DEF RouteChange, StrStateEvent, Publish
  <2>. QED  BY <1>2, <2>1, <2>2 DEF RouteExec, RouteDrops, RoutePower
<1>3. ASSUME NEW c \in Clients, ClientExec(c)  PROVE owed' # {} => updated'
  <2>1. CASE UNCHANGED propVars  BY <1>1, <2>1
  <2>2. CASE ClientSet
    <3>1. PICK changed \in BOOLEAN :
            \/ SetValueComplete(changed)
            \/ /\ updated' = (updated \/ changed)
               /\ owed' = (IF changed THEN Subscribers ELSE owed)
      BY <2>2 DEF ClientSet
    <3>2. CASE SetValueComplete(changed)
      BY <3>2 DEF SetValueComplete, Publish
    <3>3. CASE updated' = (updated \/ changed) /\ owed' = (IF changed THEN Subscribers ELSE owed)
      BY <3>3
    <3>. QED  BY <3>1, <3>2, <3>3
  <2>3. CASE ClientGet(c) \/ ClientSubscribe(c) \/ ClientUnSubscribe(c)
    BY <2>3 DEF ClientGet, ClientSubscribe, ClientUnSubscribe
  <2>. QED  BY <1>3, <2>1, <2>2, <2>3 DEF ClientExec
<1>4. ASSUME NEW c \in Clients, ClientHungUp(c)  PROVE owed' # {} => updated'
  BY <1>4 DEF ClientHungUp, ClientDisconnected
<1>5. CASE RouteHungUp
  BY <1>5 DEF RouteHungUp, LoopEnds
<1>6. CASE WaitNext \/ PfmNext \/ EnvNext
  BY <1>1, <1>6 DEF WaitNext, Wait, WaitReturns, WaitTimesOut, PfmNext, VehiclePowerState,
    SuspendStart, ResumeStart, ResumeTimesOut, ExitEventLoop, EnvNext, WriteEvent, Connect, Send,
    HangUp, pfmUnchanged, envUnchanged
<1>7. CASE Poll \/ EndBatch \/ DropEvents \/ ServerExec \/ DropsHangUp
           \/ (\E c \in Clients : UseDangling(c)) \/ Park \/ Unpark \/ StrResume \/ UNCHANGED serverVars
  BY <1>1, <1>7 DEF Poll, EndBatch, DropEvents, ServerExec, DropsHangUp, UseDangling, Park,
    Unpark, StrResume, serverVars
<1>. QED  BY <1>2, <1>3, <1>4, <1>5, <1>6, <1>7 DEF LoopNext, MainNext

(* A subscriber that was not told of a change is told with the next: the   *)
(* change of a client whose answer failed stays to be published, whoever   *)
(* disconnects, subscribes or reads in between.                            *)
THEOREM SubscribersCorrect == LoopSpec => []SubscribersAreTold
<1>1. LoopInit => SubscribersAreTold  BY DEF LoopInit, SubscribersAreTold
<1>. QED  BY <1>1, SubscribersStep, PTL DEF LoopSpec

-----------------------------------------------------------------------------
(* Power states                                                            *)

\* The route of the power states carries nothing else, each state once.  One that
\* is still there is the state the PFM thread waits for, or its wait has ended
\* without its own answer.
PowersInv ==
  LET q == queue["main"] IN
  /\ done <= calls
  /\ \A i \in DOMAIN q : q[i].kind = "power" /\ q[i].n <= calls
  /\ \A i, j \in DOMAIN q : q[i].n = q[j].n => i = j
  /\ \A i \in DOMAIN q :
       \/ q[i].n \in overdue
       \/ q[i].n = calls /\ pfm \in {"posted", "waiting"} /\ done # calls

\* The STR event is in its route at most once, while the PFM thread waits for it.
StrInv ==
  LET q == queue["prop"] IN
  /\ \A i \in DOMAIN q : q[i].kind \in {"str", "change"}
  /\ \A i \in DOMAIN q : q[i].kind = "str" => pfm = "strWait"
  /\ \A i, j \in DOMAIN q : q[i].kind = "str" /\ q[j].kind = "str" => i = j

AnswerInv == LoopTyped /\ PowersInv /\ StrInv /\ AnswerIsOwn

\* Reading a route keeps the others and moves its own events up.
LEMMA ReadShifts ==
  ASSUME LoopTyped, NEW r \in Route, ReadEvent(r)
  PROVE  /\ queue' = [queue EXCEPT ![r] = Tail(queue[r])]
         /\ Len(queue[r]) \in Nat \ {0} /\ DOMAIN queue[r] = 1..Len(queue[r])
         /\ DOMAIN queue'[r] = 1..(Len(queue[r]) - 1)
         /\ \A i \in DOMAIN queue'[r] : queue'[r][i] = queue[r][i + 1]
         /\ Head(queue[r]) = queue[r][1]
         /\ \A s \in Route \ {r} : queue'[s] = queue[s]
<1>1. queue \in [Route -> Seq(Event)] /\ queue[r] # <<>> /\ queue' = [queue EXCEPT ![r] = Tail(queue[r])]
  BY DEF LoopTyped, ReadEvent
<1>2. queue[r] \in Seq(Event) /\ queue'[r] = Tail(queue[r])
  BY <1>1
<1>. QED  BY <1>1, <1>2

\* Posting an event keeps the others.
LEMMA PostAdds ==
  ASSUME LoopTyped, NEW r \in Route, NEW e, queue' = [queue EXCEPT ![r] = Append(@, e)]
  PROVE  /\ Len(queue[r]) \in Nat /\ DOMAIN queue[r] = 1..Len(queue[r])
         /\ DOMAIN queue'[r] = 1..(Len(queue[r]) + 1)
         /\ \A i \in DOMAIN queue[r] : queue'[r][i] = queue[r][i]
         /\ queue'[r][Len(queue[r]) + 1] = e
         /\ \A s \in Route \ {r} : queue'[s] = queue[s]
<1>1. queue[r] \in Seq(Event) /\ queue'[r] = Append(queue[r], e)
  BY DEF LoopTyped
<1>. QED  BY <1>1 DEF LoopTyped

\* Reading an event of a route keeps what is known of those behind it.
LEMMA ReadKeeps ==
  ASSUME AnswerInv, NEW r \in Route, ReadEvent(r), pfm' = pfm, calls' = calls, overdue' = overdue,
         done' = done \/ (r = "main" /\ done' = Head(queue[r]).n)
  PROVE  PowersInv' /\ StrInv'
<1>. DEFINE q == queue["main"]
            p == queue["prop"]
<1>1. queue \in [Route -> Seq(Event)] /\ done \in Nat /\ calls \in Nat
  BY DEF AnswerInv, LoopTyped
<1>2. CASE r = "main"
  <2>1. /\ queue'["prop"] = p /\ Len(q) \in Nat \ {0} /\ DOMAIN q = 1..Len(q)
        /\ DOMAIN queue'["main"] = 1..(Len(q) - 1) /\ Head(q) = q[1]
        /\ \A i \in DOMAIN queue'["main"] : queue'["main"][i] = q[i + 1]
    BY <1>2, ReadShifts DEF AnswerInv, Route
  <2>2. \A i \in DOMAIN queue'["main"] : i + 1 \in DOMAIN q /\ i + 1 # 1  BY <2>1
  <2>3. 1 \in DOMAIN q  BY <2>1
  <2>4. \A i \in DOMAIN queue'["main"] : queue'["main"][i].n # q[1].n
    BY <2>1, <2>2, <2>3 DEF AnswerInv, PowersInv
  <2>5. done' <= calls  BY <1>2, <2>1, <2>3 DEF AnswerInv, PowersInv
  <2>6. ASSUME NEW i \in DOMAIN queue'["main"]
        PROVE  /\ queue'["main"][i].kind = "power" /\ queue'["main"][i].n <= calls
               /\ \/ queue'["main"][i].n \in overdue
                  \/ queue'["main"][i].n = calls /\ pfm \in {"posted", "waiting"} /\ done' # calls
    <3>1. i + 1 \in DOMAIN q /\ queue'["main"][i] = q[i + 1]  BY <2>1, <2>2
    <3>2. /\ q[i + 1].kind = "power" /\ q[i + 1].n <= calls
          /\ \/ q[i + 1].n \in overdue
             \/ q[i + 1].n = calls /\ pfm \in {"posted", "waiting"} /\ done # calls
      BY <3>1 DEF AnswerInv, PowersInv
    <3>3. q[i + 1].n = calls /\ done # calls => done' # calls  BY <1>2, <2>1, <2>4, <3>1
    <3>. QED  BY <3>1, <3>2, <3>3
  <2>7. ASSUME NEW i \in DOMAIN queue'["main"], NEW j \in DOMAIN queue'["main"],
               queue'["main"][i].n = queue'["main"][j].n
        PROVE  i = j
    <3>1. i + 1 = j + 1  BY <2>1, <2>2, <2>7 DEF AnswerInv, PowersInv
    <3>. QED  BY <2>1, <3>1
  <2>8. PowersInv'  BY <2>5, <2>6, <2>7 DEF PowersInv
  <2>9. StrInv'  BY <2>1 DEF AnswerInv, StrInv
  <2>. QED  BY <2>8, <2>9
<1>3. CASE r = "prop"
  <2>1. /\ queue'["main"] = q /\ Len(p) \in Nat \ {0} /\ DOMAIN p = 1..Len(p)
        /\ DOMAIN queue'["prop"] = 1..(Len(p) - 1)
        /\ \A i \in DOMAIN queue'["prop"] : queue'["prop"][i] = p[i + 1]
    BY <1>3, ReadShifts DEF AnswerInv, Route
  <2>2. \A i \in DOMAIN queue'["prop"] : i + 1 \in DOMAIN p  BY <2>1
  <2>3. \A i, j \in DOMAIN queue'["prop"] : i + 1 = j + 1 => i = j  BY <2>1
  <2>4. StrInv'  BY <2>1, <2>2, <2>3 DEF AnswerInv, StrInv
  <2>5. PowersInv'  BY <1>3, <2>1 DEF AnswerInv, PowersInv
  <2>. QED  BY <2>4, <2>5
<1>. QED  BY <1>2, <1>3 DEF Route

LEMMA RouteKeepsAnswers ==
  ASSUME AnswerInv, NEW r \in Route, RouteExec(r)
  PROVE  PowersInv' /\ StrInv' /\ AnswerIsOwn'
<1>1. ReadEvent(r) /\ calls' = calls /\ overdue' = overdue
  BY DEF RouteExec
<1>2. /\ Len(queue[r]) \in Nat \ {0} /\ DOMAIN queue[r] = 1..Len(queue[r])
      /\ Head(queue[r]) = queue[r][1] /\ 1 \in DOMAIN queue[r]
  <2>1. /\ Len(queue[r]) \in Nat \ {0} /\ DOMAIN queue[r] = 1..Len(queue[r])
        /\ Head(queue[r]) = queue[r][1]
    BY <1>1, ReadShifts DEF AnswerInv
  <2>. QED  BY <2>1
<1>3. CASE RouteDrops(r) \/ RouteChange(r)
  <2>1. UNCHANGED <<pfm, notify, done>>  BY <1>3 DEF RouteDrops, RouteChange
  <2>2. AnswerIsOwn'  BY <1>1, <2>1 DEF AnswerInv, AnswerIsOwn
  <2>. QED  BY <1>1, <2>1, <2>2, ReadKeeps
<1>4. CASE RoutePower(r)
  <2>1. /\ UNCHANGED pfm /\ done' = Head(queue[r]).n /\ Head(queue[r]).kind = "power"
    BY <1>4 DEF RoutePower
  <2>2. r = "main"
    BY <1>2, <2>1 DEF AnswerInv, StrInv, Route
  <2>3. done' = calls \/ done' \in overdue
    BY <1>2, <2>1, <2>2 DEF AnswerInv, PowersInv
  <2>4. AnswerIsOwn'  BY <1>1, <2>3 DEF AnswerIsOwn
  <2>. QED  BY <1>1, <2>1, <2>2, <2>4, ReadKeeps
<1>5. CASE StrStateEvent(r)
  <2>. DEFINE p == queue["prop"]
  <2>1. Head(queue[r]).kind = "str" /\ pfm' = "suspended" /\ UNCHANGED <<notify, done>>
    BY <1>5 DEF StrStateEvent
  <2>2. r = "prop"
    BY <1>2, <2>1 DEF AnswerInv, PowersInv, Route
  <2>3. pfm = "strWait" /\ p[1].kind = "str"
    BY <1>2, <2>1, <2>2 DEF AnswerInv, StrInv
  <2>4. /\ queue'["main"] = queue["main"]
        /\ DOMAIN queue'["prop"] = 1..(Len(p) - 1)
        /\ \A i \in DOMAIN queue'["prop"] : queue'["prop"][i] = p[i + 1]
    BY <1>1, <2>2, ReadShifts DEF AnswerInv, Route
  <2>5. PowersInv'  BY <1>1, <2>1, <2>3, <2>4 DEF AnswerInv, PowersInv
  <2>6. \A i \in DOMAIN queue'["prop"] : i + 1 \in DOMAIN p /\ i + 1 # 1
    BY <1>2, <2>2, <2>4
  <2>7. \A i \in DOMAIN queue'["prop"] : queue'["prop"][i].kind = "change"
    BY <1>2, <2>2, <2>3, <2>4, <2>6 DEF AnswerInv, StrInv
  <2>8. StrInv'  BY <2>7 DEF StrInv
  <2>9. AnswerIsOwn'  BY <2>1 DEF AnswerIsOwn
  <2>. QED  BY <2>5, <2>8, <2>9
<1>. QED  BY <1>3, <1>4, <1>5 DEF RouteExec

LEMMA PostKeepsAnswers ==
  ASSUME AnswerInv, VehiclePowerState \/ SuspendStart \/ WriteEvent
  PROVE  PowersInv' /\ StrInv' /\ AnswerIsOwn'
<1>. DEFINE q == queue["main"]
            p == queue["prop"]
<1>type. queue \in [Route -> Seq(Event)] /\ done \in Nat /\ calls \in Nat
         /\ \A i \in DOMAIN q : q[i].n \in Nat
  <2>1. queue \in [Route -> Seq(Event)] /\ done \in Nat /\ calls \in Nat
    BY DEF AnswerInv, LoopTyped
  <2>2. q \in Seq(Event)  BY <2>1 DEF Route
  <2>3. \A i \in DOMAIN q : q[i] \in Event  BY <2>2
  <2>. QED  BY <2>1, <2>3 DEF Event
<1>1. CASE VehiclePowerState
  <2>1. /\ pfm = "idle" /\ calls' = calls + 1 /\ UNCHANGED <<notify, done, overdue>>
    BY <1>1 DEF VehiclePowerState
  <2>2. \A i \in DOMAIN q : q[i].n \in overdue /\ q[i].n < calls' /\ q[i].kind = "power"
    BY <1>type, <2>1 DEF AnswerInv, PowersInv
  <2>3. \A i \in DOMAIN p : p[i].kind = "change"
    BY <2>1 DEF AnswerInv, StrInv
  <2>4. done < calls'  BY <1>type, <2>1 DEF AnswerInv, PowersInv
  <2>5. CASE GetSuspend
    <3>1. queue' = queue /\ pfm' = "idle"  BY <1>1, <2>1, <2>5 DEF VehiclePowerState
    <3>2. PowersInv'  BY <1>type, <2>1, <2>2, <2>4, <3>1 DEF AnswerInv, PowersInv
    <3>3. StrInv'  BY <2>3, <3>1 DEF StrInv
    <3>. QED  BY <3>1, <3>2, <3>3 DEF AnswerIsOwn
  <2>6. CASE ~GetSuspend
    <3>1. queue' = [queue EXCEPT !["main"] = Append(@, Power(calls'))] /\ pfm' = "posted"
      BY <1>1, <2>6 DEF VehiclePowerState
    <3>2. /\ Len(q) \in Nat /\ DOMAIN q = 1..Len(q) /\ DOMAIN queue'["main"] = 1..(Len(q) + 1)
          /\ \A i \in DOMAIN q : queue'["main"][i] = q[i]
          /\ queue'["main"][Len(q) + 1] = Power(calls') /\ queue'["prop"] = p
      BY <3>1, PostAdds DEF AnswerInv, Route
    <3>3. \A i \in DOMAIN queue'["main"] : i \in DOMAIN q \/ i = Len(q) + 1  BY <3>2
    <3>4. Power(calls').n = calls' /\ Power(calls').kind = "power"  BY DEF Power
    <3>5. ASSUME NEW i \in DOMAIN queue'["main"]
          PROVE  /\ queue'["main"][i].kind = "power" /\ queue'["main"][i].n <= calls'
                 /\ queue'["main"][i].n \in overdue' \/ queue'["main"][i].n = calls'
      BY <1>type, <2>1, <2>2, <3>2, <3>3, <3>4
    <3>6. ASSUME NEW i \in DOMAIN queue'["main"], NEW j \in DOMAIN queue'["main"],
                 queue'["main"][i].n = queue'["main"][j].n
          PROVE  i = j
      <4>1. CASE i \in DOMAIN q /\ j \in DOMAIN q
        BY <3>2, <3>6, <4>1 DEF AnswerInv, PowersInv
      <4>2. CASE i \in DOMAIN q /\ j = Len(q) + 1
        <5>1. q[i].n = calls'  BY <3>2, <3>4, <3>6, <4>2
        <5>. QED  BY <1>type, <2>1, <2>2, <4>2, <5>1
      <4>3. CASE j \in DOMAIN q /\ i = Len(q) + 1
        <5>1. q[j].n = calls'  BY <3>2, <3>4, <3>6, <4>3
        <5>. QED  BY <1>type, <2>1, <2>2, <4>3, <5>1
      <4>. QED  BY <3>3, <4>1, <4>2, <4>3
    <3>7. PowersInv'
      BY <1>type, <2>1, <2>4, <3>1, <3>5, <3>6 DEF PowersInv
    <3>8. StrInv'  BY <2>3, <3>2 DEF StrInv
    <3>. QED  BY <3>1, <3>7, <3>8 DEF AnswerIsOwn
  <2>. QED  BY <2>5, <2>6
<1>2. CASE SuspendStart
  <2>1. /\ pfm = "idle" /\ pfm' = "strWait" /\ UNCHANGED <<notify, calls, done, overdue>>
        /\ queue' = [queue EXCEPT !["prop"] = Append(@, Other("str"))]
    BY <1>2 DEF SuspendStart, waitVars
  <2>2. /\ Len(p) \in Nat /\ DOMAIN p = 1..Len(p) /\ DOMAIN queue'["prop"] = 1..(Len(p) + 1)
        /\ \A i \in DOMAIN p : queue'["prop"][i] = p[i]
        /\ queue'["prop"][Len(p) + 1] = Other("str") /\ queue'["main"] = q
    BY <2>1, PostAdds DEF AnswerInv, Route
  <2>3. \A i \in DOMAIN queue'["prop"] : i \in DOMAIN p \/ i = Len(p) + 1  BY <2>2
  <2>4. \A i \in DOMAIN p : p[i].kind = "change"  BY <2>1 DEF AnswerInv, StrInv
  <2>5. StrInv'  BY <2>1, <2>2, <2>3, <2>4 DEF StrInv, Other
  <2>6. PowersInv'  BY <2>1, <2>2 DEF AnswerInv, PowersInv
  <2>. QED  BY <2>1, <2>5, <2>6 DEF AnswerIsOwn
<1>3. CASE WriteEvent
  <2>1. /\ UNCHANGED <<pfm, notify, calls, done, overdue>>
        /\ queue' = [queue EXCEPT !["prop"] = Append(@, Other("change"))]
    BY <1>3 DEF WriteEvent, envUnchanged, waitVars
  <2>2. /\ Len(p) \in Nat /\ DOMAIN p = 1..Len(p) /\ DOMAIN queue'["prop"] = 1..(Len(p) + 1)
        /\ \A i \in DOMAIN p : queue'["prop"][i] = p[i]
        /\ queue'["prop"][Len(p) + 1] = Other("change") /\ queue'["main"] = q
    BY <2>1, PostAdds DEF AnswerInv, Route
  <2>3. \A i \in DOMAIN queue'["prop"] : i \in DOMAIN p \/ i = Len(p) + 1  BY <2>2
  <2>4. StrInv'  BY <2>1, <2>2, <2>3 DEF AnswerInv, StrInv, Other
  <2>5. PowersInv'  BY <2>1, <2>2 DEF AnswerInv, PowersInv
  <2>6. AnswerIsOwn'  BY <2>1 DEF AnswerInv, AnswerIsOwn
  <2>. QED  BY <2>4, <2>5, <2>6
<1>. QED  BY <1>1, <1>2, <1>3

LEMMA AnswerStep == ASSUME LoopAssumption, AnswerInv, [LoopNext]_serverVars PROVE AnswerInv'
<1>type. LoopTyped'  BY TypeStep DEF AnswerInv
<1>quiet. ASSUME UNCHANGED <<queue, pfm, notify, calls, done, overdue>>  PROVE AnswerInv'
  BY <1>type, <1>quiet DEF AnswerInv, PowersInv, StrInv, AnswerIsOwn
\* The PFM thread waits for no event before the step, and for no power state after it.
<1>calm. ASSUME UNCHANGED <<queue, notify, calls, done, overdue>>,
                pfm \notin {"posted", "waiting", "strWait"}, pfm' # "waiting"
         PROVE  AnswerInv'
  BY <1>type, <1>calm DEF AnswerInv, PowersInv, StrInv, AnswerIsOwn
<1>1. CASE \/ Poll \/ EndBatch \/ DropEvents \/ ServerExec \/ DropsHangUp \/ Park \/ Unpark
           \/ ExitEventLoop
           \/ \E c \in Clients : \/ ClientHungUp(c) \/ UseDangling(c) \/ ClientExec(c)
                                \/ Connect(c) \/ Send(c) \/ HangUp(c)
           \/ UNCHANGED serverVars
  BY <1>1, <1>quiet DEF Poll, EndBatch, DropEvents, ServerExec, DropsHangUp, Park, Unpark,
    ExitEventLoop, ClientHungUp, UseDangling, ClientExec, Connect, Send, HangUp, envUnchanged,
    waitVars, serverVars
<1>2. CASE StrResume
  <2>1. CASE pfm = "resuming"  BY <1>2, <1>calm, <2>1 DEF StrResume, waitVars
  <2>2. CASE pfm # "resuming"  BY <1>2, <1>quiet, <2>2 DEF StrResume, waitVars
  <2>. QED  BY <2>1, <2>2
<1>3. CASE ResumeStart \/ ResumeTimesOut
  BY <1>3, <1>calm DEF ResumeStart, ResumeTimesOut, waitVars
<1>4. CASE RouteHungUp
  <2>1. queue' = [r \in Route |-> <<>>] /\ UNCHANGED <<pfm, notify, calls, done, overdue>>
    BY <1>4 DEF RouteHungUp, LoopEnds, waitVars
  <2>2. DOMAIN queue'["main"] = {} /\ DOMAIN queue'["prop"] = {}  BY <2>1 DEF Route
  <2>. QED  BY <1>type, <2>1, <2>2 DEF AnswerInv, PowersInv, StrInv, AnswerIsOwn
<1>5. ASSUME NEW r \in Route, RouteExec(r)  PROVE AnswerInv'
  BY <1>5, <1>type, RouteKeepsAnswers DEF AnswerInv
<1>6. CASE VehiclePowerState \/ SuspendStart \/ WriteEvent
  BY <1>6, <1>type, PostKeepsAnswers DEF AnswerInv
<1>7. CASE Wait
  <2>1. /\ pfm = "posted" /\ pfm' = "waiting" /\ notify' = FALSE
        /\ UNCHANGED <<queue, calls, done, overdue>>
    BY <1>7 DEF Wait
  <2>. QED  BY <1>type, <2>1 DEF AnswerInv, PowersInv, StrInv, AnswerIsOwn
<1>8. CASE WaitReturns
  <2>1. /\ pfm = "waiting" /\ pfm' = "idle" /\ UNCHANGED <<queue, notify, calls, done>>
        /\ overdue' = (IF done = calls THEN overdue ELSE overdue \cup {calls})
    BY <1>8 DEF WaitReturns
  <2>. QED  BY <1>type, <2>1 DEF AnswerInv, PowersInv, StrInv, AnswerIsOwn
<1>9. CASE WaitTimesOut
  <2>1. /\ pfm = "waiting" /\ pfm' = "idle" /\ UNCHANGED <<queue, notify, calls, done>>
        /\ overdue' = overdue \cup {calls}
    BY <1>9 DEF WaitTimesOut
  <2>. QED  BY <1>type, <2>1 DEF AnswerInv, PowersInv, StrInv, AnswerIsOwn
<1>. QED  BY <1>1, <1>2, <1>3, <1>4, <1>5, <1>6, <1>7, <1>8, <1>9
          DEF LoopNext, MainNext, WaitNext, PfmNext, EnvNext

(* A power callback that returns in time was handled itself, or took the   *)
(* answer of one that had not got its own.                                 *)
THEOREM AnswerCorrect == LoopSpec => []AnswerIsOwn
<1>1. LoopInit => AnswerInv
  <2>. SUFFICES ASSUME LoopInit PROVE AnswerInv  OBVIOUS
  <2>1. DOMAIN queue["main"] = {} /\ DOMAIN queue["prop"] = {}  BY DEF LoopInit, Route
  <2>2. PowersInv /\ StrInv /\ AnswerIsOwn
    BY <2>1 DEF LoopInit, PowersInv, StrInv, AnswerIsOwn
  <2>. QED  BY <2>2, LoopAssumption, InitType DEF AnswerInv
<1>2. AnswerInv /\ [LoopNext]_serverVars => AnswerInv'  BY LoopAssumption, AnswerStep
<1>3. AnswerInv => AnswerIsOwn  BY DEF AnswerInv
<1>. QED  BY <1>1, <1>2, <1>3, PTL DEF LoopSpec

-----------------------------------------------------------------------------
(***************************************************************************)
(* The opening of SysDB                                                    *)
(***************************************************************************)

(* Every operation keeps every variable within its type.                   *)
THEOREM StartupTypeCorrect == StartupSpec => []StartupTyped
<1> USE SysdbAssumption
<1>1. StartupInit => StartupTyped
  <2> SUFFICES ASSUME StartupInit PROVE StartupTyped
    OBVIOUS
  <2>1. NoCall \in Call
    BY DEF Call
  <2>2. call \in [Callers -> Call] /\ list \in Seq(Write)
    BY <2>1 DEF StartupInit
  <2>3. db \in [Paths -> Values \cup {None}] /\ wanted \in [Paths -> Values \cup {None}]
    BY DEF StartupInit
  <2>4. main \in MainStep /\ opener \in {"main", "init", "none"}
    BY DEF StartupInit, MainStep
  <2>5. stage \in Stage
    BY DEF StartupInit, Stage, OpenStage
  <2>6. initObj \in BOOLEAN /\ terminate \in BOOLEAN /\ open \in BOOLEAN
    BY DEF StartupInit
  <2>7. tries \in Nat /\ pos \in Nat \ {0} /\ sets \in Nat
    BY DEF StartupInit
  <2>8. mtx \in Callers \cup {"init", "free"} /\ overlap \in SUBSET Paths
    BY DEF StartupInit
  <2> QED BY <2>2, <2>3, <2>4, <2>5, <2>6, <2>7, <2>8 DEF StartupTyped
<1>2. StartupTyped /\ [StartupNext]_startupVars => StartupTyped'
  <2> SUFFICES ASSUME StartupTyped, [StartupNext]_startupVars PROVE StartupTyped'
    OBVIOUS
  <2> USE DEF StartupTyped
  <2>give. ASSUME opener # "none", stage \in OpenStage \cup {"flushing"}, GiveUp
           PROVE  /\ main' \in MainStep /\ opener' \in {"main", "init", "none"}
                  /\ stage' \in Stage /\ tries' \in Nat /\ initObj' \in BOOLEAN
    <3>1. Resume(stage) \in Stage
      BY <2>give DEF Resume, Stage, OpenStage
    <3>2. CASE opener = "main"
      BY <2>give, <3>1, <3>2 DEF GiveUp, MainStep
    <3>3. CASE opener # "main"
      BY <2>give, <3>3 DEF GiveUp, Stage
    <3> QED BY <3>2, <3>3
  <2>1. ASSUME NEW p \in HdmiPaths, AddDefault(p) PROVE StartupTyped'
    <3>1. [path |-> p, value |-> Default] \in Write
      BY DEF Write
    <3> QED BY <2>1, <3>1 DEF AddDefault, openVars
  <2>2. CASE StartOpen
    BY <2>2 DEF StartOpen, MainStep, histVars
  <2>3. CASE AttemptSucceeds
    <3>1. After[stage] \in Stage
      BY <2>3 DEF AttemptSucceeds, OpenStage, After, Stage
    <3>2. (open \/ stage = "client") \in BOOLEAN
      OBVIOUS
    <3> QED BY <2>3, <3>1, <3>2 DEF AttemptSucceeds, histVars
  <2>4. CASE AttemptRetried
    BY <2>4 DEF AttemptRetried, histVars
  <2>5. CASE AttemptFails
    BY <2>5, <2>give DEF AttemptFails, histVars
  <2>6. CASE FlushBegin
    BY <2>6 DEF FlushBegin, Stage, histVars
  <2>7. CASE FlushWrite
    <3>1. list[pos] \in Write
      <4>1. pos \in 1..Len(list)
        BY <2>7 DEF FlushWrite
      <4> QED BY <4>1
    <3>2. list[pos].path \in Paths /\ list[pos].value \in Values
      BY <3>1 DEF Write
    <3>3. db' \in [Paths -> Values \cup {None}] /\ pos' \in Nat \ {0}
      BY <2>7, <3>2 DEF FlushWrite
    <3> QED BY <2>7, <3>3 DEF FlushWrite, histVars
  <2>8. CASE FlushFails
    BY <2>8, <2>give DEF FlushFails, histVars
  <2>9. CASE FlushEnd
    BY <2>9 DEF FlushEnd, Stage, MainStep, histVars
  <2>10. ASSUME NEW c \in Callers, NEW w \in Write, SetCheck(c, w) PROVE StartupTyped'
    BY <2>10 DEF SetCheck, Call, openVars, histVars
  <2>call. ASSUME NEW c \in Callers, call[c].op \in {"add", "write"} PROVE call[c].w \in Write
    BY <2>call DEF Call, NoCall
  <2>11. ASSUME NEW c \in Callers, SetAdd(c) \/ SetWrite(c) \/ SetFails(c) PROVE StartupTyped'
    <3>1. call[c].w \in Write /\ call[c].w.path \in Paths /\ call[c].w.value \in Values
      BY <2>11, <2>call DEF SetAdd, SetWrite, SetFails, Write
    <3>2. call' \in [Callers -> Call]
      BY <2>11 DEF SetAdd, SetWrite, SetFails, Call
    <3>3. list' \in Seq(Write)
      BY <2>11, <3>1 DEF SetAdd, SetWrite, SetFails
    <3>5. overlap' \in SUBSET Paths
      BY <2>11, <3>1 DEF SetAdd, SetWrite, SetFails, histVars
    <3>4. db' \in [Paths -> Values \cup {None}] /\ wanted' \in [Paths -> Values \cup {None}]
      BY <2>11, <3>1 DEF SetAdd, SetWrite, SetFails, Accept, histVars
    <3> QED BY <2>11, <3>2, <3>3, <3>4, <3>5 DEF SetAdd, SetWrite, SetFails, openVars, histVars
  <2>12. CASE Shutdown \/ FinalizeNext
    <3>1. CASE Shutdown \/ FinJoin \/ FinDelete
      BY <3>1 DEF Shutdown, FinJoin, FinDelete, MainStep, openVars, histVars
    <3>2. CASE FinLock
      BY <3>2 DEF FinLock, MainStep, openVars, histVars
    <3>3. CASE FinClose
      <4>1. list' \in Seq(Write)
        BY <3>3 DEF FinClose
      <4>2. open' \in BOOLEAN /\ mtx' \in Callers \cup {"init", "free"} /\ main' \in MainStep
        BY <3>3 DEF FinClose, MainStep
      <4> QED BY <3>3, <4>1, <4>2 DEF FinClose, openVars, histVars
    <3> QED BY <2>12, <3>1, <3>2, <3>3 DEF FinalizeNext
  <2>13. CASE UNCHANGED startupVars
    BY <2>13 DEF startupVars, openVars, histVars
  <2> QED BY <2>1, <2>2, <2>3, <2>4, <2>5, <2>6, <2>7, <2>8, <2>9, <2>10, <2>11, <2>12, <2>13
          DEF StartupNext, OpenNext, CallNext
<1> QED BY <1>1, <1>2, PTL DEF StartupSpec

-----------------------------------------------------------------------------
(* Nobody appends to the list while it is being written out, because the   *)
(* writer holds the mutex; and nobody opens SysDB twice.                   *)
ControlInv ==
  /\ main = "defaults" => opener = "none" /\ stage = "funcId"
  /\ stage = "done" => opener = "none"
  /\ stage = "flushing" => mtx = opener /\ opener # "none"
  /\ opener = "main" <=> main = "opening"
  /\ main \in {"finJoin", "finDelete", "finReenter", "finClose"} => mtx = "main"

\* Entry i of the list is the last one for p, it carries the last value
\* accepted, and while the list is being written it is still to come or done.
Carries(p, i) ==
  /\ LastQueued(p, i)
  /\ stage = "flushing" => i >= pos \/ db[p] = wanted[p]

ValueInv ==
  \A p \in Paths \ overlap : wanted[p] # None /\ main # "closed" =>
    IF stage = "done" THEN db[p] = wanted[p] ELSE \E i \in 1..Len(list) : Carries(p, i)

LEMMA ControlStep ==
  ASSUME SysdbAssumption, StartupTyped, ControlInv, [StartupNext]_startupVars
  PROVE  ControlInv'
<1> USE DEF StartupTyped, ControlInv
<1>1. ASSUME NEW p \in HdmiPaths, AddDefault(p) PROVE ControlInv'
  BY <1>1 DEF AddDefault, openVars
<1>2. CASE StartOpen
  BY <1>2 DEF StartOpen
<1>3. CASE AttemptSucceeds
  <2>1. stage' \in {"client", "eventId", "func", "evMng", "callback", "flush"}
    BY <1>3 DEF AttemptSucceeds, After, OpenStage
  <2> QED BY <1>3, <2>1 DEF AttemptSucceeds
<1>4. CASE AttemptRetried
  BY <1>4 DEF AttemptRetried
<1>give. ASSUME opener # "none", stage \in OpenStage \cup {"flushing"}, GiveUp
         PROVE  /\ stage' \notin {"done", "flushing"}
                /\ opener' # "main" /\ main' \notin {"defaults", "opening"}
                /\ \/ main' \in {"run", "finLock"}
                   \/ main' = main /\ opener # "main"
  <2>1. Resume(stage) \notin {"done", "flushing"}
    BY <1>give DEF Resume, OpenStage
  <2>2. CASE opener = "main"
    BY <1>give, <2>1, <2>2 DEF GiveUp
  <2>3. CASE opener # "main"
    BY <1>give, <2>3 DEF GiveUp
  <2> QED BY <2>2, <2>3
<1>5. CASE AttemptFails
  BY <1>5, <1>give DEF AttemptFails
<1>6. CASE FlushBegin
  BY <1>6 DEF FlushBegin
<1>7. CASE FlushWrite
  BY <1>7 DEF FlushWrite
<1>8. CASE FlushFails
  BY <1>8, <1>give DEF FlushFails
<1>9. CASE FlushEnd
  BY <1>9 DEF FlushEnd
<1>10. ASSUME NEW c \in Callers, (\E w \in Write : SetCheck(c, w)) \/ CallNext(c)
       PROVE  ControlInv'
  BY <1>10 DEF SetCheck, CallNext, SetAdd, SetWrite, SetFails, openVars
<1>11. CASE Shutdown \/ FinalizeNext
  BY <1>11 DEF Shutdown, FinalizeNext, FinLock, FinJoin, FinDelete, FinClose, openVars
<1>12. CASE UNCHANGED startupVars
  BY <1>12 DEF startupVars, openVars
<1> QED BY <1>1, <1>2, <1>3, <1>4, <1>5, <1>6, <1>7, <1>8, <1>9, <1>10, <1>11, <1>12
        DEF StartupNext, OpenNext

\* What one entry of the list means for one path, when neither changes.
LEMMA CarriesKept ==
  ASSUME NEW p \in Paths, NEW i \in 1..Len(list), Carries(p, i),
         UNCHANGED <<list, wanted, db, pos>>, stage' = "flushing" => stage = "flushing"
  PROVE  Carries(p, i)'
  BY DEF Carries, LastQueued

LEMMA ValueStep ==
  ASSUME SysdbAssumption, StartupTyped, StartupTyped', ControlInv, ControlInv', ValueInv, [StartupNext]_startupVars
  PROVE  ValueInv'
<1>type. /\ list \in Seq(Write) /\ Len(list) \in Nat /\ pos \in Nat \ {0}
         /\ db \in [Paths -> Values \cup {None}] /\ wanted \in [Paths -> Values \cup {None}]
         /\ overlap \in SUBSET Paths
  BY DEF StartupTyped
<1>ctl. /\ main = "defaults" => opener = "none" /\ stage = "funcId"
        /\ stage = "done" => opener = "none"
        /\ stage = "flushing" => mtx # "free"
  <2>1. stage = "flushing" => mtx = opener /\ opener # "none"
    BY DEF ControlInv
  <2> QED BY <2>1 DEF ControlInv, StartupTyped
<1> SUFFICES ASSUME NEW p \in Paths \ overlap', wanted'[p] # None, main' # "closed"
             PROVE  IF stage' = "done" THEN db'[p] = wanted'[p]
                    ELSE \E i \in 1..Len(list') : Carries(p, i)'
  BY DEF ValueInv
\* Steps that touch neither the list nor SysDB and do not enter or leave "done".
<1>same. ASSUME UNCHANGED <<list, wanted, db, pos, overlap>>, main # "closed",
                stage' = "flushing" => stage = "flushing",
                stage' = "done" <=> stage = "done"
         PROVE  IF stage' = "done" THEN db'[p] = wanted'[p]
                ELSE \E i \in 1..Len(list') : Carries(p, i)'
  <2>1. p \in Paths \ overlap /\ wanted[p] # None
    BY <1>same
  <2>2. CASE stage = "done"
    BY <1>same, <2>1, <2>2 DEF ValueInv
  <2>3. CASE stage # "done"
    <3>1. PICK i \in 1..Len(list) : Carries(p, i)
      BY <1>same, <2>1, <2>3 DEF ValueInv
    <3>2. Carries(p, i)'
      BY <1>same, <3>1, CarriesKept
    <3> QED BY <1>same, <2>3, <3>2
  <2> QED BY <2>2, <2>3
\* An entry appended to the list, while the list is not being written.
<1>append. ASSUME NEW e \in Write, list' = Append(list, e), UNCHANGED <<db, pos, stage>>,
                  stage \notin {"done", "flushing"}, main # "closed", overlap' = overlap,
                  wanted' = [wanted EXCEPT ![e.path] = e.value]
           PROVE  \E i \in 1..Len(list') : Carries(p, i)'
  <2>1. /\ Len(list') = Len(list) + 1 /\ list'[Len(list) + 1] = e
        /\ \A j \in 1..Len(list) : list'[j] = list[j]
    BY <1>append, <1>type
  <2>2. CASE p = e.path
    <3>1. PICK n \in 1..Len(list') : n = Len(list')
      BY <2>1, <1>type
    <3>2. Carries(p, n)'
      BY <1>append, <2>1, <2>2, <3>1, <1>type DEF Carries, LastQueued
    <3> QED BY <3>2
  <2>3. CASE p # e.path
    <3>1. wanted'[p] = wanted[p]
      BY <1>append, <2>3, <1>type
    <3>2. PICK i \in 1..Len(list) : Carries(p, i)
      BY <1>append, <3>1 DEF ValueInv
    <3>3. i \in 1..Len(list') /\ list'[i] = list[i]
      BY <2>1, <1>type
    <3>4. \A j \in (i + 1)..Len(list') : list'[j].path # p
      <4> SUFFICES ASSUME NEW j \in (i + 1)..Len(list') PROVE list'[j].path # p
        OBVIOUS
      <4>1. CASE j = Len(list) + 1
        BY <2>1, <2>3, <4>1
      <4>2. CASE j \in (i + 1)..Len(list)
        BY <2>1, <3>2, <4>2, <1>type DEF Carries, LastQueued
      <4> QED BY <2>1, <4>1, <4>2, <1>type
    <3>5. Carries(p, i)'
      BY <1>append, <3>1, <3>2, <3>3, <3>4 DEF Carries, LastQueued
    <3> QED BY <3>3, <3>5
  <2> QED BY <2>2, <2>3
<1>1. ASSUME NEW q \in HdmiPaths, AddDefault(q) PROVE \E i \in 1..Len(list') : Carries(p, i)'
  <2>1. [path |-> q, value |-> Default] \in Write
    BY SysdbAssumption DEF Write
  <2> QED BY <1>1, <2>1, <1>append, <1>ctl DEF AddDefault, openVars
<1>2. CASE StartOpen
  BY <1>2, <1>same DEF StartOpen, histVars
<1>3. CASE AttemptSucceeds
  <2>1. stage' \notin {"done", "flushing"} /\ stage # "done"
    BY <1>3 DEF AttemptSucceeds, After, OpenStage
  <2> QED BY <1>3, <2>1, <1>same, <1>ctl DEF AttemptSucceeds, histVars, StartupTyped, ControlInv
<1>4. CASE AttemptRetried
  BY <1>4, <1>same DEF AttemptRetried, histVars
\* A failed try leaves the list as it was, and the writing of it.
<1>give. ASSUME opener # "none", stage \in OpenStage \cup {"flushing"}, GiveUp
         PROVE  /\ stage' \notin {"done", "flushing"} /\ stage # "done"
                /\ main # "closed"
  <2>1. Resume(stage) \notin {"done", "flushing"} /\ stage # "done"
    BY <1>give DEF Resume, OpenStage
  <2>2. CASE opener = "main"
    BY <1>give, <2>1, <2>2 DEF GiveUp, ControlInv
  <2>3. CASE opener # "main"
    BY <1>give, <2>1, <2>3 DEF GiveUp
  <2> QED BY <2>2, <2>3
<1>5. CASE AttemptFails
  BY <1>5, <1>give, <1>same DEF AttemptFails, histVars
<1>6. CASE FlushBegin
  <2>1. p \in Paths \ overlap /\ wanted[p] # None /\ main # "closed" /\ stage # "done"
    BY <1>6 DEF FlushBegin, histVars
  <2>2. PICK i \in 1..Len(list) : Carries(p, i)
    BY <2>1 DEF ValueInv
  <2>3. Carries(p, i)'
    BY <1>6, <2>2, <1>type DEF FlushBegin, histVars, Carries, LastQueued
  <2> QED BY <1>6, <2>3 DEF FlushBegin
<1>7. CASE FlushWrite
  <2>1. /\ p \in Paths \ overlap /\ wanted[p] # None /\ main # "closed" /\ stage # "done"
        /\ stage = "flushing" /\ UNCHANGED <<list, wanted, stage>>
        /\ pos \in 1..Len(list) /\ pos' = pos + 1
        /\ db' = [db EXCEPT ![list[pos].path] = list[pos].value]
    BY <1>7, <1>type DEF FlushWrite, histVars
  <2>2. PICK i \in 1..Len(list) : Carries(p, i)
    BY <2>1 DEF ValueInv
  <2>3. i \in Nat /\ (i >= pos \/ db[p] = wanted[p]) /\ LastQueued(p, i)
    BY <2>1, <2>2 DEF Carries
  <2>4. i >= pos + 1 \/ db'[p] = wanted[p]
    <3>1. CASE i = pos
      BY <2>1, <2>3, <3>1, <1>type DEF LastQueued
    <3>2. CASE i < pos
      <4>1. list[pos].path # p
        BY <2>1, <2>3, <3>2, <1>type DEF LastQueued
      <4>2. db[p] = wanted[p]
        BY <2>3, <3>2, <1>type
      <4> QED BY <2>1, <4>1, <4>2, <1>type
    <3>3. CASE i > pos
      BY <2>3, <3>3, <1>type
    <3> QED BY <2>3, <3>1, <3>2, <3>3, <1>type
  <2>5. Carries(p, i)'
    BY <2>1, <2>3, <2>4 DEF Carries, LastQueued
  <2> QED BY <2>1, <2>5
<1>8. CASE FlushFails
  BY <1>8, <1>give, <1>same DEF FlushFails, histVars
<1>9. CASE FlushEnd
  <2>1. /\ p \in Paths \ overlap /\ wanted[p] # None /\ main # "closed"
        /\ stage = "flushing" /\ pos > Len(list) /\ stage' = "done"
        /\ UNCHANGED <<db, wanted>>
    BY <1>9, <1>ctl DEF FlushEnd, histVars, ControlInv
  <2>2. PICK i \in 1..Len(list) : Carries(p, i)
    BY <2>1 DEF ValueInv
  <2>3. db[p] = wanted[p]
    BY <2>1, <2>2, <1>type DEF Carries
  <2> QED BY <2>1, <2>3
<1>10. ASSUME NEW c \in Callers, NEW w \in Write, SetCheck(c, w)
       PROVE  IF stage' = "done" THEN db'[p] = wanted'[p]
              ELSE \E i \in 1..Len(list') : Carries(p, i)'
  BY <1>10, <1>same DEF SetCheck, openVars, histVars
<1>call. ASSUME NEW c \in Callers, call[c].op \in {"add", "write"} PROVE call[c].w \in Write
  BY <1>call DEF StartupTyped, Call, NoCall
<1>11. ASSUME NEW c \in Callers, SetAdd(c)
       PROVE  IF stage' = "done" THEN db'[p] = wanted'[p]
              ELSE \E i \in 1..Len(list') : Carries(p, i)'
  <2>1. PICK e \in Write : e = call[c].w
    BY <1>11, <1>call DEF SetAdd
  <2>2. /\ e.path \in Paths /\ e.value \in Values
        /\ list' = Append(list, e) /\ wanted' = [wanted EXCEPT ![e.path] = e.value]
        /\ UNCHANGED <<db, pos, stage, main>> /\ main # "closed"
    BY <1>11, <2>1 DEF SetAdd, Accept, Write, openVars
  <2>3. CASE stage = "done"
    <3>1. overlap' = overlap \cup {e.path}
      BY <1>11, <2>1, <2>3 DEF SetAdd
    <3>2. p # e.path /\ p \in Paths \ overlap
      BY <3>1
    <3>3. wanted'[p] = wanted[p]
      BY <2>2, <3>2, <1>type
    <3> QED BY <2>2, <2>3, <3>2, <3>3 DEF ValueInv
  <2>4. CASE stage # "done"
    <3>1. stage \notin {"done", "flushing"} /\ overlap' = overlap
      BY <1>11, <2>4, <1>ctl DEF SetAdd
    <3> QED BY <2>2, <3>1, <1>append
  <2> QED BY <2>3, <2>4
<1>12. ASSUME NEW c \in Callers, SetWrite(c)
       PROVE  IF stage' = "done" THEN db'[p] = wanted'[p]
              ELSE \E i \in 1..Len(list') : Carries(p, i)'
  <2>1. PICK e \in Write : e = call[c].w
    BY <1>12, <1>call DEF SetWrite
  <2>2. /\ e.path \in Paths /\ e.value \in Values
        /\ db' = [db EXCEPT ![e.path] = e.value]
        /\ wanted' = [wanted EXCEPT ![e.path] = e.value]
        /\ UNCHANGED <<list, pos, stage, main>> /\ main # "closed"
    BY <1>12, <2>1 DEF SetWrite, Accept, Write, openVars
  <2>3. CASE p = e.path
    <3>1. stage = "done"
      BY <1>12, <2>1, <2>3 DEF SetWrite
    <3> QED BY <2>2, <2>3, <3>1, <1>type
  <2>4. CASE p # e.path
    <3>1. p \in Paths \ overlap
      BY <1>12 DEF SetWrite
    <3>2. db'[p] = db[p] /\ wanted'[p] = wanted[p]
      BY <2>2, <2>4, <1>type
    <3>3. CASE stage = "done"
      BY <2>2, <3>1, <3>2, <3>3 DEF ValueInv
    <3>4. CASE stage # "done"
      <4>1. PICK i \in 1..Len(list) : Carries(p, i)
        BY <2>2, <3>1, <3>2, <3>4 DEF ValueInv
      <4>2. Carries(p, i)'
        BY <2>2, <3>2, <4>1 DEF Carries, LastQueued
      <4> QED BY <2>2, <3>4, <4>2
    <3> QED BY <3>3, <3>4
  <2> QED BY <2>3, <2>4
<1>13. ASSUME NEW c \in Callers, SetFails(c)
       PROVE  IF stage' = "done" THEN db'[p] = wanted'[p]
              ELSE \E i \in 1..Len(list') : Carries(p, i)'
  BY <1>13, <1>same DEF SetFails, openVars, histVars
<1>14. CASE Shutdown
  BY <1>14, <1>same DEF Shutdown, openVars, histVars
<1>15. CASE FinLock \/ FinJoin \/ FinDelete
  BY <1>15, <1>same DEF FinLock, FinJoin, FinDelete, openVars, histVars
<1>16. CASE FinClose
  BY <1>16 DEF FinClose
<1>17. CASE UNCHANGED startupVars
  BY <1>17, <1>same DEF startupVars, openVars, histVars
<1>fin. CASE FinalizeNext
  BY <1>fin, <1>15, <1>16 DEF FinalizeNext
<1>def. CASE \E q \in HdmiPaths : AddDefault(q)
  <2>1. stage' # "done"
    BY <1>def, <1>ctl DEF AddDefault, openVars
  <2> QED BY <1>def, <2>1, <1>1
<1> QED
  BY <1>def, <1>2, <1>3, <1>4, <1>5, <1>6, <1>7, <1>8, <1>9, <1>10, <1>11, <1>12, <1>13, <1>14,
     <1>fin, <1>17
  DEF StartupNext, OpenNext, CallNext

(* The two races recorded in "overlap" are the only ways in which a value  *)
(* SetValue accepted is forgotten: neither a failed attempt, nor a failed  *)
(* write of the list, nor the retries of the init thread lose one.         *)
THEOREM NothingElseLost == StartupSpec => []QueuedOrWritten
<1> USE SysdbAssumption
<1>1. StartupInit => ControlInv /\ ValueInv
  <2> SUFFICES ASSUME StartupInit PROVE ControlInv /\ ValueInv
    OBVIOUS
  <2>1. ControlInv
    BY DEF StartupInit, ControlInv
  <2>2. \A p \in Paths : wanted[p] = None
    BY DEF StartupInit
  <2> QED BY <2>1, <2>2 DEF ValueInv
<1>2. StartupTyped /\ StartupTyped' /\ ControlInv /\ ValueInv /\ [StartupNext]_startupVars => (ControlInv /\ ValueInv)'
  BY ControlStep, ValueStep
<1>3. StartupTyped /\ ControlInv /\ ValueInv => QueuedOrWritten
  BY DEF ValueInv, QueuedOrWritten, Carries
<1> QED BY <1>1, <1>2, <1>3, StartupTypeCorrect, PTL DEF StartupSpec

-----------------------------------------------------------------------------
(***************************************************************************)
(* The video paths                                                         *)
(***************************************************************************)

\* What the property control keeps true from handler to handler.
IInv ==
  /\ TypeOK
  /\ MuteOnlyWhilePlaying
  /\ ReadyIsPlayable
  /\ ReadyIsPlayed
  /\ PlayingIsShownOrLeaked
  /\ SuccessIsOfTheRequest
  /\ WithheldIsOwed

-----------------------------------------------------------------------------
(* The helpers                                                             *)

LEMMA RetiredType ==
  ASSUME TypeOK
  PROVE  /\ Retired \in [Target -> Surface]
         /\ \A t \in Target : Retired[t] # "new"
         /\ \A t \in Target : Retired[t] = "none" <=> surf[t] = "none"
BY DEF TypeOK, Retired, Surface

\* A restart of the capture leaves each output that shows HDMI playing or
\* recorded, the others stopped, and the cover with the front.
LEMMA ControlFacts ==
  ASSUME TypeOK, NEW ready \in BOOLEAN, UpdateHdmiCaptureControl(ready)
  PROVE  /\ playing' \subseteq Shown /\ unopened' \subseteq Target
         /\ mute' \in BOOLEAN /\ leaked' = {}
         /\ surf' \in [Target -> Surface]
         /\ \A t \in Target : surf'[t] # "new"
         /\ mute' => "front" \in playing'
         /\ "front" \in playing' => (mute' <=> auth = NoKey)
         /\ ready => Shown \subseteq playing' \cup unopened'
         /\ ~ready => playing' = {}
<1>1. CASE ready
  <2>1. PICK opened \in SUBSET Shown :
          /\ playing' = opened
          /\ mute' = ("front" \in opened /\ auth = NoKey)
          /\ surf' = Retired
          /\ unopened' = Shown \ opened
    BY <1>1 DEF UpdateHdmiCaptureControl, PlayHdmiCapture
  <2>2. leaked' = {}
    BY DEF UpdateHdmiCaptureControl
  <2> QED
    BY <1>1, <2>1, <2>2, RetiredType DEF Shown
<1>2. CASE ~ready
  <2>1. playing' = {} /\ surf' = Retired /\ unopened' = {} /\ leaked' = {}
    BY <1>2 DEF UpdateHdmiCaptureControl, Finalize, Stop, TypeOK
  <2>2. mute' = FALSE
    BY <1>2 DEF UpdateHdmiCaptureControl, Finalize, Stop, TypeOK, Target
  <2> QED
    BY <1>2, <2>1, <2>2, RetiredType
<1> QED
  BY <1>1, <1>2

THEOREM Initial == Init => IInv
BY VideoPathAssumption DEF Init, IInv, TypeOK, MuteOnlyWhilePlaying, ReadyIsPlayable, ReadyIsPlayed,
   PlayingIsShownOrLeaked, SuccessIsOfTheRequest, WithheldIsOwed, Path, Format,
   Surface, Shown

-----------------------------------------------------------------------------
(* A path request                                                          *)

LEMMA AnswerFacts ==
  ASSUME TypeOK, NEW t \in Target, NEW v \in Path, NEW ok \in BOOLEAN,
         Answer(t, v, ok)
  PROVE  /\ sts' \in [Target -> {"SUCCESS", "FAILED"}]
         /\ cnct' \in {"NONE", "READY"} /\ waiting' \subseteq Target
         /\ cnct' = "READY" => cnct = "READY"
         /\ \A u \in Target \ {t} : sts'[u] = sts[u] /\ (u \in waiting' => u \in waiting)
         /\ t \in waiting' => ok /\ v = Hdmi /\ surf[t] = "none"
         /\ ~ok => sts'[t] = "FAILED"
<1>1. CASE ok /\ v = Hdmi /\ surf[t] = "none"
  BY <1>1 DEF Answer, TypeOK
<1>2. CASE ~(ok /\ v = Hdmi /\ surf[t] = "none")
  BY <1>2 DEF Answer, TypeOK
<1> QED
  BY <1>1, <1>2

\* What a switch of the layout does to the HDMI capture.
LEMMA SwitchFacts ==
  ASSUME IInv, NEW t \in Target, NEW v \in Path, SwitchPath(t, v)
  PROVE  /\ path' = [path EXCEPT ![t] = v] /\ unopened' = unopened \ {t}
         /\ playing' \subseteq Target /\ leaked' \subseteq Target
         /\ mute' \in BOOLEAN /\ surf' \in [Target -> Surface]
         /\ \A u \in Target \ {t} : /\ u \in playing' <=> u \in playing
                                    /\ u \in leaked' <=> u \in leaked
         /\ v = Hdmi => t \in playing'
         /\ t \in playing' => v = Hdmi \/ t \in leaked'
         /\ mute' => "front" \in playing'
         /\ \A u \in Target : /\ surf'[u] = "new" => surf[u] = "new"
                              /\ surf[u] = "none" => surf'[u] = "none"
<1> USE DEF IInv, TypeOK, Target
<1>1. path' = [path EXCEPT ![t] = v] /\ unopened' = unopened \ {t}
  BY DEF SwitchPath
<1>2. CASE v = Hdmi
  <2>1. /\ playing' = playing \cup {t} /\ leaked' = leaked \ {t} /\ surf' = surf
        /\ mute' = IF t = "front" THEN auth = NoKey ELSE mute
    BY <1>2 DEF SwitchPath, Play
  <2>2. mute' \in BOOLEAN /\ (mute' => t = "front" \/ mute)
    BY <2>1
  <2>3. mute' => "front" \in playing'
    BY <2>1, <2>2 DEF MuteOnlyWhilePlaying
  <2> QED
    BY <1>1, <1>2, <2>1, <2>2, <2>3
<1>3. CASE v # Hdmi /\ ctl[t] = Hdmi
  <2>1. /\ playing' = playing \ {t} /\ leaked' = leaked \ {t}
        /\ mute' = (mute /\ "front" \notin {t})
        /\ surf' = IF playing \ {t} = {} THEN Retired ELSE surf
    BY <1>3 DEF SwitchPath, LeaveHdmi, Stop
  <2>2. surf' \in [Target -> Surface]
    BY <2>1, RetiredType
  <2>3. \A u \in Target : /\ surf'[u] = "new" => surf[u] = "new"
                          /\ surf[u] = "none" => surf'[u] = "none"
    BY <2>1, RetiredType
  <2> QED
    BY <1>1, <1>3, <2>1, <2>2, <2>3 DEF MuteOnlyWhilePlaying
<1>4. CASE v # Hdmi /\ ctl[t] # Hdmi
  <2>1. /\ UNCHANGED <<playing, mute, surf>>
        /\ leaked' = IF path[t] = Hdmi /\ t \in playing
                       THEN leaked \cup {t} ELSE leaked
    BY <1>4 DEF SwitchPath, LeaveHdmi
  <2>2. t \in playing => t \in leaked'
    BY <2>1 DEF PlayingIsShownOrLeaked, Shown
  <2> QED
    BY <1>1, <1>4, <2>1, <2>2 DEF MuteOnlyWhilePlaying
<1> QED
  BY <1>2, <1>3, <1>4

LEMMA RequestInv ==
  ASSUME IInv, NEW t \in Target, NEW v \in Path, NEW screen \in BOOLEAN,
         Request(t, v, screen)
  PROVE  IInv'
<1> USE DEF IInv
<1>1. /\ ctl' = [ctl EXCEPT ![t] = v]
      /\ UNCHANGED <<screens, connected, format, written, auth, created>>
  BY DEF Request, linkVars
<1>2. CASE /\ UNCHANGED <<path, hdmiVars>>
           /\ \E ok \in BOOLEAN : Answer(t, v, ok) /\ (ok => path[t] = v)
  <2>1. PICK ok \in BOOLEAN : Answer(t, v, ok) /\ (ok => path[t] = v)
    BY <1>2
  <2>2. UNCHANGED <<path, playing, mute, surf, unopened, leaked>>
    BY <1>2 DEF hdmiVars
  <2>3. TypeOK'
    BY <1>1, <2>1, <2>2, AnswerFacts DEF TypeOK
  <2>4. MuteOnlyWhilePlaying' /\ PlayingIsShownOrLeaked'
    BY <2>2 DEF MuteOnlyWhilePlaying, PlayingIsShownOrLeaked, Shown
  <2>5. ReadyIsPlayable' /\ ReadyIsPlayed'
    BY <1>1, <2>1, <2>2, AnswerFacts DEF ReadyIsPlayable, ReadyIsPlayed, Shown
  <2>6. SuccessIsOfTheRequest'
    BY <1>1, <2>1, <2>2, AnswerFacts DEF SuccessIsOfTheRequest, TypeOK
  <2>7. WithheldIsOwed'
    BY <1>1, <2>1, <2>2, AnswerFacts DEF WithheldIsOwed, TypeOK
  <2> QED
    BY <2>3, <2>4, <2>5, <2>6, <2>7
<1>3. CASE SwitchPath(t, v)
  <2>1. Answer(t, v, TRUE)
    BY <1>3 DEF SwitchPath
  <2>2. path'[t] = v /\ \A u \in Target \ {t} : path'[u] = path[u]
    BY <1>3, SwitchFacts DEF TypeOK
  <2>3. TypeOK'
    <3>1. path' \in [Target -> Path] /\ ctl' \in [Target -> Path]
      BY <1>1, <1>3, SwitchFacts DEF TypeOK
    <3>2. /\ sts' \in [Target -> {"SUCCESS", "FAILED"}]
          /\ cnct' \in {"NONE", "READY"} /\ waiting' \subseteq Target
      BY <2>1, AnswerFacts
    <3>3. /\ playing' \subseteq Target /\ leaked' \subseteq Target
          /\ unopened' \subseteq Target
          /\ mute' \in BOOLEAN /\ surf' \in [Target -> Surface]
      BY <1>3, SwitchFacts DEF TypeOK
    <3> QED
      BY <1>1, <3>1, <3>2, <3>3 DEF TypeOK
  <2>4. MuteOnlyWhilePlaying'
    BY <1>3, SwitchFacts DEF MuteOnlyWhilePlaying
  <2>5. PlayingIsShownOrLeaked'
    BY <1>3, <2>2, SwitchFacts DEF PlayingIsShownOrLeaked, Shown
  <2>6. ReadyIsPlayable'
    BY <1>1, <2>1, AnswerFacts DEF ReadyIsPlayable
  <2>7. ReadyIsPlayed'
    BY <1>1, <1>3, <2>1, <2>2, AnswerFacts, SwitchFacts DEF ReadyIsPlayed, Shown
  <2>8. SuccessIsOfTheRequest'
    BY <1>1, <2>1, <2>2, AnswerFacts DEF SuccessIsOfTheRequest, TypeOK
  <2>9. WithheldIsOwed'
    <3> SUFFICES ASSUME NEW u \in waiting'
                 PROVE  path'[u] = Hdmi /\ (surf'[u] = "new" => u \in created')
      BY DEF WithheldIsOwed
    <3>1. u \in Target
      BY <2>1, AnswerFacts
    <3>2. CASE u = t
      BY <1>1, <1>3, <2>1, <2>2, <3>2, AnswerFacts, SwitchFacts
    <3>3. CASE u # t
      BY <1>1, <1>3, <2>1, <2>2, <3>1, <3>3, AnswerFacts, SwitchFacts DEF WithheldIsOwed
    <3> QED
      BY <3>2, <3>3
  <2> QED
    BY <2>3, <2>4, <2>5, <2>6, <2>7, <2>8, <2>9
<1>4. CASE Refuse(t, v)
  BY <1>2, <1>4 DEF Refuse
<1>5. CASE path[t] = v
  <2>1. UNCHANGED <<path, hdmiVars>> /\ Answer(t, v, v = Hdmi => HdmiAvailable)
    BY <1>5 DEF Request
  <2> QED
    BY <1>2, <1>5, <2>1
<1> QED
  BY <1>3, <1>4, <1>5 DEF Request

-----------------------------------------------------------------------------
(* The other handlers                                                      *)

\* A handler that restarts the capture and leaves the paths and their status
\* alone; afterwards READY means what it says, and the capture was started
\* if it is said.
LEMMA RestartInv ==
  ASSUME IInv, NEW ready \in BOOLEAN, UpdateHdmiCaptureControl(ready), TypeOK',
         UNCHANGED <<ctl, path, sts, waiting, created>>, ReadyIsPlayable',
         cnct' = "READY" /\ format' = "SUPPORTED" => ready
  PROVE  IInv'
<1> USE DEF IInv
<1>1. MuteOnlyWhilePlaying' /\ PlayingIsShownOrLeaked' /\ ReadyIsPlayed'
  BY ControlFacts DEF MuteOnlyWhilePlaying, PlayingIsShownOrLeaked, ReadyIsPlayed,
                      Shown
<1>2. SuccessIsOfTheRequest'
  BY DEF SuccessIsOfTheRequest
<1>3. WithheldIsOwed'
  BY ControlFacts DEF WithheldIsOwed, TypeOK
<1> QED
  BY <1>1, <1>2, <1>3

LEMMA UpdateFilePropertyHdmiInv ==
  ASSUME IInv, NEW c \in BOOLEAN, UpdateFilePropertyHdmi(c)
  PROVE  IInv'
<1> DEFINE status == IF Available(c, format) THEN "READY" ELSE "NONE"
<1> USE DEF IInv
<1>1. /\ connected' = c /\ cnct' = status
      /\ format' = IF c THEN format ELSE "INVALID"
      /\ written' \in BOOLEAN
      /\ UNCHANGED <<ctl, path, sts, screens, auth, created, waiting>>
  BY DEF UpdateFilePropertyHdmi, UpdateSettingConnectedHdmiDevice, SetHdcpAuthKey,
         TypeOK
<1>2. ReadyIsPlayable'
  BY <1>1 DEF ReadyIsPlayable, Available
<1>3. CASE status = cnct
  <2>1. UNCHANGED <<playing, mute, surf, unopened, leaked>>
    BY <1>3 DEF UpdateFilePropertyHdmi, UpdateSettingConnectedHdmiDevice, hdmiVars
  <2>2. TypeOK'
    BY <1>1, <2>1 DEF TypeOK, Format
  <2>3. ReadyIsPlayed'
    BY <1>1, <1>3, <2>1 DEF ReadyIsPlayed, Available, Shown
  <2> QED
    BY <1>1, <1>2, <2>1, <2>2, <2>3 DEF MuteOnlyWhilePlaying, PlayingIsShownOrLeaked,
       SuccessIsOfTheRequest, WithheldIsOwed, Shown
<1>4. CASE status # cnct
  <2>1. UpdateHdmiCaptureControl(status = "READY")
    BY <1>4 DEF UpdateFilePropertyHdmi, UpdateSettingConnectedHdmiDevice
  <2>2. TypeOK'
    BY <1>1, <2>1, ControlFacts DEF TypeOK, Format, Shown
  <2> QED
    BY <1>1, <1>2, <2>1, <2>2, RestartInv
<1> QED
  BY <1>3, <1>4

LEMMA ChangeHdmiVideoFormatInv ==
  ASSUME IInv, NEW f \in Format, ChangeHdmiVideoFormat(f)
  PROVE  IInv'
<1> USE DEF IInv
<1>1. /\ format' = f
      /\ UNCHANGED <<ctl, path, sts, screens, connected, auth, written, created,
                     waiting>>
  BY DEF ChangeHdmiVideoFormat
<1>2. CASE f = "ERROR"
  <2>1. UNCHANGED <<playing, mute, surf, unopened, leaked, cnct>>
    BY <1>2 DEF ChangeHdmiVideoFormat, hdmiVars
  <2> QED
    BY <1>1, <1>2, <2>1 DEF TypeOK, Format, MuteOnlyWhilePlaying, ReadyIsPlayable,
       ReadyIsPlayed, PlayingIsShownOrLeaked, SuccessIsOfTheRequest, WithheldIsOwed,
       Shown
<1>3. CASE f # "ERROR"
  <2>1. /\ UpdateHdmiCaptureControl(Available(connected, f))
        /\ cnct' = IF Available(connected, f) THEN "READY" ELSE "NONE"
    BY <1>3 DEF ChangeHdmiVideoFormat
  <2>2. Available(connected, f) \in BOOLEAN
    BY DEF Available, TypeOK
  <2>3. TypeOK'
    BY <1>1, <2>1, <2>2, ControlFacts DEF TypeOK, Shown
  <2>4. ReadyIsPlayable'
    BY <1>1, <2>1 DEF ReadyIsPlayable, Available
  <2> QED
    BY <1>1, <2>1, <2>2, <2>3, <2>4, RestartInv
<1> QED
  BY <1>2, <1>3

LEMMA ResetCaptureInv ==
  ASSUME IInv, ResetCapture
  PROVE  IInv'
<1> USE DEF IInv
<1>1. /\ UpdateHdmiCaptureControl(HdmiAvailable)
      /\ UNCHANGED <<ctl, path, sts, cnct, screens, connected, format, written, auth,
                     created, waiting>>
  BY DEF ResetCapture, linkVars
<1>2. HdmiAvailable \in BOOLEAN
  BY DEF HdmiAvailable, Available, TypeOK
<1>3. TypeOK'
  BY <1>1, <1>2, ControlFacts DEF TypeOK, Shown
<1>4. ReadyIsPlayable'
  BY <1>1 DEF ReadyIsPlayable
<1>5. cnct' = "READY" /\ format' = "SUPPORTED" => HdmiAvailable
  BY <1>1 DEF ReadyIsPlayable, HdmiAvailable, Available
<1> QED
  BY <1>1, <1>2, <1>3, <1>4, <1>5, RestartInv

LEMMA AuthInv ==
  ASSUME IInv, UpdateHdcpAuthResultCdisp \/ UpdateHdcpAuthClear
  PROVE  IInv'
<1> USE DEF IInv
<1>1. UNCHANGED <<ctl, path, sts, cnct, screens, connected, format, playing, surf,
                  unopened, leaked, created, waiting>>
  BY DEF UpdateHdcpAuthResultCdisp, UpdateHdcpAuthClear, linkVars
<1>2. /\ mute' \in BOOLEAN /\ (mute' => mute \/ "front" \in playing)
      /\ auth' \in Keys \cup {NoKey} /\ written' \in BOOLEAN
  <2>1. CASE UpdateHdcpAuthClear
    BY <2>1 DEF UpdateHdcpAuthClear, linkVars, TypeOK
  <2>2. CASE AuthFailed
    BY <2>2 DEF AuthFailed, TypeOK
  <2>3. ASSUME NEW k \in Keys, AuthSucceeded(k)
        PROVE  /\ mute' \in BOOLEAN /\ (mute' => mute \/ "front" \in playing)
               /\ auth' \in Keys \cup {NoKey} /\ written' \in BOOLEAN
    BY <2>3 DEF AuthSucceeded, TypeOK
  <2> QED
    BY <2>1, <2>2, <2>3 DEF UpdateHdcpAuthResultCdisp
<1>3. TypeOK'
  BY <1>1, <1>2 DEF TypeOK
<1>4. MuteOnlyWhilePlaying'
  BY <1>1, <1>2 DEF MuteOnlyWhilePlaying
<1> QED
  BY <1>1, <1>3, <1>4 DEF ReadyIsPlayable, ReadyIsPlayed, PlayingIsShownOrLeaked,
     SuccessIsOfTheRequest, WithheldIsOwed, Shown

LEMMA SurfaceInv ==
  ASSUME IInv, NEW t \in Target, HdmiSurfaceAdded(t) \/ HdmiSurfaceRemoved(t)
  PROVE  IInv'
<1> USE DEF IInv
<1>1. UNCHANGED <<ctl, path, sts, cnct, screens, connected, format, written, auth,
                  playing, mute, unopened, leaked, waiting>>
  BY DEF HdmiSurfaceAdded, HdmiSurfaceRemoved, linkVars
<1>2. \/ /\ surf' = [surf EXCEPT ![t] = "new"] /\ created' = created \cup {t}
      \/ /\ surf' = [surf EXCEPT ![t] = "none"] /\ created' = created
  BY DEF HdmiSurfaceAdded, HdmiSurfaceRemoved
<1>3. TypeOK'
  BY <1>1, <1>2 DEF TypeOK, Surface
<1>4. WithheldIsOwed'
  BY <1>1, <1>2 DEF WithheldIsOwed, TypeOK
<1> QED
  BY <1>1, <1>3, <1>4 DEF MuteOnlyWhilePlaying, ReadyIsPlayable, ReadyIsPlayed,
     PlayingIsShownOrLeaked, SuccessIsOfTheRequest, Shown

LEMMA LayoutInv ==
  ASSUME IInv, NEW t \in Target, AddSurfaceToLayer(t) \/ NotifyOutputAdded(t)
  PROVE  IInv'
<1> USE DEF IInv
<1>1. UNCHANGED <<ctl, path, cnct, connected, format, written, auth, playing, mute,
                  surf, unopened, leaked>>
  BY DEF AddSurfaceToLayer, NotifyOutputAdded, linkVars, hdmiVars
<1>2. /\ screens' \subseteq Target /\ created' \subseteq created
      /\ \A u \in created \ {t} : u \in created'
  BY DEF AddSurfaceToLayer, NotifyOutputAdded, TypeOK
<1>3. \/ /\ UNCHANGED <<sts, waiting>>
         /\ t \notin created \/ t \in created' \/ path[t] # Hdmi
      \/ /\ path[t] = Hdmi
         /\ sts' = [sts EXCEPT ![t] = "SUCCESS"] /\ waiting' = waiting \ {t}
  BY DEF AddSurfaceToLayer, NotifyOutputAdded, UpdateVpathStatusCurrentHdmi
<1>4. TypeOK'
  BY <1>1, <1>2, <1>3 DEF TypeOK
<1>5. SuccessIsOfTheRequest'
  BY <1>1, <1>3 DEF SuccessIsOfTheRequest, TypeOK
<1>6. WithheldIsOwed'
  BY <1>1, <1>2, <1>3 DEF WithheldIsOwed, TypeOK
<1> QED
  BY <1>1, <1>4, <1>5, <1>6 DEF MuteOnlyWhilePlaying, ReadyIsPlayable, ReadyIsPlayed,
     PlayingIsShownOrLeaked, Shown

LEMMA StrSuspendInv ==
  ASSUME IInv, StrSuspend
  PROVE  IInv'
<1> USE DEF IInv
<1>1. /\ playing' = {} /\ ~mute' /\ mute' \in BOOLEAN
      /\ surf' = Retired
  BY DEF StrSuspend, ReInit, Stop, TypeOK, Target
<1>2. TypeOK'
  BY <1>1, RetiredType DEF StrSuspend, TypeOK, Path, Format
<1> QED
  BY <1>1, <1>2 DEF StrSuspend, MuteOnlyWhilePlaying, ReadyIsPlayable, ReadyIsPlayed,
     PlayingIsShownOrLeaked, SuccessIsOfTheRequest, WithheldIsOwed

-----------------------------------------------------------------------------
(* The theorems                                                            *)

THEOREM Step == IInv /\ [Next]_vars => IInv'
<1> SUFFICES ASSUME IInv, [Next]_vars PROVE IInv'
  OBVIOUS
<1>1. ASSUME NEW v \in Path, ActionVpathFrontCurrent(v) \/ ActionVpathRearCurrent(v)
      PROVE  IInv'
  <2>1. CASE ActionVpathFrontCurrent(v)
    BY <2>1, RequestInv DEF ActionVpathFrontCurrent, Target
  <2>2. CASE ActionVpathRearCurrent(v)
    <3>1. ("rear" \in screens) \in BOOLEAN
      OBVIOUS
    <3> QED
      BY <2>2, <3>1, RequestInv DEF ActionVpathRearCurrent, Target
  <2> QED
    BY <1>1, <2>1, <2>2
<1>2. CASE UNCHANGED vars
  BY <1>2 DEF vars, linkVars, hdmiVars, IInv, TypeOK, MuteOnlyWhilePlaying,
     ReadyIsPlayable, ReadyIsPlayed, PlayingIsShownOrLeaked, SuccessIsOfTheRequest,
     WithheldIsOwed, Shown
<1> QED
  BY <1>1, <1>2, UpdateFilePropertyHdmiInv, ChangeHdmiVideoFormatInv,
     ResetCaptureInv, AuthInv, SurfaceInv, LayoutInv, StrSuspendInv DEF Next

\* Whatever clients, the HDMI source, the authentication, the compositor and
\* the power manager do in whatever order: the variables keep their types.
THEOREM TypeCorrect == Spec => []TypeOK
<1>1. IInv => TypeOK
  BY DEF IInv
<1> QED
  BY <1>1, Initial, Step, PTL DEF Spec

\* READY is told only of an HDMI that can be played.
THEOREM ReadyCorrect == Spec => []ReadyIsPlayable
<1>1. IInv => ReadyIsPlayable
  BY DEF IInv
<1> QED
  BY <1>1, Initial, Step, PTL DEF Spec

\* Once READY is told, every output that shows HDMI plays it, or its restart
\* failed.
THEOREM ReadyPlayedCorrect == Spec => []ReadyIsPlayed
<1>1. IInv => ReadyIsPlayed
  BY DEF IInv
<1> QED
  BY <1>1, Initial, Step, PTL DEF Spec

\* The capture plays on no output that does not show HDMI, but for those that
\* were switched away after a refused request.
THEOREM PlayingCorrect == Spec => []PlayingIsShownOrLeaked
<1>1. IInv => PlayingIsShownOrLeaked
  BY DEF IInv
<1> QED
  BY <1>1, Initial, Step, PTL DEF Spec

\* Only a front that plays HDMI is covered.
THEOREM MuteCorrect == Spec => []MuteOnlyWhilePlaying
<1>1. IInv => MuteOnlyWhilePlaying
  BY DEF IInv
<1> QED
  BY <1>1, Initial, Step, PTL DEF Spec

\* No withheld answer is forgotten.
THEOREM AnswersOwed == Spec => []WithheldIsOwed
<1>1. IInv => WithheldIsOwed
  BY DEF IInv
<1> QED
  BY <1>1, Initial, Step, PTL DEF Spec

\* A SUCCESS is about the last request unless the output shows HDMI.
THEOREM SuccessCorrect == Spec => []SuccessIsOfTheRequest
<1>1. IInv => SuccessIsOfTheRequest
  BY DEF IInv
<1> QED
  BY <1>1, Initial, Step, PTL DEF Spec

\* The one step in which the cover of a playing front changes, or the front
\* starts to play, leaves the cover as the authentication demands.
LEMMA CoverStep ==
  ASSUME IInv, [Next]_vars,
         "front" \in playing', mute' # mute \/ "front" \notin playing
  PROVE  mute' <=> auth' = NoKey
<1> USE DEF IInv
<1>1. ASSUME NEW t \in Target, NEW v \in Path, NEW s \in BOOLEAN, Request(t, v, s)
      PROVE  mute' <=> auth' = NoKey
  <2>1. auth' = auth /\ ~UNCHANGED <<playing, mute>>
    BY <1>1 DEF Request
  <2>2. SwitchPath(t, v)
    BY <1>1, <2>1 DEF Request, Refuse, hdmiVars
  <2>3. CASE v = Hdmi
    BY <2>1, <2>2, <2>3 DEF SwitchPath, Play, TypeOK
  <2>4. CASE v # Hdmi
    BY <2>1, <2>2, <2>4 DEF SwitchPath, LeaveHdmi, Stop, TypeOK, Target
  <2> QED
    BY <2>3, <2>4
<1>2. ASSUME NEW ready \in BOOLEAN, UpdateHdmiCaptureControl(ready), auth' = auth
      PROVE  mute' <=> auth' = NoKey
  BY <1>2, ControlFacts
<1>3. CASE UNCHANGED <<playing, mute>>
  BY <1>3
<1>4. ASSUME NEW v \in Path, ActionVpathFrontCurrent(v) \/ ActionVpathRearCurrent(v)
      PROVE  mute' <=> auth' = NoKey
  <2>1. ("rear" \in screens) \in BOOLEAN
    OBVIOUS
  <2> QED
    BY <1>1, <1>4, <2>1 DEF ActionVpathFrontCurrent, ActionVpathRearCurrent, Target
<1>5. ASSUME NEW c \in BOOLEAN, UpdateFilePropertyHdmi(c)
      PROVE  mute' <=> auth' = NoKey
  BY <1>2, <1>3, <1>5 DEF UpdateFilePropertyHdmi, UpdateSettingConnectedHdmiDevice,
                          hdmiVars
<1>6. ASSUME NEW f \in Format, ChangeHdmiVideoFormat(f)
      PROVE  mute' <=> auth' = NoKey
  <2>1. Available(connected, f) \in BOOLEAN
    BY DEF Available, TypeOK
  <2> QED
    BY <1>2, <1>3, <1>6, <2>1 DEF ChangeHdmiVideoFormat, hdmiVars
<1>7. CASE ResetCapture
  <2>1. HdmiAvailable \in BOOLEAN
    BY DEF HdmiAvailable, Available, TypeOK
  <2> QED
    BY <1>2, <1>7, <2>1 DEF ResetCapture
<1>8. CASE UpdateHdcpAuthResultCdisp
  <2>1. CASE AuthFailed
    BY <1>8, <2>1 DEF UpdateHdcpAuthResultCdisp, AuthFailed, TypeOK
  <2>2. ASSUME NEW k \in Keys, AuthSucceeded(k)
        PROVE  mute' <=> auth' = NoKey
    BY <1>8, <2>2, VideoPathAssumption DEF UpdateHdcpAuthResultCdisp, AuthSucceeded,
                                           TypeOK
  <2> QED
    BY <1>8, <2>1, <2>2 DEF UpdateHdcpAuthResultCdisp
<1>9. CASE StrSuspend
  BY <1>9 DEF StrSuspend, ReInit, Stop, TypeOK
<1>10. CASE UpdateHdcpAuthClear
  BY <1>3, <1>10 DEF UpdateHdcpAuthClear
<1>11. ASSUME NEW t \in Target,
              \/ HdmiSurfaceAdded(t) \/ HdmiSurfaceRemoved(t)
              \/ AddSurfaceToLayer(t) \/ NotifyOutputAdded(t)
       PROVE  mute' <=> auth' = NoKey
  BY <1>3, <1>11 DEF HdmiSurfaceAdded, HdmiSurfaceRemoved, AddSurfaceToLayer,
                     NotifyOutputAdded, hdmiVars
<1>12. CASE UNCHANGED vars
  BY <1>3, <1>12 DEF vars, hdmiVars
<1> QED
  BY <1>4, <1>5, <1>6, <1>7, <1>8, <1>9, <1>10, <1>11, <1>12 DEF Next

\* The cover of a playing front changes only as the authentication says.
THEOREM CoverCorrect == Spec => CoverFollowsVerdict
<1>1. IInv /\ [Next]_vars
        => [ "front" \in playing' /\ (mute' # mute \/ "front" \notin playing)
               => (mute' <=> auth' = NoKey) ]_vars
  BY CoverStep
<1> QED
  BY <1>1, Initial, Step, PTL DEF Spec, CoverFollowsVerdict

=============================================================================
