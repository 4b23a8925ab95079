----------------------------- MODULE EventLoop -----------------------------
(***************************************************************************)
(* The main loop of the VideoHAL server: CVhalMainControl's RunEventLoop   *)
(* and DropEvents, the sources epoll reports to them (event routes, the    *)
(* listening socket of CVhalServer, one CVhalPropertyClient per            *)
(* connection), and the PFM thread, which posts a power state and waits    *)
(* one second for it (CVhalWaitEvent).                                     *)
(*                                                                         *)
(* A handler runs to its end on the main thread and is one action, with    *)
(* one exception: the STR event's handler calls DropEvents, so that the    *)
(* sources are polled and handled a second time while the first batch is   *)
(* still being worked off.  batch is what is left of the first, drop what  *)
(* is left of the second; epoll promises no order, so each is a set of     *)
(* which any entry may be the next.                                        *)
(*                                                                         *)
(* The routes are blocking socket pairs, so reading one that is empty is   *)
(* an action that is not enabled.                                          *)
(***************************************************************************)
EXTENDS Naturals, Sequences, FiniteSets

CONSTANTS
  Clients,      \* processes that connect to the server
  MaxPowers,    \* bound: power states the power manager reports
  MaxLoad,      \* bound: power states reported and clients there at once, together,
                \* while there is a client
  MaxQueue      \* bound: events other threads post and that wait in a route

ASSUME LoopAssumption ==
  /\ {"main", "prop", "server"} \cap Clients = {}
  /\ MaxPowers \in Nat /\ MaxLoad \in Nat /\ MaxQueue \in Nat

\* p_route_ of CVhalMainControl carries the power states; of the other routes,
\* which are alike, p_event_route_ of CVhalPropertyControl, with the STR event.
Route   == {"main", "prop"}
Source  == Route \cup {"server"} \cup Clients
Entry   == [src : Source, hup : BOOLEAN]

VARIABLES
  mode,       \* where the main thread is: epoll_wait, a batch, StrStateEvent, gone
  batch,      \* entries of RunEventLoop's epoll_wait not yet handled
  drop,       \* entries of DropEvents' epoll_wait not yet handled
  dangling,   \* clients deleted while an entry of batch points to them
  queue,      \* the events in the routes' socket pairs
  exit,       \* the socket of route "main" was shut down
  conn,       \* the client's connection
  gone,       \* clients that have closed their end
  sock,       \* clients with a request in their socket
  subs,       \* clients with a subscription to the property
  updated,    \* SetUpdated: the change still has to be published
  owed,       \* history: subscribers nobody has sent, or tried to, the latest change
  pfm,        \* where the PFM thread is
  notify,     \* notify_exist_ of the static g_wait_event
  calls,      \* power states posted so far
  done,       \* the last one that was handled
  overdue,    \* history: those whose wait ended without their own answer
  late        \* history: a resume outlasted the PFM thread's wait

loopVars == <<mode, batch, drop, dangling>>
connVars == <<conn, gone, sock>>
propVars == <<subs, updated, owed>>
waitVars == <<notify, calls, done, overdue>>
serverVars == <<loopVars, queue, exit, connVars, propVars, pfm, waitVars, late>>

\* What a route carries: the n-th power state, or an event without a number.
Event == [kind : {"power", "str", "change"}, n : Nat]
Power(k) == [kind |-> "power", n |-> k]
Other(kind) == [kind |-> kind, n |-> 0]

LoopTyped ==
  /\ mode \in {"poll", "batch", "drop1", "parked", "drop2", "ended", "torn"}
  /\ batch \in SUBSET Entry /\ drop \in SUBSET Entry
  /\ dangling \in SUBSET Clients
  /\ queue \in [Route -> Seq(Event)]
  /\ exit \in BOOLEAN
  /\ conn \in [Clients -> {"away", "pending", "open", "deaf"}]
  /\ gone \in SUBSET Clients
  /\ sock \in SUBSET Clients /\ subs \in SUBSET Clients
  /\ owed \in SUBSET Clients /\ updated \in BOOLEAN
  /\ pfm \in {"idle", "posted", "waiting", "strWait", "suspended", "resuming"}
  /\ notify \in BOOLEAN /\ late \in BOOLEAN
  /\ calls \in Nat /\ done \in Nat
  /\ overdue \in SUBSET Nat

LoopInit ==
  /\ mode = "poll" /\ batch = {} /\ drop = {}
  /\ dangling = {}
  /\ queue = [r \in Route |-> <<>>] /\ exit = FALSE
  /\ conn = [c \in Clients |-> "away"] /\ gone = {}
  /\ sock = {} /\ subs = {} /\ owed = {} /\ updated = FALSE
  /\ pfm = "idle" /\ notify = FALSE
  /\ calls = 0 /\ done = 0 /\ overdue = {} /\ late = FALSE

\* suspend_ is set for the length of StrStateEvent's two drops and its wait.
\* The process runs: the loop has not ended, and no deleted object was used.
Alive == mode \notin {"ended", "torn"}
GetSuspend == mode \in {"drop1", "parked", "drop2"}
Dropping   == mode \in {"drop1", "drop2"}

-----------------------------------------------------------------------------
(* epoll                                                                   *)

Readable(s) ==
  CASE s \in Route   -> queue[s] # <<>>
    [] s = "server"  -> \E c \in Clients : conn[c] = "pending"
    [] s \in Clients -> conn[s] = "open" /\ s \in sock

HungUp(s) == IF s \in Clients THEN conn[s] = "open" /\ s \in gone
                              ELSE s = "main" /\ exit

\* epoll_wait reports all that is ready.
Ready == {[src |-> s, hup |-> HungUp(s)] : s \in {t \in Source : Readable(t) \/ HungUp(t)}}

\* The main thread takes entry e of the batch it is working off.
Take(e) ==
  \/ Dropping /\ e \in drop /\ drop' = drop \ {e} /\ batch' = batch
  \/ mode = "batch" /\ e \in batch /\ batch' = batch \ {e} /\ drop' = drop

\* RunEventLoop: wait for events, and again when the batch is worked off.
Poll ==
  /\ mode = "poll" /\ Ready # {}
  /\ batch' = Ready /\ mode' = "batch"
  /\ UNCHANGED <<drop, dangling, queue, exit, connVars, propVars, pfm, waitVars, late>>

\* Seeded fault: the rest of the batch is left to the next epoll_wait.
EndBatch_AtOnce ==
  /\ mode = "batch"
  /\ mode' = "poll" /\ dangling' = {} /\ batch' = {}
  /\ UNCHANGED <<drop, queue, exit, connVars, propVars, pfm, waitVars, late>>
EndBatch ==
  /\ mode = "batch" /\ batch = {}
  /\ mode' = "poll" /\ dangling' = {}
  /\ UNCHANGED <<batch, drop, queue, exit, connVars, propVars, pfm, waitVars, late>>

\* DropEvents polls without waiting until nothing is ready.
DropEvents ==
  /\ Dropping /\ drop = {} /\ Ready # {}
  /\ drop' = Ready
  /\ UNCHANGED <<mode, batch, dangling, queue, exit, connVars, propVars,
                 pfm, waitVars, late>>

-----------------------------------------------------------------------------
(* Notifications                                                           *)

Subscribers == {c \in subs : conn[c] = "open"}

\* CVhalServer::Publish tells the subscribers in turn; a send that fails is
\* only logged.
\* Seeded fault: the first failure ends the loop.
Publish_StopsAtFailure == owed' \in SUBSET Subscribers
Publish == owed' = {}

-----------------------------------------------------------------------------
(* The sources' ExecEvent                                                  *)

\* CVhalEventRoute::ExecEvent hung up: the loop ends, Finalize deletes the
\* clients.
LoopEnds ==
  /\ mode' = "ended" /\ batch' = {} /\ drop' = {}
  /\ queue' = [r \in Route |-> <<>>]
  /\ conn' = [c \in Clients |-> "away"] /\ sock' = {} /\ gone' = {}
  /\ subs' = {} /\ owed' = {} /\ updated' = FALSE
RouteHungUp ==
  /\ mode = "batch" /\ [src |-> "main", hup |-> TRUE] \in batch
  /\ LoopEnds
  /\ UNCHANGED <<dangling, exit, pfm, waitVars, late>>

\* DropEvents does not heed it, and polls it again at once.
DropsHangUp ==
  /\ Dropping /\ Take([src |-> "main", hup |-> TRUE])
  /\ UNCHANGED <<mode, dangling, queue, exit, connVars, propVars, pfm, waitVars, late>>

\* In a suspend an event is read and deleted.
RouteDrops(r) ==
  /\ GetSuspend
  /\ UNCHANGED <<mode, propVars, pfm, notify, done>>

\* CVhalEventItemVehiclePowerState: the state is applied, the waiter notified.
RoutePower(r) ==
  /\ ~GetSuspend /\ Head(queue[r]).kind = "power"
  /\ done' = Head(queue[r]).n /\ notify' = TRUE
  /\ UNCHANGED <<mode, propVars, pfm>>

\* Any other event: a property changes and is published.
RouteChange(r) ==
  /\ ~GetSuspend /\ Head(queue[r]).kind = "change"
  /\ Publish
  /\ UNCHANGED <<mode, subs, updated, pfm, notify, done>>

\* StrStateEvent up to its first DropEvents: StrSuspend clears the paths and
\* changes properties, and notifies nobody.
StrStateEvent(r) ==
  /\ ~GetSuspend /\ Head(queue[r]).kind = "str"
  /\ mode' = "drop1" /\ owed' = {}
  /\ pfm' = "suspended"
  /\ UNCHANGED <<subs, updated, notify, done>>

\* ReadEvent takes one event; on an empty route it blocks.
ReadEvent(r) ==
  /\ queue[r] # <<>>
  /\ queue' = [queue EXCEPT ![r] = Tail(queue[r])]

RouteExec(r) ==
  /\ Take([src |-> r, hup |-> FALSE]) /\ ReadEvent(r)
  /\ RouteDrops(r) \/ RoutePower(r) \/ RouteChange(r) \/ StrStateEvent(r)
  /\ UNCHANGED <<dangling, exit, connVars, calls, overdue, late>>

\* AcceptClient creates and registers the client.  Registering it may fail: it
\* is kept, and never polled.
AcceptClient(c) ==
  conn[c] = "pending" /\ conn' \in {[conn EXCEPT ![c] = r] : r \in {"open", "deaf"}}

\* CVhalServer::ExecEvent; an accept that fails is only logged.
ServerExec ==
  /\ Take([src |-> "server", hup |-> FALSE])
  /\ (\E c \in Clients : AcceptClient(c)) \/ UNCHANGED conn
  /\ UNCHANGED <<mode, dangling, queue, exit, gone, sock, propVars, pfm, waitVars, late>>

\* ClientDisconnected erases the client from clients_; its destructor clears
\* the event source.
\* Seeded fault: every client that has hung up is erased.
ClientDisconnected_AllGone(c) ==
  LET G == {d \in gone : conn[d] = "open"} \cup {c} IN
  /\ conn' = [d \in Clients |-> IF d \in G THEN "away" ELSE conn[d]]
  /\ sock' = sock \ G /\ gone' = gone \ G
  /\ subs' = subs \ G /\ owed' = owed \ G
ClientDisconnected(c) ==
  /\ conn' = [conn EXCEPT ![c] = "away"]
  /\ sock' = sock \ {c} /\ gone' = gone \ {c}
  /\ subs' = subs \ {c} /\ owed' = owed \ {c}

\* A client hung up: its object is deleted, whatever batch still points to it.
ClientHungUp(c) ==
  /\ Take([src |-> c, hup |-> TRUE]) /\ (Dropping \/ c \notin dangling)
  /\ ClientDisconnected(c)
  /\ dangling' = (IF Dropping /\ (\E e \in batch : e.src = c)
                  THEN dangling \cup {c} ELSE dangling)
  /\ UNCHANGED <<mode, queue, exit, updated, pfm, waitVars, late>>

\* An entry of batch whose client was deleted by a nested DropEvents.
UseDangling(c) ==
  /\ mode = "batch" /\ c \in dangling /\ (\E e \in batch : e.src = c)
  /\ mode' = "torn"
  /\ UNCHANGED <<batch, drop, dangling, queue, exit, connVars, propVars, pfm, waitVars, late>>

\* SetValue: the property may change, or have that value already.  What was
\* changed is published once the answer is sent (SetValueComplete); if that
\* fails, the handler ends before.
SetValueComplete(changed) ==
  IF updated \/ changed THEN Publish /\ updated' = FALSE
                        ELSE UNCHANGED <<updated, owed>>
ClientSet ==
  /\ \E changed \in BOOLEAN :
       \/ SetValueComplete(changed)
       \/ /\ updated' = (updated \/ changed)
          /\ owed' = (IF changed THEN Subscribers ELSE owed)
  /\ UNCHANGED subs

\* GetValue and a first Subscribe read the value themselves.
ClientGet(c)         == owed' = owed \ {c} /\ UNCHANGED <<subs, updated>>
ClientSubscribe(c)   == subs' = subs \cup {c} /\ owed' = owed \ {c} /\ UNCHANGED updated
ClientUnSubscribe(c) == subs' = subs \ {c} /\ owed' = owed \ {c} /\ UNCHANGED updated

\* A request in a suspend is answered with an error and changes nothing; with
\* no request left to read, the receive fails.
ClientExec(c) ==
  /\ Take([src |-> c, hup |-> FALSE]) /\ (Dropping \/ c \notin dangling)
  /\ sock' = sock \ {c}
  /\ IF GetSuspend \/ c \notin sock THEN UNCHANGED propVars
     ELSE ClientSet \/ ClientGet(c) \/ ClientSubscribe(c) \/ ClientUnSubscribe(c)
  /\ UNCHANGED <<mode, dangling, queue, exit, conn, gone, pfm, waitVars, late>>

-----------------------------------------------------------------------------
(* StrStateEvent after its drops                                           *)

Park ==
  /\ mode = "drop1" /\ drop = {} /\ Ready = {}
  /\ mode' = "parked"
  /\ UNCHANGED <<batch, drop, dangling, queue, exit, connVars, propVars,
                 pfm, waitVars, late>>

Unpark ==
  /\ mode = "parked" /\ (pfm = "resuming" \/ late)
  /\ mode' = "drop2"
  /\ UNCHANGED <<batch, drop, dangling, queue, exit, connVars, propVars,
                 pfm, waitVars, late>>

\* SetSuspend(false), StrResume, and back into the outer batch.
StrResume ==
  /\ mode = "drop2" /\ drop = {} /\ Ready = {}
  /\ mode' = "batch"
  /\ pfm' = (IF pfm = "resuming" THEN "idle" ELSE pfm)
  /\ UNCHANGED <<batch, drop, dangling, queue, exit, connVars, propVars,
                 waitVars, late>>

-----------------------------------------------------------------------------
(* The PFM thread                                                          *)

Load == calls + Cardinality({c \in Clients : conn[c] # "away"})

pfmUnchanged == UNCHANGED <<loopVars, exit, connVars, propVars>>

\* vhal_pfm_vehicle_power_state (vhal_pfm_power_state alike, with a wait object
\* of its own): WriteEvent, then Wait, which first resets the notification.
VehiclePowerState ==
  /\ pfm = "idle" /\ Alive /\ ~exit /\ calls < MaxPowers
  /\ Load < MaxLoad \/ Load = calls
  /\ calls' = calls + 1
  /\ IF GetSuspend THEN UNCHANGED <<queue, pfm>>
     ELSE /\ queue' = [queue EXCEPT !["main"] = Append(@, Power(calls'))]
          /\ pfm' = "posted"
  /\ pfmUnchanged /\ UNCHANGED <<notify, done, overdue, late>>

\* Seeded fault: the notification of the last call is not reset.
Wait_NoReset ==
  /\ pfm = "posted" /\ pfm' = "waiting"
  /\ pfmUnchanged /\ UNCHANGED <<queue, waitVars, late>>
Wait ==
  /\ pfm = "posted" /\ pfm' = "waiting" /\ notify' = FALSE
  /\ pfmUnchanged /\ UNCHANGED <<queue, calls, done, overdue, late>>

WaitReturns ==
  /\ pfm = "waiting" /\ notify /\ pfm' = "idle"
  /\ overdue' = (IF done = calls THEN overdue ELSE overdue \cup {calls})
  /\ pfmUnchanged /\ UNCHANGED <<queue, notify, calls, done, late>>

WaitTimesOut ==
  /\ pfm = "waiting" /\ ~notify /\ pfm' = "idle"
  /\ overdue' = overdue \cup {calls}
  /\ pfmUnchanged /\ UNCHANGED <<queue, notify, calls, done, late>>

\* vhal_pfm_str_state, once the VM is ready (StrHandshake has the rest).  What a
\* further cycle does after a late resume is StrHandshake's subject, too.
SuspendStart ==
  /\ pfm = "idle" /\ Alive /\ ~exit /\ ~GetSuspend /\ ~late
  /\ queue' = [queue EXCEPT !["prop"] = Append(@, Other("str"))] /\ pfm' = "strWait"
  /\ pfmUnchanged /\ UNCHANGED <<waitVars, late>>

ResumeStart ==
  /\ pfm = "suspended" /\ pfm' = "resuming"
  /\ pfmUnchanged /\ UNCHANGED <<queue, waitVars, late>>

\* After 18 s the PFM thread goes on without the main thread.
ResumeTimesOut ==
  /\ pfm = "resuming" /\ pfm' = "idle" /\ late' = TRUE
  /\ pfmUnchanged /\ UNCHANGED <<queue, waitVars>>

\* vhal_pfm_shutdown shuts the main route's socket down.
ExitEventLoop ==
  /\ pfm = "idle" /\ Alive /\ ~exit /\ exit' = TRUE
  /\ UNCHANGED <<loopVars, queue, connVars, propVars, pfm, waitVars, late>>

-----------------------------------------------------------------------------
(* Other threads, clients and the network                                  *)

envUnchanged == UNCHANGED <<loopVars, propVars, pfm, waitVars, late>>

\* WriteEvent of any other thread; refused in a suspend.
WriteEvent ==
  /\ Alive /\ ~GetSuspend /\ Len(queue["prop"]) < MaxQueue
  /\ queue' = [queue EXCEPT !["prop"] = Append(@, Other("change"))]
  /\ envUnchanged /\ UNCHANGED <<exit, connVars>>

Connect(c) ==
  /\ Alive /\ conn[c] = "away" /\ Load < MaxLoad
  /\ conn' = [conn EXCEPT ![c] = "pending"]
  /\ envUnchanged /\ UNCHANGED <<queue, exit, gone, sock>>

\* A client sends its next request when the last one was answered.
Send(c) ==
  /\ conn[c] \in {"open", "deaf"} /\ c \notin gone \cup sock /\ sock' = sock \cup {c}
  /\ envUnchanged /\ UNCHANGED <<queue, exit, conn, gone>>

HangUp(c) ==
  /\ conn[c] \in {"pending", "open"} /\ c \notin gone /\ gone' = gone \cup {c}
  /\ envUnchanged /\ UNCHANGED <<queue, exit, conn, sock>>

-----------------------------------------------------------------------------

MainNext ==
  \/ Poll \/ EndBatch \/ DropEvents \/ ServerExec
  \/ \E r \in Route : RouteExec(r)
  \/ RouteHungUp \/ DropsHangUp
  \/ \E c \in Clients : ClientHungUp(c) \/ UseDangling(c) \/ ClientExec(c)
  \/ Park \/ Unpark \/ StrResume

WaitNext == Wait \/ WaitReturns \/ WaitTimesOut

PfmNext == VehiclePowerState \/ SuspendStart \/ ResumeStart \/ ResumeTimesOut \/ ExitEventLoop

EnvNext ==
  \/ WriteEvent
  \/ \E c \in Clients : Connect(c) \/ Send(c) \/ HangUp(c)

LoopNext == MainNext \/ WaitNext \/ PfmNext \/ EnvNext

LoopSpec == LoopInit /\ [][LoopNext]_serverVars

\* The main thread and a waiting PFM thread run; nothing else has to happen.
FairLoop == LoopSpec /\ WF_serverVars(MainNext) /\ WF_serverVars(WaitNext)

-----------------------------------------------------------------------------
(* Properties                                                              *)

\* Every entry the loop still has to handle points to a live client, but for
\* those whose client a nested DropEvents has deleted.
BatchIsLive ==
  \A e \in batch : e.src \in Clients => conn[e.src] = "open" \/ e.src \in dangling

\* A subscriber that was not told of a change a client or an event made will be
\* told with the next: only an answer that could not be sent leaves it owed.
SubscribersAreTold == owed # {} => updated

\* The power callback that returns in time has been handled itself, or is answered
\* by an earlier one that had been given up, or was itself answered by such a one.
AnswerIsOwn == pfm = "waiting" /\ notify => done = calls \/ done \in overdue

\* The main thread reads, or will read, a route a nested DropEvents has emptied.
Blocked ==
  mode = "batch" /\ \E r \in Route : [src |-> r, hup |-> FALSE] \in batch /\ queue[r] = <<>>

\* A request is answered, unless the client was never registered, or the loop
\* ends, suspends or blocks.
RequestIsAnswered ==
  \A c \in Clients :
    c \in sock ~> c \notin sock \/ conn[c] = "deaf" \/ ~Alive \/ GetSuspend \/ Blocked
=============================================================================
