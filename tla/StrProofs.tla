----------------------------- MODULE StrProofs -----------------------------
(***************************************************************************)
(* Proofs about StrHandshake, for every value of its constants.            *)
(***************************************************************************)
EXTENDS StrProperties, TLAPS

-----------------------------------------------------------------------------
(* Notifying and erasing keep the four flags Boolean.                      *)
LEMMA NotifyType ==
  ASSUME flag \in [WaitState -> BOOLEAN], NEW s \in WaitState, NotifyOne(s)
  PROVE  flag' \in [WaitState -> BOOLEAN] /\ flag'[s] = TRUE
                /\ \A t \in WaitState \ {s} : flag'[t] = flag[t]
BY DEF NotifyOne

LEMMA SetStrModeType ==
  ASSUME flag \in [WaitState -> BOOLEAN], NEW on \in BOOLEAN, SetStrMode(on)
  PROVE  /\ flag' \in [WaitState -> BOOLEAN] /\ strMode' = on
         /\ on => flag' = flag
         /\ ~on => \A t \in WaitState : flag'[t] = FALSE
BY DEF SetStrMode

(* The type invariant: every variable keeps its type, whatever the threads *)
(* do.                                                                     *)
THEOREM TypeCorrect == Spec => []TypeOK
<1> USE StrAssumption
<1>1. Init => TypeOK
  <2> SUFFICES ASSUME Init PROVE TypeOK
    OBVIOUS
  <2>1. flag \in [WaitState -> BOOLEAN]
    BY DEF Init
  <2>2. writer \in [Writers -> [busy : BOOLEAN, born : Nat]]
    BY DEF Init, Idle
  <2>3. queue \in Seq(Event)
    BY DEF Init
  <2> QED BY <2>1, <2>2, <2>3 DEF Init, TypeOK, VmStatus, PfmStep, MainStep
<1>2. TypeOK /\ [Next]_vars => TypeOK'
  <2> SUFFICES ASSUME TypeOK, [Next]_vars PROVE TypeOK'
    OBVIOUS
  <2> USE DEF TypeOK
  <2>1. CASE PfmSuspendStart
    BY <2>1, SetStrModeType DEF PfmSuspendStart, PfmStep, loopVars, devVars
  <2>2. CASE PfmPostStr
    <3>1. [kind |-> "STR", by |-> "pfm", born |-> epoch] \in Event
      BY DEF Event
    <3> QED BY <2>2, <3>1 DEF PfmPostStr, PfmStep, strVars, devVars, envVars
  <2>3. CASE PfmAbort
    BY <2>3, SetStrModeType DEF PfmAbort, PfmStep, loopVars, devVars
  <2>4. CASE PfmEndResume
    BY <2>4, SetStrModeType DEF PfmEndResume, PfmStep, loopVars, devVars
  <2>5. CASE PfmNotifySystem
    BY <2>5, NotifyType DEF PfmNotifySystem, PfmStep, WaitState, loopVars, devVars, envVars
  <2>6. CASE PfmAppsAnswered \/ PfmPostFails \/ PfmVhalSuspended \/ PfmResumeStart
             \/ PfmResumed \/ PfmResumeTimeout
    BY <2>6 DEF PfmAppsAnswered, PfmPostFails, PfmVhalSuspended, PfmResumeStart,
      PfmResumed, PfmResumeTimeout, PfmStep, strVars, loopVars, devVars, envVars
  <2>7. CASE ExecEvent
    <3>1. queue' \in Seq(Event)
      BY <2>7 DEF ExecEvent
    <3>2. main' \in MainStep
      BY <2>7 DEF ExecEvent, MainStep
    <3>3. vmstrValue' \in {"SUCCESS", "ERR"} /\ flag' \in [WaitState -> BOOLEAN]
      BY <2>7, NotifyType DEF ExecEvent, ActionVmStrChange, WaitState
    <3>4. video' \in BOOLEAN /\ blinder' \in SUBSET Displays
      BY <2>7 DEF ExecEvent, ExecWork, StrAssumption
    <3> QED BY <2>7, <3>1, <3>2, <3>3, <3>4 DEF ExecEvent, envVars
  <2>8. CASE SetSuspend
    BY <2>8 DEF SetSuspend, MainStep, strVars, devVars, envVars
  <2>9. CASE StrSuspend
    BY <2>9 DEF StrSuspend, MainStep, strVars, loopVars, envVars, StrAssumption
  <2>10. CASE NotifySuspended \/ NotifyResumed
    BY <2>10, NotifyType DEF NotifySuspended, NotifyResumed, MainStep, WaitState,
      loopVars, devVars, envVars
  <2>11. CASE DropEventsDone \/ WaitResumeSystem \/ ClearSuspend
    BY <2>11 DEF DropEventsDone, WaitResumeSystem, ClearSuspend, MainStep,
      strVars, loopVars, devVars, envVars
  <2>12. CASE StrResume
    BY <2>12 DEF StrResume, MainStep, strVars, loopVars, envVars
  <2>13. ASSUME NEW w \in Writers, WriterCheck(w) PROVE TypeOK'
    BY <2>13 DEF WriterCheck, strVars, loopVars, devVars
  <2>14. ASSUME NEW w \in Writers, WriterWrite(w) PROVE TypeOK'
    <3>1. [kind |-> IF w = "sysdb" THEN "SYSDB" ELSE "WORK",
           by |-> w, born |-> writer[w].born] \in Event
      BY DEF Event
    <3> QED BY <2>14, <3>1 DEF WriterWrite, Idle, strVars, devVars, envVars
  <2>15. CASE EnvNext
    BY <2>15 DEF EnvNext, SystemStartsCycle, SysdbDiscard, VmReports, VmStatus,
      strVars, loopVars, devVars
  <2>16. CASE UNCHANGED vars
    BY <2>16 DEF vars, strVars, loopVars, devVars, envVars
  <2> QED BY <2>1, <2>2, <2>3, <2>4, <2>5, <2>6, <2>7, <2>8, <2>9, <2>10, <2>11,
             <2>12, <2>13, <2>14, <2>15, <2>16 DEF Next, PfmNext, MainNext
<1> QED BY <1>1, <1>2, PTL DEF Spec

-----------------------------------------------------------------------------
(* Why a suspended VideoHAL is quiet.  Between SetSuspend(true) and         *)
(* SetSuspend(false) the main thread alone touches the devices, and it does *)
(* nothing to them after StrSuspend.  What is left to show is that the PFM  *)
(* thread's wait for SuspendVhal is answered by the suspend it asked for:   *)
(* at most one STR event is under way, it is under way only while the PFM   *)
(* thread waits, and SuspendVhal is set only once it has been handled.      *)
(* None of this rests on the 18 s timeout: the PFM thread may return from   *)
(* a resume too early and the argument still holds.                         *)
Waiting      == pfm = "waitVhal"
Handling     == main \in {"setSuspend", "strSuspend", "notifySuspended"}
Parked       == main \in {"drop1", "waitSystem"}
NoStrQueued  == \A i \in 1..Len(queue) : queue[i].kind # "STR"
OneStrQueued == \E i \in 1..Len(queue) :
                  \A j \in 1..Len(queue) : queue[j].kind = "STR" <=> i = j

SuspendSteps == {"strSuspend", "notifySuspended", "drop1", "waitSystem",
                 "drop2", "clearSuspend"}

DevicesInv ==
  /\ suspend = TRUE <=> main \in SuspendSteps
  /\ main \in SuspendSteps \ {"strSuspend"} =>
       ~micon /\ ~video /\ Surfaces \subseteq blinder /\ service = "SUSPEND"

HandshakeInv ==
  /\ pfm # "idle" => strMode = TRUE
  /\ flag["ResumeSystem"] = TRUE => pfm \in {"waitResume", "endResume"}
  /\ Waiting /\ flag["SuspendVhal"] = FALSE =>
       \/ OneStrQueued /\ main \in {"loop", "strResume", "notifyResumed"}
       \/ NoStrQueued /\ Handling
  /\ Waiting /\ flag["SuspendVhal"] = TRUE => NoStrQueued /\ Parked
  /\ ~Waiting => NoStrQueued /\ ~Handling
  /\ pfm \in {"waitApps", "postStr", "abort"} \/ strMode = FALSE =>
       flag["SuspendVhal"] = FALSE
  /\ pfm = "idle" /\ strMode = TRUE => Parked

QuietInv == TypeOK /\ DevicesInv /\ HandshakeInv

(* Appending an event that is not the STR event, or dropping one that is   *)
(* not, changes nothing about the STR events in the queue.                 *)
LEMMA AppendOther ==
  ASSUME queue \in Seq(Event), NEW e \in Event, e.kind # "STR", queue' = Append(queue, e)
  PROVE  /\ NoStrQueued => NoStrQueued'
         /\ OneStrQueued => OneStrQueued'
<1>1. /\ Len(queue') = Len(queue) + 1 /\ Len(queue) \in Nat
      /\ \A i \in 1..Len(queue) : queue'[i] = queue[i]
      /\ queue'[Len(queue) + 1] = e
  OBVIOUS
<1>2. NoStrQueued => NoStrQueued'
  BY <1>1 DEF NoStrQueued
<1>3. ASSUME OneStrQueued PROVE OneStrQueued'
  <2>1. PICK i \in 1..Len(queue) : \A j \in 1..Len(queue) : queue[j].kind = "STR" <=> i = j
    BY <1>3 DEF OneStrQueued
  <2>2. i \in 1..Len(queue')
    BY <1>1
  <2>3. ASSUME NEW j \in 1..Len(queue') PROVE queue'[j].kind = "STR" <=> i = j
    BY <1>1, <2>1
  <2> QED BY <2>2, <2>3 DEF OneStrQueued
<1> QED BY <1>2, <1>3

LEMMA TailOther ==
  ASSUME queue \in Seq(Event), queue # <<>>, queue' = Tail(queue)
  PROVE  /\ NoStrQueued => NoStrQueued' /\ Head(queue).kind # "STR"
         /\ OneStrQueued /\ Head(queue).kind # "STR" => OneStrQueued'
         /\ OneStrQueued /\ Head(queue).kind = "STR" => NoStrQueued'
<1>1. /\ Len(queue') = Len(queue) - 1 /\ Len(queue) \in Nat /\ Len(queue) > 0
      /\ \A i \in 1..Len(queue') : queue'[i] = queue[i + 1]
      /\ Head(queue) = queue[1]
  OBVIOUS
<1>2. NoStrQueued => NoStrQueued' /\ Head(queue).kind # "STR"
  BY <1>1 DEF NoStrQueued
<1>3. ASSUME OneStrQueued
      PROVE  /\ Head(queue).kind # "STR" => OneStrQueued'
             /\ Head(queue).kind = "STR" => NoStrQueued'
  <2>1. PICK i \in 1..Len(queue) : \A j \in 1..Len(queue) : queue[j].kind = "STR" <=> i = j
    BY <1>3 DEF OneStrQueued
  <2>2. CASE i = 1
    <3>1. Head(queue).kind = "STR"
      BY <1>1, <2>1, <2>2
    <3>2. \A j \in 1..Len(queue') : queue'[j].kind # "STR"
      BY <1>1, <2>1, <2>2
    <3> QED BY <3>1, <3>2 DEF NoStrQueued
  <2>3. CASE i # 1
    <3>1. Head(queue).kind # "STR"
      BY <1>1, <2>1, <2>3
    <3>2. i - 1 \in 1..Len(queue')
      BY <1>1, <2>3
    <3>3. \A j \in 1..Len(queue') : queue'[j].kind = "STR" <=> i - 1 = j
      BY <1>1, <2>1
    <3> QED BY <3>1, <3>2, <3>3 DEF OneStrQueued
  <2> QED BY <2>2, <2>3
<1> QED BY <1>2, <1>3

(* Every step preserves the two invariants, one action at a time.          *)
LEMMA QuietInvStep ==
  ASSUME StrAssumption, QuietInv, TypeOK', [Next]_vars
  PROVE  DevicesInv' /\ HandshakeInv'
<1> USE DEF QuietInv
<1>type. /\ flag \in [WaitState -> BOOLEAN] /\ queue \in Seq(Event)
         /\ strMode \in BOOLEAN /\ suspend \in BOOLEAN
  BY DEF TypeOK
<1>1. CASE PfmSuspendStart
  BY <1>1, <1>type, SetStrModeType DEF PfmSuspendStart, DevicesInv, HandshakeInv, WaitState,
    Waiting, Handling, Parked, NoStrQueued, OneStrQueued, SuspendSteps, loopVars, devVars
<1>2. CASE PfmPostStr
  <2>1. pfm = "postStr" /\ ~suspend /\ pfm' = "waitVhal" /\ UNCHANGED <<main, flag, strMode>>
    BY <1>2 DEF PfmPostStr, strVars
  <2>2. NoStrQueued /\ ~Handling /\ flag["SuspendVhal"] = FALSE
    BY <2>1 DEF HandshakeInv, Waiting
  <2>3. OneStrQueued'
    <3>1. queue' = Append(queue, [kind |-> "STR", by |-> "pfm", born |-> epoch])
      BY <1>2 DEF PfmPostStr
    <3>2. /\ Len(queue') = Len(queue) + 1 /\ Len(queue) \in Nat
          /\ \A i \in 1..Len(queue) : queue'[i] = queue[i]
          /\ queue'[Len(queue) + 1].kind = "STR"
      BY <3>1, <1>type
    <3>3. \A j \in 1..Len(queue') : queue'[j].kind = "STR" <=> Len(queue) + 1 = j
      BY <3>2, <2>2 DEF NoStrQueued
    <3>4. Len(queue) + 1 \in 1..Len(queue')
      BY <3>2
    <3> QED BY <3>3, <3>4 DEF OneStrQueued
  <2>4. main \in {"loop", "strResume", "notifyResumed"}
    BY <2>1, <2>2 DEF DevicesInv, SuspendSteps, Handling, TypeOK, MainStep
  <2>5. DevicesInv'
    BY <1>2 DEF PfmPostStr, DevicesInv, SuspendSteps, devVars
  <2> QED BY <2>1, <2>2, <2>3, <2>4, <2>5, <1>type DEF HandshakeInv, Waiting, WaitState
<1>3. CASE PfmAbort
  BY <1>3, <1>type, SetStrModeType DEF PfmAbort, DevicesInv, HandshakeInv, WaitState,
    Waiting, Handling, Parked, NoStrQueued, OneStrQueued, SuspendSteps, loopVars, devVars
<1>4. CASE PfmEndResume
  BY <1>4, <1>type, SetStrModeType DEF PfmEndResume, DevicesInv, HandshakeInv, WaitState,
    Waiting, Handling, Parked, NoStrQueued, OneStrQueued, SuspendSteps, loopVars, devVars
<1>5. CASE PfmNotifySystem
  BY <1>5, <1>type, NotifyType DEF PfmNotifySystem, DevicesInv, HandshakeInv, WaitState,
    Waiting, Handling, Parked, NoStrQueued, OneStrQueued, SuspendSteps, loopVars, devVars
<1>6. CASE PfmAppsAnswered \/ PfmPostFails \/ PfmVhalSuspended \/ PfmResumeStart
           \/ PfmResumed \/ PfmResumeTimeout
  BY <1>6, <1>type DEF PfmAppsAnswered, PfmPostFails, PfmVhalSuspended, PfmResumeStart,
    PfmResumed, PfmResumeTimeout, DevicesInv, HandshakeInv, WaitState, Waiting, Handling,
    Parked, NoStrQueued, OneStrQueued, SuspendSteps, strVars, loopVars, devVars
<1>7. CASE ExecEvent
  <2>1. queue # <<>> /\ queue' = Tail(queue) /\ UNCHANGED <<pfm, strMode, suspend, micon, service>>
    BY <1>7 DEF ExecEvent
  <2>2. /\ NoStrQueued => NoStrQueued' /\ Head(queue).kind # "STR"
        /\ OneStrQueued /\ Head(queue).kind # "STR" => OneStrQueued'
        /\ OneStrQueued /\ Head(queue).kind = "STR" => NoStrQueued'
    BY <2>1, <1>type, TailOther
  <2>3. CASE suspend
    BY <1>7, <2>1, <2>2, <2>3 DEF ExecEvent, DevicesInv, HandshakeInv, Waiting, Handling,
      Parked, SuspendSteps
  <2>4. CASE ~suspend /\ Head(queue).kind = "STR"
    <3>1. main' = "setSuspend" /\ UNCHANGED <<flag, video, blinder>> /\ main = "loop"
      BY <1>7, <2>4 DEF ExecEvent, DevicesInv, SuspendSteps
    <3> QED BY <2>1, <2>2, <2>4, <3>1 DEF DevicesInv, HandshakeInv, Waiting, Handling,
          Parked, SuspendSteps
  <2>5. CASE ~suspend /\ Head(queue).kind = "SYSDB"
    <3>1. UNCHANGED <<main, video, blinder>> /\ ActionVmStrChange
      BY <1>7, <2>4, <2>5 DEF ExecEvent
    <3>2. /\ flag'["SuspendVhal"] = flag["SuspendVhal"]
          /\ flag'["ResumeSystem"] = flag["ResumeSystem"]
      BY <3>1, <1>type, NotifyType DEF ActionVmStrChange, WaitState
    <3> QED BY <2>1, <2>2, <2>5, <3>1, <3>2 DEF DevicesInv, HandshakeInv, Waiting, Handling,
          Parked, SuspendSteps
  <2>6. CASE ~suspend /\ Head(queue).kind = "WORK"
    <3>1. UNCHANGED <<main, flag>>
      BY <1>7, <2>6 DEF ExecEvent
    <3> QED BY <2>1, <2>2, <2>6, <3>1 DEF DevicesInv, HandshakeInv, Waiting, Handling,
          Parked, SuspendSteps
  <2> QED BY <1>7, <2>3, <2>4, <2>5, <2>6 DEF ExecEvent
<1>8. CASE SetSuspend \/ StrSuspend
  BY <1>8, <1>type DEF SetSuspend, StrSuspend, DevicesInv, HandshakeInv, Waiting, Handling,
    Parked, NoStrQueued, OneStrQueued, SuspendSteps, strVars, loopVars, devVars
<1>9. CASE NotifySuspended
  <2>1. /\ main = "notifySuspended" /\ main' = "drop1"
        /\ flag'["SuspendVhal"] = TRUE /\ flag'["ResumeSystem"] = flag["ResumeSystem"]
        /\ UNCHANGED <<pfm, strMode, suspend, queue, micon, video, blinder, service>>
    BY <1>9, <1>type, NotifyType DEF NotifySuspended, WaitState, loopVars, devVars
  <2>2. Waiting /\ NoStrQueued
    BY <2>1 DEF HandshakeInv, Handling, TypeOK
  <2>3. DevicesInv'
    BY <2>1 DEF DevicesInv, SuspendSteps
  <2>4. Parked' /\ NoStrQueued' /\ Waiting'
    BY <2>1, <2>2 DEF Parked, NoStrQueued, Waiting
  <2> QED BY <2>1, <2>2, <2>3, <2>4 DEF HandshakeInv, Waiting
<1>15. CASE NotifyResumed
  <2>1. /\ main = "notifyResumed" /\ main' = "loop"
        /\ flag'["SuspendVhal"] = flag["SuspendVhal"]
        /\ flag'["ResumeSystem"] = flag["ResumeSystem"]
        /\ UNCHANGED <<pfm, strMode, suspend, queue, micon, video, blinder, service>>
    BY <1>15, <1>type, NotifyType DEF NotifyResumed, WaitState, loopVars, devVars
  <2> QED BY <2>1 DEF DevicesInv, HandshakeInv, Waiting, Handling, Parked, NoStrQueued,
        OneStrQueued, SuspendSteps
<1>10. CASE DropEventsDone \/ WaitResumeSystem \/ ClearSuspend
  BY <1>10, <1>type DEF DropEventsDone, WaitResumeSystem, ClearSuspend, DevicesInv, HandshakeInv,
    Waiting, Handling, Parked, NoStrQueued, OneStrQueued, SuspendSteps, strVars, loopVars, devVars
<1>11. CASE StrResume
  BY <1>11, <1>type DEF StrResume, DevicesInv, HandshakeInv, Waiting, Handling,
    Parked, NoStrQueued, OneStrQueued, SuspendSteps, strVars, loopVars
<1>12. ASSUME NEW w \in Writers, WriterCheck(w) PROVE DevicesInv' /\ HandshakeInv'
  BY <1>12 DEF WriterCheck, DevicesInv, HandshakeInv, Waiting, Handling, Parked, NoStrQueued,
    OneStrQueued, SuspendSteps, strVars, loopVars, devVars
<1>13. ASSUME NEW w \in Writers, WriterWrite(w) PROVE DevicesInv' /\ HandshakeInv'
  <2>1. PICK e \in Event : e.kind # "STR" /\ queue' = Append(queue, e)
    <3> DEFINE e == [kind |-> IF w = "sysdb" THEN "SYSDB" ELSE "WORK",
                     by |-> w, born |-> writer[w].born]
    <3>1. e \in Event /\ e.kind # "STR"
      BY DEF Event, TypeOK
    <3>2. queue' = Append(queue, e)
      BY <1>13 DEF WriterWrite
    <3> HIDE DEF e
    <3> QED BY <3>1, <3>2
  <2>2. (NoStrQueued => NoStrQueued') /\ (OneStrQueued => OneStrQueued')
    BY <2>1, <1>type, AppendOther
  <2> QED BY <1>13, <2>2 DEF WriterWrite, DevicesInv, HandshakeInv, Waiting, Handling, Parked,
        SuspendSteps, strVars, devVars
<1>14. CASE EnvNext \/ UNCHANGED vars
  <2>1. UNCHANGED <<pfm, main, flag, strMode, suspend, queue, micon, video, blinder, service>>
    BY <1>14 DEF EnvNext, SystemStartsCycle, SysdbDiscard, VmReports, vars, strVars, loopVars,
      devVars
  <2> QED BY <2>1 DEF DevicesInv, HandshakeInv, Waiting, Handling, Parked, NoStrQueued,
        OneStrQueued, SuspendSteps
<1> QED BY <1>1, <1>2, <1>3, <1>4, <1>5, <1>6, <1>7, <1>8, <1>9, <1>15, <1>10, <1>11, <1>12,
           <1>13, <1>14 DEF Next, PfmNext, MainNext

THEOREM QuietInvariant == Spec => []QuietInv
<1>1. Init => DevicesInv /\ HandshakeInv
  BY DEF Init, DevicesInv, HandshakeInv, Waiting, Handling, Parked, NoStrQueued, SuspendSteps,
    WaitState
<1>2. TypeOK /\ TypeOK' /\ DevicesInv /\ HandshakeInv /\ [Next]_vars
        => DevicesInv' /\ HandshakeInv'
  BY StrAssumption, QuietInvStep DEF QuietInv
<1> QED BY <1>1, <1>2, TypeCorrect, PTL DEF Spec, QuietInv

(* While the power manager believes VideoHAL suspended, VideoHAL is        *)
(* suspended and quiet: however late the PFM thread's earlier waits        *)
(* returned, and whatever the other threads and the VM do.                 *)
THEOREM SuspendedQuiet == Spec => []SuspendedIsQuiet
<1>1. QuietInv => SuspendedIsQuiet
  BY DEF QuietInv, DevicesInv, HandshakeInv, SuspendedIsQuiet, Suspended, Parked,
    SuspendSteps, TypeOK
<1> QED BY <1>1, QuietInvariant, PTL

-----------------------------------------------------------------------------
(* Each writer leaks at most one event over a suspend, for any number of   *)
(* threads, any capacity of the socket pair and any number of cycles.  The *)
(* property is inductive once DevicesInv says that the main thread handles *)
(* nothing in DropEvents.                                                  *)
LEMMA LeakStep ==
  ASSUME QuietInv, LeakAtMostOnePerWriter, [Next]_vars
  PROVE  LeakAtMostOnePerWriter'
<1>type. queue \in Seq(Event) /\ writer \in [Writers -> [busy : BOOLEAN, born : Nat]]
  BY DEF QuietInv, TypeOK
<1>quiet. main \in {"drop1", "drop2"} => suspend = TRUE
  BY DEF QuietInv, DevicesInv, SuspendSteps
<1>1. CASE PfmPostStr
  <2>1. queue' = Append(queue, [kind |-> "STR", by |-> "pfm", born |-> epoch])
        /\ UNCHANGED <<main, epoch, writer>>
    BY <1>1 DEF PfmPostStr
  <2>2. /\ Len(queue) \in Nat /\ DOMAIN queue' = 1..(Len(queue) + 1)
        /\ \A i \in DOMAIN queue : queue'[i] = queue[i]
        /\ queue'[Len(queue) + 1].born = epoch
    BY <2>1, <1>type
  <2>3. epoch \in Nat
    BY DEF QuietInv, TypeOK
  <2>4. \A i \in DOMAIN queue' : Stale(i)' => i \in DOMAIN queue /\ Stale(i)
    BY <2>1, <2>2, <2>3, <1>type DEF Stale
  <2> QED BY <2>1, <2>2, <2>4 DEF LeakAtMostOnePerWriter, Flushed
<1>2. CASE ExecEvent
  <2>1. queue # <<>> /\ queue' = Tail(queue) /\ UNCHANGED <<epoch, writer>>
    BY <1>2 DEF ExecEvent
  <2>2. Flushed' => Flushed
    BY <1>2, <1>quiet DEF ExecEvent, Flushed
  <2>3. /\ Len(queue) \in Nat /\ DOMAIN queue' = 1..(Len(queue) - 1)
        /\ DOMAIN queue = 1..Len(queue)
        /\ \A i \in DOMAIN queue' : queue'[i] = queue[i + 1]
    BY <2>1, <1>type
  <2>4. \A i \in DOMAIN queue' : i + 1 \in DOMAIN queue /\ (Stale(i)' => Stale(i + 1))
    BY <2>1, <2>3 DEF Stale
  <2> QED BY <2>1, <2>2, <2>3, <2>4 DEF LeakAtMostOnePerWriter
<1>3. ASSUME NEW w \in Writers, WriterWrite(w) PROVE LeakAtMostOnePerWriter'
  <2> DEFINE e == [kind |-> IF w = "sysdb" THEN "SYSDB" ELSE "WORK",
                   by |-> w, born |-> writer[w].born]
  <2>0. PICK n \in Nat : n = Len(queue) + 1
    BY <1>type
  <2>1. /\ writer[w].busy /\ queue' = Append(queue, e) /\ UNCHANGED <<main, epoch>>
        /\ writer' = [writer EXCEPT ![w] = Idle]
    BY <1>3 DEF WriterWrite
  <2>2. e.by = w /\ e.born = writer[w].born
    OBVIOUS
  <2> HIDE DEF e
  <2>3. /\ Len(queue) \in Nat /\ DOMAIN queue' = 1..n /\ DOMAIN queue = 1..Len(queue)
        /\ \A i \in DOMAIN queue : queue'[i] = queue[i]
        /\ queue'[n] = e
    BY <2>0, <2>1, <1>type
  <2>4. SUFFICES ASSUME Flushed, NEW i \in DOMAIN queue', Stale(i)'
                 PROVE  /\ queue'[i].by \in Writers
                        /\ \A j \in DOMAIN queue' :
                             Stale(j)' /\ queue'[j].by = queue'[i].by => i = j
                        /\ ~(writer'[queue'[i].by].busy /\ writer'[queue'[i].by].born < epoch')
    BY <2>1 DEF LeakAtMostOnePerWriter, Flushed
  <2>5. \A j \in DOMAIN queue : Stale(j)' <=> Stale(j)
    BY <2>1, <2>3 DEF Stale
  <2>6. ASSUME Stale(n)' PROVE \A j \in DOMAIN queue : Stale(j) => queue[j].by # w
    BY <2>1, <2>2, <2>3, <2>4, <2>6 DEF LeakAtMostOnePerWriter, Stale
  <2>7. ~writer'[w].busy
    BY <2>1, <1>type DEF Idle
  <2>8. CASE i = n
    <3>1. ASSUME NEW j \in DOMAIN queue', Stale(j)', queue'[j].by = w PROVE j = n
      <4>1. CASE j \in DOMAIN queue
        BY <2>3, <2>5, <2>6, <2>4, <2>8, <3>1, <4>1
      <4> QED BY <2>0, <2>3, <4>1
    <3> QED BY <2>2, <2>3, <2>7, <2>8, <3>1
  <2>9. CASE i \in DOMAIN queue
    <3>1. /\ Stale(i) /\ queue[i].by \in Writers
          /\ \A j \in DOMAIN queue : Stale(j) /\ queue[j].by = queue[i].by => i = j
          /\ ~(writer[queue[i].by].busy /\ writer[queue[i].by].born < epoch)
      BY <2>4, <2>5, <2>9 DEF LeakAtMostOnePerWriter
    <3>2. ~(Stale(n)' /\ queue'[i].by = w)
      BY <2>3, <2>6, <2>9, <3>1
    <3>3. ASSUME NEW j \in DOMAIN queue', Stale(j)', queue'[j].by = queue'[i].by PROVE i = j
      <4>1. CASE j = n
        BY <2>2, <2>3, <3>2, <3>3, <4>1
      <4>2. CASE j \in DOMAIN queue
        BY <2>3, <2>5, <2>9, <3>1, <3>3, <4>2
      <4> QED BY <2>0, <2>3, <4>1, <4>2
    <3>4. ~(writer'[queue'[i].by].busy /\ writer'[queue'[i].by].born < epoch')
      BY <2>1, <2>3, <2>7, <2>9, <3>1, <1>type
    <3> QED BY <2>3, <2>9, <3>1, <3>3, <3>4
  <2> QED BY <2>0, <2>3, <2>8, <2>9
<1>4. ASSUME NEW w \in Writers, WriterCheck(w) PROVE LeakAtMostOnePerWriter'
  <2>1. /\ UNCHANGED <<main, queue, epoch>>
        /\ writer' = [writer EXCEPT ![w] = [busy |-> TRUE, born |-> epoch]]
    BY <1>4 DEF WriterCheck, loopVars
  <2>2. \A v \in Writers : writer'[v].busy /\ writer'[v].born < epoch =>
          writer[v].busy /\ writer[v].born < epoch
    <3>1. epoch \in Nat
      BY DEF QuietInv, TypeOK
    <3> QED BY <2>1, <3>1, <1>type
  <2> QED BY <2>1, <2>2 DEF LeakAtMostOnePerWriter, Flushed, Stale
<1>5. CASE SetSuspend
  BY <1>5 DEF SetSuspend, LeakAtMostOnePerWriter, Flushed
<1>6. CASE DropEventsDone
  <2>1. queue' = <<>>
    BY <1>6 DEF DropEventsDone, loopVars
  <2> QED BY <2>1 DEF LeakAtMostOnePerWriter
<1>7. CASE UNCHANGED <<queue, epoch, writer>> /\ (Flushed' => Flushed)
  BY <1>7 DEF LeakAtMostOnePerWriter, Stale
<1>8. CASE MainNext /\ ~ExecEvent /\ ~SetSuspend /\ ~DropEventsDone
  BY <1>7, <1>8 DEF MainNext, StrSuspend, NotifySuspended, WaitResumeSystem, ClearSuspend,
    StrResume, NotifyResumed, Flushed, loopVars
<1>9. CASE PfmNext /\ ~PfmPostStr
  BY <1>7, <1>9 DEF PfmNext, PfmSuspendStart, PfmAppsAnswered, PfmPostFails, PfmVhalSuspended,
    PfmAbort, PfmResumeStart, PfmNotifySystem, PfmResumed, PfmResumeTimeout, PfmEndResume,
    Flushed, loopVars
<1>10. CASE EnvNext \/ UNCHANGED vars
  BY <1>7, <1>10 DEF EnvNext, SystemStartsCycle, SysdbDiscard, VmReports, vars, Flushed, loopVars
<1> QED BY <1>1, <1>2, <1>3, <1>4, <1>5, <1>6, <1>8, <1>9, <1>10 DEF Next

(* However the threads interleave, what survives a suspend of the events   *)
(* posted before it is at most one event for each thread that posts them.  *)
THEOREM LeakBounded == Spec => []LeakAtMostOnePerWriter
<1>1. Init => LeakAtMostOnePerWriter
  BY DEF Init, LeakAtMostOnePerWriter
<1>2. QuietInv /\ LeakAtMostOnePerWriter /\ [Next]_vars => LeakAtMostOnePerWriter'
  BY LeakStep
<1> QED BY <1>1, <1>2, QuietInvariant, PTL DEF Spec

-----------------------------------------------------------------------------
(***************************************************************************)
(* The handshake implements StrContract, and keeps STR mode until the      *)
(* resume is over, as long as no resume outlasts the PFM thread's wait     *)
(* (SlowSteps = {}).  With a slow resume both fail, as TLC shows for       *)
(* ResumeCompletes: the PFM thread leaves STR mode while the main thread   *)
(* is still resuming, and erases or misreads the next cycle's flags.       *)
(***************************************************************************)


(* Where the two threads can be at once, when no wait is given up.  The    *)
(* main thread resumes only while the PFM thread waits for ResumeVhal, and *)
(* the PFM thread leaves that wait only when the main thread is done.      *)
Resuming == main \in {"drop2", "clearSuspend", "strResume", "notifyResumed"}

LockstepInv ==
  /\ Resuming => pfm = "waitResume" /\ flag["ResumeVhal"] = FALSE
  /\ Parked => \/ pfm = "waitVhal" \/ pfm = "notifySystem"
               \/ pfm = "idle" /\ strMode = TRUE
               \/ pfm = "waitResume" /\ flag["ResumeVhal"] = FALSE
  /\ main = "loop" => /\ pfm # "notifySystem"
                      /\ pfm = "idle" => strMode = FALSE
                      /\ pfm = "waitResume" => flag["ResumeVhal"] = TRUE
  /\ pfm = "endResume" => main = "loop"
  /\ flag["ResumeVhal"] = TRUE => pfm \in {"waitResume", "endResume"} /\ main = "loop"

StepInv == QuietInv /\ LockstepInv

LEMMA LockstepStep ==
  ASSUME StrAssumption, SlowSteps = {}, StepInv, QuietInv', [Next]_vars
  PROVE  LockstepInv'
<1> USE DEF StepInv
<1>type. /\ flag \in [WaitState -> BOOLEAN] /\ pfm \in PfmStep /\ main \in MainStep
         /\ strMode \in BOOLEAN
  BY DEF QuietInv, TypeOK
<1>hand. HandshakeInv /\ DevicesInv
  BY DEF QuietInv
<1>1. CASE PfmSuspendStart \/ PfmAbort \/ PfmEndResume
  <2>1. UNCHANGED main
    BY <1>1 DEF PfmSuspendStart, PfmAbort, PfmEndResume
  <2>2. main = "loop"
    BY <1>1, <1>hand, <1>type DEF PfmSuspendStart, PfmAbort, PfmEndResume, LockstepInv, Resuming,
      Parked, HandshakeInv, Handling, Waiting, MainStep
  <2>3. \/ pfm = "idle" /\ pfm' = "waitApps" /\ flag'["ResumeVhal"] = FALSE
        \/ pfm' = "idle" /\ flag'["ResumeVhal"] = FALSE /\ strMode' = FALSE
    BY <1>1, <1>type, SetStrModeType DEF PfmSuspendStart, PfmAbort, PfmEndResume, WaitState,
      LockstepInv
  <2> QED BY <2>1, <2>2, <2>3 DEF LockstepInv, Resuming, Parked
<1>2. CASE PfmAppsAnswered \/ PfmPostStr \/ PfmPostFails
  <2>1. /\ UNCHANGED <<main, flag, strMode>>
        /\ pfm \in {"waitApps", "postStr"} /\ pfm' \in {"postStr", "abort", "waitVhal"}
    BY <1>2 DEF PfmAppsAnswered, PfmPostStr, PfmPostFails, strVars
  <2> QED BY <2>1 DEF LockstepInv, Resuming, Parked
<1>3. CASE PfmVhalSuspended
  <2>1. /\ UNCHANGED <<main, flag, strMode>> /\ pfm' = "idle" /\ Parked
    BY <1>3, <1>hand, <1>type DEF PfmVhalSuspended, HandshakeInv, Waiting, strVars, WaitState
  <2>2. strMode = TRUE
    BY <1>3, <1>hand DEF PfmVhalSuspended, HandshakeInv
  <2>3. flag["ResumeVhal"] = FALSE
    BY <2>1, <1>type DEF LockstepInv, Parked, WaitState
  <2> QED BY <2>1, <2>2, <2>3 DEF LockstepInv, Resuming, Parked
<1>4. CASE PfmResumeStart
  BY <1>4, <1>hand, <1>type DEF PfmResumeStart, HandshakeInv, LockstepInv, Resuming, Parked, strVars
<1>5. CASE PfmNotifySystem
  <2>1. /\ flag'["ResumeVhal"] = flag["ResumeVhal"] /\ UNCHANGED <<main, strMode>>
        /\ pfm = "notifySystem" /\ pfm' = "waitResume"
    BY <1>5, <1>type, NotifyType DEF PfmNotifySystem, WaitState
  <2> QED BY <2>1, <1>type DEF LockstepInv, Resuming, Parked, WaitState
<1>6. CASE PfmResumed
  BY <1>6, <1>type DEF PfmResumed, LockstepInv, Resuming, Parked, strVars, WaitState, MainStep
<1>7. CASE PfmResumeTimeout
  BY <1>7 DEF PfmResumeTimeout
<1>8. CASE ExecEvent
  <2>1. UNCHANGED <<pfm, strMode>> /\ flag'["ResumeVhal"] = flag["ResumeVhal"]
    <3>1. ActionVmStrChange => flag'["ResumeVhal"] = flag["ResumeVhal"]
      BY <1>type, NotifyType DEF ActionVmStrChange, WaitState
    <3> QED BY <1>8, <3>1 DEF ExecEvent
  <2>2. main' = main \/ (main = "loop" /\ main' = "setSuspend")
    BY <1>8, <1>hand, <1>type DEF ExecEvent, DevicesInv, SuspendSteps
  <2>3. main' = "setSuspend" => pfm = "waitVhal"
    BY <2>1, <2>2 DEF QuietInv, HandshakeInv, Waiting, Handling
  <2> QED BY <2>1, <2>2, <2>3 DEF LockstepInv, Resuming, Parked
<1>9. CASE SetSuspend \/ StrSuspend
  BY <1>9, <1>hand DEF SetSuspend, StrSuspend, LockstepInv, Resuming, Parked, strVars
<1>10. CASE NotifySuspended
  <2>1. /\ flag'["ResumeVhal"] = flag["ResumeVhal"] /\ UNCHANGED <<pfm, strMode>>
        /\ main = "notifySuspended" /\ main' = "drop1"
    BY <1>10, <1>type, NotifyType DEF NotifySuspended, WaitState
  <2>2. pfm = "waitVhal"
    BY <2>1, <1>hand DEF HandshakeInv, Handling, Waiting
  <2> QED BY <2>1, <2>2 DEF LockstepInv, Resuming, Parked
<1>11. CASE DropEventsDone
  BY <1>11 DEF DropEventsDone, LockstepInv, Resuming, Parked, strVars
<1>12. CASE WaitResumeSystem
  <2>1. pfm \in {"waitResume", "endResume"}
    BY <1>12, <1>hand, <1>type DEF WaitResumeSystem, HandshakeInv, WaitState
  <2> QED BY <1>12, <2>1, <1>type DEF WaitResumeSystem, LockstepInv, Resuming, Parked, strVars
<1>13. CASE ClearSuspend \/ StrResume
  BY <1>13 DEF ClearSuspend, StrResume, LockstepInv, Resuming, Parked, strVars
<1>14. CASE NotifyResumed
  <2>1. /\ flag'["ResumeVhal"] = TRUE /\ UNCHANGED <<pfm, strMode>>
        /\ main = "notifyResumed" /\ main' = "loop"
    BY <1>14, <1>type, NotifyType DEF NotifyResumed, WaitState
  <2> QED BY <2>1 DEF LockstepInv, Resuming, Parked
<1>15. CASE UNCHANGED <<pfm, main, flag, strMode>>
  BY <1>15 DEF LockstepInv, Resuming, Parked
<1>16. CASE \/ EnvNext \/ UNCHANGED vars
            \/ \E w \in Writers : WriterCheck(w) \/ WriterWrite(w)
  BY <1>15, <1>16 DEF EnvNext, SystemStartsCycle, SysdbDiscard, VmReports, WriterCheck,
    WriterWrite, vars, strVars
<1> QED BY <1>1, <1>2, <1>3, <1>4, <1>5, <1>6, <1>7, <1>8, <1>9, <1>10, <1>11, <1>12, <1>13,
           <1>14, <1>16 DEF Next, PfmNext, MainNext

THEOREM LockstepInvariant == ASSUME SlowSteps = {} PROVE Spec => []StepInv
<1>1. Init => LockstepInv
  BY DEF Init, LockstepInv, Resuming, Parked, WaitState
<1>2. QuietInv /\ QuietInv' /\ LockstepInv /\ [Next]_vars => LockstepInv'
  BY StrAssumption, LockstepStep DEF StepInv
<1> QED BY <1>1, <1>2, QuietInvariant, PTL DEF Spec, StepInv

(* The main thread is inside StrStateEvent only in STR mode.               *)
THEOREM StrModeHolds == ASSUME SlowSteps = {} PROVE Spec => []StrModeUntilResumed
<1>1. StepInv => StrModeUntilResumed
  BY DEF StepInv, QuietInv, TypeOK, MainStep, HandshakeInv, LockstepInv, Resuming, Parked,
    Handling, Waiting, StrModeUntilResumed
<1> QED BY <1>1, LockstepInvariant, PTL

-----------------------------------------------------------------------------
(* Each step of the handshake is a step of StrContract or changes nothing  *)
(* the power manager can see.                                              *)
LEMMA ContractStep ==
  ASSUME StrAssumption, SlowSteps = {}, StepInv, StepInv', [Next]_vars
  PROVE  [Contract!Next]_(Contract!cvars)
<1> USE DEF Contract!Next, Contract!cvars
<1>type. TypeOK /\ TypeOK'
  BY DEF StepInv, QuietInv
<1>inv. HandshakeInv /\ DevicesInv /\ LockstepInv
  BY DEF StepInv, QuietInv
<1>ph. /\ ~strMode => phaseBar = "Running"
       /\ strMode /\ pfm = "idle" => phaseBar = "Suspended"
       /\ strMode /\ pfm \in {"waitApps", "postStr", "waitVhal", "abort"} =>
            phaseBar = "Suspending"
       /\ strMode /\ pfm \in {"notifySystem", "waitResume", "endResume"} =>
            phaseBar = "Resuming"
  BY <1>type DEF TypeOK, phaseBar, PfmStep
<1>ph2. /\ ~strMode' => phaseBar' = "Running"
        /\ strMode' /\ pfm' = "idle" => phaseBar' = "Suspended"
        /\ strMode' /\ pfm' \in {"waitApps", "postStr", "waitVhal", "abort"} =>
             phaseBar' = "Suspending"
        /\ strMode' /\ pfm' \in {"notifySystem", "waitResume", "endResume"} =>
             phaseBar' = "Resuming"
  BY <1>type DEF TypeOK, phaseBar, PfmStep
<1>str. strMode \in BOOLEAN /\ strMode' \in BOOLEAN /\ (pfm # "idle" => strMode)
  BY <1>type, <1>inv DEF TypeOK, HandshakeInv
<1>stutter. ASSUME UNCHANGED <<micon, video, blinder, suspend>>, phaseBar' = phaseBar
            PROVE  UNCHANGED <<phaseBar, ~suspend, quietBar>>
  BY <1>stutter DEF quietBar
<1>dev. ASSUME UNCHANGED devVars PROVE UNCHANGED <<micon, video, blinder>> /\ quietBar' = quietBar
  BY <1>dev DEF devVars, quietBar
<1>run. main = "loop" => suspend = FALSE
  BY <1>inv DEF DevicesInv, SuspendSteps, TypeOK
<1>1. CASE PfmSuspendStart
  <2>1. /\ phaseBar = "Running" /\ phaseBar' = "Suspending"
        /\ UNCHANGED <<suspend, devVars>>
    BY <1>1, <1>ph, <1>ph2, <1>str DEF PfmSuspendStart, SetStrMode, loopVars
  <2>2. Contract!BeginSuspend
    BY <2>1, <1>dev DEF Contract!BeginSuspend
  <2> QED BY <2>2
<1>2. CASE PfmAppsAnswered \/ PfmPostStr \/ PfmPostFails
  <2>1. /\ pfm \in {"waitApps", "postStr"} /\ pfm' \in {"postStr", "abort", "waitVhal"}
        /\ UNCHANGED <<strMode, suspend, devVars>>
    BY <1>2 DEF PfmAppsAnswered, PfmPostStr, PfmPostFails, strVars, loopVars
  <2>2. phaseBar' = phaseBar
    BY <2>1, <1>ph, <1>ph2, <1>str
  <2> QED BY <2>1, <2>2, <1>dev, <1>stutter
<1>3. CASE PfmVhalSuspended
  <2>1. /\ pfm = "waitVhal" /\ pfm' = "idle" /\ UNCHANGED <<strMode, suspend, devVars>>
        /\ flag["SuspendVhal"]
    BY <1>3 DEF PfmVhalSuspended, strVars, loopVars
  <2>2. Parked
    BY <2>1, <1>inv, <1>type DEF HandshakeInv, Waiting, TypeOK, WaitState
  <2>3. suspend /\ quietBar
    BY <2>2, <1>inv, <1>type DEF DevicesInv, SuspendSteps, Parked, quietBar, TypeOK
  <2>4. phaseBar = "Suspending" /\ phaseBar' = "Suspended"
    BY <2>1, <1>ph, <1>ph2, <1>str
  <2>5. Contract!SuspendDone
    BY <2>1, <2>3, <2>4, <1>dev DEF Contract!SuspendDone
  <2> QED BY <2>5
<1>4. CASE PfmAbort
  <2>1. pfm = "abort" /\ ~strMode' /\ UNCHANGED <<suspend, devVars>>
    BY <1>4 DEF PfmAbort, SetStrMode, loopVars
  <2>2. main = "loop"
    BY <2>1, <1>inv, <1>type DEF LockstepInv, HandshakeInv, Resuming, Parked, Waiting, Handling,
      TypeOK, MainStep
  <2>3. Contract!AbortSuspend
    BY <2>1, <2>2, <1>run, <1>dev, <1>ph, <1>ph2, <1>str DEF Contract!AbortSuspend
  <2> QED BY <2>3
<1>5. CASE PfmResumeStart
  <2>1. pfm = "idle" /\ strMode /\ pfm' = "notifySystem" /\ UNCHANGED <<strMode, suspend, devVars>>
    BY <1>5 DEF PfmResumeStart, strVars, loopVars
  <2>2. Contract!BeginResume
    BY <2>1, <1>dev, <1>ph, <1>ph2, <1>str DEF Contract!BeginResume
  <2> QED BY <2>2
<1>6. CASE PfmNotifySystem \/ PfmResumed \/ PfmResumeTimeout
  <2>1. /\ pfm \in {"notifySystem", "waitResume"} /\ pfm' \in {"waitResume", "endResume"}
        /\ UNCHANGED <<strMode, suspend, devVars>>
    BY <1>6 DEF PfmNotifySystem, PfmResumed, PfmResumeTimeout, strVars, loopVars
  <2>2. phaseBar' = phaseBar
    BY <2>1, <1>ph, <1>ph2, <1>str
  <2> QED BY <2>1, <2>2, <1>dev, <1>stutter
<1>7. CASE PfmEndResume
  <2>1. pfm = "endResume" /\ ~strMode' /\ UNCHANGED <<suspend, devVars>>
    BY <1>7 DEF PfmEndResume, SetStrMode, loopVars
  <2>2. main = "loop"
    BY <2>1, <1>inv DEF LockstepInv
  <2>3. Contract!ResumeDone
    BY <2>1, <2>2, <1>run, <1>dev, <1>ph, <1>ph2, <1>str DEF Contract!ResumeDone
  <2> QED BY <2>3
<1>8. CASE ExecEvent
  <2>1. UNCHANGED <<pfm, strMode, suspend, micon>> /\ phaseBar' = phaseBar
    BY <1>8 DEF ExecEvent, phaseBar
  <2>2. CASE UNCHANGED <<video, blinder>>
    BY <2>1, <2>2, <1>stutter
  <2>3. CASE ~suspend
    <3>1. Contract!Work
      BY <2>1, <2>3, Zenon DEF Contract!Work, quietBar
    <3> QED BY <3>1
  <2> QED BY <1>8, <2>2, <2>3 DEF ExecEvent
<1>9. CASE SetSuspend
  <2>1. main = "setSuspend" /\ suspend' = TRUE /\ UNCHANGED <<pfm, strMode, devVars>>
    BY <1>9 DEF SetSuspend, strVars
  <2>2. ~suspend /\ pfm = "waitVhal"
    BY <2>1, <1>inv, <1>type DEF DevicesInv, SuspendSteps, HandshakeInv, Handling, Waiting, TypeOK
  <2>3. Contract!Deactivate
    BY <2>1, <2>2, <1>dev, <1>ph, <1>ph2, <1>str DEF Contract!Deactivate
  <2> QED BY <2>3
<1>10. CASE StrSuspend
  <2>1. main = "strSuspend" /\ UNCHANGED <<pfm, strMode, suspend>> /\ quietBar'
    BY <1>10 DEF StrSuspend, strVars, loopVars, quietBar
  <2>2. suspend /\ pfm = "waitVhal"
    BY <2>1, <1>inv, <1>type DEF DevicesInv, SuspendSteps, HandshakeInv, Handling, Waiting, TypeOK
  <2>3. phaseBar = "Suspending" /\ phaseBar' = "Suspending"
    BY <2>1, <2>2, <1>ph, <1>ph2, <1>str
  <2>4. Contract!Quiesce
    BY <2>1, <2>2, <2>3 DEF Contract!Quiesce, quietBar
  <2> QED BY <2>4
<1>11. CASE ClearSuspend
  <2>1. main = "clearSuspend" /\ ~suspend' /\ UNCHANGED <<pfm, strMode, devVars>>
    BY <1>11 DEF ClearSuspend, strVars
  <2>2. suspend /\ pfm = "waitResume"
    BY <2>1, <1>inv, <1>type DEF DevicesInv, SuspendSteps, LockstepInv, Resuming, TypeOK
  <2>3. Contract!Activate
    BY <2>1, <2>2, <1>dev, <1>ph, <1>ph2, <1>str DEF Contract!Activate
  <2> QED BY <2>3
<1>12. CASE StrResume
  <2>1. main = "strResume" /\ UNCHANGED <<pfm, strMode, suspend>> /\ phaseBar' = phaseBar
    BY <1>12 DEF StrResume, strVars, loopVars, phaseBar
  <2>2. ~suspend
    BY <2>1, <1>inv, <1>type DEF DevicesInv, SuspendSteps, TypeOK
  <2>3. Contract!Work
    BY <2>1, <2>2, Zenon DEF Contract!Work, quietBar
  <2> QED BY <2>3
<1>13. CASE UNCHANGED <<pfm, strMode, suspend, devVars>>
  BY <1>13, <1>dev, <1>stutter DEF phaseBar
<1>14. CASE \/ NotifySuspended \/ NotifyResumed \/ DropEventsDone \/ WaitResumeSystem
            \/ EnvNext \/ UNCHANGED vars
            \/ \E w \in Writers : WriterCheck(w) \/ WriterWrite(w)
  <2>1. UNCHANGED <<pfm, strMode, suspend, devVars>>
    BY <1>14 DEF NotifySuspended, NotifyResumed, DropEventsDone, WaitResumeSystem,
      EnvNext, SystemStartsCycle, SysdbDiscard, VmReports, WriterCheck, WriterWrite, vars,
      strVars, loopVars
  <2> QED BY <2>1, <1>13
<1> QED BY <1>1, <1>2, <1>3, <1>4, <1>5, <1>6, <1>7, <1>8, <1>9, <1>10, <1>11, <1>12, <1>14
        DEF Next, PfmNext, MainNext

(* The handshake implements StrContract: suspend is reported only once     *)
(* VideoHAL is inactive and quiet, and resume ends only once it is active. *)
THEOREM HandshakeImplementsContract == ASSUME SlowSteps = {} PROVE Spec => ImplementsContract
<1>1. Init => Contract!Init
  BY DEF Init, Contract!Init, phaseBar, quietBar
<1>2. StepInv /\ StepInv' /\ [Next]_vars => [Contract!Next]_(Contract!cvars)
  BY StrAssumption, ContractStep
<1> QED BY <1>1, <1>2, LockstepInvariant, PTL DEF Spec, ImplementsContract, Contract!Spec
=============================================================================
