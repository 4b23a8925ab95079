---------------------------- MODULE SysdbStartup ----------------------------
(***************************************************************************)
(* CVhalSysdbControl from Initialize to Finalize: opening SysDB stage by   *)
(* stage, the list of values accepted before SysDB could be opened, and    *)
(* the initialization thread that retries what the first, synchronous try  *)
(* could not do.  While that thread works the main thread and the PFM      *)
(* thread already call SetValue.                                           *)
(*                                                                         *)
(* SetValue looks at sysdb_open_status without a lock and then either      *)
(* appends to the list (under mtx_sysdb_) or writes to SysDB.  The list is *)
(* written out, under the same mutex, at the very end of OpenSysdb, long   *)
(* after the stage that sets sysdb_open_status.                            *)
(***************************************************************************)
EXTENDS Naturals, Sequences

CONSTANTS
  Paths,        \* SysDB paths VideoHAL writes
  HdmiPaths,    \* those Initialize queues a default for
  Values,       \* values written
  Default,      \* the default queued for HdmiPaths
  None,         \* "nothing written yet"
  Callers,      \* threads that call SetValue; one of them is "main"
  Retries,      \* kVhalSysDbInitRetryCount: attempts per stage of the init thread
  MaxSets       \* bound: calls of SetValue

ASSUME SysdbAssumption ==
  /\ HdmiPaths \subseteq Paths
  /\ Default \in Values /\ None \notin Values
  /\ "main" \in Callers
  /\ Retries \in Nat \ {0} /\ MaxSets \in Nat

\* The stages of OpenSysdb.  "func" is the look-up of the event manager's
\* function ID, which a later try repeats when opening the event manager failed.
OpenStage == {"funcId", "client", "eventId", "func", "evMng", "callback"}
Stage     == OpenStage \cup {"flush", "flushing", "done", "failed"}
MainStep  == {"defaults", "opening", "run", "finLock", "finJoin", "finDelete",
              "finReenter", "finClose", "closed"}

After == [funcId |-> "client", client |-> "eventId", eventId |-> "func",
          func |-> "evMng", evMng |-> "callback", callback |-> "flush"]

\* Where the next OpenSysdb starts: stages whose status flag is set are skipped.
Resume(s) == IF s = "evMng" THEN "func" ELSE IF s = "flushing" THEN "flush" ELSE s

VARIABLES
  main,         \* where the main thread is: Initialize, event loop, Finalize
  opener,       \* who is inside OpenSysdb: "main", "init" or "none"
  stage, tries, \* the stage it is at, and the failed attempts of this stage
  initObj,      \* p_init_thread_ is not null
  terminate,    \* terminate_ of the init thread's CVhalWorkerThread
  open,         \* sysdb_open_status
  mtx,          \* holder of mtx_sysdb_, or "free"
  list,         \* sysdb_write_list_
  pos,          \* how far WriteSysdbInfoList has come
  db,           \* what SysDB holds
  call,         \* SetValue in progress: what its look at open decided
  sets,         \* calls of SetValue so far
  wanted,       \* history: the last value SetValue accepted
  overlap       \* history: paths whose SetValue met the opening half-way

openVars == <<opener, stage, tries, pos>>
histVars == <<wanted, overlap>>
startupVars == <<main, openVars, initObj, terminate, open, mtx, list, db, call, sets, histVars>>

Write == [path : Paths, value : Values]
NoCall == [op |-> "none"]
Call  == [op : {"add", "write"}, w : Write] \cup {NoCall}

StartupTyped ==
  /\ main \in MainStep /\ opener \in {"main", "init", "none"}
  /\ stage \in Stage /\ tries \in Nat /\ pos \in Nat \ {0}
  /\ initObj \in BOOLEAN /\ terminate \in BOOLEAN /\ open \in BOOLEAN
  /\ mtx \in Callers \cup {"init", "free"}
  /\ list \in Seq(Write)
  /\ db \in [Paths -> Values \cup {None}]
  /\ call \in [Callers -> Call]
  /\ sets \in Nat
  /\ wanted \in [Paths -> Values \cup {None}]
  /\ overlap \in SUBSET Paths

StartupInit ==
  /\ main = "defaults" /\ opener = "none"
  /\ stage = "funcId" /\ tries = 0 /\ pos = 1
  /\ initObj = FALSE /\ terminate = FALSE /\ open = FALSE
  /\ mtx = "free" /\ list = <<>>
  /\ db = [p \in Paths |-> None]
  /\ call = [c \in Callers |-> NoCall] /\ sets = 0
  /\ wanted = [p \in Paths |-> None] /\ overlap = {}

-----------------------------------------------------------------------------
(* Initialize, up to the first OpenSysdb                                   *)

AddDefault(p) ==
  /\ main = "defaults"
  /\ \A i \in 1..Len(list) : list[i].path # p
  /\ list' = Append(list, [path |-> p, value |-> Default])
  /\ wanted' = [wanted EXCEPT ![p] = Default]
  /\ UNCHANGED <<main, openVars, initObj, terminate, open, mtx, db, call, sets, overlap>>

StartOpen ==
  /\ main = "defaults"
  /\ \A p \in HdmiPaths : \E i \in 1..Len(list) : list[i].path = p
  /\ main' = "opening" /\ opener' = "main"
  /\ UNCHANGED <<stage, tries, pos, initObj, terminate, open, mtx, list, db, call, sets, histVars>>

-----------------------------------------------------------------------------
(* OpenSysdb, run once by the main thread and then by the init thread      *)

AttemptSucceeds ==
  /\ opener # "none" /\ stage \in OpenStage
  /\ stage' = After[stage] /\ tries' = 0
  /\ open' = (open \/ stage = "client")
  /\ UNCHANGED <<main, opener, pos, initObj, terminate, mtx, list, db, call, sets, histVars>>

\* A failed attempt that is retried after 500 ms.  terminate reached Execute by
\* value before the attempts began: a request made meanwhile is not seen.
AttemptRetried ==
  /\ opener = "init" /\ stage \in OpenStage
  /\ tries + 1 < Retries
  /\ tries' = tries + 1
  /\ UNCHANGED <<main, opener, stage, pos, initObj, terminate, open, mtx, list, db, call, sets,
                 histVars>>

\* OpenSysdb returns an error.  The main thread then starts the init thread
\* with the status reached (or, when no thread can be started, gives up and
\* finalizes); the init thread ends.
GiveUp ==
  IF opener = "main"
  THEN /\ initObj' = TRUE /\ tries' = 0
       /\ stage' = Resume(stage)
       /\ \/ main' = "run" /\ opener' = "init"
          \/ main' = "finLock" /\ opener' = "none"
  ELSE /\ opener' = "none" /\ stage' = "failed"
       /\ UNCHANGED <<main, initObj, tries>>

\* The last attempt failed, or the error offers no hope of recovery.
AttemptFails ==
  /\ opener # "none" /\ stage \in OpenStage
  /\ GiveUp
  /\ UNCHANGED <<pos, terminate, open, mtx, list, db, call, sets, histVars>>

FlushBegin ==
  /\ opener # "none" /\ stage = "flush"
  /\ mtx = "free"
  /\ mtx' = opener /\ stage' = "flushing" /\ pos' = 1
  /\ UNCHANGED <<main, opener, tries, initObj, terminate, open, list, db, call, sets, histVars>>

FlushWrite ==
  /\ opener # "none" /\ stage = "flushing" /\ pos <= Len(list)
  /\ db' = [db EXCEPT ![list[pos].path] = list[pos].value]
  /\ pos' = pos + 1
  /\ UNCHANGED <<main, opener, stage, tries, initObj, terminate, open, mtx, list, call, sets,
                 histVars>>

\* Seeded fault: the list is dropped when one of its writes fails.
FlushFails_DropsList ==
  /\ opener # "none" /\ stage = "flushing" /\ pos <= Len(list)
  /\ list' = <<>> /\ mtx' = "free"
  /\ GiveUp
  /\ UNCHANGED <<pos, terminate, open, db, call, sets, histVars>>

\* SysDbWrite fails: the list is kept, and written again if a try is left.
FlushFails ==
  /\ opener # "none" /\ stage = "flushing" /\ pos <= Len(list)
  /\ mtx' = "free"
  /\ GiveUp
  /\ UNCHANGED <<pos, terminate, open, list, db, call, sets, histVars>>

\* Seeded fault: the mutex is not released after the list has been written.
FlushEnd_KeepsLock ==
  /\ opener # "none" /\ stage = "flushing" /\ pos > Len(list)
  /\ list' = <<>>
  /\ stage' = "done" /\ opener' = "none"
  /\ main' = IF opener = "main" THEN "run" ELSE main
  /\ UNCHANGED <<tries, pos, initObj, terminate, open, mtx, db, call, sets, histVars>>

FlushEnd ==
  /\ opener # "none" /\ stage = "flushing" /\ pos > Len(list)
  /\ list' = <<>> /\ mtx' = "free"
  /\ stage' = "done" /\ opener' = "none"
  /\ main' = IF opener = "main" THEN "run" ELSE main
  /\ UNCHANGED <<tries, pos, initObj, terminate, open, db, call, sets, histVars>>

-----------------------------------------------------------------------------
(* SetValue                                                                *)

SetCheck(c, w) ==
  /\ main = "run" /\ call[c].op = "none" /\ sets < MaxSets
  /\ call' = [call EXCEPT ![c] = [op |-> IF open THEN "write" ELSE "add", w |-> w]]
  /\ sets' = sets + 1
  /\ UNCHANGED <<main, openVars, initObj, terminate, open, mtx, list, db, histVars>>

Accept(c) == wanted' = [wanted EXCEPT ![call[c].w.path] = call[c].w.value]

\* AddSysdbInfoList; too late for the list when it has been written out.
SetAdd(c) ==
  /\ call[c].op = "add" /\ mtx = "free"
  /\ list' = Append(list, call[c].w)
  /\ Accept(c)
  /\ overlap' = IF stage = "done" THEN overlap \cup {call[c].w.path} ELSE overlap
  /\ call' = [call EXCEPT ![c] = NoCall]
  /\ UNCHANGED <<main, openVars, initObj, terminate, open, mtx, db, sets>>

\* SysDbWrite; an older value may still be waiting in the list.
SetWrite(c) ==
  /\ call[c].op = "write" /\ open
  /\ db' = [db EXCEPT ![call[c].w.path] = call[c].w.value]
  /\ Accept(c)
  /\ overlap' = IF stage # "done" THEN overlap \cup {call[c].w.path} ELSE overlap
  /\ call' = [call EXCEPT ![c] = NoCall]
  /\ UNCHANGED <<main, openVars, initObj, terminate, open, mtx, list, sets>>

\* SysDbWrite returns an error, and so does SetValue.
SetFails(c) ==
  /\ call[c].op = "write"
  /\ call' = [call EXCEPT ![c] = NoCall]
  /\ UNCHANGED <<main, openVars, initObj, terminate, open, mtx, list, db, sets, histVars>>

-----------------------------------------------------------------------------
(* Finalize, on the main thread                                            *)

Shutdown ==
  /\ main = "run" /\ call["main"].op = "none"
  /\ main' = "finLock"
  /\ UNCHANGED <<openVars, initObj, terminate, open, mtx, list, db, call, sets, histVars>>

\* The mutex is held from here on; End() asks the init thread to terminate.
FinLock ==
  /\ main = "finLock" /\ mtx = "free"
  /\ mtx' = "main"
  /\ terminate' = initObj
  /\ main' = IF initObj THEN "finJoin" ELSE "finClose"
  /\ UNCHANGED <<openVars, initObj, open, list, db, call, sets, histVars>>

FinJoin ==
  /\ main = "finJoin" /\ opener # "init"
  /\ main' = "finDelete"
  /\ UNCHANGED <<openVars, initObj, terminate, open, mtx, list, db, call, sets, histVars>>

\* Deleting the init thread deletes its unique_ptr to this CVhalSysdbControl,
\* whose destructor enters Finalize again and locks mtx_sysdb_.  This thread
\* holds it, and a pthread mutex of the default kind blocks its owner: there is
\* no step out of "finReenter".
FinDelete ==
  /\ main = "finDelete"
  /\ initObj' = FALSE
  /\ main' = "finReenter"
  /\ UNCHANGED <<openVars, terminate, open, mtx, list, db, call, sets, histVars>>

FinClose ==
  /\ main = "finClose"
  /\ open' = FALSE /\ list' = <<>> /\ mtx' = "free"
  /\ main' = "closed"
  /\ UNCHANGED <<openVars, initObj, terminate, db, call, sets, histVars>>

-----------------------------------------------------------------------------

OpenNext ==
  \/ AttemptSucceeds \/ AttemptRetried \/ AttemptFails
  \/ FlushBegin \/ FlushWrite \/ FlushFails \/ FlushEnd

FinalizeNext == FinLock \/ FinJoin \/ FinDelete \/ FinClose

CallNext(c) == SetAdd(c) \/ SetWrite(c) \/ SetFails(c)

StartupNext ==
  \/ (\E p \in HdmiPaths : AddDefault(p)) \/ StartOpen
  \/ OpenNext
  \/ \E c \in Callers : (\E w \in Write : SetCheck(c, w)) \/ CallNext(c)
  \/ Shutdown \/ FinalizeNext

StartupSpec == StartupInit /\ [][StartupNext]_startupVars

\* Every thread that can take a step does; a shutdown need never come.
FairStartup ==
  /\ StartupSpec
  /\ WF_startupVars((\E p \in HdmiPaths : AddDefault(p)) \/ StartOpen)
  /\ WF_startupVars(OpenNext)
  /\ WF_startupVars(FinalizeNext)
  /\ \A c \in Callers : WF_startupVars(CallNext(c))

-----------------------------------------------------------------------------
(* Every value SetValue accepts while the list is still to be written is   *)
(* the last one queued for its path, and once written out it is what SysDB *)
(* holds.  The only exceptions are the two races "overlap" records: a call *)
(* that saw SysDB closed and appended after the list had been written, and *)
(* a direct write made while an older value was still waiting.             *)
LastQueued(p, i) ==
  /\ list[i].path = p /\ list[i].value = wanted[p]
  /\ \A j \in (i + 1)..Len(list) : list[j].path # p

QueuedOrWritten ==
  \A p \in Paths \ overlap : wanted[p] # None /\ main # "closed" =>
    \/ \E i \in 1..Len(list) : LastQueued(p, i)
    \/ stage = "done" /\ db[p] = wanted[p]

(* Finalize returns when the first, synchronous open succeeded.  Once an   *)
(* init thread was created it never does: it joins, under mtx_sysdb_, a    *)
(* thread that needs the mutex, or the deletion of the thread's object     *)
(* enters it again (vhal_sysdb_control.h:211).                             *)
FinalizeReturnsWithoutThread == main = "finLock" /\ ~initObj ~> main = "closed"
=============================================================================
