---------------------------- MODULE MiconScreenShot ----------------------------
(***************************************************************************)
(* CVhalScreenShotMicon: one request for a screen shot at a time, sent to  *)
(* the MICON, which writes the picture to a file and answers; the answer,  *)
(* or a timer of 20 seconds, ends it.  Answers carry no number: here the   *)
(* requests are numbered, to say which one an answer was meant for.  The   *)
(* operators take the record of its state, its timer and what has become   *)
(* of the requests, and give the changed one.                              *)
(***************************************************************************)
EXTENDS Naturals, Sequences

Nobody == 0

\* "timer" is whose timer runs, "callback" and "step" what its thread is about to do,
\* "events" its events; "snapshot" whose picture the MICON's file has; "asked" the
\* requests it has not answered.
ScreenShot ==
  [dest |-> Nobody, timer |-> Nobody, callback |-> Nobody, step |-> "none", events |-> <<>>,
   requests |-> <<>>, asked |-> {}, snapshot |-> Nobody]

Request(result, alone) == [result |-> result, by |-> Nobody, file |-> Nobody, alone |-> alone]

StartTimer(s) == [s EXCEPT !.timer = s.dest]
StopTimer(s)  == [s EXCEPT !.timer = Nobody]

\* The central, rear, meter and head-up displays' screens.
ConvertScreenType(screen) == screen \in 0..3

\* An absolute path in a directory that is there.
CheckDestPath(path) == path \notin {"empty", "relative", "noDirectory", "notADirectory"}

GetDestFilePath(s) == s.dest
SetDestFilePath(s, id) == [s EXCEPT !.dest = id]

\* Nothing of an earlier request is left that could end a new one.
Alone(s) == s.asked = {} /\ s.callback = Nobody /\ s.events = <<>>

\* The last step of a request ends as "how" says: its screen or path is not there, it
\* could not be sent, the timer could not be started.
Sent(s, how, alone, clears) ==
  LET id == Len(s.requests) + 1
      new == [s EXCEPT !.requests = Append(@, Request(IF how = "ok" THEN "pending" ELSE "failed", alone))]
      set == SetDestFilePath(new, id)
      sent == [set EXCEPT !.asked = @ \cup {id}]
      failed(t) == IF clears THEN SetDestFilePath(t, Nobody) ELSE t
  IN CASE how = "param" -> failed(new)
       [] how = "send"  -> failed(set)
       [] how = "timer" -> failed(sent)
       [] how = "ok"    -> StartTimer(sent)

\* Seeded fault: a request that failed keeps its path.
SendScreenShotRequest_KeepsPath(s, how, alone) == Sent(s, how, alone, FALSE)

SendScreenShotRequest(s, how, alone) == Sent(s, how, alone, TRUE)

\* The file of the MICON is copied, tried five times; a failed copy has no picture.
CopyScreenShot(s, copied) == IF copied THEN s.snapshot ELSE Nobody

\* An answer without a request is ignored.  The listener publishes the result.
NotifyScreenShotMiconResponse(s, success, by, copied) ==
  LET result == IF success /\ copied THEN "success" ELSE "failed"
  IN IF s.dest = Nobody THEN s
     ELSE SetDestFilePath(StopTimer(
            [s EXCEPT !.requests[s.dest] =
               [@ EXCEPT !.result = result, !.by = by,
                         !.file = IF success THEN CopyScreenShot(s, copied) ELSE Nobody]]), Nobody)

CancelScreenShotRequest(s) ==
  IF s.dest = Nobody THEN s
  ELSE StopTimer(SetDestFilePath([s EXCEPT !.requests[s.dest].result = "cancelled"], Nobody))

---------------------------------------------------------------------------
(* The timer's thread: CallbackTimer stops the timer, whosever it is by    *)
(* then, and posts the event.                                              *)

Expire(s)   == [s EXCEPT !.timer = Nobody, !.callback = s.timer, !.step = "stop"]
EndTimer(s) == [StopTimer(s) EXCEPT !.step = "post"]
PostTimeout(s, accepted) ==
  [s EXCEPT !.callback = Nobody, !.step = "none",
            !.events = IF accepted THEN Append(@, s.callback) ELSE @]

OnTimer(s) ==
  NotifyScreenShotMiconResponse([s EXCEPT !.events = Tail(@)], FALSE, Head(s.events), FALSE)
================================================================================
