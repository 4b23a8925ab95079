------------------------------ MODULE MiscChannel ------------------------------
(***************************************************************************)
(* What the MICON tells the video HAL over the MISC channel:               *)
(* CVhalMiconCommMiscControl, the receivers of its messages, the head-up   *)
(* display (HudScreen) and the screen shots taken by the MICON             *)
(* (MiconScreenShot), through a suspend and a resume.                      *)
(*                                                                         *)
(* A message is delivered by the one thread of the library in two steps:   *)
(* it is compared with the last of its kind, and posted to the main        *)
(* thread, which hands it to the receivers.  The timer of a screen shot    *)
(* has a thread of its own.  Everything else is the main thread.           *)
(*                                                                         *)
(* The library is external: a callback that has begun is taken to end      *)
(* after its registration was removed too, and the MICON to answer a       *)
(* request for a screen shot once, whenever it likes, or never.  The check *)
(* and the write of WriteEvent are one step; StrHandshake has the two.     *)
(***************************************************************************)
EXTENDS Naturals, Sequences, HudScreen, MiconScreenShot

CONSTANTS
  Values,       \* of each kind of message, the ones the MICON may send
  Topics,       \* the sets of kinds that one behaviour is about
  MaxCalls,     \* bound: messages
  MaxShots,     \* bound: requests for a screen shot
  MaxSuspends,  \* bound: cycles
  MaxQueue      \* bound: messages in the queue when the MICON sends one

VARIABLES
  topic,      \* the kinds this behaviour is about
  power,      \* "on", "falling" and "rising" while a suspend begins and ends, or "off"
  linked,     \* the callback for messages is registered
  callback,   \* the library's thread: [step, kind, value, id]
  cache,      \* cmd_*_, the last message of each kind that is compared
  received,   \* the CVhalMiscEventItems
  known,      \* what the receivers have made of the messages
  said,       \* history: the last message of each kind since the callback was registered
  missed,     \* history: the kinds of which a cached message was not queued
  hud,        \* HudScreen
  hudEvent,   \* the event of the compositor about the mute surface
  shot,       \* ScreenShot
  calls,      \* counter
  cycles      \* counter

miscVars == <<topic, power, linked, callback, cache, received, known, said, missed, hud, hudEvent,
              shot, calls, cycles>>

Kinds    == DOMAIN Values
HudKinds == {"hudFunc", "hudCorr", "hudRot"}
NoValue  == "none"
Idle     == [step |-> "idle", kind |-> "none", value |-> NoValue, id |-> Nobody]

\* What the proofs need of the constants.
MiscAssumption ==
  /\ \A t \in Topics : t \subseteq Kinds
  /\ "shot" \in Kinds /\ "none" \notin Kinds
  /\ \A k \in Kinds : NoValue \notin Values[k]

\* CVhalStrManager: events are refused while suspended, the main thread runs them otherwise.
Accepted == power \in {"on", "rising"}
Awake    == power = "on"

---------------------------------------------------------------------------
(* The receivers.  Bytes are written as they are sent, a message that is   *)
(* too short for its kind as "short".                                      *)

ActionHdmiConnInfo(v) ==
  CASE v = "00" -> "connecting"
    [] v = "01" -> "disconnected"
    [] v = "02" -> "connected"
    [] OTHER    -> NoValue
ActionHdmiVideoFormat(v) ==
  CASE v = "00" -> "invalid"
    [] v = "01" -> "720p"
    [] v = "02" -> "1080p"
    [] v = "03" -> "480p"
    [] v = "04" -> "vga"
    [] v = "80" -> "outOfSpec"
    [] v = "81" -> "error"
    [] OTHER    -> NoValue
ActionHdmiAudioFormat(v) ==
  CASE v \in {"00", "80", "81"} -> "invalid"
    [] v = "01" -> "32000"
    [] v = "02" -> "44100"
    [] v = "03" -> "48000"
    [] OTHER    -> NoValue

\* A value out of range keeps the state; the observers are told that again.
SetCameraSync(v) ==
  CASE v = "00" -> "notSynced"
    [] v = "01" -> "synced"
    [] v = "02" -> "unknown"
    [] OTHER    -> NoValue

\* The size of the centre display's picture, whatever it is.
SetCameraType(v) == IF v = "short" THEN NoValue ELSE v

\* The list of receivers, as many as the message holds and at most 32, is not told apart.
MakeHdcpAuthKey(v) ==
  CASE v = "short" -> NoValue
    [] v = "00"    -> "success"
    [] v = "01"    -> "failed"
    [] OTHER       -> "notAuthenticated"

\* The answer to a picture quality is only logged.
ReceiveColorAdjustStatus(v) == NoValue

\* What a message of each kind tells, or NoValue.
Receive(k, v) ==
  CASE k = "conn"    -> ActionHdmiConnInfo(v)
    [] k = "video"   -> ActionHdmiVideoFormat(v)
    [] k = "audio"   -> ActionHdmiAudioFormat(v)
    [] k = "sync"    -> SetCameraSync(v)
    [] k = "type"    -> SetCameraType(v)
    [] k = "hdcp"    -> MakeHdcpAuthKey(v)
    [] k = "quality" -> ReceiveColorAdjustStatus(v)
    [] k = "hudFunc" -> IF v = "short" THEN NoValue ELSE IF v = "01" THEN "on" ELSE "off"
    [] k = "hudCorr" -> IF v \in {"black", "odd"} THEN "black" ELSE IF v = "short" THEN NoValue ELSE v
    [] k = "hudRot"  -> IF v = "short" THEN NoValue ELSE v
    [] OTHER         -> NoValue

ReceiveHud(k, v, refused) ==
  IF v = "short" THEN hud ELSE
  CASE k = "hudFunc" -> NotifyHudFunctionStatus(hud, v, refused)
    [] k = "hudCorr" -> NotifyHudDistortionCorrection(hud, v, refused)
    [] k = "hudRot"  -> NotifyHudRotation(hud, v, refused)

---------------------------------------------------------------------------
(* The library's thread.                                                   *)

Compared == {"type", "sync", "quality"} \cup HudKinds
Formats  == {"video", "audio"}
Errors   == {"80", "81"}

\* A repeated message is dropped; a repeated format only when it is an error.
IsNotifyEnabled(k, v) ==
  CASE k \in Compared -> v # cache[k]
    [] k \in Formats  -> v \notin Errors \/ v # cache[k]
    [] OTHER          -> TRUE
Cached(k, v) ==
  IF k \in Compared \/ (k \in Formats /\ v # "short") THEN [cache EXCEPT ![k] = v] ELSE cache

\* The MICON sends a message, the callback is entered.
MiconSends(k, v) ==
  /\ linked /\ callback = Idle /\ calls < MaxCalls /\ Len(received) < MaxQueue
  /\ k # "shot"
  /\ callback' = [step |-> "entered", kind |-> k, value |-> v, id |-> Nobody]
  /\ said' = IF Receive(k, v) = NoValue THEN said ELSE [said EXCEPT ![k] = v]
  /\ calls' = calls + 1
  /\ UNCHANGED <<topic, power, linked, cache, received, known, missed, hud, hudEvent, shot, cycles>>

\* The MICON answers a request for a screen shot; with a callback or without one.
MiconAnswers(id, v) ==
  /\ id \in shot.asked /\ callback = Idle
  /\ shot' = [shot EXCEPT !.asked = @ \ {id}, !.snapshot = IF v = "00" THEN id ELSE @]
  /\ callback' = IF linked THEN [step |-> "entered", kind |-> "shot", value |-> v, id |-> id] ELSE Idle
  /\ UNCHANGED <<topic, power, linked, cache, received, known, said, missed, hud, hudEvent, calls, cycles>>

\* MiconCommMiscControlDataNtyCallBack compares the message and remembers it ...
CallbackCompares ==
  /\ callback.step = "entered"
  /\ LET k == callback.kind
         v == callback.value
     IN IF IsNotifyEnabled(k, v)
        THEN /\ cache' = Cached(k, v)
             /\ missed' = IF Receive(k, v) = NoValue THEN missed ELSE missed \ {k}
             /\ callback' = [callback EXCEPT !.step = "compared"]
        ELSE callback' = Idle /\ UNCHANGED <<cache, missed>>
  /\ UNCHANGED <<topic, power, linked, received, known, said, hud, hudEvent, shot, calls, cycles>>

\* ... and posts it, unless events are refused.
NotifyReceiveEvent ==
  /\ callback.step = "compared"
  /\ received' = IF Accepted THEN Append(received, callback) ELSE received
  /\ missed' = IF Accepted THEN missed ELSE missed \cup {callback.kind}
  /\ callback' = Idle
  /\ UNCHANGED <<topic, power, linked, cache, known, said, hud, hudEvent, shot, calls, cycles>>

---------------------------------------------------------------------------
(* The main thread: messages, screen shots, the mute surface.              *)

\* ExecReceiveEvent: the receivers take the message; the plugin may refuse parameters,
\* the picture may not be copied.
ExecReceiveEvent(refused, copied) ==
  /\ Awake /\ received # <<>>
  /\ LET e == Head(received)
         told == Receive(e.kind, e.value)
     IN /\ hud' = IF e.kind \in HudKinds THEN ReceiveHud(e.kind, e.value, refused) ELSE hud
        /\ shot' = IF e.kind = "shot" /\ e.value # "short"
                   THEN NotifyScreenShotMiconResponse(shot, e.value = "00", e.id, copied) ELSE shot
        /\ known' = IF told = NoValue \/ e.kind \in HudKinds THEN known
                    ELSE [known EXCEPT ![e.kind] = told]
  /\ received' = Tail(received)
  /\ UNCHANGED <<topic, power, linked, callback, cache, said, missed, hudEvent, calls, cycles>>

\* MiscCtrlApiDataSend, tried three times: the library is busy so often, then takes the
\* message or refuses it.
Send(busy, taken) == busy < 3 /\ taken

\* Nothing is on its way that was meant for an earlier request.
NoAnswerUnderWay ==
  /\ Alone(shot) /\ callback.kind # "shot"
  /\ \A i \in DOMAIN received : received[i].kind # "shot"

\* A request while one is open is refused; any other has its result or is sent.
ActionScreenCapture(screen, path, busy, taken, timed) ==
  /\ Awake /\ "shot" \in topic /\ Len(shot.requests) < MaxShots
  /\ GetDestFilePath(shot) = Nobody
  /\ LET how == IF ~ConvertScreenType(screen) \/ ~CheckDestPath(path) THEN "param"
                ELSE IF ~Send(busy, taken) THEN "send" ELSE IF ~timed THEN "timer" ELSE "ok"
     IN shot' = SendScreenShotRequest(shot, how, NoAnswerUnderWay)
  /\ UNCHANGED <<topic, power, linked, callback, cache, received, known, said, missed, hud, hudEvent, calls, cycles>>

ShotTimerExpires ==
  /\ shot.timer # Nobody /\ shot.step = "none"
  /\ shot' = Expire(shot)
  /\ UNCHANGED <<topic, power, linked, callback, cache, received, known, said, missed, hud, hudEvent, calls, cycles>>
ShotTimerStops ==
  /\ shot.step = "stop"
  /\ shot' = EndTimer(shot)
  /\ UNCHANGED <<topic, power, linked, callback, cache, received, known, said, missed, hud, hudEvent, calls, cycles>>
ShotTimerPosts ==
  /\ shot.step = "post"
  /\ shot' = PostTimeout(shot, Accepted)
  /\ UNCHANGED <<topic, power, linked, callback, cache, received, known, said, missed, hud, hudEvent, calls, cycles>>
OnShotTimer ==
  /\ Awake /\ shot.events # <<>>
  /\ shot' = OnTimer(shot)
  /\ UNCHANGED <<topic, power, linked, callback, cache, received, known, said, missed, hud, hudEvent, calls, cycles>>

\* The compositor tells of the surface and, once it is in its layer, of its size.
MuteSurfaceChanges ==
  /\ HudKinds \subseteq topic /\ hudEvent = "none"
  /\ \/ hud.available /\ hud.surface = "none"
        /\ hud' = CreateHudBlinder(hud)
        /\ hudEvent' = IF Accepted THEN "created" ELSE "none"
     \/ hud.surface = "added"
        /\ hud' = NotifyIviConfigureSurface(hud)
        /\ hudEvent' = IF Accepted THEN "configured" ELSE "none"
  /\ UNCHANGED <<topic, power, linked, callback, cache, received, known, said, missed, shot, calls, cycles>>
MuteSurfaceEvent ==
  /\ Awake /\ hudEvent # "none"
  /\ hud' = IF hudEvent = "created" THEN AddSurfaceToLayer(hud) ELSE ConfigureBlinder(hud)
  /\ hudEvent' = "none"
  /\ UNCHANGED <<topic, power, linked, callback, cache, received, known, said, missed, shot, calls, cycles>>

---------------------------------------------------------------------------
(* Suspend and resume.                                                     *)

\* Seeded fault: what was said before a suspend is still compared with.
ReInit_KeepsCache(c) == c

ReInit(c) == [k \in Kinds |-> NoValue]

\* StrStateEvent refuses events first ...
SetSuspend ==
  /\ Awake /\ cycles < MaxSuspends
  /\ power' = "falling" /\ cycles' = cycles + 1
  /\ UNCHANGED <<topic, linked, callback, cache, received, known, said, missed, hud, hudEvent, shot, calls>>

\* ... and drops the queued ones when everything has been stopped.
StrSuspend ==
  /\ power = "falling"
  /\ power' = "off"
  /\ linked' = FALSE /\ cache' = ReInit(cache) /\ missed' = {} /\ said' = [k \in Kinds |-> NoValue]
  /\ shot' = [CancelScreenShotRequest(shot) EXCEPT !.events = <<>>]
  /\ hud' = ReInitHud(StrSuspendMuteHud(hud))
  /\ received' = <<>> /\ hudEvent' = "none"
  /\ UNCHANGED <<topic, callback, known, calls, cycles>>

\* Events are taken again before the callback is there.
ResumeSystem ==
  /\ power = "off"
  /\ power' = "rising"
  /\ UNCHANGED <<topic, linked, callback, cache, received, known, said, missed, hud, hudEvent, shot, calls, cycles>>

\* Initialize of CVhalMiconCommMiscControl: the status callback, its first status, the
\* CCM service after a suspend, the callback for messages.
Initialize(done, resume) ==
  /\ {"status", "exec", "data"} \subseteq done
  /\ resume => "ccm" \in done

\* At the start and by StrResume; when it fails the HAL goes on without the MICON.
InitializeMisc(done) ==
  /\ power = "rising"
  /\ power' = "on" /\ linked' = Initialize(done, cycles > 0)
  /\ IF linked' THEN UNCHANGED <<cache, missed>> ELSE cache' = ReInit(cache) /\ missed' = {}
  /\ UNCHANGED <<topic, callback, received, known, said, hud, hudEvent, shot, calls, cycles>>

---------------------------------------------------------------------------
Init ==
  /\ topic \in Topics
  /\ power = "rising" /\ linked = FALSE /\ callback = Idle
  /\ cache = [k \in Kinds |-> NoValue] /\ known = cache /\ said = cache
  /\ received = <<>> /\ missed = {} /\ hudEvent = "none"
  /\ \E available \in BOOLEAN : (available => HudKinds \subseteq topic) /\ hud = HudScreen(available)
  /\ shot = ScreenShot /\ calls = 0 /\ cycles = 0

Next ==
  \/ \E k \in topic : \E v \in Values[k] : MiconSends(k, v)
  \/ \E id \in shot.asked, v \in Values["shot"] : MiconAnswers(id, v)
  \/ CallbackCompares \/ NotifyReceiveEvent
  \/ \E refused \in SUBSET Parameters, copied \in BOOLEAN : ExecReceiveEvent(refused, copied)
  \/ \E screen \in {0, 4}, path \in {"picture", "relative"}, taken, timed \in BOOLEAN, busy \in 0..3 :
       ActionScreenCapture(screen, path, busy, taken, timed)
  \/ ShotTimerExpires \/ ShotTimerStops \/ ShotTimerPosts \/ OnShotTimer
  \/ MuteSurfaceChanges \/ MuteSurfaceEvent
  \/ SetSuspend \/ StrSuspend \/ ResumeSystem
  \/ \E done \in SUBSET {"status", "exec", "ccm", "data"} : InitializeMisc(done)

Spec == Init /\ [][Next]_miscVars

---------------------------------------------------------------------------
(* Properties.                                                             *)

MiscTypeOK ==
  /\ topic \in Topics /\ power \in {"on", "falling", "off", "rising"} /\ linked \in BOOLEAN
  /\ callback.step \in {"idle", "entered", "compared"} /\ missed \subseteq Kinds
  /\ hud.surface \in {"none", "made", "added", "sized", "placed"}
  /\ hudEvent \in {"none", "created", "configured"} /\ shot.step \in {"none", "stop", "post"}

\* What the HAL has made of the messages of a kind.
KnownOf(k) ==
  CASE k = "hudFunc" -> IF hud.func THEN "on" ELSE "off"
    [] k = "hudCorr" -> IF hud.black THEN "black" ELSE hud.wanted["corrections"]
    [] k = "hudRot"  -> hud.wanted["rotation"]
    [] OTHER         -> known[k]

\* When nothing of a kind is on its way, the HAL knows what the MICON said last since it
\* is listened to: dropping repeated messages loses nothing, through a suspend too, unless
\* a callback that outlived its registration has left a message to compare with.
LatestIsKnown ==
  \A k \in topic :
    /\ Awake /\ said[k] # NoValue /\ k \notin missed /\ (k \in HudKinds => hud.available)
    /\ callback.kind # k /\ \A i \in DOMAIN received : received[i].kind # k
    => KnownOf(k) = Receive(k, said[k])

\* The head-up display's picture is uncovered only when the vehicle has the function, it
\* need not stay black and the plugin has taken what it was given last, which is what the
\* MICON wants but for what the plugin has refused before; it is covered in a suspend.
\* A surface placed by a value from before a suspend is left out.
HudShowsOnlyCorrected ==
  /\ hud.surface = "placed" /\ ~hud.shown /\ ~hud.stale =>
       /\ IsHudStatusEnableAndBlackNoRequested(hud) /\ hud.taken
       /\ \A p \in Parameters \ hud.refused : hud.wanted[p] \in {NotStored, hud.given[p]}
  /\ hud.surface = "placed" /\ power \in {"off", "rising"} => hud.shown

\* Every request for a screen shot but the last has ended, the open one will end by its
\* timer at the latest; and when nothing of an earlier request was under way it ends by
\* its own answer or timer, with its own picture when it has succeeded.
ShotsEndWithTheirOwn ==
  /\ \A i \in DOMAIN shot.requests : shot.requests[i].result = "pending" <=> i = shot.dest
  /\ Awake /\ shot.dest # Nobody =>
       shot.timer = shot.dest \/ shot.callback # Nobody \/ shot.events # <<>>
  /\ \A i \in DOMAIN shot.requests :
       LET r == shot.requests[i]
       IN r.alone => r.by \in {Nobody, i} /\ (r.result = "success" => r.by = i /\ r.file = i)
================================================================================
