---------------------------- MODULE MiconChannels ----------------------------
(***************************************************************************)
(* The two channels to the MICON: the MOST channel to the rear seats, as   *)
(* extended, and the MISC channel for everything else, as Misc.  They meet *)
(* in nothing but the suspend, which each of them has as a step of its     *)
(* own, so a behaviour is about one of them.                               *)
(***************************************************************************)
EXTENDS MostChannel

CONSTANTS
  Values,    \* the values a MISC message of each kind can have
  Topics,    \* the sets of kinds a behaviour is about
  MaxCalls,  \* bound: messages and state changes
  MaxShots,  \* bound: requests for a screen shot
  MaxQueue   \* bound: events in the queue

VARIABLES channel, topic, power, linked, callback, cache, received, known, said, missed,
          hud, hudEvent, shot, calls, cycles
miscVars == <<topic, power, linked, callback, cache, received, known, said, missed, hud, hudEvent,
              shot, calls, cycles>>

Misc == INSTANCE MiscChannel
ASSUME MiscConstants == Misc!MiscAssumption

ChannelsInit ==
  /\ Init /\ Misc!Init
  /\ \/ channel = "most" /\ topic = {"shot"}
     \/ channel = "misc" /\ resumed
ChannelsNext ==
  \/ channel = "most" /\ Next /\ UNCHANGED <<channel, miscVars>>
  \/ channel = "misc" /\ Misc!Next /\ UNCHANGED <<channel, vars>>
ChannelsSpec == ChannelsInit /\ [][ChannelsNext]_<<channel, vars, miscVars>>

-----------------------------------------------------------------------------
(* Properties of the MISC channel, stated and explained in MiscChannel.    *)

\* With no message of a kind on its way the HAL knows the last one.
LatestIsKnown == Misc!LatestIsKnown

\* The head-up display is uncovered only with what the plugin has taken.
HudShowsOnlyCorrected == Misc!HudShowsOnlyCorrected

\* A request for a screen shot ends by its own answer or timer.
ShotsEndWithTheirOwn == Misc!ShotsEndWithTheirOwn
==============================================================================
