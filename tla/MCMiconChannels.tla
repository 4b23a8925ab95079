---------------------------- MODULE MCMiconChannels ----------------------------
(* Two sources of the rear seats on the MOST channel, or one topic of       *)
(* messages on the MISC channel.                                            *)
EXTENDS MiconChannels

AFewValues ==
  [type |-> {"01", "02"}, sync |-> {"00", "01", "7f", "short"},
   conn |-> {"00", "02", "7f"}, video |-> {"01", "80", "short"}, audio |-> {"01", "80"},
   hdcp |-> {"00", "01", "short"}, quality |-> {"00", "01"},
   hudFunc |-> {"00", "01"}, hudCorr |-> {"c1", "c2", "black"}, hudRot |-> {"r1"},
   shot |-> {"00", "01"}]
KindsThatMeet ==
  {{"type", "sync"}, {"conn", "video", "audio"}, {"hdcp", "quality"},
   {"hudFunc", "hudCorr", "hudRot"}, {"shot"}}
=============================================================================
