--------------------------- MODULE MCStrHandshake ---------------------------
(* Instances of StrProperties for TLC.                                     *)
EXTENDS StrProperties, TLC

NoSlowStep == {}
SlowResume == {"strResume"}
=============================================================================
