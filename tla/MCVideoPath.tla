----------------------------- MODULE MCVideoPath -----------------------------
(* One application path and one HDCP key.                                  *)
EXTENDS VideoPath
=============================================================================
