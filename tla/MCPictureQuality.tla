---------------------------- MODULE MCPictureQuality --------------------------
(* One adjusted kind, two steps, two modes, and the multisensory path.       *)
EXTENDS PictureQuality
=============================================================================
