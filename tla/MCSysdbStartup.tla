--------------------------- MODULE MCSysdbStartup ---------------------------
(* Instances of SysdbStartup for TLC: one path with a default (HDMI), one  *)
(* without (the service state), the main thread and the PFM thread.        *)
EXTENDS SysdbStartup, TLC

CONSTANTS hdmi, service, v0, v1

MCPaths == {hdmi, service}
MCHdmi == {hdmi}
MCValues == {v0, v1}
MCCallers == {"main", "pfm"}
=============================================================================
