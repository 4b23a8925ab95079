---------------------------- MODULE MCEventLoop ----------------------------
(* EventLoop on a small instance. *)
EXTENDS EventLoop
=============================================================================
