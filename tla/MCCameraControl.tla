---------------------------- MODULE MCCameraControl ---------------------------
(* Two kinds of camera, and one frame to wait for instead of three.          *)
EXTENDS CameraControl
=============================================================================
