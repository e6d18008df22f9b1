--------------------------- MODULE MCCameraSource ---------------------------
(* Instance of CameraSource for TLC.                                       *)
EXTENDS CameraSource
=============================================================================
