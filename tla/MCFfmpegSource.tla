--------------------------- MODULE MCFfmpegSource ---------------------------
(* Instance of FfmpegSource for TLC.                                       *)
EXTENDS FfmpegSource
=============================================================================
