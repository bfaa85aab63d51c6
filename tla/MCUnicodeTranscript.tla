------------------------ MODULE MCUnicodeTranscript -------------------------
(***************************************************************************)
(* Five rows and screens of one to three rows: the screen, the transcript  *)
(* and a moved block all wrap around the end of the array, and the         *)
(* transcript is full, or too short for a growing screen.                  *)
(***************************************************************************)
EXTENDS UnicodeTranscript
=============================================================================
