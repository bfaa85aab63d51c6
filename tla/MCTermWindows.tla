---------------------------- MODULE MCTermWindows ----------------------------
(* Instance of TermWindows for TLC.                                        *)
EXTENDS TermWindows
=============================================================================
