-------------------------- MODULE MCTerminalParser ---------------------------
(* Instance of TerminalParser for TLC: digits that make arguments of one   *)
(* to three places, some beyond the largest int, and of the bytes that all *)
(* states treat alike, one.                                                *)
EXTENDS TerminalParser

BytesInUse == {"0", "1", "8", ";", "[", "]", "#", "?", "\\", "m", "other"}
=============================================================================
