------------------------- MODULE MCTerminalEmulator --------------------------
(* Instance of TerminalEmulator for TLC.                                   *)
EXTENDS TerminalEmulator, FiniteSets

(* TLC goes on from states that are out of the ordinary in one way at      *)
(* most; a cursor off the screen is one, and it may be saved.              *)
Unusual == {i \in 1..5 :
  \/ i = 1 /\ mInsertMode
  \/ i = 2 /\ "wrap" \notin mDecFlags
  \/ i = 3 /\ "origin" \in mDecFlags
  \/ i = 4 /\ mSavedDecFlags_DECSC_DECRC \notin {{}, {"wrap"}}
  \/ i = 5 /\ <<mSavedCursorRow, mSavedCursorCol>>
                \notin {<<0, 0>>, <<mCursorRow, mCursorCol>>}}

OneAtMost == IF OnScreen THEN Cardinality(Unusual) <= 1
                         ELSE Unusual = {} /\ mLastEmittedCharWidth < 2

(* No step reads outside, so states that differ only in it go on alike.    *)
WithoutOutside == <<size, margins, cursor, emitted, saved, modes>>
=============================================================================
