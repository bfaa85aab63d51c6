-------------------------- MODULE UnicodeTranscript -------------------------
(***************************************************************************)
(* UnicodeTranscript, the circular array of rows behind TranscriptScreen,  *)
(* with the cursor row that TerminalEmulator.updateSize() adjusts.  A row  *)
(* is its text and its wrap flag: the characters of a row, and mColor,     *)
(* which every operation moves together with mLines, are abstracted, and a *)
(* null row is a blank one.  The number of columns is fixed: a change of   *)
(* columns replaces the whole transcript.                                  *)
(***************************************************************************)
EXTENDS Integers, Sequences

CONSTANTS Text, Blank,
          TotalRows,        \* mTotalRows, 10000 in TermSession
          MaxScreenRows     \* bound: the highest window

(* 10000 rows are far more than any screen; resize() needs room for the    *)
(* rows it blanks below a growing screen, scroll() for one row more.       *)
ASSUME TranscriptAssumption ==
  /\ MaxScreenRows \in Nat \ {0} /\ TotalRows \in Nat
  /\ TotalRows > MaxScreenRows /\ TotalRows >= 3 * MaxScreenRows - 4
  /\ Blank \notin Text

VARIABLES mLines, mLineWrap, mScreenRows, mActiveTranscriptRows,
          mScreenFirstRow,
          mCursorRow        \* of the TerminalEmulator

arrays == <<mLines, mLineWrap>>
window == <<mScreenRows, mActiveTranscriptRows, mScreenFirstRow>>
vars == <<arrays, window, mCursorRow>>

Slots == 0..(TotalRows - 1)

(* i % mTotalRows, for the sums of two row numbers that occur.             *)
Wrap(i) == IF i >= TotalRows THEN i - TotalRows ELSE i

externalToInternalRow(extRow) ==
  IF extRow >= 0 THEN Wrap(mScreenFirstRow + extRow)
  ELSE IF -extRow > mScreenFirstRow
       THEN TotalRows + mScreenFirstRow + extRow
       ELSE mScreenFirstRow + extRow

ScreenRow == 0..(mScreenRows - 1)

Init ==
  /\ mLines = [i \in Slots |-> Blank] /\ mLineWrap = [i \in Slots |-> FALSE]
  /\ mScreenRows \in 1..MaxScreenRows
  /\ mActiveTranscriptRows = 0 /\ mScreenFirstRow = 0
  /\ mCursorRow = 0
-----------------------------------------------------------------------------
setChar == \E row \in ScreenRow, text \in Text \cup {Blank} :
  /\ mLines' = [mLines EXCEPT ![externalToInternalRow(row)] = text]
  /\ UNCHANGED <<mLineWrap, window, mCursorRow>>

setLineWrap == \E row \in ScreenRow :
  /\ mLineWrap' = [mLineWrap EXCEPT ![externalToInternalRow(row)] = TRUE]
  /\ UNCHANGED <<mLines, window, mCursorRow>>

setCursorRow == /\ mCursorRow' \in ScreenRow
                /\ UNCHANGED <<arrays, window>>

(* blockCopy() of whole rows: in increasing order when they move up, in    *)
(* decreasing order when they move down; the wrap flags stay.  CopyOrder   *)
(* is the row that the n-th turn of the loop copies.                       *)
CopyOrder(sy, dy, h, n) == IF sy > dy THEN n - 1 ELSE h - n

RowsAfterTurns(sy, dy, h) ==
  LET copied[n \in 0..h] ==
        IF n = 0 THEN mLines
        ELSE LET y == CopyOrder(sy, dy, h, n)
             IN  [copied[n - 1] EXCEPT ![externalToInternalRow(dy + y)] =
                    copied[n - 1][externalToInternalRow(sy + y)]]
  IN  copied

blockCopy(sy, dy, h) ==
  /\ sy + h <= mScreenRows /\ dy + h <= mScreenRows
  /\ UNCHANGED <<mLineWrap, window, mCursorRow>>
  /\ mLines' = RowsAfterTurns(sy, dy, h)[h]
-----------------------------------------------------------------------------
(* blockCopyLines(src, len, 1) on one of the arrays: at once if neither    *)
(* block wraps around the end of the array, else from bottom to top.       *)
\* mutant: from top to bottom.
CopyTurn_TopDown(len, n) == n - 1

CopyTurn(len, n) == len - n

LinesAfterTurns(a, src, len) ==
  LET copied[n \in 0..len] ==
        IF n = 0 THEN a
        ELSE LET i == CopyTurn(len, n)
             IN  [copied[n - 1] EXCEPT ![Wrap(Wrap(src + 1) + i)] =
                    copied[n - 1][Wrap(src + i)]]
  IN  copied

blockCopyLines(a, src, len) ==
  LET dst == Wrap(src + 1)
  IN  IF src + len <= TotalRows /\ dst + len <= TotalRows
      THEN [i \in Slots |-> IF i \in dst..(dst + len - 1) THEN a[src + i - dst] ELSE a[i]]
      ELSE LinesAfterTurns(a, src, len)[len]

\* mutant: the transcript is taken to be as long as the array.
OneMoreRow_IgnoreScreen(active, rows) ==
  IF active < TotalRows THEN active + 1 ELSE active

OneMoreRow(active, rows) ==
  IF active < TotalRows - rows THEN active + 1 ELSE active

(* The rows of one array after the rows around the region have made way    *)
(* for the scrolled one, and the new bottom row of the region is blank.    *)
Scrolled(a, top, bottom, blank) ==
  LET first == mScreenFirstRow
      above == blockCopyLines(a, first, top)
      below == blockCopyLines(above, externalToInternalRow(bottom), mScreenRows - bottom)
      moved == [below EXCEPT ![first] = a[externalToInternalRow(top)]]
  IN  [IF top = 0 /\ bottom = mScreenRows THEN a ELSE moved
         EXCEPT ![Wrap(Wrap(first + 1) + bottom - 1)] = blank]

scroll(top, bottom) ==
  /\ top <= bottom - 1 /\ bottom <= mScreenRows
  /\ mScreenFirstRow' = Wrap(mScreenFirstRow + 1)
  /\ mActiveTranscriptRows' = OneMoreRow(mActiveTranscriptRows, mScreenRows)
  /\ UNCHANGED <<mScreenRows, mCursorRow>>
  /\ mLines' = Scrolled(mLines, top, bottom, Blank)
  /\ mLineWrap' = Scrolled(mLineWrap, top, bottom, FALSE)
-----------------------------------------------------------------------------
(* How far resize() looks for blank rows from the bottom of the screen up  *)
(* when it has to do without `fewer' rows: as many, and never the cursor's *)
(* row or one above it.                                                    *)
\* mutant: the cursor's own row counts as spare when it is blank.
HideLimit_CursorRow(fewer, cursor) ==
  IF fewer < mScreenRows - cursor THEN fewer ELSE mScreenRows - cursor

HideLimit(fewer, cursor) ==
  IF fewer < mScreenRows - 1 - cursor THEN fewer ELSE mScreenRows - 1 - cursor

Hidden(fewer, cursor) ==
  CHOOSE n \in 0..HideLimit(fewer, cursor) :
    /\ \A i \in (mScreenRows - n)..(mScreenRows - 1) :
         mLines[externalToInternalRow(i)] = Blank
    /\ \/ n = HideLimit(fewer, cursor)
       \/ mLines[externalToInternalRow(mScreenRows - n - 1)] # Blank

(* The distance the top of the screen moves, down if positive.             *)
Shift(rows) ==
  LET fewer == mScreenRows - rows
  IN  IF fewer < -mActiveTranscriptRows THEN -mActiveTranscriptRows
      ELSE IF fewer > 0 THEN fewer - Hidden(fewer, mCursorRow)
      ELSE fewer

(* The slots resize() blanks when the transcript cannot fill the screen.   *)
Blanked(rows) ==
  LET fewer == mScreenRows - rows
  IN  IF fewer < -mActiveTranscriptRows
      THEN {Wrap(mScreenFirstRow + mScreenRows + i) :
              i \in 0..(mActiveTranscriptRows - fewer - 1)}
      ELSE {}

ShiftedFirstRow(shift) ==
  IF shift >= 0 \/ mScreenFirstRow >= -shift
  THEN Wrap(mScreenFirstRow + shift)
  ELSE TotalRows + mScreenFirstRow + shift

(* UnicodeTranscript.resize(), and TerminalEmulator.updateSize(), which    *)
(* resets a cursor that left the screen at the top.                        *)
resize(rows) ==
  LET shift == Shift(rows)
      cursor == mCursorRow - shift
      active == mActiveTranscriptRows + shift
  IN  /\ rows # mScreenRows /\ mScreenRows' = rows
      /\ mLines' = [i \in Slots |-> IF i \in Blanked(rows) THEN Blank ELSE mLines[i]]
      /\ mLineWrap' = [i \in Slots |-> IF i \in Blanked(rows) THEN FALSE ELSE mLineWrap[i]]
      /\ mScreenFirstRow' = ShiftedFirstRow(shift)
      /\ mActiveTranscriptRows' = IF active < 0 THEN 0 ELSE active
      /\ mCursorRow' = IF cursor >= 0 THEN cursor ELSE 0
-----------------------------------------------------------------------------
BlockCopy == \E sy, dy \in ScreenRow, h \in 1..mScreenRows : blockCopy(sy, dy, h)
Scroll == \E top \in ScreenRow, bottom \in 1..mScreenRows : scroll(top, bottom)
Resize == \E rows \in 1..MaxScreenRows : resize(rows)

Next == setChar \/ setLineWrap \/ setCursorRow \/ BlockCopy \/ Scroll \/ Resize

Spec == Init /\ [][Next]_vars
-----------------------------------------------------------------------------
(* Type invariant of the indexes: the screen begins inside the array, the  *)
(* transcript and the screen together fit into it, and the cursor is on    *)
(* the screen.  What the arrays hold is what the refinement is about.      *)
TypeOK ==
  /\ mScreenRows \in 1..MaxScreenRows
  /\ mScreenFirstRow \in Slots
  /\ mActiveTranscriptRows \in 0..(TotalRows - mScreenRows)
  /\ mCursorRow \in ScreenRow

(* The transcript and the screen as sequences of lines, oldest first.      *)
Line(row) == [text |-> mLines[externalToInternalRow(row)],
              wrap |-> mLineWrap[externalToInternalRow(row)]]

SB == INSTANCE Scrollback WITH
        history <- [i \in 1..mActiveTranscriptRows |->
                      Line(i - 1 - mActiveTranscriptRows)],
        screen <- [i \in 1..mScreenRows |-> Line(i - 1)],
        cursor <- mCursorRow

(* The circular array behaves as a screen with its history: edits, copies, *)
(* scrolls of any region and changes of the height never lose, repeat or   *)
(* reorder a line, and the cursor stays on its line.                       *)
ImplementsScrollback == SB!Spec

(* Each of the three operations that move rows does what its abstract      *)
(* namesake does with the same arguments: no scroll or resize passes for   *)
(* an edit of the screen.                                                  *)
RowsMoveAsPromised ==
  [][/\ \A sy, dy \in ScreenRow, h \in 1..mScreenRows :
          blockCopy(sy, dy, h) => SB!CopyTextOf(sy + 1, dy + 1, h)
     /\ \A top \in ScreenRow, bottom \in 1..mScreenRows :
          scroll(top, bottom) => SB!ScrollRegion(top, bottom)
     /\ \A rows \in 1..MaxScreenRows : resize(rows) => SB!ResizeTo(rows)]_vars
=============================================================================
