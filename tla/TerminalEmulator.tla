--------------------------- MODULE TerminalEmulator --------------------------
(***************************************************************************)
(* jackpal.androidterm.emulatorview.TerminalEmulator: what every control   *)
(* function does to the cursor, the margins and the modes, and which       *)
(* drawing calls it makes.  One step is one control function with its      *)
(* arguments, as the parser (TerminalParser) hands it over, or one call of *)
(* the session: updateSize() or reset().                                   *)
(*                                                                         *)
(* A drawing call outside the screen throws; append() swallows the         *)
(* exception, and what the function has done up to then stays.  A row with *)
(* wide or combining characters is a FullUnicodeLine, which can throw on a *)
(* column of the screen, too: that is a choice here (`fault').  Glyphs,    *)
(* colours, character sets and the text on the screen are left out; a tab  *)
(* stop may be anywhere.                                                   *)
(***************************************************************************)
EXTENDS Integers

CONSTANTS MinRows, MaxRows, MaxColumns,    \* sizes of the screen
          MaxArg,       \* the largest argument of a sequence, IntMax in the code
          IntMax        \* the largest int; sums beyond it wrap around

ASSUME EmulatorAssumption ==
  /\ MinRows \in Nat \ {0} /\ MaxRows \in Nat /\ MaxRows >= MinRows
  /\ MaxColumns \in Nat \ {0}
  /\ MaxArg \in Nat \ {0} /\ IntMax \in Nat
  /\ MaxArg <= IntMax /\ MaxRows < IntMax /\ MaxColumns < IntMax

VARIABLES
  mRows, mColumns,
  mCursorRow, mCursorCol,
  mTopMargin, mBottomMargin,    \* the bottom margin is the first row below
  mAboutToAutoWrap, mJustWrapped, mLastEmittedCharWidth,
  mSavedCursorRow, mSavedCursorCol,     \* DECSC
  mDecFlags,                    \* of the DEC modes, origin and wrap
  mSavedDecFlags_DECSC_DECRC,
  mInsertMode,
  outside                       \* the last step drew outside the screen

size == <<mRows, mColumns>>
margins == <<mTopMargin, mBottomMargin>>
cursor == <<mCursorRow, mCursorCol, mAboutToAutoWrap>>
emitted == <<mJustWrapped, mLastEmittedCharWidth>>
saved == <<mSavedCursorRow, mSavedCursorCol, mSavedDecFlags_DECSC_DECRC>>
modes == <<mDecFlags, mInsertMode>>
vars == <<size, margins, cursor, emitted, saved, modes, outside>>

MinOf(a, b) == IF a < b THEN a ELSE b
MaxOf(a, b) == IF a > b THEN a ELSE b

(* A sum or a difference of two ints is an int again.                      *)
Ints == -(IntMax + 1)..IntMax
Wrap(n) == IF n > IntMax THEN n - 2 * (IntMax + 1)
           ELSE IF n < -(IntMax + 1) THEN n + 2 * (IntMax + 1) ELSE n

(* An argument: 0 stands for a missing one, too, as in getArg().           *)
Arg == 0..MaxArg
getArg(arg, default) == IF arg = 0 THEN default ELSE arg
-----------------------------------------------------------------------------
(* The drawing calls of the screen, by what they require.  A sum that      *)
(* wraps passes the check of blockSet(), and its loop throws later, unless *)
(* there is nothing to set.                                                *)

blockSetOK(sx, sy, w, h) ==
  /\ sx >= 0 /\ Wrap(sx + w) <= mColumns
  /\ sy >= 0 /\ Wrap(sy + h) <= mRows
  /\ w > 0 /\ h > 0 => sx + w <= mColumns /\ sy + h <= mRows

blockCopyOK(sx, sy, w, h, dx, dy) ==
  /\ w >= 0
  /\ blockSetOK(sx, sy, w, h) /\ blockSetOK(dx, dy, w, h)

scrollOK == mTopMargin <= mBottomMargin - 1 /\ mTopMargin >= 0 /\ mBottomMargin <= mRows

(* set(x, y, c): a row above the screen is one of the transcript, if that  *)
(* is long enough.                                                         *)
setOK(x, y, transcript) ==
  /\ 0 <= x /\ x < mColumns
  /\ y < mRows /\ (y >= 0 \/ transcript)

(* A function that only draws.                                             *)
Draw(ok) ==
  /\ outside' = ~ok
  /\ UNCHANGED <<size, margins, cursor, emitted, saved, modes>>
-----------------------------------------------------------------------------
\* mutant: the row is not limited to the screen.
LimitRow_Unlimited(row) == row

LimitRow(row) == MinOf(row, mRows - 1)

(* setCursorRow(), setCursorCol(), setCursorRowCol()                       *)
SetCursor(row, col) ==
  /\ mCursorRow' = row /\ mCursorCol' = col /\ mAboutToAutoWrap' = FALSE

Move(row, col) ==
  /\ SetCursor(row, col)
  /\ outside' = FALSE
  /\ UNCHANGED <<size, margins, emitted, saved, modes>>

setCursorRowCol(row, col) == SetCursor(LimitRow(row), MinOf(col, mColumns - 1))

(* setCursorPosition(x, y), with the origin mode it is told                *)
setCursorPosition(x, y, flags) ==
  LET top == IF "origin" \in flags THEN mTopMargin ELSE 0
      bottom == IF "origin" \in flags THEN mBottomMargin ELSE mRows
  IN  setCursorRowCol(MaxOf(top, MinOf(Wrap(top + y), bottom - 1)),
                      MaxOf(0, MinOf(x, mColumns - 1)))

\* mutant: the line feed scrolls at the bottom of the screen only.
AtBottom_Screen(row) == row >= mRows

AtBottom(row) == row >= mBottomMargin

(* doLinefeed(), the cursor being in column `col' by then                  *)
Linefeed(col, about) ==
  LET below == Wrap(mCursorRow + 1)
      scrolls == AtBottom(below)
  IN  /\ outside' = (scrolls /\ ~scrollOK)
      /\ IF outside'
         THEN mCursorRow' = mCursorRow /\ mCursorCol' = col /\ mAboutToAutoWrap' = about
         ELSE SetCursor(IF scrolls THEN mBottomMargin - 1 ELSE below, col)
      /\ UNCHANGED <<size, margins, emitted, saved, modes>>

(* emit(c, style), for a character of the given width: 0 for a combining   *)
(* or control character.                                                   *)
emit(width) ==
  LET wraps == /\ "wrap" \in mDecFlags /\ mCursorCol = mColumns - 1
               /\ mAboutToAutoWrap \/ width = 2
      scrolls == wraps /\ ~(mCursorRow + 1 < mBottomMargin)
      row == IF wraps /\ ~scrolls THEN mCursorRow + 1 ELSE mCursorRow
      col == IF wraps THEN 0 ELSE mCursorCol
      just == wraps \/ mJustWrapped
      last == mLastEmittedCharWidth
      inserts == mInsertMode /\ width # 0 /\ col + width < mColumns
      x == IF width # 0 THEN col ELSE (IF just THEN mColumns ELSE col) - last
      y == IF width = 0 /\ just THEN row - 1 ELSE row
      wrapOK(transcript) ==
        wraps => mCursorRow <= mRows /\ (mCursorRow >= 0 \/ transcript)
      roomOK == scrolls => scrollOK
      insertOK == inserts => blockCopyOK(col, row, mColumns - (col + width), 1,
                                         col + width, row)
  IN  \E transcript, fault \in BOOLEAN :
      LET marked == wrapOK(transcript)
          ok == marked /\ roomOK /\ insertOK /\ setOK(x, y, transcript)
      IN
      /\ outside' = ~ok
      /\ IF ok /\ ~fault
         THEN /\ mCursorRow' = row
              /\ mCursorCol' = MinOf(col + width, mColumns - 1)
              /\ mAboutToAutoWrap' = IF "wrap" \in mDecFlags THEN col = mColumns - 1
                                                             ELSE mAboutToAutoWrap
              /\ mJustWrapped' = (width = 0 /\ just)
              /\ mLastEmittedCharWidth' = IF width > 0 THEN width ELSE last
         ELSE /\ mCursorRow' = IF marked /\ roomOK THEN row ELSE mCursorRow
              /\ mCursorCol' = IF marked THEN col ELSE mCursorCol
              /\ mJustWrapped' = IF marked THEN just ELSE mJustWrapped
              /\ UNCHANGED <<mAboutToAutoWrap, mLastEmittedCharWidth>>
      /\ UNCHANGED <<size, margins, saved, modes>>
-----------------------------------------------------------------------------
(* The characters and the control codes                                    *)

(* A character, or the 127 that CAN and SUB show.                          *)
Character == \E width \in 0..2 : emit(width)

\* mutant: the cursor moves left of the first column.
BackSpace_Unlimited == Move(mCursorRow, mCursorCol - 1)

BackSpace == Move(mCursorRow, MaxOf(0, Wrap(mCursorCol - 1)))

(* HT: nextTabStop() looks right of the cursor for a tab stop, and takes   *)
(* the last column if there is none.                                       *)
Tab ==
  IF Wrap(mCursorCol + 1) < 0 THEN Draw(FALSE)
  ELSE \E col \in 0..(mColumns - 1) :
         /\ col > mCursorCol \/ col = mColumns - 1
         /\ Move(mCursorRow, col)

CarriageReturn == Move(mCursorRow, 0)

(* LF, VT, FF and ESC D                                                    *)
Index == Linefeed(mCursorCol, mAboutToAutoWrap)

(* ESC E                                                                   *)
NextLine == Linefeed(0, FALSE)

(* ESC M                                                                   *)
ReverseIndex ==
  IF mCursorRow <= mTopMargin
  THEN Draw(/\ blockCopyOK(0, mTopMargin, mColumns, mBottomMargin - (mTopMargin + 1),
                           0, mTopMargin + 1)
            /\ blockSetOK(0, mTopMargin, mColumns, 1))
  ELSE /\ mCursorRow' = mCursorRow - 1 /\ outside' = FALSE
       /\ UNCHANGED <<size, margins, mCursorCol, mAboutToAutoWrap, emitted, saved, modes>>

(* ESC 7                                                                   *)
SaveCursor ==
  /\ mSavedCursorRow' = mCursorRow /\ mSavedCursorCol' = mCursorCol
  /\ mSavedDecFlags_DECSC_DECRC' = mDecFlags
  /\ outside' = FALSE
  /\ UNCHANGED <<size, margins, cursor, emitted, modes>>

(* ESC 8                                                                   *)
RestoreCursor ==
  /\ setCursorRowCol(mSavedCursorRow, mSavedCursorCol)
  /\ mDecFlags' = mSavedDecFlags_DECSC_DECRC
  /\ outside' = FALSE
  /\ UNCHANGED <<size, margins, emitted, saved, mInsertMode>>

(* ESC F, with the row and the column as the code has them                 *)
LowerLeft ==
  /\ setCursorRowCol(0, mBottomMargin - 1)
  /\ outside' = FALSE
  /\ UNCHANGED <<size, margins, emitted, saved, modes>>

(* ESC # 8                                                                 *)
AlignmentTest == Draw(blockSetOK(0, 0, mColumns, mRows))

(* ESC H and CSI g, which index mTabStop with the cursor's column          *)
SetTabStop == Draw(mCursorCol >= 0 /\ mCursorCol < mColumns)

(* CSI Z: prevTabStop() looks left of the cursor, and takes column 0.      *)
BackTab ==
  IF Wrap(mCursorCol - 1) >= mColumns THEN Draw(FALSE)
  ELSE \E col \in 0..(mColumns - 1) :
         /\ col < mCursorCol \/ col = 0
         /\ Move(mCursorRow, col)
-----------------------------------------------------------------------------
(* The CSI functions                                                       *)

CursorUp == \E a \in Arg :
  Move(MaxOf(mTopMargin, Wrap(mCursorRow - getArg(a, 1))), mCursorCol)

DownBy(n) == Move(MinOf(mBottomMargin - 1, Wrap(mCursorRow + n)), mCursorCol)
RightBy(n) == Move(mCursorRow, MinOf(mColumns - 1, Wrap(mCursorCol + n)))

CursorDown == \E a \in Arg : DownBy(getArg(a, 1))
CursorRight == \E a \in Arg : RightBy(getArg(a, 1))

CursorLeft == \E a \in Arg :
  Move(mCursorRow, MaxOf(0, Wrap(mCursorCol - getArg(a, 1))))

(* CSI G and CSI d                                                         *)
CursorColumn == \E a \in Arg :
  Move(mCursorRow, MinOf(MaxOf(1, getArg(a, 1)), mColumns) - 1)

CursorLine == \E a \in Arg :
  Move(MinOf(MaxOf(1, getArg(a, 1)), mRows) - 1, mCursorCol)

(* CSI H and CSI f                                                         *)
setHorizontalVerticalPosition == \E a, b \in Arg :
  /\ setCursorPosition(getArg(b, 1) - 1, getArg(a, 1) - 1, mDecFlags)
  /\ outside' = FALSE
  /\ UNCHANGED <<size, margins, emitted, saved, modes>>

(* CSI J and CSI K, by their argument                                      *)
EraseInDisplay ==
  \/ Draw(/\ blockSetOK(mCursorCol, mCursorRow, mColumns - mCursorCol, 1)
          /\ blockSetOK(0, mCursorRow + 1, mColumns, mRows - (mCursorRow + 1)))
  \/ Draw(/\ blockSetOK(0, 0, mColumns, mCursorRow)
          /\ blockSetOK(0, mCursorRow, Wrap(mCursorCol + 1), 1))
  \/ Draw(blockSetOK(0, 0, mColumns, mRows))

EraseInLine ==
  \/ Draw(blockSetOK(mCursorCol, mCursorRow, mColumns - mCursorCol, 1))
  \/ Draw(blockSetOK(0, mCursorRow, Wrap(mCursorCol + 1), 1))
  \/ Draw(blockSetOK(0, mCursorRow, mColumns, 1))

\* mutant: an argument beyond the right edge is not cut off.
CharsAffected_All(a) == getArg(a, 1)

(* Of CSI @ and CSI P: charsToInsert, charsToDelete                        *)
CharsAffected(a) == MinOf(getArg(a, 1), mColumns - mCursorCol)

InsertChars == \E a \in Arg :
  LET n == CharsAffected(a)
      move == mColumns - mCursorCol - n
  IN  Draw(/\ blockCopyOK(mCursorCol, mCursorRow, move, 1, mCursorCol + n, mCursorRow)
           /\ blockSetOK(mCursorCol, mCursorRow, n, 1))

(* A copy that reaches the right edge starts behind it and copies nothing: *)
(* in a row of wide characters (`wide') getLine() still looks for the      *)
(* start of that column, which is out of its offsets.                      *)
DeleteUpTo(n) == \E wide \in BOOLEAN :
  LET move == mColumns - mCursorCol - n
  IN  Draw(/\ blockCopyOK(mCursorCol + n, mCursorRow, move, 1, mCursorCol, mCursorRow)
           /\ wide => mCursorCol + n < mColumns
           /\ blockSetOK(mCursorCol + move, mCursorRow, n, 1))

DeleteChars == \E a \in Arg : DeleteUpTo(CharsAffected(a))

(* Of CSI L and CSI M: linesToInsert, linesToDelete; not positive if the   *)
(* cursor is below the bottom margin.                                      *)
LinesAffected(a) == MinOf(getArg(a, 1), mBottomMargin - mCursorRow)

InsertLines == \E a \in Arg :
  LET n == LinesAffected(a)
      move == mBottomMargin - mCursorRow - n
  IN  Draw(/\ blockCopyOK(0, mCursorRow, mColumns, move, 0, mCursorRow + n)
           /\ blockSetOK(0, mCursorRow, mColumns, n))

DeleteLines == \E a \in Arg :
  LET n == LinesAffected(a)
      move == mBottomMargin - mCursorRow - n
  IN  Draw(/\ blockCopyOK(0, mCursorRow + n, mColumns, move, 0, mCursorRow)
           /\ blockSetOK(0, mCursorRow + move, mColumns, n))

(* CSI X, whose argument nothing limits                                    *)
EraseChars == \E a \in Arg :
  Draw(blockSetOK(mCursorCol, mCursorRow, getArg(a, 0), 1))

(* CSI 4 h and CSI 4 l; the other modes have no effect here.               *)
doSetMode ==
  /\ mInsertMode' \in BOOLEAN
  /\ outside' = FALSE
  /\ UNCHANGED <<size, margins, cursor, emitted, saved, mDecFlags>>

\* mutant: the top margin may be the last row.
TopMargin_LastRow(a) == MaxOf(0, MinOf(getArg(a, 1) - 1, mRows - 1))

TopMargin(a) == MaxOf(0, MinOf(getArg(a, 1) - 1, mRows - 2))

(* CSI r.  On a screen of one row the bottom margin is below the screen.   *)
SetMargins == \E a, b \in Arg :
  LET top == TopMargin(a)
      bottom == MaxOf(top + 2, MinOf(getArg(b, mRows), mRows))
  IN  /\ mTopMargin' = top /\ mBottomMargin' = bottom
      /\ setCursorRowCol(top, 0)
      /\ outside' = FALSE
      /\ UNCHANGED <<size, emitted, saved, modes>>

(* doEscLSBQuest(): h, l, r, or a byte that changes no mode: s, and those  *)
(* of the arguments.  Any mode may have been saved by an earlier s.  What  *)
(* the mode does besides, it does for all of them: 132 columns clears the  *)
(* screen and, unless that throws, homes the cursor; origin mode homes it. *)
DecMode == {"132 columns", "origin", "wrap", "other"}

doEscLSBQuest == \E mode \in DecMode :
  LET mask == {mode} \cap {"origin", "wrap"}
  IN  /\ mDecFlags' \in {mDecFlags \cup mask, mDecFlags \ mask, mDecFlags}
      /\ outside' = (mode = "132 columns" /\ ~blockSetOK(0, 0, mColumns, mRows))
      /\ CASE mode = "132 columns" -> setCursorRowCol(0, 0) \/ UNCHANGED cursor
           [] mode = "origin" -> setCursorPosition(0, 0, mDecFlags')
           [] OTHER -> UNCHANGED cursor
      /\ UNCHANGED <<size, margins, emitted, saved, mInsertMode>>
-----------------------------------------------------------------------------
\* mutant: a new height leaves the margins alone.
ResizeMargins_Keep(rows) == UNCHANGED margins

(* updateSize(): a new height sets the margins to the screen.              *)
ResizeMargins(rows) ==
  IF rows # mRows THEN mTopMargin' = 0 /\ mBottomMargin' = rows
                  ELSE UNCHANGED margins

(* fastResize(), for a new height: the rows move up by what the blank rows *)
(* below the cursor do not give, or down by what the transcript does       *)
(* (UnicodeTranscript!Shift); a cursor off the top goes home.              *)
FastShift(rows) ==
  LET fewer == mRows - rows
      below == MaxOf(0, mRows - 1 - mCursorRow)
  IN  IF fewer > 0 THEN MaxOf(0, fewer - below)..fewer ELSE fewer..0

FastResize == \E rows \in MinRows..MaxRows : \E shift \in FastShift(rows) :
  /\ rows # mRows
  /\ mRows' = rows /\ UNCHANGED mColumns
  /\ ResizeMargins(rows)
  /\ LET row == Wrap(mCursorRow - shift)
         keeps == row >= 0 /\ mCursorCol >= 0
     IN  /\ mCursorRow' = IF keeps THEN row ELSE 0
         /\ mCursorCol' = IF keeps THEN mCursorCol ELSE 0
  /\ outside' = FALSE
  /\ UNCHANGED <<mAboutToAutoWrap, emitted, saved, modes>>

(* A new width: a mark is set at the cursor, the transcript is emitted     *)
(* again into an empty screen and the cursor put where the mark is found,  *)
(* or at the top.  Where that is, and what the emitted text leaves of its  *)
(* flags, depends on the text; line feeds keep it above the bottom margin. *)
(* Nothing catches an exception here: it ends the program.                 *)
SlowResize == \E rows \in MinRows..MaxRows, columns \in 1..MaxColumns :
  /\ columns # mColumns
  /\ setOK(mCursorCol, mCursorRow, TRUE)
  /\ mRows' = rows /\ mColumns' = columns
  /\ ResizeMargins(rows)
  /\ mCursorRow' \in 0..(mBottomMargin' - 1) /\ mCursorCol' \in 0..(columns - 1)
  /\ mAboutToAutoWrap' \in BOOLEAN /\ mJustWrapped' \in BOOLEAN
  /\ mLastEmittedCharWidth' \in {mLastEmittedCharWidth, 1, 2}
  /\ outside' = FALSE
  /\ UNCHANGED <<saved, modes>>

(* reset(): what the last character was is kept.                           *)
Reset ==
  /\ SetCursor(0, 0)
  /\ mTopMargin' = 0 /\ mBottomMargin' = mRows
  /\ mSavedCursorRow' = 0 /\ mSavedCursorCol' = 0
  /\ mDecFlags' = {"wrap"}
  /\ mSavedDecFlags_DECSC_DECRC' = {} /\ mInsertMode' = FALSE
  /\ outside' = ~blockSetOK(0, 0, mColumns, mRows)
  /\ UNCHANGED <<size, emitted>>

Init ==
  /\ mRows \in MinRows..MaxRows /\ mColumns \in 1..MaxColumns
  /\ mCursorRow = 0 /\ mCursorCol = 0 /\ mAboutToAutoWrap = FALSE
  /\ mTopMargin = 0 /\ mBottomMargin = mRows
  /\ mJustWrapped = FALSE /\ mLastEmittedCharWidth = 0
  /\ mSavedCursorRow = 0 /\ mSavedCursorCol = 0
  /\ mDecFlags = {"wrap"}
  /\ mSavedDecFlags_DECSC_DECRC = {} /\ mInsertMode = FALSE
  /\ outside = FALSE

(* The functions that move the cursor along the lines of the text          *)
AlongLines == Index \/ NextLine \/ ReverseIndex \/ CursorUp \/ CursorDown
Along == Character \/ AlongLines

ToColumn ==
  \/ BackSpace \/ Tab \/ BackTab \/ CarriageReturn
  \/ CursorRight \/ CursorLeft \/ CursorColumn

ToPosition ==
  \/ CursorLine \/ setHorizontalVerticalPosition \/ LowerLeft
  \/ SaveCursor \/ RestoreCursor

(* The functions that change the text around the cursor                    *)
EditAround ==
  \/ AlignmentTest \/ SetTabStop \/ EraseInDisplay \/ EraseInLine
  \/ InsertChars \/ InsertLines \/ DeleteLines
Edit == EraseChars \/ DeleteChars \/ EditAround

SetModes == doSetMode \/ SetMargins \/ doEscLSBQuest

Next ==
  \/ Along \/ ToColumn \/ ToPosition \/ Edit \/ SetModes
  \/ FastResize \/ SlowResize \/ Reset

Spec == Init /\ [][Next]_vars
-----------------------------------------------------------------------------
(* Type invariant: rows and columns are ints, the sums of ints too.        *)
TypeOK ==
  /\ mRows \in MinRows..MaxRows /\ mColumns \in 1..MaxColumns
  /\ mCursorRow \in Ints /\ mCursorCol \in Ints
  /\ mTopMargin \in Ints /\ mBottomMargin \in Ints
  /\ mAboutToAutoWrap \in BOOLEAN /\ mJustWrapped \in BOOLEAN
  /\ mLastEmittedCharWidth \in 0..2
  /\ mSavedCursorRow \in Ints /\ mSavedCursorCol \in Ints
  /\ mDecFlags \subseteq {"origin", "wrap"}
  /\ mSavedDecFlags_DECSC_DECRC \subseteq {"origin", "wrap"}
  /\ mInsertMode \in BOOLEAN /\ outside \in BOOLEAN

(* "Also require that top + 2 <= bottom", of the margins in use and not    *)
(* only when they are set: they enclose two rows of the screen of the      *)
(* current size.  One row cannot hold two: there the margins enclose the   *)
(* screen, or CSI r has put the bottom one below it.                       *)
MarginsOnScreen ==
  \/ 0 <= mTopMargin /\ mTopMargin + 2 <= mBottomMargin /\ mBottomMargin <= mRows
  \/ mRows = 1 /\ mTopMargin = 0 /\ mBottomMargin \in {1, 2}

BottomBelowScreen == mBottomMargin > mRows

(* "The cursor row. Numbered 0..mRows-1", the column, and a saved cursor,  *)
(* which is limited only below and on the right when it is restored.       *)
OnScreen ==
  /\ 0 <= mCursorRow /\ mCursorRow < mRows
  /\ 0 <= mCursorCol /\ mCursorCol < mColumns
  /\ 0 <= mSavedCursorRow /\ 0 <= mSavedCursorCol

(* CSI B and CSI C with an argument that, added to the row or the column,  *)
(* is beyond the largest int.                                              *)
Overflow == \E a \in Arg :
  \/ mCursorRow + a > IntMax /\ DownBy(a)
  \/ mCursorCol + a > IntMax /\ RightBy(a)

(* The cursor is on the screen, whatever the sequences, a save before and  *)
(* a restore after a resize, an exception in the middle of a function.     *)
(* Two things take it off: a CSI B or C that overflows, and a bottom       *)
(* margin below a screen of one row.                                       *)
CursorOnScreen ==
  [][OnScreen /\ ~OnScreen' => Overflow \/ BottomBelowScreen]_vars

(* With the cursor and the margins on the screen no function draws         *)
(* outside it, so none leaves the parser inside a sequence by that, except *)
(* CSI X past the right edge, a combining character with nothing before it *)
(* and CSI P up to the right edge of a row of wide characters.             *)
Drawing ==
  \/ emit(1) \/ emit(2) \/ AlongLines \/ ToColumn \/ ToPosition
  \/ EditAround \/ SetModes \/ Reset
  \/ \E a \in Arg : mCursorCol + a < mColumns /\ a > 0 /\ DeleteUpTo(a)

DrawsOnScreen ==
  [][OnScreen /\ ~BottomBelowScreen /\ outside' => ~Drawing]_vars

InRegion == mTopMargin <= mCursorRow /\ mCursorRow < mBottomMargin

(* Text, line feeds, reverse line feeds and relative moves take the cursor *)
(* out of the scrolling region only by an overflow.                        *)
RegionKeepsCursor == [][InRegion /\ ~InRegion' /\ Along => Overflow]_vars
=============================================================================
