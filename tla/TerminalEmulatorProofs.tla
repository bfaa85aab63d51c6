----------------------- MODULE TerminalEmulatorProofs ------------------------
(***************************************************************************)
(* Proofs about TerminalEmulator, for screens of every size, one row       *)
(* included, and every argument.  The invariant says only where the        *)
(* margins are; where the cursor is follows for each step from where it    *)
(* was before, since a move is limited by the margins.                     *)
(***************************************************************************)
EXTENDS TerminalEmulator, TLAPS

IInv == TypeOK /\ MarginsOnScreen

(* Cursor and margins are where the functions expect them.                 *)
Good == OnScreen /\ ~BottomBelowScreen

(* What the steps keep, and what those that draw keep besides.             *)
Kept == IInv' /\ (Good => OnScreen')
Clean == Kept /\ (Good => ~outside')

(* The invariant as facts about numbers, which is how the steps use it.    *)
LEMMA Bounds ==
  ASSUME IInv
  PROVE  /\ mRows \in Nat /\ mRows >= 1 /\ mRows < IntMax
         /\ mColumns \in Nat /\ mColumns >= 1 /\ mColumns < IntMax
         /\ mTopMargin \in Nat /\ mBottomMargin \in Nat
         /\ mTopMargin < mBottomMargin /\ mBottomMargin <= mRows + 1
         /\ mTopMargin < mRows /\ mBottomMargin <= IntMax
         /\ MaxArg \in Nat /\ IntMax \in Nat /\ MaxArg <= IntMax
<1>1. mRows \in Nat /\ mRows >= 1 /\ mRows < IntMax /\ IntMax \in Nat
  BY EmulatorAssumption DEF IInv, TypeOK
<1>2. mColumns \in Nat /\ mColumns >= 1 /\ mColumns < IntMax
  BY EmulatorAssumption DEF IInv, TypeOK
<1>3. mTopMargin \in Int /\ mBottomMargin \in Int
  BY EmulatorAssumption DEF IInv, TypeOK, Ints
<1>4. QED BY <1>1, <1>2, <1>3, EmulatorAssumption DEF IInv, MarginsOnScreen

LEMMA CursorInts ==
  ASSUME IInv
  PROVE  /\ mCursorRow \in Ints /\ mCursorCol \in Ints
         /\ mSavedCursorRow \in Ints /\ mSavedCursorCol \in Ints
         /\ \A n \in Ints : n \in Int /\ -(IntMax + 1) <= n /\ n <= IntMax
         /\ \A n \in Int : -(IntMax + 1) <= n /\ n <= IntMax => n \in Ints
BY EmulatorAssumption DEF IInv, TypeOK, Ints

LEMMA GoodBounds ==
  ASSUME IInv, Good
  PROVE  /\ mCursorRow \in Nat /\ mCursorRow < mRows
         /\ mCursorCol \in Nat /\ mCursorCol < mColumns
         /\ mSavedCursorRow \in Nat /\ mSavedCursorCol \in Nat
         /\ mBottomMargin <= mRows
<1>1. /\ mCursorRow \in Int /\ mCursorCol \in Int
      /\ mSavedCursorRow \in Int /\ mSavedCursorCol \in Int
  BY CursorInts
<1>2. QED BY <1>1, Bounds DEF Good, OnScreen, BottomBelowScreen

(* Two ints make an int that wraps at most once.                           *)
LEMMA WrapIsInt ==
  ASSUME NEW n \in Int, IntMax \in Nat,
         -(2 * IntMax + 2) <= n, n <= 2 * IntMax + 1
  PROVE  Wrap(n) \in Ints /\ Wrap(n) \in Int
BY DEF Wrap, Ints

LEMMA WrapKeeps ==
  ASSUME NEW n \in Int, IntMax \in Nat, -(IntMax + 1) <= n, n <= IntMax
  PROVE  Wrap(n) = n
BY DEF Wrap

(* An argument is its default or positive.                                 *)
LEMMA ArgBounds ==
  ASSUME NEW a \in Arg, NEW d \in Nat
  PROVE  /\ getArg(a, d) \in Nat
         /\ getArg(a, d) = d \/ (1 <= getArg(a, d) /\ getArg(a, d) <= MaxArg)
         /\ d <= IntMax => getArg(a, d) <= IntMax
BY EmulatorAssumption DEF Arg, getArg
-----------------------------------------------------------------------------
(* What a step that moves the cursor leaves alone.                         *)
Frame == /\ outside' \in BOOLEAN
         /\ mDecFlags' \subseteq {"origin", "wrap"} /\ mInsertMode' \in BOOLEAN
         /\ UNCHANGED <<size, margins, emitted, saved>>

(* r and c are ints, and on the screen if all has been well so far.        *)
Place(r, c) == /\ r \in Ints /\ c \in Ints
               /\ Good => 0 <= r /\ r < mRows /\ 0 <= c /\ c < mColumns

LEMMA MoveStep ==
  ASSUME IInv, NEW r, NEW c, Place(r, c), SetCursor(r, c), Frame
  PROVE  Kept /\ mCursorRow' = r
<1>1. mCursorRow' = r /\ mCursorCol' = c
  BY DEF SetCursor
<1>2. mAboutToAutoWrap' \in BOOLEAN
  BY Zenon DEF SetCursor
<1>3. MarginsOnScreen'
  BY DEF IInv, MarginsOnScreen, size, margins, Frame
<1>4. Good => OnScreen'
  BY <1>1 DEF Place, Good, OnScreen, Frame, size, saved
<1>5. TypeOK'
  BY <1>1, <1>2 DEF IInv, TypeOK, Place, Frame, size, margins, emitted, saved
<1>6. QED BY <1>1, <1>3, <1>4, <1>5 DEF IInv, Kept

(* setCursorRowCol() puts the cursor on the screen, from above or left.    *)
LEMMA LimitStep ==
  ASSUME IInv, NEW r \in Ints, NEW c \in Ints, Good => 0 <= r /\ 0 <= c,
         setCursorRowCol(r, c), Frame
  PROVE  Kept
<1> DEFINE row == LimitRow(r)
           col == MinOf(c, mColumns - 1)
<1>1. row \in Ints /\ col \in Ints
  BY Bounds, CursorInts DEF LimitRow, MinOf
<1>2. Good => 0 <= row /\ row < mRows /\ 0 <= col /\ col < mColumns
  BY Bounds, CursorInts DEF LimitRow, MinOf
<1>3. SetCursor(row, col)
  BY DEF setCursorRowCol
<1> HIDE DEF row, col
<1>4. Place(row, col)
  BY <1>1, <1>2 DEF Place
<1>5. QED BY <1>3, <1>4, MoveStep

(* So does setCursorPosition(), for any position.                          *)
LEMMA PositionStep ==
  ASSUME IInv, NEW x \in Nat, x <= IntMax, NEW y \in Nat, y <= IntMax, NEW flags,
         setCursorPosition(x, y, flags), Frame
  PROVE  Kept
<1> DEFINE top == IF "origin" \in flags THEN mTopMargin ELSE 0
           bottom == IF "origin" \in flags THEN mBottomMargin ELSE mRows
           sum == Wrap(top + y)
           r == MaxOf(top, MinOf(sum, bottom - 1))
           c == MaxOf(0, MinOf(x, mColumns - 1))
<1>1. setCursorRowCol(r, c)
  BY DEF setCursorPosition
<1>2. top \in Nat /\ top <= IntMax /\ bottom \in Nat /\ bottom <= IntMax
  BY Bounds
<1> HIDE DEF top, bottom
<1>3. sum \in Ints /\ sum \in Int
  <2>1. top + y \in Int /\ -(2 * IntMax + 2) <= top + y /\ top + y <= 2 * IntMax + 1
    BY <1>2, Bounds
  <2>2. QED BY <2>1, WrapIsInt, Bounds
<1> HIDE DEF sum
<1>4. r \in Int /\ 0 <= r /\ r <= IntMax /\ c \in Int /\ 0 <= c /\ c <= IntMax
  BY <1>2, <1>3, Bounds DEF MaxOf, MinOf
<1> HIDE DEF r, c
<1>5. r \in Ints /\ c \in Ints
  BY <1>4, CursorInts, Bounds
<1>6. QED BY <1>1, <1>4, <1>5, LimitStep

LEMMA DrawStep ==
  ASSUME IInv, NEW ok \in BOOLEAN, Draw(ok)
  PROVE  Kept /\ (outside' => ~ok) /\ mCursorRow' = mCursorRow /\ UNCHANGED margins
<1>1. outside' \in BOOLEAN /\ (outside' => ~ok)
  BY DEF Draw
<1>2. UNCHANGED <<size, margins, cursor, emitted, saved, modes>>
  BY DEF Draw
<1>3. TypeOK' /\ MarginsOnScreen'
  BY <1>1, <1>2 DEF IInv, TypeOK, MarginsOnScreen, size, margins, cursor,
       emitted, saved, modes
<1>4. Good => OnScreen'
  BY <1>2 DEF Good, OnScreen, size, cursor, saved
<1>5. QED BY <1>1, <1>2, <1>3, <1>4 DEF Kept, IInv, cursor

(* A function whose drawing calls are on the screen if all is well.        *)
LEMMA DrawnStep ==
  ASSUME IInv, NEW ok \in BOOLEAN, Good => ok, Draw(ok)
  PROVE  Clean
BY DrawStep DEF Clean

(* Facts that a Move() leaves alone.                                       *)
LEMMA MovesStep ==
  ASSUME IInv, NEW r, NEW c, Place(r, c), Move(r, c)
  PROVE  Clean /\ mCursorRow' = r /\ UNCHANGED margins
<1>1. SetCursor(r, c) /\ outside' = FALSE /\ UNCHANGED margins
  BY DEF Move
<1>2. Frame
  BY DEF Move, IInv, TypeOK, modes, Frame
<1>3. QED BY <1>1, <1>2, MoveStep DEF Clean
-----------------------------------------------------------------------------
RegionKept == InRegion => InRegion'

(* With the margins on the screen the region can be scrolled.              *)
LEMMA Scrollable ==
  ASSUME IInv, Good
  PROVE  scrollOK
BY Bounds, GoodBounds DEF scrollOK

(* doLinefeed() stays inside the region and, if all is well, never throws. *)
LEMMA LinefeedStep ==
  ASSUME IInv, NEW col \in Ints, Good => 0 <= col /\ col < mColumns,
         NEW about \in BOOLEAN, Linefeed(col, about)
  PROVE  Clean /\ RegionKept
<1> DEFINE below == Wrap(mCursorRow + 1)
           scrolls == AtBottom(below)
           bad == scrolls /\ ~scrollOK
           r == IF scrolls THEN mBottomMargin - 1 ELSE below
<1>1. /\ outside' = bad
      /\ IF bad
         THEN mCursorRow' = mCursorRow /\ mCursorCol' = col /\ mAboutToAutoWrap' = about
         ELSE SetCursor(r, col)
      /\ UNCHANGED <<size, margins, emitted, saved, modes>>
  BY Zenon DEF Linefeed
<1>2. below \in Ints /\ below \in Int
  <2>1. mCursorRow + 1 \in Int /\ -(2 * IntMax + 2) <= mCursorRow + 1
        /\ mCursorRow + 1 <= 2 * IntMax + 1
    BY CursorInts, Bounds
  <2>2. QED BY <2>1, WrapIsInt, Bounds
<1>3. InRegion \/ Good => below = mCursorRow + 1
  <2>1. InRegion \/ Good => mCursorRow + 1 \in Int /\ mCursorRow + 1 <= IntMax
                            /\ -(IntMax + 1) <= mCursorRow + 1
    BY CursorInts, Bounds, GoodBounds DEF InRegion
  <2>2. QED BY <2>1, WrapKeeps, Bounds
<1>4. r \in Ints
  BY <1>2, Bounds, CursorInts
<1>5. Good => ~bad /\ 0 <= r /\ r < mRows
  BY <1>2, <1>3, Scrollable, Bounds, GoodBounds DEF AtBottom
<1>6. InRegion => mTopMargin <= r /\ r < mBottomMargin
  BY <1>2, <1>3, Bounds, CursorInts DEF AtBottom, InRegion
<1>7. bad \in BOOLEAN
  BY DEF AtBottom
<1> HIDE DEF below, scrolls, bad, r
<1>8. /\ mDecFlags' \subseteq {"origin", "wrap"} /\ mInsertMode' \in BOOLEAN
      /\ UNCHANGED <<size, margins, emitted, saved>> /\ outside' \in BOOLEAN
  BY <1>1, <1>7 DEF IInv, TypeOK, modes
<1>9. CASE bad
  <2>1. /\ mCursorRow' = mCursorRow /\ mCursorCol' = col /\ mAboutToAutoWrap' = about
    BY <1>1, <1>9
  <2>2. TypeOK'
    BY <1>8, <2>1 DEF IInv, TypeOK, size, margins, emitted, saved
  <2>3. MarginsOnScreen'
    BY <1>8 DEF IInv, MarginsOnScreen, size, margins
  <2>4. RegionKept
    BY <1>8, <2>1 DEF RegionKept, InRegion, margins
  <2>5. QED BY <1>5, <1>9, <2>2, <2>3, <2>4 DEF Clean, Kept, IInv
<1>10. CASE ~bad
  <2>1. SetCursor(r, col)
    BY <1>1, <1>10
  <2>2. Frame
    BY <1>8 DEF Frame
  <2>3. Place(r, col)
    BY <1>4, <1>5 DEF Place
  <2>4. Kept /\ mCursorRow' = r
    BY <2>1, <2>2, <2>3, MoveStep
  <2>5. RegionKept
    BY <1>6, <1>8, <2>4 DEF RegionKept, InRegion, margins
  <2>6. ~outside'
    BY <1>1, <1>10
  <2>7. QED BY <2>4, <2>5, <2>6 DEF Clean
<1>11. QED BY <1>9, <1>10

(* emit() keeps the invariant even if it ends in an exception, and if all  *)
(* is well only a combining character draws outside the screen: every      *)
(* other one is drawn where the cursor is.                                 *)
LEMMA EmitStep ==
  ASSUME IInv, NEW width \in 0..2, emit(width)
  PROVE  Kept /\ (Good /\ outside' => width = 0) /\ RegionKept
<1> DEFINE wraps == /\ "wrap" \in mDecFlags /\ mCursorCol = mColumns - 1
                    /\ mAboutToAutoWrap \/ width = 2
           scrolls == wraps /\ ~(mCursorRow + 1 < mBottomMargin)
           row == IF wraps /\ ~scrolls THEN mCursorRow + 1 ELSE mCursorRow
           col == IF wraps THEN 0 ELSE mCursorCol
           just == wraps \/ mJustWrapped
           last == mLastEmittedCharWidth
           inserts == mInsertMode /\ width # 0 /\ col + width < mColumns
           x == IF width # 0 THEN col ELSE (IF just THEN mColumns ELSE col) - last
           y == IF width = 0 /\ just THEN row - 1 ELSE row
           wrapOK(transcript) ==
             wraps => mCursorRow <= mRows /\ (mCursorRow >= 0 \/ transcript)
           roomOK == scrolls => scrollOK
           insertOK == inserts => blockCopyOK(col, row, mColumns - (col + width), 1,
                                              col + width, row)
           Ok(transcript) ==
             wrapOK(transcript) /\ roomOK /\ insertOK /\ setOK(x, y, transcript)
<1>1. PICK transcript \in BOOLEAN, fault \in BOOLEAN :
        /\ outside' = ~Ok(transcript)
        /\ IF Ok(transcript) /\ ~fault
           THEN /\ mCursorRow' = row
                /\ mCursorCol' = MinOf(col + width, mColumns - 1)
                /\ mAboutToAutoWrap' = IF "wrap" \in mDecFlags THEN col = mColumns - 1
                                                               ELSE mAboutToAutoWrap
                /\ mJustWrapped' = (width = 0 /\ just)
                /\ mLastEmittedCharWidth' = IF width > 0 THEN width ELSE last
           ELSE /\ mCursorRow' = IF wrapOK(transcript) /\ roomOK THEN row ELSE mCursorRow
                /\ mCursorCol' = IF wrapOK(transcript) THEN col ELSE mCursorCol
                /\ mJustWrapped' = IF wrapOK(transcript) THEN just ELSE mJustWrapped
                /\ UNCHANGED <<mAboutToAutoWrap, mLastEmittedCharWidth>>
        /\ UNCHANGED <<size, margins, saved, modes>>
  BY Zenon DEF emit
<1>2. just \in BOOLEAN /\ wraps \in BOOLEAN
  BY DEF IInv, TypeOK
<1>3. row \in Int /\ row \in Ints /\ col \in Int /\ col \in Ints
  BY Bounds, CursorInts
<1>4. MinOf(col + width, mColumns - 1) \in Ints
  BY <1>3, Bounds, CursorInts DEF MinOf
<1>5. Good => /\ 0 <= row /\ row < mRows
              /\ 0 <= col /\ col < mColumns
  BY Bounds, GoodBounds
<1>6. InRegion => mTopMargin <= row /\ row < mBottomMargin
  BY Bounds, CursorInts DEF InRegion
<1>7. Good => wrapOK(transcript) /\ roomOK
  BY Bounds, GoodBounds, Scrollable
<1>8. Good => insertOK
  <2>1. SUFFICES ASSUME Good, inserts
                 PROVE  insertOK
    OBVIOUS
  <2>2. col + width \in Nat /\ width \in Nat /\ col + width < mColumns
    BY <1>3, <1>5, <2>1
  <2>3. mColumns - (col + width) \in Nat /\ 1 \in Nat
    BY <2>2, Bounds
  <2>4. /\ Wrap(col + (mColumns - (col + width))) = col + (mColumns - (col + width))
        /\ Wrap((col + width) + (mColumns - (col + width))) = mColumns
        /\ Wrap(row + 1) = row + 1
    BY <1>3, <1>5, <2>1, <2>2, Bounds, WrapKeeps
  <2>5. QED BY <1>3, <1>5, <2>1, <2>2, <2>3, <2>4, Bounds DEF blockCopyOK, blockSetOK
<1>9. Good /\ width # 0 => setOK(x, y, transcript)
  BY <1>3, <1>5 DEF setOK
<1>10. mLastEmittedCharWidth \in 0..2 /\ mAboutToAutoWrap \in BOOLEAN
       /\ mJustWrapped \in BOOLEAN
  BY DEF IInv, TypeOK
<1>11. Ok(transcript) \in BOOLEAN
  BY DEF setOK, blockCopyOK, blockSetOK
<1> HIDE DEF wraps, scrolls, row, col, just, inserts, x, y, wrapOK, roomOK, insertOK
<1>12. Good /\ outside' => width = 0
  BY <1>1, <1>7, <1>8, <1>9
<1> HIDE DEF Ok
<1>13. outside' \in BOOLEAN
  BY <1>1, <1>11
<1>14. /\ mCursorRow' = row \/ mCursorRow' = mCursorRow
       /\ \/ mCursorCol' = col \/ mCursorCol' = mCursorCol
          \/ mCursorCol' = MinOf(col + width, mColumns - 1)
  BY <1>1
<1>15. /\ mCursorRow' \in Ints /\ mCursorCol' \in Ints
  BY <1>3, <1>4, <1>14, CursorInts
<1>16. mAboutToAutoWrap' \in BOOLEAN /\ mJustWrapped' \in BOOLEAN
  BY <1>1, <1>2, <1>10
<1>17. mLastEmittedCharWidth' \in 0..2
  BY <1>1, <1>10
<1>18. TypeOK'
  BY <1>1, <1>13, <1>15, <1>16, <1>17 DEF IInv, TypeOK, size, margins, saved, modes
<1>19. MarginsOnScreen'
  BY <1>1 DEF IInv, MarginsOnScreen, size, margins
<1>20. Good => OnScreen'
  BY <1>1, <1>3, <1>5, <1>14, Bounds, GoodBounds DEF OnScreen, size, saved, MinOf
<1>21. RegionKept
  BY <1>1, <1>6, <1>14 DEF RegionKept, InRegion, margins
<1>22. QED BY <1>12, <1>18, <1>19, <1>20, <1>21 DEF Kept, IInv
-----------------------------------------------------------------------------
(* The sums of the moves are ints.                                         *)
LEMMA SumIsInt ==
  ASSUME IInv, NEW p \in Ints, NEW n \in Nat, n <= IntMax
  PROVE  /\ Wrap(p + n) \in Ints /\ Wrap(p + n) \in Int
         /\ Wrap(p - n) \in Ints /\ Wrap(p - n) \in Int
         /\ p + n <= IntMax => Wrap(p + n) = p + n
         /\ p >= 0 => Wrap(p - n) = p - n
<1>1. p \in Int /\ -(IntMax + 1) <= p /\ p <= IntMax /\ IntMax \in Nat
  BY CursorInts, Bounds
<1>2. /\ p + n \in Int /\ -(2 * IntMax + 2) <= p + n /\ p + n <= 2 * IntMax + 1
      /\ p - n \in Int /\ -(2 * IntMax + 2) <= p - n /\ p - n <= 2 * IntMax + 1
  BY <1>1
<1>3. p + n <= IntMax => Wrap(p + n) = p + n
  BY <1>1, <1>2, WrapKeeps
<1>4. p >= 0 => Wrap(p - n) = p - n
  BY <1>1, <1>2, WrapKeeps
<1>5. QED BY <1>1, <1>2, <1>3, <1>4, WrapIsInt

(* CSI B, by how far.                                                      *)
LEMMA DownStep ==
  ASSUME IInv, NEW n \in Nat, 1 <= n, n <= IntMax, DownBy(n)
  PROVE  /\ IInv' /\ ~outside'
         /\ mCursorRow + n <= IntMax => Clean /\ RegionKept
<1> DEFINE sum == Wrap(mCursorRow + n)
           r == MinOf(mBottomMargin - 1, sum)
<1>1. sum \in Ints /\ sum \in Int /\ (mCursorRow + n <= IntMax => sum = mCursorRow + n)
  BY SumIsInt, CursorInts
<1>2. Move(r, mCursorCol)
  BY DEF DownBy
<1> HIDE DEF sum
<1>3. r \in Ints /\ r \in Int
  BY <1>1, Bounds, CursorInts DEF MinOf
<1>4. mCursorRow + n <= IntMax /\ Good => 0 <= r /\ r < mRows
  BY <1>1, Bounds, GoodBounds DEF MinOf
<1>5. mCursorRow + n <= IntMax /\ InRegion => mTopMargin <= r /\ r < mBottomMargin
  <2>1. mCursorRow \in Int
    BY CursorInts
  <2>2. QED BY <1>1, <2>1, Bounds DEF MinOf, InRegion
<1> HIDE DEF r
<1>6. SetCursor(r, mCursorCol) /\ outside' = FALSE
      /\ UNCHANGED <<size, margins, emitted, saved, modes>>
  BY <1>2 DEF Move
<1>7. mCursorRow' = r /\ mCursorCol' = mCursorCol /\ mAboutToAutoWrap' = FALSE
  BY <1>6 DEF SetCursor
<1>8. mAboutToAutoWrap' \in BOOLEAN /\ outside' \in BOOLEAN
  BY <1>6, <1>7
<1>9. TypeOK'
  BY <1>3, <1>6, <1>7, <1>8 DEF IInv, TypeOK, size, margins, emitted, saved, modes
<1>10. MarginsOnScreen'
  BY <1>6 DEF IInv, MarginsOnScreen, size, margins
<1>11. mCursorRow + n <= IntMax => (Good => OnScreen')
  BY <1>4, <1>6, <1>7, GoodBounds DEF Good, OnScreen, size, saved
<1>12. mCursorRow + n <= IntMax => RegionKept
  BY <1>5, <1>6, <1>7 DEF RegionKept, InRegion, margins
<1>13. QED BY <1>6, <1>9, <1>10, <1>11, <1>12 DEF Clean, Kept, IInv

(* What a function keeps, and what it keeps besides unless it overflows.   *)
Steps(over) == IInv' /\ (Good => ~outside') /\ (over \/ Kept)
StepsAlong(over) == Steps(over) /\ (over \/ RegionKept)

LEMMA CursorDownStep ==
  ASSUME IInv, CursorDown
  PROVE  StepsAlong(Overflow)
<1>1. PICK a \in Arg : DownBy(getArg(a, 1))
  BY DEF CursorDown
<1> DEFINE n == getArg(a, 1)
<1>2. n \in Nat /\ 1 <= n /\ n <= IntMax /\ (n = 1 \/ n <= MaxArg)
  BY ArgBounds, Bounds
<1>3. DownBy(n)
  BY <1>1
<1> HIDE DEF n
<1>4. IInv' /\ ~outside' /\ (mCursorRow + n <= IntMax => Clean /\ RegionKept)
  BY <1>2, <1>3, DownStep
<1>5. CASE mCursorRow + n <= IntMax
  BY <1>4, <1>5 DEF StepsAlong, Steps, Clean
<1>6. CASE ~(mCursorRow + n <= IntMax)
  <2>1. mCursorRow + n > IntMax /\ n \in Arg
    BY <1>2, <1>6, CursorInts, Bounds, EmulatorAssumption DEF Arg
  <2>2. Overflow
    BY <1>3, <2>1 DEF Overflow
  <2>3. QED BY <1>4, <2>2 DEF StepsAlong, Steps, Clean
<1>7. QED BY <1>5, <1>6

(* Line feeds, reverse line feed and the vertical moves.                   *)
LEMMA AlongLinesStep ==
  ASSUME IInv, AlongLines
  PROVE  StepsAlong(Overflow)
<1>1. CASE Index
  <2>1. mCursorCol \in Ints /\ mAboutToAutoWrap \in BOOLEAN
        /\ (Good => 0 <= mCursorCol /\ mCursorCol < mColumns)
    BY CursorInts, GoodBounds DEF IInv, TypeOK
  <2>2. Clean /\ RegionKept
    BY <1>1, <2>1, LinefeedStep DEF Index
  <2>3. QED BY <2>2 DEF StepsAlong, Steps, Clean, Kept
<1>2. CASE NextLine
  <2>1. 0 \in Ints /\ 0 <= 0 /\ 0 < mColumns /\ FALSE \in BOOLEAN
    BY CursorInts, Bounds
  <2>2. Linefeed(0, FALSE)
    BY <1>2 DEF NextLine
  <2>3. Clean /\ RegionKept
    BY <2>1, <2>2, LinefeedStep
  <2>4. QED BY <2>3 DEF StepsAlong, Steps, Clean, Kept
<1>3. CASE ReverseIndex
  <2>1. CASE mCursorRow <= mTopMargin
    <3> DEFINE ok == /\ blockCopyOK(0, mTopMargin, mColumns,
                                    mBottomMargin - (mTopMargin + 1), 0, mTopMargin + 1)
                     /\ blockSetOK(0, mTopMargin, mColumns, 1)
    <3>1. Draw(ok)
      BY <1>3, <2>1 DEF ReverseIndex
    <3>2. Good => ok
      BY Bounds, GoodBounds DEF blockCopyOK, blockSetOK, Wrap
    <3>3. ok \in BOOLEAN
      BY DEF blockCopyOK, blockSetOK
    <3> HIDE DEF ok
    <3>4. Clean /\ mCursorRow' = mCursorRow /\ UNCHANGED margins
      BY <3>1, <3>2, <3>3, DrawStep DEF Clean
    <3>5. QED BY <3>4 DEF StepsAlong, Steps, Clean, Kept, RegionKept, InRegion, margins
  <2>2. CASE ~(mCursorRow <= mTopMargin)
    <3>1. /\ mCursorRow' = mCursorRow - 1 /\ outside' = FALSE
          /\ UNCHANGED <<size, margins, mCursorCol, mAboutToAutoWrap, emitted, saved, modes>>
      BY <1>3, <2>2 DEF ReverseIndex
    <3>2. mCursorRow - 1 \in Ints
      BY <2>2, Bounds, CursorInts
    <3>3. outside' \in BOOLEAN /\ mCursorRow' \in Ints
      BY <3>1, <3>2
    <3>4. TypeOK'
      BY <3>1, <3>3 DEF IInv, TypeOK, size, margins, emitted, saved, modes
    <3>5. MarginsOnScreen'
      BY <3>1 DEF IInv, MarginsOnScreen, size, margins
    <3>6. Good => OnScreen'
      BY <2>2, <3>1, Bounds, GoodBounds DEF Good, OnScreen, size, saved
    <3>7. RegionKept
      BY <2>2, <3>1, Bounds, CursorInts DEF RegionKept, InRegion, margins
    <3>8. QED BY <3>1, <3>4, <3>5, <3>6, <3>7 DEF StepsAlong, Steps, Kept, IInv
  <2>3. QED BY <2>1, <2>2, Bounds, CursorInts
<1>4. CASE CursorUp
  <2>1. PICK a \in Arg :
          Move(MaxOf(mTopMargin, Wrap(mCursorRow - getArg(a, 1))), mCursorCol)
    BY <1>4 DEF CursorUp
  <2> DEFINE n == getArg(a, 1)
             diff == Wrap(mCursorRow - n)
             r == MaxOf(mTopMargin, diff)
  <2>2. n \in Nat /\ 1 <= n /\ n <= IntMax
    BY ArgBounds, Bounds
  <2>3. Move(r, mCursorCol)
    BY <2>1
  <2> HIDE DEF n
  <2>4. diff \in Ints /\ diff \in Int
        /\ (mCursorRow >= 0 => diff = mCursorRow - n)
    BY <2>2, SumIsInt, CursorInts
  <2> HIDE DEF diff
  <2>5. r \in Ints /\ (Good => 0 <= r /\ r < mRows)
        /\ (InRegion => mTopMargin <= r /\ r < mBottomMargin)
    <3>1. mCursorRow \in Int
      BY CursorInts
    <3>2. r \in Ints
      BY <2>4, Bounds, CursorInts DEF MaxOf
    <3>3. Good => 0 <= r /\ r < mRows
      BY <2>2, <2>4, Bounds, GoodBounds DEF MaxOf
    <3>4. InRegion => mTopMargin <= r /\ r < mBottomMargin
      BY <2>2, <2>4, <3>1, Bounds DEF MaxOf, InRegion
    <3>5. QED BY <3>2, <3>3, <3>4
  <2> HIDE DEF r
  <2>6. Place(r, mCursorCol)
    BY <2>5, CursorInts, GoodBounds DEF Place
  <2>7. Clean /\ mCursorRow' = r /\ UNCHANGED margins
    BY <2>3, <2>6, MovesStep
  <2>8. QED BY <2>5, <2>7 DEF StepsAlong, Steps, Clean, Kept, RegionKept, InRegion, margins
<1>5. CASE CursorDown
  BY <1>5, CursorDownStep
<1>6. QED BY <1>1, <1>2, <1>3, <1>4, <1>5 DEF AlongLines

(* The same, and the characters, which may be combining ones.              *)
LEMMA AlongStep ==
  ASSUME IInv, Along
  PROVE  IInv' /\ (Overflow \/ (Kept /\ RegionKept))
<1>1. CASE Character
  <2>1. PICK width \in 0..2 : emit(width)
    BY <1>1 DEF Character
  <2>2. QED BY <2>1, EmitStep DEF Kept
<1>2. CASE AlongLines
  BY <1>2, AlongLinesStep DEF StepsAlong, Steps
<1>3. QED BY <1>1, <1>2 DEF Along
-----------------------------------------------------------------------------
(* CSI C, by how far.                                                      *)
LEMMA RightStep ==
  ASSUME IInv, NEW n \in Nat, 1 <= n, n <= IntMax, RightBy(n)
  PROVE  /\ IInv' /\ ~outside'
         /\ mCursorCol + n <= IntMax => Kept
<1> DEFINE sum == Wrap(mCursorCol + n)
           c == MinOf(mColumns - 1, sum)
<1>1. sum \in Ints /\ sum \in Int /\ (mCursorCol + n <= IntMax => sum = mCursorCol + n)
  BY SumIsInt, CursorInts
<1>2. Move(mCursorRow, c)
  BY DEF RightBy
<1> HIDE DEF sum
<1>3. c \in Ints
  BY <1>1, Bounds, CursorInts DEF MinOf
<1>4. mCursorCol + n <= IntMax /\ Good => 0 <= c /\ c < mColumns
  BY <1>1, Bounds, GoodBounds DEF MinOf
<1> HIDE DEF c
<1>5. SetCursor(mCursorRow, c) /\ outside' = FALSE
      /\ UNCHANGED <<size, margins, emitted, saved, modes>>
  BY <1>2 DEF Move
<1>6. mCursorRow' = mCursorRow /\ mCursorCol' = c /\ mAboutToAutoWrap' = FALSE
  BY <1>5 DEF SetCursor
<1>7. mAboutToAutoWrap' \in BOOLEAN /\ outside' \in BOOLEAN
  BY <1>5, <1>6
<1>8. TypeOK'
  BY <1>3, <1>5, <1>6, <1>7 DEF IInv, TypeOK, size, margins, emitted, saved, modes
<1>9. MarginsOnScreen'
  BY <1>5 DEF IInv, MarginsOnScreen, size, margins
<1>10. mCursorCol + n <= IntMax => (Good => OnScreen')
  BY <1>4, <1>5, <1>6, GoodBounds DEF Good, OnScreen, size, saved
<1>11. QED BY <1>5, <1>8, <1>9, <1>10 DEF Kept, IInv

LEMMA CursorRightStep ==
  ASSUME IInv, CursorRight
  PROVE  Steps(Overflow)
<1>1. PICK a \in Arg : RightBy(getArg(a, 1))
  BY DEF CursorRight
<1> DEFINE n == getArg(a, 1)
<1>2. n \in Nat /\ 1 <= n /\ n <= IntMax /\ (n = 1 \/ n <= MaxArg)
  BY ArgBounds, Bounds
<1>3. RightBy(n)
  BY <1>1
<1> HIDE DEF n
<1>4. IInv' /\ ~outside' /\ (mCursorCol + n <= IntMax => Kept)
  BY <1>2, <1>3, RightStep
<1>5. CASE mCursorCol + n <= IntMax
  BY <1>4, <1>5 DEF Steps
<1>6. CASE ~(mCursorCol + n <= IntMax)
  <2>1. mCursorCol + n > IntMax /\ n \in Arg
    BY <1>2, <1>6, CursorInts, Bounds, EmulatorAssumption DEF Arg
  <2>2. Overflow
    BY <1>3, <2>1 DEF Overflow
  <2>3. QED BY <1>4, <2>2 DEF Steps
<1>7. QED BY <1>5, <1>6

(* A move inside the row.                                                  *)
LEMMA ColumnStep ==
  ASSUME IInv, NEW c \in Ints, Good => 0 <= c /\ c < mColumns, Move(mCursorRow, c)
  PROVE  Steps(FALSE)
<1>1. Place(mCursorRow, c)
  BY CursorInts, GoodBounds DEF Place
<1>2. QED BY <1>1, MovesStep DEF Steps, Clean, Kept

(* A tab that is looked for outside the tab stops.                         *)
LEMMA TabFails ==
  ASSUME IInv, ~Good, Draw(FALSE)
  PROVE  Steps(FALSE)
BY DrawStep DEF Steps, Kept

(* The functions that stay in their row.                                   *)
LEMMA ToColumnStep ==
  ASSUME IInv, ToColumn
  PROVE  Steps(Overflow)
<1>0. Steps(FALSE) => Steps(Overflow)
  BY DEF Steps
<1>1. mCursorCol \in Int /\ -(IntMax + 1) <= mCursorCol /\ mCursorCol <= IntMax
  BY CursorInts
<1>2. ASSUME NEW c \in Int, 0 <= c, c < mColumns
      PROVE  c \in Ints
  BY <1>2, CursorInts, Bounds
<1>3. ASSUME NEW n \in Nat, 1 <= n, n <= IntMax,
             Move(mCursorRow, MaxOf(0, Wrap(mCursorCol - n)))
      PROVE  Steps(FALSE)
  <2> DEFINE diff == Wrap(mCursorCol - n)
             c == MaxOf(0, diff)
  <2>1. diff \in Ints /\ diff \in Int /\ (mCursorCol >= 0 => diff = mCursorCol - n)
    BY <1>3, SumIsInt, CursorInts
  <2>2. Move(mCursorRow, c)
    BY <1>3
  <2> HIDE DEF diff
  <2>3. c \in Ints /\ (Good => 0 <= c /\ c < mColumns)
    BY <1>3, <2>1, Bounds, GoodBounds, CursorInts DEF MaxOf
  <2> HIDE DEF c
  <2>4. QED BY <2>2, <2>3, ColumnStep
<1>4. CASE BackSpace
  <2>1. 1 \in Nat /\ 1 <= 1 /\ 1 <= IntMax
    BY Bounds
  <2>2. QED BY <1>0, <1>3, <1>4, <2>1 DEF BackSpace
<1>5. CASE Tab
  <2>1. CASE Wrap(mCursorCol + 1) < 0
    <3>1. ~Good
      BY <2>1, WrapKeeps, Bounds, GoodBounds
    <3>2. QED BY <1>0, <1>5, <2>1, <3>1, TabFails DEF Tab
  <2>2. CASE ~(Wrap(mCursorCol + 1) < 0)
    <3>1. PICK c \in 0..(mColumns - 1) : Move(mCursorRow, c)
      BY <1>5, <2>2 DEF Tab
    <3>2. c \in Int /\ 0 <= c /\ c < mColumns
      BY Bounds
    <3>3. QED BY <1>0, <1>2, <3>1, <3>2, ColumnStep
  <2>3. QED BY <2>1, <2>2
<1>6. CASE BackTab
  <2>1. CASE Wrap(mCursorCol - 1) >= mColumns
    <3>1. ~Good
      BY <2>1, WrapKeeps, Bounds, GoodBounds
    <3>2. QED BY <1>0, <1>6, <2>1, <3>1, TabFails DEF BackTab
  <2>2. CASE ~(Wrap(mCursorCol - 1) >= mColumns)
    <3>1. PICK c \in 0..(mColumns - 1) : Move(mCursorRow, c)
      BY <1>6, <2>2 DEF BackTab
    <3>2. c \in Int /\ 0 <= c /\ c < mColumns
      BY Bounds
    <3>3. QED BY <1>0, <1>2, <3>1, <3>2, ColumnStep
  <2>3. QED BY <2>1, <2>2
<1>7. CASE CarriageReturn
  <2>1. 0 \in Ints /\ 0 <= 0 /\ 0 < mColumns
    BY CursorInts, Bounds
  <2>2. QED BY <1>0, <1>7, <2>1, ColumnStep DEF CarriageReturn
<1>8. CASE CursorRight
  BY <1>8, CursorRightStep
<1>9. CASE CursorLeft
  <2>1. PICK a \in Arg : Move(mCursorRow, MaxOf(0, Wrap(mCursorCol - getArg(a, 1))))
    BY <1>9 DEF CursorLeft
  <2>2. getArg(a, 1) \in Nat /\ 1 <= getArg(a, 1) /\ getArg(a, 1) <= IntMax
    BY ArgBounds, Bounds
  <2>3. QED BY <1>0, <1>3, <2>1, <2>2
<1>10. CASE CursorColumn
  <2>1. PICK a \in Arg : Move(mCursorRow, MinOf(MaxOf(1, getArg(a, 1)), mColumns) - 1)
    BY <1>10 DEF CursorColumn
  <2> DEFINE c == MinOf(MaxOf(1, getArg(a, 1)), mColumns) - 1
  <2>2. getArg(a, 1) \in Nat
    BY ArgBounds
  <2>3. c \in Int /\ 0 <= c /\ c < mColumns
    BY <2>2, Bounds DEF MaxOf, MinOf
  <2>4. Move(mCursorRow, c)
    BY <2>1
  <2> HIDE DEF c
  <2>5. QED BY <1>0, <1>2, <2>3, <2>4, ColumnStep
<1>11. QED BY <1>4, <1>5, <1>6, <1>7, <1>8, <1>9, <1>10 DEF ToColumn

(* Absolute moves, and the saved cursor, which may be off the screen.      *)
LEMMA ToPositionStep ==
  ASSUME IInv, ToPosition
  PROVE  Clean
<1>0. /\ mDecFlags \subseteq {"origin", "wrap"} /\ mInsertMode \in BOOLEAN
      /\ mSavedDecFlags_DECSC_DECRC \subseteq {"origin", "wrap"}
  BY DEF IInv, TypeOK
<1>1. ASSUME outside' = FALSE, UNCHANGED <<size, margins, emitted, saved, modes>>
      PROVE  Frame
  BY <1>0, <1>1 DEF Frame, modes
<1>2. CASE CursorLine
  <2>1. PICK a \in Arg : Move(MinOf(MaxOf(1, getArg(a, 1)), mRows) - 1, mCursorCol)
    BY <1>2 DEF CursorLine
  <2> DEFINE r == MinOf(MaxOf(1, getArg(a, 1)), mRows) - 1
  <2>2. getArg(a, 1) \in Nat
    BY ArgBounds
  <2>3. r \in Int /\ 0 <= r /\ r < mRows
    BY <2>2, Bounds DEF MaxOf, MinOf
  <2>4. Move(r, mCursorCol)
    BY <2>1
  <2> HIDE DEF r
  <2>5. Place(r, mCursorCol)
    BY <2>3, CursorInts, Bounds, GoodBounds DEF Place
  <2>6. QED BY <2>4, <2>5, MovesStep
<1>3. CASE setHorizontalVerticalPosition
  <2>1. PICK a \in Arg, b \in Arg :
          /\ setCursorPosition(getArg(b, 1) - 1, getArg(a, 1) - 1, mDecFlags)
          /\ outside' = FALSE
          /\ UNCHANGED <<size, margins, emitted, saved, modes>>
    BY <1>3 DEF setHorizontalVerticalPosition
  <2>2. /\ getArg(a, 1) - 1 \in Nat /\ getArg(b, 1) - 1 \in Nat
        /\ getArg(a, 1) - 1 <= IntMax /\ getArg(b, 1) - 1 <= IntMax
    BY ArgBounds, Bounds
  <2>3. Frame
    BY <1>1, <2>1
  <2>4. Kept
    BY <2>1, <2>2, <2>3, PositionStep
  <2>5. QED BY <2>1, <2>4 DEF Clean
<1>4. CASE LowerLeft
  <2>1. /\ setCursorRowCol(0, mBottomMargin - 1)
        /\ outside' = FALSE
        /\ UNCHANGED <<size, margins, emitted, saved, modes>>
    BY <1>4 DEF LowerLeft
  <2>2. 0 \in Ints /\ mBottomMargin - 1 \in Ints /\ 0 <= 0 /\ 0 <= mBottomMargin - 1
    BY Bounds, CursorInts
  <2>3. Frame
    BY <1>1, <2>1
  <2>4. Kept
    BY <2>1, <2>2, <2>3, LimitStep
  <2>5. QED BY <2>1, <2>4 DEF Clean
<1>5. CASE SaveCursor
  <2>1. /\ mSavedCursorRow' = mCursorRow /\ mSavedCursorCol' = mCursorCol
        /\ outside' = FALSE /\ UNCHANGED <<size, margins, cursor, emitted, modes>>
    BY <1>5 DEF SaveCursor
  <2>2. mSavedDecFlags_DECSC_DECRC' \subseteq {"origin", "wrap"} /\ outside' \in BOOLEAN
    BY <1>0, <1>5 DEF SaveCursor
  <2>3. mSavedCursorRow' \in Ints /\ mSavedCursorCol' \in Ints
    BY <2>1, CursorInts
  <2>4. TypeOK'
    BY <2>1, <2>2, <2>3 DEF IInv, TypeOK, size, margins, cursor, emitted, modes
  <2>5. MarginsOnScreen'
    BY <2>1 DEF IInv, MarginsOnScreen, size, margins
  <2>6. Good => OnScreen'
    BY <2>1 DEF Good, OnScreen, size, cursor
  <2>7. QED BY <2>1, <2>4, <2>5, <2>6 DEF Clean, Kept, IInv
<1>6. CASE RestoreCursor
  <2>1. /\ setCursorRowCol(mSavedCursorRow, mSavedCursorCol)
        /\ mDecFlags' = mSavedDecFlags_DECSC_DECRC
        /\ outside' = FALSE
        /\ UNCHANGED <<size, margins, emitted, saved>> /\ UNCHANGED mInsertMode
    BY <1>6 DEF RestoreCursor
  <2>2. Frame
    BY <1>0, <2>1 DEF Frame
  <2>3. Good => 0 <= mSavedCursorRow /\ 0 <= mSavedCursorCol
    BY GoodBounds
  <2>4. Kept
    BY <2>1, <2>2, <2>3, CursorInts, LimitStep
  <2>5. QED BY <2>1, <2>4 DEF Clean
<1>7. QED BY <1>2, <1>3, <1>4, <1>5, <1>6 DEF ToPosition
-----------------------------------------------------------------------------
(* Blocks on the screen are checked without a sum that wraps.              *)
LEMMA BooleanDraws ==
  /\ \A sx, sy, w, h : blockSetOK(sx, sy, w, h) \in BOOLEAN
  /\ \A sx, sy, w, h, dx, dy : blockCopyOK(sx, sy, w, h, dx, dy) \in BOOLEAN
BY DEF blockSetOK, blockCopyOK

(* CSI P, by how many characters: the copy to the left of the cursor.      *)
LEMMA DeleteStep ==
  ASSUME IInv, NEW n \in Int, 1 <= n, Good => n <= mColumns - mCursorCol, DeleteUpTo(n)
  PROVE  Kept /\ (Good /\ mCursorCol + n < mColumns => ~outside')
<1> DEFINE move == mColumns - mCursorCol - n
           Ok(wide) ==
             /\ blockCopyOK(mCursorCol + n, mCursorRow, move, 1, mCursorCol, mCursorRow)
             /\ wide => mCursorCol + n < mColumns
             /\ blockSetOK(mCursorCol + move, mCursorRow, n, 1)
<1>1. PICK wide \in BOOLEAN : Draw(Ok(wide))
  BY DEF DeleteUpTo
<1>2. Ok(wide) \in BOOLEAN
  BY BooleanDraws
<1>3. Good => /\ blockCopyOK(mCursorCol + n, mCursorRow, move, 1, mCursorCol, mCursorRow)
              /\ blockSetOK(mCursorCol + move, mCursorRow, n, 1)
  <2>1. SUFFICES ASSUME Good
                 PROVE  /\ blockSetOK(mCursorCol + n, mCursorRow, move, 1)
                        /\ blockSetOK(mCursorCol, mCursorRow, move, 1)
                        /\ blockSetOK(mCursorCol + move, mCursorRow, n, 1)
                        /\ move >= 0
    BY DEF blockCopyOK
  <2>2. /\ move \in Nat /\ 1 \in Int /\ mCursorCol + n \in Nat /\ mCursorCol + move \in Nat
        /\ mCursorCol \in Nat /\ mCursorRow \in Nat /\ mCursorRow + 1 <= mRows
        /\ 0 <= mCursorRow + 1
        /\ mCursorCol + n + move = mColumns /\ mCursorCol + move + n = mColumns
        /\ mCursorCol + move <= mColumns /\ 0 <= mColumns
    BY <2>1, Bounds, GoodBounds
  <2> HIDE DEF move
  <2>3. blockSetOK(mCursorCol + n, mCursorRow, move, 1)
    BY <2>2, Bounds DEF blockSetOK, Wrap
  <2>4. blockSetOK(mCursorCol, mCursorRow, move, 1)
    BY <2>2, Bounds DEF blockSetOK, Wrap
  <2>5. blockSetOK(mCursorCol + move, mCursorRow, n, 1)
    BY <2>2, Bounds DEF blockSetOK, Wrap
  <2>6. QED BY <2>2, <2>3, <2>4, <2>5
<1>4. Good /\ mCursorCol + n < mColumns => Ok(wide)
  BY <1>3
<1> HIDE DEF Ok
<1>5. QED BY <1>1, <1>2, <1>4, DrawStep

LEMMA DeleteCharsStep ==
  ASSUME IInv, DeleteChars
  PROVE  Kept
<1>1. PICK a \in Arg : DeleteUpTo(CharsAffected(a))
  BY DEF DeleteChars
<1> DEFINE n == CharsAffected(a)
<1>2. n \in Int /\ (Good => n <= mColumns - mCursorCol)
  BY ArgBounds, Bounds, CursorInts, GoodBounds DEF CharsAffected, MinOf
<1>3. CASE 1 <= n
  BY <1>1, <1>2, <1>3, DeleteStep
<1>4. PICK ok \in BOOLEAN : Draw(ok)
  BY <1>1, BooleanDraws DEF DeleteUpTo
<1>5. QED BY <1>4, DrawStep

(* The functions that only draw: all of them on the screen.                *)
LEMMA EditAroundStep ==
  ASSUME IInv, EditAround
  PROVE  Clean
<1>1. ASSUME Good
      PROVE  /\ mCursorCol \in Nat /\ mCursorCol < mColumns
             /\ mCursorRow \in Nat /\ mCursorRow < mRows /\ mBottomMargin <= mRows
             /\ mRows \in Nat /\ mColumns \in Nat /\ mBottomMargin \in Nat
             /\ mRows < IntMax /\ mColumns < IntMax
  BY <1>1, Bounds, GoodBounds
<1>2. CASE AlignmentTest
  <2>1. blockSetOK(0, 0, mColumns, mRows)
    BY Bounds DEF blockSetOK, Wrap
  <2>2. QED BY <1>2, <2>1, BooleanDraws, DrawnStep DEF AlignmentTest
<1>3. CASE SetTabStop
  <2>1. Good => (mCursorCol >= 0 /\ mCursorCol < mColumns)
    BY <1>1
  <2>2. (mCursorCol >= 0 /\ mCursorCol < mColumns) \in BOOLEAN
    OBVIOUS
  <2>3. QED BY <1>3, <2>1, <2>2, DrawnStep DEF SetTabStop
<1>4. ASSUME Good
      PROVE  Wrap(mCursorCol + 1) = mCursorCol + 1
  <2>1. mCursorCol + 1 \in Int /\ mCursorCol + 1 <= IntMax /\ -(IntMax + 1) <= mCursorCol + 1
        /\ IntMax \in Nat
    BY <1>1, <1>4, Bounds
  <2>2. QED BY <2>1, WrapKeeps
<1>5. CASE EraseInDisplay
  <2> DEFINE below == /\ blockSetOK(mCursorCol, mCursorRow, mColumns - mCursorCol, 1)
                      /\ blockSetOK(0, mCursorRow + 1, mColumns, mRows - (mCursorRow + 1))
             above == /\ blockSetOK(0, 0, mColumns, mCursorRow)
                      /\ blockSetOK(0, mCursorRow, Wrap(mCursorCol + 1), 1)
             all == blockSetOK(0, 0, mColumns, mRows)
  <2>1. Good => below
    BY <1>1, Bounds DEF blockSetOK, Wrap
  <2>2. Good => above
    BY <1>1, <1>4, Bounds DEF blockSetOK, Wrap
  <2>3. all
    BY Bounds DEF blockSetOK, Wrap
  <2>4. below \in BOOLEAN /\ above \in BOOLEAN /\ all \in BOOLEAN
    BY BooleanDraws
  <2>5. Draw(below) \/ Draw(above) \/ Draw(all)
    BY <1>5 DEF EraseInDisplay
  <2> HIDE DEF below, above, all
  <2>6. QED BY <2>1, <2>2, <2>3, <2>4, <2>5, DrawnStep
<1>6. CASE EraseInLine
  <2> DEFINE right == blockSetOK(mCursorCol, mCursorRow, mColumns - mCursorCol, 1)
             left == blockSetOK(0, mCursorRow, Wrap(mCursorCol + 1), 1)
             line == blockSetOK(0, mCursorRow, mColumns, 1)
  <2>1. Good => right
    BY <1>1, Bounds DEF blockSetOK, Wrap
  <2>2. Good => left
    BY <1>1, <1>4, Bounds DEF blockSetOK, Wrap
  <2>3. Good => line
    BY <1>1, Bounds DEF blockSetOK, Wrap
  <2>4. right \in BOOLEAN /\ left \in BOOLEAN /\ line \in BOOLEAN
    BY BooleanDraws
  <2>5. Draw(right) \/ Draw(left) \/ Draw(line)
    BY <1>6 DEF EraseInLine
  <2> HIDE DEF right, left, line
  <2>6. QED BY <2>1, <2>2, <2>3, <2>4, <2>5, DrawnStep
<1>7. CASE InsertChars
  <2>1. PICK a \in Arg :
          LET n == CharsAffected(a)
              move == mColumns - mCursorCol - n
          IN  Draw(/\ blockCopyOK(mCursorCol, mCursorRow, move, 1, mCursorCol + n, mCursorRow)
                   /\ blockSetOK(mCursorCol, mCursorRow, n, 1))
    BY <1>7 DEF InsertChars
  <2> DEFINE n == CharsAffected(a)
             move == mColumns - mCursorCol - n
             ok == /\ blockCopyOK(mCursorCol, mCursorRow, move, 1, mCursorCol + n, mCursorRow)
                   /\ blockSetOK(mCursorCol, mCursorRow, n, 1)
  <2>2. Draw(ok)
    BY <2>1
  <2>3. ok \in BOOLEAN
    BY BooleanDraws
  <2>4. ASSUME Good
        PROVE  n \in Nat /\ 1 <= n /\ n <= mColumns - mCursorCol
    BY <1>1, <2>4, ArgBounds DEF CharsAffected, MinOf
  <2> HIDE DEF n
  <2>5. ASSUME Good
        PROVE  ok
    <3>1. /\ move \in Nat /\ n \in Nat /\ mCursorCol + n \in Nat
          /\ mCursorCol + n + move = mColumns
          /\ mCursorCol + move <= mColumns /\ mCursorCol + n <= mColumns
      BY <1>1, <2>4, <2>5
    <3> HIDE DEF move
    <3>2. /\ blockSetOK(mCursorCol, mCursorRow, move, 1)
          /\ blockSetOK(mCursorCol + n, mCursorRow, move, 1)
          /\ blockSetOK(mCursorCol, mCursorRow, n, 1)
      BY <1>1, <2>5, <3>1, Bounds DEF blockSetOK, Wrap
    <3>3. QED BY <3>1, <3>2 DEF blockCopyOK
  <2> HIDE DEF ok
  <2>6. QED BY <2>2, <2>3, <2>5, DrawnStep
<1>8. ASSUME Good, NEW a \in Arg
      PROVE  /\ LinesAffected(a) \in Int
             /\ LinesAffected(a) <= mBottomMargin - mCursorRow
             /\ LinesAffected(a) = mBottomMargin - mCursorRow \/ LinesAffected(a) >= 1
  BY <1>1, <1>8, ArgBounds DEF LinesAffected, MinOf
<1>9. ASSUME Good, NEW n \in Int, n <= mBottomMargin - mCursorRow,
             n = mBottomMargin - mCursorRow \/ n >= 1,
             NEW move \in Int, move = mBottomMargin - mCursorRow - n
      PROVE  /\ blockSetOK(0, mCursorRow, mColumns, move)
             /\ blockSetOK(0, mCursorRow + n, mColumns, move)
             /\ blockSetOK(0, mCursorRow, mColumns, n)
             /\ blockSetOK(0, mCursorRow + move, mColumns, n)
  <2>1. /\ 0 \in Nat /\ 0 + mColumns <= mColumns /\ 0 <= 0 + mColumns
        /\ mCursorRow + n \in Nat /\ mCursorRow + move \in Nat
        /\ mCursorRow + n <= mRows
        /\ mCursorRow + move <= mRows
        /\ mCursorRow + n + move = mBottomMargin
        /\ mCursorRow + move + n = mBottomMargin
    BY <1>1, <1>9, Bounds
  <2>2. /\ IntMax \in Nat /\ 0 + mColumns = mColumns
        /\ mRows < IntMax /\ mColumns < IntMax /\ mBottomMargin <= mRows
        /\ mColumns \in Nat /\ mRows \in Nat /\ mBottomMargin \in Nat
        /\ mCursorRow \in Nat
    BY <1>1, <1>9, Bounds
  <2>3. Wrap(0 + mColumns) = mColumns
    BY <2>2 DEF Wrap
  <2>4. Wrap(mCursorRow + n) = mCursorRow + n
    BY <2>2, <2>1 DEF Wrap
  <2>5. Wrap(mCursorRow + move) = mCursorRow + move
    BY <2>2, <2>1 DEF Wrap
  <2>6. Wrap(mCursorRow + n + move) = mBottomMargin
    BY <2>2, <2>1 DEF Wrap
  <2>7. Wrap(mCursorRow + move + n) = mBottomMargin
    BY <2>2, <2>1 DEF Wrap
  <2>8. blockSetOK(0, mCursorRow, mColumns, move)
    BY <1>9, <2>1, <2>2, <2>3, <2>5 DEF blockSetOK
  <2>9. blockSetOK(0, mCursorRow + n, mColumns, move)
    BY <1>9, <2>1, <2>2, <2>3, <2>6 DEF blockSetOK
  <2>10. blockSetOK(0, mCursorRow, mColumns, n)
    BY <1>9, <2>1, <2>2, <2>3, <2>4 DEF blockSetOK
  <2>11. blockSetOK(0, mCursorRow + move, mColumns, n)
    BY <1>9, <2>1, <2>2, <2>3, <2>7 DEF blockSetOK
  <2>12. QED BY <2>8, <2>9, <2>10, <2>11
<1>10. CASE InsertLines
  <2>1. PICK a \in Arg :
          LET n == LinesAffected(a)
              move == mBottomMargin - mCursorRow - n
          IN  Draw(/\ blockCopyOK(0, mCursorRow, mColumns, move, 0, mCursorRow + n)
                   /\ blockSetOK(0, mCursorRow, mColumns, n))
    BY <1>10 DEF InsertLines
  <2> DEFINE n == LinesAffected(a)
             move == mBottomMargin - mCursorRow - n
             ok == /\ blockCopyOK(0, mCursorRow, mColumns, move, 0, mCursorRow + n)
                   /\ blockSetOK(0, mCursorRow, mColumns, n)
  <2>2. Draw(ok)
    BY <2>1
  <2>3. ok \in BOOLEAN
    BY BooleanDraws
  <2>4. Good => ok
    BY <1>1, <1>8, <1>9 DEF blockCopyOK
  <2> HIDE DEF ok
  <2>5. QED BY <2>2, <2>3, <2>4, DrawnStep
<1>11. CASE DeleteLines
  <2>1. PICK a \in Arg :
          LET n == LinesAffected(a)
              move == mBottomMargin - mCursorRow - n
          IN  Draw(/\ blockCopyOK(0, mCursorRow + n, mColumns, move, 0, mCursorRow)
                   /\ blockSetOK(0, mCursorRow + move, mColumns, n))
    BY <1>11 DEF DeleteLines
  <2> DEFINE n == LinesAffected(a)
             move == mBottomMargin - mCursorRow - n
             ok == /\ blockCopyOK(0, mCursorRow + n, mColumns, move, 0, mCursorRow)
                   /\ blockSetOK(0, mCursorRow + move, mColumns, n)
  <2>2. Draw(ok)
    BY <2>1
  <2>3. ok \in BOOLEAN
    BY BooleanDraws
  <2>4. Good => ok
    BY <1>1, <1>8, <1>9 DEF blockCopyOK
  <2> HIDE DEF ok
  <2>5. QED BY <2>2, <2>3, <2>4, DrawnStep
<1>12. QED BY <1>2, <1>3, <1>5, <1>6, <1>7, <1>10, <1>11 DEF EditAround

(* CSI X and CSI P may throw, but change nothing else.                     *)
LEMMA EditStep ==
  ASSUME IInv, Edit
  PROVE  Kept
<1>1. CASE EraseChars
  <2>1. PICK a \in Arg : Draw(blockSetOK(mCursorCol, mCursorRow, getArg(a, 0), 1))
    BY <1>1 DEF EraseChars
  <2>2. QED BY <2>1, BooleanDraws, DrawStep
<1>2. QED BY <1>1, DeleteCharsStep, EditAroundStep DEF Edit, Clean
-----------------------------------------------------------------------------
(* The screen is cleared without an exception.                             *)
LEMMA ScreenClears ==
  ASSUME IInv
  PROVE  blockSetOK(0, 0, mColumns, mRows)
<1>1. Wrap(0 + mColumns) = mColumns /\ Wrap(0 + mRows) = mRows
  BY Bounds DEF Wrap
<1>2. QED BY <1>1, Bounds DEF blockSetOK

(* CSI r, for the margins and the modes: the cursor goes to the top margin, *)
(* and only a screen of one row gets a bottom margin below it.              *)
LEMMA SetMarginsStep ==
  ASSUME IInv, SetMargins
  PROVE  Clean
<1>1. PICK a \in Arg, b \in Arg :
        LET top == TopMargin(a)
            bottom == MaxOf(top + 2, MinOf(getArg(b, mRows), mRows))
        IN  /\ mTopMargin' = top /\ mBottomMargin' = bottom
            /\ setCursorRowCol(top, 0)
            /\ outside' = FALSE
            /\ UNCHANGED <<size, emitted, saved, modes>>
  BY DEF SetMargins
<1> DEFINE top == TopMargin(a)
           bottom == MaxOf(top + 2, MinOf(getArg(b, mRows), mRows))
<1>2. getArg(a, 1) \in Nat /\ 1 <= getArg(a, 1) /\ getArg(b, mRows) \in Nat
  BY ArgBounds, Bounds
<1>3. top \in Nat /\ (top <= mRows - 2 \/ (mRows = 1 /\ top = 0))
  BY <1>2, Bounds DEF TopMargin, MaxOf, MinOf
<1>4. /\ mTopMargin' = top /\ mBottomMargin' = bottom
      /\ setCursorRowCol(top, 0)
      /\ outside' = FALSE
      /\ UNCHANGED <<size, emitted, saved, modes>>
  BY <1>1
<1> HIDE DEF top
<1>5. bottom \in Nat /\ top + 2 <= bottom
      /\ (bottom <= mRows \/ (mRows = 1 /\ top = 0 /\ bottom = 2))
  BY <1>2, <1>3, Bounds DEF MaxOf, MinOf
<1> HIDE DEF bottom
<1>6. mTopMargin' \in Ints /\ mBottomMargin' \in Ints
  <2>1. top <= IntMax /\ bottom <= IntMax
    BY <1>3, <1>5, Bounds, EmulatorAssumption
  <2>2. QED BY <1>3, <1>4, <1>5, <2>1, CursorInts, Bounds
<1>7. MarginsOnScreen'
  BY <1>3, <1>4, <1>5 DEF MarginsOnScreen, size
<1>8. /\ mCursorRow' \in Int /\ 0 <= mCursorRow' /\ mCursorRow' < mRows
      /\ mCursorCol' \in Int /\ 0 <= mCursorCol' /\ mCursorCol' < mColumns
  BY <1>3, <1>4, Bounds DEF setCursorRowCol, SetCursor, LimitRow, MinOf
<1>9. mCursorRow' \in Ints /\ mCursorCol' \in Ints
  BY <1>8, CursorInts, Bounds
<1>10. mAboutToAutoWrap' \in BOOLEAN
  BY <1>4, Zenon DEF setCursorRowCol, SetCursor
<1>11. outside' \in BOOLEAN
  BY <1>4
<1>12. TypeOK'
  BY <1>4, <1>6, <1>9, <1>10, <1>11 DEF IInv, TypeOK, size, emitted, saved, modes
<1>13. Good => OnScreen'
  BY <1>4, <1>8 DEF Good, OnScreen, size, saved
<1>14. QED BY <1>4, <1>7, <1>12, <1>13 DEF Clean, Kept, IInv

(* The modes: 132 columns and origin mode home the cursor.                 *)
LEMMA DecModeStep ==
  ASSUME IInv, doEscLSBQuest
  PROVE  Clean
<1>1. PICK mode \in DecMode :
        LET mask == {mode} \cap {"origin", "wrap"}
        IN  /\ mDecFlags' \in {mDecFlags \cup mask, mDecFlags \ mask, mDecFlags}
            /\ outside' = (mode = "132 columns" /\ ~blockSetOK(0, 0, mColumns, mRows))
            /\ CASE mode = "132 columns" -> setCursorRowCol(0, 0) \/ UNCHANGED cursor
                 [] mode = "origin" -> setCursorPosition(0, 0, mDecFlags')
                 [] OTHER -> UNCHANGED cursor
            /\ UNCHANGED <<size, margins, emitted, saved, mInsertMode>>
  BY DEF doEscLSBQuest
<1>2. outside' = FALSE
  BY <1>1, ScreenClears, Zenon
<1>3. mDecFlags \subseteq {"origin", "wrap"} /\ mInsertMode \in BOOLEAN
  BY DEF IInv, TypeOK
<1>4. mDecFlags' \subseteq {"origin", "wrap"}
  BY <1>1, <1>3
<1>5. UNCHANGED <<size, margins, emitted, saved, mInsertMode>>
  BY <1>1
<1>6. Frame
  BY <1>2, <1>3, <1>4, <1>5 DEF Frame
<1>7. setCursorRowCol(0, 0) \/ setCursorPosition(0, 0, mDecFlags') \/ UNCHANGED cursor
  BY <1>1 DEF DecMode
<1>8. 0 \in Ints /\ 0 \in Nat /\ 0 <= 0 /\ 0 <= IntMax
  BY CursorInts, Bounds
<1>9. CASE setCursorRowCol(0, 0)
  BY <1>2, <1>6, <1>8, <1>9, LimitStep DEF Clean
<1>10. CASE setCursorPosition(0, 0, mDecFlags')
  BY <1>2, <1>6, <1>8, <1>10, PositionStep DEF Clean
<1>11. CASE UNCHANGED cursor
  <2>1. outside' \in BOOLEAN
    BY <1>2
  <2>2. TypeOK'
    BY <1>4, <1>5, <1>11, <2>1 DEF IInv, TypeOK, size, margins, cursor, emitted, saved
  <2>3. MarginsOnScreen'
    BY <1>5 DEF IInv, MarginsOnScreen, size, margins
  <2>4. Good => OnScreen'
    BY <1>5, <1>11 DEF Good, OnScreen, size, cursor, saved
  <2>5. QED BY <1>2, <2>2, <2>3, <2>4 DEF Clean, Kept, IInv
<1>12. QED BY <1>7, <1>9, <1>10, <1>11

(* The functions that set modes and margins.                               *)
LEMMA SetModesStep ==
  ASSUME IInv, SetModes
  PROVE  Clean
<1>1. CASE doSetMode
  <2>1. /\ mInsertMode' \in BOOLEAN
        /\ UNCHANGED <<size, margins, cursor, emitted, saved, mDecFlags>>
    BY <1>1 DEF doSetMode
  <2>2. outside' = FALSE /\ outside' \in BOOLEAN
    BY <1>1, Zenon DEF doSetMode
  <2>3. TypeOK' /\ MarginsOnScreen'
    BY <2>1, <2>2 DEF IInv, TypeOK, MarginsOnScreen, size, margins, cursor, emitted, saved
  <2>4. Good => OnScreen'
    BY <2>1 DEF Good, OnScreen, size, cursor, saved
  <2>5. QED BY <2>2, <2>3, <2>4 DEF Clean, Kept, IInv
<1>2. QED BY <1>1, SetMarginsStep, DecModeStep DEF SetModes
-----------------------------------------------------------------------------
(* The margins of a resized screen: those of its height, or the old ones.  *)
LEMMA ResizeMarginsStep ==
  ASSUME IInv, NEW rows \in MinRows..MaxRows, ResizeMargins(rows), mRows' = rows
  PROVE  /\ mTopMargin' \in Ints /\ mBottomMargin' \in Ints /\ MarginsOnScreen'
         /\ mBottomMargin' \in Nat /\ (Good => mBottomMargin' <= rows)
<1>1. rows \in Nat /\ rows >= 1 /\ rows < IntMax
  BY EmulatorAssumption
<1>2. CASE rows # mRows
  <2>1. mTopMargin' = 0 /\ mBottomMargin' = rows
    BY <1>2 DEF ResizeMargins
  <2>2. 0 \in Ints /\ rows \in Ints
    BY <1>1, CursorInts, Bounds
  <2>3. MarginsOnScreen'
    BY <1>1, <2>1 DEF MarginsOnScreen
  <2>4. QED BY <1>1, <2>1, <2>2, <2>3
<1>3. CASE rows = mRows
  <2>1. UNCHANGED <<mRows, mTopMargin, mBottomMargin>>
    BY <1>3 DEF ResizeMargins, margins
  <2>2. mTopMargin' \in Ints /\ mBottomMargin' \in Ints
    BY <2>1 DEF IInv, TypeOK
  <2>3. MarginsOnScreen'
    BY <2>1 DEF IInv, MarginsOnScreen
  <2>4. QED BY <1>3, <2>1, <2>2, <2>3, Bounds, GoodBounds
<1>4. QED BY <1>2, <1>3

(* fastResize() moves the cursor with its row.                             *)
LEMMA FastResizeStep ==
  ASSUME IInv, FastResize
  PROVE  Kept
<1>0. PICK rows \in MinRows..MaxRows : \E shift \in FastShift(rows) :
        /\ rows # mRows
        /\ mRows' = rows /\ UNCHANGED mColumns
        /\ ResizeMargins(rows)
        /\ LET row == Wrap(mCursorRow - shift)
               keeps == row >= 0 /\ mCursorCol >= 0
           IN  /\ mCursorRow' = IF keeps THEN row ELSE 0
               /\ mCursorCol' = IF keeps THEN mCursorCol ELSE 0
        /\ outside' = FALSE
        /\ UNCHANGED <<mAboutToAutoWrap, emitted, saved, modes>>
  BY DEF FastResize
<1>1. PICK shift \in FastShift(rows) :
        /\ rows # mRows
        /\ mRows' = rows /\ UNCHANGED mColumns
        /\ ResizeMargins(rows)
        /\ LET row == Wrap(mCursorRow - shift)
               keeps == row >= 0 /\ mCursorCol >= 0
           IN  /\ mCursorRow' = IF keeps THEN row ELSE 0
               /\ mCursorCol' = IF keeps THEN mCursorCol ELSE 0
        /\ outside' = FALSE
        /\ UNCHANGED <<mAboutToAutoWrap, emitted, saved, modes>>
  BY <1>0
<1> DEFINE row == Wrap(mCursorRow - shift)
           keeps == row >= 0 /\ mCursorCol >= 0
<1>2. /\ mCursorRow' = IF keeps THEN row ELSE 0
      /\ mCursorCol' = IF keeps THEN mCursorCol ELSE 0
  BY <1>1
<1>3. rows \in Nat /\ rows >= 1 /\ rows < IntMax
  BY EmulatorAssumption
<1>4. mCursorRow \in Int /\ -(IntMax + 1) <= mCursorRow /\ mCursorRow <= IntMax
      /\ mCursorCol \in Ints
  BY CursorInts
<1>5. /\ shift \in Int /\ -IntMax <= shift /\ shift <= IntMax
      /\ Good => mCursorRow - shift < rows
  BY <1>3, <1>4, Bounds, GoodBounds DEF FastShift, MaxOf
<1>6. row \in Ints /\ row \in Int
  BY <1>4, <1>5, WrapIsInt, Bounds
<1>7. Good => row = mCursorRow - shift
  <2>1. Good => mCursorRow - shift <= IntMax /\ -(IntMax + 1) <= mCursorRow - shift
    BY <1>3, <1>4, <1>5, Bounds, GoodBounds
  <2>2. QED BY <1>4, <1>5, <2>1, WrapKeeps, Bounds
<1> HIDE DEF row
<1>8. mCursorRow' \in Ints /\ mCursorCol' \in Ints
  BY <1>2, <1>4, <1>6, CursorInts, Bounds
<1>9. Good => OnScreen'
  BY <1>1, <1>2, <1>3, <1>5, <1>6, <1>7, Bounds, GoodBounds DEF OnScreen, saved
<1>10. mTopMargin' \in Ints /\ mBottomMargin' \in Ints /\ MarginsOnScreen'
  BY <1>1, ResizeMarginsStep
<1>11. outside' \in BOOLEAN
  BY <1>1
<1>12. TypeOK'
  BY <1>1, <1>8, <1>10, <1>11 DEF IInv, TypeOK, emitted, saved, modes
<1>13. QED BY <1>9, <1>10, <1>12 DEF Kept, IInv

(* A new width leaves the cursor above the bottom margin.                  *)
LEMMA SlowResizeStep ==
  ASSUME IInv, SlowResize
  PROVE  Kept
<1>1. PICK rows \in MinRows..MaxRows, columns \in 1..MaxColumns :
        /\ mRows' = rows /\ mColumns' = columns
        /\ ResizeMargins(rows)
        /\ mCursorRow' \in 0..(mBottomMargin' - 1) /\ mCursorCol' \in 0..(columns - 1)
        /\ mAboutToAutoWrap' \in BOOLEAN /\ mJustWrapped' \in BOOLEAN
        /\ mLastEmittedCharWidth' \in {mLastEmittedCharWidth, 1, 2}
        /\ outside' = FALSE
        /\ UNCHANGED <<saved, modes>>
  BY DEF SlowResize
<1>2. rows \in Nat /\ columns \in Nat /\ columns < IntMax
  BY EmulatorAssumption
<1>3. /\ mTopMargin' \in Ints /\ mBottomMargin' \in Ints /\ MarginsOnScreen'
      /\ mBottomMargin' \in Nat /\ (Good => mBottomMargin' <= rows)
  BY <1>1, ResizeMarginsStep
<1>4. /\ mCursorRow' \in Int /\ 0 <= mCursorRow' /\ mCursorRow' < mBottomMargin'
      /\ mCursorCol' \in Int /\ 0 <= mCursorCol' /\ mCursorCol' < columns
  <2>1. mCursorRow' \in 0..(mBottomMargin' - 1) /\ mCursorCol' \in 0..(columns - 1)
    BY <1>1
  <2>2. mBottomMargin' \in Nat
    BY <1>3
  <2>3. mCursorRow' \in Int /\ 0 <= mCursorRow' /\ mCursorRow' < mBottomMargin'
    <3>1. PICK bottom \in Nat : bottom = mBottomMargin'
      BY <2>2
    <3>2. mCursorRow' \in 0..(bottom - 1)
      BY <2>1, <3>1, Zenon
    <3>3. mCursorRow' \in Int /\ 0 <= mCursorRow' /\ mCursorRow' < bottom
      BY <3>2
    <3>4. QED BY <3>1, <3>3
  <2>4. mCursorCol' \in Int /\ 0 <= mCursorCol' /\ mCursorCol' < columns
    BY <1>2, <2>1
  <2>5. QED BY <2>3, <2>4
<1>5. Good => OnScreen'
  BY <1>1, <1>2, <1>3, <1>4, GoodBounds DEF OnScreen, saved
<1>6. mCursorRow' \in Ints /\ mCursorCol' \in Ints
  BY <1>2, <1>3, <1>4, CursorInts, Bounds
<1>7. outside' \in BOOLEAN /\ mLastEmittedCharWidth' \in 0..2
  <2>1. mLastEmittedCharWidth \in 0..2
    BY DEF IInv, TypeOK
  <2>2. outside' = FALSE
    BY <1>1
  <2>3. mLastEmittedCharWidth' \in {mLastEmittedCharWidth, 1, 2}
    BY <1>1
  <2>4. mLastEmittedCharWidth' \in 0..2
    BY <2>1, <2>3
  <2>5. outside' \in BOOLEAN
    BY <2>2
  <2>6. QED BY <2>4, <2>5
<1>8. TypeOK'
  BY <1>1, <1>3, <1>6, <1>7 DEF IInv, TypeOK, saved, modes
<1>9. QED BY <1>3, <1>5, <1>8 DEF Kept, IInv

(* reset() puts everything where it was at the start.                      *)
LEMMA ResetStep ==
  ASSUME IInv, Reset
  PROVE  Clean
<1>1. /\ mCursorRow' = 0 /\ mCursorCol' = 0
      /\ mTopMargin' = 0 /\ mBottomMargin' = mRows
      /\ mSavedCursorRow' = 0 /\ mSavedCursorCol' = 0
      /\ UNCHANGED <<size, emitted>>
  BY DEF Reset, SetCursor
<1>2. /\ mDecFlags' \subseteq {"origin", "wrap"}
      /\ mSavedDecFlags_DECSC_DECRC' \subseteq {"origin", "wrap"}
  BY DEF Reset
<1>3. /\ mAboutToAutoWrap' \in BOOLEAN /\ mInsertMode' \in BOOLEAN
      /\ outside' = FALSE /\ outside' \in BOOLEAN
  BY ScreenClears, Zenon DEF Reset, SetCursor
<1>4. 0 \in Ints /\ mRows \in Ints
  BY CursorInts, Bounds
<1>5. TypeOK'
  BY <1>1, <1>2, <1>3, <1>4 DEF IInv, TypeOK, size, emitted
<1>6. MarginsOnScreen' /\ OnScreen'
  BY <1>1, Bounds DEF MarginsOnScreen, OnScreen, size
<1>7. QED BY <1>3, <1>5, <1>6 DEF Clean, Kept, IInv
-----------------------------------------------------------------------------
(* A new emulator satisfies the invariant.                                 *)
LEMMA InitIInv ==
  ASSUME Init
  PROVE  IInv
<1>1. mRows \in Nat /\ mRows >= 1 /\ mRows < IntMax /\ IntMax \in Nat
  BY EmulatorAssumption DEF Init
<1>2. /\ mAboutToAutoWrap \in BOOLEAN /\ mJustWrapped \in BOOLEAN
      /\ mInsertMode \in BOOLEAN /\ outside \in BOOLEAN
  BY Zenon DEF Init
<1>3. MarginsOnScreen
  BY <1>1 DEF Init, MarginsOnScreen
<1>4. 0 \in Ints /\ mRows \in Ints
  BY <1>1 DEF Ints
<1>5. TypeOK
  BY <1>2, <1>4 DEF Init, TypeOK
<1>6. QED BY <1>3, <1>5 DEF IInv

(* One step of any kind: the invariant is kept, the cursor stays on the    *)
(* screen, and moves along the lines stay in the region.                   *)
LEMMA NextStep ==
  ASSUME IInv, Next
  PROVE  /\ IInv'
         /\ OnScreen /\ ~OnScreen' => Overflow \/ BottomBelowScreen
         /\ InRegion /\ ~InRegion' /\ Along => Overflow
<1>1. Along => IInv' /\ (Overflow \/ (Kept /\ RegionKept))
  BY AlongStep
<1>2. ToColumn => IInv' /\ (Overflow \/ Kept)
  BY ToColumnStep DEF Steps
<1>3. ToPosition \/ Edit \/ SetModes \/ FastResize \/ SlowResize \/ Reset => Kept
  BY ToPositionStep, EditStep, SetModesStep, FastResizeStep, SlowResizeStep, ResetStep
     DEF Clean
<1>4. Kept => IInv' /\ (OnScreen /\ ~OnScreen' => BottomBelowScreen)
  BY DEF Kept, Good
<1>5. Next => \/ Along \/ ToColumn
              \/ (ToPosition \/ Edit \/ SetModes \/ FastResize \/ SlowResize \/ Reset)
  BY DEF Next
<1>6. IInv'
  BY <1>1, <1>2, <1>3, <1>4, <1>5
<1>7. OnScreen /\ ~OnScreen' => Overflow \/ BottomBelowScreen
  BY <1>1, <1>2, <1>3, <1>4, <1>5
<1>8. InRegion /\ ~InRegion' /\ Along => Overflow
  BY <1>1 DEF RegionKept
<1>9. QED BY <1>6, <1>7, <1>8

(* The functions of DrawsOnScreen, one by one.                             *)
LEMMA DrawingStep ==
  ASSUME IInv, OnScreen, ~BottomBelowScreen, Drawing
  PROVE  ~outside'
<1>1. Good
  BY DEF Good
<1>2. CASE emit(1) \/ emit(2)
  <2>1. PICK width \in 1..2 : emit(width)
    BY <1>2
  <2>2. QED BY <1>1, <2>1, EmitStep
<1>3. ASSUME NEW a \in Arg, mCursorCol + a < mColumns, a > 0, DeleteUpTo(a)
      PROVE  ~outside'
  <2>1. a \in Int /\ 1 <= a /\ a <= mColumns - mCursorCol
    BY <1>1, <1>3, Bounds, GoodBounds, EmulatorAssumption DEF Arg
  <2>2. QED BY <1>1, <1>3, <2>1, DeleteStep
<1>4. AlongLines \/ ToColumn => ~outside'
  BY <1>1, AlongLinesStep, ToColumnStep DEF StepsAlong, Steps
<1>5. ToPosition \/ EditAround \/ SetModes \/ Reset => ~outside'
  BY <1>1, ToPositionStep, EditAroundStep, SetModesStep, ResetStep DEF Clean
<1>6. \/ emit(1) \/ emit(2) \/ AlongLines \/ ToColumn \/ ToPosition
      \/ EditAround \/ SetModes \/ Reset
      \/ \E a \in Arg : mCursorCol + a < mColumns /\ a > 0 /\ DeleteUpTo(a)
  BY DEF Drawing
<1>7. QED BY <1>2, <1>3, <1>4, <1>5, <1>6

(* Nothing happens to the invariant in a step that changes nothing.        *)
LEMMA StutterStep ==
  ASSUME IInv, UNCHANGED vars
  PROVE  IInv'
BY DEF vars, IInv, TypeOK, MarginsOnScreen, size, margins, cursor, emitted, saved, modes
-----------------------------------------------------------------------------
(* The inductive invariant holds, for every size of the screen and every   *)
(* argument of updateSize() and of a sequence.                             *)
THEOREM InductiveInvariant == Spec => []IInv
<1>1. Init => IInv
  BY InitIInv
<1>2. IInv /\ [Next]_vars => IInv'
  BY NextStep, StutterStep
<1>3. QED BY <1>1, <1>2, PTL DEF Spec

(* Every field keeps its type, sums of ints that wrap included.            *)
THEOREM TypeCorrect == Spec => []TypeOK
<1>1. IInv => TypeOK
  BY DEF IInv
<1>2. QED BY <1>1, InductiveInvariant, PTL

(* The scrolling region of the margins lies on the screen and has two rows, *)
(* after every updateSize(), reset() and CSI r, except on one row.          *)
THEOREM MarginsStayOnScreen == Spec => []MarginsOnScreen
<1>1. IInv => MarginsOnScreen
  BY DEF IInv
<1>2. QED BY <1>1, InductiveInvariant, PTL

(* Only a CSI B or CSI C that overflows, or the bottom margin below a       *)
(* screen of one row, takes the cursor off the screen.                      *)
THEOREM CursorStaysOnScreen == Spec => CursorOnScreen
<1>1. IInv /\ [Next]_vars
      => [OnScreen /\ ~OnScreen' => Overflow \/ BottomBelowScreen]_vars
  BY NextStep
<1>2. QED BY <1>1, InductiveInvariant, PTL DEF Spec, CursorOnScreen

(* From a good state no function but CSI X, CSI P up to the edge and a      *)
(* combining character draws off the screen.                                *)
THEOREM AllDrawOnScreen == Spec => DrawsOnScreen
<1>1. IInv => [OnScreen /\ ~BottomBelowScreen /\ outside' => ~Drawing]_vars
  BY DrawingStep
<1>2. QED BY <1>1, InductiveInvariant, PTL DEF Spec, DrawsOnScreen

(* Text, line feeds and relative vertical moves leave the scrolling region  *)
(* only by an overflow.                                                     *)
THEOREM CursorStaysInRegion == Spec => RegionKeepsCursor
<1>1. IInv /\ [Next]_vars => [InRegion /\ ~InRegion' /\ Along => Overflow]_vars
  BY NextStep
<1>2. QED BY <1>1, InductiveInvariant, PTL DEF Spec, RegionKeepsCursor
=============================================================================
