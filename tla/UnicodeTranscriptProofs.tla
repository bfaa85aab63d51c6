----------------------- MODULE UnicodeTranscriptProofs ----------------------
(***************************************************************************)
(* The window of UnicodeTranscript stays inside the circular array and the *)
(* cursor on the screen, and the array implements Scrollback, for every    *)
(* size of the array and of the screen.  The copying loops are shown to    *)
(* compute Turned and RowsTurned by induction over their turns.            *)
(***************************************************************************)
EXTENDS UnicodeTranscript, SequenceTheorems, WellFoundedInduction, TLAPS

(* A set of natural numbers with a bound has a largest element.            *)
LEMMA LargestBelow ==
  ASSUME NEW k \in Nat, NEW T \in SUBSET (0..k), 0 \in T
  PROVE  \E n \in T : n = k \/ n + 1 \notin T
<1> DEFINE D == {k - n : n \in T}
<1>1. D \subseteq Nat /\ D # {}
  OBVIOUS
<1>2. \E d \in D : \A e \in D : ~(<<e, d>> \in OpToRel(<, Nat))
  <2> HIDE DEF D
  <2> QED BY <1>1, NatLessThanWellFounded, WFMin
<1>3. PICK d \in D : \A e \in D : ~(<<e, d>> \in OpToRel(<, Nat))
  BY <1>2
<1>4. PICK n \in T : d = k - n
  BY <1>3
<1>5. ASSUME n # k, n + 1 \in T PROVE FALSE
  <2>1. k - (n + 1) \in D
    BY <1>5
  <2>2. <<k - (n + 1), d>> \in OpToRel(<, Nat)
    BY <1>4, <1>5 DEF OpToRel
  <2> QED BY <1>3, <2>1, <2>2
<1> QED BY <1>5

(* resize() finds the rows to hide: the choice in Hidden is never empty.   *)
LEMMA HiddenType ==
  ASSUME TypeOK, NEW fewer \in 1..mScreenRows
  PROVE  /\ Hidden(fewer, mCursorRow) \in 0..HideLimit(fewer, mCursorRow)
         /\ \A i \in (mScreenRows - Hidden(fewer, mCursorRow))..(mScreenRows - 1) :
              mLines[externalToInternalRow(i)] = Blank
         /\ \/ Hidden(fewer, mCursorRow) = HideLimit(fewer, mCursorRow)
            \/ mLines[externalToInternalRow(mScreenRows - Hidden(fewer, mCursorRow) - 1)] # Blank
<1> DEFINE k == HideLimit(fewer, mCursorRow)
           AllBlank(n) == \A i \in (mScreenRows - n)..(mScreenRows - 1) :
                            mLines[externalToInternalRow(i)] = Blank
           T == {n \in 0..k : AllBlank(n)}
<1>1. k \in Nat /\ mScreenRows \in Nat
  BY TranscriptAssumption DEF TypeOK, HideLimit, ScreenRow
<1>2. 0 \in T
  BY <1>1
<1>3. PICK n \in T : n = k \/ n + 1 \notin T
  <2> HIDE DEF k
  <2>1. T \in SUBSET (0..k)
    OBVIOUS
  <2> HIDE DEF T
  <2> QED BY <1>1, <1>2, <2>1, LargestBelow
<1>4. ASSUME n # k
      PROVE  mLines[externalToInternalRow(mScreenRows - n - 1)] # Blank
  <2>1. n + 1 \in 0..k /\ ~AllBlank(n + 1)
    <3> HIDE DEF k, AllBlank
    <3> QED BY <1>1, <1>3, <1>4
  <2>2. PICK i \in (mScreenRows - (n + 1))..(mScreenRows - 1) :
          mLines[externalToInternalRow(i)] # Blank
    BY <2>1
  <2>3. AllBlank(n)
    BY <1>3
  <2>4. ~(i \in (mScreenRows - n)..(mScreenRows - 1))
    BY <2>2, <2>3
  <2>5. i = mScreenRows - n - 1
    <3> HIDE DEF k, AllBlank
    <3> QED BY <1>1, <1>3, <2>2, <2>4
  <2> QED BY <2>2, <2>5
<1>5. \E m \in 0..k : /\ AllBlank(m)
                      /\ \/ m = k
                         \/ mLines[externalToInternalRow(mScreenRows - m - 1)] # Blank
  <2> HIDE DEF AllBlank, k
  <2> QED BY <1>3, <1>4
<1> QED BY <1>5 DEF Hidden

(* The distance resize() moves the screen: not beyond the transcript, not  *)
(* so far that transcript and screen outgrow the array, and so that the    *)
(* cursor's line is not below the new screen.                              *)
LEMMA ShiftRange ==
  ASSUME TypeOK, NEW rows \in 1..MaxScreenRows, rows # mScreenRows
  PROVE  /\ Shift(rows) \in Int
         /\ mActiveTranscriptRows + Shift(rows) \in 0..(TotalRows - rows)
         /\ Shift(rows) <= mScreenRows
         /\ mCursorRow - Shift(rows) < rows
<1> DEFINE fewer == mScreenRows - rows
<1> USE TranscriptAssumption DEF TypeOK, ScreenRow
<1>1. CASE fewer < -mActiveTranscriptRows
  BY <1>1 DEF Shift
<1>2. CASE fewer > 0
  <2>1. fewer \in 1..mScreenRows
    BY <1>2
  <2>2. PICK h \in 0..HideLimit(fewer, mCursorRow) : h = Hidden(fewer, mCursorRow)
    BY <2>1, HiddenType
  <2>3. h \in 0..fewer /\ h <= mScreenRows - 1 - mCursorRow
    BY <2>1, <2>2 DEF HideLimit
  <2>4. Shift(rows) = fewer - h
    BY <1>2, <2>2 DEF Shift
  <2> QED BY <2>1, <2>3, <2>4
<1>3. CASE fewer < 0 /\ fewer >= -mActiveTranscriptRows
  BY <1>3 DEF Shift
<1> QED BY <1>1, <1>2, <1>3

LEMMA InitWindow == Init => TypeOK
BY TranscriptAssumption DEF Init, TypeOK, Slots, ScreenRow

LEMMA ScrollWindow ==
  ASSUME TypeOK, Scroll
  PROVE  TypeOK'
<1>1. PICK top \in ScreenRow, bottom \in 1..mScreenRows : scroll(top, bottom)
  BY DEF Scroll
<1>2. /\ mScreenFirstRow' = Wrap(mScreenFirstRow + 1)
      /\ mActiveTranscriptRows' = OneMoreRow(mActiveTranscriptRows, mScreenRows)
      /\ UNCHANGED <<mScreenRows, mCursorRow>>
  BY <1>1 DEF scroll
<1> QED
  BY <1>2, TranscriptAssumption DEF TypeOK, Slots, ScreenRow, Wrap, OneMoreRow

LEMMA ResizeWindow ==
  ASSUME TypeOK, Resize
  PROVE  TypeOK'
<1>1. PICK rows \in 1..MaxScreenRows : resize(rows)
  BY DEF Resize
<1> DEFINE shift == Shift(rows)
<1>2. /\ rows # mScreenRows /\ mScreenRows' = rows
      /\ mScreenFirstRow' = ShiftedFirstRow(shift)
      /\ mActiveTranscriptRows' = IF mActiveTranscriptRows + shift < 0 THEN 0
                                  ELSE mActiveTranscriptRows + shift
      /\ mCursorRow' = IF mCursorRow - shift >= 0 THEN mCursorRow - shift ELSE 0
  BY <1>1 DEF resize
<1>3. /\ shift \in Int
      /\ mActiveTranscriptRows + shift \in 0..(TotalRows - rows)
      /\ shift <= mScreenRows
      /\ mCursorRow - shift < rows
  BY <1>2, ShiftRange
<1> HIDE DEF shift
<1> USE TranscriptAssumption DEF TypeOK, Slots, ScreenRow
<1>4. mScreenFirstRow' \in Slots
  BY <1>2, <1>3 DEF ShiftedFirstRow, Wrap
<1>5. mActiveTranscriptRows' \in 0..(TotalRows - rows)
  BY <1>2, <1>3
<1>6. mCursorRow' \in 0..(rows - 1)
  BY <1>2, <1>3
<1> QED BY <1>2, <1>4, <1>5, <1>6

(* TypeOK is inductive: no step needs more than the window itself.         *)
LEMMA StepWindow ==
  ASSUME TypeOK, [Next]_vars
  PROVE  TypeOK'
<1> USE DEF TypeOK, Slots, ScreenRow, window
<1>1. CASE setChar
  BY <1>1 DEF setChar
<1>2. CASE setLineWrap
  BY <1>2 DEF setLineWrap
<1>3. CASE setCursorRow
  BY <1>3 DEF setCursorRow
<1>4. CASE BlockCopy
  BY <1>4 DEF BlockCopy, blockCopy
<1>5. CASE Scroll
  BY <1>5, ScrollWindow
<1>6. CASE Resize
  BY <1>6, ResizeWindow
<1>7. CASE UNCHANGED vars
  BY <1>7 DEF vars
<1> QED BY <1>1, <1>2, <1>3, <1>4, <1>5, <1>6, <1>7 DEF Next

(* For every size of the array and every sequence of edits, scrolls and    *)
(* changes of the window's height, the screen begins inside the array,     *)
(* transcript and screen fit into it together, and the cursor that         *)
(* updateSize() stores is on the screen.                                   *)
THEOREM TypeCorrect == Spec => []TypeOK
<1>1. Init => TypeOK
  BY InitWindow
<1>2. TypeOK /\ [Next]_vars => TypeOK'
  BY StepWindow
<1> QED BY <1>1, <1>2, PTL DEF Spec

(* A row number that the code hands to externalToInternalRow(), from the   *)
(* oldest line of the transcript to the row below the screen, is mapped    *)
(* into the array, and no two rows that are in use share a slot.           *)
THEOREM RowsInArray ==
  ASSUME TypeOK
  PROVE  /\ \A r \in (-mActiveTranscriptRows)..mScreenRows :
              externalToInternalRow(r) \in Slots
         /\ \A r, q \in (-mActiveTranscriptRows)..(mScreenRows - 1) :
              r # q => externalToInternalRow(r) # externalToInternalRow(q)
BY TranscriptAssumption
   DEF TypeOK, Slots, ScreenRow, externalToInternalRow, Wrap

(* externalToInternalRow() for a given first row of the screen.            *)
SlotOf(first, row) ==
  IF row >= 0 THEN Wrap(first + row)
  ELSE IF -row > first THEN TotalRows + first + row ELSE first + row

(* A row keeps its slot when the screen moves and its number moves back.   *)
LEMMA SameSlot ==
  ASSUME NEW f \in Slots, NEW g \in Slots, NEW d \in Int, NEW r \in Int,
         TotalRows \in Nat,
         \/ g = f + d \/ g = f + d - TotalRows \/ g = f + d + TotalRows,
         -TotalRows <= r, r < TotalRows, -TotalRows <= r - d, r - d < TotalRows
  PROVE  SlotOf(g, r - d) = SlotOf(f, r)
<1>1. /\ SlotOf(f, r) \in 0..(TotalRows - 1)
      /\ \/ SlotOf(f, r) = f + r \/ SlotOf(f, r) = f + r - TotalRows
         \/ SlotOf(f, r) = f + r + TotalRows
  BY DEF SlotOf, Wrap, Slots
<1>2. /\ SlotOf(g, r - d) \in 0..(TotalRows - 1)
      /\ \/ SlotOf(g, r - d) = g + (r - d) \/ SlotOf(g, r - d) = g + (r - d) - TotalRows
         \/ SlotOf(g, r - d) = g + (r - d) + TotalRows
  BY DEF SlotOf, Wrap, Slots
<1> QED BY <1>1, <1>2 DEF Slots

(* A scroll of the whole screen keeps the lines: each row of the screen    *)
(* and the transcript, except the oldest when the array is full, is        *)
(* afterwards one row higher, with its text and wrap flag, and the row     *)
(* that comes in at the bottom is blank.                                   *)
THEOREM FullScrollKeepsLines ==
  ASSUME TypeOK, mLines \in [Slots -> Text \cup {Blank}],
         mLineWrap \in [Slots -> BOOLEAN],
         scroll(0, mScreenRows)
  PROVE  /\ \A r \in (1 - mActiveTranscriptRows')..(mScreenRows - 1) :
              Line(r - 1)' = Line(r)
         /\ Line(mScreenRows - 1)' = [text |-> Blank, wrap |-> FALSE]
<1> DEFINE bottom == Wrap(Wrap(mScreenFirstRow + 1) + mScreenRows - 1)
<1>1. /\ mScreenFirstRow' = Wrap(mScreenFirstRow + 1)
      /\ mActiveTranscriptRows' = OneMoreRow(mActiveTranscriptRows, mScreenRows)
      /\ mScreenRows' = mScreenRows
  BY DEF scroll
<1>2. /\ mLines' = [mLines EXCEPT ![bottom] = Blank]
      /\ mLineWrap' = [mLineWrap EXCEPT ![bottom] = FALSE]
  BY DEF scroll, Scrolled
<1> HIDE DEF bottom
<1>3. /\ mScreenFirstRow \in Slots /\ mScreenFirstRow' \in Slots
      /\ \/ mScreenFirstRow' = mScreenFirstRow + 1
         \/ mScreenFirstRow' = mScreenFirstRow + 1 - TotalRows
  BY <1>1, TranscriptAssumption DEF TypeOK, Slots, Wrap
<1>4. bottom \in Slots /\ externalToInternalRow(mScreenRows - 1)' = bottom
  BY <1>1, TranscriptAssumption
     DEF bottom, TypeOK, Slots, ScreenRow, externalToInternalRow, Wrap
<1>5. Line(mScreenRows - 1)' = [text |-> Blank, wrap |-> FALSE]
  BY <1>2, <1>4 DEF Line
<1>6. ASSUME NEW r \in (1 - mActiveTranscriptRows')..(mScreenRows - 1)
      PROVE  Line(r - 1)' = Line(r)
  <2>1. /\ r \in (-mActiveTranscriptRows)..(mScreenRows - 1)
        /\ r >= 1 - (TotalRows - mScreenRows)
    BY <1>1, <1>6, TranscriptAssumption DEF TypeOK, OneMoreRow
  <2>2. -TotalRows <= r /\ r < TotalRows /\ -TotalRows <= r - 1 /\ r - 1 < TotalRows
    BY <2>1, TranscriptAssumption DEF TypeOK
  <2>3. SlotOf(mScreenFirstRow', r - 1) = SlotOf(mScreenFirstRow, r)
    BY <1>3, <2>1, <2>2, SameSlot, TranscriptAssumption
  <2>4. externalToInternalRow(r - 1)' = externalToInternalRow(r)
    BY <2>3 DEF SlotOf, externalToInternalRow, Wrap
  <2>5. externalToInternalRow(r) \in Slots
    BY <2>1, RowsInArray, TranscriptAssumption DEF TypeOK
  <2>6. externalToInternalRow(r) # bottom
    BY <2>1, TranscriptAssumption
       DEF bottom, TypeOK, Slots, externalToInternalRow, Wrap
  <2> QED BY <1>2, <2>4, <2>5, <2>6 DEF Line
<1> QED BY <1>5, <1>6

(* A change of the window's height keeps the lines: every row of the       *)
(* transcript and the screen that is not hidden at the bottom is           *)
(* afterwards in the row the shift predicts, with its text and wrap flag,  *)
(* although resize() blanks more rows than it adds.                        *)
THEOREM ResizeKeepsLines ==
  ASSUME TypeOK, NEW rows \in 1..MaxScreenRows, resize(rows),
         NEW shift \in Int, shift = Shift(rows),
         NEW r \in (-mActiveTranscriptRows)..(mScreenRows - 1), r - shift < rows
  PROVE  Line(r - shift)' = Line(r)
<1> DEFINE B == Blanked(rows)
<1>1. /\ rows # mScreenRows /\ mScreenRows' = rows
      /\ mScreenFirstRow' = ShiftedFirstRow(shift)
  BY DEF resize
<1>2. /\ mLines' = [i \in Slots |-> IF i \in B THEN Blank ELSE mLines[i]]
      /\ mLineWrap' = [i \in Slots |-> IF i \in B THEN FALSE ELSE mLineWrap[i]]
  BY DEF resize
<1>3. /\ shift \in Int
      /\ mActiveTranscriptRows + shift \in 0..(TotalRows - rows)
      /\ shift <= mScreenRows
  BY <1>1, ShiftRange
<1>4. externalToInternalRow(r) \in Slots
  BY RowsInArray, TranscriptAssumption DEF TypeOK
<1>5. externalToInternalRow(r - shift)' = externalToInternalRow(r)
  <2>1. /\ mScreenFirstRow \in Slots /\ mScreenFirstRow' \in Slots
        /\ \/ mScreenFirstRow' = mScreenFirstRow + shift
           \/ mScreenFirstRow' = mScreenFirstRow + shift - TotalRows
           \/ mScreenFirstRow' = mScreenFirstRow + shift + TotalRows
    BY <1>1, <1>3, TranscriptAssumption DEF TypeOK, Slots, ShiftedFirstRow, Wrap
  <2>2. -TotalRows <= r /\ r < TotalRows /\ -TotalRows <= r - shift /\ r - shift < TotalRows
    BY <1>3, TranscriptAssumption DEF TypeOK
  <2>3. SlotOf(mScreenFirstRow', r - shift) = SlotOf(mScreenFirstRow, r)
    BY <2>1, <2>2, SameSlot, TranscriptAssumption
  <2> QED BY <2>3 DEF SlotOf, externalToInternalRow, Wrap
<1>6. externalToInternalRow(r) \notin B
  <2>1. CASE mScreenRows - rows < -mActiveTranscriptRows
    <3>1. ASSUME NEW i \in 0..(mActiveTranscriptRows - (mScreenRows - rows) - 1)
          PROVE  externalToInternalRow(r) # Wrap(mScreenFirstRow + mScreenRows + i)
      BY <2>1, <3>1, TranscriptAssumption
         DEF TypeOK, Slots, ScreenRow, externalToInternalRow, Wrap
    <3> QED BY <2>1, <3>1 DEF Blanked
  <2>2. CASE ~(mScreenRows - rows < -mActiveTranscriptRows)
    BY <2>2 DEF Blanked
  <2> QED BY <2>1, <2>2
<1> HIDE DEF B
<1> QED BY <1>4, <1>5, <1>6, <1>2 DEF Line
-----------------------------------------------------------------------------
(* The refinement of Scrollback.  The rows in use, as the code numbers     *)
(* them: the transcript is negative, the screen begins at 0.               *)

LEMMA NatSetInduction ==
  ASSUME NEW S, 0 \in S, \A n \in Nat : n \in S => n + 1 \in S
  PROVE  Nat \subseteq S
<1> SUFFICES ASSUME Nat \ S # {} PROVE FALSE
  OBVIOUS
<1>1. \E d \in Nat \ S : \A e \in Nat \ S : ~(<<e, d>> \in OpToRel(<, Nat))
  <2> DEFINE D == Nat \ S
  <2>1. D \subseteq Nat /\ D # {}
    OBVIOUS
  <2> HIDE DEF D
  <2>2. \E d \in D : \A e \in D : ~(<<e, d>> \in OpToRel(<, Nat))
    BY <2>1, NatLessThanWellFounded, WFMin
  <2> QED BY <2>2 DEF D
<1>2. PICK d \in Nat \ S : \A e \in Nat \ S : ~(<<e, d>> \in OpToRel(<, Nat))
  BY <1>1
<1>3. d \in Nat /\ d \notin S /\ d # 0 /\ d - 1 \in Nat
  OBVIOUS
<1>4. d - 1 \notin S
  BY <1>3
<1>5. <<d - 1, d>> \in OpToRel(<, Nat)
  BY <1>2, <1>3 DEF OpToRel
<1> QED BY <1>2, <1>3, <1>4, <1>5

(* A loop that copies one element in each turn: two sequences of arrays    *)
(* with the same turns end in the same array.                              *)
Step(b, x, y) == [b EXCEPT ![x] = b[y]]

Turns(f, len, dst, src) == \A n \in 1..len : f[n] = Step(f[n - 1], dst[n], src[n])

LEMMA SameLoop ==
  ASSUME NEW len \in Nat, NEW f, NEW g, NEW dst, NEW src, f[0] = g[0],
         Turns(f, len, dst, src), Turns(g, len, dst, src)
  PROVE  f[len] = g[len]
<1> DEFINE S == {n \in Nat : n <= len => f[n] = g[n]}
<1>1. 0 \in S
  OBVIOUS
<1>2. ASSUME NEW n \in Nat, n \in S PROVE n + 1 \in S
  <2>1. CASE n + 1 <= len
    <3>1. n + 1 \in 1..len /\ n + 1 - 1 = n
      BY <2>1
    <3>2. f[n] = g[n]
      BY <1>2, <2>1
    <3>3. f[n + 1] = Step(f[n], dst[n + 1], src[n + 1])
      BY <3>1 DEF Turns
    <3>4. g[n + 1] = Step(g[n], dst[n + 1], src[n + 1])
      BY <3>1 DEF Turns
    <3>5. f[n + 1] = g[n + 1]
      BY <3>2, <3>3, <3>4, Zenon
    <3> QED BY <3>5
  <2>2. CASE ~(n + 1 <= len)
    BY <2>2
  <2> QED BY <2>1, <2>2
<1>3. Nat \subseteq S
  <2> HIDE DEF S
  <2> QED BY <1>1, <1>2, NatSetInduction
<1>4. len \in S
  BY <1>3
<1>5. len <= len
  OBVIOUS
<1> QED BY <1>4, <1>5, Zenon

(* How far a slot is from another one, around the end of the array, and    *)
(* the slot before it.                                                     *)
Dist(from, i) == IF i >= from THEN i - from ELSE i - from + TotalRows
Prev(i) == IF i = 0 THEN TotalRows - 1 ELSE i - 1

(* blockCopyLines() after n turns.                                         *)
Turned(a, src, len, n) ==
  [i \in Slots |-> IF Dist(src, i) \in (len - n + 1)..len THEN a[Prev(i)] ELSE a[i]]

LEMMA CopyOneDown ==
  ASSUME NEW src \in Slots, NEW len \in 0..(TotalRows - 1), NEW n \in 1..len
  PROVE  LET x == Wrap(Wrap(src + 1) + CopyTurn(len, n))
             y == Wrap(src + CopyTurn(len, n))
         IN  /\ x \in Slots /\ y \in Slots /\ Prev(x) = y
             /\ Dist(src, x) = len - n + 1 /\ Dist(src, y) = len - n
             /\ \A i \in Slots : Dist(src, i) = len - n + 1 => i = x
BY TranscriptAssumption DEF Slots, Wrap, CopyTurn, Prev, Dist

LEMMA TurnedStep ==
  ASSUME NEW V, NEW a \in [Slots -> V], NEW src \in Slots, NEW len \in 0..(TotalRows - 1)
  PROVE  /\ Turned(a, src, len, 0) = a
         /\ \A n \in 1..len :
              Turned(a, src, len, n)
                = Step(Turned(a, src, len, n - 1), Wrap(Wrap(src + 1) + CopyTurn(len, n)),
                       Wrap(src + CopyTurn(len, n)))
<1>1. Turned(a, src, len, 0) = a
  <2>1. \A i \in Slots : Dist(src, i) \notin (len - 0 + 1)..len
    BY TranscriptAssumption DEF Slots, Dist
  <2>2. \A i \in Slots : Turned(a, src, len, 0)[i] = a[i]
    BY <2>1 DEF Turned
  <2> QED BY <2>2 DEF Turned
<1>2. ASSUME NEW n \in 1..len
      PROVE  Turned(a, src, len, n)
                = Step(Turned(a, src, len, n - 1), Wrap(Wrap(src + 1) + CopyTurn(len, n)),
                       Wrap(src + CopyTurn(len, n)))
  <2> DEFINE x == Wrap(Wrap(src + 1) + CopyTurn(len, n))
             y == Wrap(src + CopyTurn(len, n))
             T == Turned(a, src, len, n)
             U == Turned(a, src, len, n - 1)
  <2>1. /\ x \in Slots /\ y \in Slots /\ Prev(x) = y
        /\ Dist(src, x) = len - n + 1 /\ Dist(src, y) = len - n
        /\ \A i \in Slots : Dist(src, i) = len - n + 1 => i = x
    BY CopyOneDown
  <2> HIDE DEF x, y
  <2>2. U[y] = a[y]
    <3>1. Dist(src, y) \notin (len - (n - 1) + 1)..len
      BY <2>1
    <3> QED BY <2>1, <3>1 DEF Turned
  <2>3. ASSUME NEW i \in Slots PROVE T[i] = [U EXCEPT ![x] = U[y]][i]
    <3>1. CASE i = x
      <4>1. T[i] = a[y]
        <5>1. Dist(src, i) \in (len - n + 1)..len
          BY <2>1, <3>1
        <5> QED BY <2>1, <3>1, <5>1 DEF Turned
      <4>2. x \in DOMAIN U
        BY <2>1 DEF Turned
      <4> HIDE DEF T, U
      <4> QED BY <2>2, <3>1, <4>1, <4>2
    <3>2. CASE i # x
      <4>1. Dist(src, i) \in Int /\ Dist(src, i) # len - n + 1
        BY <2>1, <3>2, TranscriptAssumption DEF Dist, Slots
      <4>2. (Dist(src, i) \in (len - n + 1)..len) <=> (Dist(src, i) \in (len - (n - 1) + 1)..len)
        BY <4>1
      <4>3. T[i] = U[i]
        BY <4>2 DEF Turned
      <4>4. i \in DOMAIN U
        BY DEF Turned
      <4> HIDE DEF T, U
      <4> QED BY <3>2, <4>3, <4>4
    <3> QED BY <3>1, <3>2
  <2>4. /\ T = [i \in Slots |-> T[i]]
        /\ [U EXCEPT ![x] = U[y]] = [i \in Slots |-> [U EXCEPT ![x] = U[y]][i]]
    <3>1. T = [i \in Slots |-> T[i]] /\ U = [i \in Slots |-> U[i]]
      BY DEF Turned
    <3> HIDE DEF T, U
    <3> QED BY <3>1
  <2> HIDE DEF T, U
  <2>5. T = Step(U, x, y)
    BY <2>3, <2>4 DEF Step
  <2> QED BY <2>5 DEF T, U, x, y
<1> QED BY <1>1, <1>2

(* LinesAfterTurns is defined: the equation of its recursion has a         *)
(* solution, and it is Turned.                                             *)
LEMMA LinesTurned ==
  ASSUME NEW V, NEW a \in [Slots -> V], NEW src \in Slots, NEW len \in 0..(TotalRows - 1)
  PROVE  LinesAfterTurns(a, src, len)[len] = Turned(a, src, len, len)
<1> DEFINE X == [n \in 0..len |-> Wrap(Wrap(src + 1) + CopyTurn(len, n))]
           Y == [n \in 0..len |-> Wrap(src + CopyTurn(len, n))]
           Body(f) == [n \in 0..len |-> IF n = 0 THEN a
                         ELSE [f[n - 1] EXCEPT ![Wrap(Wrap(src + 1) + CopyTurn(len, n))] =
                                 f[n - 1][Wrap(src + CopyTurn(len, n))]]]
           g == [n \in 0..len |-> Turned(a, src, len, n)]
           f == LinesAfterTurns(a, src, len)
<1>0. len \in Nat /\ 0 \in 0..len /\ \A n \in 1..len : n \in 0..len /\ n - 1 \in 0..len /\ n # 0
  OBVIOUS
<1>1. /\ g[0] = a
      /\ \A n \in 1..len : g[n] = Step(g[n - 1], X[n], Y[n])
  <2>1. g[0] = a
    BY <1>0, TurnedStep
  <2>2. ASSUME NEW n \in 1..len PROVE g[n] = Step(g[n - 1], X[n], Y[n])
    <3>1. /\ g[n] = Turned(a, src, len, n) /\ g[n - 1] = Turned(a, src, len, n - 1)
          /\ X[n] = Wrap(Wrap(src + 1) + CopyTurn(len, n)) /\ Y[n] = Wrap(src + CopyTurn(len, n))
      BY <1>0
    <3> HIDE DEF g, X, Y
    <3>2. Turned(a, src, len, n)
            = Step(Turned(a, src, len, n - 1), Wrap(Wrap(src + 1) + CopyTurn(len, n)),
                   Wrap(src + CopyTurn(len, n)))
      BY TurnedStep
    <3> QED BY <3>1, <3>2, Zenon
  <2> QED BY <2>1, <2>2
<1>2. g = Body(g)
  <2>1. \A n \in 0..len : g[n] = Body(g)[n]
    <3> SUFFICES ASSUME NEW n \in 0..len PROVE g[n] = Body(g)[n]
      OBVIOUS
    <3>1. CASE n = 0
      <4> HIDE DEF g
      <4> QED BY <1>1, <3>1
    <3>2. CASE n # 0
      <4>1. n \in 1..len
        BY <3>2
      <4>2. g[n] = Step(g[n - 1], X[n], Y[n])
        BY <1>1, <4>1
      <4> HIDE DEF g
      <4> QED BY <3>2, <4>2 DEF Step
    <3> QED BY <3>1, <3>2
  <2>2. g = [n \in 0..len |-> g[n]]
    OBVIOUS
  <2> HIDE DEF g
  <2> QED BY <2>1, <2>2
<1>3. f = Body(f)
  <2> HIDE DEF g
  <2> QED BY <1>2 DEF LinesAfterTurns
<1> HIDE DEF f, g
<1>4. f[0] = a
  BY <1>0, <1>3
<1>5. ASSUME NEW n \in 1..len PROVE f[n] = Step(f[n - 1], X[n], Y[n])
  <2>1. f[n] = Body(f)[n]
    <3> HIDE DEF Body
    <3> QED BY <1>3
  <2>2. X[n] = Wrap(Wrap(src + 1) + CopyTurn(len, n)) /\ Y[n] = Wrap(src + CopyTurn(len, n))
    BY <1>0
  <2> HIDE DEF X, Y
  <2> QED BY <1>0, <2>1, <2>2 DEF Step
<1> HIDE DEF X, Y
<1>6. f[len] = g[len]
  <2>1. Turns(f, len, X, Y) /\ Turns(g, len, X, Y)
    BY <1>1, <1>5 DEF Turns
  <2> QED BY <1>0, <1>1, <1>4, <2>1, SameLoop
<1>7. len \in 0..len
  OBVIOUS
<1> QED BY <1>6, <1>7 DEF f, g

(* blockCopyLines() moves len rows from src on down by one, whether or not *)
(* they wrap around the end of the array.                                  *)
LEMMA LinesMove ==
  ASSUME NEW V, NEW a \in [Slots -> V], NEW src \in Slots, NEW len \in 0..(TotalRows - 1)
  PROVE  blockCopyLines(a, src, len) = Turned(a, src, len, len)
<1> DEFINE dst == Wrap(src + 1)
<1>1. CASE src + len <= TotalRows /\ dst + len <= TotalRows
  <2>1. blockCopyLines(a, src, len) =
          [i \in Slots |-> IF i \in dst..(dst + len - 1) THEN a[src + i - dst] ELSE a[i]]
    BY <1>1 DEF blockCopyLines
  <2>2. ASSUME NEW i \in Slots
        PROVE  /\ i \in dst..(dst + len - 1) <=> Dist(src, i) \in (len - len + 1)..len
               /\ i \in dst..(dst + len - 1) => src + i - dst = Prev(i)
    BY <1>1, TranscriptAssumption DEF Slots, Wrap, Dist, Prev
  <2> HIDE DEF dst
  <2> QED BY <2>1, <2>2 DEF Turned
<1>2. CASE ~(src + len <= TotalRows /\ dst + len <= TotalRows)
  BY <1>2, LinesTurned DEF blockCopyLines
<1> QED BY <1>1, <1>2

(* The slots of the rows that scroll() looks at, from the oldest row that  *)
(* is kept to the row below the screen.                                    *)
Scrollable == (1 - (TotalRows - mScreenRows))..mScreenRows

LEMMA ScrollSlots ==
  ASSUME TypeOK, NEW r \in Scrollable, NEW b \in 0..mScreenRows
  PROVE  LET f == mScreenFirstRow
         IN  /\ SlotOf(f, r) \in Slots /\ SlotOf(f, 0) = f /\ SlotOf(f, b) \in Slots
             /\ r - 1 \in Int /\ SlotOf(f, r - 1) \in Slots
             /\ Prev(SlotOf(f, r)) = SlotOf(f, r - 1)
             /\ Dist(f, SlotOf(f, r)) = IF r >= 0 THEN r ELSE r + TotalRows
             /\ Dist(SlotOf(f, b), SlotOf(f, r))
                  = IF r >= b THEN r - b ELSE r - b + TotalRows
             /\ SlotOf(f, r) = SlotOf(f, b) => r = b
BY TranscriptAssumption DEF TypeOK, Slots, Scrollable, SlotOf, Wrap, Prev, Dist

LEMMA TurnedType ==
  ASSUME NEW V, NEW a \in [Slots -> V], NEW src, NEW len, NEW n
  PROVE  Turned(a, src, len, n) \in [Slots -> V]
<1>1. \A i \in Slots : Prev(i) \in Slots
  BY TranscriptAssumption DEF Prev, Slots
<1> QED BY <1>1 DEF Turned

(* The element of an array for a row, after the scroll.                    *)
RowAfter(a, first, top, bottom, blank, r) ==
  IF r = bottom THEN blank
  ELSE IF r = 0 THEN a[SlotOf(first, top)]
  ELSE IF r \in 1..top \/ r > bottom THEN a[SlotOf(first, r - 1)]
  ELSE a[SlotOf(first, r)]

LEMMA ScrolledRow ==
  ASSUME TypeOK, NEW V, NEW a \in [Slots -> V], NEW blank \in V,
         NEW top \in ScreenRow, NEW bottom \in 1..mScreenRows, top <= bottom - 1,
         NEW r \in Scrollable
  PROVE  Scrolled(a, top, bottom, blank)[SlotOf(mScreenFirstRow, r)]
           = RowAfter(a, mScreenFirstRow, top, bottom, blank, r)
<1> DEFINE f == mScreenFirstRow
           s(row) == SlotOf(f, row)
           S == mScreenRows
           above == blockCopyLines(a, f, top)
           below == blockCopyLines(above, s(bottom), S - bottom)
           moved == [below EXCEPT ![f] = a[s(top)]]
           whole == top = 0 /\ bottom = S
<1>0. /\ top \in 0..(TotalRows - 1) /\ S - bottom \in 0..(TotalRows - 1) /\ f \in Slots
      /\ top \in Int /\ bottom \in Int /\ S \in Int /\ top < bottom /\ bottom <= S /\ 0 <= top
      /\ bottom \in 0..S /\ top \in 0..S /\ 0 \in 0..S /\ S < TotalRows
      /\ TotalRows \in Nat /\ r \in Int /\ r <= S /\ r + TotalRows > S
  BY TranscriptAssumption DEF TypeOK, ScreenRow, Scrollable
<1>1. /\ s(r) \in Slots /\ s(0) = f /\ s(top) \in Slots /\ s(bottom) \in Slots /\ s(r - 1) \in Slots
      /\ Prev(s(r)) = s(r - 1)
      /\ Dist(f, s(r)) = IF r >= 0 THEN r ELSE r + TotalRows
      /\ Dist(s(bottom), s(r)) = IF r >= bottom THEN r - bottom ELSE r - bottom + TotalRows
      /\ s(r) = s(bottom) => r = bottom
      /\ s(r) = s(0) => r = 0
  BY <1>0, ScrollSlots
<1>2. above = Turned(a, f, top, top) /\ above \in [Slots -> V]
  BY <1>0, LinesMove, TurnedType
<1>3. below = Turned(above, s(bottom), S - bottom, S - bottom) /\ below \in [Slots -> V]
  <2> HIDE DEF above, s, S
  <2>1. below = Turned(above, s(bottom), S - bottom, S - bottom)
    BY <1>0, <1>1, <1>2, LinesMove
  <2> HIDE DEF below
  <2> QED BY <1>2, <2>1, TurnedType
<1>4. /\ s(bottom) = Wrap(Wrap(f + 1) + bottom - 1)
      /\ externalToInternalRow(bottom) = s(bottom) /\ externalToInternalRow(top) = s(top)
  BY <1>0 DEF Slots, SlotOf, Wrap, externalToInternalRow
<1>5. Scrolled(a, top, bottom, blank) = [(IF whole THEN a ELSE moved) EXCEPT ![s(bottom)] = blank]
  BY <1>4 DEF Scrolled
<1> HIDE DEF above, below, s, f, S
<1>6. moved \in [Slots -> V] /\ moved[s(r)] = IF r = 0 THEN a[s(top)] ELSE below[s(r)]
  BY <1>0, <1>1, <1>3
<1>7. CASE r = bottom
  <2> HIDE DEF moved, whole
  <2>1. Scrolled(a, top, bottom, blank)[s(r)] = blank
    BY <1>1, <1>5, <1>6, <1>7
  <2> QED BY <1>7, <2>1 DEF s, f, RowAfter
<1>8. CASE r # bottom
  <2>1. Scrolled(a, top, bottom, blank)[s(r)] = (IF whole THEN a ELSE moved)[s(r)]
    <3> HIDE DEF moved, whole
    <3> QED BY <1>1, <1>5, <1>6, <1>8
  <2>2. CASE r = 0
    <3>1. moved[s(r)] = a[s(top)] /\ (whole => a[s(r)] = a[s(top)])
      BY <1>1, <1>6, <2>2
    <3> HIDE DEF moved, whole
    <3>2. Scrolled(a, top, bottom, blank)[s(r)] = a[s(top)]
      BY <2>1, <3>1
    <3> QED BY <1>8, <2>2, <3>2 DEF s, f, RowAfter
  <2>3. CASE r # 0 /\ r > bottom
    <3>1. ~whole
      BY <1>0, <2>3
    <3>2. below[s(r)] = above[s(r - 1)]
      <4>1. Dist(s(bottom), s(r)) \in (S - bottom - (S - bottom) + 1)..(S - bottom)
        BY <1>0, <1>1, <2>3
      <4> QED BY <1>1, <1>3, <4>1 DEF Turned
    <3>3. above[s(r - 1)] = a[s(r - 1)]
      <4>1. r - 1 \in Scrollable
        BY <1>0, <2>3 DEF Scrollable, S
      <4>2. Dist(f, s(r - 1)) = r - 1
        <5>1. Dist(f, s(r - 1)) = IF r - 1 >= 0 THEN r - 1 ELSE r - 1 + TotalRows
          BY <1>0, <4>1, ScrollSlots DEF s, f, S
        <5> QED BY <1>0, <2>3, <5>1
      <4>3. Dist(f, s(r - 1)) \notin (top - top + 1)..top
        BY <1>0, <2>3, <4>2
      <4> QED BY <1>1, <1>2, <4>3 DEF Turned
    <3>4. Scrolled(a, top, bottom, blank)[s(r)] = a[s(r - 1)]
      <4> HIDE DEF moved, whole
      <4> QED BY <1>6, <2>1, <2>3, <3>1, <3>2, <3>3
    <3> QED BY <1>8, <2>3, <3>4 DEF s, f, RowAfter
  <2>4. CASE r # 0 /\ r < bottom
    <3>1. below[s(r)] = above[s(r)]
      <4>1. Dist(s(bottom), s(r)) \notin (S - bottom - (S - bottom) + 1)..(S - bottom)
        BY <1>0, <1>1, <2>4
      <4> QED BY <1>1, <1>3, <4>1 DEF Turned
    <3>2. above[s(r)] = IF r \in 1..top THEN a[s(r - 1)] ELSE a[s(r)]
      <4>1. (Dist(f, s(r)) \in (top - top + 1)..top) <=> r \in 1..top
        BY <1>0, <1>1
      <4> QED BY <1>1, <1>2, <4>1 DEF Turned
    <3>3. whole => r \notin 1..top
      BY <1>0
    <3>4. Scrolled(a, top, bottom, blank)[s(r)] = IF r \in 1..top THEN a[s(r - 1)] ELSE a[s(r)]
      <4> HIDE DEF moved, whole
      <4> QED BY <1>6, <2>1, <2>4, <3>1, <3>2, <3>3
    <3>5. ~(r > bottom)
      BY <1>0, <2>4
    <3> QED BY <1>8, <2>4, <3>4, <3>5 DEF s, f, RowAfter
  <2> QED BY <1>0, <1>8, <2>2, <2>3, <2>4
<1> QED BY <1>7, <1>8

LEMMA ScrolledType ==
  ASSUME TypeOK, NEW V, NEW a \in [Slots -> V], NEW blank \in V,
         NEW top \in ScreenRow, NEW bottom \in 1..mScreenRows
  PROVE  Scrolled(a, top, bottom, blank) \in [Slots -> V]
<1> DEFINE f == mScreenFirstRow
           above == blockCopyLines(a, f, top)
           below == blockCopyLines(above, externalToInternalRow(bottom), mScreenRows - bottom)
           moved == [below EXCEPT ![f] = a[externalToInternalRow(top)]]
           base == IF top = 0 /\ bottom = mScreenRows THEN a ELSE moved
<1>1. /\ top \in 0..(TotalRows - 1) /\ mScreenRows - bottom \in 0..(TotalRows - 1) /\ f \in Slots
      /\ externalToInternalRow(bottom) \in Slots /\ externalToInternalRow(top) \in Slots
  BY TranscriptAssumption DEF TypeOK, ScreenRow, Slots, externalToInternalRow, Wrap
<1>2. above \in [Slots -> V]
  <2>1. above = Turned(a, f, top, top)
    BY <1>1, LinesMove
  <2> HIDE DEF above
  <2> QED BY <2>1, TurnedType
<1>3. below \in [Slots -> V]
  <2> DEFINE e == externalToInternalRow(bottom)
             len == mScreenRows - bottom
  <2> HIDE DEF above, e, len
  <2>1. below = Turned(above, e, len, len)
    BY <1>1, <1>2, LinesMove DEF e, len
  <2> HIDE DEF below
  <2> QED BY <1>2, <2>1, TurnedType
<1>4. base \in [Slots -> V]
  <2> HIDE DEF below
  <2> QED BY <1>1, <1>3
<1>5. Scrolled(a, top, bottom, blank)
        = [base EXCEPT ![Wrap(Wrap(f + 1) + bottom - 1)] = blank]
  BY DEF Scrolled
<1> HIDE DEF base
<1> QED BY <1>4, <1>5

(* The arrays hold rows.                                                   *)
ArraysOK ==
  /\ mLines \in [Slots -> Text \cup {Blank}]
  /\ mLineWrap \in [Slots -> BOOLEAN]

IInv == TypeOK /\ ArraysOK

(* A row of the transcript or of the screen after a scroll of a region.    *)
LEMMA ScrolledLine ==
  ASSUME IInv, NEW top \in ScreenRow, NEW bottom \in 1..mScreenRows, scroll(top, bottom),
         NEW r \in (-(TotalRows - mScreenRows))..(mScreenRows - 1)
  PROVE  Line(r)' = IF r + 1 = bottom THEN [text |-> Blank, wrap |-> FALSE]
                    ELSE IF r + 1 = 0 THEN Line(top)
                    ELSE IF r + 1 \in 1..top \/ r + 1 > bottom THEN Line(r)
                    ELSE Line(r + 1)
<1> DEFINE f == mScreenFirstRow
           s(row) == SlotOf(f, row)
<1>1. /\ mScreenFirstRow' = Wrap(f + 1) /\ top <= bottom - 1
      /\ mLines' = Scrolled(mLines, top, bottom, Blank)
      /\ mLineWrap' = Scrolled(mLineWrap, top, bottom, FALSE)
  BY DEF scroll
<1>2. /\ TypeOK /\ mLines \in [Slots -> Text \cup {Blank}] /\ mLineWrap \in [Slots -> BOOLEAN]
      /\ Blank \in Text \cup {Blank} /\ FALSE \in BOOLEAN
  BY DEF IInv, ArraysOK
<1>3. r + 1 \in Scrollable /\ r + 1 - 1 = r /\ r \in Int
  BY <1>2, TranscriptAssumption DEF Scrollable, TypeOK
<1>4. /\ externalToInternalRow(r)' = s(r + 1)
      /\ \A k \in {r, r + 1, top} : externalToInternalRow(k) = s(k)
  <2>1. SlotOf(mScreenFirstRow', r) = s(r + 1)
    BY <1>1, <1>2, <1>3, TranscriptAssumption DEF TypeOK, Slots, SlotOf, Wrap, Scrollable
  <2>2. externalToInternalRow(r)' = SlotOf(mScreenFirstRow', r)
    BY DEF externalToInternalRow, SlotOf, Wrap
  <2>3. \A q : externalToInternalRow(q) = s(q)
    BY DEF externalToInternalRow, SlotOf, Wrap
  <2> QED BY <2>1, <2>2, <2>3
<1> DEFINE q == r + 1
<1>5. Scrolled(mLines, top, bottom, Blank)[s(q)] = RowAfter(mLines, f, top, bottom, Blank, q)
  <2> HIDE DEF q
  <2>1. q \in Scrollable
    BY <1>3 DEF q
  <2> QED BY <1>1, <1>2, <2>1, ScrolledRow
<1>6. Scrolled(mLineWrap, top, bottom, FALSE)[s(q)] = RowAfter(mLineWrap, f, top, bottom, FALSE, q)
  <2> HIDE DEF q
  <2>1. q \in Scrollable
    BY <1>3 DEF q
  <2> QED BY <1>1, <1>2, <2>1, ScrolledRow
<1>7. Line(r)' = [text |-> mLines'[s(r + 1)], wrap |-> mLineWrap'[s(r + 1)]]
  BY <1>4 DEF Line
<1>8. \A k \in {r, r + 1, top} : Line(k) = [text |-> mLines[s(k)], wrap |-> mLineWrap[s(k)]]
  BY <1>4 DEF Line
<1>9. /\ mLines'[s(q)] = IF q = bottom THEN Blank ELSE IF q = 0 THEN mLines[s(top)]
                         ELSE IF q \in 1..top \/ q > bottom THEN mLines[s(r)] ELSE mLines[s(q)]
      /\ mLineWrap'[s(q)] = IF q = bottom THEN FALSE ELSE IF q = 0 THEN mLineWrap[s(top)]
                            ELSE IF q \in 1..top \/ q > bottom THEN mLineWrap[s(r)]
                            ELSE mLineWrap[s(q)]
  <2>1. q - 1 = r
    BY <1>3
  <2> HIDE DEF q
  <2>2. /\ mLines'[s(q)] = RowAfter(mLines, f, top, bottom, Blank, q)
        /\ mLineWrap'[s(q)] = RowAfter(mLineWrap, f, top, bottom, FALSE, q)
    BY <1>1, <1>5, <1>6, Zenon
  <2>3. mLines'[s(q)] = IF q = bottom THEN Blank ELSE IF q = 0 THEN mLines[s(top)]
                        ELSE IF q \in 1..top \/ q > bottom THEN mLines[s(r)] ELSE mLines[s(q)]
    BY <2>1, <2>2, Zenon DEF RowAfter
  <2>4. mLineWrap'[s(q)] = IF q = bottom THEN FALSE ELSE IF q = 0 THEN mLineWrap[s(top)]
                           ELSE IF q \in 1..top \/ q > bottom THEN mLineWrap[s(r)]
                           ELSE mLineWrap[s(q)]
    BY <2>1, <2>2, Zenon DEF RowAfter
  <2> QED BY <2>3, <2>4, Zenon
<1> HIDE DEF s
<1> QED BY <1>7, <1>8, <1>9
-----------------------------------------------------------------------------
(* The transcript and the screen as the sequences that Scrollback knows.   *)
Hist == [i \in 1..mActiveTranscriptRows |-> Line(i - 1 - mActiveTranscriptRows)]
Scr == [i \in 1..mScreenRows |-> Line(i - 1)]

LineSet == [text : Text \cup {Blank}, wrap : BOOLEAN]

LEMMA FunctionIsSeq ==
  ASSUME NEW L, NEW n \in Nat, NEW f \in [1..n -> L]
  PROVE  f \in Seq(L) /\ Len(f) = n
OBVIOUS

LEMMA LineType ==
  ASSUME IInv, NEW r \in (-mActiveTranscriptRows)..mScreenRows
  PROVE  Line(r) \in LineSet
<1>1. externalToInternalRow(r) \in Slots
  BY RowsInArray DEF IInv
<1>2. /\ mLines[externalToInternalRow(r)] \in Text \cup {Blank}
      /\ mLineWrap[externalToInternalRow(r)] \in BOOLEAN
  BY <1>1 DEF IInv, ArraysOK
<1> QED BY <1>2 DEF Line, LineSet

LEMMA HistAndScr ==
  ASSUME IInv
  PROVE  /\ Hist \in Seq(LineSet) /\ Len(Hist) = mActiveTranscriptRows
         /\ Scr \in Seq(LineSet) /\ Len(Scr) = mScreenRows
         /\ \A i \in 1..mActiveTranscriptRows : Hist[i] = Line(i - 1 - mActiveTranscriptRows)
         /\ \A i \in 1..mScreenRows : Scr[i] = Line(i - 1)
<1> DEFINE A == mActiveTranscriptRows
           S == mScreenRows
<1>1. A \in Nat /\ S \in Nat
  BY TranscriptAssumption DEF IInv, TypeOK
<1>2. \A i \in 1..A : Line(i - 1 - A) \in LineSet
  <2>1. ASSUME NEW i \in 1..A PROVE i - 1 - A \in (-A)..S
    BY <1>1
  <2> QED BY <2>1, LineType
<1>3. \A i \in 1..S : Line(i - 1) \in LineSet
  <2>1. ASSUME NEW i \in 1..S PROVE i - 1 \in (-A)..S
    BY <1>1
  <2> QED BY <2>1, LineType
<1>4. Hist \in [1..A -> LineSet] /\ Scr \in [1..S -> LineSet]
  BY <1>2, <1>3 DEF Hist, Scr
<1>5. /\ \A i \in 1..A : Hist[i] = Line(i - 1 - A)
      /\ \A i \in 1..S : Scr[i] = Line(i - 1)
  BY DEF Hist, Scr
<1> HIDE DEF A, S
<1>6. /\ Hist \in Seq(LineSet) /\ Len(Hist) = A
      /\ Scr \in Seq(LineSet) /\ Len(Scr) = S
  BY <1>1, <1>4, FunctionIsSeq
<1> QED BY <1>5, <1>6 DEF A, S

(* What Scrollback makes of the history when a line joins it.              *)
LEMMA NewHistory ==
  ASSUME NEW L, NEW h \in Seq(L), NEW x \in L, NEW m \in Nat \ {0}, Len(h) <= m,
         NEW g \in Seq(L), Len(g) = IF Len(h) < m THEN Len(h) + 1 ELSE Len(h),
         \A i \in 1..Len(g) : g[i] = IF i = Len(g) THEN x ELSE h[i + (Len(h) + 1 - Len(g))]
  PROVE  g = SB!Last(Append(h, x), m)
<1> DEFINE p == Append(h, x)
           n == Len(h)
<1>1. /\ p \in Seq(L) /\ Len(p) = n + 1 /\ n \in Nat
      /\ \A i \in 1..n : p[i] = h[i]
      /\ p[n + 1] = x
  BY AppendProperties
<1> HIDE DEF p
<1>2. CASE n < m
  <2>1. SB!Last(p, m) = p
    BY <1>1, <1>2 DEF SB!Last
  <2>2. Len(g) = n + 1
    BY <1>2
  <2>3. ASSUME NEW i \in 1..Len(g) PROVE g[i] = p[i]
    <3>1. CASE i = n + 1
      BY <1>1, <2>2, <3>1
    <3>2. CASE i # n + 1
      <4>1. i \in 1..n /\ i + (n + 1 - Len(g)) = i
        BY <1>1, <2>2, <3>2
      <4> QED BY <1>1, <2>2, <3>2, <4>1
    <3> QED BY <3>1, <3>2
  <2>4. g = p
    BY <1>1, <2>2, <2>3, SeqEqual
  <2> QED BY <2>1, <2>4 DEF p
<1>3. CASE ~(n < m)
  <2>1. n = m /\ Len(g) = n
    BY <1>1, <1>3
  <2>2. SB!Last(p, m) = SubSeq(p, 2, n + 1)
    <3>1. ~(m >= Len(p)) /\ Len(p) - m + 1 = 2
      BY <1>1, <2>1
    <3> QED BY <1>1, <3>1 DEF SB!Last
  <2>3. \A i \in 2..(n + 1) : p[i] \in L
    BY <1>1
  <2> DEFINE q == SubSeq(p, 2, n + 1)
  <2>4. /\ q \in Seq(L)
        /\ Len(q) = IF 2 <= n + 1 THEN n + 1 - 2 + 1 ELSE 0
        /\ \A i \in 1..(n + 1 - 2 + 1) : q[i] = p[2 + i - 1]
    <3>1. 2 \in Int /\ n + 1 \in Int
      BY <1>1
    <3> QED BY <2>3, <3>1, SubSeqProperties
  <2> HIDE DEF q
  <2>5. Len(q) = n /\ \A i \in 1..n : q[i] = p[i + 1]
    BY <1>1, <2>1, <2>4
  <2>6. ASSUME NEW i \in 1..Len(g) PROVE g[i] = q[i]
    <3>1. CASE i = n
      BY <1>1, <2>1, <2>5, <3>1
    <3>2. CASE i # n
      <4>1. i + 1 \in 1..n /\ i + (n + 1 - Len(g)) = i + 1 /\ i \in 1..n
        BY <1>1, <2>1, <3>2
      <4> QED BY <1>1, <2>1, <2>5, <3>2, <4>1
    <3> QED BY <3>1, <3>2
  <2>7. g = q
    BY <2>1, <2>4, <2>5, <2>6, SeqEqual
  <2> QED BY <2>2, <2>7 DEF p, q
<1> QED BY <1>2, <1>3
-----------------------------------------------------------------------------
(* blockCopy() after n turns.                                              *)
Done(sy, dy, h, n) == IF sy > dy THEN 0..(n - 1) ELSE (h - n)..(h - 1)

RowsTurned(a, f, sy, dy, h, n) ==
  [i \in Slots |-> IF Dist(f, i) - dy \in Done(sy, dy, h, n)
                   THEN a[SlotOf(f, Dist(f, i) - dy + sy)] ELSE a[i]]

(* A block of h rows from sy and one from dy on, on a screen of some rows. *)
OnScreen(rows, sy, dy, h) ==
  /\ rows \in 1..(TotalRows - 1) /\ sy \in 0..(rows - 1) /\ dy \in 0..(rows - 1)
  /\ h \in 1..rows /\ sy + h <= rows /\ dy + h <= rows

(* The row a turn copies was not overwritten by a turn before.             *)
LEMMA CopyOneRow ==
  ASSUME NEW f \in Slots, NEW rows, NEW sy, NEW dy, NEW h, OnScreen(rows, sy, dy, h),
         NEW n \in 1..h
  PROVE  LET t == CopyOrder(sy, dy, h, n)
             x == SlotOf(f, dy + t)
             y == SlotOf(f, sy + t)
         IN  /\ t \in 0..(h - 1) /\ x \in Slots /\ y \in Slots
             /\ Dist(f, x) = dy + t /\ Dist(f, y) = sy + t
             /\ t \in Done(sy, dy, h, n)
             /\ sy + t - dy \notin Done(sy, dy, h, n - 1)
             /\ \A k \in Int : k # t => (k \in Done(sy, dy, h, n) <=> k \in Done(sy, dy, h, n - 1))
             /\ \A i \in Slots : Dist(f, i) \in Int /\ (Dist(f, i) = dy + t => i = x)
BY TranscriptAssumption DEF OnScreen, CopyOrder, Slots, SlotOf, Wrap, Dist, Done

LEMMA RowsTurnedStep ==
  ASSUME NEW V, NEW a \in [Slots -> V], NEW f \in Slots,
         NEW rows, NEW sy, NEW dy, NEW h, OnScreen(rows, sy, dy, h)
  PROVE  /\ RowsTurned(a, f, sy, dy, h, 0) = a
         /\ \A n \in 1..h :
              RowsTurned(a, f, sy, dy, h, n)
                = Step(RowsTurned(a, f, sy, dy, h, n - 1),
                       SlotOf(f, dy + CopyOrder(sy, dy, h, n)),
                       SlotOf(f, sy + CopyOrder(sy, dy, h, n)))
<1>0. h \in Nat /\ sy \in Nat /\ dy \in Nat
  BY TranscriptAssumption DEF OnScreen
<1>1. RowsTurned(a, f, sy, dy, h, 0) = a
  <2>1. \A k : k \notin Done(sy, dy, h, 0)
    BY <1>0 DEF Done
  <2> QED BY <2>1 DEF RowsTurned
<1>2. ASSUME NEW n \in 1..h
      PROVE  RowsTurned(a, f, sy, dy, h, n)
                = Step(RowsTurned(a, f, sy, dy, h, n - 1),
                       SlotOf(f, dy + CopyOrder(sy, dy, h, n)),
                       SlotOf(f, sy + CopyOrder(sy, dy, h, n)))
  <2> DEFINE t == CopyOrder(sy, dy, h, n)
             x == SlotOf(f, dy + t)
             y == SlotOf(f, sy + t)
             T == RowsTurned(a, f, sy, dy, h, n)
             U == RowsTurned(a, f, sy, dy, h, n - 1)
  <2>1. /\ t \in 0..(h - 1) /\ x \in Slots /\ y \in Slots
        /\ Dist(f, x) = dy + t /\ Dist(f, y) = sy + t
        /\ t \in Done(sy, dy, h, n)
        /\ sy + t - dy \notin Done(sy, dy, h, n - 1)
        /\ \A k \in Int : k # t => (k \in Done(sy, dy, h, n) <=> k \in Done(sy, dy, h, n - 1))
        /\ \A i \in Slots : Dist(f, i) \in Int /\ (Dist(f, i) = dy + t => i = x)
    BY CopyOneRow
  <2> HIDE DEF t
  <2>2. U[y] = a[y]
    <3> HIDE DEF x, y
    <3>0. Dist(f, y) - dy = sy + t - dy
      BY <1>0, <2>1
    <3>1. Dist(f, y) - dy \notin Done(sy, dy, h, n - 1)
      BY <2>1, <3>0, Zenon
    <3> QED BY <2>1, <3>1 DEF RowsTurned
  <2>3. T[x] = a[y]
    <3>1. Dist(f, x) - dy = t /\ Dist(f, x) - dy + sy = sy + t
      BY <1>0, <2>1
    <3>2. T[x] = a[SlotOf(f, Dist(f, x) - dy + sy)]
      <4> HIDE DEF x
      <4> QED BY <2>1, <3>1 DEF RowsTurned
    <3>3. SlotOf(f, Dist(f, x) - dy + sy) = y
      BY <3>1
    <3> HIDE DEF T, x, y
    <3> QED BY <3>2, <3>3
  <2> HIDE DEF x, y
  <2>4. ASSUME NEW i \in Slots PROVE T[i] = [U EXCEPT ![x] = U[y]][i]
    <3>1. CASE i = x
      <4>1. x \in DOMAIN U
        BY <2>1 DEF RowsTurned
      <4> HIDE DEF T, U
      <4> QED BY <2>2, <2>3, <3>1, <4>1
    <3>2. CASE i # x
      <4>1. Dist(f, i) \in Int /\ Dist(f, i) - dy # t /\ Dist(f, i) - dy \in Int
        BY <1>0, <2>1, <3>2
      <4>2. Dist(f, i) - dy \in Done(sy, dy, h, n) <=> Dist(f, i) - dy \in Done(sy, dy, h, n - 1)
        BY <2>1, <4>1
      <4>3. T[i] = U[i]
        BY <4>2 DEF RowsTurned
      <4>4. i \in DOMAIN U
        BY DEF RowsTurned
      <4> HIDE DEF T, U
      <4> QED BY <3>2, <4>3, <4>4
    <3> QED BY <3>1, <3>2
  <2>5. /\ T = [i \in Slots |-> T[i]]
        /\ [U EXCEPT ![x] = U[y]] = [i \in Slots |-> [U EXCEPT ![x] = U[y]][i]]
    <3>1. T = [i \in Slots |-> T[i]] /\ U = [i \in Slots |-> U[i]]
      BY DEF RowsTurned
    <3> HIDE DEF T, U
    <3> QED BY <3>1
  <2> HIDE DEF T, U
  <2>6. T = Step(U, x, y)
    BY <2>4, <2>5 DEF Step
  <2> QED BY <2>6 DEF T, U, x, y, t
<1> QED BY <1>1, <1>2

RowDst(f, sy, dy, h) == [n \in 0..h |-> SlotOf(f, dy + CopyOrder(sy, dy, h, n))]
RowSrc(f, sy, dy, h) == [n \in 0..h |-> SlotOf(f, sy + CopyOrder(sy, dy, h, n))]
RowLoop(a, f, sy, dy, h) == [n \in 0..h |-> RowsTurned(a, f, sy, dy, h, n)]

LEMMA RowLoopTurns ==
  ASSUME NEW V, NEW a \in [Slots -> V], NEW f \in Slots,
         NEW rows, NEW sy, NEW dy, NEW h, OnScreen(rows, sy, dy, h)
  PROVE  /\ RowLoop(a, f, sy, dy, h)[0] = a
         /\ Turns(RowLoop(a, f, sy, dy, h), h, RowDst(f, sy, dy, h), RowSrc(f, sy, dy, h))
<1>1. h \in Nat /\ 0 \in 0..h /\ \A n \in 1..h : n \in 0..h /\ n - 1 \in 0..h
  BY TranscriptAssumption DEF OnScreen
<1>2. RowLoop(a, f, sy, dy, h)[0] = a
  <2>1. RowsTurned(a, f, sy, dy, h, 0) = a
    BY RowsTurnedStep
  <2> QED BY <1>1, <2>1 DEF RowLoop
<1>3. ASSUME NEW n \in 1..h
      PROVE  RowLoop(a, f, sy, dy, h)[n]
               = Step(RowLoop(a, f, sy, dy, h)[n - 1], RowDst(f, sy, dy, h)[n], RowSrc(f, sy, dy, h)[n])
  <2>1. RowsTurned(a, f, sy, dy, h, n)
                = Step(RowsTurned(a, f, sy, dy, h, n - 1),
                       SlotOf(f, dy + CopyOrder(sy, dy, h, n)),
                       SlotOf(f, sy + CopyOrder(sy, dy, h, n)))
    BY RowsTurnedStep
  <2>2. /\ RowLoop(a, f, sy, dy, h)[n] = RowsTurned(a, f, sy, dy, h, n)
        /\ RowLoop(a, f, sy, dy, h)[n - 1] = RowsTurned(a, f, sy, dy, h, n - 1)
        /\ RowDst(f, sy, dy, h)[n] = SlotOf(f, dy + CopyOrder(sy, dy, h, n))
        /\ RowSrc(f, sy, dy, h)[n] = SlotOf(f, sy + CopyOrder(sy, dy, h, n))
    BY <1>1 DEF RowLoop, RowDst, RowSrc
  <2> QED BY <2>1, <2>2, Zenon
<1> QED BY <1>2, <1>3 DEF Turns

(* RowsAfterTurns is defined: the equation of its recursion has a          *)
(* solution, and it is RowsTurned.                                         *)
LEMMA RowsMove ==
  ASSUME IInv, NEW sy \in ScreenRow, NEW dy \in ScreenRow, NEW h \in 1..mScreenRows,
         sy + h <= mScreenRows, dy + h <= mScreenRows
  PROVE  RowsAfterTurns(sy, dy, h)[h] = RowsTurned(mLines, mScreenFirstRow, sy, dy, h, h)
<1> DEFINE s(row) == externalToInternalRow(row)
           a == mLines
           X == RowDst(mScreenFirstRow, sy, dy, h)
           Y == RowSrc(mScreenFirstRow, sy, dy, h)
           Body(f) == [n \in 0..h |-> IF n = 0 THEN a
                         ELSE [f[n - 1] EXCEPT ![s(dy + CopyOrder(sy, dy, h, n))] =
                                 f[n - 1][s(sy + CopyOrder(sy, dy, h, n))]]]
           g == RowLoop(a, mScreenFirstRow, sy, dy, h)
           f == RowsAfterTurns(sy, dy, h)
<1>0. h \in Nat /\ 0 \in 0..h /\ \A n \in 1..h : n \in 0..h /\ n - 1 \in 0..h /\ n # 0
  BY TranscriptAssumption DEF IInv, TypeOK
<1>1. g[0] = a /\ Turns(g, h, X, Y)
  <2>1. /\ mLines \in [Slots -> Text \cup {Blank}] /\ mScreenFirstRow \in Slots
        /\ OnScreen(mScreenRows, sy, dy, h)
    BY TranscriptAssumption DEF IInv, TypeOK, ArraysOK, ScreenRow, OnScreen
  <2> QED BY <2>1, RowLoopTurns
<1>X. \A n \in 1..h : /\ X[n] = s(dy + CopyOrder(sy, dy, h, n))
                      /\ Y[n] = s(sy + CopyOrder(sy, dy, h, n))
  <2>1. \A row : s(row) = SlotOf(mScreenFirstRow, row)
    BY DEF externalToInternalRow, SlotOf, Wrap
  <2> HIDE DEF s
  <2> QED BY <1>0, <2>1 DEF RowDst, RowSrc
<1>G. g = [n \in 0..h |-> g[n]]
  BY DEF RowLoop
<1> HIDE DEF X, Y, s, g
<1>2. g = Body(g)
  <2>1. \A n \in 0..h : g[n] = Body(g)[n]
    <3> SUFFICES ASSUME NEW n \in 0..h PROVE g[n] = Body(g)[n]
      OBVIOUS
    <3>1. CASE n = 0
      BY <1>1, <3>1
    <3>2. CASE n # 0
      <4>1. n \in 1..h
        BY <1>0, <3>2
      <4>2. g[n] = Step(g[n - 1], X[n], Y[n])
        BY <1>1, <4>1 DEF Turns
      <4> QED BY <1>X, <3>2, <4>1, <4>2 DEF Step
    <3> QED BY <3>1, <3>2
  <2> QED BY <1>G, <2>1
<1>3. f = Body(f)
  BY <1>2 DEF RowsAfterTurns, s
<1> HIDE DEF f
<1>4. f[0] = a
  BY <1>0, <1>3
<1>5. ASSUME NEW n \in 1..h PROVE f[n] = Step(f[n - 1], X[n], Y[n])
  <2>1. f[n] = Body(f)[n]
    <3> HIDE DEF Body
    <3> QED BY <1>3
  <2>2. X[n] = s(dy + CopyOrder(sy, dy, h, n)) /\ Y[n] = s(sy + CopyOrder(sy, dy, h, n))
    BY <1>X
  <2> QED BY <1>0, <2>1, <2>2 DEF Step
<1>6. f[h] = g[h]
  <2>1. Turns(f, h, X, Y) /\ Turns(g, h, X, Y)
    BY <1>1, <1>5 DEF Turns
  <2> QED BY <1>0, <1>1, <1>4, <2>1, SameLoop
<1>7. h \in 0..h
  BY <1>0
<1> QED BY <1>6, <1>7 DEF f, g, RowLoop

(* Rows of equal sequences.                                                *)
LEMMA SameFunction ==
  ASSUME NEW n, NEW f, NEW g, f = [i \in 1..n |-> f[i]], g = [i \in 1..n |-> g[i]],
         \A i \in 1..n : f[i] = g[i]
  PROVE  f = g
OBVIOUS

(* The slots of the rows in use.                                           *)
LEMMA UsedSlots ==
  ASSUME TypeOK, NEW r \in (-mActiveTranscriptRows)..(mScreenRows - 1)
  PROVE  /\ externalToInternalRow(r) = SlotOf(mScreenFirstRow, r)
         /\ SlotOf(mScreenFirstRow, r) \in Slots
         /\ Dist(mScreenFirstRow, SlotOf(mScreenFirstRow, r))
              = IF r >= 0 THEN r ELSE r + TotalRows
BY TranscriptAssumption
   DEF TypeOK, Slots, SlotOf, Wrap, Dist, externalToInternalRow

(* A row after blockCopy().                                                *)
LEMMA CopiedLine ==
  ASSUME IInv, NEW sy \in ScreenRow, NEW dy \in ScreenRow, NEW h \in 1..mScreenRows,
         blockCopy(sy, dy, h), NEW r \in (-mActiveTranscriptRows)..(mScreenRows - 1)
  PROVE  Line(r)' = IF r \in dy..(dy + h - 1)
                    THEN [Line(r) EXCEPT !.text = Line(r - dy + sy).text] ELSE Line(r)
<1> DEFINE f == mScreenFirstRow
           x == externalToInternalRow(r)
<1>1. /\ sy + h <= mScreenRows /\ dy + h <= mScreenRows
      /\ mLines' = RowsAfterTurns(sy, dy, h)[h]
      /\ mLineWrap' = mLineWrap /\ mScreenFirstRow' = mScreenFirstRow
  BY DEF blockCopy, window
<1>2. mLines' = RowsTurned(mLines, f, sy, dy, h, h)
  BY <1>1, RowsMove
<1>3. /\ x = SlotOf(f, r) /\ x \in Slots
      /\ Dist(f, x) = IF r >= 0 THEN r ELSE r + TotalRows
  BY UsedSlots DEF IInv
<1>4. externalToInternalRow(r)' = x
  BY <1>1 DEF externalToInternalRow
<1>5. Line(r)' = [text |-> mLines'[x], wrap |-> mLineWrap[x]]
  BY <1>1, <1>4 DEF Line
<1>6. Line(r) = [text |-> mLines[x], wrap |-> mLineWrap[x]]
  BY DEF Line
<1>7. Dist(f, x) - dy \in Done(sy, dy, h, h) <=> r \in dy..(dy + h - 1)
  BY <1>1, <1>3, TranscriptAssumption DEF IInv, TypeOK, ScreenRow, Done
<1> HIDE DEF x
<1>8. CASE r \in dy..(dy + h - 1)
  <2>1. Dist(f, x) - dy + sy = r - dy + sy
    BY <1>3, <1>8, TranscriptAssumption DEF IInv, TypeOK, ScreenRow
  <2>2. mLines'[x] = mLines[SlotOf(f, r - dy + sy)]
    BY <1>2, <1>3, <1>7, <1>8, <2>1 DEF RowsTurned
  <2>3. SlotOf(f, r - dy + sy) = externalToInternalRow(r - dy + sy)
    BY DEF SlotOf, externalToInternalRow, Wrap
  <2>4. Line(r - dy + sy).text = mLines[externalToInternalRow(r - dy + sy)]
    BY DEF Line
  <2>5. Line(r)' = [text |-> Line(r - dy + sy).text, wrap |-> mLineWrap[x]]
    BY <1>5, <2>2, <2>3, <2>4, Zenon
  <2>6. [Line(r) EXCEPT !.text = Line(r - dy + sy).text]
          = [text |-> Line(r - dy + sy).text, wrap |-> mLineWrap[x]]
    <3> DEFINE v == Line(r - dy + sy).text
    <3> HIDE DEF v
    <3>1. [Line(r) EXCEPT !.text = v] = [text |-> v, wrap |-> mLineWrap[x]]
      BY <1>6
    <3> QED BY <3>1 DEF v
  <2> QED BY <1>8, <2>5, <2>6, Zenon
<1>9. CASE r \notin dy..(dy + h - 1)
  <2>1. mLines'[x] = mLines[x]
    BY <1>2, <1>3, <1>7, <1>9 DEF RowsTurned
  <2>2. Line(r)' = Line(r)
    BY <1>5, <1>6, <2>1, Zenon
  <2> QED BY <1>9, <2>2, Zenon
<1> QED BY <1>8, <1>9

LEMMA CopyIsPromised ==
  ASSUME IInv, NEW sy \in ScreenRow, NEW dy \in ScreenRow, NEW h \in 1..mScreenRows,
         blockCopy(sy, dy, h)
  PROVE  SB!CopyTextOf(sy + 1, dy + 1, h)
<1> DEFINE A == mActiveTranscriptRows
           S == mScreenRows
           copy == [k \in 1..S |-> IF k \in (dy + 1)..(dy + 1 + h - 1)
                      THEN [Scr[k] EXCEPT !.text = Scr[sy + 1 + k - (dy + 1)].text]
                      ELSE Scr[k]]
<1>1. /\ sy + h <= S /\ dy + h <= S /\ S' = S /\ A' = A /\ mCursorRow' = mCursorRow
  BY DEF blockCopy, window
<1>2. /\ S \in Nat /\ A \in Nat /\ sy \in Nat /\ dy \in Nat /\ h \in Nat
  BY TranscriptAssumption DEF IInv, TypeOK, ScreenRow
<1>3. Len(Scr) = S
  BY HistAndScr
<1>4. Hist' = Hist
  <2>1. ASSUME NEW i \in 1..A PROVE Line(i - 1 - A)' = Line(i - 1 - A)
    <3>1. PICK r \in Int : r = i - 1 - A
      BY <1>2
    <3>2. r \in (-A)..(S - 1) /\ r \notin dy..(dy + h - 1)
      BY <1>2, <3>1
    <3>3. Line(r)' = Line(r)
      BY <3>2, CopiedLine
    <3>4. (r = i - 1 - A)'
      BY <1>1, <3>1
    <3> QED BY <3>1, <3>3, <3>4
  <2>2. Hist' = [i \in 1..A |-> Line(i - 1 - A)']
    BY <1>1 DEF Hist
  <2> QED BY <2>1, <2>2 DEF Hist
<1>5. Scr' = copy
  <2>1. Scr' = [i \in 1..S |-> Line(i - 1)']
    BY <1>1 DEF Scr
  <2>2. ASSUME NEW i \in 1..S PROVE Line(i - 1)' = copy[i]
    <3>1. i - 1 \in (-A)..(S - 1) /\ Scr[i] = Line(i - 1)
      BY <1>2 DEF Scr
    <3>2. CASE i \in (dy + 1)..(dy + 1 + h - 1)
      <4>1. i - 1 \in dy..(dy + h - 1) /\ sy + 1 + i - (dy + 1) \in 1..S
            /\ sy + 1 + i - (dy + 1) - 1 = i - 1 - dy + sy
        BY <1>1, <1>2, <3>2
      <4>2. Line(i - 1)' = [Line(i - 1) EXCEPT !.text = Line(i - 1 - dy + sy).text]
        BY <3>1, <4>1, CopiedLine
      <4>3. Scr[sy + 1 + i - (dy + 1)] = Line(i - 1 - dy + sy)
        <5> DEFINE k == sy + 1 + i - (dy + 1)
        <5> HIDE DEF k
        <5>1. k \in 1..S /\ k - 1 = i - 1 - dy + sy
          BY <1>2, <4>1 DEF k
        <5>2. Scr[k] = Line(k - 1)
          BY <5>1 DEF Scr
        <5> QED BY <5>1, <5>2 DEF k
      <4>4. copy[i] = [Scr[i] EXCEPT !.text = Scr[sy + 1 + i - (dy + 1)].text]
        BY <3>2
      <4> HIDE DEF copy
      <4> QED BY <3>1, <4>2, <4>3, <4>4, Zenon
    <3>3. CASE i \notin (dy + 1)..(dy + 1 + h - 1)
      <4>1. i - 1 \notin dy..(dy + h - 1)
        BY <1>2, <3>3
      <4>2. Line(i - 1)' = Line(i - 1)
        BY <3>1, <4>1, CopiedLine
      <4>3. copy[i] = Scr[i]
        BY <3>3
      <4> HIDE DEF copy
      <4> QED BY <3>1, <4>2, <4>3, Zenon
    <3> QED BY <3>2, <3>3
  <2>3. copy = [i \in 1..S |-> copy[i]]
    OBVIOUS
  <2> HIDE DEF copy
  <2> QED BY <2>1, <2>2, <2>3
<1>6. dy + 1 + h - 1 <= S /\ sy + 1 + h - 1 <= S
  BY <1>1, <1>2
<1> QED BY <1>1, <1>3, <1>4, <1>5, <1>6 DEF SB!CopyTextOf, SB!Rows, Hist, Scr
-----------------------------------------------------------------------------
LEMMA RowsTurnedType ==
  ASSUME IInv, NEW sy \in ScreenRow, NEW dy \in ScreenRow, NEW h \in 1..mScreenRows,
         sy + h <= mScreenRows, dy + h <= mScreenRows
  PROVE  RowsTurned(mLines, mScreenFirstRow, sy, dy, h, h) \in [Slots -> Text \cup {Blank}]
<1>1. ASSUME NEW i \in Slots,
             Dist(mScreenFirstRow, i) - dy \in Done(sy, dy, h, h)
      PROVE  SlotOf(mScreenFirstRow, Dist(mScreenFirstRow, i) - dy + sy) \in Slots
  BY <1>1, TranscriptAssumption DEF IInv, TypeOK, ScreenRow, Slots, SlotOf, Wrap, Dist, Done
<1> QED BY <1>1 DEF RowsTurned, IInv, ArraysOK

LEMMA ResizedType ==
  ASSUME NEW V, NEW a \in [Slots -> V], NEW blank \in V, NEW B
  PROVE  [i \in Slots |-> IF i \in B THEN blank ELSE a[i]] \in [Slots -> V]
OBVIOUS

(* The arrays keep their type in every step.                               *)
LEMMA StepArrays ==
  ASSUME IInv, [Next]_vars
  PROVE  ArraysOK'
<1>0. TypeOK /\ mLines \in [Slots -> Text \cup {Blank}] /\ mLineWrap \in [Slots -> BOOLEAN]
      /\ Blank \in Text \cup {Blank} /\ FALSE \in BOOLEAN
  BY DEF IInv, ArraysOK
<1>1. CASE setChar
  BY <1>0, <1>1 DEF setChar, ArraysOK, Slots
<1>2. CASE setLineWrap
  BY <1>0, <1>2 DEF setLineWrap, ArraysOK, Slots
<1>3. CASE setCursorRow
  BY <1>0, <1>3 DEF setCursorRow, arrays, ArraysOK, Slots
<1>4. CASE BlockCopy
  <2>1. PICK sy \in ScreenRow, dy \in ScreenRow, h \in 1..mScreenRows : blockCopy(sy, dy, h)
    BY <1>4 DEF BlockCopy
  <2>2. /\ sy + h <= mScreenRows /\ dy + h <= mScreenRows
        /\ mLines' = RowsAfterTurns(sy, dy, h)[h] /\ mLineWrap' = mLineWrap
    BY <2>1 DEF blockCopy
  <2>3. mLines' \in [Slots -> Text \cup {Blank}]
    BY <2>2, RowsMove, RowsTurnedType
  <2> QED BY <1>0, <2>2, <2>3 DEF ArraysOK, Slots
<1>5. CASE Scroll
  <2>1. PICK top \in ScreenRow, bottom \in 1..mScreenRows : scroll(top, bottom)
    BY <1>5 DEF Scroll
  <2>2. /\ mLines' = Scrolled(mLines, top, bottom, Blank)
        /\ mLineWrap' = Scrolled(mLineWrap, top, bottom, FALSE)
    BY <2>1 DEF scroll
  <2>3. mLines' \in [Slots -> Text \cup {Blank}] /\ mLineWrap' \in [Slots -> BOOLEAN]
    BY <1>0, <2>2, ScrolledType
  <2> QED BY <2>3 DEF ArraysOK, Slots
<1>6. CASE Resize
  <2>1. PICK rows \in 1..MaxScreenRows : resize(rows)
    BY <1>6 DEF Resize
  <2>2. /\ mLines' = [i \in Slots |-> IF i \in Blanked(rows) THEN Blank ELSE mLines[i]]
        /\ mLineWrap' = [i \in Slots |-> IF i \in Blanked(rows) THEN FALSE ELSE mLineWrap[i]]
    BY <2>1 DEF resize
  <2>3. mLines' \in [Slots -> Text \cup {Blank}] /\ mLineWrap' \in [Slots -> BOOLEAN]
    BY <1>0, <2>2, ResizedType
  <2> QED BY <2>3 DEF ArraysOK, Slots
<1>7. CASE UNCHANGED vars
  BY <1>0, <1>7 DEF vars, arrays, ArraysOK, Slots
<1> QED BY <1>1, <1>2, <1>3, <1>4, <1>5, <1>6, <1>7 DEF Next

LEMMA IInvStep ==
  ASSUME IInv, [Next]_vars
  PROVE  IInv'
BY StepWindow, StepArrays DEF IInv

LEMMA InitIInv == Init => IInv
BY InitWindow DEF Init, IInv, ArraysOK

(* The window and the arrays: the invariant that the refinement rests on.  *)
THEOREM InductiveInvariant == Spec => []IInv
<1>1. Init => IInv
  BY InitIInv
<1>2. IInv /\ [Next]_vars => IInv'
  BY IInvStep
<1> QED BY <1>1, <1>2, PTL DEF Spec

(* scroll(): the top line of the region joins the history, which drops its *)
(* oldest line when the array is full, and nothing outside the region      *)
(* moves.                                                                  *)
LEMMA ScrollIsPromised ==
  ASSUME IInv, NEW top \in ScreenRow, NEW bottom \in 1..mScreenRows, scroll(top, bottom)
  PROVE  SB!ScrollRegion(top, bottom)
<1> DEFINE A == mActiveTranscriptRows
           S == mScreenRows
           scr == [i \in 1..S |-> CASE i <= top \/ i > bottom -> Scr[i]
                                    [] i = bottom -> SB!BlankLine
                                    [] OTHER -> Scr[i + 1]]
<1>1. /\ top <= bottom - 1 /\ S' = S /\ mCursorRow' = mCursorRow
      /\ A' = IF A < TotalRows - S THEN A + 1 ELSE A
  BY DEF scroll, OneMoreRow
<1>2. /\ S \in Nat /\ A \in Nat /\ top \in Nat /\ bottom \in Nat /\ TotalRows \in Nat
      /\ A <= TotalRows - S /\ TotalRows - S \in Nat \ {0}
      /\ top < bottom /\ bottom <= S /\ A' \in Nat
  BY <1>1, TranscriptAssumption DEF IInv, TypeOK, ScreenRow
<1>3. IInv'
  <2>1. [Next]_vars
    BY DEF Next, Scroll
  <2> QED BY <2>1, IInvStep
<1>4. /\ Hist \in Seq(LineSet) /\ Len(Hist) = A
      /\ Scr \in Seq(LineSet) /\ Len(Scr) = S
      /\ \A i \in 1..A : Hist[i] = Line(i - 1 - A)
      /\ \A i \in 1..S : Scr[i] = Line(i - 1)
  BY HistAndScr
<1>5. /\ Hist' \in Seq(LineSet) /\ Len(Hist') = A'
      /\ \A i \in 1..A' : Hist'[i] = (Line(i - 1 - A))'
  <2>1. (IInv => /\ Hist \in Seq(LineSet) /\ Len(Hist) = A
                 /\ \A i \in 1..A : Hist[i] = Line(i - 1 - A))'
    BY HistAndScr, PTL
  <2> QED BY <1>3, <2>1 DEF LineSet
<1>6. Scr[top + 1] = Line(top) /\ Scr[top + 1] \in LineSet
  <2>1. top + 1 \in 1..S /\ top + 1 - 1 = top
    BY <1>2
  <2>2. PICK k \in 1..S : k = top + 1 /\ k - 1 = top
    BY <1>2, <2>1
  <2>4. Scr[k] = Line(k - 1)
    BY <1>4
  <2>3. top \in (-A)..S
    BY <1>2
  <2> QED BY <2>2, <2>3, <2>4, LineType
<1>B. PICK B \in Nat : B = A'
  BY <1>2
<1>7. ASSUME NEW i \in 1..B
      PROVE  Hist'[i] = IF i = B THEN Scr[top + 1] ELSE Hist[i + (A + 1 - B)]
  <2>1. PICK r \in Int : r = i - 1 - B
    BY <1>2
  <2>2. Hist'[i] = Line(r)'
    BY <1>5, <1>B, <2>1
  <2>3. r \in (-(TotalRows - S))..(S - 1) /\ r + 1 # bottom /\ r + 1 <= 0
    BY <1>1, <1>2, <1>B, <2>1
  <2>4. Line(r)' = IF r + 1 = bottom THEN [text |-> Blank, wrap |-> FALSE]
                    ELSE IF r + 1 = 0 THEN Line(top)
                    ELSE IF r + 1 \in 1..top \/ r + 1 > bottom THEN Line(r)
                    ELSE Line(r + 1)
    BY <2>3, ScrolledLine
  <2>5. r + 1 \notin 1..top /\ ~(r + 1 > bottom)
    BY <1>2, <2>3
  <2>6. Line(r)' = IF r + 1 = 0 THEN Line(top) ELSE Line(r + 1)
    BY <2>3, <2>4, <2>5, Zenon
  <2>7. CASE i = B
    <3>1. r + 1 = 0
      BY <1>2, <2>1, <2>7
    <3> QED BY <1>6, <2>2, <2>6, <2>7, <3>1, Zenon
  <2>8. CASE i # B
    <3>1. r + 1 # 0
      BY <1>2, <2>1, <2>8
    <3>2. PICK k \in Int : k = i + (A + 1 - B)
      BY <1>2
    <3>3. k \in 1..A /\ k - 1 - A = r + 1
      BY <1>1, <1>2, <1>B, <2>1, <2>8, <3>2
    <3>4. Hist[k] = Line(r + 1)
      BY <1>4, <3>3
    <3> QED BY <2>2, <2>6, <2>8, <3>1, <3>2, <3>4, Zenon
  <2> QED BY <2>7, <2>8
<1>8. Hist' = SB!Last(Append(Hist, Scr[top + 1]), TotalRows - S)
  <2> DEFINE m == TotalRows - S
             x == Scr[top + 1]
             n == A
             k == A'
             g == Hist'
             h == Hist
             L == LineSet
  <2>1. /\ m \in Nat \ {0} /\ x \in L /\ h \in Seq(L) /\ g \in Seq(L) /\ Len(h) <= m
        /\ Len(g) = IF Len(h) < m THEN Len(h) + 1 ELSE Len(h)
    BY <1>1, <1>2, <1>4, <1>5, <1>6
  <2>2. \A i \in 1..Len(g) : g[i] = IF i = Len(g) THEN x ELSE h[i + (Len(h) + 1 - Len(g))]
    BY <1>4, <1>5, <1>B, <1>7
  <2> HIDE DEF m, x, g, h, L
  <2>3. g = SB!Last(Append(h, x), m)
    BY <2>1, <2>2, NewHistory
  <2> QED BY <2>3 DEF m, x, g, h
<1>9. Scr' = scr
  <2>1. Scr' = [i \in 1..S |-> Line(i - 1)']
    BY <1>1 DEF Scr
  <2>2. ASSUME NEW i \in 1..S PROVE Line(i - 1)' = scr[i]
    <3>1. PICK r \in Int : r = i - 1
      BY <1>2
    <3>2. r \in (-(TotalRows - S))..(S - 1) /\ r + 1 = i /\ r + 1 # 0
      BY <1>2, <3>1
    <3>3. Line(r)' = IF r + 1 = bottom THEN [text |-> Blank, wrap |-> FALSE]
                      ELSE IF r + 1 = 0 THEN Line(top)
                      ELSE IF r + 1 \in 1..top \/ r + 1 > bottom THEN Line(r)
                      ELSE Line(r + 1)
      BY <3>2, ScrolledLine
    <3>4. Line(i - 1)' = IF i = bottom THEN [text |-> Blank, wrap |-> FALSE]
                         ELSE IF i \in 1..top \/ i > bottom THEN Line(i - 1) ELSE Line(i)
      BY <3>1, <3>2, <3>3, Zenon
    <3>5. CASE i = bottom
      <4>1. ~(i <= top \/ i > bottom)
        BY <1>2, <3>5
      <4>2. scr[i] = SB!BlankLine
        BY <3>5, <4>1
      <4> QED BY <3>4, <3>5, <4>2 DEF SB!BlankLine
    <3>6. CASE i # bottom /\ (i <= top \/ i > bottom)
      <4>1. i \in 1..top \/ i > bottom
        BY <1>2, <3>6
      <4>2. scr[i] = Scr[i]
        BY <3>6
      <4>3. Scr[i] = Line(i - 1)
        BY <1>4
      <4> HIDE DEF scr
      <4> QED BY <3>4, <3>6, <4>1, <4>2, <4>3, Zenon
    <3>7. CASE i # bottom /\ ~(i <= top \/ i > bottom)
      <4>1. ~(i \in 1..top \/ i > bottom) /\ i + 1 \in 1..S /\ i + 1 - 1 = i
        BY <1>2, <3>7
      <4>2. scr[i] = Scr[i + 1]
        BY <3>7
      <4>3. Scr[i + 1] = Line(i)
        BY <1>4, <4>1
      <4> HIDE DEF scr
      <4> QED BY <3>4, <3>7, <4>1, <4>2, <4>3, Zenon
    <3> QED BY <3>5, <3>6, <3>7
  <2>3. scr = [i \in 1..S |-> scr[i]]
    OBVIOUS
  <2> HIDE DEF scr
  <2> QED BY <2>1, <2>2, <2>3
<1> QED BY <1>1, <1>2, <1>4, <1>8, <1>9 DEF SB!ScrollRegion, SB!Rows, Hist, Scr
-----------------------------------------------------------------------------
(* A row after an edit of one row.                                         *)
LineOf(t, w) == [text |-> t, wrap |-> w]

EditOf(row, t, w) ==
  /\ mLines' = [mLines EXCEPT ![externalToInternalRow(row)] = t]
  /\ mLineWrap' = [mLineWrap EXCEPT ![externalToInternalRow(row)] = w]
  /\ UNCHANGED <<window, mCursorRow>>

LEMMA EditedLine ==
  ASSUME IInv, NEW row \in ScreenRow, NEW t, NEW w, EditOf(row, t, w),
         NEW r \in (-mActiveTranscriptRows)..(mScreenRows - 1)
  PROVE  /\ r = row => Line(r)' = LineOf(t, w)
         /\ r # row => Line(r)' = Line(r)
<1> DEFINE x == externalToInternalRow(r)
           y == externalToInternalRow(row)
<1>1. row \in (-mActiveTranscriptRows)..(mScreenRows - 1) /\ r \in (-mActiveTranscriptRows)..mScreenRows
  BY TranscriptAssumption DEF IInv, TypeOK, ScreenRow
<1>2. x \in Slots /\ (r # row => x # y)
  BY <1>1, RowsInArray DEF IInv
<1>3. externalToInternalRow(r)' = x
  BY DEF externalToInternalRow, EditOf, window
<1>4. Line(r)' = [text |-> mLines'[x], wrap |-> mLineWrap'[x]]
  BY <1>3 DEF Line
<1>5. Line(r) = [text |-> mLines[x], wrap |-> mLineWrap[x]]
  BY DEF Line
<1>6. r = row => x = y
  OBVIOUS
<1> HIDE DEF x, y
<1>7. /\ mLines' = [mLines EXCEPT ![y] = t] /\ mLineWrap' = [mLineWrap EXCEPT ![y] = w]
      /\ x \in DOMAIN mLines /\ x \in DOMAIN mLineWrap
  BY <1>2 DEF y, IInv, ArraysOK, EditOf
<1>8. CASE r = row
  <2>1. mLines'[x] = t /\ mLineWrap'[x] = w
    BY <1>6, <1>7, <1>8
  <2> QED BY <1>4, <1>8, <2>1, Zenon DEF LineOf
<1>9. CASE r # row
  <2>1. mLines'[x] = mLines[x] /\ mLineWrap'[x] = mLineWrap[x]
    BY <1>2, <1>7, <1>9
  <2> QED BY <1>4, <1>5, <1>9, <2>1, Zenon
<1> QED BY <1>8, <1>9

LEMMA EditIsPromised ==
  ASSUME IInv, NEW row \in ScreenRow, NEW t \in Text \cup {Blank}, NEW w \in BOOLEAN,
         EditOf(row, t, w)
  PROVE  SB!Edit
<1> DEFINE A == mActiveTranscriptRows
           S == mScreenRows
           l == LineOf(t, w)
<1>1. S' = S /\ A' = A /\ mScreenFirstRow' = mScreenFirstRow /\ mCursorRow' = mCursorRow
  BY DEF window, EditOf
<1>2. S \in Nat /\ A \in Nat /\ row \in Nat /\ row + 1 \in 1..S
  BY TranscriptAssumption DEF IInv, TypeOK, ScreenRow
<1>3. /\ Scr \in Seq(LineSet) /\ Len(Scr) = S
      /\ \A i \in 1..S : Scr[i] = Line(i - 1)
  BY HistAndScr
<1>4. Hist' = Hist
  <2>1. ASSUME NEW i \in 1..A PROVE Line(i - 1 - A)' = Line(i - 1 - A)
    <3>1. PICK r \in Int : r = i - 1 - A
      BY <1>2
    <3>2. r \in (-A)..(S - 1) /\ r # row
      BY <1>2, <3>1
    <3>3. Line(r)' = Line(r)
      BY <1>1, <3>2, EditedLine
    <3>4. (r = i - 1 - A)'
      BY <1>1, <3>1
    <3> QED BY <3>1, <3>3, <3>4
  <2>2. Hist' = [i \in 1..A |-> Line(i - 1 - A)']
    BY <1>1 DEF Hist
  <2> QED BY <2>1, <2>2 DEF Hist
<1>5. Scr' = [Scr EXCEPT ![row + 1] = l]
  <2>1. Scr' = [i \in 1..S |-> Line(i - 1)']
    BY <1>1 DEF Scr
  <2>2. ASSUME NEW i \in 1..S PROVE Line(i - 1)' = [Scr EXCEPT ![row + 1] = l][i]
    <3>1. PICK r \in Int : r = i - 1
      BY <1>2
    <3>2. r \in (-A)..(S - 1) /\ (r = row <=> i = row + 1)
      BY <1>2, <3>1
    <3>3. (r = row => Line(r)' = l) /\ (r # row => Line(r)' = Line(r))
      BY <1>1, <3>2, EditedLine
    <3>4. Line(i - 1)' = IF i = row + 1 THEN l ELSE Scr[i]
      BY <1>3, <3>1, <3>2, <3>3, Zenon
    <3>5. i \in DOMAIN Scr
      BY DEF Scr
    <3> HIDE DEF l
    <3> QED BY <3>4, <3>5
  <2>3. [Scr EXCEPT ![row + 1] = l] = [i \in 1..S |-> [Scr EXCEPT ![row + 1] = l][i]]
    <3>1. Scr = [i \in 1..S |-> Scr[i]]
      BY DEF Scr
    <3> HIDE DEF l
    <3> QED BY <3>1
  <2> HIDE DEF l
  <2> QED BY <2>1, <2>2, <2>3
<1>6. l \in SB!Lines
  BY DEF SB!Lines, LineOf
<1>7. \E i \in 1..S, m \in SB!Lines : Scr' = [Scr EXCEPT ![i] = m]
  <2> HIDE DEF l
  <2> QED BY <1>2, <1>5, <1>6
<1> QED BY <1>1, <1>3, <1>4, <1>7 DEF SB!Edit, SB!Rows, Hist, Scr

LEMMA SetCharIsPromised ==
  ASSUME IInv, setChar
  PROVE  SB!Edit
<1>1. PICK row \in ScreenRow, t \in Text \cup {Blank} :
        /\ mLines' = [mLines EXCEPT ![externalToInternalRow(row)] = t]
        /\ UNCHANGED <<mLineWrap, window, mCursorRow>>
  BY DEF setChar
<1> DEFINE w == mLineWrap[externalToInternalRow(row)]
<1>2. externalToInternalRow(row) \in Slots /\ mLineWrap \in [Slots -> BOOLEAN]
  BY TranscriptAssumption DEF IInv, ArraysOK, TypeOK, ScreenRow, Slots, externalToInternalRow, Wrap
<1>3. w \in BOOLEAN /\ mLineWrap' = [mLineWrap EXCEPT ![externalToInternalRow(row)] = w]
  BY <1>1, <1>2
<1>4. PICK v \in BOOLEAN : v = w
  BY <1>3
<1>5. mLineWrap' = [mLineWrap EXCEPT ![externalToInternalRow(row)] = v]
  BY <1>3, <1>4, Zenon
<1> QED BY <1>1, <1>5, EditIsPromised DEF EditOf

LEMMA SetLineWrapIsPromised ==
  ASSUME IInv, setLineWrap
  PROVE  SB!Edit
<1>1. PICK row \in ScreenRow :
        /\ mLineWrap' = [mLineWrap EXCEPT ![externalToInternalRow(row)] = TRUE]
        /\ UNCHANGED <<mLines, window, mCursorRow>>
  BY DEF setLineWrap
<1> DEFINE t == mLines[externalToInternalRow(row)]
<1>2. externalToInternalRow(row) \in Slots /\ mLines \in [Slots -> Text \cup {Blank}]
  BY TranscriptAssumption DEF IInv, ArraysOK, TypeOK, ScreenRow, Slots, externalToInternalRow, Wrap
<1>3. t \in Text \cup {Blank} /\ mLines' = [mLines EXCEPT ![externalToInternalRow(row)] = t]
  BY <1>1, <1>2
<1>4. PICK v \in Text \cup {Blank} : v = t
  BY <1>3
<1>5. mLines' = [mLines EXCEPT ![externalToInternalRow(row)] = v]
  BY <1>3, <1>4, Zenon
<1> QED BY <1>1, <1>5, EditIsPromised DEF EditOf

LEMMA SetCursorIsPromised ==
  ASSUME IInv, setCursorRow
  PROVE  SB!MoveCursor
<1>1. /\ mCursorRow' \in ScreenRow /\ mLines' = mLines /\ mLineWrap' = mLineWrap
      /\ mScreenRows' = mScreenRows /\ mActiveTranscriptRows' = mActiveTranscriptRows
      /\ mScreenFirstRow' = mScreenFirstRow
  BY DEF setCursorRow, arrays, window
<1>2. Hist' = Hist /\ Scr' = Scr
  BY <1>1 DEF Hist, Scr, Line, externalToInternalRow, Wrap
<1>3. Len(Scr) = mScreenRows
  BY HistAndScr
<1> QED BY <1>1, <1>2, <1>3 DEF SB!MoveCursor, SB!Rows, Hist, Scr, ScreenRow
-----------------------------------------------------------------------------
(* Blank rows at the bottom of the screen: how resize() counts them, and   *)
(* how Scrollback does.                                                    *)
RowBlank(i) == mLines[externalToInternalRow(i)] = Blank

HiddenIs(n, fewer) ==
  /\ n \in 0..HideLimit(fewer, mCursorRow)
  /\ \A i \in (mScreenRows - n)..(mScreenRows - 1) : RowBlank(i)
  /\ n = HideLimit(fewer, mCursorRow) \/ ~RowBlank(mScreenRows - n - 1)

SpareRows(n) == \A i \in (mScreenRows - n + 1)..mScreenRows :
                  RowBlank(i - 1) /\ i - 1 > mCursorRow

SpareIs(n) == n \in 0..mScreenRows /\ SpareRows(n) /\ (n = mScreenRows \/ ~SpareRows(n + 1))

LEMMA HiddenRows ==
  ASSUME TypeOK, NEW fewer \in 1..mScreenRows
  PROVE  HiddenIs(Hidden(fewer, mCursorRow), fewer)
<1> DEFINE n == Hidden(fewer, mCursorRow)
<1>1. /\ n \in 0..HideLimit(fewer, mCursorRow)
      /\ \A i \in (mScreenRows - n)..(mScreenRows - 1) : mLines[externalToInternalRow(i)] = Blank
      /\ \/ n = HideLimit(fewer, mCursorRow)
         \/ mLines[externalToInternalRow(mScreenRows - n - 1)] # Blank
  BY HiddenType
<1> HIDE DEF n
<1>2. HiddenIs(n, fewer)
  BY <1>1 DEF HiddenIs, RowBlank
<1> QED BY <1>2 DEF n

LEMMA SpareLines ==
  ASSUME IInv
  PROVE  SpareIs(SB!Spare)
<1> DEFINE S == mScreenRows
           blank(n) == \A i \in (S - n + 1)..S : Scr[i].text = Blank /\ i - 1 > mCursorRow
           T == {n \in 0..S : SpareRows(n)}
<1>1. S \in Nat
  BY TranscriptAssumption DEF IInv, TypeOK
<1>2. Len(Scr) = S /\ \A i \in 1..S : Scr[i] = Line(i - 1)
  BY HistAndScr
<1>3. \A i \in 1..S : (Scr[i].text = Blank) <=> RowBlank(i - 1)
  <2>1. ASSUME NEW i \in 1..S PROVE (Scr[i].text = Blank) <=> RowBlank(i - 1)
    BY <1>2 DEF Line, RowBlank
  <2> QED BY <2>1
<1>4. \A n \in 0..S : blank(n) <=> SpareRows(n)
  <2>1. ASSUME NEW n \in 0..S PROVE blank(n) <=> SpareRows(n)
    <3>1. \A i \in (S - n + 1)..S : i \in 1..S
      BY <1>1
    <3> QED BY <1>3, <3>1 DEF SpareRows
  <2> QED BY <2>1
<1>5. PICK n \in T : n = S \/ n + 1 \notin T
  <2>1. T \in SUBSET (0..S) /\ 0 \in T
    BY <1>1 DEF SpareRows
  <2> HIDE DEF T, S
  <2> QED BY <1>1, <2>1, LargestBelow
<1>6. SpareIs(n)
  <2>1. n \in 0..S /\ SpareRows(n)
    BY <1>5
  <2>2. n # S => n + 1 \in 0..S
    BY <1>1, <2>1
  <2>3. n # S => ~SpareRows(n + 1)
    BY <1>5, <2>2
  <2> QED BY <2>1, <2>3 DEF SpareIs
<1>7. \A m \in 0..S : (blank(m) /\ (m = S \/ ~blank(m + 1))) <=> SpareIs(m)
  <2>1. ASSUME NEW m \in 0..S PROVE (blank(m) /\ (m = S \/ ~blank(m + 1))) <=> SpareIs(m)
    <3>1. m # S => m + 1 \in 0..S
      BY <1>1
    <3>2. blank(m) <=> SpareRows(m)
      BY <1>4
    <3>3. m # S => (blank(m + 1) <=> SpareRows(m + 1))
      BY <1>4, <3>1
    <3> HIDE DEF blank
    <3> QED BY <3>2, <3>3 DEF SpareIs
  <2> QED BY <2>1
<1>8. SB!Spare = CHOOSE m \in 0..S : blank(m) /\ (m = S \/ ~blank(m + 1))
  BY <1>2 DEF SB!Spare, SB!Rows, Scr
<1>9. n \in 0..S
  BY <1>5
<1> HIDE DEF blank, S, T
<1>10. \E m \in 0..S : blank(m) /\ (m = S \/ ~blank(m + 1))
  BY <1>6, <1>7, <1>9
<1>11. SB!Spare \in 0..S /\ (blank(SB!Spare) /\ (SB!Spare = S \/ ~blank(SB!Spare + 1)))
  BY <1>8, <1>10
<1> QED BY <1>7, <1>11

(* Both count the same rows, up to the number that has to go.              *)
LEMMA SameRowsHidden ==
  ASSUME TypeOK, NEW fewer \in 1..(mScreenRows - 1),
         NEW h, HiddenIs(h, fewer), NEW s, SpareIs(s)
  PROVE  h = IF s < fewer THEN s ELSE fewer
<1> DEFINE S == mScreenRows
           c == mCursorRow
<1>1. S \in Nat /\ c \in 0..(S - 1) /\ fewer \in Nat /\ fewer < S
  BY TranscriptAssumption DEF TypeOK, ScreenRow
<1>2. /\ h \in Nat /\ h <= fewer /\ h <= S - 1 - c
      /\ h < fewer /\ h < S - 1 - c => ~RowBlank(S - h - 1)
      /\ \A i \in (S - h)..(S - 1) : RowBlank(i)
  BY <1>1 DEF HiddenIs, HideLimit
<1>3. /\ s \in 0..S
      /\ \A i \in (S - s + 1)..S : RowBlank(i - 1) /\ i - 1 > c
      /\ s # S => ~SpareRows(s + 1)
  BY DEF SpareIs, SpareRows
<1>4. s <= S - 1 - c
  <2>1. CASE s = 0
    BY <1>1, <2>1
  <2>2. CASE s # 0
    <3>1. PICK i \in (S - s + 1)..S : i = S - s + 1
      BY <1>1, <1>3, <2>2
    <3>2. i - 1 > c
      BY <1>3
    <3> QED BY <1>1, <1>3, <3>1, <3>2
  <2> QED BY <2>1, <2>2
<1>5. ~(h < fewer /\ h < s)
  <2> SUFFICES ASSUME h < fewer, h < s PROVE FALSE
    OBVIOUS
  <2>1. ~RowBlank(S - h - 1)
    BY <1>1, <1>2, <1>3, <1>4
  <2>2. S - h \in (S - s + 1)..S /\ S - h - 1 = S - h - 1
    BY <1>1, <1>2, <1>3
  <2>3. RowBlank(S - h - 1)
    BY <1>3, <2>2
  <2> QED BY <2>1, <2>3
<1>6. ~(s < h)
  <2> SUFFICES ASSUME s < h PROVE FALSE
    OBVIOUS
  <2>1. ~SpareRows(s + 1)
    BY <1>1, <1>2, <1>3
  <2>2. ASSUME NEW i \in (S - (s + 1) + 1)..S PROVE RowBlank(i - 1) /\ i - 1 > c
    <3>1. i - 1 \in (S - h)..(S - 1) /\ i - 1 > c
      BY <1>1, <1>2, <1>3
    <3> QED BY <1>2, <3>1
  <2>3. SpareRows(s + 1)
    BY <2>2 DEF SpareRows
  <2> QED BY <2>1, <2>3
<1> QED BY <1>1, <1>2, <1>3, <1>5, <1>6

(* The lines that Scrollback keeps when `hidden' lines at the bottom go and *)
(* the rest is cut for a screen of some rows.                              *)
AllLines(h, s, hidden) == h \o SubSeq(s, 1, Len(s) - hidden)
PaddedTo(all, rows, b) ==
  all \o [i \in 1..(IF Len(all) < rows THEN rows - Len(all) ELSE 0) |-> b]

LEMMA AllLinesIs ==
  ASSUME NEW L, NEW h \in Seq(L), NEW s \in Seq(L), NEW hidden \in 0..Len(s)
  PROVE  LET all == AllLines(h, s, hidden)
         IN  /\ all \in Seq(L) /\ Len(all) = Len(h) + Len(s) - hidden
             /\ \A j \in 1..Len(h) : all[j] = h[j]
             /\ \A j \in (Len(h) + 1)..(Len(h) + Len(s) - hidden) : all[j] = s[j - Len(h)]
<1> DEFINE m == Len(s) - hidden
           t == SubSeq(s, 1, m)
<1>1. Len(h) \in Nat /\ Len(s) \in Nat /\ m \in Nat /\ m <= Len(s)
  OBVIOUS
<1>2. \A i \in 1..m : s[i] \in L
  BY <1>1, ElementOfSeq
<1>3. t \in Seq(L) /\ Len(t) = m /\ \A i \in 1..m : t[i] = s[i]
  <2> HIDE DEF m
  <2>1. 1 \in Int /\ m \in Int
    BY <1>1
  <2>2. /\ t \in Seq(L)
        /\ Len(t) = IF 1 <= m THEN m - 1 + 1 ELSE 0
        /\ \A i \in 1..(m - 1 + 1) : t[i] = s[1 + i - 1]
    BY <1>2, <2>1, SubSeqProperties
  <2> HIDE DEF t
  <2> QED BY <1>1, <2>2
<1> HIDE DEF t
<1>4. /\ h \o t \in Seq(L) /\ Len(h \o t) = Len(h) + Len(t)
      /\ \A i \in 1..(Len(h) + Len(t)) : (h \o t)[i] = IF i <= Len(h) THEN h[i] ELSE t[i - Len(h)]
  BY <1>3, ConcatProperties
<1>5. AllLines(h, s, hidden) = h \o t
  BY DEF AllLines, t
<1>6. ASSUME NEW j \in 1..Len(h) PROVE (h \o t)[j] = h[j]
  BY <1>1, <1>3, <1>4
<1>7. ASSUME NEW j \in (Len(h) + 1)..(Len(h) + Len(s) - hidden) PROVE (h \o t)[j] = s[j - Len(h)]
  <2>1. j \in 1..(Len(h) + Len(t)) /\ ~(j <= Len(h)) /\ j - Len(h) \in 1..m
    BY <1>1, <1>3
  <2>2. (h \o t)[j] = t[j - Len(h)]
    BY <1>4, <2>1
  <2> HIDE DEF m
  <2> QED BY <1>3, <2>1, <2>2
<1>8. Len(h) + Len(t) = Len(h) + Len(s) - hidden
  BY <1>1, <1>3
<1> QED BY <1>4, <1>5, <1>6, <1>7, <1>8

IsPadded(p, L, all, rows, b) ==
  /\ p \in Seq(L) /\ Len(p) = IF Len(all) < rows THEN rows ELSE Len(all)
  /\ \A j \in 1..Len(p) : p[j] = IF j <= Len(all) THEN all[j] ELSE b

LEMMA PaddedToIs ==
  ASSUME NEW L, NEW all \in Seq(L), NEW rows \in Nat, NEW b \in L
  PROVE  IsPadded(PaddedTo(all, rows, b), L, all, rows, b)
<1> DEFINE n == IF Len(all) < rows THEN rows - Len(all) ELSE 0
           t == [i \in 1..n |-> b]
<1>1. Len(all) \in Nat /\ n \in Nat
      /\ Len(all) + n = IF Len(all) < rows THEN rows ELSE Len(all)
  OBVIOUS
<1> HIDE DEF n
<1>2. t \in [1..n -> L] /\ \A i \in 1..n : t[i] = b
  OBVIOUS
<1>3. t \in Seq(L) /\ Len(t) = n
  <2> HIDE DEF t
  <2> QED BY <1>1, <1>2, FunctionIsSeq
<1>4. PaddedTo(all, rows, b) = all \o t
  BY DEF PaddedTo, n
<1> HIDE DEF t
<1>5. /\ all \o t \in Seq(L) /\ Len(all \o t) = Len(all) + Len(t)
      /\ \A i \in 1..(Len(all) + Len(t)) :
           (all \o t)[i] = IF i <= Len(all) THEN all[i] ELSE t[i - Len(all)]
  BY <1>3, ConcatProperties
<1>6. ASSUME NEW j \in 1..(Len(all) + Len(t))
      PROVE  (all \o t)[j] = IF j <= Len(all) THEN all[j] ELSE b
  <2>1. CASE j <= Len(all)
    BY <1>5, <2>1
  <2>2. CASE ~(j <= Len(all))
    <3>1. j - Len(all) \in 1..n
      BY <1>1, <1>3, <2>2
    <3> QED BY <1>2, <1>5, <2>2, <3>1
  <2> QED BY <2>1, <2>2
<1> QED BY <1>1, <1>3, <1>4, <1>5, <1>6 DEF IsPadded

(* A row of the transcript or of the screen after resize().                *)
LEMMA ResizedLine ==
  ASSUME IInv, NEW rows \in 1..MaxScreenRows, resize(rows),
         NEW d \in Int, d = Shift(rows),
         NEW q \in (-(mActiveTranscriptRows + d))..(rows - 1)
  PROVE  /\ q + d <= mScreenRows - 1 => Line(q)' = Line(q + d)
         /\ q + d > mScreenRows - 1 =>
              /\ Line(q)' = SB!BlankLine
              /\ mScreenRows - rows < -mActiveTranscriptRows
<1> DEFINE S == mScreenRows
           A == mActiveTranscriptRows
           f == mScreenFirstRow
<1>0. /\ TypeOK /\ S \in Nat \ {0} /\ A \in Nat /\ f \in Slots /\ rows \in Nat \ {0} /\ rows # S
      /\ A <= TotalRows - S /\ q \in Int /\ TotalRows \in Nat /\ rows < TotalRows
      /\ mScreenFirstRow' = ShiftedFirstRow(d)
  BY TranscriptAssumption DEF IInv, TypeOK, resize
<1>1. A + d \in 0..(TotalRows - rows) /\ d <= S
  BY <1>0, ShiftRange
<1>2. ASSUME q + d <= S - 1 PROVE Line(q)' = Line(q + d)
  <2>1. PICK r \in Int : r = q + d
    BY <1>0
  <2>2. r \in (-A)..(S - 1) /\ r - d < rows /\ r - d = q
    BY <1>0, <1>1, <1>2, <2>1
  <2>3. Line(r - d)' = Line(r)
    BY <1>0, <2>2, ResizeKeepsLines
  <2> QED BY <2>1, <2>2, <2>3
<1>3. ASSUME q + d > S - 1 PROVE S - rows < -A /\ d = -A
  <2>1. CASE S - rows < -A
    BY <1>0, <2>1 DEF Shift
  <2>2. CASE S - rows > 0
    <3>1. S - rows \in 1..S
      BY <1>0, <2>2
    <3>2. PICK h \in Int : h = Hidden(S - rows, mCursorRow) /\ h >= 0
      <4>1. HideLimit(S - rows, mCursorRow) \in Int
        BY <1>0, TranscriptAssumption DEF HideLimit, TypeOK, ScreenRow
      <4>2. Hidden(S - rows, mCursorRow) \in 0..HideLimit(S - rows, mCursorRow)
        BY <1>0, <3>1, HiddenType
      <4> QED BY <4>1, <4>2
    <3>3. d = S - rows - h
      BY <1>0, <2>2, <3>2 DEF Shift
    <3> QED BY <1>0, <1>3, <3>2, <3>3
  <2>3. CASE ~(S - rows < -A) /\ ~(S - rows > 0)
    <3>1. d = S - rows
      BY <2>3 DEF Shift
    <3> QED BY <1>0, <1>3, <3>1
  <2> QED BY <2>1, <2>2, <2>3
<1>4. ASSUME q + d > S - 1 PROVE Line(q)' = SB!BlankLine
  <2>1. PICK i \in 0..(A - (S - rows) - 1) : i = q + d - S
    BY <1>0, <1>3, <1>4
  <2> DEFINE x == Wrap(f + S + i)
  <2>2. x \in Blanked(rows)
    BY <1>3, <1>4 DEF Blanked
  <2>3. externalToInternalRow(q)' = x /\ x \in Slots
    <3>1. f + S + i = f + (q + d) /\ q + d \in 0..(TotalRows - 1)
      BY <1>0, <1>1, <1>4, <2>1 DEF Slots
    <3>2. SlotOf(mScreenFirstRow', q) = SlotOf(f, q + d)
      BY <1>0, <1>1, <1>3, <1>4, <3>1 DEF SlotOf, ShiftedFirstRow, Wrap, Slots
    <3>3. SlotOf(f, q + d) = x
      BY <1>0, <3>1 DEF SlotOf
    <3>4. x \in Slots
      BY <1>0, <3>1 DEF Wrap, Slots
    <3>5. externalToInternalRow(q)' = SlotOf(mScreenFirstRow', q)
      BY DEF externalToInternalRow, SlotOf, Wrap
    <3> QED BY <3>2, <3>3, <3>4, <3>5
  <2> HIDE DEF x
  <2>4. mLines'[x] = Blank /\ mLineWrap'[x] = FALSE
    BY <2>2, <2>3 DEF resize
  <2>5. Line(q)' = [text |-> mLines'[x], wrap |-> mLineWrap'[x]]
    BY <2>3 DEF Line
  <2> QED BY <2>4, <2>5, Zenon DEF SB!BlankLine
<1> QED BY <1>2, <1>3, <1>4

(* The numbers of a resize: hidden rows, distance and lengths.             *)
LEMMA ResizeNumbers ==
  ASSUME IInv, NEW rows \in 1..MaxScreenRows, resize(rows)
  PROVE  \E hid, d \in Int :
           LET S == mScreenRows
               A == mActiveTranscriptRows
           IN  /\ d = Shift(rows) /\ hid \in 0..S
               /\ hid = IF S - rows <= 0 THEN 0
                        ELSE IF SB!Spare < S - rows THEN SB!Spare ELSE S - rows
               /\ A + d >= 0
               /\ A + S - hid < rows => hid = 0 /\ A + d = 0
               /\ ~(A + S - hid < rows) => A + S - hid - rows = A + d
<1> DEFINE S == mScreenRows
           A == mActiveTranscriptRows
<1>1. TypeOK /\ S \in Nat \ {0} /\ A \in Nat /\ rows \in Nat \ {0} /\ rows # S
  BY TranscriptAssumption DEF IInv, TypeOK, resize
<1>2. CASE S - rows <= 0
  <2>1. PICK d \in Int : d = Shift(rows) /\ d = IF S - rows < -A THEN -A ELSE S - rows
    BY <1>1, <1>2 DEF Shift
  <2>2. /\ 0 \in 0..S /\ A + d >= 0
        /\ A + S - 0 < rows => 0 = 0 /\ A + d = 0
        /\ ~(A + S - 0 < rows) => A + S - 0 - rows = A + d
    BY <1>1, <1>2, <2>1
  <2> QED BY <1>2, <2>1, <2>2
<1>3. CASE ~(S - rows <= 0)
  <2>1. PICK fewer \in 1..(S - 1) : fewer = S - rows
    BY <1>1, <1>3
  <2>2. PICK h : h = Hidden(fewer, mCursorRow)
    OBVIOUS
  <2>3. PICK s : s = SB!Spare
    OBVIOUS
  <2>4. HiddenIs(h, fewer)
    BY <1>1, <2>1, <2>2, HiddenRows
  <2>5. SpareIs(s)
    BY <2>3, SpareLines
  <2>6. h = IF s < fewer THEN s ELSE fewer
    BY <1>1, <2>4, <2>5, SameRowsHidden
  <2>7. s \in 0..S
    BY <2>5 DEF SpareIs
  <2>8. h \in 0..S /\ h <= fewer
    BY <1>1, <2>1, <2>6, <2>7
  <2>9. PICK d \in Int : d = Shift(rows) /\ d = fewer - h
    <3>1. ~(S - rows < -A) /\ S - rows > 0
      BY <1>1, <1>3
    <3>2. Shift(rows) = fewer - h
      BY <2>1, <2>2, <3>1 DEF Shift
    <3> QED BY <2>1, <2>8, <3>2
  <2>10. A + d >= 0 /\ ~(A + S - h < rows) /\ A + S - h - rows = A + d
    BY <1>1, <2>1, <2>8, <2>9
  <2>11. h = IF S - rows <= 0 THEN 0 ELSE IF SB!Spare < S - rows THEN SB!Spare ELSE S - rows
    BY <1>3, <2>1, <2>3, <2>6, Zenon
  <2> QED BY <2>8, <2>9, <2>10, <2>11
<1> QED BY <1>2, <1>3

(* ResizeTo() of Scrollback, with its variables as parameters.             *)
ResizeLines(h, s, spare, rows, b) ==
  PaddedTo(AllLines(h, s, IF Len(s) - rows <= 0 THEN 0
                          ELSE IF spare < Len(s) - rows THEN spare ELSE Len(s) - rows),
           rows, b)

ResizeOf(h, s, c, spare, rows, b, hNew, sNew, cNew) ==
  LET p == ResizeLines(h, s, spare, rows, b)
      kept == Len(p) - rows
      line == Len(h) + c - kept
  IN  /\ Len(s) - rows # 0
      /\ hNew = SubSeq(p, 1, kept)
      /\ sNew = SubSeq(p, kept + 1, Len(p))
      /\ cNew = IF line < 0 THEN 0 ELSE line

LEMMA ResizeIsPromised ==
  ASSUME IInv, NEW rows \in 1..MaxScreenRows, resize(rows)
  PROVE  SB!ResizeTo(rows)
<1> DEFINE S == mScreenRows
           A == mActiveTranscriptRows
<1>1. PICK hid \in Int, d \in Int :
        /\ d = Shift(rows) /\ hid \in 0..S
        /\ hid = IF S - rows <= 0 THEN 0
                 ELSE IF SB!Spare < S - rows THEN SB!Spare ELSE S - rows
        /\ A + d >= 0
        /\ A + S - hid < rows => hid = 0 /\ A + d = 0
        /\ ~(A + S - hid < rows) => A + S - hid - rows = A + d
  BY ResizeNumbers
<1>2. S \in Nat \ {0} /\ A \in Nat /\ rows \in Nat \ {0} /\ S - rows # 0 /\ mCursorRow \in Nat
  BY TranscriptAssumption DEF IInv, TypeOK, resize, ScreenRow
<1>3. /\ S' = rows /\ A' = A + d /\ A + d \in Nat
      /\ mCursorRow' = IF mCursorRow - d >= 0 THEN mCursorRow - d ELSE 0
  BY <1>1, <1>2 DEF resize
<1>4. IInv'
  <2>1. [Next]_vars
    BY DEF Next, Resize
  <2> QED BY <2>1, IInvStep
<1>5. /\ Hist \in Seq(LineSet) /\ Len(Hist) = A
      /\ Scr \in Seq(LineSet) /\ Len(Scr) = S
      /\ \A i \in 1..A : Hist[i] = Line(i - 1 - A)
      /\ \A i \in 1..S : Scr[i] = Line(i - 1)
  BY HistAndScr
<1>6. /\ Hist' \in Seq(LineSet) /\ Len(Hist') = A + d
      /\ Scr' \in Seq(LineSet) /\ Len(Scr') = rows
      /\ \A i \in 1..(A + d) : Hist'[i] = (Line(i - 1 - A))'
      /\ \A i \in 1..rows : Scr'[i] = (Line(i - 1))'
  <2>1. (IInv => /\ Hist \in Seq(LineSet) /\ Len(Hist) = A
                 /\ Scr \in Seq(LineSet) /\ Len(Scr) = S
                 /\ \A i \in 1..A : Hist[i] = Line(i - 1 - A)
                 /\ \A i \in 1..S : Scr[i] = Line(i - 1))'
    BY HistAndScr, PTL
  <2> QED BY <1>3, <1>4, <2>1 DEF LineSet
<1> DEFINE all == AllLines(Hist, Scr, hid)
           p == PaddedTo(all, rows, SB!BlankLine)
           N == A + S - hid
<1>7. /\ all \in Seq(LineSet) /\ Len(all) = N
      /\ \A j \in 1..A : all[j] = Hist[j]
      /\ \A j \in (A + 1)..N : all[j] = Scr[j - A]
  <2>1. hid \in 0..Len(Scr)
    BY <1>1, <1>5
  <2> DEFINE h == Hist
             s == Scr
  <2> HIDE DEF h, s, all
  <2>2. /\ AllLines(h, s, hid) \in Seq(LineSet) /\ Len(AllLines(h, s, hid)) = Len(h) + Len(s) - hid
        /\ \A j \in 1..Len(h) : AllLines(h, s, hid)[j] = h[j]
        /\ \A j \in (Len(h) + 1)..(Len(h) + Len(s) - hid) : AllLines(h, s, hid)[j] = s[j - Len(h)]
    <3>1. h \in Seq(LineSet) /\ s \in Seq(LineSet) /\ hid \in 0..Len(s)
      BY <1>5, <2>1 DEF h, s
    <3> QED BY <3>1, AllLinesIs
  <2>3. Len(h) = A /\ Len(s) = S
    BY <1>5 DEF h, s
  <2> QED BY <2>2, <2>3 DEF all, h, s
<1>8. \A j \in 1..N : all[j] = Line(j - 1 - A)
  <2> HIDE DEF all
  <2> SUFFICES ASSUME NEW j \in 1..N PROVE all[j] = Line(j - 1 - A)
    OBVIOUS
  <2>1. CASE j <= A
    BY <1>2, <1>5, <1>7, <2>1
  <2>2. CASE ~(j <= A)
    <3>1. PICK k \in Int : k = j - A
      BY <1>2
    <3>2. k \in 1..S /\ j \in (A + 1)..N /\ k - 1 = j - 1 - A
      BY <1>1, <1>2, <2>2, <3>1
    <3>3. all[j] = Scr[k] /\ Scr[k] = Line(k - 1)
      BY <1>5, <1>7, <3>1, <3>2
    <3> QED BY <3>2, <3>3
  <2> QED BY <2>1, <2>2
<1>9. /\ p \in Seq(LineSet) /\ Len(p) = A + d + rows
      /\ \A j \in 1..Len(p) : p[j] = IF j <= N THEN all[j] ELSE SB!BlankLine
  <2>1. SB!BlankLine \in LineSet
    BY DEF SB!BlankLine, LineSet
  <2> HIDE DEF all
  <2>2. PICK b \in LineSet : b = SB!BlankLine
    BY <2>1
  <2> DEFINE x == PaddedTo(all, rows, b)
  <2>3. /\ x \in Seq(LineSet) /\ Len(x) = IF Len(all) < rows THEN rows ELSE Len(all)
        /\ \A j \in 1..Len(x) : x[j] = IF j <= Len(all) THEN all[j] ELSE b
    <3>1. rows \in Nat /\ all \in Seq(LineSet) /\ b \in LineSet
      BY <1>2, <1>7, <2>1, <2>2
    <3> HIDE DEF x
    <3>2. IsPadded(x, LineSet, all, rows, b)
      BY <3>1, PaddedToIs DEF x
    <3> QED BY <3>2, Zenon DEF IsPadded
  <2>4. x = p
    BY <2>2
  <2> HIDE DEF p, x
  <2>5. Len(all) = N
    BY <1>7
  <2>6. (IF N < rows THEN rows ELSE N) = A + d + rows
    <3>1. (A + S - hid < rows => A + d = 0) /\ (~(A + S - hid < rows) => A + S - hid - rows = A + d)
      BY <1>1, Zenon
    <3> QED BY <1>2, <3>1
  <2> QED BY <2>2, <2>3, <2>4, <2>5, <2>6
<1> HIDE DEF all, p
<1>10. ASSUME NEW j \in 1..(A + d + rows), NEW q \in Int, q = j - 1 - (A + d)
       PROVE  Line(q)' = p[j]
  <2>1. q \in (-(A + d))..(rows - 1) /\ q + d = j - 1 - A
    BY <1>1, <1>2, <1>10
  <2>2. /\ q + d <= S - 1 => Line(q)' = Line(q + d)
        /\ q + d > S - 1 => Line(q)' = SB!BlankLine
    BY <1>1, <2>1, ResizedLine
  <2>3. p[j] = IF j <= N THEN all[j] ELSE SB!BlankLine
    BY <1>9
  <2>4. CASE j <= N
    <3>1. q + d <= S - 1 /\ j \in 1..N
      BY <1>1, <1>2, <2>1, <2>4
    <3> QED BY <1>8, <2>1, <2>2, <2>3, <2>4, <3>1
  <2>5. CASE ~(j <= N)
    <3>1. N < rows
      BY <1>1, <1>2, <2>5
    <3>2. q + d > S - 1
      BY <1>1, <1>2, <2>1, <2>5, <3>1
    <3> QED BY <2>2, <2>3, <2>5, <3>2
  <2> QED BY <2>4, <2>5
<1>11. Hist' = SubSeq(p, 1, A + d)
  <2> DEFINE m == A + d
             t == SubSeq(p, 1, m)
  <2>1. m \in Nat /\ m <= Len(p) /\ 1 \in Int /\ m \in Int
    BY <1>2, <1>3, <1>9
  <2>2. \A i \in 1..m : p[i] \in LineSet
    BY <1>9, <2>1, ElementOfSeq
  <2>3. t \in Seq(LineSet) /\ Len(t) = m /\ \A i \in 1..m : t[i] = p[i]
    <3> HIDE DEF m
    <3>1. /\ t \in Seq(LineSet)
          /\ Len(t) = IF 1 <= m THEN m - 1 + 1 ELSE 0
          /\ \A i \in 1..(m - 1 + 1) : t[i] = p[1 + i - 1]
      BY <2>1, <2>2, SubSeqProperties
    <3> HIDE DEF t
    <3>2. ASSUME NEW i \in 1..m PROVE t[i] = p[i]
      <4>1. i \in 1..(m - 1 + 1) /\ 1 + i - 1 = i
        BY <2>1
      <4> QED BY <3>1, <4>1
    <3>3. Len(t) = m
      BY <2>1, <3>1
    <3> QED BY <3>1, <3>2, <3>3
  <2>4. ASSUME NEW i \in 1..m PROVE Hist'[i] = p[i]
    <3>1. PICK q \in Int : q = i - 1 - (A + d)
      BY <1>2, <1>3
    <3>2. Hist'[i] = Line(q)'
      BY <1>3, <1>6, <3>1
    <3>3. i \in 1..(A + d + rows)
      BY <1>2, <1>3
    <3> QED BY <1>10, <3>1, <3>2, <3>3
  <2>5. Hist' \in Seq(LineSet) /\ Len(Hist') = m
    BY <1>6
  <2> HIDE DEF m, t
  <2>6. Hist' = t
    BY <2>3, <2>4, <2>5, SeqEqual
  <2> QED BY <2>6 DEF m, t
<1>12. Scr' = SubSeq(p, A + d + 1, Len(p))
  <2> DEFINE m == A + d + 1
             n == Len(p)
             t == SubSeq(p, m, n)
  <2>1. m \in Nat /\ n \in Nat /\ n = m + rows - 1 /\ m >= 1 /\ m <= n
    BY <1>2, <1>3, <1>9
  <2>2. \A i \in m..n : p[i] \in LineSet
    BY <1>9, <2>1, ElementOfSeq
  <2>3. t \in Seq(LineSet) /\ Len(t) = rows /\ \A i \in 1..rows : t[i] = p[m + i - 1]
    <3> HIDE DEF m, n
    <3>1. m \in Int /\ n \in Int
      BY <2>1
    <3>2. /\ t \in Seq(LineSet)
          /\ Len(t) = IF m <= n THEN n - m + 1 ELSE 0
          /\ \A i \in 1..(n - m + 1) : t[i] = p[m + i - 1]
      BY <2>2, <3>1, SubSeqProperties
    <3> HIDE DEF t
    <3> QED BY <1>2, <2>1, <3>2
  <2>4. ASSUME NEW i \in 1..rows PROVE Scr'[i] = p[m + i - 1]
    <3>1. PICK q \in Int : q = i - 1
      OBVIOUS
    <3>2. Scr'[i] = Line(q)'
      BY <1>6, <3>1
    <3>3. PICK j \in 1..(A + d + rows) : j = m + i - 1 /\ q = j - 1 - (A + d)
      BY <1>2, <1>3, <3>1
    <3>4. Line(q)' = p[j]
      BY <1>10, <3>3
    <3> QED BY <3>2, <3>3, <3>4
  <2> HIDE DEF m, n, t
  <2>5. Scr' = t
    BY <1>6, <2>3, <2>4, SeqEqual
  <2> QED BY <2>5 DEF m, n, t
<1>13. Len(p) - rows = A + d
  BY <1>2, <1>3, <1>9
<1>14. mCursorRow' = IF A + mCursorRow - (Len(p) - rows) < 0 THEN 0
                     ELSE A + mCursorRow - (Len(p) - rows)
  BY <1>2, <1>3, <1>13
<1>15. p = ResizeLines(Hist, Scr, SB!Spare, rows, SB!BlankLine)
  <2>1. hid = IF Len(Scr) - rows <= 0 THEN 0
              ELSE IF SB!Spare < Len(Scr) - rows THEN SB!Spare ELSE Len(Scr) - rows
    BY <1>1, <1>5, Zenon
  <2> QED BY <2>1 DEF ResizeLines, all, p
<1>16. ResizeOf(Hist, Scr, mCursorRow, SB!Spare, rows, SB!BlankLine, Hist', Scr', mCursorRow')
  <2> DEFINE h == Hist
             s == Scr
  <2>1. Len(h) = A /\ Len(s) - rows # 0
    BY <1>2, <1>5
  <2>2. Len(p) - rows = A + d /\ Len(p) - rows + 1 = A + d + 1
    BY <1>13
  <2> HIDE DEF h, s
  <2> QED BY <1>11, <1>12, <1>14, <1>15, <2>1, <2>2, Zenon DEF ResizeOf, h, s
<1> QED BY <1>16 DEF SB!ResizeTo, SB!Rows, ResizeOf, ResizeLines, AllLines, PaddedTo, Hist, Scr
-----------------------------------------------------------------------------
LEMMA InitIsPromised ==
  ASSUME Init
  PROVE  SB!Init
<1>1. /\ mScreenRows \in 1..MaxScreenRows /\ mActiveTranscriptRows = 0 /\ mScreenFirstRow = 0
      /\ mLines = [i \in Slots |-> Blank] /\ mLineWrap = [i \in Slots |-> FALSE] /\ mCursorRow = 0
  BY DEF Init
<1>2. Hist = << >>
  BY <1>1 DEF Hist
<1>3. ASSUME NEW i \in 1..mScreenRows PROVE Line(i - 1) = SB!BlankLine
  <2>1. externalToInternalRow(i - 1) \in Slots
    BY <1>1, TranscriptAssumption DEF externalToInternalRow, Wrap, Slots
  <2>2. /\ mLines[externalToInternalRow(i - 1)] = Blank
        /\ mLineWrap[externalToInternalRow(i - 1)] = FALSE
    BY <1>1, <2>1
  <2> QED BY <2>2, Zenon DEF Line, SB!BlankLine
<1>4. Scr = [i \in 1..mScreenRows |-> SB!BlankLine]
  BY <1>3 DEF Scr
<1> QED BY <1>1, <1>2, <1>4 DEF SB!Init, Hist, Scr

(* Every step of the circular array is a step of the scrollback buffer.    *)
LEMMA StepIsPromised ==
  ASSUME IInv, [Next]_vars
  PROVE  [SB!Next]_(SB!bufferVars)
<1>1. CASE setChar
  BY <1>1, SetCharIsPromised DEF SB!Next
<1>2. CASE setLineWrap
  BY <1>2, SetLineWrapIsPromised DEF SB!Next
<1>3. CASE setCursorRow
  BY <1>3, SetCursorIsPromised DEF SB!Next
<1>S. SB!Rows = mScreenRows /\ mScreenRows \in Nat
  <2>1. SB!Rows = Len(Scr)
    BY DEF SB!Rows, Scr
  <2> QED BY <2>1, HistAndScr, TranscriptAssumption DEF IInv, TypeOK
<1>4. CASE BlockCopy
  <2>1. PICK sy \in ScreenRow, dy \in ScreenRow, h \in 1..mScreenRows : blockCopy(sy, dy, h)
    BY <1>4 DEF BlockCopy
  <2>2. SB!CopyTextOf(sy + 1, dy + 1, h)
    BY <2>1, CopyIsPromised
  <2>3. PICK j \in 1..SB!Rows, i \in 1..SB!Rows : j = sy + 1 /\ i = dy + 1
    BY <1>S DEF ScreenRow
  <2>4. SB!CopyTextOf(j, i, h) /\ h \in 1..SB!Rows
    BY <1>S, <2>2, <2>3, Zenon
  <2>5. SB!CopyText
    BY <2>4 DEF SB!CopyText
  <2> QED BY <2>5 DEF SB!Next
<1>5. CASE Scroll
  <2>1. PICK top \in ScreenRow, bottom \in 1..mScreenRows : scroll(top, bottom)
    BY <1>5 DEF Scroll
  <2>2. SB!ScrollRegion(top, bottom)
    BY <2>1, ScrollIsPromised
  <2>3. top \in 0..(SB!Rows - 1) /\ bottom \in 1..SB!Rows
    BY <1>S DEF ScreenRow
  <2>4. SB!Scroll
    BY <2>2, <2>3 DEF SB!Scroll
  <2> QED BY <2>4 DEF SB!Next
<1>6. CASE Resize
  <2>1. PICK rows \in 1..MaxScreenRows : resize(rows)
    BY <1>6 DEF Resize
  <2>2. SB!ResizeTo(rows)
    BY <2>1, ResizeIsPromised
  <2>3. SB!Resize
    BY <2>2 DEF SB!Resize
  <2> QED BY <2>3 DEF SB!Next
<1>7. CASE UNCHANGED vars
  <2>1. Hist' = Hist /\ Scr' = Scr /\ mCursorRow' = mCursorRow
    BY <1>7 DEF vars, arrays, window, Hist, Scr, Line, externalToInternalRow, Wrap
  <2> QED BY <2>1 DEF SB!bufferVars, Hist, Scr
<1> QED BY <1>1, <1>2, <1>3, <1>4, <1>5, <1>6, <1>7 DEF Next

(* The circular array of UnicodeTranscript implements the scrollback       *)
(* buffer, for every size of the array and of the screen: no edit, no      *)
(* blockCopy() in either direction, no scroll of any region across the end *)
(* of the array and no resize loses, repeats or reorders a line, and the   *)
(* cursor that updateSize() stores stays on its line.                      *)
THEOREM Refinement == Spec => ImplementsScrollback
<1>1. Init => SB!Init
  BY InitIsPromised
<1>2. IInv /\ [Next]_vars => [SB!Next]_(SB!bufferVars)
  BY StepIsPromised
<1>3. Spec => []IInv
  BY InductiveInvariant
<1> QED BY <1>1, <1>2, <1>3, PTL DEF Spec, ImplementsScrollback, SB!Spec

(* Each call that moves rows, blockCopy(), scroll() and resize(), does     *)
(* with its arguments what the abstract operation of that name does, for   *)
(* every size of the array and of the screen.                              *)
THEOREM RowsMoveAsTheyShould == Spec => RowsMoveAsPromised
<1> DEFINE P == /\ \A sy, dy \in ScreenRow, h \in 1..mScreenRows :
                     blockCopy(sy, dy, h) => SB!CopyTextOf(sy + 1, dy + 1, h)
                /\ \A top \in ScreenRow, bottom \in 1..mScreenRows :
                     scroll(top, bottom) => SB!ScrollRegion(top, bottom)
                /\ \A rows \in 1..MaxScreenRows : resize(rows) => SB!ResizeTo(rows)
<1>1. ASSUME IInv PROVE P
  <2>1. ASSUME NEW sy \in ScreenRow, NEW dy \in ScreenRow, NEW h \in 1..mScreenRows,
               blockCopy(sy, dy, h)
        PROVE  SB!CopyTextOf(sy + 1, dy + 1, h)
    BY <1>1, <2>1, CopyIsPromised
  <2>2. ASSUME NEW top \in ScreenRow, NEW bottom \in 1..mScreenRows, scroll(top, bottom)
        PROVE  SB!ScrollRegion(top, bottom)
    BY <1>1, <2>2, ScrollIsPromised
  <2>3. ASSUME NEW rows \in 1..MaxScreenRows, resize(rows) PROVE SB!ResizeTo(rows)
    BY <1>1, <2>3, ResizeIsPromised
  <2> QED BY <2>1, <2>2, <2>3
<1>2. IInv /\ [Next]_vars => [P]_vars
  BY <1>1
<1>3. Spec => []IInv
  BY InductiveInvariant
<1> HIDE DEF P
<1>4. Spec => [][P]_vars
  BY <1>2, <1>3, PTL DEF Spec
<1> QED BY <1>4 DEF P, RowsMoveAsPromised
=============================================================================
