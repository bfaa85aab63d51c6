----------------------------- MODULE Scrollback -----------------------------
(***************************************************************************)
(* What the terminal's screen buffer promises: a screen of lines, the      *)
(* history of lines that left it at the top, the newest of which are kept, *)
(* and a cursor that stays on its line when the window changes its height. *)
(***************************************************************************)
EXTENDS Integers, Sequences

CONSTANTS Text,            \* what a line that is not blank can show
          Blank,           \* a line without text
          TotalRows,       \* history and screen together
          MaxScreenRows    \* the highest window

VARIABLES history, screen, cursor

bufferVars == <<history, screen, cursor>>

Lines == [text : Text \cup {Blank}, wrap : BOOLEAN]
BlankLine == [text |-> Blank, wrap |-> FALSE]

Rows == Len(screen)
Last(s, n) == IF n >= Len(s) THEN s ELSE SubSeq(s, Len(s) - n + 1, Len(s))

Init == \E rows \in 1..MaxScreenRows :
          /\ history = << >>
          /\ screen = [i \in 1..rows |-> BlankLine]
          /\ cursor = 0

(* Print on, mark as wrapped, or clear one line of the screen.             *)
Edit == /\ UNCHANGED <<history, cursor>>
        /\ \E i \in 1..Rows, l \in Lines : screen' = [screen EXCEPT ![i] = l]

(* Lines i..i+h-1 are overwritten with the text of the h lines from j on.  *)
CopyTextOf(j, i, h) ==
          /\ i + h - 1 <= Rows /\ j + h - 1 <= Rows
          /\ screen' = [k \in 1..Rows |->
                          IF k \in i..(i + h - 1)
                          THEN [screen[k] EXCEPT !.text = screen[j + k - i].text]
                          ELSE screen[k]]
          /\ UNCHANGED <<history, cursor>>

CopyText == \E i, j \in 1..Rows, h \in 1..Rows : CopyTextOf(j, i, h)

MoveCursor == /\ cursor' \in 0..(Rows - 1)
              /\ UNCHANGED <<history, screen>>

(* The top line of the region top+1..bottom leaves for the history, a      *)
(* blank one comes in at its bottom; nothing else moves.                   *)
ScrollRegion(top, bottom) ==
          /\ top < bottom
          /\ history' = Last(Append(history, screen[top + 1]), TotalRows - Rows)
          /\ screen' = [i \in 1..Rows |->
                          CASE i <= top \/ i > bottom -> screen[i]
                            [] i = bottom -> BlankLine
                            [] OTHER -> screen[i + 1]]
          /\ UNCHANGED cursor

Scroll == \E top \in 0..(Rows - 1), bottom \in 1..Rows : ScrollRegion(top, bottom)

(* Blank lines at the bottom of the screen, below the cursor.              *)
Spare == LET blank(n) == \A i \in (Rows - n + 1)..Rows :
                            screen[i].text = Blank /\ i - 1 > cursor
         IN  CHOOSE n \in 0..Rows : blank(n) /\ (n = Rows \/ ~blank(n + 1))

(* A lower window first gives up spare lines, then lines at the top; a     *)
(* higher one takes lines back from the history, then adds blank ones.     *)
ResizeTo(rows) ==
  LET fewer == Rows - rows
      all == history \o
             SubSeq(screen, 1, Rows - (IF fewer <= 0 THEN 0
                                       ELSE IF Spare < fewer THEN Spare ELSE fewer))
      padded == all \o [i \in 1..(IF Len(all) < rows THEN rows - Len(all) ELSE 0)
                          |-> BlankLine]
      kept == Len(padded) - rows
      line == Len(history) + cursor - kept
  IN  /\ fewer # 0
      /\ history' = SubSeq(padded, 1, kept)
      /\ screen' = SubSeq(padded, kept + 1, Len(padded))
      /\ cursor' = IF line < 0 THEN 0 ELSE line

Resize == \E rows \in 1..MaxScreenRows : ResizeTo(rows)

Next == Edit \/ MoveCursor \/ Scroll \/ Resize \/ CopyText

Spec == Init /\ [][Next]_bufferVars
=============================================================================
