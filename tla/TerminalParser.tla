---------------------------- MODULE TerminalParser ---------------------------
(***************************************************************************)
(* The front half of TerminalEmulator: append(), process() and             *)
(* handleUTF8Sequence() turn the bytes of the process into characters and  *)
(* control functions.  What those do is TerminalEmulator's.  Here each of  *)
(* them may end in an exception, which append() swallows: with the cursor  *)
(* or a margin off the screen nearly all of them do.                       *)
(*                                                                         *)
(* The 7-bit bytes are told apart as far as some state does.  Control      *)
(* codes that leave the parser alone (NUL, BS, HT, CR, LF, VT, FF, SO, SI) *)
(* are left out, and so is ESC %, which no state leads to.                 *)
(***************************************************************************)
EXTENDS Integers, Sequences, FiniteSets

CONSTANTS Bytes,        \* the printable bytes in use
          MaxArgs,      \* MAX_ESCAPE_PARAMETERS
          MaxOSC,       \* MAX_OSC_STRING_LENGTH
          IntMax,       \* the largest int
          MaxParams,    \* bound: bytes of the arguments of a sequence
          MaxSent       \* bound: bytes of a string

Digits == {"0", "1", "2", "3", "4", "5", "6", "7", "8", "9"}
Intermediates == {"[", "]", "#", "(", ")", "?", ";", "\\"}
Finals == {"m", "other"}          \* other: any function
C1 == {"[", "]", "\\", "other"}   \* ESC x is also the byte x + 0x40

ASSUME ParserAssumption ==
  /\ Bytes \subseteq Digits \cup Intermediates \cup Finals
  /\ MaxArgs \in Nat \ {0} /\ MaxOSC \in Nat /\ IntMax \in Nat /\ IntMax >= 9
  /\ MaxParams \in Nat /\ MaxSent \in Nat

VARIABLES
  parser,         \* the fields of the escape sequence, see States
  mUTF8Mode,
  mUTF8ToFollow,  \* continuation bytes still to come
  mUTF8Bytes,     \* position of mUTF8ByteBuffer
  mInputChars,    \* position of mInputCharBuffer
  mInputChar,     \* the first character of its array
  sending,        \* history: bytes missing of the character that is sent
  credit          \* history: lost characters the last exception explains

sent == <<sending, credit>>
utf8 == <<mUTF8ToFollow, mUTF8Bytes, mInputChars, mInputChar>>
vars == <<parser, mUTF8Mode, utf8, sent>>

States == {"NONE", "ESC", "POUND", "PAREN", "CSI", "CSI ?", "OSC", "OSC ESC"}

(* The characters a multibyte sequence can encode: one, another, and the   *)
(* C1 codes, named like the 7-bit byte that follows ESC.                   *)
Chars == {"one", "another"} \cup C1

DigitValue == [d \in Digits |->
  CASE d = "0" -> 0 [] d = "1" -> 1 [] d = "2" -> 2 [] d = "3" -> 3 [] d = "4" -> 4
    [] d = "5" -> 5 [] d = "6" -> 6 [] d = "7" -> 7 [] d = "8" -> 8 [] d = "9" -> 9]

(* An int: w bits, with 2^w = 2 * (IntMax + 1).                            *)
ToInt(n) == LET r == n % (2 * (IntMax + 1))
            IN  IF r > IntMax THEN r - 2 * (IntMax + 1) ELSE r

Ints == (-(IntMax + 1))..IntMax

MinOf(a, b) == IF a < b THEN a ELSE b

-----------------------------------------------------------------------------
(* The escape sequence: mEscapeState, mArgs, mArgIndex and mOSCArg, with   *)
(* what has been sent of the arguments and of the string.  Outside a       *)
(* sequence the rest is dead, since startEscapeSequence() and              *)
(* startCollectingOSCArgs() set it: finishSequence() clears it here.       *)

Ground == [state |-> "NONE", args |-> [i \in 0..(MaxArgs - 1) |-> -1], index |-> 0,
           params |-> <<>>, osc |-> <<>>, sent |-> <<>>]

finishSequence(p) == Ground

startEscapeSequence(p) == [Ground EXCEPT !.state = "ESC"]

\* mutant: another digit of a missing argument is added to its -1.
WithDigit_FromMissing(old, d) == ToInt(old * 10 + DigitValue[d])

WithDigit(old, d) == IF old >= 0 THEN ToInt(old * 10 + DigitValue[d]) ELSE DigitValue[d]

(* parseArg(), for a digit or a semicolon                                  *)
parseArg(p, b) ==
  LET more == p.index < MaxArgs
  IN  [p EXCEPT !.params = Append(@, b),
                !.args = IF more /\ b # ";"
                         THEN [p.args EXCEPT ![p.index] = WithDigit(p.args[p.index], b)]
                         ELSE @,
                !.index = IF more /\ b = ";" THEN @ + 1 ELSE @]

\* mutant: a byte is collected without a look at the room that is left.
Collect_Unbounded(p, b) == [p EXCEPT !.osc = Append(@, b), !.sent = Append(@, b)]

(* collectOSCArgs(), without what becomes of the state                     *)
Collect(p, b) ==
  [p EXCEPT !.osc = IF Len(@) < MaxOSC THEN Append(@, b) ELSE @,
            !.sent = Append(@, b)]

(* The function ends in an exception, which leaves the state what it was.  *)
(* selectGraphicRendition() reads one argument too many when all are given. *)
Throws(p, b, fails) ==
  \/ p.state = "CSI" /\ b = "m" /\ p.index = MaxArgs
  \/ /\ fails
     /\ \/ p.state \in {"ESC", "CSI"} /\ b = "other"
        \/ p.state = "POUND" /\ b = "8"
        \/ p.state = "CSI ?" /\ b \notin Digits \cup {";"}

doEsc(p, b) ==
  CASE b = "#" -> [p EXCEPT !.state = "POUND"]
    [] b \in {"(", ")"} -> [p EXCEPT !.state = "PAREN"]
    [] b = "[" -> [p EXCEPT !.state = "CSI"]
    [] b = "]" -> [p EXCEPT !.state = "OSC"]
    [] OTHER -> finishSequence(p)

doEscLeftSquareBracket(p, b) ==
  CASE b = "?" -> [p EXCEPT !.state = "CSI ?"]
    [] b \in Digits \cup {";"} -> parseArg(p, b)
    [] OTHER -> finishSequence(p)

doEscLSBQuest(p, b) ==
  IF b \in Digits \cup {";"} THEN parseArg(p, b) ELSE finishSequence(p)

(* A full buffer ends the string.                                          *)
doEscRightSquareBracket(p, b) ==
  IF Len(p.osc) < MaxOSC THEN Collect(p, b) ELSE finishSequence(p)

\* mutant: the ESC is not part of the string.
KeepEsc_Dropped(p) == p

KeepEsc(p) == Collect(p, "ESC")

(* No string terminator: the ESC and the byte belong to the string, which  *)
(* goes on even if the buffer is full.                                     *)
doEscRightSquareBracketEsc(p, b) ==
  IF b = "\\" THEN finishSequence(p)
  ELSE [Collect(KeepEsc(p), b) EXCEPT !.state = "OSC", !.sent = p.sent \o <<"ESC", b>>]

(* process(b, false) of a 7-bit byte                                       *)
process(p, b, fails) ==
  CASE b = "BEL" -> IF p.state = "OSC" THEN finishSequence(p) ELSE p
    [] b = "CAN" -> IF p.state # "NONE" THEN finishSequence(p) ELSE p
    [] b = "ESC" -> IF p.state # "OSC" THEN startEscapeSequence(p)
                                       ELSE [p EXCEPT !.state = "OSC ESC"]
    [] OTHER ->
       CASE p.state = "NONE" \/ Throws(p, b, fails) -> p
         [] OTHER ->
       CASE p.state = "ESC" -> doEsc(p, b)
         [] p.state \in {"POUND", "PAREN"} -> finishSequence(p)
         [] p.state = "CSI" -> doEscLeftSquareBracket(p, b)
         [] p.state = "CSI ?" -> doEscLSBQuest(p, b)
         [] p.state = "OSC" -> doEscRightSquareBracket(p, b)
         [] p.state = "OSC ESC" -> doEscRightSquareBracketEsc(p, b)

(* A C1 control is ESC and a byte.                                         *)
processC1(p, x, fails) == process(process(p, "ESC", FALSE), x, fails)

(* The bounds on what is remembered of a sequence.                         *)
Room == Len(parser.params) < MaxParams /\ Len(parser.sent) < MaxSent
-----------------------------------------------------------------------------
(* The history of what the process sends, for DamageIsBounded.  It sends   *)
(* characters of one to four bytes.  An exception in the middle of one     *)
(* explains the loss of up to Spoiled later ones; so does a byte that      *)
(* comes before the character is complete.                                 *)
Spoiled == 3

(* A byte that begins a character, with so many to follow.                 *)
Starts(follow) ==
  /\ sending' = follow
  /\ credit' = IF sending > 0 THEN Spoiled ELSE credit

(* It is swallowed; a character of one byte is lost by that.               *)
Swallows(follow) ==
  /\ sending' = follow
  /\ credit' = IF sending > 0 THEN Spoiled ELSE IF follow = 0 THEN credit - 1 ELSE credit

(* A byte that continues a character and does not show it: if it was the   *)
(* last, the character is lost.                                            *)
Continues ==
  /\ sending' = IF sending > 0 THEN sending - 1 ELSE 0
  /\ credit' = IF sending = 1 THEN credit - 1 ELSE credit
-----------------------------------------------------------------------------
(* append() of one byte                                                    *)

(* A 7-bit byte outside a multibyte character.                             *)
AsciiByte == \E b \in Bytes \cup {"BEL", "CAN", "ESC"}, fails \in BOOLEAN :
  /\ ~mUTF8Mode \/ mUTF8ToFollow = 0
  /\ Room
  /\ parser' = process(parser, b, fails)
  /\ Starts(0)
  /\ UNCHANGED <<mUTF8Mode, utf8>>

(* Without UTF-8, a byte 0x80..0x9f, and one above.                        *)
HighByte == \E fails \in BOOLEAN :
  /\ ~mUTF8Mode /\ Room
  /\ \/ \E x \in C1 : parser' = processC1(parser, x, fails)
     \/ parser' = process(parser, "other", fails)
  /\ UNCHANGED <<mUTF8Mode, utf8, sent>>

(* handleUTF8Sequence(): a byte that can start no character is replaced.   *)
UTF8Replaced ==
  /\ mUTF8Mode /\ mUTF8ToFollow = 0
  /\ Continues \/ Starts(0)
  /\ UNCHANGED <<parser, mUTF8Mode, utf8>>

(* The first byte of a character.  put() throws if the buffer is full.     *)
UTF8Lead == \E follow \in 1..3 :
  /\ mUTF8Mode /\ mUTF8ToFollow = 0
  /\ mUTF8ToFollow' = follow
  /\ mUTF8Bytes' = IF mUTF8Bytes < 4 THEN mUTF8Bytes + 1 ELSE mUTF8Bytes
  /\ Starts(follow)
  /\ UNCHANGED <<parser, mUTF8Mode, mInputChars, mInputChar>>

(* A byte that does not continue the character is lost with it, be it the  *)
(* first of another one.                                                   *)
UTF8Broken == \E follow \in 0..3 :
  /\ mUTF8Mode /\ mUTF8ToFollow > 0
  /\ mUTF8ToFollow' = 0 /\ mUTF8Bytes' = 0
  /\ Swallows(follow)
  /\ UNCHANGED <<parser, mUTF8Mode, mInputChars, mInputChar>>

(* A continuation byte that is not the last, or finds no room: put()       *)
(* throws before mUTF8ToFollow is counted down.                            *)
UTF8Continue ==
  /\ mUTF8Mode /\ mUTF8ToFollow > 0
  /\ IF mUTF8Bytes = 4 THEN UNCHANGED utf8
     ELSE /\ mUTF8ToFollow > 1
          /\ mUTF8ToFollow' = mUTF8ToFollow - 1
          /\ mUTF8Bytes' = mUTF8Bytes + 1
          /\ UNCHANGED <<mInputChars, mInputChar>>
  /\ Continues
  /\ UNCHANGED <<parser, mUTF8Mode>>

(* decode() of the whole buffer, stale bytes included, into two chars.  It *)
(* always fills them; if they are full already it takes nothing, and the   *)
(* stale one is shown.                                                     *)
Stale == mInputChars = 2
Decoded(c) == IF Stale THEN mInputChar ELSE c
Consumed == IF Stale THEN {0} ELSE 2..4

\* mutant: the character buffer is not cleared.
ClearChars_Forgotten == mInputChars' = 2

ClearChars == mInputChars' = 0

(* The last byte of a character that encodes c.  An exception of emit() or *)
(* of process() leaves both buffers as they are; that of a stale character *)
(* explains no more than the loss of this one.                             *)
UTF8Last == \E c \in Chars, fails \in BOOLEAN :
  LET shown == Decoded(c)
      threw == IF shown \in C1 THEN Throws(process(parser, "ESC", FALSE), shown, fails)
                               ELSE fails
  IN  /\ mUTF8Mode /\ mUTF8ToFollow = 1 /\ mUTF8Bytes < 4
      /\ shown \in C1 => Room
      /\ mUTF8ToFollow' = 0
      /\ mInputChar' = shown
      /\ parser' = IF shown \in C1 THEN processC1(parser, shown, fails) ELSE parser
      /\ IF threw THEN mUTF8Bytes' \in Consumed /\ mInputChars' = 2
                  ELSE mUTF8Bytes' = 0 /\ ClearChars
      /\ sending' = 0
      /\ credit' = IF Stale THEN (IF threw THEN credit ELSE credit - 1)
                            ELSE (IF threw THEN Spoiled ELSE 0)
      /\ UNCHANGED mUTF8Mode

(* setUTF8Mode(), from the settings                                        *)
setUTF8Mode ==
  /\ mUTF8Mode' = ~mUTF8Mode
  /\ IF mUTF8Mode' THEN /\ mUTF8ToFollow' = 0 /\ mUTF8Bytes' = 0 /\ mInputChars' = 0
                        /\ credit' = 0 /\ UNCHANGED mInputChar
                   ELSE UNCHANGED <<utf8, credit>>
  /\ sending' = 0
  /\ UNCHANGED parser

reset ==
  /\ parser' = Ground
  /\ mUTF8Mode' \in BOOLEAN
  /\ mUTF8ToFollow' = 0 /\ mUTF8Bytes' = 0 /\ mInputChars' = 0
  /\ sending' = 0 /\ credit' = 0 /\ UNCHANGED mInputChar

Init ==
  /\ parser = Ground
  /\ mUTF8Mode \in BOOLEAN
  /\ mUTF8ToFollow = 0 /\ mUTF8Bytes = 0
  /\ mInputChars = 0 /\ mInputChar = "one"
  /\ sending = 0 /\ credit = 0

Next ==
  \/ AsciiByte \/ HighByte
  \/ UTF8Replaced \/ UTF8Lead \/ UTF8Continue \/ UTF8Last \/ UTF8Broken
  \/ setUTF8Mode \/ reset

Spec == Init /\ [][Next]_vars
-----------------------------------------------------------------------------
(* Type invariant.  mArgIndex does not keep to what is said of it, "Ranges *)
(* from 0 to MAX_ESCAPE_PARAMETERS-1": a semicolon after the last argument *)
(* takes it one past the array, where CSI m reads (Throws).                *)
TypeOK ==
  /\ parser.state \in States
  /\ parser.args \in [0..(MaxArgs - 1) -> Ints]
  /\ parser.index \in 0..MaxArgs
  /\ Len(parser.osc) <= MaxOSC
  /\ mUTF8Mode \in BOOLEAN
  /\ mUTF8ToFollow \in 0..3 /\ mUTF8Bytes \in 0..4
  /\ mInputChars \in {0, 2} /\ mInputChar \in Chars
  /\ sending \in 0..3 /\ credit \in Int

(* What was written: the digits between the i-th and the next semicolon of *)
(* q, and the number they denote, place by place.                          *)
Semicolons(q) == {k \in 1..Len(q) : q[k] = ";"}

FieldDigits(q, i) ==
  {k \in (1..Len(q)) \ Semicolons(q) : Cardinality({j \in Semicolons(q) : j < k}) = i}

Pow10[n \in Nat] == IF n = 0 THEN 1 ELSE 10 * Pow10[n - 1]

Sum(t) == LET s[k \in Nat] == IF k = 0 THEN 0 ELSE s[k - 1] + t[k] IN s

LastPlace(K) == CHOOSE k \in K : \A j \in K : j <= k

Places(q, K) ==
  [k \in Nat |-> IF k \in K THEN DigitValue[q[k]] * Pow10[LastPlace(K) - k] ELSE 0]

FieldValue(q, i) == Sum(Places(q, FieldDigits(q, i)))[Len(q)]

ArgsMatch(p) ==
  /\ p.index = MinOf(Cardinality(Semicolons(p.params)), MaxArgs)
  /\ \A i \in 0..(MaxArgs - 1) :
       \/ FieldDigits(p.params, i) = {} /\ p.args[i] = -1
       \/ FieldDigits(p.params, i) # {} /\ p.args[i] = FieldValue(p.params, i)
       \/ FieldDigits(p.params, i) # {} /\ FieldValue(p.params, i) > IntMax

(* The arguments of a sequence are the numbers written between its         *)
(* semicolons, -1 for an empty one, as long as they are ints; one too many *)
(* changes none of them.  After an exception, too, when the parser is left *)
(* inside the sequence.                                                    *)
ArgsAreTheFields == parser.state \in {"CSI", "CSI ?"} => ArgsMatch(parser)

(* The string of an OSC sequence (a title) is what was sent of it in 7-bit *)
(* bytes, an ESC that ends nothing included, cut off where the buffer ends *)
(* and nowhere else.                                                       *)
StringIsWhatWasSent ==
  parser.state \in {"OSC", "OSC ESC"} =>
    parser.osc = SubSeq(parser.sent, 1, MinOf(Len(parser.sent), MaxOSC))

(* A multibyte character is decoded from its own bytes and shown.  An      *)
(* exception that leaves the buffers uncleared spoils three later ones and *)
(* no more: one finds no room for its bytes, one is swallowed to end it,   *)
(* and one shows the stale character.  If that ends in an exception again, *)
(* the next one shows it, too.                                             *)
DamageIsBounded == credit >= 0
=============================================================================
