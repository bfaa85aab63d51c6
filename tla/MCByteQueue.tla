---------------------------- MODULE MCByteQueue -----------------------------
(* A three-byte queue, writes of one to four bytes (one more than fits),   *)
(* reads of one to three, a stream of seven bytes: the head wraps twice,   *)
(* every split of a copy at the end of the array happens, and the producer *)
(* blocks both before and in the middle of a copy.                         *)
EXTENDS ByteQueue
=============================================================================
