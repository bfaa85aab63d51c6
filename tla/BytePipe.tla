------------------------------ MODULE BytePipe ------------------------------
(***************************************************************************)
(* What a ByteQueue promises to its one producer and its one consumer: a   *)
(* bounded FIFO pipe of bytes.  A byte is represented by its position in   *)
(* the producer's stream (1, 2, 3, ...), so that loss, duplication and     *)
(* reordering are all visible in `received'.                               *)
(***************************************************************************)
EXTENDS Naturals, Sequences

CONSTANT Capacity           \* the most bytes that are in transit at once

VARIABLES sent,             \* how many bytes the producer has handed over
          received          \* the bytes the consumer has taken, in order

pipeVars == <<sent, received>>

Init == sent = 0 /\ received = << >>

(* The producer hands over some bytes that fit.                            *)
Put == /\ sent' \in Nat
       /\ sent' > sent
       /\ sent' - Len(received) <= Capacity
       /\ UNCHANGED received

(* The consumer takes the oldest n bytes in transit.                       *)
Take(n) == /\ n <= sent - Len(received)
           /\ received' = received \o [i \in 1..n |-> Len(received) + i]
           /\ UNCHANGED sent

Next == Put \/ \E n \in 1..Capacity : Take(n)

Spec == Init /\ [][Next]_pipeVars
=============================================================================
