--------------------------- MODULE MCTermSession ----------------------------
(* Queues of two bytes, a process that prints three and a main thread that *)
(* writes three: both queues fill, block their producer and are drained    *)
(* while being filled again; the session may be finished at any point.     *)
EXTENDS TermSession
=============================================================================
