------------------------- MODULE MCShellTermSession --------------------------
(***************************************************************************)
(* Instance of ShellTermSession for TLC: three sessions, so that one can   *)
(* take the number that another has left and a third still uses.  To keep  *)
(* them apart, only the readers of Busy sessions use their streams (the    *)
(* writers are like them, except that no end of file stops them), the      *)
(* creation of the Frail ones fails and of no other, and Busy sessions are *)
(* older than the rest.  Bounded is the action constraint; no step it      *)
(* takes away is one that fairness asks for.                               *)
(***************************************************************************)
EXTENDS ShellTermSession

CONSTANTS Busy, Frail

Bounded ==
  /\ \A s \in Sessions, th \in Threads :
       s \notin Busy \/ th # "reader" => io'[s][th] \in {"new", "idle"}
  /\ \A s \in Sessions : state'[s] = "created" => (proc'[s] = "none" <=> s \in Frail)
  /\ \A s \in Sessions \ (Busy \cup Frail), t \in Busy :
       state'[s] # "none" => state'[t] # "none"
=============================================================================
