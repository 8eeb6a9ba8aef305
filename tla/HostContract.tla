---------------------------- MODULE HostContract ----------------------------
(***************************************************************************)
(* What a caller on the BEAM may expect of a one-shot GraphLaw host: a     *)
(* process that writes one JSON object, a success or a refusal, and then   *)
(* exits; that never exits in silence unless it is one of the fragile      *)
(* ones; and that can be late only because its engine hangs.               *)
(***************************************************************************)
VARIABLES
  answer,    \* "none", or which object is on stdout: "ok" or "refused"
  status,    \* "running", "exited", "crashed" or "hung"
  fragile    \* the process may die on an uncaught error

vars == <<answer, status, fragile>>

Init ==
  /\ answer = "none"
  /\ status = "running"
  /\ fragile \in BOOLEAN

Answer ==
  /\ status = "running" /\ answer = "none"
  /\ answer' \in {"ok", "refused"}
  /\ UNCHANGED <<status, fragile>>

\* fail(): the refusal is written and the process ends at once.
Refuse ==
  /\ status = "running" /\ answer = "none"
  /\ answer' = "refused" /\ status' = "exited"
  /\ UNCHANGED fragile

Exit ==
  /\ status = "running" /\ answer # "none"
  /\ status' = "exited"
  /\ UNCHANGED <<answer, fragile>>

Crash ==
  /\ status = "running" /\ answer = "none" /\ fragile
  /\ status' = "crashed"
  /\ UNCHANGED <<answer, fragile>>

Hang ==
  /\ status = "running" /\ answer = "none"
  /\ status' = "hung"
  /\ UNCHANGED <<answer, fragile>>

Next == Answer \/ Refuse \/ Exit \/ Crash \/ Hang

Safe == Init /\ [][Next]_vars

\* A running host gets on with it.
Spec == Safe /\ WF_vars(Next)
=============================================================================
