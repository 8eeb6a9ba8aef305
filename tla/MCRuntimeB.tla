----------------------------- MODULE MCRuntimeB -----------------------------
(***************************************************************************)
(* A session of four requests for TLC, the descriptor and the close among  *)
(* them: a call of no strings, and one of two strings, the second empty.   *)
(***************************************************************************)
EXTENDS RuntimeB

MCStrings == {"base", Empty}

MCCalls ==
  {[fn |-> "graphlaw_version", args |-> <<>>],
   [fn |-> "run_hooks", args |-> <<"base", Empty>>]}

MCStrays == {"malformed", "null"}
=============================================================================
