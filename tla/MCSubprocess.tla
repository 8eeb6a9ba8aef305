---------------------------- MODULE MCSubprocess ----------------------------
(***************************************************************************)
(* Two runs and two process ids for TLC.                                   *)
(***************************************************************************)
EXTENDS Subprocess

CONSTANTS r1, r2, p1, p2

MCRuns == {r1, r2}

MCPids == {p1, p2}
=============================================================================
