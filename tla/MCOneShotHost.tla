---------------------------- MODULE MCOneShotHost ----------------------------
(***************************************************************************)
(* All seven scripts for TLC.                                              *)
(***************************************************************************)
EXTENDS OneShotHost

MCHosts ==
  {"vendor", "admission", "probe", "driver", "invoke", "peer", "verify"}
=============================================================================
