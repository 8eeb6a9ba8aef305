----------------------------- MODULE MCActuator -----------------------------
(***************************************************************************)
(* Four certified requests for TLC: a and b ask  for the same instance     *)
(* with different effects, c is a probe of another instance that shares a  *)
(* nonce with a only, and d carries a stale generation.                    *)
(***************************************************************************)
EXTENDS Actuator

MCRequests  == {"a", "b", "c", "d"}
MCInstances == {"i1", "i2"}
MCNonces    == {"n1", "n2"}
MCDigests   == {"d1", "d2", "d3"}

MCInstanceOf == [q \in MCRequests |-> IF q \in {"a", "b"} THEN "i1" ELSE "i2"]
MCNoncesOf   == [q \in MCRequests |->
                   CASE q = "a" -> {"n1"} [] q = "b" -> {"n2"}
                     [] q = "c" -> {"n1"} [] q = "d" -> {"n2"}]
MCDigestOf   == [q \in MCRequests |->
                   CASE q = "a" -> "d1" [] q = "b" -> "d2" [] OTHER -> "d3"]
MCCurrent    == MCRequests \ {"d"}
MCProbes     == {"c"}
=============================================================================
