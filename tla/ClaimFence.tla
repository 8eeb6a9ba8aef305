------------------------------ MODULE ClaimFence ------------------------------
(***************************************************************************)
(* What the receipted route promises of command ids, apart from receipts,  *)
(* leases, drains and crashes: actors contend for keys; a key may pass     *)
(* from actor to actor until its holder, with evidence of itself on        *)
(* record, is cleared to cross; from then on neither the key nor the       *)
(* evidence can be taken from it unless it withdraws, which it can only    *)
(* before it has crossed.                                                  *)
(***************************************************************************)
CONSTANTS Actors, Keys, KeyOf, NoActor

VARIABLES
  holder,    \* the actor that has each key
  evidence,  \* actors with evidence on record
  cleared,   \* actors that were told they may cross
  crossed    \* actors that have crossed

vars == <<holder, evidence, cleared, crossed>>

Init ==
  /\ holder = [k \in Keys |-> NoActor]
  /\ evidence = {} /\ cleared = {} /\ crossed = {}

\* A key is free, or taken over from an actor that was not cleared.
Take(a) ==
  /\ holder[KeyOf[a]] \notin cleared
  /\ holder' = [holder EXCEPT ![KeyOf[a]] = a]
  /\ UNCHANGED <<evidence, cleared, crossed>>

Record(a) ==
  /\ evidence' = evidence \cup {a}
  /\ UNCHANGED <<holder, cleared, crossed>>

Discard(a) ==
  /\ a \notin cleared
  /\ evidence' = evidence \ {a}
  /\ UNCHANGED <<holder, cleared, crossed>>

Clear(a) ==
  /\ holder[KeyOf[a]] = a /\ a \in evidence
  /\ cleared' = cleared \cup {a}
  /\ UNCHANGED <<holder, evidence, crossed>>

\* Refused or dead before they crossed; a restart withdraws several.
Withdraw(some) ==
  /\ some \subseteq cleared \ crossed
  /\ cleared' = cleared \ some
  /\ UNCHANGED <<holder, evidence, crossed>>

Cross(a) ==
  /\ a \in cleared
  /\ crossed' = crossed \cup {a}
  /\ UNCHANGED <<holder, evidence, cleared>>

Next ==
  \/ \E a \in Actors :
       Take(a) \/ Record(a) \/ Discard(a) \/ Clear(a) \/ Cross(a)
  \/ \E some \in SUBSET Actors : Withdraw(some)

Spec == Init /\ [][Next]_vars

\* One actor per key crosses.
CrossedOnce == \A a, b \in crossed : KeyOf[a] = KeyOf[b] => a = b

\* Who has crossed can be shown to have.
CrossedShown == crossed \subseteq evidence
=============================================================================
