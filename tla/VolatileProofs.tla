---------------------------- MODULE VolatileProofs ----------------------------
(***************************************************************************)
(* Second DOs over a store that can lose its memory, for every number of   *)
(* runs, reconcilers, commands and restarts, while no store call and no    *)
(* journal write fails.  The store is lost with the node (NodeRestart) or  *)
(* alone, its callers living on (StoreRestart); the claim of a command     *)
(* that crossed DO is then gone, and what stands between it and a second   *)
(* DO is the journal, with the drain each run makes before it claims.      *)
(*                                                                         *)
(* A run that was under way when the store was lost alone may have made    *)
(* its drain before the entry it should have met was written: such runs    *)
(* (outlived) can cross DO again, and only they.  VolatileInv says why: a  *)
(* command that may have been spent keeps a receipt or an entry that only  *)
(* a drain removes, and no run that started after the loss comes to claim  *)
(* an unclaimed command before its own drain has passed every such entry,  *)
(* giving the command back to the entry's run.  RouteShape adds to Shape   *)
(* what the steps do to the journal's entries and to a drain's progress.   *)
(***************************************************************************)
EXTENDS CommandBusProofs

\* The places of a run that no journal entry can name yet.
Unanchored == PreClaim \cup {"claim_actuation", "prepare"}

\* From the drain to the claim.
Listing == {"drain", "admit", "claim"}

\* From the claim to DO.
OnWay == {"claim_actuation", "prepare", "confirm", "pre_do"}

\* An entry is dropped only once the store holds a receipt for its command, or
\* held one and lost it.
LossInv ==
  /\ \A p \in Procs :
       dpc[p] = "remove" => \/ stored[CommandOf[cur[p].run]] # NoReceipt
                            \/ CommandOf[cur[p].run] \in forgotten
  /\ \A r \in Runs :
       /\ pc[r] = "cleanup" =>
            stored[CommandOf[r]] # NoReceipt \/ CommandOf[r] \in forgotten
       /\ r \in dispatched => pc[r] \in Settled

\* A run that holds or has lost its claim finds its command claimed, unless the
\* store was lost under it.
ClaimedInv ==
  \A r \in Runs \ outlived :
    pc[r] \in PreDo \cup PostDo => claimant[CommandOf[r]] # NoRun

\* What the journal or a drain holds was written by a run past its anchor.
WrittenInv ==
  \A r \in Runs :
    Anchored(r) \/ (\E p \in Procs : cur[p].run = r) => pc[r] \notin Unanchored

\* A live run past its anchor is covered by its entry or by a receipt of its
\* command; one that was told it may cross DO has the claim, unless the store
\* was lost under it.
LiveInv ==
  \A r \in Runs :
    Consequential(r) /\ CommandOf[r] \notin forgotten =>
      /\ pc[r] \in {"confirm", "pre_do"} \cup PostDo =>
           Anchored(r) \/ stored[CommandOf[r]] # NoReceipt
      /\ pc[r] \in {"pre_do"} \cup PostDo /\ r \notin outlived =>
           claimant[CommandOf[r]] = r

\* The runs of a command that may have crossed DO, unless the store lost the
\* command's receipt.
Spenders(c) == {r \in PastConfirm : CommandOf[r] = c /\ c \notin forgotten}

\* An entry that counts.  The anchor of a run that is about to confirm over an
\* emptied store does not: the confirmation refuses, and the entry is unlinked.
Weighty(k) == k \notin outlived \/ k \in PastConfirm

\* The journal has an entry of the command that only a drain can remove.
Kept(c) ==
  \E k \in Runs :
    Anchored(k) /\ CommandOf[k] = c /\ pc[k] \in Over /\ Weighty(k)

\* A command that may have been spent has a receipt in the store or an entry
\* that no refusal unlinks, be it the entry of the run that spent it or, after
\* a restart, of another.
SpentInv ==
  \A c \in Commands : \A q \in Spenders(c) :
    Anchored(q) \/ stored[c] # NoReceipt \/ Kept(c)

\* A run on its way to DO that has the claim is the first of its command, unless
\* the store was lost under it.
FirstInv ==
  \A r \in Runs \ outlived :
    Consequential(r) /\ claimant[CommandOf[r]] = r /\ pc[r] \in OnWay
      => Spenders(CommandOf[r]) \subseteq {r}

\* The drain of run r has still to come to the entry of run k.
Ahead(r, k) ==
  /\ pc[r] = "drain"
  /\ \/ k \in todo[r]
     \/ dpc[r] \in {"fetch", "commit", "reclaim"} /\ cur[r].run = k

\* A run that started after the loss of the store finds its command unclaimed
\* only while its drain has every entry of the command before it.
DrainedInv ==
  \A r \in Runs \ outlived, k \in Runs :
    /\ pc[r] \in Listing
    /\ claimant[CommandOf[r]] = NoRun /\ CommandOf[r] \notin forgotten
    /\ Anchored(k) /\ CommandOf[k] = CommandOf[r] /\ Weighty(k)
    => Ahead(r, k)

\* The inductive invariant of run/4 over a store that can be lost.
VolatileInv ==
  /\ FenceInv /\ LossInv
  /\ ClaimedInv /\ WrittenInv /\ LiveInv /\ SpentInv /\ FirstInv /\ DrainedInv

(* Shape of a step ********************************************************)

\* The run is handed its command's claim.
Claims(r) ==
  /\ pc[r] = "claim" /\ pc'[r] = "claim_actuation"
  /\ ClaimDecision(r) = "execute" /\ RecordClaim(r)

\* Where a run can come from.
RouteStep ==
  \A r \in Runs :
    /\ pc'[r] \in PreDo \cup PostDo => pc[r] \in PreDo \cup PostDo \/ Claims(r)
    /\ pc'[r] \in OnWay => pc[r] \in OnWay \/ Claims(r)
    /\ pc'[r] \in Unanchored => pc[r] \in Unanchored
    /\ pc'[r] \in PostDo => pc[r] \in PostDo \cup {"pre_do"}
    /\ pc[r] \in Over => pc'[r] \in Over

\* Entries are written by a run at its anchor or its outbox, and decoded from
\* the journal.
WrittenStep ==
  \A r \in Runs :
    /\ Anchored(r)' =>
         Anchored(r) \/ (pc[r] \in {"prepare", "outbox"} /\ pc'[r] \notin Unanchored)
    /\ \A p \in Procs : cur'[p].run = r => cur[p].run = r \/ Anchored(r)

\* A claim is handed to a run that asks for it, or to the run of an entry a
\* drain has in its hands.
ClaimSource ==
  \/ UNCHANGED claimant
  \/ \E q \in Runs :
       /\ ClaimDecision(q) = "execute" /\ RecordClaim(q)
       /\ pc[q] = "claim" \/ \E p \in Procs : cur[p].run = q

\* A drain passes an entry of an unclaimed command only by claiming it.
DrainedStep ==
  \A r, k \in Runs :
    /\ pc'[r] \in Listing /\ claimant'[CommandOf[k]] = NoRun
    /\ Anchored(k) /\ (pc[r] \in Listing => Ahead(r, k))
    => Ahead(r, k)'

\* No step takes back a DO, and only a restart loses a command or a claim.
PastStep == dispatched \subseteq dispatched' /\ UNCHANGED <<forgotten, outlived>>

RouteShape == RouteStep /\ WrittenStep /\ ClaimSource /\ DrainedStep /\ PastStep

\* Every step but the restarts has the shape, when nothing fails: one case per
\* action.
LEMMA RouteShapeHolds ==
  ASSUME MaxFaults = 0, TypedInv, FenceInv,
         ~(NodeRestart \/ StoreRestart), [Next]_vars
  PROVE  RouteShape
<1> USE RunAssumption, BoundAssumption
     DEF RouteShape, RouteStep, WrittenStep, ClaimSource, DrainedStep, PastStep,
         Ahead, Anchored, Claims, Unanchored, Listing, OnWay, Over,
         TypedInv, TypeOK, DraftInv, DrainInv, Procs, PreClaim, PreDo, PostDo,
         vars, runVars, storeVars, drainVars, envVars
<1>0. NoReceipt \notin Receipt /\ NoReceipt.run = NoRun
  BY ReceiptTypes DEF NoReceipt
<1>1. ~Fault
  BY DEF Fault
<1>2. ASSUME NEW r \in Runs, RunStep(r) \/ Crash(r) PROVE RouteShape
  <2>1. CASE Submit(r)
    <3>1. \A k \in Runs : Anchored(k) => k \in EntryNames
      BY DEF EntryNames
    <3>2. /\ UNCHANGED <<dispatched, claimant, outbox, cur, envVars>>
          /\ \A q \in Runs \ {r} : pc'[q] = pc[q]
          /\ \A q \in Runs \ {r} : todo'[q] = todo[q] /\ dpc'[q] = dpc[q]
          /\ pc[r] = "idle" /\ pc'[r] \in {"drain", "admit"}
          /\ pc'[r] = "admit" => EntryNames = {}
          /\ pc'[r] = "drain" => todo'[r] = EntryNames
      BY <2>1 DEF Submit, Goto
    <3>3. QED
      BY <3>1, <3>2
  <2>2. CASE Admit(r)
    BY <2>2 DEF Admit, Goto, Answer
  <2>3. CASE ClaimReceipt(r)
    BY <1>1, <2>3 DEF ClaimReceipt, RecordClaim, NoFault, Goto, Answer
  <2>4. CASE ClaimActuation(r)
    BY <1>1, <2>4 DEF ClaimActuation, RecordActuation, HealActuation, NoFault, Goto
  <2>5. CASE PrepareAnchor(r)
    <3>1. Pending(r).run = r
      BY DEF Pending
    <3>2. QED
      BY <1>1, <2>5, <3>1 DEF PrepareAnchor, Journal, NoFault, Goto
  <2>6. CASE ConfirmExecution(r)
    BY <1>1, <2>6 DEF ConfirmExecution, NoFault, Goto
  <2>7. CASE PreDoGate(r)
    BY <2>7 DEF PreDoGate, Goto
  <2>8. CASE UnlinkAnchor(r)
    BY <1>1, <2>8 DEF UnlinkAnchor, RemoveEntry, Unjournal, NoFault, Goto
  <2>9. CASE ReleaseActuation(r)
    BY <1>1, <2>9 DEF ReleaseActuation, NoFault, Goto
  <2>10. CASE CloseClaim(r)
    BY <1>1, <2>10 DEF CloseClaim, Commit, RecordCommit, NoFault, Goto
  <2>11. CASE Reply(r)
    BY <2>11 DEF Reply, Goto
  <2>12. CASE Timeout(r)
    BY <2>12 DEF Timeout, Goto
  <2>13. CASE CloseTimedOut(r)
    BY <1>1, <2>13 DEF CloseTimedOut, Commit, RecordCommit, NoFault, Answer
  <2>14. CASE CommitActuation(r)
    BY <1>1, <2>14 DEF CommitActuation, NoFault, Goto
  <2>15. CASE CommitReceipt(r)
    BY <1>1, <2>15 DEF CommitReceipt, Commit, RecordCommit, NoFault, Goto
  <2>16. CASE CleanupAnchor(r)
    BY <1>1, <2>16 DEF CleanupAnchor, RemoveEntry, Unjournal, NoFault, Answer
  <2>17. CASE OutboxFinal(r)
    <3>1. draft[r].run = r
      BY <2>17 DEF OutboxFinal
    <3>2. QED
      BY <1>1, <2>17, <3>1 DEF OutboxFinal, Journal, NoFault, Answer
  <2>18. CASE Crash(r)
    BY <1>0, <2>18 DEF Crash, Goto
  <2>19. QED
    BY <1>2, <2>1, <2>2, <2>3, <2>4, <2>5, <2>6, <2>7, <2>8, <2>9,
       <2>10, <2>11, <2>12, <2>13, <2>14, <2>15, <2>16, <2>17, <2>18 DEF RunStep
<1>3. ASSUME NEW p \in Procs, DrainStep(p) \/ (p \in Reconcilers /\ Tick(p))
      PROVE RouteShape
  <2>1. CASE DrainNext(p)
    BY <1>0, <2>1 DEF DrainNext, DrainHold
  <2>2. CASE DrainEnd(p)
    BY <2>2 DEF DrainEnd, DrainGoto, Goto
  <2>3. CASE DrainFetch(p)
    <3>1. cur[p] \in Receipt /\ cur[p].run \in Runs
      BY <2>3 DEF DrainFetch, Receipt
    <3>2. stored[CommandOf[cur[p].run]] # NoReceipt =>
            claimant[CommandOf[cur[p].run]] # NoRun
      BY <3>1 DEF FenceInv, Receipt
    <3>3. QED
      BY <1>1, <2>3, <3>1, <3>2 DEF DrainFetch, DrainGoto, NoFault
  <2>4. CASE DrainCommit(p)
    <3> DEFINE x == MarkReconciled(cur[p])
    <3>1. cur[p] \in Receipt /\ cur[p].run \in Runs /\ dpc[p] = "commit"
      BY <2>4 DEF DrainCommit, Receipt
    <3>2. x \in Receipt /\ x.run = cur[p].run
      BY <3>1, ReceiptTypes DEF ReceiptOf
    <3> HIDE DEF x
    <3>3. /\ UNCHANGED <<runVars, outbox, todo, claimant, envVars>>
          /\ \/ /\ CommitDecision(x) = "unclaimed_command"
                /\ dpc' = [dpc EXCEPT ![p] = "reclaim"]
                /\ cur' = [cur EXCEPT ![p] = x]
             \/ /\ CommitDecision(x) # "unclaimed_command"
                /\ \E w \in {"remove", "next"} : dpc' = [dpc EXCEPT ![p] = w]
                /\ \E y \in {x, NoReceipt} : cur' = [cur EXCEPT ![p] = y]
      BY <1>1, <2>4 DEF DrainCommit, DrainCommitting, DrainHold, DrainLeave,
         Commit, RecordCommit, NoFault, x
    <3>4. claimant[CommandOf[cur[p].run]] = NoRun =>
            CommitDecision(x) = "unclaimed_command"
      BY <3>2 DEF CommitDecision
    <3>5. QED
      BY <1>0, <3>1, <3>2, <3>3, <3>4
  <2>5. CASE DrainReclaim(p)
    <3>1. cur[p] \in Receipt /\ cur[p].run \in Runs /\ dpc[p] = "reclaim"
      BY <2>5 DEF DrainReclaim, Receipt
    <3>2. /\ UNCHANGED <<runVars, outbox, todo, envVars>>
          /\ \/ /\ ClaimDecision(cur[p].run) = "execute"
                /\ RecordClaim(cur[p].run)
             \/ /\ ClaimDecision(cur[p].run) # "execute"
                /\ UNCHANGED claimant
          /\ \E w \in {"recommit", "remove", "next"} : dpc' = [dpc EXCEPT ![p] = w]
          /\ \E y \in {cur[p], NoReceipt} : cur' = [cur EXCEPT ![p] = y]
      BY <1>1, <2>5 DEF DrainReclaim, DrainGoto, DrainHold, DrainLeave, NoFault
    <3>3. claimant[CommandOf[cur[p].run]] = NoRun =>
            ClaimDecision(cur[p].run) = "execute"
      BY DEF ClaimDecision
    <3>4. claimant'[CommandOf[cur[p].run]] # NoRun
      BY <3>1, <3>2, <3>3 DEF RecordClaim
    <3>5. QED
      BY <1>0, <3>1, <3>2, <3>4
  <2>6. CASE DrainRecommit(p)
    BY <1>0, <1>1, <2>6 DEF DrainRecommit, DrainGoto, DrainHold, DrainLeave,
       Commit, RecordCommit, NoFault
  <2>7. CASE DrainRemove(p)
    BY <1>0, <1>1, <2>7 DEF DrainRemove, DrainHold, DrainLeave, RemoveEntry,
       Unjournal, NoFault
  <2>8. CASE p \in Reconcilers /\ Tick(p)
    BY <2>8 DEF Tick, DrainGoto
  <2>9. QED
    BY <1>3, <2>1, <2>2, <2>3, <2>4, <2>5, <2>6, <2>7, <2>8 DEF DrainStep
<1>4. ASSUME NEW c \in Commands, LeaseElapses(c) PROVE RouteShape
  BY <1>4 DEF LeaseElapses
<1>5. CASE UNCHANGED vars
  BY <1>5
<1>6. QED
  BY <1>2, <1>3, <1>4, <1>5 DEF Next, Procs

(* What a step keeps ******************************************************)

\* While the store lives, a claimed command stays claimed.
LEMMA ClaimStays ==
  ASSUME TypedInv, StoreStep, NEW c \in Commands, claimant[c] # NoRun
  PROVE  claimant'[c] # NoRun
BY RunAssumption DEF StoreStep, RecordClaim, RecordCommit, TypedInv, TypeOK

\* ReceiptStore.claim/3 hands a claimed command out again only when the journal
\* has no entry of it.
LEMMA ReclaimHasNoEntry ==
  ASSUME NEW q \in Runs, ClaimDecision(q) = "execute",
         claimant[CommandOf[q]] # NoRun, NEW k \in Runs,
         CommandOf[k] = CommandOf[q]
  PROVE  ~Anchored(k)
BY DEF ClaimDecision, Abandoned, AnchoredCommand, Anchored

\* An entry outlives a step, but the refusal of its run, unless its command has
\* a receipt afterwards.
LEMMA EntryStays ==
  ASSUME TypedInv, FenceInv, LossInv, StepShape, NEW k \in Runs,
         CommandOf[k] \notin forgotten, pc[k] # "unlink",
         Anchored(k) \/ stored[CommandOf[k]] # NoReceipt
  PROVE  Anchored(k)' \/ stored'[CommandOf[k]] # NoReceipt
<1>1. CommandOf[k] \in Commands
  BY RunAssumption
<1>2. Anchored(k) /\ ~Anchored(k)' => stored[CommandOf[k]] # NoReceipt
  BY DEF StepShape, JournalStep, Dropping, LossInv
<1>3. QED
  BY <1>1, <1>2, StoredStays DEF StepShape

\* Whoever is told in this step that it may cross DO has its command's claim.
LEMMA Cleared ==
  ASSUME StepShape, NEW q \in PastConfirm', q \notin PastConfirm
  PROVE  /\ q \in Runs /\ Consequential(q)
         /\ pc[q] = "confirm" /\ pc'[q] = "pre_do"
         /\ claimant[CommandOf[q]] = q /\ claimant' = claimant
BY DEF PastConfirm, Consequential, StepShape, ControlStep

\* An entry is still dropped only before DO, or for a receipt that is or was in
\* the store.
LEMMA LossKept ==
  ASSUME TypedInv, FenceInv, LossInv, StepShape, RouteShape
  PROVE  LossInv'
<1> USE RunAssumption
<1>1. \A c \in Commands : stored[c] # NoReceipt => stored'[c] # NoReceipt
  BY StoredStays DEF StepShape
<1>2. forgotten' = forgotten
  BY DEF RouteShape, PastStep
<1>3. ASSUME NEW p \in Procs, dpc'[p] = "remove"
      PROVE  \/ stored'[CommandOf[cur'[p].run]] # NoReceipt
             \/ CommandOf[cur'[p].run] \in forgotten'
  <2>1. CASE dpc[p] = "remove" /\ cur'[p] = cur[p]
    <3>1. cur[p] \in Receipt /\ CommandOf[cur[p].run] \in Commands
      BY <2>1 DEF TypedInv, TypeOK, DrainInv, Receipt
    <3>2. QED
      BY <1>1, <1>2, <2>1, <3>1 DEF LossInv
  <2>2. QED
    BY <1>3, <2>1 DEF StepShape, DrainShape
<1>4. ASSUME NEW r \in Runs, pc'[r] = "cleanup"
      PROVE  stored'[CommandOf[r]] # NoReceipt \/ CommandOf[r] \in forgotten'
  BY <1>1, <1>2, <1>4 DEF StepShape, ControlStep, LossInv
<1>5. ASSUME NEW r \in Runs, r \in dispatched' PROVE pc'[r] \in Settled
  BY <1>5 DEF StepShape, ControlStep, LossInv
<1>6. QED
  BY <1>3, <1>4, <1>5 DEF LossInv

\* What is in the journal or in a drain's hands still comes from runs past
\* their anchor, and a run past its claim finds its command claimed.
LEMMA WrittenKept ==
  ASSUME TypedInv, ClaimedInv, WrittenInv, StepShape, RouteShape
  PROVE  ClaimedInv' /\ WrittenInv'
<1> USE RunAssumption
<1>1. ASSUME NEW r \in Runs \ outlived', pc'[r] \in PreDo \cup PostDo
      PROVE  claimant'[CommandOf[r]] # NoRun
  <2>1. CASE Claims(r)
    BY <2>1 DEF Claims, RecordClaim, TypedInv, TypeOK
  <2>2. CASE pc[r] \in PreDo \cup PostDo
    BY <2>2, ClaimStays DEF ClaimedInv, StepShape, RouteShape, PastStep
  <2>3. QED
    BY <1>1, <2>1, <2>2 DEF RouteShape, RouteStep
<1>2. ASSUME NEW r \in Runs, Anchored(r)' \/ \E p \in Procs : cur'[p].run = r
      PROVE  pc'[r] \notin Unanchored
  <2>1. pc[r] \in Unanchored =>
          ~Anchored(r) /\ \A p \in Procs : cur[p].run # r
    BY DEF WrittenInv
  <2>2. QED
    BY <1>2, <2>1 DEF RouteShape, RouteStep, WrittenStep
<1>3. QED
  BY <1>1, <1>2 DEF ClaimedInv, WrittenInv, Anchored

\* A live run past its anchor keeps its cover, and one past its confirmation its
\* claim.
LEMMA LiveKept ==
  ASSUME TypedInv, FenceInv, LossInv, LiveInv, StepShape, RouteShape
  PROVE  LiveInv'
<1> SUFFICES ASSUME NEW r \in Runs, Consequential(r),
                    CommandOf[r] \notin forgotten'
             PROVE  /\ pc'[r] \in {"confirm", "pre_do"} \cup PostDo =>
                         Anchored(r)' \/ stored'[CommandOf[r]] # NoReceipt
                    /\ pc'[r] \in {"pre_do"} \cup PostDo /\ r \notin outlived' =>
                         claimant'[CommandOf[r]] = r
  BY DEF LiveInv, Anchored, Consequential
<1>0. UNCHANGED <<forgotten, outlived>>
  BY DEF RouteShape, PastStep
<1>1. ASSUME pc'[r] \in {"pre_do"} \cup PostDo, r \notin outlived'
      PROVE  claimant'[CommandOf[r]] = r
  <2>1. CASE pc[r] \in {"pre_do"} \cup PostDo
    BY <1>0, <1>1, <2>1, CoveredKeeps DEF LiveInv, StepShape
  <2>2. CASE pc[r] \notin {"pre_do"} \cup PostDo
    BY <1>1, <2>2 DEF StepShape, ControlStep, RouteShape, RouteStep
  <2>3. QED
    BY <2>1, <2>2
<1>2. ASSUME pc'[r] \in {"confirm", "pre_do"} \cup PostDo
      PROVE  Anchored(r)' \/ stored'[CommandOf[r]] # NoReceipt
  <2>1. CASE pc[r] \in {"confirm", "pre_do"} \cup PostDo
    <3>1. Anchored(r) \/ stored[CommandOf[r]] # NoReceipt
      BY <1>0, <2>1 DEF LiveInv
    <3>2. pc[r] # "unlink"
      BY <2>1 DEF PostDo
    <3>3. QED
      BY <1>0, <3>1, <3>2, EntryStays
  <2>2. CASE pc[r] \notin {"confirm", "pre_do"} \cup PostDo
    BY <1>2, <2>2 DEF StepShape, ControlStep, RouteShape, RouteStep
  <2>3. QED
    BY <2>1, <2>2
<1>3. QED
  BY <1>1, <1>2

\* The evidence that a command was spent outlives a step.
LEMMA SpentKept ==
  ASSUME TypedInv, FenceInv, LossInv, LiveInv, SpentInv, StepShape, RouteShape
  PROVE  SpentInv'
<1> SUFFICES ASSUME NEW c \in Commands, NEW q \in Spenders(c)'
             PROVE  Anchored(q)' \/ stored'[c] # NoReceipt \/ Kept(c)'
  BY DEF SpentInv, Anchored
<1>1. /\ q \in PastConfirm' /\ q \in Runs /\ Consequential(q)
      /\ CommandOf[q] = c /\ c \notin forgotten
  BY DEF Spenders, PastConfirm, Consequential, RouteShape, PastStep
<1>2. CASE q \in PastConfirm
  <2>1. Anchored(q) \/ stored[c] # NoReceipt \/ Kept(c)
    BY <1>1, <1>2 DEF SpentInv, Spenders
  <2>2. CASE Anchored(q) \/ stored[c] # NoReceipt
    <3>1. pc[q] # "unlink"
      BY <1>2 DEF PastConfirm, LossInv, Settled, PostDo, Over
    <3>2. QED
      BY <1>1, <2>2, <3>1, EntryStays
  <2>3. CASE Kept(c)
    <3>1. PICK k \in Runs : /\ Anchored(k) /\ CommandOf[k] = c
                            /\ pc[k] \in Over /\ Weighty(k)
      BY <2>3 DEF Kept
    <3>2. Anchored(k)' \/ stored'[c] # NoReceipt
      BY <1>1, <3>1, EntryStays DEF Over
    <3>3. pc'[k] \in Over
      BY <3>1 DEF RouteShape, RouteStep
    <3>4. k \notin outlived' \/ k \in PastConfirm'
      BY <3>1 DEF Weighty, PastConfirm, Consequential, Over, RouteShape, PastStep
    <3>5. QED
      BY <3>1, <3>2, <3>3, <3>4 DEF Kept, Weighty, Anchored
  <2>4. QED
    BY <2>1, <2>2, <2>3
<1>3. CASE q \notin PastConfirm
  <2>1. pc[q] = "confirm"
    BY <1>1, <1>3, Cleared
  <2>2. Anchored(q) \/ stored[c] # NoReceipt
    BY <1>1, <2>1 DEF LiveInv
  <2>3. QED
    BY <1>1, <2>1, <2>2, EntryStays
<1>4. QED
  BY <1>2, <1>3

\* A run that started after the loss of the store and is handed the claim is on
\* its way under a command nobody spent: a receipt or an entry would have
\* stopped the claim, and so would the drain.
LEMMA ClaimsUnspent ==
  ASSUME TypedInv, FenceInv, SpentInv, DrainedInv,
         NEW r \in Runs \ outlived, Claims(r)
  PROVE  Spenders(CommandOf[r]) = {}
<1> SUFFICES ASSUME NEW q \in Spenders(CommandOf[r]) PROVE FALSE
  OBVIOUS
<1> DEFINE c == CommandOf[r]
<1>1. c \in Commands /\ stored[c] = NoReceipt
  BY ExecuteHasNoReceipt, RunAssumption DEF Claims
<1>2. q \in PastConfirm /\ q \in Runs /\ CommandOf[q] = c /\ c \notin forgotten
  BY DEF Spenders, PastConfirm
<1>3. Anchored(q) \/ Kept(c)
  BY <1>1 DEF SpentInv
<1>4. PICK k \in Runs : Anchored(k) /\ CommandOf[k] = c /\ Weighty(k)
  BY <1>2, <1>3 DEF Kept, Weighty
<1>5. CASE claimant[c] = NoRun
  BY <1>2, <1>4, <1>5 DEF Claims, DrainedInv, Listing, Ahead
<1>6. CASE claimant[c] # NoRun
  BY <1>4, <1>6, ReclaimHasNoEntry DEF Claims
<1>7. QED
  BY <1>5, <1>6

\* A run on its way to DO that has its command's claim after a step was just
\* handed it, or had it before: no drain gives it back to a live run that did
\* not lose it with the store.
LEMMA HeldBefore ==
  ASSUME TypedInv, FenceInv, ClaimedInv, WrittenInv, LiveInv, RouteShape,
         NEW r \in Runs \ outlived, Consequential(r),
         CommandOf[r] \notin forgotten,
         claimant'[CommandOf[r]] = r, pc'[r] \in OnWay
  PROVE  Claims(r) \/ (pc[r] \in OnWay /\ claimant[CommandOf[r]] = r)
<1> SUFFICES ASSUME ~Claims(r), claimant[CommandOf[r]] # r PROVE FALSE
  BY DEF RouteShape, RouteStep
<1>1. pc[r] \in OnWay /\ CommandOf[r] \in Commands
  BY RunAssumption DEF RouteShape, RouteStep
<1>2. PICK q \in Runs :
        /\ ClaimDecision(q) = "execute" /\ RecordClaim(q)
        /\ pc[q] = "claim" \/ \E p \in Procs : cur[p].run = q
  BY DEF RouteShape, ClaimSource
<1>3. q = r
  BY <1>1, <1>2 DEF RecordClaim, TypedInv, TypeOK
<1>4. pc[r] \notin Unanchored
  BY <1>1, <1>2, <1>3 DEF WrittenInv, OnWay
<1>5. pc[r] = "confirm"
  BY <1>1, <1>4 DEF OnWay, Unanchored, LiveInv
<1>6. Anchored(r)
  BY <1>2, <1>3, <1>5, ExecuteHasNoReceipt DEF LiveInv
<1>7. claimant[CommandOf[r]] # NoRun
  BY <1>5 DEF ClaimedInv, PreDo
<1>8. QED
  BY <1>2, <1>3, <1>6, <1>7, ReclaimHasNoEntry

\* A run on its way to DO that has the claim is still the first of its command.
LEMMA FirstKept ==
  ASSUME TypedInv, FenceInv, ClaimedInv, WrittenInv, LiveInv,
         SpentInv, FirstInv, DrainedInv, StepShape, RouteShape
  PROVE  FirstInv'
<1>0. UNCHANGED <<forgotten, outlived>>
  BY DEF RouteShape, PastStep
<1> SUFFICES ASSUME NEW r \in Runs \ outlived, Consequential(r),
                    claimant'[CommandOf[r]] = r, pc'[r] \in OnWay,
                    NEW s \in Spenders(CommandOf[r])'
             PROVE  s = r
  BY <1>0 DEF FirstInv, Consequential
<1>1. /\ s \in PastConfirm' /\ CommandOf[s] = CommandOf[r]
      /\ CommandOf[r] \notin forgotten
  BY <1>0 DEF Spenders
<1>2. Spenders(CommandOf[r]) \subseteq {r}
  <2>1. Claims(r) \/ (pc[r] \in OnWay /\ claimant[CommandOf[r]] = r)
    BY <1>1, HeldBefore
  <2>2. QED
    BY <2>1, ClaimsUnspent DEF FirstInv
<1>3. CASE s \in PastConfirm
  BY <1>1, <1>2, <1>3 DEF Spenders
<1>4. CASE s \notin PastConfirm
  BY <1>1, <1>4, Cleared
<1>5. QED
  BY <1>3, <1>4

\* A run that has not claimed yet still has every entry of its command that
\* counts, while unclaimed, before its drain.
LEMMA DrainedKept ==
  ASSUME TypedInv, FenceInv, LossInv, ClaimedInv, LiveInv, DrainedInv,
         StepShape, RouteShape
  PROVE  DrainedInv'
<1>0. UNCHANGED <<forgotten, outlived>>
  BY DEF RouteShape, PastStep
<1> SUFFICES ASSUME NEW r \in Runs \ outlived, NEW k \in Runs, pc'[r] \in Listing,
                    claimant'[CommandOf[r]] = NoRun,
                    CommandOf[r] \notin forgotten,
                    Anchored(k)', CommandOf[k] = CommandOf[r],
                    k \notin outlived \/ k \in PastConfirm'
             PROVE  Ahead(r, k)'
  BY <1>0 DEF DrainedInv, Ahead, Anchored, Weighty
<1>1. claimant[CommandOf[k]] = NoRun /\ CommandOf[k] \in Commands
  BY ClaimStays, RunAssumption DEF StepShape
<1>2. Weighty(k)
  BY <1>1, Cleared, RunAssumption DEF Weighty
<1>3. Anchored(k)
  <2>1. CASE k \notin outlived
    BY <1>1, <2>1 DEF RouteShape, WrittenStep, ClaimedInv, PreDo, PostDo
  <2>2. CASE k \in PastConfirm
    <3>1. Consequential(k) /\ pc[k] # "prepare"
      BY <2>2 DEF PastConfirm, LossInv, Settled, PostDo, Over
    <3>2. stored[CommandOf[k]] = NoReceipt
      BY <1>1, RunAssumption DEF FenceInv, TypedInv, TypeOK, Receipt
    <3>3. pc[k] = "outbox" => Anchored(k)
      BY <3>1, <3>2 DEF LiveInv, PostDo
    <3>4. QED
      BY <3>1, <3>3 DEF RouteShape, WrittenStep
  <2>3. QED
    BY <1>2, <2>1, <2>2 DEF Weighty
<1>4. pc[r] \in Listing => Ahead(r, k)
  BY <1>1, <1>2, <1>3 DEF DrainedInv
<1>5. QED
  BY <1>1, <1>3, <1>4 DEF RouteShape, DrainedStep

(* The restarts ***********************************************************)

\* The restart of the node: every process is gone, and a command whose receipt
\* is lost is forgotten, or has the entry of the run the receipt was of.
LEMMA RestartKeeps ==
  ASSUME Volatile, TypedInv, VolatileInv, NodeRestart
  PROVE  VolatileInv'
<1> USE RunAssumption
<1>1. /\ pc' = [r \in Runs |-> IF pc[r] \in {"idle", "done"} THEN pc[r] ELSE "dead"]
      /\ dpc' = [p \in Procs |-> "off"]
      /\ cur' = [p \in Procs |-> NoReceipt]
      /\ claimant' = [c \in Commands |-> NoRun]
      /\ stored' = [c \in Commands |-> NoReceipt]
      /\ forgotten' = forgotten \cup
           {c \in Commands : stored[c] # NoReceipt /\ ~Anchored(stored[c].run)}
      /\ outlived' = {}
      /\ UNCHANGED <<dispatched, outbox>>
  BY DEF NodeRestart, StoreEmpties
<1>2. \A r \in Runs : pc'[r] \in {"idle", "done", "dead"}
  BY <1>1
<1>3. \A r \in Runs : pc'[r] = "idle" => pc[r] = "idle"
  BY <1>1
<1>4. \A r \in Runs : pc[r] \notin Unanchored => pc'[r] \in {"done", "dead"}
  BY <1>2, <1>3 DEF Unanchored, PreClaim
<1>5. \A r \in Runs : CommandOf[r] \in Commands
  OBVIOUS
<1>6. FenceInv' /\ ClaimedInv' /\ LiveInv' /\ FirstInv' /\ DrainedInv'
  BY <1>1, <1>2, <1>5 DEF FenceInv, ClaimedInv, LiveInv, FirstInv, DrainedInv,
     PreDo, PostDo, OnWay, Listing
<1>7. LossInv'
  <2>1. \A r \in dispatched : r \in Runs /\ pc[r] \in Settled
    BY DEF VolatileInv, LossInv, TypedInv, TypeOK
  <2>2. \A r \in dispatched : pc'[r] \in {"done", "dead"}
    BY <1>4, <2>1 DEF Settled, Over, PostDo, Unanchored, PreClaim
  <2>3. QED
    BY <1>1, <1>2, <2>2 DEF LossInv, Settled, Over
<1>8. WrittenInv'
  <2>1. \A p \in Procs, r \in Runs : cur'[p].run # r
    BY <1>1 DEF NoReceipt
  <2>2. \A r \in Runs : Anchored(r)' <=> Anchored(r)
    BY <1>1 DEF Anchored
  <2>3. QED
    BY <1>4, <2>1, <2>2 DEF VolatileInv, WrittenInv, Unanchored, PreClaim
<1>9. SpentInv'
  <2> SUFFICES ASSUME NEW c \in Commands, NEW s \in Spenders(c)'
               PROVE  Anchored(s)' \/ Kept(c)'
    BY DEF SpentInv, Anchored
  <2>1. s \in Spenders(c) /\ c \notin forgotten'
    BY <1>1, <1>2 DEF Spenders, PastConfirm, Consequential
  <2>2. ASSUME NEW k \in Runs, Anchored(k), CommandOf[k] = c PROVE Kept(c)'
    <3>1. pc'[k] \in Over
      BY <1>4, <2>2 DEF VolatileInv, WrittenInv, Over
    <3>2. QED
      BY <1>1, <2>2, <3>1 DEF Kept, Weighty, Anchored
  <2>3. CASE Anchored(s)
    BY <1>1, <2>3 DEF Anchored
  <2>4. CASE stored[c] # NoReceipt
    <3> DEFINE k == stored[c].run
    <3>1. k \in Runs /\ k = claimant[c] /\ CommandOf[k] = c
      BY <2>4 DEF VolatileInv, FenceInv, TypedInv, TypeOK, Receipt
    <3>2. Anchored(k)
      BY <1>1, <2>1, <2>4
    <3> HIDE DEF k
    <3>3. QED
      BY <2>2, <3>1, <3>2
  <2>5. CASE Kept(c)
    BY <2>2, <2>5 DEF Kept
  <2>6. QED
    BY <2>1, <2>3, <2>4, <2>5 DEF VolatileInv, SpentInv
<1>10. QED
  BY <1>6, <1>7, <1>8, <1>9 DEF VolatileInv

\* The restart of the store alone: every claim is lost, every run under way is
\* outlived, and every command that had a receipt is forgotten; the journal and
\* what the drains hold are as they were.
LEMMA StoreKeeps ==
  ASSUME TypedInv, VolatileInv, StoreRestart
  PROVE  VolatileInv'
<1> USE RunAssumption
<1>1. /\ claimant' = [c \in Commands |-> NoRun]
      /\ stored' = [c \in Commands |-> NoReceipt]
      /\ forgotten' = forgotten \cup {c \in Commands : stored[c] # NoReceipt}
      /\ outlived' = outlived \cup {r \in Runs : UnderWay(r)}
      /\ UNCHANGED <<pc, dispatched, outbox, dpc, cur>>
  BY DEF StoreRestart, StoreEmpties, runVars, drainVars
<1>2. \A r \in Runs : CommandOf[r] \in Commands
  OBVIOUS
<1>3. \A r \in Runs \ outlived' :
        pc[r] \in {"idle", "done", "dead"} /\ r \notin outlived
  BY <1>1 DEF UnderWay
<1>4. FenceInv' /\ ClaimedInv' /\ FirstInv' /\ DrainedInv'
  BY <1>1, <1>2, <1>3 DEF FenceInv, ClaimedInv, FirstInv, DrainedInv,
     PreDo, PostDo, OnWay, Listing
<1>5. \A r \in Runs : Anchored(r)' <=> Anchored(r)
  BY <1>1 DEF Anchored
<1>6. WrittenInv'
  BY <1>1, <1>5 DEF VolatileInv, WrittenInv
<1>7. LossInv'
  <2>1. \A p \in Procs : dpc[p] = "remove" => CommandOf[cur[p].run] \in Commands
    BY DEF TypedInv, TypeOK, DrainInv, Receipt
  <2>2. QED
    BY <1>1, <1>2, <2>1 DEF VolatileInv, LossInv
<1>8. LiveInv'
  BY <1>1, <1>2, <1>3, <1>5 DEF VolatileInv, LiveInv, Consequential, PostDo
<1>9. SpentInv'
  <2> SUFFICES ASSUME NEW c \in Commands, NEW s \in Spenders(c)'
               PROVE  Anchored(s)' \/ Kept(c)'
    BY DEF SpentInv, Anchored
  <2>1. s \in Runs /\ s \in Spenders(c) /\ stored[c] = NoReceipt
    BY <1>1 DEF Spenders, PastConfirm, Consequential
  <2>2. CASE Kept(c)
    <3>1. PICK k \in Runs : /\ Anchored(k) /\ CommandOf[k] = c
                            /\ pc[k] \in Over /\ Weighty(k)
      BY <2>2 DEF Kept
    <3>2. k \notin outlived' \/ k \in PastConfirm'
      BY <1>1, <3>1 DEF Weighty, PastConfirm, Consequential, Over, UnderWay
    <3>3. QED
      BY <1>1, <1>5, <3>1, <3>2 DEF Kept, Weighty, Anchored
  <2>3. QED
    BY <1>5, <2>1, <2>2 DEF VolatileInv, SpentInv
<1>10. QED
  BY <1>4, <1>6, <1>7, <1>8, <1>9 DEF VolatileInv

(* The theorems ***********************************************************)

\* Initially nothing is claimed, journaled or dispatched.
LEMMA VolatileInit == Init => VolatileInv
<1> SUFFICES ASSUME Init PROVE VolatileInv
  OBVIOUS
<1> USE RunAssumption DEF Init
<1>1. FenceInv /\ LossInv
  BY DEF FenceInv, LossInv, NoReceipt
<1>2. ClaimedInv /\ LiveInv /\ FirstInv
  BY DEF ClaimedInv, LiveInv, FirstInv, PreDo, PostDo, OnWay
<1>3. WrittenInv /\ DrainedInv
  BY DEF WrittenInv, DrainedInv, Anchored, NoReceipt, Listing
<1>4. SpentInv
  BY DEF SpentInv, Spenders, PastConfirm
<1>5. QED
  BY <1>1, <1>2, <1>3, <1>4 DEF VolatileInv

\* The invariant is inductive while nothing fails.
LEMMA VolatileStep ==
  ASSUME MaxFaults = 0, Volatile
  PROVE  TypedInv /\ VolatileInv /\ [Next]_vars => (TypedInv /\ VolatileInv)'
<1> SUFFICES ASSUME TypedInv, VolatileInv, [Next]_vars
             PROVE  TypedInv' /\ VolatileInv'
  OBVIOUS
<1>1. TypedInv'
  BY TypedStep
<1>2. CASE NodeRestart
  BY <1>1, <1>2, RestartKeeps
<1>3. CASE StoreRestart
  BY <1>1, <1>3, StoreKeeps
<1>4. CASE ~(NodeRestart \/ StoreRestart)
  <2>1. StepShape /\ RouteShape
    BY <1>4, Shape, RouteShapeHolds DEF VolatileInv
  <2>2. FenceInv' /\ LossInv'
    BY <2>1, FenceKept, LossKept DEF VolatileInv, StepShape
  <2>3. ClaimedInv' /\ WrittenInv' /\ LiveInv'
    BY <2>1, WrittenKept, LiveKept DEF VolatileInv
  <2>4. SpentInv' /\ FirstInv' /\ DrainedInv'
    BY <2>1, SpentKept, FirstKept, DrainedKept DEF VolatileInv
  <2>5. QED
    BY <1>1, <2>2, <2>3, <2>4 DEF VolatileInv
<1>5. QED
  BY <1>2, <1>3, <1>4

\* While nothing fails the invariant holds over a store that can be lost.
LEMMA VolatileInvariant ==
  ASSUME MaxFaults = 0, Volatile PROVE Spec => [](TypedInv /\ VolatileInv)
<1>1. Init => TypedInv /\ VolatileInv
  BY TypedInit, VolatileInit
<1>2. QED
  BY <1>1, VolatileStep, PTL DEF Spec

\* CommandBus.run/4 hands a consequential command id to the dispatcher again,
\* whatever the store, only from a run that was under way when the store was
\* lost under it, as long as no store call and no journal write fails: every
\* other run gives a spent command back through the drain it makes first.  A
\* command whose committed receipt was lost with the store is out of scope
\* (forgotten).
THEOREM RepeatsNeedSurvivors ==
  ASSUME MaxFaults = 0 PROVE Spec => RepeatNeedsSurvivor
<1> DEFINE Repeat(q, r) ==
      /\ CommandOf[q] = CommandOf[r]
      /\ Consequential(q) /\ Consequential(r)
      /\ CommandOf[r] \notin forgotten
<1>1. ASSUME TypedInv, [Next]_vars, NEW q \in dispatched,
             NEW r \in dispatched' \ dispatched, Repeat(q, r)
      PROVE  q \in PastConfirm /\ r \in PastConfirm /\ r # q /\ pc[r] = "pre_do"
  <2>1. ~(NodeRestart \/ StoreRestart)
    BY DEF NodeRestart, StoreRestart, runVars
  <2>2. StepShape
    BY <1>1, <2>1, Shape
  <2>3. TypedInv'
    BY <1>1, TypedStep
  <2>4. q \in Runs /\ r \in Runs
    BY <1>1, <2>3 DEF TypedInv, TypeOK
  <2>5. pc[r] = "pre_do"
    BY <2>2, <2>4 DEF StepShape, ControlStep
  <2>6. QED
    BY <1>1, <2>4, <2>5 DEF PastConfirm
<1>2. CASE Volatile
  <2>1. TypedInv /\ VolatileInv /\ [Next]_vars =>
          [\A q \in dispatched, r \in dispatched' \ dispatched :
             Repeat(q, r) => r \in outlived]_vars
    <3> SUFFICES ASSUME TypedInv, VolatileInv, [Next]_vars, NEW q \in dispatched,
                        NEW r \in dispatched' \ dispatched, Repeat(q, r),
                        r \notin outlived
                 PROVE  FALSE
      OBVIOUS
    <3>1. q \in PastConfirm /\ r \in PastConfirm /\ r # q /\ pc[r] = "pre_do"
      BY <1>1
    <3>2. r \in Runs \ outlived /\ claimant[CommandOf[r]] = r
      BY <3>1 DEF VolatileInv, LiveInv, PastConfirm
    <3>3. Spenders(CommandOf[r]) \subseteq {r}
      BY <3>1, <3>2 DEF VolatileInv, FirstInv, OnWay
    <3>4. QED
      BY <3>1, <3>3 DEF Spenders
  <2>2. QED
    BY <1>2, <2>1, VolatileInvariant, PTL DEF Spec, RepeatNeedsSurvivor
<1>3. CASE ~Volatile
  <2>1. BusInv /\ [Next]_vars =>
          [\A q \in dispatched, r \in dispatched' \ dispatched :
             Repeat(q, r) => r \in outlived]_vars
    <3> SUFFICES ASSUME BusInv, [Next]_vars, NEW q \in dispatched,
                        NEW r \in dispatched' \ dispatched, Repeat(q, r)
                 PROVE  FALSE
      OBVIOUS
    <3>1. q \in PastConfirm /\ r \in PastConfirm /\ r # q
      BY <1>1 DEF BusInv, TypedInv
    <3>2. QED
      BY <3>1 DEF BusInv, HolderInv
  <2>2. QED
    BY <1>3, <2>1, BusInvariant, PTL DEF Spec, RepeatNeedsSurvivor
<1>4. QED
  BY <1>2, <1>3

\* Under the same hypothesis a command that may have crossed DO is never without
\* a trace, however often the store is lost with the node or alone: the entry of
\* the run that spent it, a receipt in the store, or an entry only a drain
\* removes.  Whose trace it is, is another matter: after a restart the drain
\* gives the command to the run of the first entry it meets.
THEOREM SpentIsShown == ASSUME MaxFaults = 0 PROVE Spec => []SpentInv
<1>1. CASE Volatile
  <2>1. VolatileInv => SpentInv
    BY DEF VolatileInv
  <2>2. QED
    BY <1>1, <2>1, VolatileInvariant, PTL
<1>2. CASE ~Volatile
  <2>1. BusInv => SpentInv
    <3> SUFFICES ASSUME BusInv, NEW c \in Commands, NEW s \in Spenders(c)
                 PROVE  Anchored(s) \/ stored[c] # NoReceipt
      BY DEF SpentInv
    <3>1. s \in Runs /\ s \in PastConfirm /\ CommandOf[s] = c
      BY DEF Spenders, PastConfirm
    <3>2. QED
      BY <3>1 DEF BusInv, CoverInv, PastConfirm
  <2>2. QED
    BY <1>2, <2>1, BusInvariant, PTL
<1>3. QED
  BY <1>1, <1>2

=============================================================================
