-------------------------- MODULE CommandBusProofs --------------------------
(***************************************************************************)
(* Proofs about CommandBus for every set of runs, reconcilers, commands    *)
(* and effects and every bound on faults and restarts.  Typing (TypedInv)  *)
(* holds for every store.  The safety theorems are for a store that        *)
(* survives the node (~Volatile) and rest on BusInv.  They go through      *)
(* Shape: what any step can do to the claims, the journal and the control  *)
(* points, read off action by action; SafeStep then preserves each part of *)
(* the invariant from the shape alone.  At the end, run/4 is shown to      *)
(* implement ClaimFence (RouteImplementsFence), and whatever implements    *)
(* ClaimFence to be safe (FenceIsEnough).                                  *)
(***************************************************************************)
EXTENDS CommandBus, TLAPS

\* The part of BusInv that holds for every store.
TypedInv == TypeOK /\ DraftInv /\ DrainInv

\* The initial state is well typed.
LEMMA TypedInit == Init => TypedInv
  BY RunAssumption, BoundAssumption
  DEF Init, TypedInv, TypeOK, DraftInv, DrainInv, Procs, Pcs, PreClaim,
      Answers, DrainPcs

\* The receipts of execution r.
ReceiptOf(r) == {x \in Receipt : x.run = r}

\* Every constructor of receipt.ex and receipt_outbox.ex yields a receipt of the
\* execution it was given, and the absence of a receipt is not one.
LEMMA ReceiptTypes ==
  /\ NoReceipt \notin Receipt
  /\ \A r \in Runs : {Pending(r), UnknownOutcome(r)} \subseteq ReceiptOf(r)
  /\ \A r \in Runs, t \in {"reply", "error"} : Finalized(r, t) \in ReceiptOf(r)
  /\ \A code : \A r \in Runs : Refusal(r, code) \in ReceiptOf(r)
  /\ \A r \in Runs, x \in Receipt : Deduplicated(r, x) \in ReceiptOf(r)
  /\ \A x \in Receipt : MarkReconciled(x) \in ReceiptOf(x.run)
<1>1. NoReceipt \notin Receipt
  BY RunAssumption DEF NoReceipt, Receipt, Statuses
<1>2. \A r \in Runs : {Pending(r), UnknownOutcome(r)} \subseteq ReceiptOf(r)
  BY DEF Pending, UnknownOutcome, ReceiptOf, Receipt, Statuses, Terminals
<1>3. \A r \in Runs, t \in {"reply", "error"} : Finalized(r, t) \in ReceiptOf(r)
  BY DEF Finalized, ReceiptOf, Receipt, Statuses, Terminals
<1>4. \A code : \A r \in Runs : Refusal(r, code) \in ReceiptOf(r)
  BY DEF Refusal, ReceiptOf, Receipt, Statuses, Terminals
<1>5. \A r \in Runs, x \in Receipt : Deduplicated(r, x) \in ReceiptOf(r)
  BY DEF Deduplicated, ReceiptOf, Receipt
<1>6. \A x \in Receipt : MarkReconciled(x) \in ReceiptOf(x.run)
  BY DEF MarkReconciled, ReceiptOf, Receipt, Terminals
<1>7. QED
  BY <1>1, <1>2, <1>3, <1>4, <1>5, <1>6

\* A drain lists runs.
LEMMA EntryNamesTypes ==
  ASSUME TypeOK PROVE EntryNames \in SUBSET Runs
BY DEF TypeOK, EntryNames, Receipt

\* A {:duplicate, receipt} answer of claim_actuation carries a receipt.
LEMMA PriorTypes ==
  ASSUME TypeOK, NEW e \in Effects, ActuationDecision(e) = "duplicate"
  PROVE  PriorReceipt(e) \in Receipt
<1>1. CASE actReceipt[e] # NoReceipt
  BY <1>1 DEF PriorReceipt, TypeOK
<1>2. CASE actReceipt[e] = NoReceipt
  <2>1. actClaimant[e] \in Runs /\ LeaseDecision(CommandOf[actClaimant[e]]) = "duplicate"
    BY <1>2 DEF ActuationDecision, TypeOK
  <2>2. stored[CommandOf[actClaimant[e]]] \in Receipt
    BY <2>1, RunAssumption DEF LeaseDecision, Completed, TypeOK, NoReceipt
  <2>3. QED
    BY <1>2, <2>2 DEF PriorReceipt
<1>3. QED
  BY <1>1, <1>2

\* Typing, with what a run and a drain hold in their hands, is inductive.
LEMMA TypedStep == TypedInv /\ [Next]_vars => TypedInv'
<1> SUFFICES ASSUME TypedInv, [Next]_vars PROVE TypedInv'
  OBVIOUS
<1> USE RunAssumption, BoundAssumption
     DEF TypedInv, TypeOK, DraftInv, DrainInv, Procs, Pcs, PreClaim, PreDo,
         PostDo, DrainPcs, Answers,
         vars, runVars, storeVars, drainVars, envVars
<1>0. NoReceipt \notin Receipt
  BY ReceiptTypes
<1>1. ASSUME NEW r \in Runs, RunStep(r) \/ Crash(r) PROVE TypedInv'
  <2>1. CASE Submit(r)
    <3>1. EntryNames \in SUBSET Runs
      BY EntryNamesTypes DEF TypedInv
    <3>2. TypeOK'
      BY <2>1, <3>1 DEF Submit, Goto
    <3>3. DraftInv' /\ DrainInv'
      BY <2>1 DEF Submit, Goto
    <3>4. QED
      BY <3>2, <3>3
  <2>2. CASE Admit(r)
    BY <2>2 DEF Admit, Goto, Answer
  <2>3. CASE ClaimReceipt(r)
    BY <2>3 DEF ClaimReceipt, RecordClaim, Fault, NoFault, Goto, Answer
  <2>4. CASE ClaimActuation(r)
    <3>1. \A code : Refusal(r, code) \in ReceiptOf(r)
      BY ReceiptTypes
    <3>2. ActuationDecision(EffectOf[r]) = "duplicate" =>
            /\ PriorReceipt(EffectOf[r]) \in Receipt
            /\ Deduplicated(r, PriorReceipt(EffectOf[r])) \in ReceiptOf(r)
      BY PriorTypes, ReceiptTypes, RunAssumption DEF TypedInv
    <3>3. /\ UNCHANGED <<dispatched, outbox, drainVars, claimant, stored, aged,
                        temps, restarts, forgotten, outlived>>
          /\ faults' = faults \/ (faults < MaxFaults /\ faults' = faults + 1)
          /\ actClaimant' \in {actClaimant, [actClaimant EXCEPT ![EffectOf[r]] = r]}
      BY <2>4 DEF ClaimActuation, RecordActuation, HealActuation, Fault,
         NoFault, storeVars, envVars
    <3>4. actReceipt' \in [Effects -> Receipt \cup {NoReceipt}]
      BY <2>4, <3>2 DEF ClaimActuation, RecordActuation, HealActuation,
         TypedInv, TypeOK, storeVars
    <3>5. \/ /\ pc' = [pc EXCEPT ![r] = "prepare"]
             /\ UNCHANGED <<draft, answer>>
          \/ /\ pc' = [pc EXCEPT ![r] = "close"]
             /\ \E x \in ReceiptOf(r) : draft' = [draft EXCEPT ![r] = x]
             /\ \E a \in Answers : answer' = [answer EXCEPT ![r] = a]
      BY <2>4, <3>1, <3>2 DEF ClaimActuation, RefuseClaimed, Goto, Answers
    <3>6. TypeOK'
      BY <3>3, <3>4, <3>5 DEF ReceiptOf, TypedInv, TypeOK, Pcs, PreDo,
         drainVars
    <3>7. DraftInv'
      BY <1>0, <3>5 DEF ReceiptOf, TypedInv, TypeOK, DraftInv
    <3>8. DrainInv'
      BY <2>4, <3>3, <3>5 DEF ClaimActuation
    <3>9. QED
      BY <3>6, <3>7, <3>8
  <2>5. CASE PrepareAnchor(r)
    <3>1. \A code : Refusal(r, code) \in ReceiptOf(r)
      BY ReceiptTypes
    <3>2. Pending(r) \in ReceiptOf(r)
      BY ReceiptTypes
    <3>3. TypeOK'
      BY <2>5, <3>1, <3>2 DEF PrepareAnchor, ReceiptOf, Journal,
         RefuseClaimed, Fault, NoFault, Goto
    <3>4. DraftInv' /\ DrainInv'
      BY <2>5, <3>1 DEF PrepareAnchor, ReceiptOf, RefuseClaimed, Goto
    <3>5. QED
      BY <3>3, <3>4
  <2>6. CASE ConfirmExecution(r)
    BY <2>6 DEF ConfirmExecution, Fault, NoFault, Goto
  <2>7. CASE PreDoGate(r)
    <3>1. \A code : Refusal(r, code) \in ReceiptOf(r)
      BY ReceiptTypes
    <3>2. QED
      BY <2>7, <3>1, SMTT(30) DEF PreDoGate, ReceiptOf, RefuseClaimed, Goto
  <2>8. CASE UnlinkAnchor(r)
    BY <2>8 DEF UnlinkAnchor, RemoveEntry, Unjournal, Fault, NoFault, Goto
  <2>9. CASE ReleaseActuation(r)
    BY <2>9 DEF ReleaseActuation, Fault, NoFault, Goto
  <2>10. CASE CloseClaim(r)
    BY <2>10 DEF CloseClaim, Commit, RecordCommit, Fault, NoFault, Goto
  <2>11. CASE Reply(r)
    <3>1. \A reply \in {"reply", "error"} : Finalized(r, reply) \in ReceiptOf(r)
      BY ReceiptTypes
    <3>2. QED
      BY <1>0, <2>11, <3>1 DEF Reply, ReceiptOf, Goto
  <2>12. CASE Timeout(r)
    <3>1. \A reply \in {"reply", "error"} : Finalized(r, reply) \in ReceiptOf(r)
      BY ReceiptTypes
    <3>2. UnknownOutcome(r) \in ReceiptOf(r)
      BY ReceiptTypes
    <3>3. QED
      BY <1>0, <2>12, <3>1, <3>2 DEF Timeout, ReceiptOf, Goto
  <2>13. CASE CloseTimedOut(r)
    BY <2>13 DEF CloseTimedOut, Commit, RecordCommit, Fault, NoFault, Answer
  <2>14. CASE CommitActuation(r)
    BY <2>14 DEF CommitActuation, Fault, NoFault, Goto
  <2>15. CASE CommitReceipt(r)
    BY <2>15 DEF CommitReceipt, Commit, RecordCommit, Fault, NoFault, Goto
  <2>16. CASE CleanupAnchor(r)
    BY <2>16 DEF CleanupAnchor, RemoveEntry, Unjournal, Fault, NoFault, Answer
  <2>17. CASE OutboxFinal(r)
    BY <2>17 DEF OutboxFinal, Journal, Fault, NoFault, Answer
  <2>18. CASE Crash(r)
    BY <2>18 DEF Crash, Goto
  <2>19. QED
    BY <1>1, <2>1, <2>2, <2>3, <2>4, <2>5, <2>6, <2>7, <2>8, <2>9, <2>10,
       <2>11, <2>12, <2>13, <2>14, <2>15, <2>16, <2>17, <2>18 DEF RunStep
<1>2. ASSUME NEW p \in Procs, DrainStep(p) \/ (p \in Reconcilers /\ Tick(p))
      PROVE TypedInv'
  <2>1. CASE DrainNext(p)
    <3>1. TypeOK'
      BY <2>1 DEF DrainNext, DrainHold
    <3>2. DraftInv' /\ DrainInv'
      BY <1>0, <2>1 DEF DrainNext, DrainHold
    <3>3. QED
      BY <3>1, <3>2
  <2>2. CASE DrainEnd(p)
    BY <2>2 DEF DrainEnd, DrainGoto, Goto
  <2>3. CASE DrainFetch(p)
    BY <2>3 DEF DrainFetch, DrainGoto, Fault, NoFault
  <2>4. CASE DrainCommit(p)
    <3>1. cur[p] \in Receipt /\ dpc[p] = "commit"
      BY <2>4 DEF DrainCommit, TypedInv, TypeOK, DrainInv
    <3>2. MarkReconciled(cur[p]) \in Receipt /\ MarkReconciled(cur[p]) # NoReceipt
      BY <3>1, ReceiptTypes DEF ReceiptOf
    <3>3. /\ UNCHANGED <<runVars, outbox, todo, claimant, aged, actClaimant,
                        actReceipt, temps, restarts, forgotten, outlived>>
          /\ faults' = faults \/ (faults < MaxFaults /\ faults' = faults + 1)
          /\ \/ stored' = stored
             \/ RecordCommit(MarkReconciled(cur[p]))
      BY <2>4 DEF DrainCommit, DrainCommitting, Commit, RecordCommit, Fault,
         NoFault
    <3>4. /\ \E w \in {"next", "reclaim", "remove"} : dpc' = [dpc EXCEPT ![p] = w]
          /\ dpc'[p] = "next" \/ cur'[p] = MarkReconciled(cur[p])
          /\ \E x \in {MarkReconciled(cur[p]), NoReceipt} : cur' = [cur EXCEPT ![p] = x]
      BY <2>4 DEF DrainCommit, DrainCommitting, DrainHold, DrainLeave, Commit
    <3>5. TypeOK'
      BY <3>1, <3>2, <3>3, <3>4 DEF RecordCommit
    <3>6. DraftInv' /\ DrainInv'
      BY <3>1, <3>2, <3>3, <3>4
    <3>7. QED
      BY <3>5, <3>6
  <2>5. CASE DrainReclaim(p)
    <3>1. cur[p] \in Receipt /\ cur[p].run \in Runs
      BY <2>5 DEF DrainReclaim, TypedInv, TypeOK, DrainInv, Receipt
    <3>2. TypeOK'
      BY <2>5, <3>1, SMTT(30) DEF DrainReclaim, DrainGoto, DrainHold, DrainLeave,
         RecordClaim, Fault, NoFault
    <3>3. DraftInv' /\ DrainInv'
      BY <2>5, <3>1 DEF DrainReclaim, DrainGoto, DrainHold, DrainLeave
    <3>4. QED
      BY <3>2, <3>3
  <2>6. CASE DrainRecommit(p)
    <3>1. cur[p] \in Receipt /\ cur[p].run \in Runs /\ dpc[p] = "recommit"
      BY <2>6 DEF DrainRecommit, TypedInv, TypeOK, DrainInv, Receipt
    <3>2. /\ UNCHANGED <<runVars, outbox, todo, claimant, aged, actClaimant,
                        actReceipt, temps, restarts, forgotten, outlived>>
          /\ faults' = faults \/ (faults < MaxFaults /\ faults' = faults + 1)
          /\ stored' = stored \/ RecordCommit(cur[p])
      BY <2>6 DEF DrainRecommit, Commit, RecordCommit, Fault, NoFault
    <3>3. /\ \E w \in {"next", "remove"} : dpc' = [dpc EXCEPT ![p] = w]
          /\ dpc'[p] = "next" \/ cur'[p] = cur[p]
          /\ \E x \in {cur[p], NoReceipt} : cur' = [cur EXCEPT ![p] = x]
      BY <2>6 DEF DrainRecommit, DrainGoto, DrainHold, DrainLeave, Commit
    <3>4. TypeOK'
      BY <3>1, <3>2, <3>3 DEF RecordCommit
    <3>5. DraftInv' /\ DrainInv'
      BY <1>0, <3>1, <3>2, <3>3
    <3>6. QED
      BY <3>4, <3>5
  <2>7. CASE DrainRemove(p)
    BY <2>7 DEF DrainRemove, DrainHold, DrainLeave, RemoveEntry,
       Unjournal, Fault, NoFault
  <2>8. CASE p \in Reconcilers /\ Tick(p)
    <3>1. EntryNames \in SUBSET Runs
      BY EntryNamesTypes DEF TypedInv
    <3>2. QED
      BY <2>8, <3>1 DEF Tick, DrainGoto
  <2>9. QED
    BY <1>2, <2>1, <2>2, <2>3, <2>4, <2>5, <2>6, <2>7, <2>8 DEF DrainStep
<1>3. ASSUME NEW c \in Commands, LeaseElapses(c) PROVE TypedInv'
  BY <1>3 DEF LeaseElapses
<1>4. CASE NodeRestart \/ StoreRestart
  BY <1>4 DEF NodeRestart, StoreRestart, StoreEmpties
<1>5. CASE UNCHANGED vars
  BY <1>5
<1>6. QED
  BY <1>1, <1>2, <1>3, <1>4, <1>5 DEF Next, Procs

(* Shape of a step ********************************************************)

\* The command claims and receipts change only by a decided claim or commit.
StoreStep ==
  \/ UNCHANGED <<claimant, stored>>
  \/ \E q \in Runs : ClaimDecision(q) = "execute" /\ RecordClaim(q)
  \/ \E x \in Receipt : CommitDecision(x) = "ok" /\ RecordCommit(x)

\* Only its own run or a drain drops an entry.
Dropping(r) ==
  \/ pc[r] \in {"unlink", "cleanup"}
  \/ \E p \in Procs : dpc[p] = "remove" /\ cur[p].run = r

JournalStep == \A r \in Runs : Anchored(r) /\ ~Anchored(r)' => Dropping(r)

\* Past DO, or over: no refusal of the run unlinks its entry any more.
Over    == {"done", "dead"}
Settled == PostDo \cup Over

\* A run reaches the marked places only through the one before.
ControlStep ==
  \A r \in Runs :
    /\ pc'[r] = "confirm" => pc[r] = "confirm" \/ ~Consequential(r) \/ Anchored(r)'
    /\ pc'[r] = "pre_do" /\ Consequential(r) =>
         \/ pc[r] = "pre_do"
         \/ pc[r] = "confirm" /\ claimant[CommandOf[r]] = r /\ claimant' = claimant
    /\ r \in dispatched' =>
         r \in dispatched \/ (pc[r] = "pre_do" /\ pc'[r] \in Settled)
    /\ pc[r] \in Settled => pc'[r] \in Settled
    /\ pc'[r] = "cleanup" =>
         pc[r] = "cleanup" \/ stored'[CommandOf[r]] # NoReceipt

\* A drain comes to delete an entry only when its command has a receipt.
DrainShape ==
  \A p \in Procs :
    dpc'[p] = "remove" =>
      \/ dpc[p] = "remove" /\ cur'[p] = cur[p]
      \/ stored'[CommandOf[cur'[p].run]] # NoReceipt

StepShape == StoreStep /\ JournalStep /\ ControlStep /\ DrainShape

\* The part of BusInv that needs a durable store.
SafeInv == FenceInv /\ RemoveInv /\ CoverInv /\ HolderInv

\* Every step has the shape, but a restart that empties the store: one case per
\* action.
LEMMA Shape ==
  ASSUME ~Volatile \/ ~(NodeRestart \/ StoreRestart), TypedInv, [Next]_vars
  PROVE  StepShape
<1> USE RunAssumption, BoundAssumption
     DEF StepShape, StoreStep, JournalStep, ControlStep, DrainShape, Anchored,
         Settled, Over, TypedInv, TypeOK, DraftInv, DrainInv, Procs, PostDo,
         vars, runVars, storeVars, drainVars, envVars
<1>0. NoReceipt \notin Receipt
  BY ReceiptTypes
<1>1. ASSUME NEW r \in Runs, RunStep(r) \/ Crash(r) PROVE StepShape
  <2>1. CASE Submit(r)
    BY <2>1 DEF Submit, Goto
  <2>2. CASE Admit(r)
    BY <2>2 DEF Admit, Goto, Answer
  <2>3. CASE ClaimReceipt(r)
    BY <2>3 DEF ClaimReceipt, Fault, NoFault, Goto, Answer
  <2>4. CASE ClaimActuation(r)
    BY <2>4 DEF ClaimActuation, RecordActuation, HealActuation, Goto
  <2>5. CASE PrepareAnchor(r)
    <3>1. Pending(r).run = r
      BY DEF Pending
    <3>2. QED
      BY <2>5, <3>1 DEF PrepareAnchor, Journal, Goto
  <2>6. CASE ConfirmExecution(r)
    BY <2>6 DEF ConfirmExecution, HoldsClaim, Goto
  <2>7. CASE PreDoGate(r)
    BY <2>7 DEF PreDoGate, Goto
  <2>8. CASE UnlinkAnchor(r)
    BY <2>8 DEF UnlinkAnchor, RemoveEntry, Unjournal, Dropping, Goto
  <2>9. CASE ReleaseActuation(r)
    BY <2>9 DEF ReleaseActuation, Goto
  <2>10. CASE CloseClaim(r)
    BY <2>10 DEF CloseClaim, Commit, Goto
  <2>11. CASE Reply(r)
    BY <2>11 DEF Reply, Goto
  <2>12. CASE Timeout(r)
    BY <2>12 DEF Timeout, Goto
  <2>13. CASE CloseTimedOut(r)
    BY <2>13 DEF CloseTimedOut, Commit, Answer
  <2>14. CASE CommitActuation(r)
    BY <2>14 DEF CommitActuation, Goto
  <2>15. CASE CommitReceipt(r)
    BY <2>15 DEF CommitReceipt, Commit, RecordCommit, Goto
  <2>16. CASE CleanupAnchor(r)
    BY <2>16 DEF CleanupAnchor, RemoveEntry, Unjournal, Dropping, Answer
  <2>17. CASE OutboxFinal(r)
    <3>1. draft[r].run = r
      BY <2>17 DEF OutboxFinal
    <3>2. QED
      BY <2>17, <3>1 DEF OutboxFinal, Journal, Answer
  <2>18. CASE Crash(r)
    BY <2>18 DEF Crash, Goto
  <2>19. QED
    BY <1>1, <2>1, <2>2, <2>3, <2>4, <2>5, <2>6, <2>7, <2>8, <2>9, <2>10,
       <2>11, <2>12, <2>13, <2>14, <2>15, <2>16, <2>17, <2>18 DEF RunStep
<1>2. ASSUME NEW p \in Procs, DrainStep(p) \/ (p \in Reconcilers /\ Tick(p))
      PROVE StepShape
  <2>1. CASE DrainNext(p)
    BY <2>1 DEF DrainNext, DrainHold
  <2>2. CASE DrainEnd(p)
    BY <2>2 DEF DrainEnd, DrainGoto, Goto
  <2>3. CASE DrainFetch(p)
    BY <2>3 DEF DrainFetch, DrainGoto
  <2>4. CASE DrainCommit(p)
    <3> DEFINE x == MarkReconciled(cur[p])
    <3>1. cur[p] \in Receipt
      BY <2>4 DEF DrainCommit
    <3>2. x \in Receipt /\ CommandOf[x.run] \in Commands
      BY <3>1, ReceiptTypes DEF ReceiptOf, Receipt
    <3> HIDE DEF x
    <3>3. /\ UNCHANGED <<runVars, outbox>>
          /\ \/ UNCHANGED <<claimant, stored>>
             \/ CommitDecision(x) = "ok" /\ RecordCommit(x)
          /\ \/ \E w \in {"reclaim", "next"} : dpc' = [dpc EXCEPT ![p] = w]
             \/ /\ dpc' = [dpc EXCEPT ![p] = "remove"]
                /\ cur' = [cur EXCEPT ![p] = x]
                /\ RecordCommit(x)
          /\ \A q \in Procs \ {p} : cur'[q] = cur[q]
      BY <2>4 DEF DrainCommit, DrainCommitting, DrainHold, DrainLeave,
         Commit, x
    <3>4. StoreStep /\ JournalStep /\ ControlStep
      BY <3>2, <3>3
    <3>5. DrainShape
      BY <1>0, <3>2, <3>3 DEF RecordCommit
    <3>6. QED
      BY <3>4, <3>5
  <2>5. CASE DrainReclaim(p)
    <3>1. cur[p] \in Receipt /\ cur[p].run \in Runs
      BY <2>5 DEF DrainReclaim, Receipt
    <3>2. /\ UNCHANGED <<runVars, outbox>>
          /\ \/ UNCHANGED <<claimant, stored>>
             \/ /\ ClaimDecision(cur[p].run) = "execute"
                /\ RecordClaim(cur[p].run)
          /\ \/ \E w \in {"recommit", "next"} : dpc' = [dpc EXCEPT ![p] = w]
             \/ /\ ClaimDecision(cur[p].run) = "replay"
                /\ dpc' = [dpc EXCEPT ![p] = "remove"]
                /\ UNCHANGED <<stored, cur>>
          /\ \A q \in Procs \ {p} : cur'[q] = cur[q]
      BY <2>5 DEF DrainReclaim, DrainGoto, DrainHold, DrainLeave
    <3>3. StoreStep /\ JournalStep /\ ControlStep
      BY <3>1, <3>2
    <3>4. ClaimDecision(cur[p].run) = "replay" =>
            stored[CommandOf[cur[p].run]] # NoReceipt
      BY DEF ClaimDecision
    <3>5. DrainShape
      BY <3>2, <3>4 DEF RecordClaim
    <3>6. QED
      BY <3>3, <3>5
  <2>6. CASE DrainRecommit(p)
    <3>1. cur[p] \in Receipt /\ CommandOf[cur[p].run] \in Commands
      BY <2>6 DEF DrainRecommit, Receipt
    <3>2. /\ UNCHANGED <<runVars, outbox>>
          /\ \/ UNCHANGED <<claimant, stored>>
             \/ CommitDecision(cur[p]) = "ok" /\ RecordCommit(cur[p])
          /\ \/ dpc' = [dpc EXCEPT ![p] = "next"]
             \/ /\ dpc' = [dpc EXCEPT ![p] = "remove"]
                /\ UNCHANGED cur
                /\ RecordCommit(cur[p])
          /\ \A q \in Procs \ {p} : cur'[q] = cur[q]
      BY <2>6 DEF DrainRecommit, DrainGoto, DrainHold, DrainLeave, Commit
    <3>3. StoreStep /\ JournalStep /\ ControlStep
      BY <3>1, <3>2
    <3>4. DrainShape
      BY <1>0, <3>1, <3>2 DEF RecordCommit
    <3>5. QED
      BY <3>3, <3>4
  <2>7. CASE DrainRemove(p)
    BY <2>7 DEF DrainRemove, DrainHold, DrainLeave,
       RemoveEntry, Unjournal, Dropping
  <2>8. CASE Tick(p)
    BY <2>8 DEF Tick, DrainGoto
  <2>9. QED
    BY <1>2, <2>1, <2>2, <2>3, <2>4, <2>5, <2>6, <2>7, <2>8 DEF DrainStep
<1>3. ASSUME NEW c \in Commands, LeaseElapses(c) PROVE StepShape
  BY <1>3 DEF LeaseElapses
<1>4. CASE NodeRestart \/ StoreRestart
  BY <1>4 DEF NodeRestart, StoreRestart
<1>5. CASE UNCHANGED vars
  BY <1>5
<1>6. QED
  BY <1>1, <1>2, <1>3, <1>4, <1>5 DEF Next, Procs

(* What a step keeps ******************************************************)

\* ReceiptStore.claim/3 hands a command out only while it has no receipt.
LEMMA ExecuteHasNoReceipt ==
  ASSUME TypedInv, FenceInv, NEW q \in Runs, ClaimDecision(q) = "execute"
  PROVE  stored[CommandOf[q]] = NoReceipt
<1>1. CommandOf[q] \in Commands
  BY RunAssumption
<1>2. CASE claimant[CommandOf[q]] = NoRun
  BY <1>1, <1>2, RunAssumption DEF TypedInv, TypeOK, FenceInv, Receipt
<1>3. CASE claimant[CommandOf[q]] # NoRun
  BY <1>3 DEF ClaimDecision
<1>4. QED
  BY <1>2, <1>3

\* A command that has a receipt in a durable store always has one.
LEMMA StoredStays ==
  ASSUME TypedInv, FenceInv, StoreStep, NEW c \in Commands,
         stored[c] # NoReceipt
  PROVE  stored'[c] # NoReceipt
BY ReceiptTypes DEF StoreStep, RecordClaim, RecordCommit, TypedInv, TypeOK

\* The claim of a run that its anchor or a receipt speaks for is not handed out
\* again.
LEMMA CoveredKeeps ==
  ASSUME TypedInv, FenceInv, StoreStep, NEW r \in Runs, claimant[CommandOf[r]] = r,
         Anchored(r) \/ stored[CommandOf[r]] # NoReceipt
  PROVE  claimant'[CommandOf[r]] = r
<1> DEFINE c == CommandOf[r]
<1>1. c \in Commands /\ claimant[c] # NoRun
  BY RunAssumption
<1>2. ASSUME NEW q \in Runs, ClaimDecision(q) = "execute", RecordClaim(q)
      PROVE  claimant'[c] = r
  <2>1. CASE CommandOf[q] = c
    <3>1. stored[c] = NoReceipt
      BY <1>2, <2>1, ExecuteHasNoReceipt
    <3>2. AnchoredCommand(c)
      BY <3>1 DEF Anchored, AnchoredCommand
    <3>3. QED
      BY <1>1, <1>2, <2>1, <3>2 DEF ClaimDecision, Abandoned
  <2>2. CASE CommandOf[q] # c
    BY <1>1, <1>2, <2>2 DEF RecordClaim, TypedInv, TypeOK
  <2>3. QED
    BY <2>1, <2>2
<1>3. QED
  BY <1>2 DEF StoreStep, RecordCommit

\* The claim of a run that may have crossed DO is never handed out again.
LEMMA HolderKeeps ==
  ASSUME TypedInv, SafeInv, StoreStep, NEW r \in PastConfirm
  PROVE  claimant'[CommandOf[r]] = r
<1>1. r \in Runs /\ claimant[CommandOf[r]] = r
  BY DEF PastConfirm, SafeInv, HolderInv
<1>2. Anchored(r) \/ stored[CommandOf[r]] # NoReceipt
  BY <1>1 DEF PastConfirm, SafeInv, CoverInv
<1>3. QED
  BY <1>1, <1>2, CoveredKeeps DEF SafeInv

\* Initially nothing is claimed, journaled or dispatched.
LEMMA SafeInit == Init => SafeInv
BY DEF Init, SafeInv, FenceInv, RemoveInv, CoverInv, HolderInv, PastConfirm

\* Claims and receipts stay those of their runs.
LEMMA FenceKept ==
  ASSUME TypedInv, FenceInv, StoreStep
  PROVE  FenceInv'
<1> USE RunAssumption
<1>1. CASE UNCHANGED <<claimant, stored>>
  BY <1>1 DEF FenceInv
<1>2. ASSUME NEW q \in Runs, ClaimDecision(q) = "execute", RecordClaim(q)
      PROVE  FenceInv'
  <2>1. stored[CommandOf[q]] = NoReceipt
    BY <1>2, ExecuteHasNoReceipt
  <2>2. QED
    BY <1>2, <2>1 DEF RecordClaim, FenceInv, TypedInv, TypeOK
<1>3. ASSUME NEW x \in Receipt, CommitDecision(x) = "ok", RecordCommit(x)
      PROVE  FenceInv'
  <2>1. claimant[CommandOf[x.run]] = x.run
    BY <1>3 DEF CommitDecision
  <2>2. QED
    BY <1>3, <2>1 DEF RecordCommit, FenceInv, TypedInv, TypeOK
<1>4. QED
  BY <1>1, <1>2, <1>3 DEF StoreStep

\* An entry is still dropped only before DO, or for a receipt in the store.
LEMMA RemoveKept ==
  ASSUME TypedInv, FenceInv, RemoveInv, StepShape
  PROVE  RemoveInv'
<1> USE RunAssumption
<1>1. \A c \in Commands : stored[c] # NoReceipt => stored'[c] # NoReceipt
  BY StoredStays DEF StepShape
<1>2. ASSUME NEW p \in Procs, dpc'[p] = "remove"
      PROVE  stored'[CommandOf[cur'[p].run]] # NoReceipt
  <2>1. CASE dpc[p] = "remove" /\ cur'[p] = cur[p]
    <3>1. cur[p] \in Receipt /\ CommandOf[cur[p].run] \in Commands
      BY <2>1 DEF TypedInv, TypeOK, DrainInv, Receipt
    <3>2. QED
      BY <1>1, <2>1, <3>1 DEF RemoveInv
  <2>2. QED
    BY <1>2, <2>1 DEF StepShape, DrainShape
<1>3. ASSUME NEW r \in Runs, pc'[r] = "cleanup"
      PROVE  stored'[CommandOf[r]] # NoReceipt
  BY <1>1, <1>3 DEF StepShape, ControlStep, RemoveInv
<1>4. ASSUME NEW r \in Runs, r \in dispatched' PROVE pc'[r] \in Settled
  BY <1>4 DEF StepShape, ControlStep, RemoveInv, Settled, Over
<1>5. QED
  BY <1>2, <1>3, <1>4 DEF RemoveInv, Settled, Over

\* Each part of the safety invariant survives a step of the given shape.
LEMMA SafeStep ==
  ASSUME TypedInv, SafeInv, StepShape
  PROVE  SafeInv'
<1> USE RunAssumption
<1>1. FenceInv'
  BY FenceKept DEF SafeInv, StepShape
<1>2. \A c \in Commands : stored[c] # NoReceipt => stored'[c] # NoReceipt
  BY StoredStays DEF SafeInv, StepShape
<1>3. RemoveInv'
  BY RemoveKept DEF SafeInv
<1>4. CoverInv'
  <2> SUFFICES ASSUME NEW r \in Runs, Consequential(r),
                      pc'[r] \in {"confirm", "pre_do"} \/ r \in dispatched',
                      ~Anchored(r)'
               PROVE  stored'[CommandOf[r]] # NoReceipt
    BY DEF CoverInv, Consequential
  <2>1. pc[r] \in {"confirm", "pre_do"} \/ r \in dispatched
    BY DEF StepShape, ControlStep
  <2>2. pc[r] # "unlink"
    BY <2>1 DEF SafeInv, RemoveInv, PostDo
  <2>3. stored[CommandOf[r]] # NoReceipt
    BY <2>1, <2>2
       DEF SafeInv, CoverInv, RemoveInv, StepShape, JournalStep, Dropping
  <2>4. QED
    BY <1>2, <2>3
<1>5. HolderInv'
  <2> SUFFICES ASSUME NEW r \in Runs, Consequential(r),
                      pc'[r] = "pre_do" \/ r \in dispatched'
               PROVE  claimant'[CommandOf[r]] = r
    BY DEF HolderInv, PastConfirm, Consequential
  <2>1. CASE r \in PastConfirm
    BY <2>1, HolderKeeps DEF StepShape
  <2>2. CASE r \notin PastConfirm
    BY <2>2 DEF PastConfirm, StepShape, ControlStep
  <2>3. QED
    BY <2>1, <2>2
<1>6. QED
  BY <1>1, <1>3, <1>4, <1>5 DEF SafeInv

(* The theorems ***********************************************************)

\* Every reachable state of CommandBus, whatever the store, is well typed: in
\* particular what the store, the journal, the runs and the drains hold are
\* receipts Receipt.pending/2, finalize/2 and reconcile/2 can produce.
THEOREM TypeCorrect == Spec => []TypeOK
<1>1. Init => TypedInv
  BY TypedInit
<1>2. TypedInv /\ [Next]_vars => TypedInv'
  BY TypedStep
<1>3. TypedInv => TypeOK
  BY DEF TypedInv
<1>4. QED
  BY <1>1, <1>2, <1>3, PTL DEF Spec

\* With a store that survives the node, BusInv holds in every reachable state
\* of every number of runs, reconcilers, faults and restarts.
THEOREM BusInvariant == ASSUME ~Volatile PROVE Spec => []BusInv
<1>1. Init => TypedInv /\ SafeInv
  BY TypedInit, SafeInit
<1>2. TypedInv /\ SafeInv /\ [Next]_vars => (TypedInv /\ SafeInv)'
  <2> SUFFICES ASSUME TypedInv, SafeInv, [Next]_vars
               PROVE  TypedInv' /\ SafeInv'
    OBVIOUS
  <2>1. TypedInv'
    BY TypedStep
  <2>2. StepShape
    BY Shape DEF SafeInv
  <2>3. QED
    BY <2>1, <2>2, SafeStep
<1>3. TypedInv /\ SafeInv => BusInv
  BY DEF TypedInv, SafeInv, BusInv
<1>4. QED
  BY <1>1, <1>2, <1>3, PTL DEF Spec

\* CommandBus.run/4 over a durable store hands no consequential command id to
\* the dispatcher twice, however many runs of it race, crash, stall past the
\* claim lease or lose the store's replies.
THEOREM CommandAtMostOnce ==
  ASSUME ~Volatile PROVE Spec => []AtMostOncePerCommand
<1>1. BusInv => AtMostOncePerCommand
  BY DEF BusInv, TypeOK, HolderInv, PastConfirm, AtMostOncePerCommand
<1>2. QED
  BY <1>1, BusInvariant, PTL

\* From the hand-over to the dispatcher on, the store or the journal holds a
\* receipt of that very execution: neither the drain's unlink by file name
\* nor a failed commit loses the evidence.
THEOREM EvidenceKept ==
  ASSUME ~Volatile PROVE Spec => []EvidenceNeverVanishes
<1>1. BusInv => EvidenceNeverVanishes
  <2> SUFFICES ASSUME BusInv, NEW r \in dispatched, Consequential(r)
               PROVE  Evidenced(r)
    BY DEF EvidenceNeverVanishes
  <2>1. r \in Runs /\ r \in PastConfirm /\ CommandOf[r] \in Commands
    BY RunAssumption DEF BusInv, TypeOK, PastConfirm
  <2>2. Anchored(r) \/ stored[CommandOf[r]] # NoReceipt
    BY <2>1 DEF BusInv, CoverInv
  <2>3. claimant[CommandOf[r]] = r
    BY <2>1 DEF BusInv, HolderInv
  <2>4. QED
    BY <2>1, <2>2, <2>3 DEF BusInv, FenceInv, Evidenced
<1>2. QED
  BY <1>1, BusInvariant, PTL

\* A lease reclaim (ClaimLease.abandoned?/3) and a drain's re-claim never move
\* a claim away from an execution that was told it may cross DO.
THEOREM ReclaimSafe ==
  ASSUME ~Volatile PROVE Spec => ReclaimOnlyBeforeDo
<1>1. BusInv /\ [Next]_vars =>
        [\A c \in Commands :
           claimant[c] \in PastConfirm => claimant'[c] = claimant[c]]_vars
  <2> SUFFICES ASSUME BusInv, [Next]_vars, NEW c \in Commands,
                      claimant[c] \in PastConfirm
               PROVE  claimant'[c] = claimant[c]
    OBVIOUS
  <2>1. TypedInv /\ SafeInv
    BY DEF BusInv, TypedInv, SafeInv
  <2>2. StoreStep
    BY <2>1, Shape DEF SafeInv, StepShape
  <2>3. CommandOf[claimant[c]] = c
    BY RunAssumption DEF BusInv, FenceInv, PastConfirm
  <2>4. QED
    BY <2>1, <2>2, <2>3, HolderKeeps
<1>2. QED
  BY <1>1, BusInvariant, PTL DEF Spec, ReclaimOnlyBeforeDo

(* The claim fence ********************************************************)

\* What a step does to the claims, receipts, journal and DO taken together: it
\* hands out one claim, stores one receipt, writes or drops one entry, clears
\* one run, lets one cross, or takes back clearances.
FenceMove ==
  \/ /\ \E q \in Runs : ClaimDecision(q) = "execute" /\ RecordClaim(q)
     /\ UNCHANGED <<outbox, PastConfirm, Crossed>>
  \/ /\ \E x \in Receipt : CommitDecision(x) = "ok" /\ RecordCommit(x)
     /\ UNCHANGED <<outbox, PastConfirm, Crossed>>
  \/ /\ \E r \in Runs : \A q \in Runs \ {r} : Anchored(q)' <=> Anchored(q)
     /\ UNCHANGED <<claimant, stored, PastConfirm, Crossed>>
  \/ /\ \E r \in Runs : /\ claimant[CommandOf[r]] = r
                        /\ PastConfirm' = PastConfirm \cup {r}
     /\ UNCHANGED <<claimant, stored, outbox, Crossed>>
  \/ /\ \E r \in PastConfirm : Crossed' = Crossed \cup {r}
     /\ UNCHANGED <<claimant, stored, outbox, PastConfirm>>
  \/ /\ PastConfirm' \subseteq PastConfirm
     /\ UNCHANGED <<claimant, stored, outbox, Crossed>>

\* Every step over a durable store is such a move: one case per action.
LEMMA Moves ==
  ASSUME ~Volatile, TypedInv, [Next]_vars
  PROVE  FenceMove
<1> USE RunAssumption
     DEF FenceMove, PastConfirm, Crossed, Consequential, Anchored,
         TypedInv, TypeOK, DraftInv, DrainInv, Procs,
         vars, runVars, storeVars, drainVars, envVars
<1>1. ASSUME NEW r \in Runs, RunStep(r) \/ Crash(r) PROVE FenceMove
  <2>1. CASE Submit(r)
    BY <2>1 DEF Submit, Goto
  <2>2. CASE Admit(r)
    BY <2>2 DEF Admit, Goto, Answer
  <2>3. CASE ClaimReceipt(r)
    <3>1. UNCHANGED <<outbox, dispatched, PastConfirm, Crossed>>
      BY <2>3 DEF ClaimReceipt, Goto, Answer
    <3>2. \/ UNCHANGED <<claimant, stored>>
          \/ ClaimDecision(r) = "execute" /\ RecordClaim(r)
      BY <2>3 DEF ClaimReceipt
    <3>3. QED
      BY <3>1, <3>2
  <2>4. CASE ClaimActuation(r)
    BY <2>4 DEF ClaimActuation, RecordActuation, HealActuation, Goto
  <2>5. CASE PrepareAnchor(r)
    <3>1. Pending(r).run = r
      BY DEF Pending
    <3>2. /\ \A q \in Runs \ {r} : Anchored(q)' <=> Anchored(q)
          /\ UNCHANGED <<claimant, stored, dispatched>>
      BY <2>5, <3>1 DEF PrepareAnchor, Journal
    <3>3. UNCHANGED <<PastConfirm, Crossed>>
      BY <2>5 DEF PrepareAnchor, Goto
    <3>4. QED
      BY <3>2, <3>3
  <2>6. CASE ConfirmExecution(r)
    BY <2>6 DEF ConfirmExecution, HoldsClaim, Goto
  <2>7. CASE PreDoGate(r)
    BY <2>7 DEF PreDoGate, Goto
  <2>8. CASE UnlinkAnchor(r)
    <3>1. /\ \A q \in Runs \ {r} : Anchored(q)' <=> Anchored(q)
          /\ UNCHANGED <<claimant, stored, dispatched>>
      BY <2>8 DEF UnlinkAnchor, RemoveEntry, Unjournal
    <3>2. UNCHANGED <<PastConfirm, Crossed>>
      BY <2>8 DEF UnlinkAnchor, Goto
    <3>3. QED
      BY <3>1, <3>2
  <2>9. CASE ReleaseActuation(r)
    BY <2>9 DEF ReleaseActuation, Goto
  <2>10. CASE CloseClaim(r)
    BY <2>10 DEF CloseClaim, Commit, Goto
  <2>11. CASE Reply(r)
    BY <2>11 DEF Reply, Goto
  <2>12. CASE Timeout(r)
    BY <2>12 DEF Timeout, Goto
  <2>13. CASE CloseTimedOut(r)
    BY <2>13 DEF CloseTimedOut, Commit, Answer
  <2>14. CASE CommitActuation(r)
    BY <2>14 DEF CommitActuation, Goto
  <2>15. CASE CommitReceipt(r)
    BY <2>15 DEF CommitReceipt, Commit, Goto
  <2>16. CASE CleanupAnchor(r)
    <3>1. /\ \A q \in Runs \ {r} : Anchored(q)' <=> Anchored(q)
          /\ UNCHANGED <<claimant, stored, dispatched>>
      BY <2>16 DEF CleanupAnchor, RemoveEntry, Unjournal
    <3>2. UNCHANGED <<PastConfirm, Crossed>>
      BY <2>16 DEF CleanupAnchor, Answer
    <3>3. QED
      BY <3>1, <3>2
  <2>17. CASE OutboxFinal(r)
    <3>1. draft[r].run = r
      BY <2>17 DEF OutboxFinal
    <3>2. /\ \A q \in Runs \ {r} : Anchored(q)' <=> Anchored(q)
          /\ UNCHANGED <<claimant, stored, dispatched>>
      BY <2>17, <3>1 DEF OutboxFinal, Journal
    <3>3. UNCHANGED <<PastConfirm, Crossed>>
      BY <2>17 DEF OutboxFinal, Answer
    <3>4. QED
      BY <3>2, <3>3
  <2>18. CASE Crash(r)
    BY <2>18 DEF Crash, Goto
  <2>19. QED
    BY <1>1, <2>1, <2>2, <2>3, <2>4, <2>5, <2>6, <2>7, <2>8, <2>9, <2>10,
       <2>11, <2>12, <2>13, <2>14, <2>15, <2>16, <2>17, <2>18 DEF RunStep
<1>2. ASSUME NEW p \in Procs, DrainStep(p) \/ (p \in Reconcilers /\ Tick(p))
      PROVE FenceMove
  <2>1. CASE DrainNext(p)
    BY <2>1 DEF DrainNext
  <2>2. CASE DrainEnd(p)
    BY <2>2 DEF DrainEnd, Goto
  <2>3. CASE DrainFetch(p)
    BY <2>3 DEF DrainFetch
  <2>4. CASE DrainCommit(p)
    <3>1. MarkReconciled(cur[p]) \in Receipt
      BY <2>4, ReceiptTypes DEF DrainCommit, ReceiptOf
    <3>2. QED
      BY <2>4, <3>1 DEF DrainCommit, DrainCommitting, Commit
  <2>5. CASE DrainReclaim(p)
    <3>1. cur[p].run \in Runs
      BY <2>5 DEF DrainReclaim, Receipt
    <3>2. QED
      BY <2>5, <3>1 DEF DrainReclaim
  <2>6. CASE DrainRecommit(p)
    <3>1. cur[p] \in Receipt
      BY <2>6 DEF DrainRecommit
    <3>2. QED
      BY <2>6, <3>1 DEF DrainRecommit, Commit
  <2>7. CASE DrainRemove(p)
    <3>1. cur[p].run \in Runs
      BY <2>7 DEF DrainRemove, Receipt
    <3>2. \A q \in Runs \ {cur[p].run} : Anchored(q)' <=> Anchored(q)
      BY <2>7, <3>1 DEF DrainRemove, RemoveEntry, Unjournal
    <3>3. UNCHANGED <<claimant, stored, PastConfirm, Crossed>>
      BY <2>7 DEF DrainRemove
    <3>4. QED
      BY <3>1, <3>2, <3>3
  <2>8. CASE Tick(p)
    BY <2>8 DEF Tick
  <2>9. QED
    BY <1>2, <2>1, <2>2, <2>3, <2>4, <2>5, <2>6, <2>7, <2>8 DEF DrainStep
<1>3. ASSUME NEW c \in Commands, LeaseElapses(c) PROVE FenceMove
  BY <1>3 DEF LeaseElapses
<1>4. CASE NodeRestart \/ StoreRestart
  BY <1>4 DEF NodeRestart, StoreRestart
<1>5. CASE UNCHANGED vars
  BY <1>5
<1>6. QED
  BY <1>1, <1>2, <1>3, <1>4, <1>5 DEF Next, Procs

\* Whoever was told it may cross DO has evidence of its own.
ShownInv == PastConfirm \subseteq Shown

\* It follows from the claim it holds and from what covers it.
LEMMA ClearedShown == BusInv => ShownInv
<1> SUFFICES ASSUME BusInv, NEW r \in PastConfirm PROVE r \in Shown
  BY DEF ShownInv
<1>1. r \in Runs /\ CommandOf[r] \in Commands /\ claimant[CommandOf[r]] = r
  BY RunAssumption DEF BusInv, HolderInv, PastConfirm
<1>2. Anchored(r) \/ stored[CommandOf[r]] # NoReceipt
  BY <1>1 DEF BusInv, CoverInv, PastConfirm
<1>3. QED
  BY <1>1, <1>2 DEF BusInv, FenceInv, Shown, Evidenced

\* Each move is a step of the fence, or none.
LEMMA MovesFence ==
  ASSUME BusInv, BusInv', ShownInv', FenceMove
  PROVE  [Fence!Next]_(Fence!vars)
<1> USE RunAssumption DEF Fence!Next, Fence!vars
<1>1. TypedInv /\ SafeInv
  BY DEF BusInv, TypedInv, SafeInv
<1>2. Crossed \subseteq PastConfirm /\ Crossed' \subseteq PastConfirm'
  <2>1. dispatched \subseteq Runs /\ dispatched' \subseteq Runs
    BY DEF BusInv, TypeOK
  <2>2. QED
    BY <2>1 DEF Crossed, PastConfirm, Consequential
<1>3. PastConfirm \subseteq Runs
  BY DEF PastConfirm
<1>4. UNCHANGED <<stored, outbox>> => UNCHANGED Shown
  BY DEF Shown, Evidenced, Anchored
<1>5. ASSUME NEW q \in Runs, ClaimDecision(q) = "execute", RecordClaim(q),
             UNCHANGED <<outbox, PastConfirm, Crossed>>
      PROVE  [Fence!Next]_(Fence!vars)
  <2>1. UNCHANGED Shown
    BY <1>4, <1>5 DEF RecordClaim
  <2>2. CASE claimant[CommandOf[q]] \in PastConfirm
    <3>1. StoreStep
      BY <1>5 DEF StoreStep
    <3>2. claimant'[CommandOf[claimant[CommandOf[q]]]] = claimant[CommandOf[q]]
      BY <1>1, <2>2, <3>1, HolderKeeps
    <3>3. CommandOf[claimant[CommandOf[q]]] = CommandOf[q]
      BY <2>2 DEF BusInv, FenceInv, PastConfirm
    <3>4. claimant' = claimant
      BY <1>5, <3>2, <3>3 DEF RecordClaim, BusInv, TypeOK
    <3>5. QED
      BY <1>5, <2>1, <3>4
  <2>3. CASE claimant[CommandOf[q]] \notin PastConfirm
    BY <1>5, <2>1, <2>3 DEF Fence!Take, RecordClaim
  <2>4. QED
    BY <2>2, <2>3
<1>6. ASSUME NEW x \in Receipt, CommitDecision(x) = "ok", RecordCommit(x),
             UNCHANGED <<outbox, PastConfirm, Crossed>>
      PROVE  [Fence!Next]_(Fence!vars)
  <2> DEFINE r == x.run
  <2>1. r \in Runs /\ CommandOf[r] \in Commands
    BY DEF Receipt
  <2>2. claimant[CommandOf[r]] = r
    BY <1>6 DEF CommitDecision
  <2>3. stored[CommandOf[r]].run \in {r, NoRun}
    BY <2>1, <2>2 DEF BusInv, FenceInv, NoReceipt
  <2>4. /\ stored'[CommandOf[r]].run = r
        /\ \A c \in Commands \ {CommandOf[r]} : stored'[c] = stored[c]
    BY <1>6, <2>1 DEF RecordCommit, BusInv, TypeOK
  <2>5. \A q \in Runs : Anchored(q)' <=> Anchored(q)
    BY <1>6 DEF Anchored
  <2> HIDE DEF r
  <2>6. Shown' = Shown \cup {r}
    BY <2>1, <2>3, <2>4, <2>5 DEF Shown, Evidenced
  <2>7. QED
    BY <1>6, <2>1, <2>6 DEF Fence!Record, RecordCommit
<1>7. ASSUME NEW r \in Runs, \A q \in Runs \ {r} : Anchored(q)' <=> Anchored(q),
             UNCHANGED <<claimant, stored, PastConfirm, Crossed>>
      PROVE  [Fence!Next]_(Fence!vars)
  <2>1. \A q \in Runs \ {r} : q \in Shown' <=> q \in Shown
    BY <1>7 DEF Shown, Evidenced
  <2>2. Shown \subseteq Runs /\ Shown' \subseteq Runs
    BY DEF Shown
  <2>3. CASE r \in Shown'
    <3>1. Shown' = Shown \cup {r}
      BY <2>1, <2>2, <2>3
    <3>2. QED
      BY <1>7, <3>1 DEF Fence!Record
  <2>4. CASE r \notin Shown'
    <3>1. Shown' = Shown \ {r} /\ r \notin PastConfirm
      BY <1>7, <2>1, <2>2, <2>4 DEF ShownInv
    <3>2. QED
      BY <1>7, <3>1 DEF Fence!Discard
  <2>5. QED
    BY <2>3, <2>4
<1>8. ASSUME NEW r \in Runs, claimant[CommandOf[r]] = r,
             PastConfirm' = PastConfirm \cup {r},
             UNCHANGED <<claimant, stored, outbox, Crossed>>
      PROVE  [Fence!Next]_(Fence!vars)
  <2>1. r \in Shown /\ UNCHANGED Shown
    BY <1>4, <1>8 DEF ShownInv
  <2>2. QED
    BY <1>8, <2>1 DEF Fence!Clear
<1>9. ASSUME NEW r \in PastConfirm, Crossed' = Crossed \cup {r},
             UNCHANGED <<claimant, stored, outbox, PastConfirm>>
      PROVE  [Fence!Next]_(Fence!vars)
  BY <1>3, <1>4, <1>9 DEF Fence!Cross
<1>10. ASSUME PastConfirm' \subseteq PastConfirm,
              UNCHANGED <<claimant, stored, outbox, Crossed>>
       PROVE  [Fence!Next]_(Fence!vars)
  <2> DEFINE some == PastConfirm \ PastConfirm'
  <2>1. some \subseteq PastConfirm \ Crossed
    BY <1>2, <1>10
  <2>2. PastConfirm' = PastConfirm \ some
    BY <1>10
  <2>3. some \in SUBSET Runs
    BY <1>3
  <2> HIDE DEF some
  <2>4. Fence!Withdraw(some)
    BY <1>4, <1>10, <2>1, <2>2 DEF Fence!Withdraw
  <2>5. QED
    BY <2>3, <2>4
<1>11. QED
  BY <1>5, <1>6, <1>7, <1>8, <1>9, <1>10 DEF FenceMove

\* CommandBus.run/4 over a durable store implements ClaimFence.
THEOREM RouteImplementsFence == ASSUME ~Volatile PROVE Spec => ImplementsFence
<1>1. Init => Fence!Init
  <2> SUFFICES ASSUME Init PROVE Fence!Init
    OBVIOUS
  <2>1. PastConfirm = {} /\ Crossed = {}
    BY DEF Init, PastConfirm, Crossed
  <2>2. \A r \in Runs : ~Evidenced(r)
    BY RunAssumption DEF Init, Evidenced, Anchored, NoReceipt
  <2>3. QED
    BY <2>1, <2>2 DEF Init, Fence!Init, Shown
<1>2. BusInv /\ BusInv' /\ ShownInv' /\ [Next]_vars => [Fence!Next]_(Fence!vars)
  <2> SUFFICES ASSUME BusInv, BusInv', ShownInv', [Next]_vars
               PROVE  [Fence!Next]_(Fence!vars)
    OBVIOUS
  <2>1. FenceMove
    BY Moves DEF BusInv, TypedInv
  <2>2. QED
    BY <2>1, MovesFence
<1>3. BusInv => ShownInv
  BY ClearedShown
<1>4. Spec => []BusInv
  BY BusInvariant
<1>5. QED
  BY <1>1, <1>2, <1>3, <1>4, PTL DEF Spec, ImplementsFence, Fence!Spec

\* What makes a ClaimFence safe: whoever was cleared has its key and evidence.
ClearedInv ==
  /\ claimant \in [Commands -> Runs \cup {NoRun}] /\ PastConfirm \subseteq Runs
  /\ Crossed \subseteq PastConfirm /\ PastConfirm \subseteq Shown
  /\ \A r \in PastConfirm : claimant[CommandOf[r]] = r

\* The fence is all there is to it: whatever implements it, run/4 included, lets
\* one run of a command cross DO and has evidence of every run that did.
THEOREM FenceIsEnough ==
  Fence!Spec => [](AtMostOncePerCommand /\ EvidenceNeverVanishes)
<1>1. Fence!Init => ClearedInv
  BY DEF Fence!Init, ClearedInv
<1>2. ClearedInv /\ [Fence!Next]_(Fence!vars) => ClearedInv'
  <2> SUFFICES ASSUME ClearedInv, [Fence!Next]_(Fence!vars) PROVE ClearedInv'
    OBVIOUS
  <2> USE RunAssumption DEF ClearedInv
  <2>1. ASSUME NEW r \in Runs, Fence!Take(r) PROVE ClearedInv'
    BY <2>1 DEF Fence!Take
  <2>2. ASSUME NEW r \in Runs,
               Fence!Record(r) \/ Fence!Discard(r) \/ Fence!Clear(r) \/ Fence!Cross(r)
        PROVE  ClearedInv'
    BY <2>2 DEF Fence!Record, Fence!Discard, Fence!Clear, Fence!Cross
  <2>3. ASSUME NEW some \in SUBSET Runs, Fence!Withdraw(some) PROVE ClearedInv'
    BY <2>3 DEF Fence!Withdraw
  <2>4. CASE UNCHANGED Fence!vars
    BY <2>4 DEF Fence!vars
  <2>5. QED
    BY <2>1, <2>2, <2>3, <2>4 DEF Fence!Next
<1>3. ClearedInv => AtMostOncePerCommand /\ EvidenceNeverVanishes
  BY DEF ClearedInv, Crossed, Shown, AtMostOncePerCommand, EvidenceNeverVanishes
<1>4. QED
  BY <1>1, <1>2, <1>3, PTL DEF Fence!Spec

=============================================================================
