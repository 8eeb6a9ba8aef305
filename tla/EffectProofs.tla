---------------------------- MODULE EffectProofs ----------------------------
(***************************************************************************)
(* Proofs about the receipts and the effect index of CommandBus.           *)
(*                                                                         *)
(* What a stored receipt says of its own execution is so (OwnInv), over    *)
(* every store, durable or not, and whatever codes the gates give: it      *)
(* follows every receipt from the draft of a run through the journal and   *)
(* the drain's hands to the store.  No effect crosses DO twice (EffectInv) *)
(* over a durable store while live executors clear the pre-DO path within  *)
(* the claim lease (Prompt): a run holds the entry of its effect from the  *)
(* claim of it until it has given it back, and that of an effect it        *)
(* dispatched for good.                                                    *)
(***************************************************************************)
EXTENDS CommandBusProofs

\* Between the claim and the hand-over, with no receipt made out yet.
Undecided == PreClaim \cup {"claim_actuation", "prepare", "confirm", "pre_do"}

\* What the place of a run says of its draft and of DO.
PathInv ==
  \A r \in Runs :
    /\ pc[r] \in Undecided => draft[r] = NoReceipt
    /\ pc[r] \in PreClaim \cup PreDo => r \notin dispatched
    /\ pc[r] \in PostDo => r \in dispatched
    /\ pc[r] = "timed_out" => draft[r] = UnknownOutcome(r)
    /\ pc[r] \in {"commit_actuation", "commit", "outbox"} =>
         draft[r].status # "pending" /\ draft[r].terminal # "refused"

\* A journal entry is an anchor, or the receipt of a run that crossed DO.
Entry(y) ==
  /\ y.terminal # "refused"
  /\ y.status = "pending" => y.terminal = "none"
  /\ y.status # "pending" => y.run \in dispatched

EntryTruth ==
  /\ \A y \in outbox : Entry(y)
  /\ \A p \in Procs : cur[p] # NoReceipt => Entry(cur[p])

\* A refusal is of a run that does not cross DO, neither before it nor after.
RefusalInv ==
  /\ \A r \in Runs : draft[r].terminal = "refused" => r \notin dispatched
  /\ \A c \in Commands :
       stored[c].terminal = "refused" =>
         stored[c].run \notin dispatched /\ pc[stored[c].run] \in {"done", "dead"}

\* Where receipts come from, whatever the gates and the effects.
RouteInv == FenceInv /\ PathInv /\ EntryTruth /\ RefusalInv

\* A receipt names an execution that crossed DO; or one that did not and never
\* will, which was answered by another run's receipt, or was refused under a
\* code Receipt.terminal_status/1 takes for a failure of DO.
Own(x) ==
  x.terminal \notin {"none", "refused"} =>
    \/ x.run \in dispatched
    \/ /\ pc[x.run] \notin Undecided
       /\ \/ answer[x.run] = "duplicate"
          \/ answer[x.run] = "refused" /\ x.terminal = "failed"

DraftOwn  == \A r \in Runs : draft[r] # NoReceipt => Own(draft[r])
StoredOwn == \A c \in Commands : stored[c] # NoReceipt => Own(stored[c])

OwnInv == RouteInv /\ DraftOwn /\ StoredOwn

\* A run before DO holds its command's claim, young and without a final
\* receipt.
FreshInv ==
  \A r \in Runs :
    pc[r] \in PreDo =>
      /\ claimant[CommandOf[r]] = r
      /\ CommandOf[r] \notin aged
      /\ stored[CommandOf[r]].status \in {"none", "pending"}

\* The entry of an effect is held from its claim to its release, and for good
\* once the effect was handed to the dispatcher.
HeldInv ==
  \A r \in Runs :
    /\ Consequential(r)
    /\ \/ pc[r] \in {"prepare", "confirm", "pre_do", "unlink", "release"}
       \/ r \in dispatched
    => actClaimant[EffectOf[r]] = r

EffectInv == FreshInv /\ HeldInv

-----------------------------------------------------------------------------
(* What a step can do to the receipts. *)

\* DO is crossed by one run at a time, from pre_do, and nothing else moves.
DispatchStep ==
  \/ dispatched' = dispatched
  \/ \E r \in Runs :
       /\ pc[r] = "pre_do"
       /\ dispatched' = dispatched \cup {r}
       /\ pc' = [pc EXCEPT ![r] = "executing"]
       /\ UNCHANGED <<draft, storeVars, outbox, drainVars>>

\* The receipts a run can make out: a refusal, a dedup receipt, the observed
\* outcome, an unknown outcome.
Written(r) ==
  \/ /\ pc[r] \in PreDo /\ pc'[r] \in {"unlink", "release", "close"}
     /\ draft'[r].status = "failed" /\ draft'[r].terminal \in {"refused", "failed"}
     /\ answer'[r] = "refused"
  \/ /\ pc[r] = "claim_actuation" /\ pc'[r] = "close"
     /\ answer'[r] = "duplicate"
  \/ /\ pc[r] = "executing" /\ pc'[r] \in {"commit_actuation", "commit"}
     /\ draft'[r].status # "pending" /\ draft'[r].terminal # "refused"
  \/ /\ pc[r] = "executing" /\ pc'[r] = "timed_out"
     /\ draft'[r] = UnknownOutcome(r)

DraftStep == \A r \in Runs : draft'[r] = draft[r] \/ Written(r)

\* A run is answered before its receipt is made out, or after DO.
AnswerStep ==
  \A r \in Runs : answer'[r] = answer[r] \/ pc[r] \in Undecided \/ pc[r] \in PostDo

\* How a run comes to the places PathInv speaks of.
PathStep ==
  \A r \in Runs :
    /\ pc'[r] \in Undecided => pc[r] \in Undecided /\ draft'[r] = draft[r]
    /\ pc'[r] \in PreClaim \cup PreDo => pc[r] \in PreClaim \cup PreDo
    /\ pc'[r] \in PreDo =>
         pc[r] \in PreDo \/ (ClaimDecision(r) = "execute" /\ RecordClaim(r))
    /\ pc'[r] \in PostDo => pc[r] \in PostDo \/ r \in dispatched'
    /\ pc'[r] = "timed_out" => pc[r] = "timed_out" \/ draft'[r] = UnknownOutcome(r)
    /\ pc'[r] \in {"commit_actuation", "commit", "outbox"} =>
         \/ pc[r] \in {"commit_actuation", "commit", "outbox"} /\ draft'[r] = draft[r]
         \/ draft'[r].status # "pending" /\ draft'[r].terminal # "refused"
    /\ pc[r] \in {"done", "dead"} => pc'[r] \in {"done", "dead"}

\* Journal entries are anchors or what a run outboxes; a drain holds an entry,
\* or that entry marked reconciled.
EntryStep ==
  /\ \A y \in outbox' :
       \/ y \in outbox
       \/ y.status = "pending" /\ y.terminal = "none"
       \/ \E r \in Runs : pc[r] = "outbox" /\ y = draft[r]
  /\ \A p \in Procs :
       \/ cur'[p] = NoReceipt \/ cur'[p] = cur[p] \/ cur'[p] \in outbox
       \/ cur[p] # NoReceipt /\ cur'[p] = MarkReconciled(cur[p])

\* Only a run's draft or a drain's entry is committed.
Committed(x) ==
  \/ \E r \in Runs :
       /\ x = draft[r] /\ draft[r] # NoReceipt
       /\ pc[r] \in {"close", "timed_out", "commit"}
       /\ pc[r] = "close" => pc'[r] = "done"
  \/ \E p \in Procs :
       /\ cur[p] # NoReceipt
       /\ x = cur[p] \/ x = MarkReconciled(cur[p])

\* A volatile store comes back empty.
Reset ==
  /\ claimant' = [c \in Commands |-> NoRun]
  /\ stored' = [c \in Commands |-> NoReceipt]

ClaimStep ==
  \/ UNCHANGED <<claimant, stored>>
  \/ \E q \in Runs : ClaimDecision(q) = "execute" /\ RecordClaim(q)
  \/ \E x \in Receipt :
       CommitDecision(x) = "ok" /\ RecordCommit(x) /\ Committed(x)
  \/ Reset

TruthShape ==
  /\ DispatchStep /\ DraftStep /\ AnswerStep /\ PathStep
  /\ EntryStep /\ ClaimStep

\* A refusal is recorded as refused, or as a failure of DO.
LEMMA RefusalRefuses ==
  ASSUME NEW r, NEW code
  PROVE  /\ Refusal(r, code).status = "failed"
         /\ Refusal(r, code).terminal \in {"refused", "failed"}
BY DEF Refusal

\* Every step has the shape: one case per action.
LEMMA TruthSteps ==
  ASSUME TypedInv, [Next]_vars
  PROVE  TruthShape
<1> USE RunAssumption, BoundAssumption
     DEF TruthShape, DispatchStep, DraftStep, AnswerStep, PathStep, EntryStep,
         ClaimStep, TypedInv, TypeOK, DraftInv, DrainInv, Procs, Undecided,
         PreClaim, PreDo, PostDo, vars, runVars, storeVars, drainVars, envVars
<1>0. NoReceipt \notin Receipt
  BY ReceiptTypes
<1>1. ASSUME NEW r \in Runs, RunStep(r) \/ Crash(r) PROVE TruthShape
  <2>1. CASE Submit(r)
    BY <2>1 DEF Submit, Goto
  <2>2. CASE Admit(r)
    BY <2>2 DEF Admit, Goto, Answer
  <2>3. CASE ClaimReceipt(r)
    BY <2>3 DEF ClaimReceipt, RecordClaim, Fault, NoFault, Goto, Answer
  <2>4. CASE ClaimActuation(r)
    BY <2>4, RefusalRefuses
       DEF ClaimActuation, RefuseClaimed, Goto, RecordActuation, HealActuation, Written
  <2>5. CASE PrepareAnchor(r)
    <3>1. Pending(r).status = "pending" /\ Pending(r).terminal = "none"
      BY DEF Pending
    <3> QED
      BY <2>5, <3>1, RefusalRefuses
         DEF PrepareAnchor, Journal, RefuseClaimed, Goto, Written
  <2>6. CASE ConfirmExecution(r)
    BY <2>6 DEF ConfirmExecution, Goto
  <2>7. CASE PreDoGate(r)
    BY <2>7, RefusalRefuses DEF PreDoGate, RefuseClaimed, Goto, Written
  <2>8. CASE UnlinkAnchor(r)
    BY <2>8 DEF UnlinkAnchor, RemoveEntry, Unjournal, Goto
  <2>9. CASE ReleaseActuation(r)
    BY <2>9 DEF ReleaseActuation, Goto
  <2>10. CASE CloseClaim(r)
    BY <2>10 DEF CloseClaim, Commit, RecordCommit, Committed, Goto
  <2>11. CASE Reply(r)
    BY <2>11 DEF Reply, Finalized, Written, Goto
  <2>12. CASE Timeout(r)
    BY <2>12 DEF Timeout, Finalized, Written, Goto
  <2>13. CASE CloseTimedOut(r)
    BY <2>13 DEF CloseTimedOut, Commit, RecordCommit, Committed, Answer
  <2>14. CASE CommitActuation(r)
    BY <2>14 DEF CommitActuation, Goto
  <2>15. CASE CommitReceipt(r)
    BY <2>15 DEF CommitReceipt, Commit, RecordCommit, Committed, Goto
  <2>16. CASE CleanupAnchor(r)
    BY <2>16 DEF CleanupAnchor, RemoveEntry, Unjournal, Answer
  <2>17. CASE OutboxFinal(r)
    BY <2>17 DEF OutboxFinal, Journal, Answer
  <2>18. CASE Crash(r)
    BY <2>18 DEF Crash, Goto
  <2> QED
    BY <1>1, <2>1, <2>2, <2>3, <2>4, <2>5, <2>6, <2>7, <2>8, <2>9, <2>10,
       <2>11, <2>12, <2>13, <2>14, <2>15, <2>16, <2>17, <2>18 DEF RunStep
<1>2. ASSUME NEW p \in Procs, DrainStep(p) \/ (p \in Reconcilers /\ Tick(p))
      PROVE TruthShape
  <2>1. CASE DrainNext(p)
    BY <2>1 DEF DrainNext, DrainHold
  <2>2. CASE DrainEnd(p)
    BY <2>2 DEF DrainEnd, DrainGoto, Goto
  <2>3. CASE DrainFetch(p)
    BY <2>3 DEF DrainFetch, DrainGoto
  <2>4. CASE DrainCommit(p)
    <3> DEFINE x == MarkReconciled(cur[p])
    <3>1. cur[p] \in Receipt /\ x \in Receipt
      BY <2>4, ReceiptTypes DEF DrainCommit, ReceiptOf
    <3>2. /\ UNCHANGED <<runVars, outbox, actClaimant, actReceipt>>
          /\ \/ UNCHANGED <<claimant, stored>>
             \/ CommitDecision(x) = "ok" /\ RecordCommit(x)
          /\ \A q \in Procs : cur'[q] = cur[q] \/ cur'[q] = NoReceipt \/ (q = p /\ cur'[q] = x)
      BY <2>4 DEF DrainCommit, DrainCommitting, DrainHold, DrainLeave, Commit,
         RecordCommit
    <3>3. Committed(x)
      BY <1>0, <3>1 DEF Committed
    <3> HIDE DEF x
    <3>4. ClaimStep
      BY <3>1, <3>2, <3>3
    <3>5. EntryStep
      BY <1>0, <3>1, <3>2 DEF x
    <3> QED BY <3>2, <3>4, <3>5
  <2>5. CASE DrainReclaim(p)
    BY <2>5 DEF DrainReclaim, DrainGoto, DrainHold, DrainLeave, RecordClaim, Receipt
  <2>6. CASE DrainRecommit(p)
    BY <2>6 DEF DrainRecommit, DrainGoto, DrainHold, DrainLeave, Commit,
       RecordCommit, Committed
  <2>7. CASE DrainRemove(p)
    BY <2>7 DEF DrainRemove, DrainHold, DrainLeave, RemoveEntry, Unjournal
  <2>8. CASE Tick(p)
    BY <2>8 DEF Tick, DrainGoto
  <2> QED
    BY <1>2, <2>1, <2>2, <2>3, <2>4, <2>5, <2>6, <2>7, <2>8 DEF DrainStep
<1>3. ASSUME NEW c \in Commands, LeaseElapses(c) PROVE TruthShape
  BY <1>3 DEF LeaseElapses
<1>4. CASE NodeRestart \/ StoreRestart
  BY <1>4 DEF NodeRestart, StoreRestart, StoreEmpties, Reset
<1>5. CASE UNCHANGED vars
  BY <1>5
<1> QED
  BY <1>1, <1>2, <1>3, <1>4, <1>5, SMTT(30) DEF Next, Procs

-----------------------------------------------------------------------------
(* What a receipt says of its own execution is so. *)

\* The fence of the store holds over every store.
LEMMA FenceStep ==
  ASSUME TypedInv, FenceInv, ClaimStep
  PROVE  FenceInv'
<1> USE RunAssumption DEF TypedInv, TypeOK
<1>1. CASE UNCHANGED <<claimant, stored>>
  BY <1>1 DEF FenceInv
<1>2. ASSUME NEW q \in Runs, ClaimDecision(q) = "execute", RecordClaim(q)
      PROVE  FenceInv'
  <2>1. stored[CommandOf[q]] = NoReceipt
    BY <1>2, ExecuteHasNoReceipt
  <2> QED BY <1>2, <2>1 DEF RecordClaim, FenceInv
<1>3. ASSUME NEW x \in Receipt, CommitDecision(x) = "ok", RecordCommit(x)
      PROVE  FenceInv'
  <2>1. claimant[CommandOf[x.run]] = x.run
    BY <1>3 DEF CommitDecision
  <2> QED BY <1>3, <2>1 DEF RecordCommit, FenceInv
<1>4. CASE Reset
  BY <1>4 DEF Reset, FenceInv
<1> QED BY <1>1, <1>2, <1>3, <1>4 DEF ClaimStep

\* Initially there is no receipt.
LEMMA OwnInit == Init => OwnInv
BY RunAssumption
   DEF Init, OwnInv, RouteInv, RefusalInv, FenceInv, PathInv, DraftOwn,
       EntryTruth, StoredOwn, NoReceipt, PreClaim, PreDo, PostDo, Undecided

\* Receipts come from where they should after a step.
LEMMA RouteStep ==
  ASSUME TypedInv, TypedInv', RouteInv, TruthShape
  PROVE  RouteInv'
<1> USE RunAssumption
<1>0. NoReceipt \notin Receipt
  BY ReceiptTypes
<1>1. FenceInv'
  BY FenceStep DEF RouteInv, TruthShape
<1>2. PathInv'
  <2> SUFFICES ASSUME NEW r \in Runs
               PROVE  /\ pc'[r] \in Undecided => draft'[r] = NoReceipt
                      /\ pc'[r] \in PreClaim \cup PreDo => r \notin dispatched'
                      /\ pc'[r] \in PostDo => r \in dispatched'
                      /\ pc'[r] = "timed_out" => draft'[r] = UnknownOutcome(r)
                      /\ pc'[r] \in {"commit_actuation", "commit", "outbox"} =>
                           draft'[r].status # "pending" /\ draft'[r].terminal # "refused"
    BY DEF PathInv, Undecided, PreClaim, PreDo, PostDo, UnknownOutcome
  <2>1. pc'[r] \in Undecided => draft'[r] = NoReceipt
    BY DEF RouteInv, PathInv, TruthShape, PathStep
  <2>2. pc'[r] \in PreClaim \cup PreDo => r \notin dispatched'
    BY DEF RouteInv, PathInv, TruthShape, PathStep, DispatchStep, PreClaim, PreDo,
       TypedInv, TypeOK
  <2>3. pc'[r] \in PostDo => r \in dispatched'
    BY DEF RouteInv, PathInv, TruthShape, PathStep, DispatchStep
  <2>4. pc'[r] = "timed_out" => draft'[r] = UnknownOutcome(r)
    BY DEF RouteInv, PathInv, TruthShape, PathStep, DraftStep, Written, PreDo
  <2>5. pc'[r] \in {"commit_actuation", "commit", "outbox"} =>
          draft'[r].status # "pending" /\ draft'[r].terminal # "refused"
    BY DEF RouteInv, PathInv, TruthShape, PathStep
  <2> QED BY <2>1, <2>2, <2>3, <2>4, <2>5
<1>3. EntryTruth'
  <2>1. \A y : Entry(y) => Entry(y)'
    BY DEF Entry, TruthShape, DispatchStep
  <2>2. ASSUME NEW y \in outbox' PROVE Entry(y)'
    <3>1. CASE y \in outbox
      BY <2>1, <3>1 DEF RouteInv, EntryTruth
    <3>2. CASE y.status = "pending" /\ y.terminal = "none"
      BY <3>2 DEF Entry
    <3>3. ASSUME NEW r \in Runs, pc[r] = "outbox", y = draft[r] PROVE Entry(y)
      <4>1. draft[r].run = r /\ draft[r].status # "pending" /\ draft[r].terminal # "refused"
        BY <3>3 DEF TypedInv, DraftInv, RouteInv, PathInv
      <4>2. r \in dispatched
        BY <3>3 DEF RouteInv, PathInv, PostDo
      <4> QED BY <3>3, <4>1, <4>2 DEF Entry
    <3> QED BY <2>1, <3>1, <3>2, <3>3 DEF TruthShape, EntryStep
  <2>3. ASSUME NEW p \in Procs, cur'[p] # NoReceipt PROVE Entry(cur[p])'
    <3>1. CASE cur'[p] = cur[p]
      <4>1. Entry(cur[p])
        BY <2>3, <3>1 DEF RouteInv, EntryTruth
      <4> QED BY <2>1, <3>1, <4>1 DEF Entry
    <3>2. CASE cur'[p] \in outbox
      <4>1. \A y \in outbox : Entry(y)'
        BY <2>1 DEF RouteInv, EntryTruth
      <4> QED BY <3>2, <4>1 DEF Entry
    <3>3. CASE cur[p] # NoReceipt /\ cur'[p] = MarkReconciled(cur[p])
      <4>1. Entry(cur[p]) /\ cur[p] \in Receipt
        BY <3>3 DEF RouteInv, EntryTruth, TypedInv, TypeOK
      <4>2. Entry(MarkReconciled(cur[p]))
        BY <4>1 DEF Entry, MarkReconciled, Receipt
      <4>3. \A y : y = MarkReconciled(cur[p]) => Entry(y)'
        BY <2>1, <4>2
      <4> QED BY <3>3, <4>3 DEF Entry
    <3> QED BY <2>3, <3>1, <3>2, <3>3 DEF TruthShape, EntryStep
  <2> QED BY <2>2, <2>3 DEF EntryTruth
<1>4. RefusalInv'
  <2>1. ASSUME NEW r \in Runs, draft'[r].terminal = "refused"
        PROVE  r \notin dispatched'
    <3>1. draft'[r] # NoReceipt
      BY <2>1 DEF NoReceipt
    <3>2. CASE draft'[r] = draft[r]
      <4>1. r \notin dispatched /\ pc[r] # "pre_do"
        BY <2>1, <3>1, <3>2 DEF RouteInv, RefusalInv, PathInv, Undecided
      <4> QED BY <4>1 DEF TruthShape, DispatchStep
    <3>3. CASE Written(r)
      <4>1. CASE pc'[r] \in PreDo
        BY <1>2, <4>1 DEF PathInv
      <4>2. pc'[r] # "timed_out"
        <5>1. UnknownOutcome(r).terminal = "unknown_outcome"
          BY DEF UnknownOutcome
        <5> QED BY <1>2, <2>1, <5>1 DEF PathInv, UnknownOutcome
      <4>3. pc'[r] \notin {"commit_actuation", "commit"}
        BY <1>2, <2>1 DEF PathInv
      <4> QED BY <3>3, <4>1, <4>2, <4>3 DEF Written, PreDo
    <3> QED BY <3>2, <3>3 DEF TruthShape, DraftStep
  <2>2. ASSUME NEW c \in Commands, stored'[c].terminal = "refused"
        PROVE  stored'[c].run \notin dispatched' /\ pc'[stored'[c].run] \in {"done", "dead"}
    <3>1. stored'[c] # NoReceipt
      BY <2>2 DEF NoReceipt
    <3>2. CASE stored'[c] = stored[c]
      <4>1. /\ stored[c].run \in Runs /\ stored[c].run \notin dispatched
            /\ pc[stored[c].run] \in {"done", "dead"}
        BY <2>2, <3>1, <3>2 DEF RouteInv, RefusalInv, TypedInv, TypeOK, Receipt
      <4> QED BY <3>2, <4>1 DEF TruthShape, PathStep, DispatchStep
    <3>3. ASSUME NEW x \in Receipt, RecordCommit(x), Committed(x), CommandOf[x.run] = c
          PROVE  x.run \notin dispatched' /\ pc'[x.run] \in {"done", "dead"}
      <4>1. stored'[c] = x
        BY <3>3 DEF RecordCommit, TypedInv, TypeOK
      <4>2. \A p \in Procs : cur[p] # NoReceipt =>
              x # cur[p] /\ x # MarkReconciled(cur[p])
        BY <2>2, <4>1 DEF RouteInv, EntryTruth, Entry, MarkReconciled, TypedInv,
           TypeOK, Receipt
      <4>3. PICK r \in Runs : /\ x = draft[r] /\ draft[r] # NoReceipt
                              /\ pc[r] \in {"close", "timed_out", "commit"}
                              /\ pc[r] = "close" => pc'[r] = "done"
        BY <3>3, <4>2 DEF Committed
      <4>4. x.run = r
        BY <4>3 DEF TypedInv, DraftInv
      <4>5. r \notin dispatched
        <5>1. draft[r].terminal = "refused"
          BY <2>2, <4>1, <4>3
        <5> QED BY <5>1 DEF RouteInv, RefusalInv
      <4>6. pc[r] = "close" /\ pc'[r] = "done"
        BY <4>3, <4>5 DEF RouteInv, PathInv, PostDo
      <4>7. r \notin dispatched'
        BY <4>5, <4>6 DEF TruthShape, DispatchStep
      <4> QED BY <4>4, <4>6, <4>7
    <3>4. CASE Reset
      BY <3>1, <3>4 DEF Reset
    <3>5. stored'[c] = stored[c] \/ Reset \/ \E x \in Receipt :
            RecordCommit(x) /\ Committed(x) /\ CommandOf[x.run] = c /\ stored'[c] = x
      BY DEF TruthShape, ClaimStep, RecordClaim, RecordCommit, TypedInv, TypeOK
    <3> QED BY <3>2, <3>3, <3>4, <3>5
  <2> QED BY <2>1, <2>2 DEF RefusalInv
<1> QED BY <1>1, <1>2, <1>3, <1>4 DEF RouteInv

\* A receipt that is true of its execution stays so.
LEMMA OwnStays ==
  ASSUME TruthShape, RouteInv, NEW x, x.run \in Runs, Own(x)
  PROVE  Own(x)'
<1> SUFFICES ASSUME x.terminal \notin {"none", "refused"}, x.run \notin dispatched'
             PROVE  /\ pc'[x.run] \notin Undecided
                    /\ \/ answer'[x.run] = "duplicate"
                       \/ answer'[x.run] = "refused" /\ x.terminal = "failed"
  BY DEF Own
<1>1. x.run \notin dispatched
  BY DEF TruthShape, DispatchStep
<1>2. pc[x.run] \notin Undecided /\ pc[x.run] \notin PostDo
  BY <1>1 DEF Own, RouteInv, PathInv
<1> QED BY <1>1, <1>2 DEF Own, TruthShape, AnswerStep, PathStep

\* Every receipt is true of its own execution after a step: first the drafts,
\* then what is stored.
LEMMA OwnStep ==
  ASSUME TypedInv, TypedInv', OwnInv, TruthShape
  PROVE  OwnInv'
<1> USE RunAssumption
<1>1. RouteInv'
  BY RouteStep DEF OwnInv
<1>2. DraftOwn'
  <2> SUFFICES ASSUME NEW r \in Runs, draft'[r] # NoReceipt
               PROVE  Own(draft[r])'
    BY DEF DraftOwn
  <2>1. draft'[r].run = r
    BY DEF TypedInv, DraftInv
  <2>2. CASE draft'[r] = draft[r]
    <3>1. Own(draft[r]) /\ draft[r].run = r
      BY <2>1, <2>2 DEF OwnInv, DraftOwn
    <3>2. \A x : x = draft[r] => Own(x)'
      BY <3>1, OwnStays DEF OwnInv
    <3> QED BY <2>2, <3>2 DEF Own
  <2>3. CASE Written(r)
    <3>1. ASSUME pc'[r] \in PostDo PROVE Own(draft[r])'
      BY <1>1, <2>1, <3>1 DEF RouteInv, PathInv, Own
    <3> QED BY <2>1, <2>3, <3>1 DEF Written, Own, Undecided, PreClaim, PostDo
  <2> QED BY <2>2, <2>3 DEF TruthShape, DraftStep
<1>3. StoredOwn'
  <2> SUFFICES ASSUME NEW c \in Commands, stored'[c] # NoReceipt
               PROVE  Own(stored[c])'
    BY DEF StoredOwn
  <2>1. CASE stored'[c] = stored[c]
    <3>1. Own(stored[c]) /\ stored[c].run \in Runs
      BY <2>1 DEF OwnInv, StoredOwn, TypedInv, TypeOK, Receipt
    <3>2. \A x : x = stored[c] => Own(x)'
      BY <3>1, OwnStays DEF OwnInv
    <3> QED BY <2>1, <3>2 DEF Own
  <2>2. ASSUME NEW x \in Receipt, Committed(x), stored'[c] = x
        PROVE  Own(stored[c])'
    <3>1. ASSUME NEW p \in Procs, cur[p] # NoReceipt,
                 x = cur[p] \/ x = MarkReconciled(cur[p])
          PROVE  Own(x)
      <4>1. Entry(cur[p]) /\ cur[p] \in Receipt
        BY <3>1 DEF OwnInv, RouteInv, EntryTruth, TypedInv, TypeOK
      <4>2. Entry(x)
        BY <3>1, <4>1 DEF Entry, MarkReconciled, Receipt
      <4> QED BY <4>2 DEF Entry, Own
    <3>2. Own(x)
      BY <2>2, <3>1 DEF Committed, OwnInv, DraftOwn
    <3>3. Own(x)'
      BY <3>2, OwnStays DEF OwnInv, Receipt
    <3> QED BY <2>2, <3>3 DEF Own
  <2>3. CASE Reset
    BY <2>3 DEF Reset
  <2>4. stored'[c] = stored[c] \/ Reset \/ \E x \in Receipt :
          Committed(x) /\ stored'[c] = x
    BY DEF TruthShape, ClaimStep, RecordClaim, RecordCommit, TypedInv, TypeOK
  <2> QED BY <2>1, <2>2, <2>3, <2>4
<1> QED BY <1>1, <1>2, <1>3 DEF OwnInv

\* What a stored receipt says of its own execution (receipt.ex, moduledoc):
\* `refused' that it never crosses DO; executed, reconciled and
\* unknown_outcome that it did, or that it was answered from another run's
\* receipt; failed these two, or a refusal under a code that is missing from
\* @pre_do_refusal_codes.
ReceiptsOwnTruth ==
  \A c \in Commands :
    LET x == stored[c] IN
    /\ x.terminal = "refused" => x.run \notin dispatched
    /\ x.terminal \in {"executed", "reconciled", "unknown_outcome"} =>
         x.run \in dispatched \/ answer[x.run] = "duplicate"
    /\ x.terminal = "failed" =>
         x.run \in dispatched \/ answer[x.run] \in {"duplicate", "refused"}

\* Over every store, durable or volatile, restarting alone or with the node,
\* and for every set of gate codes and every derivation of effect identities:
\* whatever drains, reclaims, crashes and failing calls a receipt went
\* through, what the store shows of an execution is what became of it.
THEOREM ReceiptsTellOwnTruth == Spec => []ReceiptsOwnTruth
<1>1. Init => TypedInv /\ OwnInv
  BY TypedInit, OwnInit
<1>2. TypedInv /\ OwnInv /\ [Next]_vars => (TypedInv /\ OwnInv)'
  <2> SUFFICES ASSUME TypedInv, OwnInv, [Next]_vars
               PROVE  TypedInv' /\ OwnInv'
    OBVIOUS
  <2>1. TypedInv'
    BY TypedStep
  <2>2. TruthShape
    BY TruthSteps
  <2> QED BY <2>1, <2>2, OwnStep
<1>3. TypedInv /\ OwnInv => ReceiptsOwnTruth
  <2> SUFFICES ASSUME OwnInv, NEW c \in Commands
               PROVE  /\ stored[c].terminal = "refused" => stored[c].run \notin dispatched
                      /\ stored[c].terminal \in {"executed", "reconciled", "unknown_outcome"} =>
                           stored[c].run \in dispatched \/ answer[stored[c].run] = "duplicate"
                      /\ stored[c].terminal = "failed" =>
                           \/ stored[c].run \in dispatched
                           \/ answer[stored[c].run] \in {"duplicate", "refused"}
    BY DEF ReceiptsOwnTruth
  <2>1. CASE stored[c] = NoReceipt
    BY <2>1 DEF NoReceipt
  <2>2. CASE stored[c] # NoReceipt
    BY <2>2 DEF OwnInv, RouteInv, RefusalInv, StoredOwn, Own
  <2> QED BY <2>1, <2>2
<1> QED BY <1>1, <1>2, <1>3, PTL DEF Spec

-----------------------------------------------------------------------------
(* No effect crosses DO twice. *)

\* The claim of a run before DO is young: it is not handed out again, its
\* lease does not elapse, and what is committed under it is an anchor.
AgedStep ==
  \/ aged' \subseteq aged
  \/ \E c \in Commands :
       /\ Prompt => pc[claimant[c]] \notin PreDo
       /\ claimant[c] # NoRun /\ stored[c] = NoReceipt
       /\ aged' = aged \cup {c} /\ UNCHANGED <<pc, claimant, stored>>

\* Who takes the entry of an effect, and who gives it back.
HoldStep ==
  \A e \in Effects :
    \/ actClaimant'[e] = actClaimant[e]
    \/ \E q \in Runs :
         /\ pc[q] = "claim_actuation" /\ EffectOf[q] = e
         /\ Consequential(q) /\ ActuationDecision(e) = "proceed"
         /\ \A r \in Runs \ {q} : pc'[r] = pc[r]
         /\ dispatched' = dispatched /\ actClaimant'[e] = q
    \/ \E q \in Runs :
         /\ pc[q] = "release" /\ Consequential(q) /\ EffectOf[q] = e
         /\ pc'[q] \in {"done", "close"} /\ dispatched' = dispatched
         /\ \A r \in Runs \ {q} : pc'[r] = pc[r]

\* A run enters the window of HeldInv by taking the entry of its effect.
Window == {"prepare", "confirm", "pre_do", "unlink", "release"}

EnterStep ==
  \A r \in Runs :
    Consequential(r) /\ pc'[r] \in Window =>
      pc[r] \in Window \/ actClaimant'[EffectOf[r]] = r

\* A commit closes the claim of a run before DO, or stores its anchor.
CloseStep ==
  \A r \in Runs :
    pc'[r] \in PreDo =>
      \/ pc[r] \notin PreDo
      \/ stored'[CommandOf[r]] = stored[CommandOf[r]]
      \/ claimant[CommandOf[r]] # r
      \/ \E p \in Procs :
           /\ cur[p] # NoReceipt /\ cur[p].run = r
           /\ stored'[CommandOf[r]] = MarkReconciled(cur[p])
              \/ stored'[CommandOf[r]] = cur[p]

EffectShape == AgedStep /\ HoldStep /\ EnterStep /\ CloseStep

\* Over a durable store every step has this shape as well.
LEMMA EffectSteps ==
  ASSUME ~Volatile, TypedInv, [Next]_vars
  PROVE  EffectShape
<1> USE RunAssumption, BoundAssumption
     DEF EffectShape, AgedStep, HoldStep, EnterStep, CloseStep, TypedInv, TypeOK,
         DraftInv, DrainInv, Procs, Window, PreClaim, PreDo, PostDo,
         vars, runVars, storeVars, drainVars, envVars, Consequential
<1>0. NoReceipt \notin Receipt
  BY ReceiptTypes
<1>1. ASSUME NEW r \in Runs, RunStep(r) \/ Crash(r) PROVE EffectShape
  <2>1. CASE Submit(r)
    BY <2>1 DEF Submit, Goto
  <2>2. CASE Admit(r)
    BY <2>2 DEF Admit, Goto, Answer
  <2>3. CASE ClaimReceipt(r)
    BY <2>3 DEF ClaimReceipt, RecordClaim, Fault, NoFault, Goto, Answer
  <2>4. CASE ClaimActuation(r)
    BY <2>4 DEF ClaimActuation, RecordActuation, HealActuation, Goto
  <2>5. CASE PrepareAnchor(r)
    BY <2>5 DEF PrepareAnchor, Goto
  <2>6. CASE ConfirmExecution(r)
    BY <2>6 DEF ConfirmExecution, Goto
  <2>7. CASE PreDoGate(r)
    BY <2>7 DEF PreDoGate, Goto
  <2>8. CASE UnlinkAnchor(r)
    BY <2>8 DEF UnlinkAnchor, Goto
  <2>9. CASE ReleaseActuation(r)
    BY <2>9 DEF ReleaseActuation, Goto
  <2>10. CASE CloseClaim(r)
    BY <2>10 DEF CloseClaim, Commit, CommitDecision, RecordCommit, Goto
  <2>11. CASE Reply(r)
    BY <2>11 DEF Reply, Goto
  <2>12. CASE Timeout(r)
    BY <2>12 DEF Timeout, Goto
  <2>13. CASE CloseTimedOut(r)
    BY <2>13 DEF CloseTimedOut, Commit, CommitDecision, RecordCommit, Answer
  <2>14. CASE CommitActuation(r)
    BY <2>14 DEF CommitActuation, Goto
  <2>15. CASE CommitReceipt(r)
    BY <2>15 DEF CommitReceipt, Commit, CommitDecision, RecordCommit, Goto
  <2>16. CASE CleanupAnchor(r)
    BY <2>16 DEF CleanupAnchor, Answer
  <2>17. CASE OutboxFinal(r)
    BY <2>17 DEF OutboxFinal, Answer
  <2>18. CASE Crash(r)
    BY <2>18 DEF Crash, Goto
  <2> QED
    BY <1>1, <2>1, <2>2, <2>3, <2>4, <2>5, <2>6, <2>7, <2>8, <2>9, <2>10,
       <2>11, <2>12, <2>13, <2>14, <2>15, <2>16, <2>17, <2>18 DEF RunStep
<1>2. ASSUME NEW p \in Procs, DrainStep(p) \/ (p \in Reconcilers /\ Tick(p))
      PROVE EffectShape
  <2>1. CASE DrainNext(p)
    BY <2>1 DEF DrainNext
  <2>2. CASE DrainEnd(p)
    BY <2>2 DEF DrainEnd, Goto
  <2>3. CASE DrainFetch(p)
    BY <2>3 DEF DrainFetch
  <2>4. CASE DrainCommit(p)
    <3> DEFINE x == MarkReconciled(cur[p])
    <3>1. cur[p] \in Receipt /\ x \in Receipt /\ x.run = cur[p].run
      BY <2>4, ReceiptTypes DEF DrainCommit, ReceiptOf
    <3>2. /\ UNCHANGED <<runVars, actClaimant, aged, claimant>>
          /\ stored' = stored \/ (CommitDecision(x) = "ok" /\ RecordCommit(x))
      BY <2>4 DEF DrainCommit, DrainCommitting, Commit, RecordCommit
    <3> HIDE DEF x
    <3>3. \A r \in Runs : stored'[CommandOf[r]] = stored[CommandOf[r]]
                         \/ claimant[CommandOf[r]] # r
                         \/ (cur[p].run = r /\ stored'[CommandOf[r]] = x)
      BY <3>1, <3>2 DEF RecordCommit, CommitDecision, Receipt
    <3>4. CloseStep
      BY <1>0, <3>1, <3>2, <3>3 DEF x
    <3> QED BY <3>2, <3>4
  <2>5. CASE DrainReclaim(p)
    BY <2>5 DEF DrainReclaim, RecordClaim, Receipt
  <2>6. CASE DrainRecommit(p)
    <3> DEFINE x == cur[p]
    <3>1. x \in Receipt
      BY <2>6 DEF DrainRecommit
    <3>2. /\ UNCHANGED <<runVars, actClaimant, aged, claimant>>
          /\ stored' = stored \/ (CommitDecision(x) = "ok" /\ RecordCommit(x))
      BY <2>6 DEF DrainRecommit, Commit, RecordCommit
    <3>3. \A r \in Runs : stored'[CommandOf[r]] = stored[CommandOf[r]]
                         \/ claimant[CommandOf[r]] # r
                         \/ (cur[p].run = r /\ stored'[CommandOf[r]] = x)
      BY <3>1, <3>2 DEF RecordCommit, CommitDecision, Receipt
    <3>4. CloseStep
      BY <1>0, <3>1, <3>2, <3>3
    <3> QED BY <3>2, <3>4
  <2>7. CASE DrainRemove(p)
    BY <2>7 DEF DrainRemove
  <2>8. CASE Tick(p)
    BY <2>8 DEF Tick
  <2> QED
    BY <1>2, <2>1, <2>2, <2>3, <2>4, <2>5, <2>6, <2>7, <2>8 DEF DrainStep
<1>3. ASSUME NEW c \in Commands, LeaseElapses(c) PROVE EffectShape
  BY <1>3 DEF LeaseElapses
<1>4. CASE NodeRestart
  BY <1>4 DEF NodeRestart
<1>5. CASE UNCHANGED vars
  BY <1>5
<1> QED
  BY <1>1, <1>2, <1>3, <1>4, <1>5 DEF Next, Procs, StoreRestart

\* The claim behind an entry in the window or behind a dispatched effect is not
\* reclaimable: it is young or anchored, and what is stored is no refusal.
LEMMA HeldIsFirm ==
  ASSUME TypedInv, SafeInv, RouteInv, EffectInv, NEW r \in Runs, Consequential(r),
         pc[r] \in Window \/ r \in dispatched
  PROVE  ~Reclaimable(CommandOf[r])
<1> DEFINE c == CommandOf[r]
<1>1. c \in Commands
  BY RunAssumption
<1>2. CASE pc[r] \in Window
  BY <1>2 DEF Window, PreDo, EffectInv, FreshInv, Reclaimable, Abandoned
<1>3. CASE r \in dispatched
  <2>1. claimant[c] = r /\ (Anchored(r) \/ stored[c] # NoReceipt)
    BY <1>3 DEF SafeInv, HolderInv, CoverInv, PastConfirm
  <2>2. stored[c] # NoReceipt => stored[c].terminal # "refused"
    BY <1>1, <1>3, <2>1 DEF SafeInv, FenceInv, RouteInv, RefusalInv
  <2>3. stored[c] = NoReceipt => ~Abandoned(c)
    BY <2>1 DEF Anchored, AnchoredCommand, Abandoned
  <2>4. NoReceipt.status # "failed"
    BY DEF NoReceipt
  <2> QED BY <2>2, <2>3, <2>4 DEF Reclaimable
<1> QED BY <1>2, <1>3

\* Claims before DO stay fresh and entries stay held after a step.
LEMMA EffectStep ==
  ASSUME Prompt, TypedInv, SafeInv, RouteInv, EffectInv,
         StepShape, TruthShape, EffectShape, TypedInv', RouteInv'
  PROVE  EffectInv'
<1> USE RunAssumption
<1>1. FreshInv'
  <2> SUFFICES ASSUME NEW r \in Runs, pc'[r] \in PreDo
               PROVE  /\ claimant'[CommandOf[r]] = r
                      /\ CommandOf[r] \notin aged'
                      /\ stored'[CommandOf[r]].status \in {"none", "pending"}
    BY DEF FreshInv, PreDo
  <2> DEFINE c == CommandOf[r]
  <2>0. c \in Commands
    OBVIOUS
  <2>1. CASE ClaimDecision(r) = "execute" /\ RecordClaim(r)
    <3>1. stored[c] = NoReceipt
      BY <2>1, ExecuteHasNoReceipt DEF SafeInv
    <3>2. NoReceipt.status = "none"
      BY DEF NoReceipt
    <3> QED BY <2>0, <2>1, <3>1, <3>2 DEF RecordClaim, TypedInv, TypeOK
  <2>2. CASE pc[r] \in PreDo
    <3>1. /\ claimant[c] = r /\ c \notin aged
          /\ stored[c].status \in {"none", "pending"} /\ r # NoRun
      BY <2>2 DEF EffectInv, FreshInv
    <3>2. claimant'[c] = r
      <4>1. ASSUME NEW q \in Runs, ClaimDecision(q) = "execute", RecordClaim(q)
            PROVE  claimant'[c] = r
        <5>1. CommandOf[q] # c
          BY <3>1, <4>1 DEF ClaimDecision, Abandoned
        <5> QED BY <2>0, <3>1, <4>1, <5>1 DEF RecordClaim, TypedInv, TypeOK
      <4> QED BY <3>1, <4>1 DEF StepShape, StoreStep, RecordCommit
    <3>3. c \notin aged'
      BY <2>2, <3>1 DEF EffectShape, AgedStep
    <3>4. stored'[c].status \in {"none", "pending"}
      <4>1. ASSUME NEW p \in Procs, cur[p] # NoReceipt, cur[p].run = r,
                   stored'[c] = MarkReconciled(cur[p]) \/ stored'[c] = cur[p]
            PROVE  stored'[c].status = "pending"
        <5>1. Entry(cur[p]) /\ r \notin dispatched
          BY <2>2, <4>1 DEF RouteInv, EntryTruth, PathInv
        <5>2. cur[p].status = "pending"
          BY <4>1, <5>1 DEF Entry
        <5> QED BY <4>1, <5>2 DEF MarkReconciled
      <4> QED BY <2>2, <3>1, <4>1 DEF EffectShape, CloseStep
    <3> QED BY <3>2, <3>3, <3>4
  <2> QED BY <2>1, <2>2 DEF TruthShape, PathStep
<1>2. HeldInv'
  <2> SUFFICES ASSUME NEW r \in Runs, Consequential(r),
                      pc'[r] \in Window \/ r \in dispatched'
               PROVE  actClaimant'[EffectOf[r]] = r
    BY DEF HeldInv, Window, Consequential
  <2> DEFINE e == EffectOf[r]
  <2>1. CASE pc[r] \in Window \/ r \in dispatched
    <3>1. actClaimant[e] = r /\ e \in Effects /\ r # NoRun
      BY <2>1 DEF EffectInv, HeldInv, Window
    <3>2. ASSUME NEW q \in Runs, ActuationDecision(e) = "proceed",
                 actClaimant'[e] = q
          PROVE  actClaimant'[e] = r
      <4>1. ~Reclaimable(CommandOf[r])
        BY <2>1, HeldIsFirm
      <4> QED BY <3>1, <3>2, <4>1 DEF ActuationDecision, LeaseDecision
    <3>3. ASSUME NEW q \in Runs, pc[q] = "release", Consequential(q), EffectOf[q] = e,
                 pc'[q] \in {"done", "close"}, dispatched' = dispatched
          PROVE  FALSE
      <4>1. q = r
        BY <3>1, <3>3 DEF EffectInv, HeldInv
      <4>2. r \notin dispatched
        BY <3>3, <4>1 DEF RouteInv, PathInv, PreDo
      <4> QED BY <3>3, <4>1, <4>2 DEF Window
    <3> QED BY <3>1, <3>2, <3>3 DEF EffectShape, HoldStep
  <2>2. CASE pc[r] \notin Window /\ r \notin dispatched
    BY <2>2 DEF EffectShape, EnterStep, StepShape, ControlStep, Window
  <2> QED BY <2>1, <2>2
<1> QED BY <1>1, <1>2 DEF EffectInv

\* No effect identity crosses DO twice, also under distinct command ids and
\* whatever the interleaving of lease reclaims, drains, crashes, node restarts
\* and failing calls: the effect index of a durable store hands an entry on
\* only when its holder did not and will not cross DO.  It rests on live
\* executors clearing the pre-DO path within the claim lease (Prompt).
THEOREM EffectAtMostOnce ==
  ASSUME ~Volatile, Prompt PROVE Spec => []AtMostOncePerEffect
<1> DEFINE Inv == TypedInv /\ SafeInv /\ RouteInv /\ EffectInv
<1>1. Init => Inv
  <2>1. Init => EffectInv
    BY DEF Init, EffectInv, FreshInv, HeldInv, PreDo
  <2> QED BY <2>1, TypedInit, SafeInit, OwnInit DEF OwnInv
<1>2. Inv /\ [Next]_vars => Inv'
  <2> SUFFICES ASSUME Inv, [Next]_vars PROVE Inv'
    OBVIOUS
  <2>1. TypedInv' /\ TruthShape /\ EffectShape
    BY TypedStep, TruthSteps, EffectSteps
  <2>2. StepShape
    BY Shape DEF SafeInv
  <2>3. SafeInv' /\ RouteInv'
    BY <2>1, <2>2, SafeStep, RouteStep
  <2> QED BY <2>1, <2>2, <2>3, EffectStep
<1>3. Inv => AtMostOncePerEffect
  BY DEF TypedInv, TypeOK, EffectInv, HeldInv, AtMostOncePerEffect
<1> QED BY <1>1, <1>2, <1>3, PTL DEF Spec
=============================================================================
