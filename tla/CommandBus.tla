----------------------------- MODULE CommandBus -----------------------------
(***************************************************************************)
(* The receipted route from an admitted command to DO: AshA2A.CommandBus,  *)
(* the in-process receipt store AshA2A.ReceiptStore.Memory it claims from, *)
(* the two claim leases, and the file journal AshA2A.ReceiptOutbox with    *)
(* its drain.                                                              *)
(*                                                                         *)
(* A run is one invocation of CommandBus.run/4 in one process.  A run      *)
(* claims at most once, and mints at most one receipt that is ever         *)
(* persisted, so its name stands for its execution id and for its receipt  *)
(* id.  The fingerprint of a stored claim and the command recorded in an   *)
(* actuation entry are those of the run that wrote them.                   *)
(***************************************************************************)
EXTENDS Naturals

CONSTANTS
  Runs,            \* invocations of CommandBus.run/4
  Reconcilers,     \* standing ReceiptOutbox.Reconciler processes
  Commands,        \* command ids
  Fingerprints,    \* command content hashes
  Effects,         \* Actuation effect identities
  CommandOf,       \* the command a run submits
  FingerprintOf,   \* the fingerprint of that command
  EffectOf,        \* the effect identity derived from it
  Observing,       \* fingerprints of commands whose skill is an :observe
  GateCodes,       \* refusal codes the configured pre-DO gates can give
  Prompt,          \* live executors clear the pre-DO path within the lease
  Volatile,        \* the store is a process's memory (Memory), or not (Ekv)
  MaxFaults,       \* bound: failing store calls and journal writes
  MaxRestarts,     \* bound: restarts of the node, or of a volatile store alone
  NoRun            \* not a run

ASSUME RunAssumption ==
  /\ NoRun \notin Runs \cup Reconcilers
  /\ Runs \cap Reconcilers = {}
  /\ CommandOf \in [Runs -> Commands]
  /\ FingerprintOf \in [Runs -> Fingerprints]
  /\ EffectOf \in [Runs -> Effects]

ASSUME BoundAssumption ==
  /\ Prompt \in BOOLEAN
  /\ Volatile \in BOOLEAN
  /\ MaxFaults \in Nat
  /\ MaxRestarts \in Nat

Procs == Runs \cup Reconcilers

(***************************************************************************)
(* Receipts.  Only two fields steer control: status (:pending or not) and  *)
(* the terminal status.                                                    *)
(***************************************************************************)
Statuses  == {"pending", "completed", "failed"}
Terminals == {"none", "executed", "failed", "refused", "unknown_outcome",
              "reconciled"}
Receipt   == [run : Runs, status : Statuses, terminal : Terminals]
NoReceipt == [run |-> NoRun, status |-> "none", terminal |-> "none"]

\* Mutant: a code missing from the list.
ForgetKillSwitch ==
  {"receipt_anchor_unavailable", "authority_required", "authority_mismatch",
   "consequence_unclassified", "capability_release_refused",
   "capability_not_found", "action_not_found", "command_conflict",
   "actuation_conflict", "actuation_in_flight", "actuation_store_unavailable"}

\* The codes Receipt.terminal_status/1 maps to :refused.
PreDoRefusalCodes ==
  {"receipt_anchor_unavailable", "kill_switch_tripped", "authority_required",
   "authority_mismatch", "consequence_unclassified",
   "capability_release_refused", "capability_not_found", "action_not_found",
   "command_conflict", "actuation_conflict", "actuation_in_flight",
   "actuation_store_unavailable"}

Pending(r) == [run |-> r, status |-> "pending", terminal |-> "none"]

\* Receipt.finalize/2 of an observed dispatcher reply.
Finalized(r, reply) ==
  [run |-> r,
   status   |-> IF reply = "reply" THEN "completed" ELSE "failed",
   terminal |-> IF reply = "reply" THEN "executed" ELSE "failed"]

\* Receipt.finalize/2 of {:error, %{code: code}} raised before DO.
Refusal(r, code) ==
  [run |-> r, status |-> "failed",
   terminal |-> IF code \in PreDoRefusalCodes THEN "refused" ELSE "failed"]

\* Receipt.mark_unknown_outcome/2 keeps the status of the anchor.
UnknownOutcome(r) ==
  [run |-> r, status |-> "pending", terminal |-> "unknown_outcome"]

\* The dedup receipt of close_claim_as_duplicate/7.
Deduplicated(r, prior) ==
  [run |-> r, status |-> prior.status, terminal |-> prior.terminal]

\* ReceiptOutbox.mark_reconciled/1: a pending anchor infers no outcome.
MarkReconciled(x) ==
  IF x.status = "pending" THEN x ELSE [x EXCEPT !.terminal = "reconciled"]

-----------------------------------------------------------------------------
VARIABLES
  pc,          \* where each run stands
  draft,       \* the receipt a run holds in its hands
  answer,      \* what run/4 returned
  dispatched,  \* runs that handed their command to the dispatcher (DO)
  claimant,    \* store: execution holding each command id's claim
  stored,      \* store: receipt committed under each command id
  aged,        \* store: claims older than the lease
  actClaimant, \* store: run holding each effect's actuation entry
  actReceipt,  \* store: receipt committed under each effect
  outbox,      \* the journal directory: a set of receipts, one per run
  dpc,         \* where each process's drain of the journal stands
  todo,        \* journal entries it listed and has still to visit
  cur,         \* the entry it decoded
  temps,       \* runs whose temporary journal file was left behind
  faults, restarts,
  forgotten,   \* commands whose committed receipt died with a volatile store
  outlived     \* runs under way when a volatile store restarted alone

storeVars == <<claimant, stored, aged, actClaimant, actReceipt>>
runVars   == <<pc, draft, answer, dispatched>>
drainVars == <<dpc, todo, cur>>
envVars   == <<temps, faults, restarts, forgotten, outlived>>
vars == <<runVars, storeVars, outbox, drainVars, envVars>>

PreClaim  == {"idle", "drain", "admit", "claim"}
\* Between the claim and DO, the refusal exits included.
PreDo     == {"claim_actuation", "prepare", "confirm", "pre_do", "unlink",
              "release", "close"}
PostDo    == {"executing", "timed_out", "commit_actuation", "commit",
              "outbox", "cleanup"}
Pcs       == PreClaim \cup PreDo \cup PostDo \cup {"done", "dead"}
DrainPcs  == {"off", "next", "fetch", "commit", "reclaim", "recommit",
              "remove"}
Answers   == {"none", "refused", "replay", "duplicate", "ok", "outboxed",
              "unknown_outcome"}

\* Store entries, journal files and control points hold values the code can
\* produce: receipts carry only statuses receipt.ex defines.
TypeOK ==
  /\ pc \in [Runs -> Pcs]
  /\ draft \in [Runs -> Receipt \cup {NoReceipt}]
  /\ answer \in [Runs -> Answers]
  /\ dispatched \subseteq Runs
  /\ claimant \in [Commands -> Runs \cup {NoRun}]
  /\ stored \in [Commands -> Receipt \cup {NoReceipt}]
  /\ aged \subseteq Commands
  /\ actClaimant \in [Effects -> Runs \cup {NoRun}]
  /\ actReceipt \in [Effects -> Receipt \cup {NoReceipt}]
  /\ outbox \subseteq Receipt
  /\ dpc \in [Procs -> DrainPcs]
  /\ todo \in [Procs -> SUBSET Runs]
  /\ cur \in [Procs -> Receipt \cup {NoReceipt}]
  /\ temps \subseteq Runs
  /\ faults \in 0..MaxFaults
  /\ restarts \in 0..MaxRestarts
  /\ forgotten \subseteq Commands
  /\ outlived \subseteq Runs

Init ==
  /\ pc = [r \in Runs |-> "idle"]
  /\ draft = [r \in Runs |-> NoReceipt]
  /\ answer = [r \in Runs |-> "none"]
  /\ dispatched = {}
  /\ claimant = [c \in Commands |-> NoRun]
  /\ stored = [c \in Commands |-> NoReceipt]
  /\ aged = {}
  /\ actClaimant = [e \in Effects |-> NoRun]
  /\ actReceipt = [e \in Effects |-> NoReceipt]
  /\ outbox = {}
  /\ dpc = [p \in Procs |-> "off"]
  /\ todo = [p \in Procs |-> {}]
  /\ cur = [p \in Procs |-> NoReceipt]
  /\ temps = {}
  /\ faults = 0 /\ restarts = 0
  /\ forgotten = {} /\ outlived = {}

-----------------------------------------------------------------------------
(* Journal.  append/1 replaces the entry of the same receipt id (a rename) *)

Journal(x)        == {y \in outbox : y.run # x.run} \cup {x}
Unjournal(r)      == {y \in outbox : y.run # r}
Anchored(r)       == \E y \in outbox : y.run = r
\* anchored_command?/1 matches file names: a temporary file counts.
AnchoredCommand(c) ==
  \/ \E y \in outbox : CommandOf[y.run] = c
  \/ \E r \in temps : CommandOf[r] = c

\* Mutant: the drain passes over pending anchors.
FinalEntryNames == {y.run : y \in {z \in outbox : z.status # "pending"}}

\* entry_names/0.
EntryNames == {y.run : y \in outbox}

\* A store call or a journal write fails; the number of failures is bounded.
Fault ==
  /\ faults < MaxFaults
  /\ faults' = faults + 1
  /\ UNCHANGED <<temps, restarts, forgotten, outlived>>
NoFault == UNCHANGED envVars

Goto(r, where) == pc' = [pc EXCEPT ![r] = where]
Answer(r, what) ==
  /\ pc' = [pc EXCEPT ![r] = "done"]
  /\ answer' = [answer EXCEPT ![r] = what]

-----------------------------------------------------------------------------
(* The store's handlers, each one message of its mailbox.                  *)

\* Mutants: the anchor test dropped; no lease at all.
AbandonedByLease(c) == c \in aged
NeverAbandoned(c) == FALSE

\* ClaimLease.abandoned?/3: lease elapsed and no journal entry.
Abandoned(c) == c \in aged /\ ~AnchoredCommand(c)

\* handle_call({:claim, ...}) for a run's command.
ClaimDecision(r) ==
  LET c == CommandOf[r] IN
  IF claimant[c] = NoRun THEN "execute"
  ELSE IF FingerprintOf[claimant[c]] # FingerprintOf[r] THEN "command_conflict"
  ELSE IF stored[c] # NoReceipt THEN "replay"
  ELSE IF Abandoned(c) THEN "execute"
  ELSE "in_flight"

RecordClaim(r) ==
  /\ claimant' = [claimant EXCEPT ![CommandOf[r]] = r]
  /\ aged' = aged \ {CommandOf[r]}
  /\ UNCHANGED <<stored, actClaimant, actReceipt>>

\* Mutant: the execution id is not compared.
CommitByFingerprint(x) ==
  LET c == CommandOf[x.run] IN
  IF claimant[c] = NoRun THEN "unclaimed_command"
  ELSE IF FingerprintOf[claimant[c]] # FingerprintOf[x.run] THEN "unclaimed_command"
  ELSE "ok"

\* handle_call({:commit, ...}): fenced on the execution id of the claim.
CommitDecision(x) ==
  LET c == CommandOf[x.run] IN
  IF claimant[c] = NoRun THEN "unclaimed_command"
  ELSE IF FingerprintOf[claimant[c]] # FingerprintOf[x.run] THEN "unclaimed_command"
  ELSE IF claimant[c] # x.run THEN "stale_execution"
  ELSE "ok"

RecordCommit(x) ==
  /\ stored' = [stored EXCEPT ![CommandOf[x.run]] = x]
  /\ UNCHANGED <<claimant, aged, actClaimant, actReceipt>>

\* A commit as its caller sees it: the store's decision, or an error that may
\* hide a commit that was recorded.  The retries of commit_with_retries/4 are
\* one step: only the failure of every attempt is a failure.
Commit(x, ok, failed) ==
  \/ /\ CommitDecision(x) = "ok"
     /\ RecordCommit(x)
     /\ NoFault /\ ok
  \/ /\ CommitDecision(x) # "ok"
     /\ UNCHANGED storeVars
     /\ NoFault /\ failed
  \/ /\ Fault
     /\ \/ UNCHANGED storeVars
        \/ CommitDecision(x) = "ok" /\ RecordCommit(x)
     /\ failed

\* DO never ran under the claim: a pre-DO refusal, or an abandoned claim.
Reclaimable(c) ==
  \/ stored[c].status = "failed" /\ stored[c].terminal = "refused"
  \/ claimant[c] # NoRun /\ stored[c] = NoReceipt /\ Abandoned(c)

\* The claim's outcome is recorded.
Completed(c) ==
  stored[c].status \in {"completed", "failed"} /\ stored[c].terminal # "refused"

\* Mutant: finding R1, a lost actuation commit re-opens the effect.
DecideWithoutDuplicate(c) ==
  IF Reclaimable(c) \/ Completed(c) THEN "reclaim" ELSE "in_flight"

\* ActuationClaimLease.decide/3 on the primary claim of the entry's claimant.
LeaseDecision(c) ==
  IF Reclaimable(c) THEN "reclaim"
  ELSE IF Completed(c) THEN "duplicate"
  ELSE "in_flight"

\* handle_call({:claim_actuation, ...}).
ActuationDecision(e) ==
  IF actClaimant[e] = NoRun THEN "proceed"
  ELSE IF actReceipt[e] # NoReceipt THEN "duplicate"
  ELSE IF LeaseDecision(CommandOf[actClaimant[e]]) = "reclaim" THEN "proceed"
  ELSE LeaseDecision(CommandOf[actClaimant[e]])

\* The receipt a {:duplicate, receipt} answer carries.
PriorReceipt(e) ==
  IF actReceipt[e] # NoReceipt THEN actReceipt[e]
  ELSE stored[CommandOf[actClaimant[e]]]

-----------------------------------------------------------------------------
(* run/4, from the submission to the claim.                                *)

\* maybe_reconcile_outbox/2: a non-empty journal is drained first.
Submit(r) ==
  /\ pc[r] = "idle"
  /\ IF EntryNames = {}
       THEN Goto(r, "admit") /\ UNCHANGED drainVars
       ELSE /\ Goto(r, "drain")
            /\ dpc' = [dpc EXCEPT ![r] = "next"]
            /\ todo' = [todo EXCEPT ![r] = EntryNames]
            /\ UNCHANGED cur
  /\ UNCHANGED <<draft, answer, dispatched, storeVars, outbox, envVars>>

\* The work order, target, release closure, preflight, authority, kill
\* switch and lease checks before the claim: none of them writes.
Admit(r) ==
  /\ pc[r] = "admit"
  /\ \/ Goto(r, "claim") /\ UNCHANGED answer
     \/ Answer(r, "refused")
  /\ UNCHANGED <<draft, dispatched, storeVars, outbox, drainVars, envVars>>

\* claim_receipt/3.  A claim whose reply is lost may have been recorded.
ClaimReceipt(r) ==
  /\ pc[r] = "claim"
  /\ \/ /\ ClaimDecision(r) = "execute"
        /\ RecordClaim(r) /\ NoFault
        /\ Goto(r, "claim_actuation") /\ UNCHANGED answer
     \/ /\ ClaimDecision(r) = "replay"
        /\ UNCHANGED storeVars /\ NoFault
        /\ Answer(r, "replay")
     \/ /\ ClaimDecision(r) \in {"in_flight", "command_conflict"}
        /\ UNCHANGED storeVars /\ NoFault
        /\ Answer(r, "refused")
     \/ /\ Fault
        /\ \/ UNCHANGED storeVars
           \/ ClaimDecision(r) = "execute" /\ RecordClaim(r)
        /\ Answer(r, "refused")
  /\ UNCHANGED <<draft, dispatched, outbox, drainVars>>

-----------------------------------------------------------------------------
(* execute_claimed/9 and dispatch_actuation_claimed/11: up to DO.          *)

Consequential(r) == FingerprintOf[r] \notin Observing

RecordActuation(r) ==
  /\ actClaimant' = [actClaimant EXCEPT ![EffectOf[r]] = r]
  /\ UNCHANGED <<claimant, stored, aged, actReceipt>>

\* The entry is healed with the receipt a duplicate was answered from.
HealActuation(e) ==
  /\ actReceipt' = [actReceipt EXCEPT ![e] = PriorReceipt(e)]
  /\ UNCHANGED <<claimant, stored, aged, actClaimant>>

RefuseClaimed(r, code) ==
  /\ draft' = [draft EXCEPT ![r] = Refusal(r, code)]
  /\ answer' = [answer EXCEPT ![r] = "refused"]

\* claim_actuation/6; :observe commands skip the effect index.
ClaimActuation(r) ==
  /\ pc[r] = "claim_actuation"
  /\ \/ /\ ~Consequential(r)
        /\ Goto(r, "prepare")
        /\ UNCHANGED <<storeVars, draft, answer>> /\ NoFault
     \/ /\ Consequential(r) /\ ActuationDecision(EffectOf[r]) = "proceed"
        /\ RecordActuation(r) /\ NoFault
        /\ Goto(r, "prepare") /\ UNCHANGED <<draft, answer>>
     \/ /\ Consequential(r) /\ ActuationDecision(EffectOf[r]) = "duplicate"
        /\ HealActuation(EffectOf[r]) /\ NoFault
        /\ draft' = [draft EXCEPT ![r] = Deduplicated(r, PriorReceipt(EffectOf[r]))]
        /\ answer' = [answer EXCEPT ![r] = "duplicate"]
        /\ Goto(r, "close")
     \/ /\ Consequential(r) /\ ActuationDecision(EffectOf[r]) = "in_flight"
        /\ UNCHANGED storeVars /\ NoFault
        /\ RefuseClaimed(r, "actuation_in_flight")
        /\ Goto(r, "close")
     \/ /\ Consequential(r) /\ Fault
        /\ \/ UNCHANGED storeVars
           \/ ActuationDecision(EffectOf[r]) = "proceed" /\ RecordActuation(r)
        /\ RefuseClaimed(r, "actuation_store_unavailable")
        /\ Goto(r, "close")
  /\ UNCHANGED <<dispatched, outbox, drainVars>>

\* Mutant: an anchor that cannot be written does not stop the run.
PrepareBestEffort(r) ==
  /\ pc[r] = "prepare"
  /\ \/ /\ ~Consequential(r)
        /\ Goto(r, "pre_do")
        /\ UNCHANGED outbox /\ NoFault
     \/ /\ Consequential(r)
        /\ outbox' = Journal(Pending(r)) /\ NoFault
        /\ Goto(r, "confirm")
     \/ /\ Consequential(r) /\ Fault
        /\ UNCHANGED outbox
        /\ Goto(r, "confirm")
  /\ UNCHANGED <<draft, answer, dispatched, storeVars, drainVars>>

\* prepare_receipt_anchor/4: the pending receipt is journaled before DO.
PrepareAnchor(r) ==
  /\ pc[r] = "prepare"
  /\ \/ /\ ~Consequential(r)
        /\ Goto(r, "pre_do")
        /\ UNCHANGED <<outbox, draft, answer>> /\ NoFault
     \/ /\ Consequential(r)
        /\ outbox' = Journal(Pending(r)) /\ NoFault
        /\ Goto(r, "confirm") /\ UNCHANGED <<draft, answer>>
     \/ /\ Consequential(r) /\ Fault
        /\ UNCHANGED outbox
        /\ RefuseClaimed(r, "receipt_anchor_unavailable")
        /\ Goto(r, "release")
  /\ UNCHANGED <<dispatched, storeVars, drainVars>>

\* Mutant: no fencing check before DO.
Unfenced(r) == TRUE

\* handle_call({:confirm_claim, ...}).
HoldsClaim(r) == claimant[CommandOf[r]] = r

\* confirm_execution/5: does this execution still hold the command claim?
ConfirmExecution(r) ==
  /\ pc[r] = "confirm"
  /\ \/ /\ HoldsClaim(r) /\ NoFault
        /\ Goto(r, "pre_do") /\ UNCHANGED answer
     \/ /\ ~HoldsClaim(r) /\ NoFault
        /\ Goto(r, "unlink") /\ answer' = [answer EXCEPT ![r] = "refused"]
     \/ /\ Fault
        /\ Goto(r, "unlink") /\ answer' = [answer EXCEPT ![r] = "refused"]
  /\ UNCHANGED <<draft, dispatched, storeVars, outbox, drainVars>>

\* The codes pre_do_gate/3 can give a run: no authority is revalidated for
\* an :observe command.
GateCodesOf(r) ==
  IF Consequential(r) THEN GateCodes
  ELSE GateCodes \cap {"capability_release_refused", "kill_switch_tripped",
                       "kill_switch_unavailable"}

\* pre_do_gate/3, then DO is handed to the dispatcher child.
PreDoGate(r) ==
  /\ pc[r] = "pre_do"
  /\ \/ /\ Goto(r, "executing")
        /\ dispatched' = dispatched \cup {r}
        /\ UNCHANGED <<draft, answer>>
     \/ /\ \E code \in GateCodesOf(r) : RefuseClaimed(r, code)
        /\ Goto(r, IF Consequential(r) THEN "unlink" ELSE "release")
        /\ UNCHANGED dispatched
  /\ UNCHANGED <<storeVars, outbox, drainVars, envVars>>

\* ReceiptOutbox.remove/1 ignores a failure to delete the entry.
RemoveEntry(r) ==
  \/ outbox' = Unjournal(r) /\ NoFault
  \/ Fault /\ UNCHANGED outbox

UnlinkAnchor(r) ==
  /\ pc[r] = "unlink"
  /\ RemoveEntry(r)
  /\ Goto(r, "release")
  /\ UNCHANGED <<draft, answer, dispatched, storeVars, drainVars>>

\* release_actuation/5 ignores a failure.  The store drops the entry of the
\* effect when it carries no receipt, whoever holds it.
ReleaseActuation(r) ==
  /\ pc[r] = "release"
  /\ \/ /\ Consequential(r) /\ actReceipt[EffectOf[r]] = NoReceipt
        /\ actClaimant' = [actClaimant EXCEPT ![EffectOf[r]] = NoRun]
        /\ UNCHANGED <<claimant, stored, aged, actReceipt>> /\ NoFault
     \/ /\ ~Consequential(r) \/ actReceipt[EffectOf[r]] # NoReceipt
        /\ UNCHANGED storeVars /\ NoFault
     \/ Consequential(r) /\ Fault /\ UNCHANGED storeVars
  /\ Goto(r, IF draft[r] = NoReceipt THEN "done" ELSE "close")
  /\ UNCHANGED <<draft, answer, dispatched, outbox, drainVars>>

\* The commit of a refusal or dedup receipt; its failure is not reported.
CloseClaim(r) ==
  /\ pc[r] = "close"
  /\ Commit(draft[r], TRUE, TRUE)
  /\ Goto(r, "done")
  /\ UNCHANGED <<draft, answer, dispatched, outbox, drainVars>>

-----------------------------------------------------------------------------
(* execute_anchored/12: DO and after.                                      *)

\* The dispatcher replied (or raised, which guarded_dispatch/5 turns into an
\* error reply).
Reply(r) ==
  /\ pc[r] = "executing"
  /\ \E reply \in {"reply", "error"} :
       draft' = [draft EXCEPT ![r] = Finalized(r, reply)]
  /\ Goto(r, IF Consequential(r) THEN "commit_actuation" ELSE "commit")
  /\ UNCHANGED <<answer, dispatched, storeVars, outbox, drainVars, envVars>>

\* bounded_dispatch/6: the deadline passed and the child was killed, or it
\* died without replying.  Without an anchor this is an error reply.
Timeout(r) ==
  /\ pc[r] = "executing"
  /\ IF Consequential(r)
       THEN /\ draft' = [draft EXCEPT ![r] = UnknownOutcome(r)]
            /\ Goto(r, "timed_out")
       ELSE /\ draft' = [draft EXCEPT ![r] = Finalized(r, "error")]
            /\ Goto(r, "commit")
  /\ UNCHANGED <<answer, dispatched, storeVars, outbox, drainVars, envVars>>

\* close_timed_out/5: the anchor stays, the actuation entry stays in flight.
CloseTimedOut(r) ==
  /\ pc[r] = "timed_out"
  /\ Commit(draft[r], TRUE, TRUE)
  /\ Answer(r, "unknown_outcome")
  /\ UNCHANGED <<draft, dispatched, outbox, drainVars>>

\* commit_actuation/6, its retries as one step.
CommitActuation(r) ==
  /\ pc[r] = "commit_actuation"
  /\ \/ /\ actClaimant[EffectOf[r]] # NoRun
        /\ actReceipt' = [actReceipt EXCEPT ![EffectOf[r]] = draft[r]]
        /\ UNCHANGED <<claimant, stored, aged, actClaimant>> /\ NoFault
     \/ /\ actClaimant[EffectOf[r]] = NoRun
        /\ UNCHANGED storeVars /\ NoFault
     \/ Fault /\ UNCHANGED storeVars
  /\ Goto(r, "commit")
  /\ UNCHANGED <<draft, answer, dispatched, outbox, drainVars>>

\* Mutant: the commit's result is not looked at.
CommitUnchecked(r) ==
  /\ pc[r] = "commit"
  /\ Commit(draft[r], Goto(r, "cleanup"), Goto(r, "cleanup"))
  /\ UNCHANGED <<draft, answer, dispatched, outbox, drainVars>>

\* commit_receipt/3.
CommitReceipt(r) ==
  /\ pc[r] = "commit"
  /\ Commit(draft[r], Goto(r, "cleanup"), Goto(r, "outbox"))
  /\ UNCHANGED <<draft, answer, dispatched, outbox, drainVars>>

CleanupAnchor(r) ==
  /\ pc[r] = "cleanup"
  /\ RemoveEntry(r)
  /\ Answer(r, "ok")
  /\ UNCHANGED <<draft, dispatched, storeVars, drainVars>>

\* outbox_after_consequence/2: the final receipt replaces the anchor; when
\* the write fails the anchor remains.
OutboxFinal(r) ==
  /\ pc[r] = "outbox"
  /\ \/ outbox' = Journal(draft[r]) /\ NoFault
     \/ Fault /\ UNCHANGED outbox
  /\ Answer(r, "outboxed")
  /\ UNCHANGED <<draft, dispatched, storeVars, drainVars>>

-----------------------------------------------------------------------------
(* ReceiptOutbox.reconcile/2, inline in a run or in a standing reconciler. *)

DrainGoto(p, where) == dpc' = [dpc EXCEPT ![p] = where] /\ UNCHANGED cur

\* The drain goes on with entry x.
DrainHold(p, x, where) ==
  /\ dpc' = [dpc EXCEPT ![p] = where]
  /\ cur' = [cur EXCEPT ![p] = x]

\* The entry is done with: drained, or kept for a later drain.
DrainLeave(p) == DrainHold(p, NoReceipt, "next")

\* ReceiptOutbox.Reconciler.run_tick/1.
Tick(p) ==
  /\ dpc[p] = "off" /\ EntryNames # {}
  /\ DrainGoto(p, "next")
  /\ todo' = [todo EXCEPT ![p] = EntryNames]
  /\ UNCHANGED <<runVars, storeVars, outbox, envVars>>

\* decode_entry/1; an entry removed meanwhile is skipped.
DrainNext(p) ==
  /\ dpc[p] = "next"
  /\ \E k \in todo[p] :
       /\ todo' = [todo EXCEPT ![p] = @ \ {k}]
       /\ \/ \E y \in outbox : y.run = k /\ DrainHold(p, y, "fetch")
          \/ ~Anchored(k) /\ UNCHANGED <<cur, dpc>>
  /\ UNCHANGED <<runVars, storeVars, outbox, envVars>>

DrainEnd(p) ==
  /\ dpc[p] = "next" /\ todo[p] = {}
  /\ DrainGoto(p, "off")
  /\ IF p \in Runs THEN Goto(p, "admit") ELSE UNCHANGED pc
  /\ UNCHANGED <<draft, answer, dispatched, storeVars, outbox, todo, envVars>>

\* supersedes?/2: a final entry over its own pending anchor.
Supersedes(x, s) == s.run = x.run /\ s.status = "pending" /\ x.status # "pending"

\* reconcile_entry/3; a fetch that fails counts as not present.
DrainFetch(p) ==
  /\ dpc[p] = "fetch"
  /\ LET s == stored[CommandOf[cur[p].run]] IN
     \/ /\ s # NoReceipt /\ ~Supersedes(cur[p], s) /\ NoFault
        /\ DrainGoto(p, "remove")
     \/ /\ s = NoReceipt \/ Supersedes(cur[p], s)
        /\ NoFault /\ DrainGoto(p, "commit")
     \/ Fault /\ DrainGoto(p, "commit")
  /\ UNCHANGED <<runVars, storeVars, outbox, todo>>

\* commit_or_reclaim/3 on the entry marked reconciled.  Only a definite
\* :unclaimed_command leads to a re-claim; :stale_execution and an
\* unavailable store keep the entry.
DrainCommitting(p, x) ==
  \/ /\ CommitDecision(x) = "unclaimed_command"
     /\ UNCHANGED storeVars /\ NoFault
     /\ DrainHold(p, x, "reclaim")
  \/ /\ CommitDecision(x) = "unclaimed_command"
     /\ UNCHANGED storeVars /\ Fault
     /\ DrainLeave(p)
  \/ /\ CommitDecision(x) # "unclaimed_command"
     /\ Commit(x, DrainHold(p, x, "remove"), DrainLeave(p))

DrainCommit(p) ==
  /\ dpc[p] = "commit"
  /\ DrainCommitting(p, MarkReconciled(cur[p]))
  /\ UNCHANGED <<runVars, outbox, todo>>

\* re_claim_and_commit/3: the lost claim is made again under the receipt's
\* own execution id.
DrainReclaim(p) ==
  /\ dpc[p] = "reclaim"
  /\ \/ /\ ClaimDecision(cur[p].run) = "execute"
        /\ RecordClaim(cur[p].run) /\ NoFault
        /\ DrainGoto(p, "recommit")
     \/ /\ ClaimDecision(cur[p].run) = "replay"
        /\ UNCHANGED storeVars /\ NoFault
        /\ DrainGoto(p, "remove")
     \/ /\ ClaimDecision(cur[p].run) \in {"in_flight", "command_conflict"}
        /\ UNCHANGED storeVars /\ NoFault
        /\ DrainLeave(p)
     \/ /\ Fault
        /\ \/ UNCHANGED storeVars
           \/ ClaimDecision(cur[p].run) = "execute" /\ RecordClaim(cur[p].run)
        /\ DrainLeave(p)
  /\ UNCHANGED <<runVars, outbox, todo>>

DrainRecommit(p) ==
  /\ dpc[p] = "recommit"
  /\ Commit(cur[p], DrainGoto(p, "remove"), DrainLeave(p))
  /\ UNCHANGED <<runVars, outbox, todo>>

\* remove_and/2 deletes by file name: whatever receipt the entry now holds.
DrainRemove(p) ==
  /\ dpc[p] = "remove"
  /\ RemoveEntry(cur[p].run)
  /\ DrainLeave(p)
  /\ UNCHANGED <<runVars, storeVars, todo>>

-----------------------------------------------------------------------------
(* The environment.                                                        *)

\* The lease of an open claim elapses.  Prompt assumes it never does while
\* the claim's executor is alive and has not reached DO.
LeaseElapses(c) ==
  /\ claimant[c] # NoRun /\ stored[c] = NoReceipt /\ c \notin aged
  /\ Prompt => pc[claimant[c]] \notin PreDo
  /\ aged' = aged \cup {c}
  /\ UNCHANGED <<runVars, claimant, stored, actClaimant, actReceipt, outbox,
                 drainVars, envVars>>

\* Inside append/1, whose temporary file outlives its writer until the rename.
Appending(r) ==
  pc[r] = "outbox" \/ (pc[r] = "prepare" /\ Consequential(r))

UnderWay(r) == pc[r] \notin {"idle", "done", "dead"}

\* The process of a run dies, and the linked DO child with it.
Crash(r) ==
  /\ UnderWay(r)
  /\ Goto(r, "dead")
  /\ dpc' = [dpc EXCEPT ![r] = "off"]
  /\ todo' = [todo EXCEPT ![r] = {}]
  /\ cur' = [cur EXCEPT ![r] = NoReceipt]
  /\ temps' \in {temps, IF Appending(r) THEN temps \cup {r} ELSE temps}
  /\ UNCHANGED <<draft, answer, dispatched, storeVars, outbox, faults, restarts,
                 forgotten, outlived>>

\* A volatile store comes back empty (Memory.init/1).
StoreEmpties ==
  /\ claimant' = [c \in Commands |-> NoRun]
  /\ stored' = [c \in Commands |-> NoReceipt]
  /\ aged' = {}
  /\ actClaimant' = [e \in Effects |-> NoRun]
  /\ actReceipt' = [e \in Effects |-> NoReceipt]

\* The node restarts: every process dies, the journal stays, and a volatile
\* store comes back empty.
NodeRestart ==
  /\ restarts < MaxRestarts
  /\ restarts' = restarts + 1
  /\ pc' = [r \in Runs |-> IF pc[r] \in {"idle", "done"} THEN pc[r] ELSE "dead"]
  /\ dpc' = [p \in Procs |-> "off"]
  /\ todo' = [p \in Procs |-> {}]
  /\ cur' = [p \in Procs |-> NoReceipt]
  /\ \E left \in SUBSET {r \in Runs : Appending(r)} : temps' = temps \cup left
  /\ IF Volatile
       THEN /\ StoreEmpties
            /\ forgotten' = forgotten \cup
                 {c \in Commands : stored[c] # NoReceipt /\ ~Anchored(stored[c].run)}
       ELSE UNCHANGED <<storeVars, forgotten>>
  /\ outlived' = {}
  /\ UNCHANGED <<draft, answer, dispatched, outbox, faults>>

\* The supervisor restarts the store process alone (one_for_one): runs and
\* drains go on over an empty store, some of them about to drop an entry on
\* account of a receipt that is gone.
StoreRestart ==
  /\ Volatile /\ restarts < MaxRestarts
  /\ restarts' = restarts + 1
  /\ StoreEmpties
  /\ forgotten' = forgotten \cup {c \in Commands : stored[c] # NoReceipt}
  /\ outlived' = outlived \cup {r \in Runs : UnderWay(r)}
  /\ UNCHANGED <<runVars, outbox, drainVars, temps, faults>>

RunStep(r) ==
  \/ Submit(r) \/ Admit(r) \/ ClaimReceipt(r) \/ ClaimActuation(r)
  \/ PrepareAnchor(r) \/ ConfirmExecution(r) \/ PreDoGate(r)
  \/ UnlinkAnchor(r) \/ ReleaseActuation(r) \/ CloseClaim(r)
  \/ Reply(r) \/ Timeout(r) \/ CloseTimedOut(r)
  \/ CommitActuation(r) \/ CommitReceipt(r) \/ CleanupAnchor(r)
  \/ OutboxFinal(r)

DrainStep(p) ==
  \/ DrainNext(p) \/ DrainEnd(p) \/ DrainFetch(p) \/ DrainCommit(p)
  \/ DrainReclaim(p) \/ DrainRecommit(p) \/ DrainRemove(p)

Next ==
  \/ \E r \in Runs : RunStep(r) \/ Crash(r)
  \/ \E p \in Procs : DrainStep(p)
  \/ \E p \in Reconcilers : Tick(p)
  \/ \E c \in Commands : LeaseElapses(c)
  \/ NodeRestart \/ StoreRestart

Spec == Init /\ [][Next]_vars

\* What the runtime schedules: a submitted run proceeds, the dispatch deadline
\* bounds DO, a drain proceeds, the standing reconciler keeps ticking, and
\* wall-clock time passes.
Fairness ==
  /\ \A r \in Runs : WF_vars(RunStep(r) /\ pc[r] # "idle")
  /\ \A p \in Procs : WF_vars(DrainStep(p))
  /\ \A p \in Reconcilers : WF_vars(Tick(p))
  /\ \A c \in Commands : WF_vars(LeaseElapses(c))

FairSpec == Spec /\ Fairness

-----------------------------------------------------------------------------
(* Safety.                                                                 *)

\* No command id crosses DO twice: whatever the interleaving of twins, lease
\* reclaims, drains, crashes and failing calls, at most one run of a
\* consequential command is handed to the dispatcher, over a store that keeps
\* its claims.
AtMostOncePerCommand ==
  \A q, r \in dispatched :
    /\ CommandOf[q] = CommandOf[r]
    /\ Consequential(q) /\ Consequential(r)
    => q = r

\* Over a volatile store a command id crosses DO again only by a run that was
\* under way when the store restarted alone: any other run finds the entry of
\* the first one through its drain.  A command whose committed receipt died
\* with the store is out of scope.
RepeatNeedsSurvivor ==
  [][\A q \in dispatched, r \in dispatched' \ dispatched :
       /\ CommandOf[q] = CommandOf[r]
       /\ Consequential(q) /\ Consequential(r)
       /\ CommandOf[r] \notin forgotten
       => r \in outlived]_vars

\* The store holds a receipt of r, or the journal does.
Evidenced(r) == stored[CommandOf[r]].run = r \/ Anchored(r)

\* A consequence that may have happened is never without its own receipt:
\* from DO on, the store or the journal holds one for that execution.
EvidenceNeverVanishes ==
  \A r \in dispatched :
    Consequential(r) => Evidenced(r)

\* No effect identity crosses DO twice, also under distinct command ids.
AtMostOncePerEffect ==
  \A q, r \in dispatched :
    /\ EffectOf[q] = EffectOf[r]
    /\ Consequential(q) /\ Consequential(r)
    => q = r

\* Receipts tell the truth about DO: an executed, failed or reconciled
\* receipt names an effect that was dispatched, a refused one an execution
\* that was not (Receipt.terminal_status/1: `failed' asserts DO ran).
ReceiptsTellTruth ==
  \A c \in Commands :
    /\ stored[c].terminal \in {"executed", "failed", "reconciled"} =>
         \E q \in dispatched : EffectOf[q] = EffectOf[stored[c].run]
    /\ stored[c].terminal = "refused" => stored[c].run \notin dispatched

\* Runs that have confirmed their claim and may have crossed DO.
PastConfirm == {r \in Runs : Consequential(r) /\
                  (pc[r] = "pre_do" \/ r \in dispatched)}

\* A lease reclaim never takes the claim from an execution that has been
\* told it may cross DO.
ReclaimOnlyBeforeDo ==
  [][\A c \in Commands :
       claimant[c] \in PastConfirm => claimant'[c] = claimant[c]]_vars

\* A final receipt in the store is never put back to pending.
FinalNeverRegresses ==
  [][\A c \in Commands :
       stored[c].status \in {"completed", "failed"} =>
         stored'[c].status # "pending"]_vars

\* A resubmission that won its command's claim is not refused on account of
\* the effect entry its own command left behind.
NotRefusedBySelf ==
  [][\A r \in Runs :
       pc[r] = "claim_actuation" /\ pc'[r] = "close" /\ answer'[r] = "refused"
         => CommandOf[actClaimant[EffectOf[r]]] # CommandOf[r]]_vars

-----------------------------------------------------------------------------
(* The inductive invariant behind the safety properties, for a store that  *)
(* survives the node.                                                      *)

\* A run commits and journals only a receipt of its own.
DraftInv ==
  \A r \in Runs :
    /\ draft[r] # NoReceipt => draft[r].run = r
    /\ pc[r] \in {"close", "timed_out", "commit_actuation", "commit", "outbox"}
         => draft[r] # NoReceipt

\* A drain works on an entry it has decoded; a run that drains does nothing
\* else.
DrainInv ==
  /\ \A p \in Procs : dpc[p] \notin {"off", "next"} => cur[p] # NoReceipt
  /\ \A r \in Runs : dpc[r] # "off" => pc[r] = "drain"

\* A claim belongs to a run of the command, a receipt to the claim's holder.
FenceInv ==
  \A c \in Commands :
    /\ claimant[c] # NoRun => CommandOf[claimant[c]] = c
    /\ stored[c] # NoReceipt => stored[c].run = claimant[c]

\* An entry is dropped only once the store holds a receipt for its command,
\* or before DO.
RemoveInv ==
  /\ \A p \in Procs :
       dpc[p] = "remove" => stored[CommandOf[cur[p].run]] # NoReceipt
  /\ \A r \in Runs :
       /\ pc[r] = "cleanup" => stored[CommandOf[r]] # NoReceipt
       /\ r \in dispatched => pc[r] \in PostDo \cup {"done", "dead"}

\* From the anchor on, a run is covered by its entry or by a stored receipt.
CoverInv ==
  \A r \in Runs :
    Consequential(r) /\ (pc[r] \in {"confirm", "pre_do"} \/ r \in dispatched)
      => Anchored(r) \/ stored[CommandOf[r]] # NoReceipt

\* A run that confirmed its claim keeps it.
HolderInv == \A r \in PastConfirm : claimant[CommandOf[r]] = r

\* Claims, receipts, journal and control points agree: the inductive invariant
\* of run/4 with the drain over a store that survives the node.
BusInv ==
  /\ TypeOK /\ DraftInv /\ DrainInv
  /\ FenceInv /\ RemoveInv /\ CoverInv /\ HolderInv

-----------------------------------------------------------------------------
(* What the route implements: the claims are the keys, run/4's runs the    *)
(* actors, a confirmed claim is the clearance and DO the crossing.         *)

Crossed == {r \in dispatched : Consequential(r)}
Shown   == {r \in Runs : Evidenced(r)}

Fence == INSTANCE ClaimFence
           WITH Actors <- Runs, Keys <- Commands, KeyOf <- CommandOf,
                NoActor <- NoRun, holder <- claimant,
                evidence <- Shown, cleared <- PastConfirm, crossed <- Crossed

\* run/4 over a store that survives the node is a ClaimFence: no interleaving
\* of claims, reclaims, drains, commits and crashes takes a command or its
\* evidence from a run that was told it may cross DO (confirm_execution/5).
ImplementsFence == Fence!Spec

-----------------------------------------------------------------------------
(* Liveness, under FairSpec.                                               *)

\* The receipt of every consequence reaches the primary store.
EvidenceReachesStore ==
  \A r \in Runs :
    r \in dispatched /\ Consequential(r) ~> stored[CommandOf[r]].run = r

\* An entry the drain keeps for an operator: its execution lost the claim.
Superseded(c) ==
  \E y \in outbox : CommandOf[y.run] = c /\ y.run # claimant[c]

\* A temporary file no drain lists keeps the claim from being reclaimed.
TornAppend(c) == \E r \in temps : CommandOf[r] = c

\* No command id is wedged: again and again it is unclaimed, answered by a
\* receipt, or open to a resubmission.  Two cases are left to an operator: the
\* anchor of a superseded execution, and a process that died inside append/1.
NoCommandWedged ==
  \A c \in Commands :
    []<>(\/ claimant[c] = NoRun
         \/ stored[c] # NoReceipt
         \/ Abandoned(c)
         \/ Superseded(c)
         \/ TornAppend(c))

=============================================================================
