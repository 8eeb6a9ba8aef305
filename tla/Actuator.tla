------------------------------ MODULE Actuator ------------------------------
(***************************************************************************)
(* The actuator node's effect-claim store (Actuator.Store) with the files  *)
(* of its state directory: the write-ahead journal, the effect ledger and  *)
(* the head anchor.  One process serves one call at a time; between two of *)
(* its writes it may die, and a write may fail.                            *)
(*                                                                         *)
(* A request is an effect with its certificate.  A chained line is its     *)
(* event and its sequence number: with one writer and nobody else editing  *)
(* the files, a line's prev and hash break exactly when its number does.   *)
(***************************************************************************)
EXTENDS Naturals, Sequences

CONSTANTS
  Requests,      \* certified effects
  Instances,     \* effect instance ids
  Nonces,        \* (kid, nonce) pairs of certificate signatures
  Digests,       \* effect digests
  InstanceOf,    \* the instance a request's effect names
  NoncesOf,      \* the nonces of its certificate
  DigestOf,      \* the digest of its effect
  Current,       \* requests whose certificate has the instance's generation
  Probes,        \* requests of effect type noop_probe
  MaxFaults,     \* bound: failing writes
  MaxCrashes,    \* bound: deaths of the store process
  NoRequest,     \* not a request
  NoInstance     \* not an instance

ASSUME RequestAssumption ==
  /\ InstanceOf \in [Requests -> Instances]
  /\ NoncesOf \in [Requests -> SUBSET Nonces]
  /\ DigestOf \in [Requests -> Digests]
  /\ Current \subseteq Requests
  /\ Probes \subseteq Requests
  /\ NoRequest \notin Requests
  /\ NoInstance \notin Instances

ASSUME ActuatorBounds == MaxFaults \in Nat /\ MaxCrashes \in Nat

Events == {"executing", "completed", "unknown_outcome", "confirmed_performed",
           "confirmed_not_performed"}
Line   == [t : Events \cup {"garbage"}, req : Requests \cup {NoRequest},
           seq : Nat]
\* What two appends run into one another leave behind.
Garbage == [t |-> "garbage", req |-> NoRequest, seq |-> 0]

States   == {"none", "executing", "completed", "unknown_outcome",
             "reconciled_not_performed"}
Record   == [state : States, req : Requests \cup {NoRequest}]
NoRecord == [state |-> "none", req |-> NoRequest]

VARIABLES
  journal, jtorn,   \* journal.jsonl, and whether it ends in a partial line
  ledger, ltorn,    \* effect_ledger.jsonl likewise
  anchor,           \* anchor.json: the two sequence numbers, or missing
  pc,               \* what the store process is doing
  cur,              \* the request, or the claimant, it is doing it for
  verdict,          \* the resolution an operator gave
  records, owner,   \* memory: instance records and nonce owners
  jseq, lseq,       \* memory: the next sequence numbers
  answer,           \* last reply to each request
  performs,         \* how often each request's effector was called
  faults, crashes

fileVars   == <<journal, jtorn, ledger, ltorn, anchor>>
memoryVars == <<records, owner, jseq, lseq>>
envVars    == <<faults, crashes>>
vars == <<fileVars, pc, cur, verdict, memoryVars, answer, performs, envVars>>

Pcs == {"down", "marking", "idle", "claim", "perform", "complete", "unknown",
        "reconcile"}
Resolutions == {"confirmed_performed", "confirmed_not_performed"}
Answers == {"none", "performed", "replayed", "refused", "unknown_outcome"}
Missing == [j |-> 0, l |-> 0, there |-> FALSE]

\* The store's files, memory and control point hold values the code can produce:
\* in particular a record's state is one of the four of fold/1.
TypeOK ==
  /\ journal \in Seq(Line) /\ jtorn \in BOOLEAN
  /\ ledger \in Seq(Line) /\ ltorn \in BOOLEAN
  /\ anchor \in [j : Nat, l : Nat, there : BOOLEAN]
  /\ pc \in Pcs
  /\ cur \in Requests \cup {NoRequest}
  /\ verdict \in Resolutions \cup {"none"}
  /\ records \in [Instances -> Record]
  /\ owner \in [Nonces -> Instances \cup {NoInstance}]
  /\ jseq \in Nat /\ lseq \in Nat
  /\ answer \in [Requests -> Answers]
  /\ performs \in [Requests -> Nat]
  /\ faults \in 0..MaxFaults
  /\ crashes \in 0..MaxCrashes

Forget ==
  /\ records' = [i \in Instances |-> NoRecord]
  /\ owner' = [n \in Nonces |-> NoInstance]
  /\ jseq' = 0 /\ lseq' = 0

\* An empty state directory and no store process.
Init ==
  /\ journal = <<>> /\ jtorn = FALSE
  /\ ledger = <<>> /\ ltorn = FALSE
  /\ anchor = Missing
  /\ pc = "down" /\ cur = NoRequest /\ verdict = "none"
  /\ records = [i \in Instances |-> NoRecord]
  /\ owner = [n \in Nonces |-> NoInstance]
  /\ jseq = 0 /\ lseq = 0
  /\ answer = [q \in Requests |-> "none"]
  /\ performs = [q \in Requests |-> 0]
  /\ faults = 0 /\ crashes = 0

-----------------------------------------------------------------------------
(* Files.                                                                  *)

\* A whole line written to a file whose last line may be partial.
Written(file, torn, line) == Append(file, IF torn THEN Garbage ELSE line)

JournalLine(event, q) == [t |-> event, req |-> q, seq |-> jseq]
LedgerLine(q)         == [t |-> "completed", req |-> q, seq |-> lseq]

Fault ==
  /\ faults < MaxFaults
  /\ faults' = faults + 1
  /\ UNCHANGED crashes
NoFault == UNCHANGED envVars

\* Anchor.write/2 of the in-memory heads; its failure leaves the old anchor.
Anchored(j, l) == anchor' = [j |-> j, l |-> l, there |-> TRUE]

\* Mutant: the in-memory head does not advance.
HeadStays(event, q) ==
  /\ journal' = Written(journal, jtorn, JournalLine(event, q))
  /\ jtorn' = FALSE
  /\ jseq' = jseq
  /\ \/ Anchored(jseq, lseq) /\ NoFault
     \/ Fault /\ UNCHANGED anchor

\* journal/2 when write and sync succeed; the anchor is best effort.
JournalAppend(event, q) ==
  /\ journal' = Written(journal, jtorn, JournalLine(event, q))
  /\ jtorn' = FALSE
  /\ jseq' = jseq + 1
  /\ \/ Anchored(jseq + 1, lseq) /\ NoFault
     \/ Fault /\ UNCHANGED anchor

\* What a failed or interrupted append leaves: nothing, a partial line, or the
\* whole line.
JournalLeft(event, q) ==
  \/ UNCHANGED <<journal, jtorn>>
  \/ jtorn' = TRUE /\ UNCHANGED journal
  \/ /\ journal' = Written(journal, jtorn, JournalLine(event, q))
     /\ jtorn' = FALSE

LedgerLeft(q) ==
  \/ UNCHANGED <<ledger, ltorn>>
  \/ ltorn' = TRUE /\ UNCHANGED ledger
  \/ /\ ledger' = Written(ledger, ltorn, LedgerLine(q))
     /\ ltorn' = FALSE

JournalFails(event, q) ==
  /\ Fault
  /\ JournalLeft(event, q)
  /\ UNCHANGED <<jseq, anchor>>

-----------------------------------------------------------------------------
(* Boot.                                                                   *)

LineInstance(line) == InstanceOf[line.req]

\* Journal.verify/1 and Ledger.verify/1.
Chained(file) ==
  \A k \in DOMAIN file : file[k].t # "garbage" /\ file[k].seq = k - 1

\* Anchor.check/3: neither file is shorter than its anchored head.
AnchorHolds ==
  /\ ~anchor.there => journal = <<>> /\ ledger = <<>>
  /\ anchor.j <= Len(journal) /\ anchor.l <= Len(ledger)

ClaimsOf(i) ==
  {k \in DOMAIN journal : journal[k].t = "executing" /\ LineInstance(journal[k]) = i}

\* Mutant: a claim without a terminal event is refused too.
CrossCheckedStrict ==
  /\ \A k \in DOMAIN journal :
       journal[k].t # "executing" =>
         \E c \in ClaimsOf(LineInstance(journal[k])) : c < k
  /\ \A k \in DOMAIN journal :
       journal[k].t = "executing" =>
         \E c \in DOMAIN journal :
           c > k /\ LineInstance(journal[c]) = LineInstance(journal[k])

\* Journal.cross_check/2.
CrossChecked ==
  /\ \A k \in DOMAIN journal :
       journal[k].t # "executing" =>
         \E c \in ClaimsOf(LineInstance(journal[k])) : c < k
  /\ \A k \in DOMAIN journal :
       journal[k].t = "completed" /\ journal[k].req \notin Probes =>
         \E e \in DOMAIN ledger : ledger[e].req = journal[k].req
  /\ \A e \in DOMAIN ledger : ClaimsOf(LineInstance(ledger[e])) # {}

Bootable ==
  Chained(ledger) /\ Chained(journal) /\ AnchorHolds /\ CrossChecked

\* Mutant: the record keeps the operator's word for it.
StateAfterRaw(event) == event

\* fold/1: the state the events of an instance leave it in.
StateAfter(event) ==
  CASE event = "confirmed_performed" -> "completed"
    [] event = "confirmed_not_performed" -> "reconciled_not_performed"
    [] OTHER -> event

Last(ks) == CHOOSE k \in ks : \A m \in ks : m <= k

EventsOf(i) == {k \in DOMAIN journal : LineInstance(journal[k]) = i}

\* Mutant: a claim without a terminal event is dropped on restart.
FoldedSettled(i) ==
  IF ClaimsOf(i) = {} \/ journal[Last(EventsOf(i))].t = "executing" THEN NoRecord
  ELSE [state |-> StateAfter(journal[Last(EventsOf(i))].t),
        req |-> journal[Last(ClaimsOf(i))].req]

Folded(i) ==
  IF ClaimsOf(i) = {} THEN NoRecord
  ELSE [state |-> StateAfter(journal[Last(EventsOf(i))].t),
        req |-> journal[Last(ClaimsOf(i))].req]

BindersOf(n) ==
  {k \in DOMAIN journal :
     journal[k].t = "executing" /\ n \in NoncesOf[journal[k].req]}

\* Mutant: a restart forgets who owns the nonces.
OwnerLost(n) == NoInstance

FoldedOwner(n) ==
  IF BindersOf(n) = {} THEN NoInstance
  ELSE LineInstance(journal[Last(BindersOf(n))])

\* boot/1 up to mark_unknown_on_restart/1; torn tails are trimmed.
Boot ==
  /\ pc = "down" /\ Bootable
  /\ jtorn' = FALSE /\ ltorn' = FALSE
  /\ records' = [i \in Instances |-> Folded(i)]
  /\ owner' = [n \in Nonces |-> FoldedOwner(n)]
  /\ jseq' = Len(journal) /\ lseq' = Len(ledger)
  /\ pc' = "marking"
  /\ UNCHANGED <<journal, ledger, anchor, cur, verdict, answer, performs, envVars>>

\* A refused boot/1 trimmed the torn tails before it looked at the chains.
BootRefused ==
  /\ pc = "down" /\ ~Bootable
  /\ jtorn' = FALSE /\ ltorn' = FALSE
  /\ UNCHANGED <<journal, ledger, anchor, pc, cur, verdict, memoryVars, answer,
                 performs, envVars>>

Unsettled == {i \in Instances : records[i].state = "executing"}

Settle(i, state) == records' = [records EXCEPT ![i].state = state]

\* mark_unknown_on_restart/1, one record at a time; an append that fails takes
\* the booting process down.
MarkUnknown(i) ==
  /\ pc = "marking" /\ i \in Unsettled
  /\ \/ /\ JournalAppend("unknown_outcome", records[i].req)
        /\ Settle(i, "unknown_outcome")
        /\ UNCHANGED <<pc, owner, lseq>>
     \/ /\ Fault
        /\ JournalLeft("unknown_outcome", records[i].req)
        /\ UNCHANGED anchor
        /\ Forget /\ pc' = "down"
  /\ UNCHANGED <<ledger, ltorn, cur, verdict, answer, performs>>

\* Mutant: the store serves calls before every open claim is marked.
BootUnmarked ==
  /\ pc = "marking"
  /\ \/ Anchored(jseq, lseq) /\ NoFault /\ pc' = "idle" /\ UNCHANGED memoryVars
     \/ Fault /\ UNCHANGED anchor /\ pc' = "down" /\ Forget
  /\ UNCHANGED <<journal, jtorn, ledger, ltorn, cur, verdict, answer, performs>>

\* The last step of boot/1; a store that cannot write its anchor stops.
BootDone ==
  /\ pc = "marking" /\ Unsettled = {}
  /\ \/ Anchored(jseq, lseq) /\ NoFault /\ pc' = "idle" /\ UNCHANGED memoryVars
     \/ Fault /\ UNCHANGED anchor /\ pc' = "down" /\ Forget
  /\ UNCHANGED <<journal, jtorn, ledger, ltorn, cur, verdict, answer, performs>>

-----------------------------------------------------------------------------
(* handle_call({:execute, ...}).                                           *)

Reply(q, what) == answer' = [answer EXCEPT ![q] = what]

Foreign(q) ==
  \E n \in NoncesOf[q] : owner[n] \notin {NoInstance, InstanceOf[q]}

\* Mutants: nonces are not looked at; an unknown outcome may be retried.
AdmitAnyNonce(q) == records[InstanceOf[q]] = NoRecord /\ q \in Current
AdmitUnknown(q) ==
  /\ ~Foreign(q)
  /\ records[InstanceOf[q]].state \in {"none", "unknown_outcome"}
  /\ q \in Current

\* Fence checks 14 to 16.
Admits(q) ==
  /\ ~Foreign(q)
  /\ records[InstanceOf[q]] = NoRecord
  /\ q \in Current

\* A refusal on a settled or unknown record of the same effect is a replay.
Replays(q) ==
  /\ ~Foreign(q)
  /\ records[InstanceOf[q]].state \in
       {"completed", "unknown_outcome", "reconciled_not_performed"}
  /\ DigestOf[records[InstanceOf[q]].req] = DigestOf[q]
  /\ q \in Current

\* Fence checks 1 to 13 depend on the certificate, the clock and the revocation
\* view and may refuse any request at any time.  A request that passes gets its
\* claim only after the anchor was brought current.
Execute(q) ==
  /\ pc = "idle"
  /\ \/ /\ Reply(q, "refused")
        /\ UNCHANGED <<pc, cur, anchor>> /\ NoFault
     \/ /\ Replays(q)
        /\ Reply(q, "replayed")
        /\ UNCHANGED <<pc, cur, anchor>> /\ NoFault
     \/ /\ Admits(q)
        /\ Anchored(jseq, lseq) /\ NoFault
        /\ pc' = "claim" /\ cur' = q /\ UNCHANGED answer
     \/ /\ Admits(q) /\ Fault
        /\ Reply(q, "refused")
        /\ UNCHANGED <<pc, cur, anchor>>
  /\ UNCHANGED <<journal, jtorn, ledger, ltorn, verdict, memoryVars, performs>>

\* claim_and_perform/7: the write-ahead record.
Claim ==
  /\ pc = "claim"
  /\ \/ /\ JournalAppend("executing", cur)
        /\ records' = [records EXCEPT ![InstanceOf[cur]] =
                         [state |-> "executing", req |-> cur]]
        /\ owner' = [n \in Nonces |->
                       IF n \in NoncesOf[cur] THEN InstanceOf[cur] ELSE owner[n]]
        /\ pc' = "perform" /\ UNCHANGED <<cur, answer>>
     \/ /\ JournalFails("executing", cur)
        /\ Reply(cur, "refused")
        /\ pc' = "idle" /\ cur' = NoRequest /\ UNCHANGED <<records, owner>>
  /\ UNCHANGED <<ledger, ltorn, verdict, lseq, performs>>

\* perform/4: the effector, then the anchor as best effort.
Perform ==
  /\ pc = "perform"
  /\ performs' = [performs EXCEPT ![cur] = @ + 1]
  /\ \/ /\ cur \in Probes
        /\ UNCHANGED <<ledger, ltorn, lseq>>
        /\ \/ Anchored(jseq, lseq) /\ NoFault
           \/ Fault /\ UNCHANGED anchor
        /\ pc' = "complete"
     \/ /\ cur \notin Probes
        /\ ledger' = Written(ledger, ltorn, LedgerLine(cur))
        /\ ltorn' = FALSE /\ lseq' = lseq + 1
        /\ \/ Anchored(jseq, lseq + 1) /\ NoFault
           \/ Fault /\ UNCHANGED anchor
        /\ pc' = "complete"
     \/ /\ cur \notin Probes
        /\ Fault /\ LedgerLeft(cur)
        /\ UNCHANGED <<lseq, anchor>>
        /\ pc' = "unknown"
  /\ UNCHANGED <<journal, jtorn, cur, verdict, records, owner, jseq, answer>>

\* Mutant: a completion that could not be written is reported all the same.
CompleteAnyway ==
  /\ pc = "complete"
  /\ \/ JournalAppend("completed", cur)
     \/ JournalFails("completed", cur)
  /\ Settle(InstanceOf[cur], "completed")
  /\ Reply(cur, "performed")
  /\ pc' = "idle" /\ cur' = NoRequest
  /\ UNCHANGED <<ledger, ltorn, verdict, owner, lseq, performs>>

\* The completion record; when it cannot be made durable the outcome is unknown.
Complete ==
  /\ pc = "complete"
  /\ \/ /\ JournalAppend("completed", cur)
        /\ Settle(InstanceOf[cur], "completed")
        /\ Reply(cur, "performed")
        /\ pc' = "idle" /\ cur' = NoRequest
     \/ /\ JournalFails("completed", cur)
        /\ pc' = "unknown" /\ UNCHANGED <<cur, records, answer>>
  /\ UNCHANGED <<ledger, ltorn, verdict, owner, lseq, performs>>

\* unknown/3: the record goes to unknown_outcome whether or not it is written.
Unknown ==
  /\ pc = "unknown"
  /\ \/ JournalAppend("unknown_outcome", cur)
     \/ JournalFails("unknown_outcome", cur)
  /\ Settle(InstanceOf[cur], "unknown_outcome")
  /\ Reply(cur, "unknown_outcome")
  /\ pc' = "idle" /\ cur' = NoRequest
  /\ UNCHANGED <<ledger, ltorn, verdict, owner, lseq, performs>>

-----------------------------------------------------------------------------
(* handle_call({:reconcile, ...}): the operator's exit from an unknown      *)
(* outcome.                                                                *)

Reconcile(i) ==
  /\ pc = "idle" /\ records[i].state = "unknown_outcome"
  /\ pc' = "reconcile" /\ cur' = records[i].req
  /\ verdict' \in Resolutions
  /\ UNCHANGED <<fileVars, memoryVars, answer, performs, envVars>>

ReconcileAppend ==
  /\ pc = "reconcile"
  /\ \/ /\ JournalAppend(verdict, cur)
        /\ Settle(InstanceOf[cur], StateAfter(verdict))
     \/ JournalFails(verdict, cur) /\ UNCHANGED records
  /\ pc' = "idle" /\ cur' = NoRequest /\ verdict' = "none"
  /\ UNCHANGED <<ledger, ltorn, owner, lseq, answer, performs>>

\* The event an append in progress is writing.
InFlight ==
  CASE pc = "claim" -> "executing" [] pc = "complete" -> "completed"
    [] pc = "unknown" -> "unknown_outcome" [] pc = "reconcile" -> verdict
    [] OTHER -> "none"

\* The store process dies; a write in progress is left at any point.
Crash ==
  /\ pc # "down" /\ crashes < MaxCrashes
  /\ crashes' = crashes + 1
  /\ \/ UNCHANGED <<journal, jtorn>>
     \/ InFlight \in Events /\ JournalLeft(InFlight, cur)
     \/ /\ pc = "marking"
        /\ \E i \in Unsettled : JournalLeft("unknown_outcome", records[i].req)
  /\ \/ UNCHANGED <<ledger, ltorn, performs>>
     \/ /\ pc = "perform"
        /\ performs' = [performs EXCEPT ![cur] = @ + 1]
        /\ \/ cur \in Probes /\ UNCHANGED <<ledger, ltorn>>
           \/ cur \notin Probes /\ LedgerLeft(cur)
  /\ pc' = "down" /\ cur' = NoRequest /\ verdict' = "none"
  /\ Forget
  /\ UNCHANGED <<anchor, answer, faults>>

StoreStep ==
  \/ Boot \/ BootRefused \/ (\E i \in Instances : MarkUnknown(i)) \/ BootDone
  \/ Claim \/ Perform \/ Complete \/ Unknown \/ ReconcileAppend

Next ==
  \/ StoreStep
  \/ \E q \in Requests : Execute(q)
  \/ \E i \in Instances : Reconcile(i)
  \/ Crash

Spec == Init /\ [][Next]_vars

\* The supervisor restarts the store and a running handler goes on.
FairSpec == Spec /\ WF_vars(StoreStep)

-----------------------------------------------------------------------------
(* Properties.                                                             *)

\* An effect instance reaches its effector at most once, whichever certified
\* request asks for it, across crashes, failing writes and reconciliation
\* (Store.execute/3: "perform exactly one typed effect"; an unknown outcome "is
\* NEVER retried").
AtMostOncePerInstance ==
  \A p, q \in Requests :
    performs[p] > 0 /\ performs[q] > 0 /\ InstanceOf[p] = InstanceOf[q] =>
      p = q /\ performs[p] = 1

\* A certificate's (kid, nonce) pair pays for one instance only, even when the
\* owner table is rebuilt from the journal in between (Fence check 14, fold/1).
NonceBinds ==
  \A p, q \in Requests :
    performs[p] > 0 /\ performs[q] > 0 /\ NoncesOf[p] \cap NoncesOf[q] # {} =>
      InstanceOf[p] = InstanceOf[q]

\* A store that restarts after it answered "performed" finds the completion and
\* the ledger entry it answered for (perform/4 answers after the fsync).
AckedIsDurable ==
  \A q \in Requests :
    answer[q] = "performed" /\ Bootable =>
      /\ Folded(InstanceOf[q]) = [state |-> "completed", req |-> q]
      /\ q \in Probes \/ \E e \in DOMAIN ledger : ledger[e].req = q

\* Unless a write failed, a crash at any point leaves files that boot/1 accepts,
\* and an idle store holds in memory what a restart would read back.
RestartFaithful ==
  faults = 0 =>
    /\ pc \in {"down", "idle"} => Bootable
    /\ pc = "idle" =>
         /\ records = [i \in Instances |-> Folded(i)]
         /\ owner = [n \in Nonces |-> FoldedOwner(n)]

(* The inductive invariant of AtMostOncePerInstance and NonceBinds.  After *)
(* a failed append the journal may hold a line the process does not know   *)
(* of, or one run into another; what saves the store is that any later     *)
(* append then breaks the chain for good and boot/1 refuses the file, so   *)
(* the parts speak of garbled and of chained journals apart.               *)

\* The journal shows a claim of q, or will never be booted from again.
Vouched(q) ==
  \E k \in DOMAIN journal :
    \/ journal[k].t = "garbage"
    \/ journal[k].t = "executing" /\ journal[k].req = q

VouchInv == \A q \in Requests : performs[q] > 0 => Vouched(q)

\* A running store remembers every performed effect and its nonces.
MemoryInv ==
  pc # "down" =>
    \A q \in Requests :
      performs[q] > 0 =>
        /\ records[InstanceOf[q]].state # "none"
        /\ \A n \in NoncesOf[q] : owner[n] = InstanceOf[q]

\* What the fence found still holds when the claim is written.
ClaimInv ==
  pc = "claim" =>
    /\ cur \in Requests
    /\ records[InstanceOf[cur]].state = "none"
    /\ ~Foreign(cur)

\* What the claim established still holds when the effector is called.
PerformInv ==
  pc = "perform" =>
    /\ cur \in Requests /\ Vouched(cur)
    /\ records[InstanceOf[cur]].state # "none"
    /\ \A n \in NoncesOf[cur] : owner[n] = InstanceOf[cur]
    /\ \A q \in Requests : InstanceOf[q] = InstanceOf[cur] => performs[q] = 0

\* An operator's resolution is on its way to the journal.
ReconcileInv == pc = "reconcile" => verdict \in Resolutions

\* The claims of a journal that can still be booted from agree on the owner of
\* each nonce, and the process knows the owners of the lines it has counted.
Binds(k, n) == journal[k].t = "executing" /\ n \in NoncesOf[journal[k].req]
NonceInv ==
  /\ \A k \in DOMAIN journal :
       journal[k].t = "executing" => journal[k].req \in Requests
  /\ pc # "down" => jseq <= Len(journal)
  /\ Chained(journal) =>
       \A k, m \in DOMAIN journal : \A n \in Nonces :
         Binds(k, n) /\ Binds(m, n) =>
           LineInstance(journal[k]) = LineInstance(journal[m])
  /\ Chained(journal) /\ pc # "down" =>
       \A k \in DOMAIN journal : \A n \in Nonces :
         k <= jseq /\ Binds(k, n) => owner[n] = LineInstance(journal[k])

\* An effect runs, and a nonce is spent, only with a claim in the journal that
\* every later boot either reads or refuses to start from.
ActuatorInv ==
  /\ VouchInv /\ MemoryInv /\ ClaimInv /\ PerformInv /\ ReconcileInv
  /\ NonceInv
  /\ AtMostOncePerInstance /\ NonceBinds

\* Between two calls no claim is left executing, so nobody is ever refused with
\* claim_held (mark_unknown_on_restart/1, unknown/3).
NoClaimStuck == pc = "idle" => Unsettled = {}

\* Unless a write failed, the restarted store serves calls again.
AlwaysComesBack == [](faults = 0) => []<>(pc = "idle")

\* The comment on journal/2: an append it reports as done "is chained
\* (seq/prev/hash), fsync'd".  So the claim an effect is performed under is one
\* that the next boot can read.
ClaimIsChained == pc = "perform" => Chained(journal)

=============================================================================
