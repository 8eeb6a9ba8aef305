# A TLA+ verification of AshA2A

AshA2A lets agents call Ash actions over the A2A protocol and promises that a
call with consequences happens at most once and always leaves evidence. This
directory models the parts of the code that carry this promise, and the hosts
that run its GraphLaw engine outside of the BEAM; checks them with TLC on small
instances; and proves the central safety properties with TLAPS for every value
of the constants.

Read `CommandBus.tla` first, then `Actuator.tla`; `RuntimeB.tla`,
`OneShotHost.tla` and `Subprocess.tla` are independent of them. `PROJECT.json` maps each
definition to the lines it models and lists runs, mutants, findings, hazards
and theorems.

## 1. Inventory

The parts that keep state, what is hard about each, and what makes it correct.

| Part (under `src/`) | State | Operations | What is hard | Correct when |
|---|---|---|---|---|
| `lib/ash_a2a/command_bus.ex`, `receipt.ex` | the running process: claim, draft receipt | `run/4`: drain, admit, claim, effect claim, anchor, confirm, gate, DO, commits | crash between any two calls; a stalled executor; deadline against reply | a command crosses DO at most once; its receipt exists and is true |
| `receipt_store/memory.ex`, `claim_lease.ex`, `actuation_claim_lease.ex` | command claims, receipts, effect claims | claim, commit, confirm, fetch, claim/commit/release actuation | leases reclaimed from live owners; entries read across two calls | a claim moves only before DO |
| `receipt_outbox.ex`, `receipt_outbox/reconciler.ex` | journal directory of receipts | append, anchored?, reconcile (drain), remove | the drain's reads are stale when it writes; failing calls | evidence is never dropped and finally reaches the store |
| `actuator/` store, journal, ledger, anchor, fence | three files, records, nonce owners | boot, execute, reconcile | death or failing write between two appends; state rebuilt at boot | an instance is performed once, a nonce pays once, boot never loses or invents |
| `actuator/` state lock | lock file | acquire, release | takeover of a stale lock | one writer |
| `authority_service/` issuer, journal | approvals, issued certificates | issue | append that fails after the decision | a certificate is issued once, with k distinct approvers |
| `receipt_store/ekv.ex` | replicated key-value entries | the store operations by compare-and-swap | unconfirmed swaps, stale reads | same promises as Memory |
| `reconciliation.ex` | receipts of unknown outcome | settle | two operators, late evidence | settles once, on evidence |
| `a2a_transport/` task events, SSE, push | subscribers, sequence numbers, retries | subscribe, publish, resume, deliver | events between snapshot and subscription; retries | every subscriber sees each event in order |
| `finops/` budget store, enforcer | reservations | reserve, settle, refund | concurrent reserve; settle after timeout | spend never exceeds the budget |
| `cluster/` drain, checkpoint, handover | in-flight work, checkpoints | drain, hand over, resume | node stops during hand-over | no work lost or doubled |
| `protocol/` agent runtime, task store | tasks | send, cancel, update | cancel against completion | terminal task states are final |
| `kill_switch.ex`, `authority/` | switch, grants | trip, issue, use, revoke | revocation between check and use | nothing runs on revoked standing |
| `consequence_kernel/` | file-backed claims, prepared effects | stage, claim, commit | crash between stages | stages are not skipped or repeated |
| `sa2a_crypto/` registry | keys, nonces, quorum | register, rotate, revoke | nonce reuse across restarts | a nonce is accepted once |
| `priv/graphlaw_host/graphlaw_host.mjs`, `graph_law/runtime_b.ex` | port, request counter, mailbox; the host's buffer and wasm instance | open, call, close; data, putString, the call, end | chunks cut anywhere; memory replaced under typed arrays; late replies; traps and hangs | an answer is the answer of its request; every request returns |
| `priv/graphlaw/*.mjs`, `priv/sa2a_graphlaw/verify.mjs` and their decoders | one process: request, instance, results, stdout, exit status | check, load, call, report, fail | the module vanishing between a check and a read; uncaught errors; an instance used after a trap | one object, then the end; a success has a result for every call |
| `graph_law/subprocess.ex` | node-wide counter, watchers, OS processes | run: count, watch, spawn, collect, kill, release | callers killed anywhere; process ids used again; kills that cannot start | the counter is exact, the cap holds, nothing is left running |
| `graph_law/wasmex_*`, `wasmtime_runtime.ex` | pool of in-process engines | load, lend, replace | replacement under use | a call runs on the module it names |
| `elicitation.ex`, `bidi/`, `delivery/oban.ex` | pending questions, channels, jobs | ask, answer, retry | late answers, repeated jobs | an answer is used once |

How they interact: a transport hands a command to `CommandBus.run/4` in the
caller's process. The bus talks to the store by calls, writes the journal
directory itself, consults the kill switch and the authority broker
immediately before DO, and calls the dispatcher under a deadline. A standing
reconciler process drains the journal into the store, and every submission does
the same first. The actuator is a separate node: one process serves certified
effects that the authority service has signed. The GraphLaw engine is a wasm
module. `RuntimeB` keeps one Node process with one instance behind a port; the
other callers start a one-shot script for each batch, most of them through
`Subprocess.run/3`, and decode the one JSON object it prints.

## 2. Modules

| Module | Role |
|---|---|
| `CommandBus` | `CommandBus.run/4`, the Memory store, both leases, the outbox and its drain |
| `ClaimFence` | abstract: what `run/4` promises of command ids, as claims that pass, clearances and crossings; implemented by `CommandBus` |
| `MCCommandBus` | three assignments of runs to commands, fingerprints and effects |
| `CommandBusProofs` | the theorems about command ids and evidence in `CommandBus`, and the refinement of `ClaimFence` |
| `VolatileProofs` | which runs can cross DO again over a store that is lost with the node or alone |
| `EffectProofs` | the theorems about effects, and about what a receipt says of its own execution |
| `Actuator` | the actuator's store with its journal, ledger and anchor, and fence checks 14 to 16 |
| `MCActuator` | four certified requests over two instances |
| `ActuatorProofs` | the theorems about claims and nonces in `Actuator` |
| `DurabilityProofs` | the theorems about what its files remember over a restart |
| `WasmAbi` | a wasm instance behind the wasm-bindgen string ABI: stack pointer, heap, memory that may be replaced |
| `RuntimeB` | a `RuntimeB` session: owner, port, host process, instance (uses `WasmAbi`) |
| `MCRuntimeB` | the calls, strings and foreign frames of a small session |
| `RuntimeBProofs` | the theorems about `RuntimeB` |
| `HostContract` | abstract: what a caller may expect of a one-shot host |
| `OneShotHost` | seven one-shot scripts and their callers' decoders; implements `HostContract` |
| `MCOneShotHost` | all seven scripts |
| `OneShotProofs` | the refinement of `HostContract`, and what a caller reads, proved |
| `Subprocess` | `Subprocess.run/3`: slot, watcher, deadline, kills |
| `MCSubprocess` | two runs and two process ids |
| `SubprocessProofs` | the theorems about `Subprocess` |

Operators commented as *Mutant* are plausible bugs; nothing uses them. Putting
one in place of the definition it follows makes the property it is paired with
in `PROJECT.json` fail.

### 2.1 CommandBus

A run is one invocation of `run/4`. `pc[r]` is the call it makes next, so every
store call, journal write and file removal is a step of its own, and other
runs, drains, crashes and the lease clock come in between. Each action is one
such call with all its answers.

| State | Code |
|---|---|
| `claimant`, `stored`, `aged` | Memory's command entries: execution id, receipt, lease elapsed |
| `actClaimant`, `actReceipt` | Memory's actuation entries |
| `outbox`, `temps` | final and temporary files of the journal directory |
| `pc`, `draft`, `answer` | control point, receipt in hand, and reply of a run |
| `dpc`, `cur`, `todo` | a drain: control point, decoded entry, entries still to read |
| `dispatched` | history: runs handed to the dispatcher |
| `forgotten` | history: commands whose receipt died with a volatile store |
| `outlived` | history: runs that were under way when a volatile store restarted alone |

What is abstracted:

- A run's name stands for its execution id and receipt id. Retries of one call
  are one step. A call whose reply is lost was recorded by then or never is.
- Strict deduplication is assumed. `:actuation_conflict` cannot occur, because
  the token it compares is part of the effect digest.
- `completed`, `input_required` and `stream_opened` replies are one status.
  Dispatcher errors carry none of the pre-DO refusal codes.
- `dispatched` means handed to the dispatcher; whether the action then
  happened is the unknown that receipts are about.
- With `Volatile = FALSE` the store keeps its entries over a restart while its
  handlers stay atomic, which is Memory's serialisation with Ekv's durability.
- With `Volatile = TRUE` the store is Memory's process. It is lost in two ways:
  `NodeRestart` kills every run with it; `StoreRestart` is the supervisor
  (`one_for_one`, `application.ex:207`) bringing the process back empty
  (`memory.ex:38-39`) while runs and drains go on with what they have read. A
  call that is in flight when the store dies fails, and counts as a fault.
- `Prompt` states that a live executor clears the path from its effect claim
  to the confirmation within the lease. Only the `effect` run and two
  violation runs assume it.
- The dispatcher's own fence, `BrceAnchor.admit/2`, is left out: it refuses what
  comes without the bus's anchor, and here every dispatch comes from the bus. A
  refusal of it would be an error reply of DO.
- Left out: the postcondition label, HMAC bindings, legacy and corrupt journal
  entries, the TTL sweep and `max_entries` eviction of Memory.

### 2.2 Actuator

One process serves one call at a time, so concurrency is not the difficulty;
what it leaves behind when it dies or a write fails is. The files are sequences
of lines plus a flag for a partial last line. A line is its event, its request
and its sequence number; with one writer the hash chain breaks exactly where
the numbers do. An append that fails or is interrupted leaves nothing, a
partial line or the whole line, and an append onto a partial line leaves
garbage. `boot/1` is the action `Boot` or `BootRefused`, one `MarkUnknown` per
open claim, and `BootDone`; `execute` is `Execute`, `Claim`, `Perform`,
`Complete` or `Unknown`.

What is abstracted: fence checks 1 to 13 may refuse any request at any time;
the generation view is fixed, so that a request is current or not (`Current`);
callers that give up waiting are not distinguished from callers that get the
answer; and the state lock is assumed to keep a second store out. Reads
(`status`, `snapshot`) change nothing.

### 2.3 RuntimeB

Three actors: the process that owns the session (`phase`, `waiting`, `next`,
`outcome`, its mailbox `box`), the port (`portOpen`, `stream`, `delivered`), and
the host (`host`, `buffer`, `cur`, `inst`).

| Action | Code |
|---|---|
| `Open`, `Call`, `Close`, `Receive`, `Timeout` | `open/1`, `call/3`, `close/1`, both ends of the `receive` in `request/2` |
| `Boot` | the top level of the host: read, compile, instantiate |
| `Data`, `NeedMore`, `Take...` | the `'data'` handler: append the chunk, loop over complete frames, dispatch on `op` |
| `PutArgument`, `EngineReturns`, `EngineTraps`, `EngineHangs`, `FinishCall` | `callGraphLaw`: `putString` per argument, the export, copying the result out |
| `Abandon` | the `catch` around `handle` |
| `End` | the `'end'` handler |
| `PortData`, `PortExit`, `Stray` | the port driver; a frame that `request/2` did not write |
| `OwnerDies` | the BEAM closes a port with its owner, and no close frame is sent |

A frame is a sequence of units, header and payload, and a chunk is any prefix of
what is on its way, so every cut happens. A typed array is the generation of the
memory it was made over; when an allocation or the engine replaces the memory,
older ones are detached. What the engine computes is a pair of the function and
the strings it found in its memory, so that an answer computed from the wrong
bytes, or for another request, is a different value. Replies are not cut: the
host writes each with one call, and the port reassembles frames. After each
call that throws, the instance keeps sixteen bytes of stack (`sp`); when
`StackFrames` are gone every call traps. `available?/1` only reads the disk.

### 2.4 One-shot hosts

A script is a *ladder* of checks, one rung per early exit in the order of the
code, then its calls, then its report. A rung that does not hold is caught (the
script's `fail`, with its exit status) or not. The request, the module and the
corpus are drawn from the kinds the scripts tell apart; the module may be
removed at any moment, so a check that passed may be stale at the next read.
The engine returns, traps or hangs at every call; a trap in the free of a
result, after the stack has been popped, is not told apart from a trap of the
call. The decoders say what the caller reads.

`HostContract` is the promise in a few lines: one object, then the exit; silence
only from a *fragile* process; lateness only from a hanging engine. The
refinement maps stdout to `answer` and names the fragile cases: the verifier,
which reads nine corpus files, loads its module and makes its last two calls
outside of any `try`, and the driver on an unreadable stdin or a request that is
`null`. The comment in `verify.mjs` (lines 83 to 86) promises otherwise.

### 2.5 Subprocess

A run is one call of `run/3` by a process that may be killed between any two of
its steps. The watcher is a process of its own with a mailbox; the OS hands out
process ids and may hand the same one out again, also to processes that have
nothing to do with this code. `died` records how far a killed caller was, and
`struck` what a `kill -9` hit that was not its own. The creation of the counter
by the very first run is not modelled.

## 3. Runs

| Run | Instance | Shows |
|---|---|---|
| `durable` | 2 runs of one command, 1 reconciler, 1 failing call, crashes, lease | DO once per command, evidence never lost and finally stored, claims move only before DO, no command wedged, `ClaimFence` is implemented; the inductive invariant and with it the typing |
| `effect` | 3 runs, 2 command ids, 1 effect, 2 failing calls, `Prompt` | an effect crosses DO once, receipts tell the truth |
| `volatile` | 3 runs, conflicting fingerprint, observing command, 2 restarts of the node or of the store alone, no failing call, no reconciler | a spent command crosses DO again only by a run that was under way when the store restarted alone |
| `actuator` | 4 requests, 2 instances, shared nonce, 2 deaths, 1 failing write | one performance per instance, one instance per nonce, acknowledged effects survive, memory equals what a boot reads, no claim is stuck, the store comes back |
| `runtime_b` | 4 requests, calls of 0 and 2 strings (one empty), 1 foreign frame, headers of 2 units, 1 growth of the memory, a stack of 1 frame | answers match their requests, frames are answered in order, a timeout is final for its session, errors mean traps, the instance is balanced, frames get answered, the host ends with its port |
| `one_shot` | 7 scripts, every kind of request and module, up to 2 calls | successes are earned, refusals have a cause, the exit status agrees with the object, the contract is implemented |
| `subprocess` | 2 runs, cap 1, 2 process ids, 1 other process, 2 deaths, 2 failing kills | exact counter, cap, nothing left running, released before returned, sheds and stray kills only for cause, runs end and slots drain |
| `slow_effect`, `drain_race`, `resubmit`, `revoked`, `actuator_fault` | smallest instance that shows it | five disagreements between code and its own words, section 6 |

**Bounds.** `MaxFaults`, `MaxRestarts` and `MaxCrashes` bound failing calls,
restarts (of the node, or of a volatile store alone) and deaths of the
actuator's process; each run of `run/4` is
submitted and may crash once. Two runs of one command are the smallest
instance with a reclaim; three are needed for a reclaim beside a rival command.
One failing call at every possible place, with a crash at every possible place,
covers each pair of adjacent error paths. In `volatile` the second restart is
what a run that outlived the first one meets; a standing reconciler makes the
instance too large, and every run drains by itself. Its two consequential runs
cannot leave two entries of one command to a third: that case rests on the
proofs. For the safety properties that are
proved, the bounds do not matter. In `runtime_b` four requests are the opening,
two calls and the close, or three calls: enough for a timeout, a late reply and
the request that meets it; a two-unit header can be cut in the middle; with one
stack frame the second call after a trap already finds the stack used up. Two
runs of `Subprocess` at cap one are a holder and a rival; two ids and a foreign
process are enough for an id to come back under another owner. Two calls are a
batch in which one fault comes before or after a success.

**Fairness.** For `CommandBus`: a submitted run proceeds (the dispatch deadline
in `bounded_dispatch/6` ends DO), a drain proceeds, the reconciler's timer
re-arms itself on each tick, and the lease clock advances. Submitting and
crashing are never forced. For `Actuator`: the supervisor restarts the store
and a call in progress goes on.

For `RuntimeB`: the operating system runs the host and hands it what is in its
pipe; the engine may hang, and nothing is asked of the owner or the port.
For `OneShotHost`: a script that can go on does. For `Subprocess`: BEAM
processes are scheduled and both `after` clauses fire; an OS process may hang.

**Deadlock.** The sessions, scripts and runs of the GraphLaw modules end, so
their check is off. The bus runs switch the check off, because submissions are
finite and everything may finish. The actuator never stops, and is checked.

## 4. Properties

- `AtMostOncePerCommand`, `EvidenceNeverVanishes`, `ReclaimOnlyBeforeDo`: the
  fence of `run/4`. They need the claim, the anchor and the confirmation in
  this order, and the outbox check in the lease.
- `ImplementsFence`: the same fence as a specification. A run holds the key of
  its command while the claim names it, is cleared when the confirmation lets it
  go on to `pre_do`, crosses at DO, and has evidence on record while the journal
  has its entry or the store its receipt. In `ClaimFence` nothing can be taken
  from an actor that was cleared and did not withdraw.
- `EvidenceReachesStore`, `NoCommandWedged`: what the drain owes. The second
  has two cases left to an operator, spelled out in its definition: the anchor
  of an execution that lost its claim is kept for ever and blocks a reclaim,
  and so does a temporary file left by a death inside `append/1`.
- `RepeatNeedsSurvivor`: what is left of the first property when the store can
  be lost, see below.
- `AtMostOncePerEffect`, `ReceiptsTellTruth`: the effect claim and the terminal
  status. The `effect` run has a gate code that is on the list, and resubmissions
  that keep their effect; `ReceiptsTellTruth` is false without the first
  (finding 4) and is not checked without the second.
- `AtMostOncePerInstance`, `NonceBinds`, `AckedIsDurable`: the actuator's
  write-ahead order across restarts and failing writes.
- `RestartFaithful`, `NoClaimStuck`, `AlwaysComesBack`: the boot.

- `AnswersMatch`, `TimeoutIsFinal`, `MismatchNeedsCause`: the id check of
  `decode_response/2` is all that stands between a late reply and the next
  request. It keeps wrong answers out; it cannot bring the session back, because
  each further request meets the reply of the one before.
- `RepliesInOrder`, `FramesAnswered`: the framing loop.
- `HostEnds`: no Node process outlives its session, however it ended; only an
  engine that hangs keeps one.
- `ErrorMeansTrap`, `InstanceBalanced`: views are made after allocations and
  after the call; what a trap leaves behind, and the byte `putString` allocates
  for an empty string, is all that accumulates.
- `OkIsEarned`, `RefusalHasCause`, `ExitAgrees`, `HonoursContract`: section 2.4.
- `SlotsAccounted`, `CapRespected`, `NoOrphan`, `StrikesOnlyWhenStale`: the
  exceptions are part of the statements. A slot is lost when its caller is
  killed between the count and the spawn of the watcher, or when the watcher's
  `kill` cannot be started; a process is left behind when its caller is killed
  between `Port.open` and the message to the watcher; and a late `kill -9` may
  hit whoever got the process id next.
- `ReturnedMeansReleased`, `ShedHasCause`: the synchronous release.

**At most once is not claimed over a volatile store.** No failing call is
needed for a second DO, only a restart of the store process alone: run B drains
an empty journal and stalls; run A claims, writes its anchor and is confirmed;
the store comes back empty; B claims the command afresh, since a fresh claim
does not look at the journal, and both cross DO. What the drain does guarantee
is `RepeatNeedsSurvivor`: a run that makes a second DO was under way when the
store restarted alone (`outlived`). After a restart of the node there is none,
and every run submitted after a loss finds the entry of the first one through
its drain. A command whose committed receipt died with the store, its entry
being removed, is out of scope (`forgotten`): no trace of it is left anywhere.

One failed call inside the drain is enough for a second DO after any loss of
the store, because the drain leaves the entry and the claim does not look at it.
The `volatile` run therefore has no failing calls.

`EvidenceNeverVanishes` is not claimed over a volatile store either: a committed
receipt whose entry is removed dies with it. Evidence is also lost in a case
where the journal had it, with no call failing. Run A stalls between its claim
and its anchor until the lease passes; run B reclaims the command; both write
their anchors, B crosses DO, and the node restarts with an empty store. The next
drain may meet A's entry first: it claims the command for A, commits A's pending
anchor, and then takes B's entry to be present already and removes it
(`receipt_outbox.ex:305-315`). For the entry of another execution over a store
that kept its claims, the comment at lines 346 to 349 says "keep it for an
operator". The command stays blocked, which is `SpentIsShown` below; but the
receipt that blocks it is not that of the run that crossed.

## 5. Proofs

`CommandBusProofs` (about two minutes) proves for a durable store, any number of
runs and reconcilers and any bounds: `TypeCorrect`, `BusInvariant`,
`CommandAtMostOnce`, `EvidenceKept`, `ReclaimSafe`. None of the three
properties is inductive. `BusInv` adds what they rest on:

- `FenceInv`: a receipt in the store belongs to the holder of the claim. This
  is the commit fence, and makes "somebody's receipt is stored" mean "the
  holder's is".
- `CoverInv`: from the anchor on, a run has its entry or the store has a
  receipt. Together with the outbox check of `Abandoned` it stops reclaims.
- `HolderInv`: so a run that confirmed its claim still has it at DO, and two
  runs of a command cannot both be past the confirmation.
- `RemoveInv`, `DraftInv`, `DrainInv`: entries go away only after a receipt is
  stored or before DO; runs and drains handle receipts of their own.

The proof has one step per action. `HolderKeeps` is the heart: no action takes
a claim from a run past its confirmation.

`RouteImplementsFence` puts `run/4` and `ClaimFence` together. `Moves` reduces
every action, drains and restarts included, to one of six moves
(`FenceMove`): a claim is taken, a receipt is stored, the journal changes for one
run, a run is cleared, a run crosses, or some leave the way to DO without
crossing. `MovesFence` shows each to be a step of `ClaimFence` or none. The
invariant is used at two points: a claim that is taken over is not that of a run
past its confirmation, and such a run always has evidence (`ClearedShown`). The
second half, `FenceIsEnough`, needs neither the store, nor the journal, nor the
hypothesis that the store is durable: `ClaimFence` alone implies
`AtMostOncePerCommand` and `EvidenceNeverVanishes`, so these two follow for any
other store that lets the route implement it.

`VolatileProofs` (about a minute) proves `RepeatsNeedSurvivors`:
`RepeatNeedsSurvivor` for every store, under `MaxFaults = 0`, without which it
is false (section 4). A loss empties the store of claims and receipts, so
`CoverInv` and `HolderInv` go with it, and what is left is the journal and the
drain each run makes before it claims. `VolatileInv` says how far that goes:

- `SpentInv`: a command that may have crossed DO has the entry of the run that
  did, a receipt in the store, or an entry of a finished run, which no refusal
  unlinks (`Kept`). An anchor about to meet its confirmation over an emptied
  store does not count (`Weighty`): it is refused and unlinked.
- `DrainedInv`: a run that started after the loss and has yet to claim finds its
  command unclaimed only while its own drain still has every such entry of the
  command before it. The drain re-claims the command for the entry it meets, so
  a run that has drained meets either a claim or a command nobody spent.
- `FirstInv`: hence such a run, with the claim and on its way to DO, is the
  first.
- `LiveInv`, `ClaimedInv`, `WrittenInv`, `LossInv`: a run past its confirmation
  keeps its cover, and its claim unless the store was lost under it; entries are
  those of runs that reached their anchor; and an entry is dropped for a receipt
  that is stored, or was and is forgotten.

`DrainedInv`, `FirstInv` and the claims in `LiveInv` and `ClaimedInv` speak of
runs outside `outlived` only: for the others they are false, which is the second
DO of section 4. `RouteShape` says what every step but a loss does to control
points, entries, claims and drains; `RestartKeeps` and `StoreKeeps`
treat the losses. `SpentIsShown` states `SpentInv` for every store.

`ActuatorProofs` (about a minute) proves for any requests, nonces, faults and
deaths: `ActuatorInvariant`, `ActuatorTypes`, `InstanceAtMostOnce`,
`NonceSpentOnce`, `NoStuckClaim`. The last rests on `HandInv`: while the store
serves, the only executing claim is the one in hand. For the others, the
difficulty is the failing write: the journal may hold a line the process does
not know of, so neither "the journal has the claim" nor "memory equals the
journal" is invariant. What holds is that each step adds at most one line with
the process's own number (`Grows`), so that once file and memory differ any
further append breaks the chain for ever (`AddedLine`), and `boot/1` refuses a
broken chain. `ActuatorInv` therefore says: a performed effect has its claim in
the journal *or the journal is garbled*; in a *chained* journal the claims
agree on nonce owners, and the process knows the owners of the lines it has
counted. `LastIsLast` (the fold's last event exists) rests on the library's
well-foundedness of `<` on the naturals.

`EffectProofs` (about a minute) proves `ReceiptsTellOwnTruth` and
`EffectAtMostOnce`. The first has no hypotheses: any store, any way to lose it,
any gate codes and any derivation of effect identities. It says what a stored
receipt tells of its *own* execution: `refused`, that it never crosses DO;
`executed`, `reconciled` or `unknown_outcome`, that it did, or was answered from
another run's receipt; `failed`, one of these or a refusal before DO. The last
alternative is what finding 4 leaves of "`:failed` asserts DO ran". `OwnInv`
follows each receipt from the run that makes it out (`DraftOwn`) through the
journal and the drain's hands (`EntryTruth`) to the store (`StoredOwn`): the
journal holds anchors and receipts of runs that crossed DO, so `mark_reconciled`
never names an outcome of a run that did not, and no receipt comes to the store
from anywhere else.

The stronger `ReceiptsTellTruth`, about the *effect* a receipt names, is not
proved, since the code does not provide what it needs. The gate gives codes that
are not on the list (`authority_expired`, `authority_revoked`,
`authority_constraint_mismatch`, `authority_revalidation_unavailable`,
`kill_switch_unavailable`). And resubmissions may change their effect:
`Actuation.identity/2` takes an idempotency key from the options, and
`Command.fingerprint/1` knows nothing of it. A resubmission that reclaims a
command under another key performs another effect, and `claim_actuation` then
heals the entry of the first effect from the receipt of the second: a duplicate
of the first is told it was done.

`EffectAtMostOnce` holds over a durable store under `Prompt`: a live executor
clears the pre-DO path within the lease. Finding 1 is what happens otherwise.
`EffectInv` says who holds the entry of an effect: a run from its claim until it
gives it back, and for good once dispatched (`HeldInv`). Under `Prompt` a run
before DO has a young claim and no final receipt (`FreshInv`), so nobody is told
to proceed on its entry; after DO the receipt or the journal keeps the claim
from being reclaimed.

`DurabilityProofs` (about a minute) proves `AckedDurable` and
`RestartIsFaithful`. The first holds whatever writes fail, by `AckInv`: in a
*chained* journal the last line of an acknowledged instance is its completion.
No line is ever added to an instance the process holds as completed
(`OpenStep`); and when a failed append left a line it does not count, what it
holds may be behind the file, but then its next line breaks the chain. `OwnInv` ties a record to the
request that made it. The second is about failure-free behaviours, with deaths:
`FaithInv` says that the files can be booted from (`Bootable`), that the
records and nonce owners are the fold of the journal (`Mirrors`), and that the
process counts the lines of its files (`InStep`). The lemmas about the
fold say what one more line does to `Last` and thereby to `Folded`.

`RuntimeBProofs` (about four minutes) proves `SessionTypes`,
`HostAnswersInOrder`, `AnswersAreOwn`, `ErrorsAreTraps`, `TimeoutEndsSession`,
`MismatchIsCaused` and `InstanceIsBalanced` for any calls over any set of strings, any header length
and foreign frames, any cut of the stream and any number of traps, timeouts
and replaced memories. The inductive invariant `SessionInv` has six parts:

- `FrameInv`: the buffer followed by what is in the pipe is exactly the units
  of the frames not yet taken, whole and in order (`Framed`). Cutting off a
  chunk moves the border between the two; taking a frame removes a prefix of
  known length; an append adds a whole frame.
- `SentInv`: no two frames carry the id of one request.
- `HostInv`: while a call is under way, the blocks of the arguments put so far
  hold their strings, and the engine has been or will be given just those
  (`CallInv`); reply *k* answers frame *k* (`ReplyInv`).
- `ClientInv`: the owner waits for its last request only; an `ok` it took is the
  value its own frame asks for.
- `BoxInv`: the mailbox is a stretch of the replies, then perhaps the exit.
- `PairInv`: replies consumed and requests pending never exceed the requests
  made; after a timeout they fall short by one for good, so the id that comes
  back is never again the one that is waited for. Without timeouts and foreign
  frames they are equal, so no id is wrong.

`InstanceIsBalanced` needs a part of its own, `BalanceInv`: only a call that was
answered is one the engine trapped in, and the instance holds a stack frame per
trapped call, the blocks those left, the empty blocks of the others (`Left`), and
what the call under way has of its own. It counts with cardinalities of explicit
sets, one pair of a frame and an argument per block, so that one more answer
adds a disjoint set and no sum needs an induction.

`SubprocessProofs` (about a minute) proves for any set of runs, any cap and any
number of killed callers and failing kills: `SubprocessTypes`, `CounterExact`,
`CapHolds`, `ProcessesCollected`, `ReturnIsRelease`, `KillsOwnFirst`,
`ShedsForCause`. The inductive invariant `Inv` goes run by run:

- `Agree`: caller and watcher agree on who of them is left;
- `MailInv`: the watcher's mailbox holds at most the pid before the release, and
  a release is in it only when nothing is left to kill;
- `ProcInv`: whoever is in charge of a running process knows its id or has it in
  the mail, but for the window between `Port.open` and the message;
- `PidInv`: running processes have ids of their own;
- `SlotInv`: the counter counts the holders, and those let in are at most `Max`.

A step changes one run only, except that a kill may end the process of another;
`SameKeeps` shows that this disturbs nothing, so each action has one lemma about
the run that takes it, and the counter one argument about sets that gain or lose
one member (`SlotTaken`, `SlotGiven`, `SlotKept`).

`OneShotProofs` (half a minute) proves `HostsRefineContract`: each script
implements the safety part of `HostContract`, for batches of any length. `LadderGuarded` shows script
by script that a rung that nobody catches belongs to a fragile process;
`StepOutcome` reduces all fifteen actions to five outcomes, and each of these is
a step of the contract or none.

On top of it come `SuccessIsEarned`, `RefusalIsCaused` and
`ExitTellsOutcome`. `LadderFair` shows that each rung refuses with an exit status
of its own script and never refuses a good request, and `NextDeed` reduces each
action to one of eight deeds, of which `ResultInv` (the results so far are those
of the first calls, each earned) and `EndInv` (the end says what was written;
nothing is refused without a cause) are then shown. The peer needs to know that
whoever is past its fourth rung has an operation the module exports.

The inductive invariants were checked by TLC on the instances of the runs before
they were proved.

Only model-checked is everything under fairness: `EvidenceReachesStore`,
`NoCommandWedged`, `AlwaysComesBack`, `FramesAnswered`, `HostEnds`,
`EveryRunReturns`, `SlotsDrain` and the liveness part of `HonoursContract` are
out of the prover's reach. `ReceiptsTellTruth` is model-checked only, for the
reasons above. Every other safety property of a passing run is proved, under the
hypotheses named here.

Some statements excuse the very window they are about, because the code is open
there: a slot lost between the count and the watcher, a process spawned but not
yet known to the watcher, a late `kill -9` (`Subprocess`), and the silent end of
a fragile script (`HonoursContract`). The window is spelled out in each
statement; what is checked is that there is no other.

## 6. Findings

1. `slow_effect`. `claim_actuation` hands an effect to another command when its
   claimant's lease has elapsed without an anchor; the confirmation before DO
   checks the command claim only. A claimant that stalls there and then goes on
   dispatches the effect a second time.
2. `drain_race`. The drain fetches, then commits a pending entry. If the
   executor commits its final receipt in between, the final receipt is replaced
   by the pending one and the entry is removed.
3. `resubmit`. After a death between the effect claim and the anchor, the
   resubmission that reclaims the command renews the claim time, finds its own
   command on the effect entry, and is refused for good.
4. `revoked`. Refusal codes of the authority gate are missing from
   `@pre_do_refusal_codes`, so a run that never reached DO leaves a receipt
   `failed`, which "asserts DO ran".
5. `actuator_fault`. After a failed journal append the store goes on with its
   old head although the file may have grown. The next append is acknowledged,
   its effect performed, and the next boot refuses the directory. At-most-once
   still holds, which is what the proof shows; the node does not come back.

## 7. Plan

In order, with the abstract specification or composition each is for:

1. `StateLock` (acquire, takeover and release by several processes), composed
   with `Actuator` as the licence of its single writer.
2. The pool of in-process engines.
3. `AuthorityService`: issuer and journal; `CertifiedEffects` composes it with
   `Actuator` from approval to performance.
4. `ClaimFence` for the actuator too, whose claim and clearance are one step,
   with the instance as the key and the journal as the evidence.
5. `TaskEvents` (publish, subscribe, resume, push retries).
6. `Budget` (reserve, settle, refund against the limit).
7. `Drain` (cluster drain, checkpoint, handover).
8. `AgentTask` (the task life cycle, cancel against completion).
9. `KillSwitch` and `Grants`, joined with the pre-DO gate of `CommandBus`.
10. Retention in Memory, `EkvStore` as an implementation of the store handlers.
11. `consequence_kernel` stages, the crypto registry's nonces, reconciliation,
    elicitation.

Not planned: the Chicago courts (a test harness; its statements are quoted as
intent), the semantic layer (data transformation), what the GraphLaw engine
computes, codecs, transports' encodings, Mix tasks, Kubernetes manifests, the
Swift client, and clients of external services (SPIFFE, AuthZEN), whose state
is elsewhere.
