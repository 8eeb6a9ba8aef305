----------------------------- MODULE Subprocess -----------------------------
(***************************************************************************)
(* AshA2A.GraphLaw.Subprocess: the bounded way the one-shot GraphLaw hosts *)
(* are run.  A run takes a slot of a node-wide counter, has a watcher      *)
(* process that gives the slot back whatever happens to the caller, starts *)
(* an OS process under a deadline, and returns when its slot is free.      *)
(*                                                                         *)
(* A run is one call of run/3 by a process that may be killed in the       *)
(* middle of it.  Runs that one process makes one after another are runs   *)
(* that start after another has returned.                                  *)
(***************************************************************************)
EXTENDS Integers, Sequences, FiniteSets

CONSTANTS
  Runs,            \* the calls of run/3
  Pids,            \* OS process ids; an id is used again once it is free
  Max,             \* :max_concurrency
  MaxOthers,       \* bound: processes of the machine that are none of these
  MaxDeaths,       \* bound: callers killed
  MaxFaults        \* bound: kill commands that cannot be started

ASSUME SubprocessAssumption ==
  /\ IsFiniteSet(Runs)
  /\ Pids \cap {"none", "release", "down"} = {}
  /\ Max \in Nat \ {0}
  /\ MaxOthers \in Nat
  /\ MaxDeaths \in Nat
  /\ MaxFaults \in Nat

VARIABLES
  pc,         \* where the caller of each run is
  died,       \* how far it was when it was killed, "no" if it was not
  inflight,   \* the counter
  watch,      \* the watcher of each run
  mail,       \* its mailbox, oldest message first
  knows,      \* the OS pid it was told
  released,   \* its reply is in the caller's mailbox
  proc,       \* the OS process of each run
  pid,        \* and its id while it runs
  os_pid,     \* the id the port of each caller has
  others,     \* ids of the other processes of the machine
  fault,      \* runs whose kill command could not be started
  struck      \* history: what a kill hit that was not its own process

vars == <<pc, died, inflight, watch, mail, knows, released, proc, pid, os_pid,
          others, fault, struck>>

callerVars  == <<pc, died, os_pid>>
watcherVars == <<watch, mail, knows, released>>
osVars      == <<proc, pid, others, fault, struck>>

NoPid == "none"

Init ==
  /\ pc = [r \in Runs |-> "idle"]
  /\ died = [r \in Runs |-> "no"]
  /\ inflight = 0
  /\ watch = [r \in Runs |-> "none"]
  /\ mail = [r \in Runs |-> <<>>]
  /\ knows = [r \in Runs |-> NoPid]
  /\ released = [r \in Runs |-> FALSE]
  /\ proc = [r \in Runs |-> "none"]
  /\ pid = [r \in Runs |-> NoPid]
  /\ os_pid = [r \in Runs |-> NoPid]
  /\ others = {}
  /\ fault = {}
  /\ struck = {}

-----------------------------------------------------------------------------
(* The operating system. *)

FreePids == Pids \ (others \cup {pid[q] : q \in {x \in Runs : proc[x] = "running"}})

OtherStarts(p) ==
  /\ p \in FreePids
  /\ Cardinality(others) < MaxOthers
  /\ others' = others \cup {p}
  /\ UNCHANGED <<inflight, proc, pid, fault, struck>>
  /\ UNCHANGED callerVars
  /\ UNCHANGED watcherVars

\* kill -9 on an id, by run r: whoever has that id now.  No id, no kill.
KillPid(r, p) ==
  LET hit == {q \in Runs : proc[q] = "running" /\ pid[q] = p}
  IN  /\ proc' = [q \in Runs |-> IF q \in hit THEN "ended" ELSE proc[q]]
      /\ pid' = [q \in Runs |-> IF q \in hit THEN NoPid ELSE pid[q]]
      /\ others' = others \ {p}
      /\ struck' = IF hit \subseteq {r} /\ p \notin others THEN struck
                   ELSE struck \cup {[own |-> proc[r], at |-> pc[r], died |-> died[r]]}

\* A process ends by itself and its id is free.  One that hangs never does.
Exit(r) ==
  /\ proc[r] = "running"
  /\ proc' = [proc EXCEPT ![r] = "ended"]
  /\ pid' = [pid EXCEPT ![r] = NoPid]
  /\ UNCHANGED <<inflight, others, fault, struck>>
  /\ UNCHANGED callerVars
  /\ UNCHANGED watcherVars

-----------------------------------------------------------------------------
(* The caller. *)

Goes(r, from, to) == pc[r] = from /\ pc' = [pc EXCEPT ![r] = to]

\* The port is closed.
NoPort(r) == os_pid' = [os_pid EXCEPT ![r] = NoPid]

Send(r, m) == mail' = [mail EXCEPT ![r] = Append(@, m)]

\* The executable is not there: no slot is asked for.
Unresolved(r) ==
  /\ Goes(r, "idle", "returned")
  /\ UNCHANGED <<died, os_pid, inflight>>
  /\ UNCHANGED watcherVars
  /\ UNCHANGED osVars

\* Mutant: one more than the cap is let in.
StartOneMore(r) ==
  /\ Goes(r, "idle", IF inflight > Max THEN "over" ELSE "counted")
  /\ inflight' = inflight + 1
  /\ UNCHANGED <<died, os_pid>>
  /\ UNCHANGED watcherVars
  /\ UNCHANGED osVars

\* with_slot/2: count first, look afterwards.
Start(r) ==
  /\ Goes(r, "idle", IF inflight + 1 > Max THEN "over" ELSE "counted")
  /\ inflight' = inflight + 1
  /\ UNCHANGED <<died, os_pid>>
  /\ UNCHANGED watcherVars
  /\ UNCHANGED osVars

\* Mutant: the count is given back here and again by a cleanup.
ShedTwice(r) ==
  /\ Goes(r, "over", "returned")
  /\ inflight' = inflight - 2
  /\ UNCHANGED <<died, os_pid>>
  /\ UNCHANGED watcherVars
  /\ UNCHANGED osVars

Shed(r) ==
  /\ Goes(r, "over", "returned")
  /\ inflight' = inflight - 1
  /\ UNCHANGED <<died, os_pid>>
  /\ UNCHANGED watcherVars
  /\ UNCHANGED osVars

SpawnWatcher(r) ==
  /\ Goes(r, "counted", "opening")
  /\ watch' = [watch EXCEPT ![r] = "spawned"]
  /\ UNCHANGED <<died, os_pid, inflight, mail, knows, released>>
  /\ UNCHANGED osVars

\* Port.open starts the process.
OpenPort(r) ==
  /\ Goes(r, "opening", "opened")
  /\ \E p \in FreePids :
       /\ pid' = [pid EXCEPT ![r] = p]
       /\ os_pid' = [os_pid EXCEPT ![r] = p]
  /\ proc' = [proc EXCEPT ![r] = "running"]
  /\ UNCHANGED <<died, inflight, others, fault, struck>>
  /\ UNCHANGED watcherVars

\* Port.open raises, and the rescue makes it a result.
OpenFails(r) ==
  /\ Goes(r, "opening", "release")
  /\ UNCHANGED <<died, os_pid, inflight>>
  /\ UNCHANGED watcherVars
  /\ UNCHANGED osVars

\* Mutant: the watcher is not told.
TellNobody(r) ==
  /\ Goes(r, "opened", "collect")
  /\ UNCHANGED <<died, os_pid, inflight>>
  /\ UNCHANGED watcherVars
  /\ UNCHANGED osVars

\* Port.info gives the OS pid, unless the process has ended and the port is
\* gone with it; the watcher is told.
TellWatcher(r) ==
  /\ Goes(r, "opened", "collect")
  /\ \/ Send(r, os_pid[r]) /\ UNCHANGED os_pid
     \/ proc[r] = "ended" /\ NoPort(r) /\ UNCHANGED mail
  /\ UNCHANGED <<died, inflight, watch, knows, released>>
  /\ UNCHANGED osVars

\* collect/5: the exit status arrives.
Collect(r) ==
  /\ Goes(r, "collect", "release")
  /\ proc[r] = "ended"
  /\ NoPort(r)
  /\ UNCHANGED <<died, inflight>>
  /\ UNCHANGED watcherVars
  /\ UNCHANGED osVars

\* Mutant: the receive has no after clause.
NoDeadline(r) == FALSE /\ UNCHANGED vars

\* collect/5: the deadline passes, though the status may be on its way.
Timeout(r) ==
  /\ Goes(r, "collect", "killing")
  /\ UNCHANGED <<died, os_pid, inflight>>
  /\ UNCHANGED watcherVars
  /\ UNCHANGED osVars

\* kill/2: the process is killed, the port closed and drained.
KillOwn(r) ==
  /\ Goes(r, "killing", "release")
  /\ KillPid(r, os_pid[r])
  /\ NoPort(r)
  /\ UNCHANGED <<died, inflight, fault>>
  /\ UNCHANGED watcherVars

\* System.cmd cannot start the kill and raises: the rescue answers that the
\* spawn failed, and the process and its port are left alone.
KillOwnFails(r) ==
  /\ os_pid[r] # NoPid
  /\ Cardinality(fault) < MaxFaults
  /\ Goes(r, "killing", "release")
  /\ fault' = fault \cup {r}
  /\ NoPort(r)
  /\ UNCHANGED <<died, inflight, proc, pid, others, struck>>
  /\ UNCHANGED watcherVars

\* Mutant: run/3 returns as soon as it has asked for the release.
SendReleaseOnly(r) ==
  /\ Goes(r, "release", "returned")
  /\ Send(r, "release")
  /\ UNCHANGED <<died, os_pid, inflight, watch, knows, released>>
  /\ UNCHANGED osVars

\* release_and_wait/1.
SendRelease(r) ==
  /\ Goes(r, "release", "await")
  /\ Send(r, "release")
  /\ UNCHANGED <<died, os_pid, inflight, watch, knows, released>>
  /\ UNCHANGED osVars

Return(r) ==
  /\ Goes(r, "await", "returned")
  /\ released[r]
  /\ released' = [released EXCEPT ![r] = FALSE]
  /\ UNCHANGED <<died, os_pid, inflight, watch, mail, knows>>
  /\ UNCHANGED osVars

\* The watcher did not answer within five seconds.
GiveUp(r) ==
  /\ Goes(r, "await", "late")
  /\ ~released[r]
  /\ UNCHANGED <<died, os_pid, inflight>>
  /\ UNCHANGED watcherVars
  /\ UNCHANGED osVars

Done == {"idle", "returned", "late", "dead"}

\* How far a caller is: it has a slot but no watcher, a process the watcher
\* does not know of, everything, or only the watcher's reply to wait for.
Progress(r) ==
  CASE pc[r] \in {"over", "counted"} -> "counted"
    [] pc[r] = "opened"              -> "opened"
    [] pc[r] = "await"               -> "asked"
    [] OTHER                         -> "running"

\* The caller is killed, wherever it is, and its port is closed.
KillCaller(r) ==
  /\ pc[r] \notin Done
  /\ Cardinality({q \in Runs : pc[q] = "dead"}) < MaxDeaths
  /\ pc' = [pc EXCEPT ![r] = "dead"]
  /\ died' = [died EXCEPT ![r] = Progress(r)]
  /\ NoPort(r)
  /\ IF watch[r] = "watching" THEN Send(r, "down") ELSE UNCHANGED mail
  /\ UNCHANGED <<inflight, watch, knows, released>>
  /\ UNCHANGED osVars

-----------------------------------------------------------------------------
(* The watcher. *)

Becomes(r, from, to) == watch[r] = from /\ watch' = [watch EXCEPT ![r] = to]

Gets(r, m) ==
  /\ mail[r] # <<>> /\ Head(mail[r]) = m
  /\ mail' = [mail EXCEPT ![r] = Tail(@)]

\* A process that ends takes its mailbox and its variables with it.
Forget(r) ==
  /\ mail' = [mail EXCEPT ![r] = <<>>]
  /\ knows' = [knows EXCEPT ![r] = NoPid]

\* Mutant: a caller that is gone already is waited for.
WatchStartLate(r) ==
  /\ Becomes(r, "spawned", "watching")
  /\ UNCHANGED <<inflight, mail, knows, released>>
  /\ UNCHANGED callerVars
  /\ UNCHANGED osVars

\* The monitor of a caller that is gone fires at once.
WatchStart(r) ==
  /\ Becomes(r, "spawned", "watching")
  /\ IF pc[r] = "dead" THEN Send(r, "down") ELSE UNCHANGED mail
  /\ UNCHANGED <<inflight, knows, released>>
  /\ UNCHANGED callerVars
  /\ UNCHANGED osVars

WatchPid(r) ==
  /\ watch[r] = "watching"
  /\ \E p \in Pids : Gets(r, p) /\ knows' = [knows EXCEPT ![r] = p]
  /\ UNCHANGED <<inflight, watch, released>>
  /\ UNCHANGED callerVars
  /\ UNCHANGED osVars

\* Mutant: the reply is sent before the count is given back.
WatchReleaseSwapped(r) ==
  /\ Becomes(r, "watching", "reaped")
  /\ Gets(r, "release")
  /\ released' = [released EXCEPT ![r] = TRUE]
  /\ UNCHANGED <<inflight, knows>>
  /\ UNCHANGED callerVars
  /\ UNCHANGED osVars

\* Mutant: the watcher kills on every way out.
WatchReleaseKills(r) ==
  /\ Becomes(r, "watching", "freed")
  /\ Gets(r, "release")
  /\ inflight' = inflight - 1
  /\ KillPid(r, knows[r])
  /\ UNCHANGED <<knows, released, fault>>
  /\ UNCHANGED callerVars

\* A release: the count is given back first.
WatchRelease(r) ==
  /\ Becomes(r, "watching", "freed")
  /\ Gets(r, "release")
  /\ inflight' = inflight - 1
  /\ UNCHANGED <<knows, released>>
  /\ UNCHANGED callerVars
  /\ UNCHANGED osVars

\* And then the caller is told.
WatchReply(r) ==
  /\ Becomes(r, "freed", "gone")
  /\ released' = [released EXCEPT ![r] = TRUE]
  /\ Forget(r)
  /\ UNCHANGED inflight
  /\ UNCHANGED callerVars
  /\ UNCHANGED osVars

\* Mutant: a caller that died before it had a process needs no cleanup.
WatchDownEarly(r) ==
  /\ Becomes(r, "watching", IF knows[r] # NoPid THEN "reaped" ELSE "gone")
  /\ Gets(r, "down")
  /\ KillPid(r, knows[r])
  /\ UNCHANGED <<inflight, knows, released, fault>>
  /\ UNCHANGED callerVars

\* The caller died: its process is killed if the watcher knows it.
WatchDown(r) ==
  /\ Becomes(r, "watching", "reaped")
  /\ Gets(r, "down")
  /\ KillPid(r, knows[r])
  /\ UNCHANGED <<inflight, knows, released, fault>>
  /\ UNCHANGED callerVars

\* And then the count is given back.
WatchFree(r) ==
  /\ Becomes(r, "reaped", "gone")
  /\ inflight' = inflight - 1
  /\ Forget(r)
  /\ UNCHANGED released
  /\ UNCHANGED callerVars
  /\ UNCHANGED osVars

\* System.cmd cannot start the kill: the watcher dies of it.
WatchFault(r) ==
  /\ Becomes(r, "watching", "crashed")
  /\ Gets(r, "down")
  /\ knows[r] # NoPid
  /\ Cardinality(fault) < MaxFaults
  /\ fault' = fault \cup {r}
  /\ UNCHANGED <<inflight, knows, released, proc, pid, others, struck>>
  /\ UNCHANGED callerVars

-----------------------------------------------------------------------------
Caller(r) ==
  \/ Shed(r) \/ SpawnWatcher(r) \/ OpenPort(r) \/ OpenFails(r) \/ TellWatcher(r)
  \/ Collect(r) \/ Timeout(r) \/ KillOwn(r) \/ KillOwnFails(r)
  \/ SendRelease(r) \/ Return(r) \/ GiveUp(r)

Watcher(r) ==
  \/ WatchStart(r) \/ WatchPid(r) \/ WatchRelease(r) \/ WatchReply(r)
  \/ WatchDown(r) \/ WatchFree(r) \/ WatchFault(r)

Next ==
  \/ \E r \in Runs : Unresolved(r) \/ Start(r) \/ Caller(r) \/ Watcher(r)
                    \/ Exit(r) \/ KillCaller(r)
  \/ \E p \in Pids : OtherStarts(p)

Spec == Init /\ [][Next]_vars

\* BEAM processes are scheduled, and a receive with an after clause ends.
\* An OS process may hang for ever, and nobody need call run/3.
FairSpec == Spec /\ \A r \in Runs : WF_vars(Caller(r)) /\ WF_vars(Watcher(r))

-----------------------------------------------------------------------------
(* Properties. *)

PcValues ==
  {"idle", "over", "counted", "opening", "opened", "collect", "killing",
   "release", "await", "returned", "late", "dead"}

WatchValues ==
  {"none", "spawned", "watching", "freed", "reaped", "gone", "crashed"}

TypeOK ==
  /\ pc \in [Runs -> PcValues]
  /\ died \in [Runs -> {"no", "counted", "opened", "running", "asked"}]
  /\ inflight \in Nat
  /\ watch \in [Runs -> WatchValues]
  /\ mail \in [Runs -> Seq(Pids \cup {"release", "down"})]
  /\ knows \in [Runs -> Pids \cup {NoPid}]
  /\ released \in [Runs -> BOOLEAN]
  /\ proc \in [Runs -> {"none", "running", "ended"}]
  /\ pid \in [Runs -> Pids \cup {NoPid}]
  /\ os_pid \in [Runs -> Pids \cup {NoPid}]
  /\ others \subseteq Pids
  /\ fault \subseteq Runs
  /\ \A s \in struck : s.at \in PcValues

\* A slot nobody will ever give back: its caller was killed between the
\* count and the watcher, or its watcher died of a kill it could not start.
Lost(r) ==
  \/ died[r] = "counted"
  \/ watch[r] = "crashed"

Holds(r) ==
  \/ pc[r] \in {"over", "counted"}
  \/ watch[r] \in {"spawned", "watching", "reaped"}
  \/ Lost(r)

Holders == {r \in Runs : Holds(r)}

\* The counter is the number of runs that hold a slot, in whatever order
\* callers are killed and watchers take their mail: no slot is given back
\* twice, and none is lost but in the two ways Lost names.
SlotsAccounted == inflight = Cardinality(Holders)

\* A process that neither a caller nor a watcher is left to kill.
Orphan(r) == proc[r] = "running" /\ (died[r] = "opened" \/ r \in fault)

\* At most Max processes run at a time, orphans aside: a slot is free only
\* after its process is gone.
CapRespected ==
  Cardinality({r \in Runs : proc[r] = "running" /\ ~Orphan(r)}) <= Max

\* When a run is over and its watcher gone, so is its OS process, unless the
\* caller was killed between Port.open and the message to the watcher, or
\* the kill could not be started.
NoOrphan ==
  \A r \in Runs :
    /\ proc[r] = "running"
    /\ pc[r] \in Done
    /\ watch[r] \notin {"spawned", "watching"}
    => Orphan(r)

\* run/3 does not return while its slot is still counted, but for a run that
\* gave up on its watcher after five seconds.
ReturnedMeansReleased == \A r \in Runs : pc[r] = "returned" => ~Holds(r)

\* A run is shed only beside Max others that have not returned: a rerun at
\* the cap is not shed because of the run before it.
ShedHasCause ==
  [][\A r \in Runs :
       pc[r] = "idle" /\ pc'[r] = "over" =>
         Cardinality({q \in Runs : /\ pc[q] \notin {"idle", "returned"}
                                   /\ watch[q] # "gone"}) >= Max]_vars

\* A kill hits a process that is not its own only when its own process has
\* ended and the id was given out again; never by a run whose caller lived
\* to ask for its release, which is why the watcher takes its mail in order.
StrikesOnlyWhenStale ==
  \A s \in struck :
    /\ s.own = "ended"
    /\ s.at = "killing" \/ (s.at = "dead" /\ s.died = "running")

\* Every run comes to an end, however its process behaves.
EveryRunReturns == \A r \in Runs : pc[r] # "idle" ~> pc[r] \in Done \ {"idle"}

\* The slot of a run that is over is given back, unless it is lost.
SlotsDrain == \A r \in Runs : pc[r] \in Done ~> (~Holds(r) \/ Lost(r) \/ pc[r] \notin Done)
=============================================================================
