-------------------------- MODULE SubprocessProofs --------------------------
(***************************************************************************)
(* For any set of runs, any cap, and any number of killed callers and      *)
(* failing kill commands: the slot counter is exact, the cap holds, no     *)
(* process is left behind but in the two ways the code leaves open, run/3  *)
(* returns with its slot free, and a kill misses its process only when it  *)
(* comes too late.                                                         *)
(*                                                                         *)
(* The argument goes run by run.  A step of one run changes only that run, *)
(* but for a kill, which may end the process of another (Same), and that   *)
(* disturbs nothing the invariant says of the other (SameKeeps).           *)
(***************************************************************************)
EXTENDS Subprocess, SequenceTheorems, FiniteSetTheorems, TLAPS

Messages == Pids \cup {"release", "down"}

Letters(s) == {s[k] : k \in 1 .. Len(s)}

\* Nothing is left for the caller of r to kill.
Settled(r) == proc[r] # "running" \/ r \in fault

\* The release is in the mailbox, with at most the OS pid before it.
ReleaseFirst(s) ==
  \/ Len(s) >= 1 /\ s[1] = "release"
  \/ Len(s) >= 2 /\ s[1] \in Pids /\ s[2] = "release"

\* A caller and its watcher agree on who of them is left.
Agree(r) ==
  /\ pc[r] \in {"idle", "over", "counted"} => watch[r] = "none"
  /\ pc[r] \in {"opening", "opened", "collect", "killing", "release"} =>
       watch[r] \in {"spawned", "watching"}
  /\ pc[r] \in {"await", "late"} => watch[r] \in {"spawned", "watching", "freed", "gone"}
  /\ pc[r] = "returned" => watch[r] \in {"none", "gone"}
  /\ pc[r] = "dead" <=> died[r] # "no"
  /\ died[r] = "counted" => watch[r] = "none"
  /\ pc[r] = "dead" /\ died[r] # "counted" => watch[r] # "none"
  /\ released[r] => watch[r] = "gone"

\* What the mailbox of a watcher may hold, and in which order.
MailInv(r) ==
  /\ \/ pc[r] \in {"idle", "over", "counted", "opening", "opened"}
     \/ watch[r] \in {"none", "gone"}
     => mail[r] = <<>> /\ knows[r] = NoPid
  /\ pc[r] \in {"collect", "killing", "release"} =>
       Len(mail[r]) = 0 \/ (Len(mail[r]) = 1 /\ mail[r][1] \in Pids)
  /\ "down" \in Letters(mail[r]) => pc[r] = "dead"
  /\ "release" \in Letters(mail[r]) =>
       /\ pc[r] \in {"await", "late"} \/ died[r] = "asked"
       /\ Settled(r)
  /\ watch[r] \in {"spawned", "watching"} /\ (pc[r] \in {"await", "late"} \/ died[r] = "asked") =>
       ReleaseFirst(mail[r])
  /\ died[r] = "opened" => knows[r] = NoPid /\ Letters(mail[r]) \cap Pids = {}

\* Who knows the process of a run, and when it is over.
ProcInv(r) ==
  /\ proc[r] = "running" => pid[r] \in Pids
  /\ pc[r] \in {"idle", "over", "counted", "opening"} \/ watch[r] = "none" => proc[r] = "none"
  /\ pc[r] \in {"opened", "collect", "killing"} =>
       /\ proc[r] # "none"
       /\ proc[r] = "running" => os_pid[r] = pid[r]
  /\ pc[r] = "opened" => os_pid[r] \in Pids
  /\ pc[r] \in {"release", "await", "returned", "late"} \/ died[r] = "asked" => Settled(r)
  /\ watch[r] = "freed" => Settled(r)
  /\ watch[r] \in {"reaped", "gone"} => Settled(r) \/ died[r] = "opened"
  /\ watch[r] = "crashed" => r \in fault
  /\ knows[r] \in Pids => proc[r] # "none"
  /\ Letters(mail[r]) \cap Pids # {} => proc[r] # "none"
  /\ proc[r] = "running" =>
       /\ knows[r] \in {pid[r], NoPid}
       /\ \A m \in Letters(mail[r]) \cap Pids : m = pid[r]
  /\ /\ proc[r] = "running"
     /\ watch[r] \in {"spawned", "watching"}
     /\ pc[r] \in {"collect", "killing", "release"} \/ died[r] = "running"
     => knows[r] = pid[r] \/ (Len(mail[r]) > 0 /\ mail[r][1] = pid[r])

RunInv(r) == Agree(r) /\ MailInv(r) /\ ProcInv(r)

\* No two processes of the machine have one id.
PidInv ==
  \A q \in Runs :
    proc[q] = "running" =>
      /\ pid[q] \notin others
      /\ \A s \in Runs : s # q /\ proc[s] = "running" => pid[s] # pid[q]

\* The runs that were let in and have not given their slot back.
LetIn(r) == pc[r] = "counted" \/ watch[r] \in {"spawned", "watching", "reaped"}

Admitted == {r \in Runs : LetIn(r)}

SlotInv == SlotsAccounted /\ Cardinality(Admitted) <= Max

Inv == TypeOK /\ (\A r \in Runs : RunInv(r)) /\ PidInv /\ SlotInv /\ StrikesOnlyWhenStale

-----------------------------------------------------------------------------
(* Mailboxes. *)

\* What a message added to a mailbox does to its contents and its order.
LEMMA AppendLetters ==
  ASSUME NEW s \in Seq(Messages), NEW m \in Messages
  PROVE  /\ Append(s, m) \in Seq(Messages)
         /\ Len(s) \in Nat /\ Len(Append(s, m)) = Len(s) + 1
         /\ Letters(Append(s, m)) = Letters(s) \cup {m}
         /\ \A k \in 1 .. Len(s) : Append(s, m)[k] = s[k]
         /\ Append(s, m)[Len(s) + 1] = m
<1>1. /\ Append(s, m) \in Seq(Messages)
      /\ Len(s) \in Nat /\ Len(Append(s, m)) = Len(s) + 1
      /\ \A k \in 1 .. Len(s) : Append(s, m)[k] = s[k]
      /\ Append(s, m)[Len(s) + 1] = m
  BY AppendProperties, LenProperties
<1>2. 1 .. Len(Append(s, m)) = 1 .. Len(s) \cup {Len(s) + 1}
  BY <1>1
<1>3. Letters(Append(s, m)) = Letters(s) \cup {m}
  BY <1>1, <1>2 DEF Letters
<1> QED BY <1>1, <1>3

\* What taking the oldest message does.
LEMMA TailLetters ==
  ASSUME NEW s \in Seq(Messages), s # <<>>
  PROVE  /\ Tail(s) \in Seq(Messages)
         /\ Len(s) \in Nat /\ Len(s) > 0 /\ Len(Tail(s)) = Len(s) - 1
         /\ Head(s) = s[1] /\ Head(s) \in Letters(s) /\ Head(s) \in Messages
         /\ Letters(Tail(s)) \subseteq Letters(s)
         /\ Len(s) > 1 => Tail(s)[1] = s[2]
<1>1. /\ Tail(s) \in Seq(Messages)
      /\ Len(s) \in Nat /\ Len(s) > 0 /\ Len(Tail(s)) = Len(s) - 1
      /\ \A k \in 1 .. Len(Tail(s)) : Tail(s)[k] = s[k + 1]
      /\ Head(s) \in Messages
  BY HeadTailProperties, LenProperties, EmptySeq
<1>2. Head(s) = s[1]
  OBVIOUS
<1>3. Letters(Tail(s)) \subseteq Letters(s)
  BY <1>1 DEF Letters
<1> QED BY <1>1, <1>2, <1>3 DEF Letters

\* One more message at the end of a mailbox leaves what was there in place.
LEMMA GrowsByOne ==
  ASSUME NEW s \in Seq(Messages), NEW m \in Messages, NEW t, t = s \/ t = Append(s, m)
  PROVE  /\ t \in Seq(Messages)
         /\ Len(s) \in Nat
         /\ Letters(t) \subseteq Letters(s) \cup {m}
         /\ ReleaseFirst(s) => ReleaseFirst(t)
         /\ Len(t) \in {Len(s), Len(s) + 1}
         /\ \A k \in 1 .. Len(s) : t[k] = s[k]
<1>1. CASE t = s
  BY <1>1, LenProperties
<1>2. CASE t = Append(s, m)
  BY <1>2, AppendLetters DEF ReleaseFirst
<1> QED BY <1>1, <1>2

\* An empty mailbox holds nothing.
LEMMA EmptyLetters == Letters(<<>>) = {} /\ Len(<<>>) = 0
BY DEF Letters

\* The id of no process, and the watcher's two other messages, are no OS pids.
LEMMA NoPidIsNone == NoPid \notin Pids /\ "release" \notin Pids /\ "down" \notin Pids
BY SubprocessAssumption DEF NoPid

-----------------------------------------------------------------------------
(* One run at a time. *)

\* What a step of another run may do to q: at most end its process.
Same(q) ==
  /\ pc'[q] = pc[q] /\ died'[q] = died[q] /\ watch'[q] = watch[q]
  /\ mail'[q] = mail[q] /\ knows'[q] = knows[q] /\ released'[q] = released[q]
  /\ os_pid'[q] = os_pid[q]
  /\ \/ proc'[q] = proc[q] /\ pid'[q] = pid[q]
     \/ proc[q] = "running" /\ proc'[q] = "ended"
  /\ q \in fault => q \in fault'

\* A run that a step leaves alone, or whose process it ends, keeps its invariant.
LEMMA SameKeeps ==
  ASSUME NEW q \in Runs, RunInv(q), Same(q)
  PROVE  RunInv(q)'
<1>1. Settled(q) => Settled(q)'
  BY DEF Settled, Same
<1>2. Letters(mail[q])' = Letters(mail[q]) /\ ReleaseFirst(mail[q])' = ReleaseFirst(mail[q])
  BY DEF Letters, ReleaseFirst, Same
<1>3. Agree(q)'
  BY DEF RunInv, Agree, Same
<1>4. MailInv(q)'
  BY <1>1, <1>2 DEF RunInv, MailInv, Same
<1>5. ProcInv(q)'
  <2>1. CASE proc'[q] = proc[q] /\ pid'[q] = pid[q]
    BY <1>1, <1>2, <2>1 DEF RunInv, ProcInv, Same
  <2>2. CASE proc[q] = "running" /\ proc'[q] = "ended"
    BY <1>1, <1>2, <2>2 DEF RunInv, ProcInv, Same, Settled
  <2> QED BY <2>1, <2>2 DEF Same
<1> QED BY <1>3, <1>4, <1>5 DEF RunInv

\* So it is enough to look at the run that takes the step.
LEMMA RunByRun ==
  ASSUME \A q \in Runs : RunInv(q),
         NEW r \in Runs, RunInv(r)', \A q \in Runs \ {r} : Same(q)
  PROVE  (\A q \in Runs : RunInv(q))'
<1> SUFFICES ASSUME NEW q \in Runs PROVE RunInv(q)'
  OBVIOUS
<1> QED BY SameKeeps

\* The counter is positive while a run holds a slot.
LEMMA SlotHeld ==
  ASSUME TypeOK, SlotsAccounted, NEW r \in Runs, Holds(r)
  PROVE  inflight - 1 \in Nat
<1>1. r \in Holders /\ IsFiniteSet(Holders)
  BY SubprocessAssumption, FS_Subset DEF Holders
<1>2. Cardinality(Holders) # 0
  BY <1>1, FS_EmptySet
<1> QED BY <1>1, <1>2 DEF TypeOK, SlotsAccounted

-----------------------------------------------------------------------------
(* The steps. *)

\* run/3 on an executable that is not there keeps types and the runs' invariants.
LEMMA UnresolvedKeeps ==
  ASSUME Inv, NEW r \in Runs, Unresolved(r)
  PROVE  /\ TypeOK' /\ (\A q \in Runs : RunInv(q))'
         /\ \A q \in Runs \ {r} : Same(q)
<1>0. TypeOK /\ RunInv(r) /\ mail[r] \in Seq(Messages)
  BY DEF Inv, TypeOK, Messages
<1>1. mail'[r] = mail[r] /\ (Settled(r) => Settled(r)')
  BY <1>0 DEF Unresolved, Goes, watcherVars, osVars, Settled, TypeOK
<1>2. Letters(mail[r])' = Letters(mail[r]) /\ ReleaseFirst(mail[r])' = ReleaseFirst(mail[r])
  BY <1>1 DEF Letters, ReleaseFirst
<1>3. \A q \in Runs \ {r} : Same(q)
  BY <1>0 DEF Unresolved, Goes, watcherVars, osVars, Same, TypeOK
<1>4. Agree(r)'
  BY <1>0, <1>1, <1>2, NoPidIsNone
     DEF Unresolved, Goes, watcherVars, osVars, RunInv, Agree, MailInv, TypeOK
<1>5. MailInv(r)'
  BY <1>0, <1>1, <1>2, NoPidIsNone
     DEF Unresolved, Goes, watcherVars, osVars, RunInv, Agree, MailInv, ProcInv,
         ReleaseFirst, TypeOK
<1>6. ProcInv(r)'
  BY <1>0, <1>1, <1>2, NoPidIsNone
     DEF Unresolved, Goes, watcherVars, osVars, RunInv, Agree, MailInv, ProcInv,
         ReleaseFirst, Settled, TypeOK
<1>7. TypeOK'
  BY <1>0, <1>1, <1>2, NoPidIsNone
     DEF Unresolved, Goes, watcherVars, osVars, TypeOK, PcValues, WatchValues,
         Messages, RunInv, ProcInv
<1> QED BY <1>3, <1>4, <1>5, <1>6, <1>7, RunByRun DEF RunInv, Inv

\* add_get of with_slot/2.
LEMMA StartKeeps ==
  ASSUME Inv, NEW r \in Runs, Start(r)
  PROVE  /\ TypeOK' /\ (\A q \in Runs : RunInv(q))'
         /\ \A q \in Runs \ {r} : Same(q)
<1>0. TypeOK /\ RunInv(r) /\ mail[r] \in Seq(Messages)
  BY DEF Inv, TypeOK, Messages
<1>1. mail'[r] = mail[r] /\ (Settled(r) => Settled(r)')
  BY <1>0 DEF Start, Goes, watcherVars, osVars, Settled, TypeOK
<1>2. Letters(mail[r])' = Letters(mail[r]) /\ ReleaseFirst(mail[r])' = ReleaseFirst(mail[r])
  BY <1>1 DEF Letters, ReleaseFirst
<1>3. \A q \in Runs \ {r} : Same(q)
  BY <1>0 DEF Start, Goes, watcherVars, osVars, Same, TypeOK
<1>4. Agree(r)'
  BY <1>0, <1>1, <1>2, NoPidIsNone
     DEF Start, Goes, watcherVars, osVars, RunInv, Agree, MailInv, TypeOK
<1>5. MailInv(r)'
  BY <1>0, <1>1, <1>2, NoPidIsNone
     DEF Start, Goes, watcherVars, osVars, RunInv, Agree, MailInv, ProcInv,
         ReleaseFirst, TypeOK
<1>6. ProcInv(r)'
  BY <1>0, <1>1, <1>2, NoPidIsNone
     DEF Start, Goes, watcherVars, osVars, RunInv, Agree, MailInv, ProcInv,
         ReleaseFirst, Settled, TypeOK
<1>7. TypeOK'
  BY <1>0, <1>1, <1>2, NoPidIsNone
     DEF Start, Goes, watcherVars, osVars, TypeOK, PcValues, WatchValues, Messages,
         RunInv, ProcInv
<1> QED BY <1>3, <1>4, <1>5, <1>6, <1>7, RunByRun DEF RunInv, Inv

\* The shed branch of with_slot/2.
LEMMA ShedKeeps ==
  ASSUME Inv, NEW r \in Runs, Shed(r)
  PROVE  /\ TypeOK' /\ (\A q \in Runs : RunInv(q))'
         /\ \A q \in Runs \ {r} : Same(q)
<1>0. TypeOK /\ RunInv(r) /\ mail[r] \in Seq(Messages)
  BY DEF Inv, TypeOK, Messages
<1>1. mail'[r] = mail[r] /\ (Settled(r) => Settled(r)')
  BY <1>0 DEF Shed, Goes, watcherVars, osVars, Settled, TypeOK
<1>2. Letters(mail[r])' = Letters(mail[r]) /\ ReleaseFirst(mail[r])' = ReleaseFirst(mail[r])
  BY <1>1 DEF Letters, ReleaseFirst
<1>c. inflight - 1 \in Nat
  BY <1>0, SlotHeld DEF Shed, Goes, watcherVars, osVars, Holds, Inv, SlotInv
<1>3. \A q \in Runs \ {r} : Same(q)
  BY <1>0 DEF Shed, Goes, watcherVars, osVars, Same, TypeOK
<1>4. Agree(r)'
  BY <1>c, <1>0, <1>1, <1>2, NoPidIsNone
     DEF Shed, Goes, watcherVars, osVars, RunInv, Agree, MailInv, TypeOK
<1>5. MailInv(r)'
  BY <1>c, <1>0, <1>1, <1>2, NoPidIsNone
     DEF Shed, Goes, watcherVars, osVars, RunInv, Agree, MailInv, ProcInv,
         ReleaseFirst, TypeOK
<1>6. ProcInv(r)'
  BY <1>c, <1>0, <1>1, <1>2, NoPidIsNone
     DEF Shed, Goes, watcherVars, osVars, RunInv, Agree, MailInv, ProcInv,
         ReleaseFirst, Settled, TypeOK
<1>7. TypeOK'
  BY <1>c, <1>0, <1>1, <1>2, NoPidIsNone
     DEF Shed, Goes, watcherVars, osVars, TypeOK, PcValues, WatchValues, Messages,
         RunInv, ProcInv
<1> QED BY <1>3, <1>4, <1>5, <1>6, <1>7, RunByRun DEF RunInv, Inv

\* The spawn of the watcher.
LEMMA SpawnWatcherKeeps ==
  ASSUME Inv, NEW r \in Runs, SpawnWatcher(r)
  PROVE  /\ TypeOK' /\ (\A q \in Runs : RunInv(q))'
         /\ \A q \in Runs \ {r} : Same(q)
<1>0. TypeOK /\ RunInv(r) /\ mail[r] \in Seq(Messages)
  BY DEF Inv, TypeOK, Messages
<1>1. mail'[r] = mail[r] /\ (Settled(r) => Settled(r)')
  BY <1>0 DEF SpawnWatcher, Goes, osVars, Settled, TypeOK
<1>2. Letters(mail[r])' = Letters(mail[r]) /\ ReleaseFirst(mail[r])' = ReleaseFirst(mail[r])
  BY <1>1 DEF Letters, ReleaseFirst
<1>3. \A q \in Runs \ {r} : Same(q)
  BY <1>0 DEF SpawnWatcher, Goes, osVars, Same, TypeOK
<1>4. Agree(r)'
  BY <1>0, <1>1, <1>2, NoPidIsNone
     DEF SpawnWatcher, Goes, osVars, RunInv, Agree, MailInv, TypeOK
<1>5. MailInv(r)'
  BY <1>0, <1>1, <1>2, NoPidIsNone
     DEF SpawnWatcher, Goes, osVars, RunInv, Agree, MailInv, ProcInv, ReleaseFirst,
         TypeOK
<1>6. ProcInv(r)'
  BY <1>0, <1>1, <1>2, NoPidIsNone
     DEF SpawnWatcher, Goes, osVars, RunInv, Agree, MailInv, ProcInv, ReleaseFirst,
         Settled, TypeOK
<1>7. TypeOK'
  BY <1>0, <1>1, <1>2, NoPidIsNone
     DEF SpawnWatcher, Goes, osVars, TypeOK, PcValues, WatchValues, Messages, RunInv,
         ProcInv
<1> QED BY <1>3, <1>4, <1>5, <1>6, <1>7, RunByRun DEF RunInv, Inv

\* Port.open: a process with an id nobody has.
LEMMA OpenPortKeeps ==
  ASSUME Inv, NEW r \in Runs, OpenPort(r)
  PROVE  /\ TypeOK' /\ (\A q \in Runs : RunInv(q))'
         /\ \A q \in Runs \ {r} : Same(q)
<1>0. TypeOK /\ RunInv(r) /\ mail[r] \in Seq(Messages)
  BY DEF Inv, TypeOK, Messages
<1>1. mail'[r] = mail[r]
  BY <1>0 DEF OpenPort, Goes, watcherVars, TypeOK
<1>2. Letters(mail[r])' = Letters(mail[r]) /\ ReleaseFirst(mail[r])' = ReleaseFirst(mail[r])
  BY <1>1 DEF Letters, ReleaseFirst
<1>3. \A q \in Runs \ {r} : Same(q)
  BY <1>0 DEF OpenPort, Goes, FreePids, watcherVars, Same, TypeOK
<1>4. Agree(r)'
  BY <1>0, <1>1, <1>2, NoPidIsNone
     DEF OpenPort, Goes, FreePids, watcherVars, RunInv, Agree, MailInv, TypeOK
<1>5. MailInv(r)'
  BY <1>0, <1>1, <1>2, NoPidIsNone
     DEF OpenPort, Goes, FreePids, watcherVars, RunInv, Agree, MailInv, ProcInv,
         ReleaseFirst, TypeOK
<1>6. ProcInv(r)'
  BY <1>0, <1>1, <1>2, NoPidIsNone
     DEF OpenPort, Goes, FreePids, watcherVars, RunInv, Agree, MailInv, ProcInv,
         ReleaseFirst, Settled, TypeOK
<1>7. TypeOK'
  BY <1>0, <1>1, <1>2, NoPidIsNone
     DEF OpenPort, Goes, FreePids, watcherVars, TypeOK, PcValues, WatchValues,
         Messages, RunInv, ProcInv
<1> QED BY <1>3, <1>4, <1>5, <1>6, <1>7, RunByRun DEF RunInv, Inv

\* Port.open raising.
LEMMA OpenFailsKeeps ==
  ASSUME Inv, NEW r \in Runs, OpenFails(r)
  PROVE  /\ TypeOK' /\ (\A q \in Runs : RunInv(q))'
         /\ \A q \in Runs \ {r} : Same(q)
<1>0. TypeOK /\ RunInv(r) /\ mail[r] \in Seq(Messages)
  BY DEF Inv, TypeOK, Messages
<1>1. mail'[r] = mail[r] /\ (Settled(r) => Settled(r)')
  BY <1>0 DEF OpenFails, Goes, watcherVars, osVars, Settled, TypeOK
<1>2. Letters(mail[r])' = Letters(mail[r]) /\ ReleaseFirst(mail[r])' = ReleaseFirst(mail[r])
  BY <1>1 DEF Letters, ReleaseFirst
<1>3. \A q \in Runs \ {r} : Same(q)
  BY <1>0 DEF OpenFails, Goes, watcherVars, osVars, Same, TypeOK
<1>4. Agree(r)'
  BY <1>0, <1>1, <1>2, NoPidIsNone
     DEF OpenFails, Goes, watcherVars, osVars, RunInv, Agree, MailInv, TypeOK
<1>5. MailInv(r)'
  BY <1>0, <1>1, <1>2, NoPidIsNone
     DEF OpenFails, Goes, watcherVars, osVars, RunInv, Agree, MailInv, ProcInv,
         ReleaseFirst, TypeOK
<1>6. ProcInv(r)'
  BY <1>0, <1>1, <1>2, NoPidIsNone
     DEF OpenFails, Goes, watcherVars, osVars, RunInv, Agree, MailInv, ProcInv,
         ReleaseFirst, Settled, TypeOK
<1>7. TypeOK'
  BY <1>0, <1>1, <1>2, NoPidIsNone
     DEF OpenFails, Goes, watcherVars, osVars, TypeOK, PcValues, WatchValues,
         Messages, RunInv, ProcInv
<1> QED BY <1>3, <1>4, <1>5, <1>6, <1>7, RunByRun DEF RunInv, Inv

\* The OS pid on its way to the watcher.
LEMMA TellWatcherKeeps ==
  ASSUME Inv, NEW r \in Runs, TellWatcher(r)
  PROVE  /\ TypeOK' /\ (\A q \in Runs : RunInv(q))'
         /\ \A q \in Runs \ {r} : Same(q)
<1>0. TypeOK /\ RunInv(r) /\ mail[r] \in Seq(Messages)
  BY DEF Inv, TypeOK, Messages
<1>a. os_pid[r] \in Messages
  BY <1>0 DEF TellWatcher, Goes, Send, NoPort, osVars, Messages, RunInv, ProcInv
<1>1. /\ mail'[r] = mail[r] \/ mail'[r] = Append(mail[r], os_pid[r])
      /\ Settled(r) => Settled(r)'
  BY <1>0 DEF TellWatcher, Goes, Send, NoPort, osVars, Settled, TypeOK
<1>2. /\ mail'[r] \in Seq(Messages)
      /\ Len(mail[r]) \in Nat
      /\ Letters(mail[r])' \subseteq Letters(mail[r]) \cup {os_pid[r]}
      /\ ReleaseFirst(mail[r]) => ReleaseFirst(mail[r])'
      /\ Len(mail'[r]) \in {Len(mail[r]), Len(mail[r]) + 1}
      /\ \A k \in 1 .. Len(mail[r]) : mail'[r][k] = mail[r][k]
  BY <1>0, <1>a, <1>1, GrowsByOne
<1>3. \A q \in Runs \ {r} : Same(q)
  BY <1>0 DEF TellWatcher, Goes, Send, NoPort, osVars, Same, TypeOK
<1>4. Agree(r)'
  BY <1>0, <1>a, <1>1, <1>2, AppendLetters, EmptyLetters, NoPidIsNone
     DEF TellWatcher, Goes, Send, NoPort, osVars, RunInv, Agree, MailInv, TypeOK
<1>5. MailInv(r)'
  BY <1>0, <1>a, <1>1, <1>2, AppendLetters, EmptyLetters, NoPidIsNone
     DEF TellWatcher, Goes, Send, NoPort, osVars, RunInv, Agree, MailInv, ProcInv,
         ReleaseFirst, TypeOK
<1>6. ProcInv(r)'
  BY <1>0, <1>a, <1>1, <1>2, AppendLetters, EmptyLetters, NoPidIsNone
     DEF TellWatcher, Goes, Send, NoPort, osVars, RunInv, Agree, MailInv, ProcInv,
         ReleaseFirst, Settled, TypeOK
<1>7. mail' \in [Runs -> Seq(Messages)]
  <2>1. mail' = [mail EXCEPT ![r] = mail'[r]]
    BY <1>0 DEF TellWatcher, Goes, Send, NoPort, osVars, TypeOK
  <2> QED BY <1>0, <1>2, <2>1 DEF TypeOK, Messages
<1>8. TypeOK'
  BY <1>0, <1>7
     DEF TellWatcher, Goes, NoPort, osVars, TypeOK, PcValues, WatchValues, Messages,
         RunInv, ProcInv
<1> QED BY <1>3, <1>4, <1>5, <1>6, <1>8, RunByRun DEF RunInv, Inv

\* The exit status arriving in collect/5.
LEMMA CollectKeeps ==
  ASSUME Inv, NEW r \in Runs, Collect(r)
  PROVE  /\ TypeOK' /\ (\A q \in Runs : RunInv(q))'
         /\ \A q \in Runs \ {r} : Same(q)
<1>0. TypeOK /\ RunInv(r) /\ mail[r] \in Seq(Messages)
  BY DEF Inv, TypeOK, Messages
<1>1. mail'[r] = mail[r] /\ (Settled(r) => Settled(r)')
  BY <1>0 DEF Collect, Goes, NoPort, watcherVars, osVars, Settled, TypeOK
<1>2. Letters(mail[r])' = Letters(mail[r]) /\ ReleaseFirst(mail[r])' = ReleaseFirst(mail[r])
  BY <1>1 DEF Letters, ReleaseFirst
<1>3. \A q \in Runs \ {r} : Same(q)
  BY <1>0 DEF Collect, Goes, NoPort, watcherVars, osVars, Same, TypeOK
<1>4. Agree(r)'
  BY <1>0, <1>1, <1>2, NoPidIsNone
     DEF Collect, Goes, NoPort, watcherVars, osVars, RunInv, Agree, MailInv, TypeOK
<1>5. MailInv(r)'
  BY <1>0, <1>1, <1>2, NoPidIsNone
     DEF Collect, Goes, NoPort, watcherVars, osVars, RunInv, Agree, MailInv, ProcInv,
         ReleaseFirst, TypeOK
<1>6. ProcInv(r)'
  BY <1>0, <1>1, <1>2, NoPidIsNone
     DEF Collect, Goes, NoPort, watcherVars, osVars, RunInv, Agree, MailInv, ProcInv,
         ReleaseFirst, Settled, TypeOK
<1>7. TypeOK'
  BY <1>0, <1>1, <1>2, NoPidIsNone
     DEF Collect, Goes, NoPort, watcherVars, osVars, TypeOK, PcValues, WatchValues,
         Messages, RunInv, ProcInv
<1> QED BY <1>3, <1>4, <1>5, <1>6, <1>7, RunByRun DEF RunInv, Inv

\* The deadline of collect/5.
LEMMA TimeoutKeeps ==
  ASSUME Inv, NEW r \in Runs, Timeout(r)
  PROVE  /\ TypeOK' /\ (\A q \in Runs : RunInv(q))'
         /\ \A q \in Runs \ {r} : Same(q)
<1>0. TypeOK /\ RunInv(r) /\ mail[r] \in Seq(Messages)
  BY DEF Inv, TypeOK, Messages
<1>1. mail'[r] = mail[r] /\ (Settled(r) => Settled(r)')
  BY <1>0 DEF Timeout, Goes, watcherVars, osVars, Settled, TypeOK
<1>2. Letters(mail[r])' = Letters(mail[r]) /\ ReleaseFirst(mail[r])' = ReleaseFirst(mail[r])
  BY <1>1 DEF Letters, ReleaseFirst
<1>3. \A q \in Runs \ {r} : Same(q)
  BY <1>0 DEF Timeout, Goes, watcherVars, osVars, Same, TypeOK
<1>4. Agree(r)'
  BY <1>0, <1>1, <1>2, NoPidIsNone
     DEF Timeout, Goes, watcherVars, osVars, RunInv, Agree, MailInv, TypeOK
<1>5. MailInv(r)'
  BY <1>0, <1>1, <1>2, NoPidIsNone
     DEF Timeout, Goes, watcherVars, osVars, RunInv, Agree, MailInv, ProcInv,
         ReleaseFirst, TypeOK
<1>6. ProcInv(r)'
  BY <1>0, <1>1, <1>2, NoPidIsNone
     DEF Timeout, Goes, watcherVars, osVars, RunInv, Agree, MailInv, ProcInv,
         ReleaseFirst, Settled, TypeOK
<1>7. TypeOK'
  BY <1>0, <1>1, <1>2, NoPidIsNone
     DEF Timeout, Goes, watcherVars, osVars, TypeOK, PcValues, WatchValues, Messages,
         RunInv, ProcInv
<1> QED BY <1>3, <1>4, <1>5, <1>6, <1>7, RunByRun DEF RunInv, Inv

\* kill/2 ends the run's own process.
LEMMA KillOwnKeeps ==
  ASSUME Inv, NEW r \in Runs, KillOwn(r)
  PROVE  /\ TypeOK' /\ (\A q \in Runs : RunInv(q))'
         /\ \A q \in Runs \ {r} : Same(q)
<1>0. TypeOK /\ RunInv(r) /\ mail[r] \in Seq(Messages)
  BY DEF Inv, TypeOK, Messages
<1>1. mail'[r] = mail[r] /\ (Settled(r) => Settled(r)')
  BY <1>0 DEF KillOwn, Goes, KillPid, NoPort, watcherVars, Settled, TypeOK
<1>2. Letters(mail[r])' = Letters(mail[r]) /\ ReleaseFirst(mail[r])' = ReleaseFirst(mail[r])
  BY <1>1 DEF Letters, ReleaseFirst
<1>3. \A q \in Runs \ {r} : Same(q)
  BY <1>0 DEF KillOwn, Goes, KillPid, NoPort, watcherVars, Same, TypeOK
<1>4. Agree(r)'
  BY <1>0, <1>1, <1>2, NoPidIsNone
     DEF KillOwn, Goes, KillPid, NoPort, watcherVars, RunInv, Agree, MailInv, TypeOK
<1>5. MailInv(r)'
  BY <1>0, <1>1, <1>2, NoPidIsNone
     DEF KillOwn, Goes, KillPid, NoPort, watcherVars, RunInv, Agree, MailInv, ProcInv,
         ReleaseFirst, TypeOK
<1>6. ProcInv(r)'
  BY <1>0, <1>1, <1>2, NoPidIsNone
     DEF KillOwn, Goes, KillPid, NoPort, watcherVars, RunInv, Agree, MailInv, ProcInv,
         ReleaseFirst, Settled, TypeOK
<1>7. TypeOK'
  BY <1>0, <1>1, <1>2, NoPidIsNone
     DEF KillOwn, Goes, KillPid, NoPort, watcherVars, TypeOK, PcValues, WatchValues,
         Messages, RunInv, ProcInv
<1> QED BY <1>3, <1>4, <1>5, <1>6, <1>7, RunByRun DEF RunInv, Inv

\* kill/2 whose command cannot be started.
LEMMA KillOwnFailsKeeps ==
  ASSUME Inv, NEW r \in Runs, KillOwnFails(r)
  PROVE  /\ TypeOK' /\ (\A q \in Runs : RunInv(q))'
         /\ \A q \in Runs \ {r} : Same(q)
<1>0. TypeOK /\ RunInv(r) /\ mail[r] \in Seq(Messages)
  BY DEF Inv, TypeOK, Messages
<1>1. mail'[r] = mail[r] /\ (Settled(r) => Settled(r)')
  BY <1>0 DEF KillOwnFails, Goes, NoPort, watcherVars, Settled, TypeOK
<1>2. Letters(mail[r])' = Letters(mail[r]) /\ ReleaseFirst(mail[r])' = ReleaseFirst(mail[r])
  BY <1>1 DEF Letters, ReleaseFirst
<1>3. \A q \in Runs \ {r} : Same(q)
  BY <1>0 DEF KillOwnFails, Goes, NoPort, watcherVars, Same, TypeOK
<1>4. Agree(r)'
  BY <1>0, <1>1, <1>2, NoPidIsNone
     DEF KillOwnFails, Goes, NoPort, watcherVars, RunInv, Agree, MailInv, TypeOK
<1>5. MailInv(r)'
  BY <1>0, <1>1, <1>2, NoPidIsNone
     DEF KillOwnFails, Goes, NoPort, watcherVars, RunInv, Agree, MailInv, ProcInv,
         ReleaseFirst, TypeOK
<1>6. ProcInv(r)'
  BY <1>0, <1>1, <1>2, NoPidIsNone
     DEF KillOwnFails, Goes, NoPort, watcherVars, RunInv, Agree, MailInv, ProcInv,
         ReleaseFirst, Settled, TypeOK
<1>7. TypeOK'
  BY <1>0, <1>1, <1>2, NoPidIsNone
     DEF KillOwnFails, Goes, NoPort, watcherVars, TypeOK, PcValues, WatchValues,
         Messages, RunInv, ProcInv
<1> QED BY <1>3, <1>4, <1>5, <1>6, <1>7, RunByRun DEF RunInv, Inv

\* The release behind at most the OS pid in the watcher's mailbox.
LEMMA SendReleaseKeeps ==
  ASSUME Inv, NEW r \in Runs, SendRelease(r)
  PROVE  /\ TypeOK' /\ (\A q \in Runs : RunInv(q))'
         /\ \A q \in Runs \ {r} : Same(q)
<1>0. TypeOK /\ RunInv(r) /\ mail[r] \in Seq(Messages)
  BY DEF Inv, TypeOK, Messages
<1>a. "release" \in Messages
  BY <1>0 DEF SendRelease, Goes, Send, osVars, Messages, RunInv, ProcInv
<1>1. /\ mail'[r] = mail[r] \/ mail'[r] = Append(mail[r], "release")
      /\ Settled(r) => Settled(r)'
  BY <1>0 DEF SendRelease, Goes, Send, osVars, Settled, TypeOK
<1>2. /\ mail'[r] \in Seq(Messages)
      /\ Len(mail[r]) \in Nat
      /\ Letters(mail[r])' \subseteq Letters(mail[r]) \cup {"release"}
      /\ ReleaseFirst(mail[r]) => ReleaseFirst(mail[r])'
      /\ Len(mail'[r]) \in {Len(mail[r]), Len(mail[r]) + 1}
      /\ \A k \in 1 .. Len(mail[r]) : mail'[r][k] = mail[r][k]
  BY <1>0, <1>a, <1>1, GrowsByOne
<1>3. \A q \in Runs \ {r} : Same(q)
  BY <1>0 DEF SendRelease, Goes, Send, osVars, Same, TypeOK
<1>4. Agree(r)'
  BY <1>0, <1>a, <1>1, <1>2, AppendLetters, EmptyLetters, NoPidIsNone
     DEF SendRelease, Goes, Send, osVars, RunInv, Agree, MailInv, TypeOK
<1>5. MailInv(r)'
  BY <1>0, <1>a, <1>1, <1>2, AppendLetters, EmptyLetters, NoPidIsNone
     DEF SendRelease, Goes, Send, osVars, RunInv, Agree, MailInv, ProcInv,
         ReleaseFirst, TypeOK
<1>6. ProcInv(r)'
  BY <1>0, <1>a, <1>1, <1>2, AppendLetters, EmptyLetters, NoPidIsNone
     DEF SendRelease, Goes, Send, osVars, RunInv, Agree, MailInv, ProcInv,
         ReleaseFirst, Settled, TypeOK
<1>7. mail' \in [Runs -> Seq(Messages)]
  <2>1. mail' = [mail EXCEPT ![r] = mail'[r]]
    BY <1>0 DEF SendRelease, Goes, Send, osVars, TypeOK
  <2> QED BY <1>0, <1>2, <2>1 DEF TypeOK, Messages
<1>8. TypeOK'
  BY <1>0, <1>7
     DEF SendRelease, Goes, osVars, TypeOK, PcValues, WatchValues, Messages, RunInv,
         ProcInv
<1> QED BY <1>3, <1>4, <1>5, <1>6, <1>8, RunByRun DEF RunInv, Inv

\* The watcher's answer taken by release_and_wait/1.
LEMMA ReturnKeeps ==
  ASSUME Inv, NEW r \in Runs, Return(r)
  PROVE  /\ TypeOK' /\ (\A q \in Runs : RunInv(q))'
         /\ \A q \in Runs \ {r} : Same(q)
<1>0. TypeOK /\ RunInv(r) /\ mail[r] \in Seq(Messages)
  BY DEF Inv, TypeOK, Messages
<1>1. mail'[r] = mail[r] /\ (Settled(r) => Settled(r)')
  BY <1>0 DEF Return, Goes, osVars, Settled, TypeOK
<1>2. Letters(mail[r])' = Letters(mail[r]) /\ ReleaseFirst(mail[r])' = ReleaseFirst(mail[r])
  BY <1>1 DEF Letters, ReleaseFirst
<1>3. \A q \in Runs \ {r} : Same(q)
  BY <1>0 DEF Return, Goes, osVars, Same, TypeOK
<1>4. Agree(r)'
  BY <1>0, <1>1, <1>2, NoPidIsNone, EmptyLetters
     DEF Return, Goes, osVars, RunInv, Agree, MailInv, TypeOK
<1>5. MailInv(r)'
  BY <1>0, <1>1, <1>2, NoPidIsNone, EmptyLetters
     DEF Return, Goes, osVars, RunInv, Agree, MailInv, ProcInv, ReleaseFirst, TypeOK
<1>6. ProcInv(r)'
  BY <1>0, <1>1, <1>2, NoPidIsNone, EmptyLetters
     DEF Return, Goes, osVars, RunInv, Agree, MailInv, ProcInv, ReleaseFirst, Settled,
         TypeOK
<1>7. TypeOK'
  BY <1>0, <1>1, <1>2, NoPidIsNone, EmptyLetters
     DEF Return, Goes, osVars, TypeOK, PcValues, WatchValues, Messages, RunInv,
         ProcInv
<1> QED BY <1>3, <1>4, <1>5, <1>6, <1>7, RunByRun DEF RunInv, Inv

\* The five seconds of release_and_wait/1 passing.
LEMMA GiveUpKeeps ==
  ASSUME Inv, NEW r \in Runs, GiveUp(r)
  PROVE  /\ TypeOK' /\ (\A q \in Runs : RunInv(q))'
         /\ \A q \in Runs \ {r} : Same(q)
<1>0. TypeOK /\ RunInv(r) /\ mail[r] \in Seq(Messages)
  BY DEF Inv, TypeOK, Messages
<1>1. mail'[r] = mail[r] /\ (Settled(r) => Settled(r)')
  BY <1>0 DEF GiveUp, Goes, watcherVars, osVars, Settled, TypeOK
<1>2. Letters(mail[r])' = Letters(mail[r]) /\ ReleaseFirst(mail[r])' = ReleaseFirst(mail[r])
  BY <1>1 DEF Letters, ReleaseFirst
<1>3. \A q \in Runs \ {r} : Same(q)
  BY <1>0 DEF GiveUp, Goes, watcherVars, osVars, Same, TypeOK
<1>4. Agree(r)'
  BY <1>0, <1>1, <1>2, NoPidIsNone
     DEF GiveUp, Goes, watcherVars, osVars, RunInv, Agree, MailInv, TypeOK
<1>5. MailInv(r)'
  BY <1>0, <1>1, <1>2, NoPidIsNone
     DEF GiveUp, Goes, watcherVars, osVars, RunInv, Agree, MailInv, ProcInv,
         ReleaseFirst, TypeOK
<1>6. ProcInv(r)'
  BY <1>0, <1>1, <1>2, NoPidIsNone
     DEF GiveUp, Goes, watcherVars, osVars, RunInv, Agree, MailInv, ProcInv,
         ReleaseFirst, Settled, TypeOK
<1>7. TypeOK'
  BY <1>0, <1>1, <1>2, NoPidIsNone
     DEF GiveUp, Goes, watcherVars, osVars, TypeOK, PcValues, WatchValues, Messages,
         RunInv, ProcInv
<1> QED BY <1>3, <1>4, <1>5, <1>6, <1>7, RunByRun DEF RunInv, Inv

\* The caller killed, its port closed, its monitor firing.
LEMMA KillCallerKeeps ==
  ASSUME Inv, NEW r \in Runs, KillCaller(r)
  PROVE  /\ TypeOK' /\ (\A q \in Runs : RunInv(q))'
         /\ \A q \in Runs \ {r} : Same(q)
<1>0. TypeOK /\ RunInv(r) /\ mail[r] \in Seq(Messages)
  BY DEF Inv, TypeOK, Messages
<1>a. "down" \in Messages
  BY <1>0 DEF KillCaller, Done, NoPort, Send, osVars, Messages, RunInv, ProcInv
<1>1. /\ mail'[r] = mail[r] \/ mail'[r] = Append(mail[r], "down")
      /\ Settled(r) => Settled(r)'
  BY <1>0 DEF KillCaller, Done, NoPort, Send, osVars, Settled, TypeOK
<1>2. /\ mail'[r] \in Seq(Messages)
      /\ Len(mail[r]) \in Nat
      /\ Letters(mail[r])' \subseteq Letters(mail[r]) \cup {"down"}
      /\ ReleaseFirst(mail[r]) => ReleaseFirst(mail[r])'
      /\ Len(mail'[r]) \in {Len(mail[r]), Len(mail[r]) + 1}
      /\ \A k \in 1 .. Len(mail[r]) : mail'[r][k] = mail[r][k]
  BY <1>0, <1>a, <1>1, GrowsByOne
<1>b. /\ pc[r] \notin Done
      /\ pc[r] \in {"over", "counted"} => died'[r] = "counted"
      /\ pc[r] = "opened" => died'[r] = "opened"
      /\ pc[r] = "await" => died'[r] = "asked"
      /\ pc[r] \notin {"over", "counted", "opened", "await"} => died'[r] = "running"
  BY <1>0 DEF KillCaller, Progress, TypeOK
<1>d. /\ pc'[r] = "dead" /\ watch'[r] = watch[r] /\ knows'[r] = knows[r]
      /\ released'[r] = released[r] /\ proc' = proc /\ pid' = pid
      /\ fault' = fault /\ (watch[r] # "watching" => mail'[r] = mail[r])
  BY <1>0 DEF KillCaller, osVars, TypeOK
<1>3. \A q \in Runs \ {r} : Same(q)
  BY <1>0 DEF KillCaller, Done, NoPort, Send, osVars, Same, TypeOK
<1>4. Agree(r)'
  BY <1>d, <1>b, <1>0, <1>a, <1>1, <1>2, AppendLetters, EmptyLetters, NoPidIsNone
     DEF Done, PcValues, RunInv, Agree, MailInv, TypeOK
<1>5. MailInv(r)'
  BY <1>d, <1>b, <1>0, <1>a, <1>1, <1>2, AppendLetters, EmptyLetters, NoPidIsNone
     DEF Done, RunInv, Agree, MailInv, ProcInv, ReleaseFirst, TypeOK
<1>6. ProcInv(r)'
  BY <1>d, <1>b, <1>0, <1>a, <1>1, <1>2, AppendLetters, EmptyLetters, NoPidIsNone
     DEF Done, PcValues, RunInv, Agree, MailInv, ProcInv, ReleaseFirst, Settled,
         TypeOK
<1>7. mail' \in [Runs -> Seq(Messages)]
  <2>1. mail' = [mail EXCEPT ![r] = mail'[r]]
    BY <1>0 DEF KillCaller, Done, NoPort, Send, osVars, TypeOK
  <2> QED BY <1>0, <1>2, <2>1 DEF TypeOK, Messages
<1>8. TypeOK'
  BY <1>0, <1>7, <1>b
     DEF KillCaller, Done, NoPort, osVars, TypeOK, PcValues, WatchValues, Messages,
         RunInv, ProcInv
<1> QED BY <1>3, <1>4, <1>5, <1>6, <1>8, RunByRun DEF RunInv, Inv

\* A process ending by itself.
LEMMA ExitKeeps ==
  ASSUME Inv, NEW r \in Runs, Exit(r)
  PROVE  /\ TypeOK' /\ (\A q \in Runs : RunInv(q))'
         /\ \A q \in Runs \ {r} : Same(q)
<1>0. TypeOK /\ RunInv(r) /\ mail[r] \in Seq(Messages)
  BY DEF Inv, TypeOK, Messages
<1>1. mail'[r] = mail[r] /\ (Settled(r) => Settled(r)')
  BY <1>0 DEF Exit, callerVars, watcherVars, Settled, TypeOK
<1>2. Letters(mail[r])' = Letters(mail[r]) /\ ReleaseFirst(mail[r])' = ReleaseFirst(mail[r])
  BY <1>1 DEF Letters, ReleaseFirst
<1>3. \A q \in Runs \ {r} : Same(q)
  BY <1>0 DEF Exit, callerVars, watcherVars, Same, TypeOK
<1>4. Agree(r)'
  BY <1>0, <1>1, <1>2, NoPidIsNone
     DEF Exit, callerVars, watcherVars, RunInv, Agree, MailInv, TypeOK
<1>5. MailInv(r)'
  BY <1>0, <1>1, <1>2, NoPidIsNone
     DEF Exit, callerVars, watcherVars, RunInv, Agree, MailInv, ProcInv, ReleaseFirst,
         TypeOK
<1>6. ProcInv(r)'
  BY <1>0, <1>1, <1>2, NoPidIsNone
     DEF Exit, callerVars, watcherVars, RunInv, Agree, MailInv, ProcInv, ReleaseFirst,
         Settled, TypeOK
<1>7. TypeOK'
  BY <1>0, <1>1, <1>2, NoPidIsNone
     DEF Exit, callerVars, watcherVars, TypeOK, PcValues, WatchValues, Messages,
         RunInv, ProcInv
<1> QED BY <1>3, <1>4, <1>5, <1>6, <1>7, RunByRun DEF RunInv, Inv

\* The watcher's monitor, set on a living or a dead caller.
LEMMA WatchStartKeeps ==
  ASSUME Inv, NEW r \in Runs, WatchStart(r)
  PROVE  /\ TypeOK' /\ (\A q \in Runs : RunInv(q))'
         /\ \A q \in Runs \ {r} : Same(q)
<1>0. TypeOK /\ RunInv(r) /\ mail[r] \in Seq(Messages)
  BY DEF Inv, TypeOK, Messages
<1>a. "down" \in Messages
  BY <1>0 DEF WatchStart, Becomes, Send, callerVars, osVars, Messages, RunInv, ProcInv
<1>1. /\ mail'[r] = mail[r] \/ mail'[r] = Append(mail[r], "down")
      /\ Settled(r) => Settled(r)'
  BY <1>0 DEF WatchStart, Becomes, Send, callerVars, osVars, Settled, TypeOK
<1>2. /\ mail'[r] \in Seq(Messages)
      /\ Len(mail[r]) \in Nat
      /\ Letters(mail[r])' \subseteq Letters(mail[r]) \cup {"down"}
      /\ ReleaseFirst(mail[r]) => ReleaseFirst(mail[r])'
      /\ Len(mail'[r]) \in {Len(mail[r]), Len(mail[r]) + 1}
      /\ \A k \in 1 .. Len(mail[r]) : mail'[r][k] = mail[r][k]
  BY <1>0, <1>a, <1>1, GrowsByOne
<1>3. \A q \in Runs \ {r} : Same(q)
  BY <1>0 DEF WatchStart, Becomes, Send, callerVars, osVars, Same, TypeOK
<1>4. Agree(r)'
  BY <1>0, <1>a, <1>1, <1>2, AppendLetters, EmptyLetters, NoPidIsNone
     DEF WatchStart, Becomes, Send, callerVars, osVars, RunInv, Agree, MailInv, TypeOK
<1>5. MailInv(r)'
  BY <1>0, <1>a, <1>1, <1>2, AppendLetters, EmptyLetters, NoPidIsNone
     DEF WatchStart, Becomes, Send, callerVars, osVars, RunInv, Agree, MailInv,
         ProcInv, ReleaseFirst, TypeOK
<1>6. ProcInv(r)'
  BY <1>0, <1>a, <1>1, <1>2, AppendLetters, EmptyLetters, NoPidIsNone
     DEF WatchStart, Becomes, Send, callerVars, osVars, RunInv, Agree, MailInv,
         ProcInv, ReleaseFirst, Settled, TypeOK
<1>7. mail' \in [Runs -> Seq(Messages)]
  <2>1. mail' = [mail EXCEPT ![r] = mail'[r]]
    BY <1>0 DEF WatchStart, Becomes, Send, callerVars, osVars, TypeOK
  <2> QED BY <1>0, <1>2, <2>1 DEF TypeOK, Messages
<1>8. TypeOK'
  BY <1>0, <1>7
     DEF WatchStart, Becomes, callerVars, osVars, TypeOK, PcValues, WatchValues,
         Messages, RunInv, ProcInv
<1> QED BY <1>3, <1>4, <1>5, <1>6, <1>8, RunByRun DEF RunInv, Inv

\* The watcher learning the OS pid.
LEMMA WatchPidKeeps ==
  ASSUME Inv, NEW r \in Runs, WatchPid(r)
  PROVE  /\ TypeOK' /\ (\A q \in Runs : RunInv(q))'
         /\ \A q \in Runs \ {r} : Same(q)
<1>0. TypeOK /\ RunInv(r) /\ mail[r] \in Seq(Messages)
  BY DEF Inv, TypeOK, Messages
<1>1. /\ mail[r] # <<>> /\ mail'[r] = Tail(mail[r])
      /\ Settled(r) => Settled(r)'
  BY <1>0 DEF WatchPid, Becomes, Gets, callerVars, osVars, Settled, TypeOK
<1>2. /\ mail'[r] \in Seq(Messages)
      /\ Len(mail[r]) \in Nat /\ Len(mail[r]) > 0 /\ Len(mail'[r]) = Len(mail[r]) - 1
      /\ Head(mail[r]) = mail[r][1] /\ Head(mail[r]) \in Letters(mail[r])
      /\ Letters(mail[r])' \subseteq Letters(mail[r])
      /\ Len(mail[r]) > 1 => mail'[r][1] = mail[r][2]
  BY <1>0, <1>1, TailLetters DEF Letters
<1>3. \A q \in Runs \ {r} : Same(q)
  BY <1>0 DEF WatchPid, Becomes, Gets, callerVars, osVars, Same, TypeOK
<1>4. Agree(r)'
  BY <1>0, <1>1, <1>2, NoPidIsNone
     DEF WatchPid, Becomes, Gets, callerVars, osVars, RunInv, Agree, MailInv, TypeOK
<1>5. MailInv(r)'
  BY <1>0, <1>1, <1>2, NoPidIsNone
     DEF WatchPid, Becomes, Gets, callerVars, osVars, RunInv, Agree, MailInv, ProcInv,
         ReleaseFirst, TypeOK
<1>6. ProcInv(r)'
  BY <1>0, <1>1, <1>2, NoPidIsNone
     DEF WatchPid, Becomes, Gets, callerVars, osVars, RunInv, Agree, MailInv, ProcInv,
         ReleaseFirst, Settled, TypeOK
<1>7. TypeOK'
  BY <1>0, <1>1, <1>2, NoPidIsNone
     DEF WatchPid, Becomes, Gets, callerVars, osVars, TypeOK, PcValues, WatchValues,
         Messages, RunInv, ProcInv
<1> QED BY <1>3, <1>4, <1>5, <1>6, <1>7, RunByRun DEF RunInv, Inv

\* The watcher giving the slot back on a release.
LEMMA WatchReleaseKeeps ==
  ASSUME Inv, NEW r \in Runs, WatchRelease(r)
  PROVE  /\ TypeOK' /\ (\A q \in Runs : RunInv(q))'
         /\ \A q \in Runs \ {r} : Same(q)
<1>0. TypeOK /\ RunInv(r) /\ mail[r] \in Seq(Messages)
  BY DEF Inv, TypeOK, Messages
<1>1. /\ mail[r] # <<>> /\ mail'[r] = Tail(mail[r])
      /\ Settled(r) => Settled(r)'
  BY <1>0 DEF WatchRelease, Becomes, Gets, callerVars, osVars, Settled, TypeOK
<1>2. /\ mail'[r] \in Seq(Messages)
      /\ Len(mail[r]) \in Nat /\ Len(mail[r]) > 0 /\ Len(mail'[r]) = Len(mail[r]) - 1
      /\ Head(mail[r]) = mail[r][1] /\ Head(mail[r]) \in Letters(mail[r])
      /\ Letters(mail[r])' \subseteq Letters(mail[r])
      /\ Len(mail[r]) > 1 => mail'[r][1] = mail[r][2]
  BY <1>0, <1>1, TailLetters DEF Letters
<1>c. inflight - 1 \in Nat
  BY <1>0, SlotHeld
     DEF WatchRelease, Becomes, Gets, callerVars, osVars, Holds, Inv, SlotInv
<1>3. \A q \in Runs \ {r} : Same(q)
  BY <1>0 DEF WatchRelease, Becomes, Gets, callerVars, osVars, Same, TypeOK
<1>4. Agree(r)'
  BY <1>c, <1>0, <1>1, <1>2, NoPidIsNone
     DEF WatchRelease, Becomes, Gets, callerVars, osVars, RunInv, Agree, MailInv,
         TypeOK
<1>5. MailInv(r)'
  BY <1>c, <1>0, <1>1, <1>2, NoPidIsNone
     DEF WatchRelease, Becomes, Gets, callerVars, osVars, RunInv, Agree, MailInv,
         ProcInv, ReleaseFirst, TypeOK
<1>6. ProcInv(r)'
  BY <1>c, <1>0, <1>1, <1>2, NoPidIsNone
     DEF WatchRelease, Becomes, Gets, callerVars, osVars, RunInv, Agree, MailInv,
         ProcInv, ReleaseFirst, Settled, TypeOK
<1>7. TypeOK'
  BY <1>c, <1>0, <1>1, <1>2, NoPidIsNone
     DEF WatchRelease, Becomes, Gets, callerVars, osVars, TypeOK, PcValues,
         WatchValues, Messages, RunInv, ProcInv
<1> QED BY <1>3, <1>4, <1>5, <1>6, <1>7, RunByRun DEF RunInv, Inv

\* The watcher's answer and end.
LEMMA WatchReplyKeeps ==
  ASSUME Inv, NEW r \in Runs, WatchReply(r)
  PROVE  /\ TypeOK' /\ (\A q \in Runs : RunInv(q))'
         /\ \A q \in Runs \ {r} : Same(q)
<1>0. TypeOK /\ RunInv(r) /\ mail[r] \in Seq(Messages)
  BY DEF Inv, TypeOK, Messages
<1>1. mail'[r] = <<>> /\ (Settled(r) => Settled(r)')
  BY <1>0 DEF WatchReply, Becomes, Forget, callerVars, osVars, Settled, TypeOK
<1>2. Letters(mail[r])' = {} /\ Len(mail'[r]) = 0
  BY <1>1, EmptyLetters DEF Letters
<1>3. \A q \in Runs \ {r} : Same(q)
  BY <1>0 DEF WatchReply, Becomes, Forget, callerVars, osVars, Same, TypeOK
<1>4. Agree(r)'
  BY <1>0, <1>1, <1>2, NoPidIsNone
     DEF WatchReply, Becomes, Forget, callerVars, osVars, RunInv, Agree, MailInv,
         TypeOK
<1>5. MailInv(r)'
  BY <1>0, <1>1, <1>2, NoPidIsNone
     DEF WatchReply, Becomes, Forget, callerVars, osVars, RunInv, Agree, MailInv,
         ProcInv, ReleaseFirst, TypeOK
<1>6. ProcInv(r)'
  BY <1>0, <1>1, <1>2, NoPidIsNone
     DEF WatchReply, Becomes, Forget, callerVars, osVars, RunInv, Agree, MailInv,
         ProcInv, ReleaseFirst, Settled, TypeOK
<1>7. TypeOK'
  BY <1>0, <1>1, <1>2, NoPidIsNone
     DEF WatchReply, Becomes, Forget, callerVars, osVars, TypeOK, PcValues,
         WatchValues, Messages, RunInv, ProcInv
<1> QED BY <1>3, <1>4, <1>5, <1>6, <1>7, RunByRun DEF RunInv, Inv

\* The watcher killing what its dead caller left.
LEMMA WatchDownKeeps ==
  ASSUME Inv, NEW r \in Runs, WatchDown(r)
  PROVE  /\ TypeOK' /\ (\A q \in Runs : RunInv(q))'
         /\ \A q \in Runs \ {r} : Same(q)
<1>0. TypeOK /\ RunInv(r) /\ mail[r] \in Seq(Messages)
  BY DEF Inv, TypeOK, Messages
<1>1. /\ mail[r] # <<>> /\ mail'[r] = Tail(mail[r])
      /\ Settled(r) => Settled(r)'
  BY <1>0 DEF WatchDown, Becomes, Gets, KillPid, callerVars, Settled, TypeOK
<1>2. /\ mail'[r] \in Seq(Messages)
      /\ Len(mail[r]) \in Nat /\ Len(mail[r]) > 0 /\ Len(mail'[r]) = Len(mail[r]) - 1
      /\ Head(mail[r]) = mail[r][1] /\ Head(mail[r]) \in Letters(mail[r])
      /\ Letters(mail[r])' \subseteq Letters(mail[r])
      /\ Len(mail[r]) > 1 => mail'[r][1] = mail[r][2]
  BY <1>0, <1>1, TailLetters DEF Letters
<1>3. \A q \in Runs \ {r} : Same(q)
  BY <1>0 DEF WatchDown, Becomes, Gets, KillPid, callerVars, Same, TypeOK
<1>4. Agree(r)'
  BY <1>0, <1>1, <1>2, NoPidIsNone
     DEF WatchDown, Becomes, Gets, KillPid, callerVars, RunInv, Agree, MailInv, TypeOK
<1>5. MailInv(r)'
  BY <1>0, <1>1, <1>2, NoPidIsNone
     DEF WatchDown, Becomes, Gets, KillPid, callerVars, RunInv, Agree, MailInv,
         ProcInv, ReleaseFirst, TypeOK
<1>6. ProcInv(r)'
  BY <1>0, <1>1, <1>2, NoPidIsNone
     DEF WatchDown, Becomes, Gets, KillPid, callerVars, RunInv, Agree, MailInv,
         ProcInv, ReleaseFirst, Settled, TypeOK
<1>7. TypeOK'
  BY <1>0, <1>1, <1>2, NoPidIsNone
     DEF WatchDown, Becomes, Gets, KillPid, callerVars, TypeOK, PcValues, WatchValues,
         Messages, RunInv, ProcInv
<1> QED BY <1>3, <1>4, <1>5, <1>6, <1>7, RunByRun DEF RunInv, Inv

\* The watcher giving the slot of a dead caller back.
LEMMA WatchFreeKeeps ==
  ASSUME Inv, NEW r \in Runs, WatchFree(r)
  PROVE  /\ TypeOK' /\ (\A q \in Runs : RunInv(q))'
         /\ \A q \in Runs \ {r} : Same(q)
<1>0. TypeOK /\ RunInv(r) /\ mail[r] \in Seq(Messages)
  BY DEF Inv, TypeOK, Messages
<1>1. mail'[r] = <<>> /\ (Settled(r) => Settled(r)')
  BY <1>0 DEF WatchFree, Becomes, Forget, callerVars, osVars, Settled, TypeOK
<1>2. Letters(mail[r])' = {} /\ Len(mail'[r]) = 0
  BY <1>1, EmptyLetters DEF Letters
<1>c. inflight - 1 \in Nat
  BY <1>0, SlotHeld
     DEF WatchFree, Becomes, Forget, callerVars, osVars, Holds, Inv, SlotInv
<1>3. \A q \in Runs \ {r} : Same(q)
  BY <1>0 DEF WatchFree, Becomes, Forget, callerVars, osVars, Same, TypeOK
<1>4. Agree(r)'
  BY <1>c, <1>0, <1>1, <1>2, NoPidIsNone
     DEF WatchFree, Becomes, Forget, callerVars, osVars, RunInv, Agree, MailInv,
         TypeOK
<1>5. MailInv(r)'
  BY <1>c, <1>0, <1>1, <1>2, NoPidIsNone
     DEF WatchFree, Becomes, Forget, callerVars, osVars, RunInv, Agree, MailInv,
         ProcInv, ReleaseFirst, TypeOK
<1>6. ProcInv(r)'
  BY <1>c, <1>0, <1>1, <1>2, NoPidIsNone
     DEF WatchFree, Becomes, Forget, callerVars, osVars, RunInv, Agree, MailInv,
         ProcInv, ReleaseFirst, Settled, TypeOK
<1>7. TypeOK'
  BY <1>c, <1>0, <1>1, <1>2, NoPidIsNone
     DEF WatchFree, Becomes, Forget, callerVars, osVars, TypeOK, PcValues,
         WatchValues, Messages, RunInv, ProcInv
<1> QED BY <1>3, <1>4, <1>5, <1>6, <1>7, RunByRun DEF RunInv, Inv

\* The watcher dying of a kill it cannot start.
LEMMA WatchFaultKeeps ==
  ASSUME Inv, NEW r \in Runs, WatchFault(r)
  PROVE  /\ TypeOK' /\ (\A q \in Runs : RunInv(q))'
         /\ \A q \in Runs \ {r} : Same(q)
<1>0. TypeOK /\ RunInv(r) /\ mail[r] \in Seq(Messages)
  BY DEF Inv, TypeOK, Messages
<1>1. /\ mail[r] # <<>> /\ mail'[r] = Tail(mail[r])
      /\ Settled(r) => Settled(r)'
  BY <1>0 DEF WatchFault, Becomes, Gets, callerVars, Settled, TypeOK
<1>2. /\ mail'[r] \in Seq(Messages)
      /\ Len(mail[r]) \in Nat /\ Len(mail[r]) > 0 /\ Len(mail'[r]) = Len(mail[r]) - 1
      /\ Head(mail[r]) = mail[r][1] /\ Head(mail[r]) \in Letters(mail[r])
      /\ Letters(mail[r])' \subseteq Letters(mail[r])
      /\ Len(mail[r]) > 1 => mail'[r][1] = mail[r][2]
  BY <1>0, <1>1, TailLetters DEF Letters
<1>3. \A q \in Runs \ {r} : Same(q)
  BY <1>0 DEF WatchFault, Becomes, Gets, callerVars, Same, TypeOK
<1>4. Agree(r)'
  BY <1>0, <1>1, <1>2, NoPidIsNone
     DEF WatchFault, Becomes, Gets, callerVars, RunInv, Agree, MailInv, TypeOK
<1>5. MailInv(r)'
  BY <1>0, <1>1, <1>2, NoPidIsNone
     DEF WatchFault, Becomes, Gets, callerVars, RunInv, Agree, MailInv, ProcInv,
         ReleaseFirst, TypeOK
<1>6. ProcInv(r)'
  BY <1>0, <1>1, <1>2, NoPidIsNone
     DEF WatchFault, Becomes, Gets, callerVars, RunInv, Agree, MailInv, ProcInv,
         ReleaseFirst, Settled, TypeOK
<1>7. TypeOK'
  BY <1>0, <1>1, <1>2, NoPidIsNone
     DEF WatchFault, Becomes, Gets, callerVars, TypeOK, PcValues, WatchValues,
         Messages, RunInv, ProcInv
<1> QED BY <1>3, <1>4, <1>5, <1>6, <1>7, RunByRun DEF RunInv, Inv

-----------------------------------------------------------------------------
(* Slots. *)

\* Sets of runs are finite.
LEMMA SetsOfRuns ==
  /\ IsFiniteSet(Holders) /\ IsFiniteSet(Admitted)
  /\ Cardinality(Holders) \in Nat /\ Cardinality(Admitted) \in Nat
BY SubprocessAssumption, FS_Subset, FS_CardinalityType DEF Holders, Admitted

\* A run that is left alone holds what it held.
LEMMA SameSlots ==
  ASSUME NEW r \in Runs, \A q \in Runs \ {r} : Same(q)
  PROVE  \A q \in Runs \ {r} : (Holds(q)' <=> Holds(q)) /\ (LetIn(q)' <=> LetIn(q))
BY DEF Same, Holds, Lost, LetIn

\* A step that takes no slot and gives none back.
LEMMA SlotKept ==
  ASSUME Inv, NEW r \in Runs, \A q \in Runs \ {r} : Same(q),
         inflight' = inflight, Holds(r)' <=> Holds(r), LetIn(r)' => LetIn(r)
  PROVE  SlotInv'
<1>1. Holders' = Holders /\ Admitted' \subseteq Admitted
  BY SameSlots DEF Holders, Admitted
<1>2. Cardinality(Admitted') <= Cardinality(Admitted) /\ Cardinality(Admitted') \in Nat
  BY <1>1, SetsOfRuns, FS_Subset, FS_CardinalityType
<1> QED BY <1>1, <1>2, SetsOfRuns, SubprocessAssumption DEF Inv, SlotInv, SlotsAccounted

\* A step that gives the slot of r back.
LEMMA SlotGiven ==
  ASSUME Inv, NEW r \in Runs, \A q \in Runs \ {r} : Same(q),
         inflight' = inflight - 1, Holds(r), ~Holds(r)', ~LetIn(r)'
  PROVE  SlotInv'
<1>1. Holders' = Holders \ {r} /\ r \in Holders /\ Admitted' \subseteq Admitted
  BY SameSlots DEF Holders, Admitted
<1>2. Cardinality(Holders') = Cardinality(Holders) - 1
  BY <1>1, SetsOfRuns, FS_RemoveElement
<1>3. Cardinality(Admitted') <= Cardinality(Admitted) /\ Cardinality(Admitted') \in Nat
  BY <1>1, SetsOfRuns, FS_Subset, FS_CardinalityType
<1> QED BY <1>2, <1>3, SetsOfRuns, SubprocessAssumption DEF Inv, SlotInv, SlotsAccounted

\* A step that takes a slot, and lets r in only below the cap.
LEMMA SlotTaken ==
  ASSUME Inv, NEW r \in Runs, \A q \in Runs \ {r} : Same(q),
         inflight' = inflight + 1, ~Holds(r), Holds(r)',
         LetIn(r)' => inflight + 1 <= Max
  PROVE  SlotInv'
<1>1. Holders' = Holders \cup {r} /\ r \notin Holders
  BY SameSlots DEF Holders
<1>2. Cardinality(Holders') = Cardinality(Holders) + 1
  BY <1>1, SetsOfRuns, FS_AddElement
<1>3. Admitted \subseteq Holders
  BY DEF Admitted, Holders, LetIn, Holds
<1>4. Cardinality(Admitted) <= Cardinality(Holders)
  BY <1>3, SetsOfRuns, FS_Subset
<1>5. Cardinality(Admitted') <= Max
  <2>1. CASE LetIn(r)'
    <3>1. Admitted' \subseteq Admitted \cup {r}
      BY SameSlots DEF Admitted
    <3>2. /\ IsFiniteSet(Admitted \cup {r})
          /\ Cardinality(Admitted \cup {r}) \in {Cardinality(Admitted), Cardinality(Admitted) + 1}
      BY SetsOfRuns, FS_AddElement, Zenon
    <3>3. Cardinality(Admitted \cup {r}) \in Nat
      BY <3>2, FS_CardinalityType
    <3>4. Cardinality(Admitted') <= Cardinality(Admitted \cup {r}) /\ Cardinality(Admitted') \in Nat
      BY <3>1, <3>2, FS_Subset, FS_CardinalityType
    <3> QED BY <1>4, <2>1, <3>2, <3>3, <3>4, SetsOfRuns, SubprocessAssumption
          DEF Inv, SlotInv, SlotsAccounted
  <2>2. CASE ~LetIn(r)'
    <3>1. Admitted' \subseteq Admitted
      BY <2>2, SameSlots DEF Admitted
    <3>2. Cardinality(Admitted') <= Cardinality(Admitted) /\ Cardinality(Admitted') \in Nat
      BY <3>1, SetsOfRuns, FS_Subset, FS_CardinalityType
    <3> QED BY <3>2, SetsOfRuns, SubprocessAssumption DEF Inv, SlotInv
  <2> QED BY <2>1, <2>2
<1> QED BY <1>2, <1>5 DEF Inv, SlotInv, SlotsAccounted

\* Every step keeps the counter exact and the cap.
LEMMA SlotStep ==
  ASSUME Inv, NEW r \in Runs,
         Unresolved(r) \/ Start(r) \/ Caller(r) \/ Watcher(r) \/ Exit(r) \/ KillCaller(r)
  PROVE  SlotInv'
<1>0. TypeOK /\ RunInv(r)
  BY DEF Inv
<1> USE DEF Holds, Lost, LetIn
<1>1. CASE Unresolved(r)
  <2>1. inflight' = inflight /\ (Holds(r)' <=> Holds(r)) /\ (LetIn(r)' => LetIn(r))
    BY <1>0, <1>1
       DEF Unresolved, Goes, watcherVars, osVars, RunInv, Agree, MailInv, TypeOK,
           PcValues
  <2> QED BY <2>1, <1>1, UnresolvedKeeps, SlotKept
<1>2. CASE SpawnWatcher(r)
  <2>1. inflight' = inflight /\ (Holds(r)' <=> Holds(r)) /\ (LetIn(r)' => LetIn(r))
    BY <1>0, <1>2 DEF SpawnWatcher, Goes, osVars, RunInv, Agree, MailInv, TypeOK, PcValues
  <2> QED BY <2>1, <1>2, SpawnWatcherKeeps, SlotKept
<1>3. CASE OpenPort(r)
  <2>1. inflight' = inflight /\ (Holds(r)' <=> Holds(r)) /\ (LetIn(r)' => LetIn(r))
    BY <1>0, <1>3
       DEF OpenPort, Goes, FreePids, watcherVars, RunInv, Agree, MailInv, TypeOK,
           PcValues
  <2> QED BY <2>1, <1>3, OpenPortKeeps, SlotKept
<1>4. CASE OpenFails(r)
  <2>1. inflight' = inflight /\ (Holds(r)' <=> Holds(r)) /\ (LetIn(r)' => LetIn(r))
    BY <1>0, <1>4
       DEF OpenFails, Goes, watcherVars, osVars, RunInv, Agree, MailInv, TypeOK,
           PcValues
  <2> QED BY <2>1, <1>4, OpenFailsKeeps, SlotKept
<1>5. CASE TellWatcher(r)
  <2>1. inflight' = inflight /\ (Holds(r)' <=> Holds(r)) /\ (LetIn(r)' => LetIn(r))
    BY <1>0, <1>5
       DEF TellWatcher, Goes, Send, NoPort, osVars, RunInv, Agree, MailInv, TypeOK,
           PcValues
  <2> QED BY <2>1, <1>5, TellWatcherKeeps, SlotKept
<1>6. CASE Collect(r)
  <2>1. inflight' = inflight /\ (Holds(r)' <=> Holds(r)) /\ (LetIn(r)' => LetIn(r))
    BY <1>0, <1>6
       DEF Collect, Goes, NoPort, watcherVars, osVars, RunInv, Agree, MailInv, TypeOK,
           PcValues
  <2> QED BY <2>1, <1>6, CollectKeeps, SlotKept
<1>7. CASE Timeout(r)
  <2>1. inflight' = inflight /\ (Holds(r)' <=> Holds(r)) /\ (LetIn(r)' => LetIn(r))
    BY <1>0, <1>7
       DEF Timeout, Goes, watcherVars, osVars, RunInv, Agree, MailInv, TypeOK,
           PcValues
  <2> QED BY <2>1, <1>7, TimeoutKeeps, SlotKept
<1>8. CASE KillOwn(r)
  <2>1. inflight' = inflight /\ (Holds(r)' <=> Holds(r)) /\ (LetIn(r)' => LetIn(r))
    BY <1>0, <1>8
       DEF KillOwn, Goes, KillPid, NoPort, watcherVars, RunInv, Agree, MailInv,
           TypeOK, PcValues
  <2> QED BY <2>1, <1>8, KillOwnKeeps, SlotKept
<1>9. CASE KillOwnFails(r)
  <2>1. inflight' = inflight /\ (Holds(r)' <=> Holds(r)) /\ (LetIn(r)' => LetIn(r))
    BY <1>0, <1>9
       DEF KillOwnFails, Goes, NoPort, watcherVars, RunInv, Agree, MailInv, TypeOK,
           PcValues
  <2> QED BY <2>1, <1>9, KillOwnFailsKeeps, SlotKept
<1>10. CASE SendRelease(r)
  <2>1. inflight' = inflight /\ (Holds(r)' <=> Holds(r)) /\ (LetIn(r)' => LetIn(r))
    BY <1>0, <1>10
       DEF SendRelease, Goes, Send, osVars, RunInv, Agree, MailInv, TypeOK, PcValues
  <2> QED BY <2>1, <1>10, SendReleaseKeeps, SlotKept
<1>11. CASE Return(r)
  <2>1. inflight' = inflight /\ (Holds(r)' <=> Holds(r)) /\ (LetIn(r)' => LetIn(r))
    BY <1>0, <1>11 DEF Return, Goes, osVars, RunInv, Agree, MailInv, TypeOK, PcValues
  <2> QED BY <2>1, <1>11, ReturnKeeps, SlotKept
<1>12. CASE GiveUp(r)
  <2>1. inflight' = inflight /\ (Holds(r)' <=> Holds(r)) /\ (LetIn(r)' => LetIn(r))
    BY <1>0, <1>12
       DEF GiveUp, Goes, watcherVars, osVars, RunInv, Agree, MailInv, TypeOK, PcValues
  <2> QED BY <2>1, <1>12, GiveUpKeeps, SlotKept
<1>13. CASE KillCaller(r)
  <2>1. inflight' = inflight /\ (Holds(r)' <=> Holds(r)) /\ (LetIn(r)' => LetIn(r))
    BY <1>0, <1>13
       DEF KillCaller, Progress, Done, NoPort, Send, osVars, RunInv, Agree, MailInv,
           TypeOK, PcValues
  <2> QED BY <2>1, <1>13, KillCallerKeeps, SlotKept
<1>14. CASE Exit(r)
  <2>1. inflight' = inflight /\ (Holds(r)' <=> Holds(r)) /\ (LetIn(r)' => LetIn(r))
    BY <1>0, <1>14
       DEF Exit, callerVars, watcherVars, RunInv, Agree, MailInv, TypeOK, PcValues
  <2> QED BY <2>1, <1>14, ExitKeeps, SlotKept
<1>15. CASE WatchStart(r)
  <2>1. inflight' = inflight /\ (Holds(r)' <=> Holds(r)) /\ (LetIn(r)' => LetIn(r))
    BY <1>0, <1>15
       DEF WatchStart, Becomes, Send, callerVars, osVars, RunInv, Agree, MailInv,
           TypeOK, PcValues
  <2> QED BY <2>1, <1>15, WatchStartKeeps, SlotKept
<1>16. CASE WatchPid(r)
  <2>1. inflight' = inflight /\ (Holds(r)' <=> Holds(r)) /\ (LetIn(r)' => LetIn(r))
    BY <1>0, <1>16, TailLetters, NoPidIsNone
       DEF WatchPid, Becomes, Gets, callerVars, osVars, RunInv, Agree, MailInv,
           TypeOK, PcValues, Letters, Messages
  <2> QED BY <2>1, <1>16, WatchPidKeeps, SlotKept
<1>17. CASE WatchReply(r)
  <2>1. inflight' = inflight /\ (Holds(r)' <=> Holds(r)) /\ (LetIn(r)' => LetIn(r))
    BY <1>0, <1>17
       DEF WatchReply, Becomes, Forget, callerVars, osVars, RunInv, Agree, MailInv,
           TypeOK, PcValues
  <2> QED BY <2>1, <1>17, WatchReplyKeeps, SlotKept
<1>18. CASE WatchDown(r)
  <2>1. inflight' = inflight /\ (Holds(r)' <=> Holds(r)) /\ (LetIn(r)' => LetIn(r))
    BY <1>0, <1>18, TailLetters, NoPidIsNone
       DEF WatchDown, Becomes, Gets, KillPid, callerVars, RunInv, Agree, MailInv,
           TypeOK, PcValues, Letters, Messages
  <2> QED BY <2>1, <1>18, WatchDownKeeps, SlotKept
<1>19. CASE WatchFault(r)
  <2>1. inflight' = inflight /\ (Holds(r)' <=> Holds(r)) /\ (LetIn(r)' => LetIn(r))
    BY <1>0, <1>19, TailLetters, NoPidIsNone
       DEF WatchFault, Becomes, Gets, callerVars, RunInv, Agree, MailInv, TypeOK,
           PcValues, Letters, Messages
  <2> QED BY <2>1, <1>19, WatchFaultKeeps, SlotKept
<1>20. CASE Shed(r)
  <2>1. inflight' = inflight - 1 /\ Holds(r) /\ ~Holds(r)' /\ ~LetIn(r)'
    BY <1>0, <1>20
       DEF Shed, Goes, watcherVars, osVars, RunInv, Agree, MailInv, TypeOK, PcValues
  <2> QED BY <2>1, <1>20, ShedKeeps, SlotGiven
<1>21. CASE WatchRelease(r)
  <2>1. inflight' = inflight - 1 /\ Holds(r) /\ ~Holds(r)' /\ ~LetIn(r)'
    BY <1>0, <1>21, TailLetters, NoPidIsNone
       DEF WatchRelease, Becomes, Gets, callerVars, osVars, RunInv, Agree, MailInv,
           TypeOK, PcValues, Letters, Messages
  <2> QED BY <2>1, <1>21, WatchReleaseKeeps, SlotGiven
<1>22. CASE WatchFree(r)
  <2>1. inflight' = inflight - 1 /\ Holds(r) /\ ~Holds(r)' /\ ~LetIn(r)'
    BY <1>0, <1>22
       DEF WatchFree, Becomes, Forget, callerVars, osVars, RunInv, Agree, MailInv,
           TypeOK, PcValues
  <2> QED BY <2>1, <1>22, WatchFreeKeeps, SlotGiven
<1>23. CASE Start(r)
  <2>1. inflight' = inflight + 1 /\ ~Holds(r) /\ Holds(r)' /\ (LetIn(r)' => inflight + 1 <= Max)
    BY <1>0, <1>23, SubprocessAssumption
       DEF Start, Goes, watcherVars, osVars, RunInv, Agree, MailInv, TypeOK, PcValues,
           Letters, Messages
  <2> QED BY <2>1, <1>23, StartKeeps, SlotTaken
<1> QED BY <1>1, <1>2, <1>3, <1>4, <1>5, <1>6, <1>7, <1>8, <1>9, <1>10, <1>11, <1>12,
          <1>13, <1>14, <1>15, <1>16, <1>17, <1>18, <1>19, <1>20, <1>21, <1>22, <1>23
   DEF Caller, Watcher

-----------------------------------------------------------------------------
(* Process ids and kills. *)

\* A kill ends the process that has the id, and nothing else.
LEMMA KillKeepsPids ==
  ASSUME Inv, NEW r \in Runs, NEW p, KillPid(r, p)
  PROVE  PidInv'
<1>1. \A q \in Runs : proc'[q] = "running" => proc[q] = "running" /\ pid'[q] = pid[q]
  BY DEF KillPid, Inv, TypeOK
<1>2. others' \subseteq others
  BY DEF KillPid
<1> QED BY <1>1, <1>2 DEF Inv, PidInv

\* A kill that misses its own process: the process has ended.
LEMMA KillStrikes ==
  ASSUME Inv, NEW r \in Runs, NEW p \in Pids \cup {NoPid}, KillPid(r, p),
         p \in Pids => proc[r] # "none",
         proc[r] = "running" => p \in {pid[r], NoPid},
         pc[r] = "killing" \/ (pc[r] = "dead" /\ (p \in Pids => died[r] = "running"))
  PROVE  StrikesOnlyWhenStale'
<1> DEFINE hit == {q \in Runs : proc[q] = "running" /\ pid[q] = p}
           s == [own |-> proc[r], at |-> pc[r], died |-> died[r]]
<1>1. CASE hit \subseteq {r} /\ p \notin others
  BY <1>1 DEF KillPid, Inv, StrikesOnlyWhenStale
<1>2. CASE ~(hit \subseteq {r} /\ p \notin others)
  <2>1. struck' = struck \cup {s}
    BY <1>2 DEF KillPid
  <2>2. p \in Pids
    BY <1>2 DEF Inv, TypeOK, RunInv, ProcInv
  <2>3. proc[r] # "running"
    <3>1. SUFFICES ASSUME proc[r] = "running" PROVE FALSE
      OBVIOUS
    <3>2. p = pid[r]
      BY <2>2, <3>1, NoPidIsNone
    <3> QED BY <1>2, <3>1, <3>2 DEF Inv, PidInv
  <2>4. proc[r] = "ended"
    BY <2>2, <2>3 DEF Inv, TypeOK
  <2>5. s.own = "ended" /\ (s.at = "killing" \/ (s.at = "dead" /\ s.died = "running"))
    BY <2>2, <2>4
  <2> HIDE DEF s
  <2> QED BY <2>1, <2>5 DEF Inv, StrikesOnlyWhenStale
<1> QED BY <1>1, <1>2

\* What the deadline's kill may hit.
LEMMA OwnKill ==
  ASSUME Inv, NEW r \in Runs, KillOwn(r)
  PROVE  PidInv' /\ StrikesOnlyWhenStale'
<1>1. RunInv(r) /\ os_pid[r] \in Pids \cup {NoPid} /\ pc[r] = "killing" /\ KillPid(r, os_pid[r])
  BY DEF Inv, TypeOK, KillOwn, Goes
<1>2. proc[r] # "none" /\ (proc[r] = "running" => os_pid[r] = pid[r])
  BY <1>1 DEF RunInv, ProcInv
<1> QED BY <1>1, <1>2, KillKeepsPids, KillStrikes

\* What the watcher's kill may hit.
LEMMA WatcherKill ==
  ASSUME Inv, NEW r \in Runs, WatchDown(r)
  PROVE  PidInv' /\ StrikesOnlyWhenStale'
<1>1. /\ RunInv(r) /\ knows[r] \in Pids \cup {NoPid} /\ KillPid(r, knows[r])
      /\ watch[r] = "watching" /\ mail[r] \in Seq(Messages) /\ mail[r] # <<>>
      /\ Head(mail[r]) = "down"
  BY DEF Inv, TypeOK, WatchDown, Becomes, Gets, Messages
<1>2. mail[r][1] = "down" /\ "down" \in Letters(mail[r])
  BY <1>1, TailLetters
<1>3. pc[r] = "dead"
  BY <1>1, <1>2 DEF RunInv, MailInv
<1>4. died[r] # "asked"
  BY <1>1, <1>2, NoPidIsNone DEF RunInv, MailInv, ReleaseFirst
<1>5. died[r] \in {"opened", "running"}
  BY <1>1, <1>3, <1>4 DEF RunInv, Agree, Inv, TypeOK
<1>6. knows[r] \in Pids => died[r] = "running" /\ proc[r] # "none"
  BY <1>1, <1>5, NoPidIsNone DEF RunInv, MailInv, ProcInv
<1>7. proc[r] = "running" => knows[r] \in {pid[r], NoPid}
  BY <1>1 DEF RunInv, ProcInv
<1> QED BY <1>1, <1>3, <1>6, <1>7, KillKeepsPids, KillStrikes

\* Every step keeps process ids apart and strikes only when stale.
LEMMA PidStep ==
  ASSUME Inv, Next
  PROVE  PidInv' /\ StrikesOnlyWhenStale'
<1> USE DEF PidInv, StrikesOnlyWhenStale
<1>1. ASSUME NEW p \in Pids, OtherStarts(p) PROVE PidInv' /\ StrikesOnlyWhenStale'
  BY <1>1 DEF Inv, OtherStarts, FreePids
<1>2. ASSUME NEW r \in Runs, OpenPort(r) PROVE PidInv' /\ StrikesOnlyWhenStale'
  BY <1>2 DEF Inv, TypeOK, OpenPort, FreePids
<1>3. ASSUME NEW r \in Runs, Exit(r) PROVE PidInv' /\ StrikesOnlyWhenStale'
  BY <1>3 DEF Inv, TypeOK, Exit
<1>4. ASSUME NEW r \in Runs, KillOwnFails(r) \/ WatchFault(r)
      PROVE PidInv' /\ StrikesOnlyWhenStale'
  BY <1>4 DEF Inv, KillOwnFails, WatchFault
<1>5. ASSUME UNCHANGED osVars PROVE PidInv' /\ StrikesOnlyWhenStale'
  BY <1>5 DEF Inv, osVars
<1> QED BY <1>1, <1>2, <1>3, <1>4, <1>5, OwnKill, WatcherKill
      DEF Next, Caller, Watcher, Unresolved, Start, Shed, SpawnWatcher, OpenFails,
          TellWatcher, Collect, Timeout, SendRelease, Return, GiveUp, KillCaller,
          WatchStart, WatchPid, WatchRelease, WatchReply, WatchFree

-----------------------------------------------------------------------------
(* The theorems. *)

\* The invariant holds at the start.
LEMMA InitInv == Init => Inv
<1> SUFFICES ASSUME Init PROVE Inv
  OBVIOUS
<1>1. TypeOK
  BY SubprocessAssumption DEF Init, TypeOK, PcValues, WatchValues
<1>2. \A r \in Runs : RunInv(r)
  BY EmptyLetters, NoPidIsNone DEF Init, RunInv, Agree, MailInv, ProcInv, Settled
<1>3. Holders = {} /\ Admitted = {}
  BY DEF Init, Holders, Holds, Lost, Admitted, LetIn
<1>4. SlotInv
  BY <1>3, FS_EmptySet, SubprocessAssumption DEF Init, SlotInv, SlotsAccounted
<1> QED BY <1>1, <1>2, <1>4 DEF Init, Inv, PidInv, StrikesOnlyWhenStale

\* Another process of the machine takes a free id.
LEMMA OtherKeeps ==
  ASSUME Inv, NEW p \in Pids, OtherStarts(p)
  PROVE  TypeOK' /\ (\A r \in Runs : RunInv(r))' /\ SlotInv'
<1>1. TypeOK'
  BY DEF Inv, TypeOK, OtherStarts, callerVars, watcherVars
<1>2. \A r \in Runs : Same(r)
  BY DEF OtherStarts, callerVars, watcherVars, Same
<1>3. (\A r \in Runs : RunInv(r))'
  BY <1>2, SameKeeps DEF Inv
<1>4. SlotInv'
  BY DEF Inv, SlotInv, SlotsAccounted, Holders, Holds, Lost, Admitted, LetIn,
         OtherStarts, callerVars, watcherVars
<1> QED BY <1>1, <1>3, <1>4

\* The invariant is inductive.
LEMMA NextInv == Inv /\ [Next]_vars => Inv'
<1> SUFFICES ASSUME Inv, [Next]_vars PROVE Inv'
  OBVIOUS
<1>1. CASE UNCHANGED vars
  <2>1. TypeOK' /\ PidInv' /\ StrikesOnlyWhenStale'
    BY <1>1 DEF vars, Inv, TypeOK, PidInv, StrikesOnlyWhenStale
  <2>2. \A r \in Runs : Same(r)
    BY <1>1 DEF vars, Same
  <2>3. (\A r \in Runs : RunInv(r))'
    BY <2>2, SameKeeps DEF Inv
  <2>4. SlotInv'
    BY <1>1 DEF vars, Inv, SlotInv, SlotsAccounted, Holders, Holds, Lost, Admitted, LetIn
  <2> QED BY <2>1, <2>3, <2>4 DEF Inv
<1>2. CASE Next
  <2>1. PidInv' /\ StrikesOnlyWhenStale'
    BY <1>2, PidStep
  <2>2. TypeOK' /\ (\A r \in Runs : RunInv(r))' /\ SlotInv'
    <3>1. ASSUME NEW r \in Runs, Caller(r)
          PROVE  TypeOK' /\ (\A q \in Runs : RunInv(q))' /\ SlotInv'
      BY <3>1, SlotStep, ShedKeeps, SpawnWatcherKeeps, OpenPortKeeps, OpenFailsKeeps,
         TellWatcherKeeps, CollectKeeps, TimeoutKeeps, KillOwnKeeps, KillOwnFailsKeeps,
         SendReleaseKeeps, ReturnKeeps, GiveUpKeeps DEF Caller
    <3>2. ASSUME NEW r \in Runs, Watcher(r)
          PROVE  TypeOK' /\ (\A q \in Runs : RunInv(q))' /\ SlotInv'
      BY <3>2, SlotStep, WatchStartKeeps, WatchPidKeeps, WatchReleaseKeeps,
         WatchReplyKeeps, WatchDownKeeps, WatchFreeKeeps, WatchFaultKeeps DEF Watcher
    <3>3. ASSUME NEW r \in Runs, Unresolved(r) \/ Start(r) \/ Exit(r) \/ KillCaller(r)
          PROVE  TypeOK' /\ (\A q \in Runs : RunInv(q))' /\ SlotInv'
      BY <3>3, SlotStep, UnresolvedKeeps, StartKeeps, ExitKeeps, KillCallerKeeps
    <3> QED BY <1>2, <3>1, <3>2, <3>3, OtherKeeps DEF Next
  <2> QED BY <2>1, <2>2 DEF Inv
<1> QED BY <1>1, <1>2

\* The inductive invariant holds in every reachable state of run/3, its
\* watchers and the OS processes they start.
THEOREM SubprocessInvariant == Spec => []Inv
BY InitInv, NextInv, PTL DEF Spec

\* Every variable of run/3 and its watchers keeps its type; the counter that
\* with_slot/2 and watch_loop/4 share never goes below zero.
THEOREM SubprocessTypes == Spec => []TypeOK
<1>1. Inv => TypeOK
  BY DEF Inv
<1> QED BY <1>1, SubprocessInvariant, PTL

\* The counter of with_slot/2 is exact: it counts the runs that hold a slot,
\* and a slot is lost only where a caller is killed between the count and the
\* spawn of its watcher, or a watcher dies of a kill it cannot start.
THEOREM CounterExact == Spec => []SlotsAccounted
<1>1. Inv => SlotsAccounted
  BY DEF Inv, SlotInv
<1> QED BY <1>1, SubprocessInvariant, PTL

\* A process that runs is one whose run was let in and holds its slot, or an
\* orphan.
LEMMA RunningIsLetIn ==
  ASSUME Inv, NEW r \in Runs, proc[r] = "running", ~Orphan(r)
  PROVE  LetIn(r)
BY DEF Inv, TypeOK, WatchValues, RunInv, Agree, ProcInv, Settled, Orphan, LetIn

\* At most :max_concurrency processes run at a time, orphans aside: the slot
\* of watch_loop/4 is given back only after the process is gone.
THEOREM CapHolds == Spec => []CapRespected
<1>1. ASSUME Inv PROVE CapRespected
  <2> DEFINE R == {r \in Runs : proc[r] = "running" /\ ~Orphan(r)}
  <2>1. R \subseteq Admitted
    BY <1>1, RunningIsLetIn DEF Admitted
  <2>2. Cardinality(R) <= Cardinality(Admitted) /\ Cardinality(R) \in Nat
    BY <2>1, SetsOfRuns, FS_Subset, FS_CardinalityType
  <2>3. Cardinality(Admitted) <= Max
    BY <1>1 DEF Inv, SlotInv
  <2> QED BY <2>2, <2>3, SetsOfRuns, SubprocessAssumption DEF CapRespected
<1> QED BY <1>1, SubprocessInvariant, PTL

\* No OS process outlives its run and its watcher, but for the two ways that
\* with_slot/2 and the kill leave open.
THEOREM ProcessesCollected == Spec => []NoOrphan
<1>1. ASSUME Inv PROVE NoOrphan
  <2> SUFFICES ASSUME NEW r \in Runs, proc[r] = "running", pc[r] \in Done,
                      watch[r] \notin {"spawned", "watching"}
               PROVE  Orphan(r)
    BY DEF NoOrphan
  <2> QED BY <1>1
     DEF Inv, TypeOK, WatchValues, RunInv, Agree, ProcInv, Settled, Orphan, Done
<1> QED BY <1>1, SubprocessInvariant, PTL

\* run/3 returns with its slot free: release_and_wait/1 has seen the reply,
\* which the watcher sends after it has given the count back.
THEOREM ReturnIsRelease == Spec => []ReturnedMeansReleased
<1>1. ASSUME Inv PROVE ReturnedMeansReleased
  BY <1>1 DEF Inv, RunInv, Agree, ReturnedMeansReleased, Holds, Lost
<1> QED BY <1>1, SubprocessInvariant, PTL

\* A kill -9 hits a process that is not its run's own only when its own has
\* ended, and never once the run has asked for its release.
THEOREM KillsOwnFirst == Spec => []StrikesOnlyWhenStale
<1>1. Inv => StrikesOnlyWhenStale
  BY DEF Inv
<1> QED BY <1>1, SubprocessInvariant, PTL

\* with_slot/2 sheds a run only beside Max others that have not returned.
THEOREM ShedsForCause == Spec => ShedHasCause
<1>1. ASSUME Inv, [Next]_vars, NEW r \in Runs, pc[r] = "idle", pc'[r] = "over"
      PROVE  Cardinality({q \in Runs : /\ pc[q] \notin {"idle", "returned"}
                                       /\ watch[q] # "gone"}) >= Max
  <2> DEFINE B == {q \in Runs : pc[q] \notin {"idle", "returned"} /\ watch[q] # "gone"}
  <2>1. \E q \in Runs : Start(q) /\ q = r
    <3>1. TypeOK
      BY <1>1 DEF Inv
    <3> QED BY <1>1, <3>1
          DEF TypeOK, vars, Next, Caller, Watcher, OtherStarts, Unresolved, Start, Shed,
              SpawnWatcher, OpenPort, OpenFails, TellWatcher, Collect, Timeout, KillOwn,
              KillOwnFails, SendRelease, Return, GiveUp, KillCaller, Exit, WatchStart,
              WatchPid, WatchRelease, WatchReply, WatchDown, WatchFree, WatchFault,
              Goes, callerVars
  <2>2. inflight >= Max
    BY <1>1, <2>1, SubprocessAssumption DEF Start, Goes, Inv, TypeOK
  <2>3. Holders \subseteq B
    BY <1>1 DEF Inv, RunInv, Agree, Holders, Holds, Lost
  <2>4. IsFiniteSet(B)
    BY SubprocessAssumption, FS_Subset
  <2>5. Cardinality(Holders) <= Cardinality(B) /\ Cardinality(B) \in Nat
    BY <2>3, <2>4, FS_Subset, FS_CardinalityType
  <2> QED BY <1>1, <2>2, <2>5, SetsOfRuns, SubprocessAssumption
     DEF Inv, SlotInv, SlotsAccounted
<1>2. Inv /\ [Next]_vars =>
        [\A r \in Runs :
           pc[r] = "idle" /\ pc'[r] = "over" =>
             Cardinality({q \in Runs : /\ pc[q] \notin {"idle", "returned"}
                                       /\ watch[q] # "gone"}) >= Max]_vars
  BY <1>1
<1> QED BY <1>2, SubprocessInvariant, PTL DEF Spec, ShedHasCause
=============================================================================
