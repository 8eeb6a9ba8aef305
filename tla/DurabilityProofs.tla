-------------------------- MODULE DurabilityProofs --------------------------
(***************************************************************************)
(* What the actuator's files remember.  An effect answered as performed is *)
(* found completed by every later boot (AckInv), whatever writes fail: a   *)
(* line the process did not count makes its next line break the chain, and *)
(* boot/1 refuses that file.  While no write has failed, the process and   *)
(* its files agree (FaithInv): fold/1 of the journal is the memory of the  *)
(* running store, and a crash at any point leaves files boot/1 accepts.    *)
(***************************************************************************)
EXTENDS ActuatorProofs

-----------------------------------------------------------------------------
(* fold/1 over a journal that grows by a line. *)

\* The last of a set of positions, given one.
LEMMA LastIs ==
  ASSUME NEW n \in Nat, NEW ks \in SUBSET (1..n), NEW k \in ks, \A m \in ks : m <= k
  PROVE  Last(ks) = k
<1>1. Last(ks) \in ks /\ \A m \in ks : m <= Last(ks)
  BY LastIsLast
<1>2. Last(ks) \in 1..n /\ k \in 1..n /\ k <= Last(ks) /\ Last(ks) <= k
  BY <1>1
<1> QED BY <1>2

\* The positions of a journal, and of the journal with one line more.
LEMMA Positions ==
  ASSUME TypeOK, NEW l \in Line, journal' = Append(journal, l)
  PROVE  /\ Len(journal) \in Nat /\ Len(journal') = Len(journal) + 1
         /\ DOMAIN journal = 1..Len(journal)
         /\ DOMAIN journal' = 1..(Len(journal) + 1)
         /\ \A k \in DOMAIN journal : journal'[k] = journal[k]
         /\ journal'[Len(journal) + 1] = l
BY DEF TypeOK

\* The last of a set of positions once the new one is among them.
LEMMA LastGrows ==
  ASSUME NEW n \in Nat, NEW ks \in SUBSET (1..n)
  PROVE  Last(ks \cup {n + 1}) = n + 1
<1> DEFINE ls == ks \cup {n + 1}
<1>1. ls \in SUBSET (1..(n + 1)) /\ n + 1 \in ls /\ n + 1 \in Nat
  OBVIOUS
<1>2. \A m \in ls : m <= n + 1
  OBVIOUS
<1> QED BY <1>1, <1>2, LastIs

\* A line of another instance leaves the fold of i alone; a claim of i opens
\* its record anew; any other event moves its state.
LEMMA FoldGrows ==
  ASSUME TypeOK, NEW l \in Line, journal' = Append(journal, l), NEW i
  PROVE  /\ LineInstance(l) # i => Folded(i)' = Folded(i)
         /\ LineInstance(l) = i /\ l.t = "executing" =>
              Folded(i)' = [state |-> "executing", req |-> l.req]
         /\ LineInstance(l) = i /\ l.t # "executing" /\ ClaimsOf(i) # {} =>
              Folded(i)' = [Folded(i) EXCEPT !.state = StateAfter(l.t)]
<1> DEFINE n == Len(journal)
<1>0. /\ n \in Nat /\ DOMAIN journal = 1..n /\ DOMAIN journal' = 1..(n + 1)
      /\ \A k \in 1..n : journal'[k] = journal[k]
      /\ journal'[n + 1] = l /\ n + 1 \notin 1..n
      /\ 1..(n + 1) = (1..n) \cup {n + 1}
  BY Positions
<1>1. ClaimsOf(i) \in SUBSET (1..n) /\ EventsOf(i) \in SUBSET (1..n)
      /\ ClaimsOf(i) \subseteq EventsOf(i)
  BY <1>0 DEF ClaimsOf, EventsOf
<1> HIDE DEF n
<1>2. CASE LineInstance(l) # i
  <2>1. ClaimsOf(i)' = ClaimsOf(i) /\ EventsOf(i)' = EventsOf(i)
    BY <1>0, <1>2 DEF ClaimsOf, EventsOf, LineInstance
  <2>2. ClaimsOf(i) # {} =>
          Last(ClaimsOf(i)) \in 1..n /\ Last(EventsOf(i)) \in 1..n
    BY <1>0, <1>1, LastIsLast
  <2> QED BY <1>0, <1>2, <2>1, <2>2 DEF Folded
<1>3. CASE LineInstance(l) = i
  <2>1. EventsOf(i)' = EventsOf(i) \cup {n + 1}
    BY <1>0, <1>3 DEF EventsOf, LineInstance
  <2>2. Last(EventsOf(i)') = n + 1
    BY <1>0, <1>1, <2>1, LastGrows
  <2>3. CASE l.t = "executing"
    <3>1. ClaimsOf(i)' = ClaimsOf(i) \cup {n + 1}
      BY <1>0, <1>3, <2>3 DEF ClaimsOf, LineInstance
    <3>2. Last(ClaimsOf(i)') = n + 1 /\ ClaimsOf(i)' # {}
      BY <1>0, <1>1, <3>1, LastGrows
    <3>3. StateAfter("executing") = "executing"
      BY DEF StateAfter
    <3> QED BY <1>0, <1>3, <2>2, <2>3, <3>2, <3>3 DEF Folded
  <2>4. CASE l.t # "executing"
    <3>1. ClaimsOf(i)' = ClaimsOf(i)
      BY <1>0, <1>3, <2>4 DEF ClaimsOf, LineInstance
    <3>2. ClaimsOf(i) # {} => Last(ClaimsOf(i)) \in 1..n
      BY <1>0, <1>1, LastIsLast
    <3> QED BY <1>0, <1>3, <2>2, <2>4, <3>1, <3>2 DEF Folded
  <2> QED BY <2>3, <2>4
<1> QED BY <1>2, <1>3

\* A claim takes its nonces; any other line leaves their owners alone.
LEMMA OwnerGrows ==
  ASSUME TypeOK, NEW l \in Line, journal' = Append(journal, l), NEW x
  PROVE  FoldedOwner(x)' = IF l.t = "executing" /\ x \in NoncesOf[l.req]
                           THEN LineInstance(l) ELSE FoldedOwner(x)
<1> DEFINE n == Len(journal)
<1>0. /\ n \in Nat /\ DOMAIN journal = 1..n /\ DOMAIN journal' = 1..(n + 1)
      /\ \A k \in 1..n : journal'[k] = journal[k]
      /\ journal'[n + 1] = l /\ n + 1 \notin 1..n
      /\ 1..(n + 1) = (1..n) \cup {n + 1}
  BY Positions
<1>1. BindersOf(x) \in SUBSET (1..n)
  BY <1>0 DEF BindersOf
<1> HIDE DEF n
<1>2. CASE l.t = "executing" /\ x \in NoncesOf[l.req]
  <2>1. BindersOf(x)' = BindersOf(x) \cup {n + 1}
    BY <1>0, <1>2 DEF BindersOf
  <2>2. Last(BindersOf(x)') = n + 1 /\ BindersOf(x)' # {}
    BY <1>0, <1>1, <2>1, LastGrows
  <2> QED BY <1>0, <1>2, <2>2 DEF FoldedOwner, LineInstance
<1>3. CASE ~(l.t = "executing" /\ x \in NoncesOf[l.req])
  <2>1. BindersOf(x)' = BindersOf(x)
    BY <1>0, <1>3 DEF BindersOf
  <2>2. BindersOf(x) # {} => Last(BindersOf(x)) \in 1..n
    BY <1>0, <1>1, LastIsLast
  <2> QED BY <1>0, <1>3, <2>1, <2>2 DEF FoldedOwner, LineInstance
<1> QED BY <1>2, <1>3

-----------------------------------------------------------------------------
(* Whose record the process has in hand. *)

\* A record belongs to a request of its instance; the claim in hand is
\* executing, the one being reconciled unknown.
OwnInv ==
  /\ pc # "down" =>
       \A i \in Instances :
         records[i].state # "none" =>
           records[i].req \in Requests /\ InstanceOf[records[i].req] = i
  /\ pc \in {"perform", "complete", "unknown"} =>
       cur \in Requests /\ records[InstanceOf[cur]].state = "executing"
  /\ pc = "reconcile" =>
       cur \in Requests /\ records[InstanceOf[cur]].state = "unknown_outcome"

\* fold/1 gives an instance a record of one of its own requests.
LEMMA FoldedOwn ==
  ASSUME TypeOK, NonceInv, NEW i, ClaimsOf(i) # {}
  PROVE  Folded(i).req \in Requests /\ InstanceOf[Folded(i).req] = i
<1>1. Len(journal) \in Nat /\ ClaimsOf(i) \in SUBSET (1..Len(journal))
  BY DEF TypeOK, ClaimsOf
<1>2. Last(ClaimsOf(i)) \in ClaimsOf(i)
  BY <1>1, LastIsLast
<1> QED BY <1>2 DEF Folded, ClaimsOf, LineInstance, NonceInv

\* Settling moves the state of one record.
LEMMA SettleMoves ==
  ASSUME TypeOK, NEW i0 \in Instances, NEW state, Settle(i0, state)
  PROVE  \A i \in Instances :
           /\ records'[i].req = records[i].req
           /\ records'[i].state = IF i = i0 THEN state ELSE records[i].state
BY DEF TypeOK, Record, Settle

\* Every step keeps records with their owners.
LEMMA OwnStep ==
  ASSUME TypeOK, ActuatorInv, OwnInv, [Next]_vars
  PROVE  OwnInv'
<1> USE RequestAssumption DEF OwnInv
<1>0. pc \in Pcs /\ records \in [Instances -> Record]
  BY DEF TypeOK
<1>1. CASE Boot
  <2>1. ASSUME NEW i \in Instances, records'[i].state # "none"
        PROVE  records'[i].req \in Requests /\ InstanceOf[records'[i].req] = i
    <3>1. records'[i] = Folded(i)
      BY <1>1 DEF Boot
    <3>2. ClaimsOf(i) # {}
      BY <2>1, <3>1 DEF Folded, NoRecord
    <3> QED BY <3>1, <3>2, FoldedOwn DEF ActuatorInv
  <2> QED BY <1>1, <2>1 DEF Boot
<1>2. CASE BootRefused
  BY <1>2 DEF BootRefused, memoryVars
<1>3. CASE \E i \in Instances : MarkUnknown(i)
  BY <1>3, SettleMoves DEF MarkUnknown, Unsettled
<1>4. CASE BootDone
  BY <1>4 DEF BootDone, memoryVars
<1>5. CASE Claim
  <2>1. cur \in Requests /\ InstanceOf[cur] \in Instances /\ pc = "claim"
    BY <1>5 DEF Claim, ActuatorInv, ClaimInv
  <2>2. CASE /\ pc' = "perform" /\ UNCHANGED cur
             /\ records' = [records EXCEPT ![InstanceOf[cur]] =
                             [state |-> "executing", req |-> cur]]
    BY <1>0, <2>1, <2>2
  <2>3. CASE pc' = "idle" /\ UNCHANGED records
    BY <2>1, <2>3
  <2> QED BY <1>5, <2>2, <2>3 DEF Claim
<1>6. CASE Perform
  BY <1>6 DEF Perform
<1>7. CASE Complete
  BY <1>7, SettleMoves DEF Complete
<1>8. CASE Unknown
  BY <1>8, SettleMoves DEF Unknown
<1>9. CASE ReconcileAppend
  BY <1>9, SettleMoves DEF ReconcileAppend
<1>10. CASE \E q \in Requests : Execute(q)
  BY <1>10 DEF Execute, memoryVars
<1>11. CASE \E i \in Instances : Reconcile(i)
  BY <1>11 DEF Reconcile, memoryVars
<1>12. CASE Crash
  BY <1>12 DEF Crash
<1>13. CASE UNCHANGED vars
  BY <1>13 DEF vars, memoryVars
<1> QED BY <1>1, <1>2, <1>3, <1>4, <1>5, <1>6, <1>7, <1>8, <1>9, <1>10, <1>11,
           <1>12, <1>13 DEF Next, StoreStep

-----------------------------------------------------------------------------
(* What was answered stays written. *)

\* The claim of q is the last claim of its instance.
ClaimedLast(q) ==
  \E c \in DOMAIN journal :
    /\ journal[c].t = "executing" /\ journal[c].req = q
    /\ \A m \in ClaimsOf(InstanceOf[q]) : m <= c

\* The completion of q is the last event of its instance.
CompletedLast(q) ==
  \E k \in DOMAIN journal :
    /\ journal[k].t = "completed" /\ journal[k].req = q
    /\ \A m \in EventsOf(InstanceOf[q]) : m <= k

Ledgered(q) == \E e \in DOMAIN ledger : ledger[e].req = q

\* An answer is backed by files that are undamaged and by the memory of the
\* running process; a claim in hand is backed by the journal.
AckInv ==
  /\ \A q \in Requests :
       answer[q] = "performed" =>
         /\ Chained(journal) =>
              /\ ClaimedLast(q) /\ CompletedLast(q)
              /\ pc # "down" => records[InstanceOf[q]].state = "completed"
         /\ Chained(ledger) => q \in Probes \/ Ledgered(q)
  /\ pc \in {"perform", "complete", "unknown"} /\ Chained(journal) => ClaimedLast(cur)
  /\ pc = "complete" /\ Chained(ledger) => cur \in Probes \/ Ledgered(cur)

\* A line is never added to an instance the process knows as completed.
OpenStep ==
  \/ UNCHANGED journal
  \/ \E l \in Line :
       /\ journal' = Append(journal, l)
       /\ l.t # "garbage" => records[LineInstance(l)].state # "completed" /\ pc # "down"

\* The ledger grows by at most a line; the effector's line is that of cur.
LedgerStep ==
  /\ ledger' = ledger \/ \E l \in Line : ledger' = Append(ledger, l)
  /\ pc' = "complete" =>
       /\ cur' = cur
       /\ \/ pc = "complete" \/ cur \in Probes
          \/ ledger' = Written(ledger, ltorn, LedgerLine(cur))

\* How a claim comes into hand, and how it is answered.
AnswerStep ==
  /\ \A q \in Requests :
       answer'[q] = "performed" =>
         \/ answer[q] = "performed"
         \/ /\ pc = "complete" /\ q = cur /\ JournalAppend("completed", q)
            /\ records'[InstanceOf[q]].state = "completed"
  /\ pc' \in {"perform", "complete", "unknown"} =>
       /\ cur' = cur
       /\ \/ pc \in {"perform", "complete", "unknown"}
          \/ pc = "claim" /\ JournalAppend("executing", cur)
  /\ pc # "down" /\ pc' # "down" =>
       \A i \in Instances :
         records[i].state = "completed" => records'[i].state = "completed"
  /\ pc = "down" /\ pc' # "down" => Boot

\* An append of an event of q, done, failed or interrupted.
LEMMA OneLineOpen ==
  ASSUME TypeOK, pc # "down", NEW event \in Events, NEW q \in Requests,
         records[InstanceOf[q]].state # "completed", AtMostOneLine(event, q)
  PROVE  OpenStep
<1>1. JournalLine(event, q) \in Line /\ JournalLine(event, q).req = q
  BY LineTypes DEF JournalLine
<1>2. Garbage \in Line /\ Garbage.t = "garbage"
  BY DEF Garbage, Line
<1> QED BY <1>1, <1>2 DEF AtMostOneLine, OpenStep, LineInstance

\* A ledger write, done, failed or interrupted, adds at most a line.
LEMMA LedgerGrows ==
  ASSUME TypeOK, LedgerLeft(cur)
  PROVE  ledger' = ledger \/ \E l \in Line : ledger' = Append(ledger, l)
<1>1. LedgerLine(cur) \in Line /\ Garbage \in Line
  BY LineTypes DEF TypeOK, Garbage, Line
<1> QED BY <1>1 DEF LedgerLeft, Written

\* Lines go to open instances only: one case per action that appends.
LEMMA OpenSteps ==
  ASSUME TypeOK, ActuatorInv, OwnInv, [Next]_vars
  PROVE  OpenStep
<1> USE DEF OwnInv
<1>0. /\ "executing" \in Events /\ "completed" \in Events
      /\ "unknown_outcome" \in Events /\ Resolutions \subseteq Events
  BY DEF Events, Resolutions
<1>1. ASSUME NEW i \in Instances, pc # "down", i \in Unsettled,
             \/ JournalAppend("unknown_outcome", records[i].req)
             \/ JournalLeft("unknown_outcome", records[i].req)
      PROVE  OpenStep
  <2>1. records[i].req \in Requests /\ InstanceOf[records[i].req] = i
        /\ records[i].state = "executing"
    BY <1>1 DEF Unsettled
  <2>2. AtMostOneLine("unknown_outcome", records[i].req)
    BY <1>0, <1>1, <2>1, AppendTypes, LeftTypes
  <2> QED BY <1>0, <1>1, <2>1, <2>2, OneLineOpen
<1>2. ASSUME NEW event \in Events, AtMostOneLine(event, cur),
             pc \in {"claim", "complete", "unknown", "reconcile"}
      PROVE  OpenStep
  <2>1. cur \in Requests /\ records[InstanceOf[cur]].state # "completed"
    BY <1>2 DEF ActuatorInv, ClaimInv
  <2> QED BY <1>2, <2>1, OneLineOpen
<1>3. cur \in Requests \cup {NoRequest}
  BY DEF TypeOK
<1>4. CASE Claim \/ Complete \/ Unknown
  BY <1>0, <1>2, <1>3, <1>4, AppendTypes DEF Claim, Complete, Unknown
<1>5. CASE ReconcileAppend
  <2>1. verdict \in Events
    BY <1>0, <1>5 DEF ReconcileAppend, ActuatorInv, ReconcileInv
  <2> QED BY <1>2, <1>3, <1>5, <2>1, AppendTypes DEF ReconcileAppend
<1>6. CASE Crash
  <2>1. CASE InFlight \in Events /\ JournalLeft(InFlight, cur)
    <3>1. pc \in {"claim", "complete", "unknown", "reconcile"}
      BY <2>1 DEF InFlight, Events
    <3> QED BY <1>2, <1>3, <2>1, <3>1, LeftTypes
  <2>2. CASE pc = "marking" /\ \E i \in Unsettled : JournalLeft("unknown_outcome", records[i].req)
    BY <1>1, <2>2 DEF Unsettled
  <2> QED BY <1>6, <2>1, <2>2 DEF Crash, OpenStep
<1>7. ASSUME NEW i \in Instances, MarkUnknown(i) PROVE OpenStep
  BY <1>1, <1>7 DEF MarkUnknown
<1>8. CASE Boot \/ BootRefused \/ BootDone \/ Perform
  BY <1>8 DEF Boot, BootRefused, BootDone, Perform, OpenStep
<1>9. ASSUME NEW q \in Requests, Execute(q) PROVE OpenStep
  BY <1>9 DEF Execute, OpenStep
<1>10. ASSUME NEW i \in Instances, Reconcile(i) PROVE OpenStep
  BY <1>10 DEF Reconcile, fileVars, OpenStep
<1>11. CASE UNCHANGED vars
  BY <1>11 DEF vars, fileVars, OpenStep
<1> QED BY <1>4, <1>5, <1>6, <1>7, <1>8, <1>9, <1>10, <1>11 DEF Next, StoreStep

\* How ledger, answers and records move: one case per action.
LEMMA AckSteps ==
  ASSUME TypeOK, ActuatorInv, OwnInv, [Next]_vars
  PROVE  LedgerStep /\ AnswerStep
<1> USE RequestAssumption DEF LedgerStep, AnswerStep
<1>0. /\ pc \in Pcs /\ records \in [Instances -> Record]
      /\ answer \in [Requests -> Answers]
  BY DEF TypeOK
<1>1. CASE Boot
  BY <1>1 DEF Boot
<1>2. CASE BootRefused
  BY <1>2 DEF BootRefused, memoryVars
<1>3. CASE \E i \in Instances : MarkUnknown(i)
  BY <1>3, SettleMoves DEF MarkUnknown, Unsettled
<1>4. CASE BootDone
  BY <1>4 DEF BootDone, memoryVars
<1>5. CASE Claim
  <2>1. /\ cur \in Requests /\ InstanceOf[cur] \in Instances /\ pc = "claim"
        /\ records[InstanceOf[cur]].state = "none"
    BY <1>5 DEF Claim, ActuatorInv, ClaimInv
  <2>2. CASE /\ pc' = "perform" /\ UNCHANGED <<cur, answer>>
             /\ records' = [records EXCEPT ![InstanceOf[cur]] =
                             [state |-> "executing", req |-> cur]]
             /\ JournalAppend("executing", cur)
    BY <1>0, <1>5, <2>1, <2>2 DEF Claim
  <2>3. CASE pc' = "idle" /\ UNCHANGED records /\ Reply(cur, "refused")
    BY <1>0, <1>5, <2>1, <2>3 DEF Claim, Reply
  <2> QED BY <1>5, <2>2, <2>3 DEF Claim
<1>6. CASE Perform
  <2>1. LedgerStep
    <3>1. LedgerLeft(cur) \/ ledger' = ledger
      BY <1>6 DEF Perform, LedgerLeft
    <3>2. ledger' = ledger \/ \E l \in Line : ledger' = Append(ledger, l)
      BY <3>1, LedgerGrows
    <3> QED BY <1>6, <3>2 DEF Perform
  <2> QED BY <1>6, <2>1 DEF Perform
<1>7. CASE Complete
  <2>1. /\ cur \in Requests /\ InstanceOf[cur] \in Instances /\ pc = "complete"
    BY <1>7 DEF Complete, OwnInv
  <2>2. CASE /\ pc' = "idle" /\ JournalAppend("completed", cur)
             /\ Settle(InstanceOf[cur], "completed") /\ Reply(cur, "performed")
    BY <1>0, <1>7, <2>1, <2>2, SettleMoves DEF Complete, Reply
  <2>3. CASE pc' = "unknown" /\ UNCHANGED <<cur, records, answer>>
    BY <1>7, <2>1, <2>3 DEF Complete
  <2> QED BY <1>7, <2>2, <2>3 DEF Complete
<1>8. CASE Unknown
  BY <1>0, <1>8, SettleMoves DEF Unknown, Reply, OwnInv
<1>9. CASE ReconcileAppend
  BY <1>9, SettleMoves DEF ReconcileAppend, OwnInv
<1>10. CASE \E q \in Requests : Execute(q)
  BY <1>0, <1>10 DEF Execute, memoryVars, Reply
<1>11. CASE \E i \in Instances : Reconcile(i)
  BY <1>11 DEF Reconcile, memoryVars, fileVars
<1>12. CASE Crash
  <2>1. ledger' = ledger \/ \E l \in Line : ledger' = Append(ledger, l)
    BY <1>12, LedgerGrows DEF Crash
  <2> QED BY <1>12, <2>1 DEF Crash
<1>13. CASE UNCHANGED vars
  BY <1>13 DEF vars, memoryVars, fileVars
<1> QED BY <1>1, <1>2, <1>3, <1>4, <1>5, <1>6, <1>7, <1>8, <1>9, <1>10, <1>11,
           <1>12, <1>13 DEF Next, StoreStep

\* The ledger keeps its entries and its damage.
LEMMA LedgerKeeps ==
  ASSUME TypeOK, LedgerStep
  PROVE  /\ Chained(ledger)' => Chained(ledger)
         /\ \A q : Ledgered(q) => Ledgered(q)'
<1>1. /\ DOMAIN ledger \subseteq DOMAIN ledger'
      /\ \A k \in DOMAIN ledger : ledger'[k] = ledger[k]
  <2>1. ledger \in Seq(Line)
    BY DEF TypeOK
  <2>2. ASSUME NEW l \in Line, ledger' = Append(ledger, l)
        PROVE  /\ DOMAIN ledger \subseteq DOMAIN ledger'
               /\ \A k \in DOMAIN ledger : ledger'[k] = ledger[k]
    BY <2>1, <2>2
  <2> QED BY <2>2 DEF LedgerStep
<1> QED BY <1>1 DEF Chained, Ledgered

\* An undamaged journal that an append reports done holds its line.
LEMMA AppendedLine ==
  ASSUME TypeOK, NEW event \in Events, NEW q \in Requests,
         JournalAppend(event, q), Chained(journal)'
  PROVE  /\ JournalLine(event, q) \in Line
         /\ journal' = Append(journal, JournalLine(event, q))
<1>1. JournalLine(event, q) \in Line /\ Garbage \in Line /\ Garbage.t = "garbage"
  BY LineTypes DEF Garbage, Line
<1>2. journal' # Append(journal, Garbage)
  <2> SUFFICES ASSUME journal' = Append(journal, Garbage) PROVE FALSE
    OBVIOUS
  <2>1. Len(journal) + 1 \in DOMAIN journal' /\ journal'[Len(journal) + 1] = Garbage
    BY <1>1, Positions
  <2> QED BY <1>1, <2>1 DEF Chained
<1> QED BY <1>1, <1>2 DEF JournalAppend, Written, TypeOK

\* What boot/1 reads of an answered effect.
LEMMA AckFolds ==
  ASSUME TypeOK, NEW q \in Requests, ClaimedLast(q), CompletedLast(q)
  PROVE  Folded(InstanceOf[q]) = [state |-> "completed", req |-> q]
<1> DEFINE i == InstanceOf[q]
<1>1. /\ Len(journal) \in Nat
      /\ ClaimsOf(i) \in SUBSET (1..Len(journal))
      /\ EventsOf(i) \in SUBSET (1..Len(journal))
  BY DEF TypeOK, ClaimsOf, EventsOf
<1>2. PICK c \in ClaimsOf(i) : /\ journal[c].req = q
                               /\ \A m \in ClaimsOf(i) : m <= c
  BY DEF ClaimedLast, ClaimsOf, LineInstance
<1>3. PICK k \in EventsOf(i) : /\ journal[k].t = "completed"
                               /\ \A m \in EventsOf(i) : m <= k
  BY DEF CompletedLast, EventsOf, LineInstance
<1>4. Last(ClaimsOf(i)) = c /\ Last(EventsOf(i)) = k
  BY <1>1, <1>2, <1>3, LastIs
<1>5. StateAfter("completed") = "completed"
  BY DEF StateAfter
<1> QED BY <1>2, <1>3, <1>4, <1>5 DEF Folded

\* Lines of other instances leave the last claim and the last event alone, and
\* lines that are no claims the last claim.
LEMMA LastKept ==
  ASSUME TypeOK, NEW q \in Requests, NEW l \in Line, journal' = Append(journal, l)
  PROVE  /\ LineInstance(l) # InstanceOf[q] /\ CompletedLast(q) => CompletedLast(q)'
         /\ LineInstance(l) # InstanceOf[q] \/ l.t # "executing" =>
              (ClaimedLast(q) => ClaimedLast(q)')
<1> DEFINE i == InstanceOf[q]
           n == Len(journal)
<1>1. /\ n \in Nat /\ DOMAIN journal = 1..n /\ DOMAIN journal' = 1..(n + 1)
      /\ \A k \in 1..n : journal'[k] = journal[k]
      /\ journal'[n + 1] = l /\ n + 1 \notin 1..n
      /\ 1..(n + 1) = (1..n) \cup {n + 1}
  BY Positions
<1> HIDE DEF n
<1>2. ASSUME LineInstance(l) # i PROVE EventsOf(i)' = EventsOf(i)
  BY <1>1, <1>2 DEF EventsOf, LineInstance
<1>3. ASSUME LineInstance(l) # i \/ l.t # "executing" PROVE ClaimsOf(i)' = ClaimsOf(i)
  BY <1>1, <1>3 DEF ClaimsOf, LineInstance
<1>4. ASSUME LineInstance(l) # i, CompletedLast(q) PROVE CompletedLast(q)'
  BY <1>1, <1>2, <1>4 DEF CompletedLast
<1>5. ASSUME LineInstance(l) # i \/ l.t # "executing", ClaimedLast(q)
      PROVE  ClaimedLast(q)'
  BY <1>1, <1>3, <1>5 DEF ClaimedLast
<1> QED BY <1>4, <1>5

\* The line just appended is the last of its instance.
LEMMA LastMade ==
  ASSUME TypeOK, NEW q \in Requests, NEW l \in Line, journal' = Append(journal, l),
         l.req = q
  PROVE  /\ l.t = "completed" => CompletedLast(q)'
         /\ l.t = "executing" => ClaimedLast(q)'
<1> DEFINE n == Len(journal)
<1>1. /\ n \in Nat /\ DOMAIN journal' = 1..(n + 1) /\ n + 1 \in DOMAIN journal'
      /\ journal'[n + 1] = l /\ \A m \in 1..(n + 1) : m <= n + 1
  BY Positions
<1>2. EventsOf(InstanceOf[q])' \subseteq 1..(n + 1)
      /\ ClaimsOf(InstanceOf[q])' \subseteq 1..(n + 1)
  BY <1>1 DEF EventsOf, ClaimsOf
<1> HIDE DEF n
<1>3. ASSUME l.t = "completed" PROVE CompletedLast(q)'
  BY <1>1, <1>2, <1>3 DEF CompletedLast
<1>4. ASSUME l.t = "executing" PROVE ClaimedLast(q)'
  BY <1>1, <1>2, <1>4 DEF ClaimedLast
<1> QED BY <1>3, <1>4

\* An undamaged journal after a step was undamaged before, and the step added a
\* proper line if any.
LEMMA ProperLine ==
  ASSUME TypeOK, NEW l \in Line, journal' = Append(journal, l), Chained(journal)'
  PROVE  l.t # "garbage"
BY Positions DEF Chained

\* Answers stay backed after a step.
LEMMA AckStep ==
  ASSUME TypeOK, TypeOK', ActuatorInv, OwnInv, AckInv, [Next]_vars
  PROVE  AckInv'
<1> USE RequestAssumption
<1>1. Grows /\ OpenStep /\ LedgerStep /\ AnswerStep
  BY StepGrows, OpenSteps, AckSteps DEF ActuatorInv
<1>2. /\ Chained(journal)' => Chained(journal)
      /\ Chained(ledger)' => Chained(ledger)
      /\ \A q : Ledgered(q) => Ledgered(q)'
  BY <1>1, GrowthKeeps, LedgerKeeps
<1>3. ASSUME NEW q \in Requests, answer[q] = "performed", Chained(journal)'
      PROVE  /\ ClaimedLast(q)' /\ CompletedLast(q)'
             /\ pc' # "down" => records'[InstanceOf[q]].state = "completed"
  <2>1. /\ ClaimedLast(q) /\ CompletedLast(q)
        /\ pc # "down" => records[InstanceOf[q]].state = "completed"
    BY <1>2, <1>3 DEF AckInv
  <2>2. ClaimedLast(q)' /\ CompletedLast(q)'
    <3>1. CASE UNCHANGED journal
      BY <2>1, <3>1 DEF ClaimedLast, CompletedLast, ClaimsOf, EventsOf
    <3>2. ASSUME NEW l \in Line, journal' = Append(journal, l),
                 l.t # "garbage" =>
                   records[LineInstance(l)].state # "completed" /\ pc # "down"
          PROVE  ClaimedLast(q)' /\ CompletedLast(q)'
      <4>1. LineInstance(l) # InstanceOf[q]
        BY <1>3, <2>1, <3>2, ProperLine
      <4> QED BY <2>1, <3>2, <4>1, LastKept
    <3> QED BY <1>1, <3>1, <3>2 DEF OpenStep
  <2>3. ASSUME pc' # "down" PROVE records'[InstanceOf[q]].state = "completed"
    <3>1. CASE pc = "down"
      <4>1. records'[InstanceOf[q]] = Folded(InstanceOf[q])
        BY <1>1, <2>3, <3>1 DEF AnswerStep, Boot
      <4> QED BY <2>1, <4>1, AckFolds
    <3>2. CASE pc # "down"
      BY <1>1, <2>1, <2>3, <3>2 DEF AnswerStep
    <3> QED BY <3>1, <3>2
  <2> QED BY <2>2, <2>3
<1>4. ASSUME pc' \in {"perform", "complete", "unknown"}, Chained(journal)'
      PROVE  ClaimedLast(cur)'
  <2>1. cur' = cur
    BY <1>1, <1>4 DEF AnswerStep
  <2>2. CASE pc \in {"perform", "complete", "unknown"}
    <3>1. cur \in Requests /\ ClaimedLast(cur)
      BY <1>2, <1>4, <2>2 DEF AckInv, OwnInv
    <3>2. CASE UNCHANGED journal
      BY <2>1, <3>1, <3>2 DEF ClaimedLast, ClaimsOf
    <3>3. ASSUME NEW l \in Line, journal' = Append(journal, l), l.t # "executing"
          PROVE  ClaimedLast(cur)'
      <4>1. \A q \in Requests : ClaimedLast(q) => ClaimedLast(q)'
        BY <3>3, LastKept
      <4> QED BY <2>1, <3>1, <4>1 DEF ClaimedLast, ClaimsOf
    <3> QED BY <1>1, <2>2, <3>2, <3>3 DEF Grows
  <2>3. CASE pc = "claim" /\ JournalAppend("executing", cur)
    <3>1. cur \in Requests
      BY <2>3 DEF ActuatorInv, ClaimInv
    <3>2. /\ JournalLine("executing", cur) \in Line
          /\ journal' = Append(journal, JournalLine("executing", cur))
      BY <1>4, <2>3, <3>1, AppendedLine DEF Events
    <3>3. JournalLine("executing", cur).t = "executing"
          /\ JournalLine("executing", cur).req = cur
      BY DEF JournalLine
    <3>4. \A q \in Requests : q = cur => ClaimedLast(q)'
      BY <3>2, <3>3, LastMade
    <3> QED BY <2>1, <3>1, <3>4 DEF ClaimedLast, ClaimsOf
  <2> QED BY <1>1, <1>4, <2>2, <2>3 DEF AnswerStep
<1>5. ASSUME pc' = "complete", Chained(ledger)'
      PROVE  cur' \in Probes \/ Ledgered(cur)'
  <2>1. cur' = cur
    BY <1>1, <1>5 DEF LedgerStep
  <2>2. CASE pc = "complete"
    <3>1. cur \in Probes \/ \E e \in DOMAIN ledger' : ledger'[e].req = cur
      BY <1>2, <1>5, <2>2 DEF AckInv, Ledgered
    <3> QED BY <2>1, <3>1 DEF Ledgered
  <2>3. CASE ledger' = Written(ledger, ltorn, LedgerLine(cur))
    <3>1. /\ ledger \in Seq(Line) /\ LedgerLine(cur) \in Line /\ Garbage \in Line
          /\ LedgerLine(cur).req = cur /\ Garbage.t = "garbage"
      BY LineTypes DEF TypeOK, Garbage, Line, LedgerLine
    <3>2. ASSUME NEW l \in Line, ledger' = Append(ledger, l)
          PROVE  Len(ledger) + 1 \in DOMAIN ledger' /\ ledger'[Len(ledger) + 1] = l
      BY <3>1, <3>2
    <3>3. CASE ledger' = Append(ledger, Garbage)
      BY <1>5, <3>1, <3>2, <3>3 DEF Chained
    <3>4. CASE ledger' = Append(ledger, LedgerLine(cur))
      <4>1. \E e \in DOMAIN ledger' : ledger'[e].req = cur
        BY <3>1, <3>2, <3>4
      <4> QED BY <2>1, <4>1 DEF Ledgered
    <3> QED BY <2>3, <3>3, <3>4 DEF Written
  <2> QED BY <1>1, <1>5, <2>1, <2>2, <2>3 DEF LedgerStep
<1>6. ASSUME NEW q \in Requests, answer[q] # "performed", answer'[q] = "performed"
      PROVE  /\ Chained(journal)' =>
                  /\ ClaimedLast(q)' /\ CompletedLast(q)'
                  /\ records'[InstanceOf[q]].state = "completed"
             /\ Chained(ledger)' => q \in Probes \/ Ledgered(q)'
  <2>1. /\ pc = "complete" /\ q = cur /\ JournalAppend("completed", q)
        /\ records'[InstanceOf[q]].state = "completed"
    BY <1>1, <1>6 DEF AnswerStep
  <2>2. ASSUME Chained(journal)' PROVE ClaimedLast(q)' /\ CompletedLast(q)'
    <3> DEFINE l == JournalLine("completed", q)
    <3>1. l \in Line /\ journal' = Append(journal, l)
      BY <2>1, <2>2, AppendedLine DEF Events
    <3>2. l.req = q /\ l.t = "completed"
      BY DEF JournalLine
    <3>3. ClaimedLast(q)
      BY <1>2, <2>1, <2>2 DEF AckInv
    <3> HIDE DEF l
    <3> QED BY <3>1, <3>2, <3>3, LastMade, LastKept
  <2>3. Chained(ledger)' => q \in Probes \/ Ledgered(q)'
    BY <1>2, <2>1 DEF AckInv
  <2> QED BY <2>1, <2>2, <2>3
<1>7. ASSUME NEW q \in Requests, answer'[q] = "performed"
      PROVE  /\ Chained(journal)' =>
                  /\ ClaimedLast(q)' /\ CompletedLast(q)'
                  /\ pc' # "down" => records'[InstanceOf[q]].state = "completed"
             /\ Chained(ledger)' => q \in Probes \/ Ledgered(q)'
  <2>1. CASE answer[q] = "performed"
    BY <1>2, <1>3, <2>1 DEF AckInv
  <2>2. CASE answer[q] # "performed"
    BY <1>6, <1>7, <2>2
  <2> QED BY <2>1, <2>2
<1> QED BY <1>4, <1>5, <1>7 DEF AckInv

\* The types, the store's invariant and the owners of its records.
BaseInv == TypeOK /\ ActuatorInv /\ OwnInv

\* Every step keeps it.
LEMMA BaseStep ==
  ASSUME BaseInv, [Next]_vars
  PROVE  BaseInv'
BY TypedStep, SafeStep, OwnStep DEF BaseInv, ActuatorInv

\* It holds of an empty directory.
LEMMA BaseInit == Init => BaseInv
BY TypedInit, SafeInit DEF Init, BaseInv, OwnInv

\* Whatever write fails, and wherever the process dies: an effect that perform/4
\* answered as performed is found completed, and its ledger entry present, by
\* every later boot/1 that accepts the files.
THEOREM AckedDurable == Spec => []AckedIsDurable
<1>1. Init => BaseInv /\ AckInv
  BY BaseInit DEF Init, AckInv
<1>2. BaseInv /\ AckInv /\ [Next]_vars => (BaseInv /\ AckInv)'
  <2> SUFFICES ASSUME BaseInv, AckInv, [Next]_vars PROVE BaseInv' /\ AckInv'
    OBVIOUS
  <2>1. BaseInv'
    BY BaseStep
  <2> QED BY <2>1, AckStep DEF BaseInv
<1>3. BaseInv /\ AckInv => AckedIsDurable
  <2> SUFFICES ASSUME BaseInv, AckInv, NEW q \in Requests,
                      answer[q] = "performed", Bootable
               PROVE  /\ Folded(InstanceOf[q]) = [state |-> "completed", req |-> q]
                      /\ q \in Probes \/ \E e \in DOMAIN ledger : ledger[e].req = q
    BY DEF AckedIsDurable
  <2>1. ClaimedLast(q) /\ CompletedLast(q) /\ (q \in Probes \/ Ledgered(q))
    BY DEF Bootable, AckInv
  <2> QED BY <2>1, AckFolds DEF BaseInv, Ledgered
<1> QED BY <1>1, <1>2, <1>3, PTL DEF Spec

-----------------------------------------------------------------------------
(* While no write has failed. *)

\* The memory of the process is what fold/1 reads from the journal.
Mirrors ==
  /\ records = [i \in Instances |-> Folded(i)]
  /\ owner = [n \in Nonces |-> FoldedOwner(n)]

\* The process counts the lines of its files.
InStep ==
  /\ jseq = Len(journal) /\ lseq = Len(ledger)
  /\ jtorn = FALSE /\ ltorn = FALSE

FaithInv ==
  faults = 0 =>
    /\ Bootable
    /\ pc # "unknown"
    /\ pc \notin {"down", "marking"} => anchor.there
    /\ pc # "down" => InStep /\ Mirrors

\* The anchor is left alone or brought current.
AnchorStep ==
  anchor' = anchor \/ anchor' = [j |-> Len(journal'), l |-> Len(ledger'), there |-> TRUE]

\* Files that are left alone stay bootable.
LEMMA BootableKept ==
  ASSUME TypeOK, Bootable, UNCHANGED <<journal, ledger>>, AnchorStep
  PROVE  Bootable'
<1>1. Len(journal) \in Nat /\ Len(ledger) \in Nat
  BY DEF TypeOK
<1>2. AnchorHolds'
  BY <1>1 DEF Bootable, AnchorHolds, AnchorStep
<1>3. CrossChecked'
  BY DEF Bootable, CrossChecked, ClaimsOf, LineInstance
<1>4. Chained(ledger)' /\ Chained(journal)'
  BY DEF Bootable, Chained
<1> QED BY <1>2, <1>3, <1>4 DEF Bootable

\* A journal line in step keeps the files bootable: a claim always, any other
\* event behind a claim of its instance, and a completion behind its ledger
\* entry.
LEMMA JournalBootable ==
  ASSUME TypeOK, Bootable, anchor.there, jseq = Len(journal),
         NEW event \in Events, NEW q \in Requests,
         journal' = Append(journal, JournalLine(event, q)), UNCHANGED ledger,
         event # "executing" => ClaimsOf(InstanceOf[q]) # {},
         event = "completed" => q \in Probes \/ Ledgered(q),
         AnchorStep
  PROVE  Bootable'
<1> DEFINE n == Len(journal)
           line == JournalLine(event, q)
<1>0. line \in Line /\ line.t = event /\ line.req = q /\ line.seq = n
      /\ event # "garbage"
  BY LineTypes DEF JournalLine, Events
<1>1. /\ n \in Nat /\ DOMAIN journal = 1..n /\ DOMAIN journal' = 1..(n + 1)
      /\ \A k \in 1..n : journal'[k] = journal[k]
      /\ journal'[n + 1] = line /\ Len(journal') = n + 1
      /\ 1..(n + 1) = (1..n) \cup {n + 1}
  BY <1>0, Positions
<1>2. Len(ledger) \in Nat /\ anchor.j \in Nat /\ anchor.l \in Nat
  BY DEF TypeOK
<1> HIDE DEF n, line
<1>3. Chained(journal)' /\ Chained(ledger)'
  <2>1. \A k \in 1..n : journal'[k].t # "garbage" /\ journal'[k].seq = k - 1
    BY <1>1 DEF Bootable, Chained
  <2>2. journal'[n + 1].t # "garbage" /\ journal'[n + 1].seq = (n + 1) - 1
    BY <1>0, <1>1
  <2> QED BY <1>1, <2>1, <2>2 DEF Bootable, Chained
<1>4. AnchorHolds'
  BY <1>1, <1>2 DEF Bootable, AnchorHolds, AnchorStep, n
<1>5. \A i : \A c \in ClaimsOf(i) :
        /\ c \in 1..n /\ c \in DOMAIN journal'
        /\ journal'[c].t = "executing" /\ InstanceOf[journal'[c].req] = i
  BY <1>1 DEF ClaimsOf, LineInstance
<1>6. CrossChecked'
  <2>1. ASSUME NEW k \in DOMAIN journal', journal'[k].t # "executing"
        PROVE  \E c \in ClaimsOf(LineInstance(journal[k]))' : c < k
    <3>1. \E c \in ClaimsOf(InstanceOf[journal'[k].req]) : c < k
      <4>1. CASE k \in 1..n
        BY <1>1, <2>1, <4>1 DEF Bootable, CrossChecked, LineInstance
      <4>2. CASE k = n + 1
        <5>1. journal'[k].req = q /\ event # "executing"
          BY <1>0, <1>1, <2>1, <4>2
        <5>2. PICK c \in ClaimsOf(InstanceOf[q]) : c \in 1..n
          BY <1>5, <5>1
        <5>3. c < k
          BY <1>1, <4>2, <5>2
        <5> QED BY <5>1, <5>2, <5>3
      <4> QED BY <1>1, <4>1, <4>2
    <3> QED BY <1>5, <3>1 DEF ClaimsOf, LineInstance
  <2>2. ASSUME NEW k \in DOMAIN journal', journal'[k].t = "completed",
               journal'[k].req \notin Probes
        PROVE  \E e \in DOMAIN ledger' : ledger'[e].req = journal'[k].req
    <3>1. CASE k \in 1..n
      BY <1>1, <2>2, <3>1 DEF Bootable, CrossChecked
    <3>2. CASE k = n + 1
      BY <1>0, <1>1, <2>2, <3>2 DEF Ledgered
    <3> QED BY <1>1, <3>1, <3>2
  <2>3. ASSUME NEW e \in DOMAIN ledger'
        PROVE  ClaimsOf(LineInstance(ledger[e]))' # {}
    <3>1. ClaimsOf(InstanceOf[ledger'[e].req]) # {}
      BY DEF Bootable, CrossChecked, LineInstance
    <3> QED BY <1>5, <3>1 DEF ClaimsOf, LineInstance
  <2> QED BY <2>1, <2>2, <2>3 DEF CrossChecked
<1> QED BY <1>3, <1>4, <1>6 DEF Bootable

\* A ledger line in step keeps the files bootable behind a claim.
LEMMA LedgerBootable ==
  ASSUME TypeOK, Bootable, anchor.there, lseq = Len(ledger), NEW q \in Requests,
         ledger' = Append(ledger, LedgerLine(q)), UNCHANGED journal,
         ClaimsOf(InstanceOf[q]) # {}, AnchorStep
  PROVE  Bootable'
<1> DEFINE n == Len(ledger)
           line == LedgerLine(q)
<1>0. line \in Line /\ line.t # "garbage" /\ line.req = q /\ line.seq = n
  BY LineTypes DEF LedgerLine
<1>1. /\ n \in Nat /\ DOMAIN ledger = 1..n /\ DOMAIN ledger' = 1..(n + 1)
      /\ \A k \in 1..n : ledger'[k] = ledger[k]
      /\ ledger'[n + 1] = line /\ Len(ledger') = n + 1
      /\ 1..(n + 1) = (1..n) \cup {n + 1}
  <2>1. ledger \in Seq(Line)
    BY DEF TypeOK
  <2> HIDE DEF line
  <2> QED BY <1>0, <2>1 DEF line
<1>2. Len(journal) \in Nat /\ anchor.j \in Nat /\ anchor.l \in Nat
  BY DEF TypeOK
<1> HIDE DEF n, line
<1>3. Chained(journal)' /\ Chained(ledger)'
  <2>1. \A k \in 1..n : ledger'[k].t # "garbage" /\ ledger'[k].seq = k - 1
    BY <1>1 DEF Bootable, Chained
  <2>2. ledger'[n + 1].t # "garbage" /\ ledger'[n + 1].seq = (n + 1) - 1
    BY <1>0, <1>1
  <2> QED BY <1>1, <2>1, <2>2 DEF Bootable, Chained
<1>4. AnchorHolds'
  BY <1>1, <1>2 DEF Bootable, AnchorHolds, AnchorStep, n
<1>5. CrossChecked'
  <2>1. \A i : ClaimsOf(i)' = ClaimsOf(i)
    BY DEF ClaimsOf
  <2>2. ASSUME NEW e \in DOMAIN ledger'
        PROVE  ClaimsOf(LineInstance(ledger'[e])) # {}
    <3>1. CASE e \in 1..n
      BY <1>1, <3>1 DEF Bootable, CrossChecked
    <3>2. CASE e = n + 1
      BY <1>0, <1>1, <3>2 DEF LineInstance
    <3> QED BY <1>1, <2>2, <3>1, <3>2
  <2>3. ASSUME NEW k \in DOMAIN journal, journal[k].t = "completed",
               journal[k].req \notin Probes
        PROVE  \E e \in DOMAIN ledger' : ledger'[e].req = journal[k].req
    BY <1>1, <2>3 DEF Bootable, CrossChecked
  <2> QED BY <2>1, <2>2, <2>3 DEF Bootable, CrossChecked, ClaimsOf, LineInstance
<1> QED BY <1>3, <1>4, <1>5 DEF Bootable

\* A record of a mirroring process stands for a claim in the journal.
LEMMA MirrorClaims ==
  ASSUME Mirrors, NEW i \in Instances, records[i].state # "none"
  PROVE  ClaimsOf(i) # {}
BY DEF Mirrors, Folded, NoRecord

\* An event other than a claim moves memory and journal alike.
LEMMA MirrorSettles ==
  ASSUME TypeOK, Mirrors, NEW event \in Events \ {"executing"}, NEW q \in Requests,
         records[InstanceOf[q]].state # "none",
         journal' = Append(journal, JournalLine(event, q)),
         Settle(InstanceOf[q], StateAfter(event)), UNCHANGED owner
  PROVE  Mirrors'
<1> DEFINE line == JournalLine(event, q)
           i0 == InstanceOf[q]
<1>0. line \in Line /\ line.t = event /\ line.req = q /\ i0 \in Instances
  BY LineTypes, RequestAssumption DEF JournalLine
<1>1. ClaimsOf(i0) # {}
  BY <1>0, MirrorClaims
<1> HIDE DEF line
<1>2. ASSUME NEW i \in Instances PROVE records'[i] = Folded(i)'
  <2>1. /\ i # i0 => Folded(i)' = Folded(i)
        /\ i = i0 => Folded(i)' = [Folded(i) EXCEPT !.state = StateAfter(event)]
    BY <1>0, <1>1, FoldGrows DEF line, LineInstance
  <2> QED BY <2>1 DEF Settle, Mirrors, TypeOK
<1>3. \A n \in Nonces : owner'[n] = FoldedOwner(n)'
  BY <1>0, OwnerGrows DEF line, Mirrors
<1>4. records' = [i \in Instances |-> records'[i]] /\ owner' = [n \in Nonces |-> owner'[n]]
  BY DEF Settle, Mirrors, TypeOK
<1> QED BY <1>2, <1>3, <1>4 DEF Mirrors

\* A claim opens its record and takes its nonces in memory and journal alike.
LEMMA MirrorClaim ==
  ASSUME TypeOK, Mirrors, NEW q \in Requests,
         journal' = Append(journal, JournalLine("executing", q)),
         records' = [records EXCEPT ![InstanceOf[q]] = [state |-> "executing", req |-> q]],
         owner' = [n \in Nonces |-> IF n \in NoncesOf[q] THEN InstanceOf[q] ELSE owner[n]]
  PROVE  Mirrors'
<1> DEFINE line == JournalLine("executing", q)
           i0 == InstanceOf[q]
<1>0. line \in Line /\ line.t = "executing" /\ line.req = q /\ i0 \in Instances
  BY LineTypes, RequestAssumption DEF JournalLine, Events
<1> HIDE DEF line
<1>2. ASSUME NEW i \in Instances PROVE records'[i] = Folded(i)'
  <2>1. /\ i # i0 => Folded(i)' = Folded(i)
        /\ i = i0 => Folded(i)' = [state |-> "executing", req |-> q]
    BY <1>0, FoldGrows DEF line, LineInstance
  <2> QED BY <2>1 DEF Mirrors, TypeOK
<1>3. \A n \in Nonces : owner'[n] = FoldedOwner(n)'
  BY <1>0, OwnerGrows DEF line, Mirrors, LineInstance
<1>4. records' = [i \in Instances |-> records'[i]] /\ owner' = [n \in Nonces |-> owner'[n]]
  BY DEF Mirrors, TypeOK
<1> QED BY <1>2, <1>3, <1>4 DEF Mirrors

\* Memory and journal left alone.
LEMMA MirrorKept ==
  ASSUME Mirrors, UNCHANGED <<journal, records, owner>>
  PROVE  Mirrors'
<1>1. \A i : Folded(i)' = Folded(i)
  BY DEF Folded, ClaimsOf, EventsOf, LineInstance
<1>2. \A n : FoldedOwner(n)' = FoldedOwner(n)
  BY DEF FoldedOwner, BindersOf, LineInstance
<1> QED BY <1>1, <1>2 DEF Mirrors

\* Without a failed write, an append that reports done adds its line and brings
\* the anchor current.
LEMMA CleanAppend ==
  ASSUME TypeOK, NEW event \in Events, NEW q \in Requests,
         JournalAppend(event, q), InStep, UNCHANGED <<ledger, ltorn, lseq>>,
         faults' = faults
  PROVE  /\ journal' = Append(journal, JournalLine(event, q))
         /\ AnchorStep /\ anchor'.there /\ InStep'
<1>1. ~Fault
  BY ActuatorBounds DEF Fault, TypeOK
<1>2. /\ journal' = Append(journal, JournalLine(event, q)) /\ jtorn' = FALSE
      /\ anchor' = [j |-> jseq + 1, l |-> lseq, there |-> TRUE] /\ jseq' = jseq + 1
  BY <1>1 DEF JournalAppend, Anchored, InStep, Written
<1>3. Len(journal') = Len(journal) + 1 /\ ledger' = ledger
  BY <1>2, LineTypes, Positions
<1> QED BY <1>2, <1>3 DEF AnchorStep, InStep

\* The files stay bootable through an append that stops half-way.
LEMMA LeftBootable ==
  ASSUME TypeOK, Bootable, InStep, anchor.there, NEW event \in Events,
         NEW q \in Requests, JournalLeft(event, q), UNCHANGED <<ledger, anchor>>,
         event # "executing" => ClaimsOf(InstanceOf[q]) # {},
         event = "completed" => q \in Probes \/ Ledgered(q)
  PROVE  Bootable'
<1>1. CASE UNCHANGED journal
  BY <1>1, BootableKept DEF AnchorStep
<1>2. CASE journal' = Append(journal, JournalLine(event, q))
  BY <1>2, JournalBootable DEF AnchorStep, InStep
<1> QED BY <1>1, <1>2 DEF JournalLeft, Written, InStep

\* While no write fails, memory and files stay in step: one case per action.
LEMMA FaithStep ==
  ASSUME BaseInv, AckInv, FaithInv, [Next]_vars, faults' = 0
  PROVE  FaithInv'
<1> USE RequestAssumption
<1>0. /\ TypeOK /\ ActuatorInv /\ OwnInv /\ faults \in Nat
      /\ cur \in Requests \cup {NoRequest} /\ pc \in Pcs
  BY ActuatorBounds DEF BaseInv, TypeOK
<1>1. faults = 0 /\ ~Fault
  <2>1. faults' = faults \/ faults' = faults + 1
    <3>1. \/ Fault \/ UNCHANGED faults
          \/ \E i \in Instances : MarkUnknown(i)
          \/ BootDone \/ Claim \/ Perform \/ Complete \/ Unknown \/ ReconcileAppend
          \/ \E q \in Requests : Execute(q)
      BY DEF Next, StoreStep, Boot, BootRefused, Reconcile, Crash, vars, envVars
    <3> QED BY <3>1 DEF MarkUnknown, BootDone, Claim, Perform, Complete, Unknown,
         ReconcileAppend, Execute, JournalAppend, JournalFails, Fault, NoFault, envVars
  <2> QED BY <1>0, <2>1 DEF Fault
<1>2. /\ Bootable /\ pc # "unknown"
      /\ pc \notin {"down", "marking"} => anchor.there
      /\ pc # "down" => InStep /\ Mirrors
  BY <1>1 DEF FaithInv
<1>3. /\ "executing" \in Events /\ "completed" \in Events
      /\ "unknown_outcome" \in Events /\ Resolutions \subseteq Events
      /\ "executing" \notin Resolutions /\ "completed" \notin Resolutions
  BY DEF Events, Resolutions
<1>4. ASSUME pc \in {"perform", "complete", "reconcile"}
      PROVE  /\ cur \in Requests /\ records[InstanceOf[cur]].state # "none"
             /\ ClaimsOf(InstanceOf[cur]) # {}
  <2>1. cur \in Requests /\ records[InstanceOf[cur]].state # "none"
    BY <1>0, <1>4 DEF OwnInv
  <2> QED BY <1>2, <1>4, <2>1, MirrorClaims
<1>5. ASSUME NEW i \in Unsettled, pc = "marking"
      PROVE  /\ records[i].req \in Requests /\ InstanceOf[records[i].req] = i
             /\ records[i].state = "executing" /\ i \in Instances
             /\ ClaimsOf(i) # {} /\ anchor.there
  <2>1. /\ records[i].req \in Requests /\ InstanceOf[records[i].req] = i
        /\ records[i].state = "executing" /\ i \in Instances
    BY <1>0, <1>5 DEF OwnInv, Unsettled
  <2>2. ClaimsOf(i) # {}
    BY <1>2, <1>5, <2>1, MirrorClaims
  <2>3. journal # <<>>
    BY <2>2 DEF ClaimsOf
  <2> QED BY <1>2, <2>1, <2>2, <2>3 DEF Bootable, AnchorHolds
<1>6. pc = "complete" => cur \in Probes \/ Ledgered(cur)
  BY <1>2 DEF AckInv, Bootable
<1>7. CASE Boot
  <2>1. Bootable'
    BY <1>0, <1>2, <1>7, BootableKept DEF Boot, AnchorStep
  <2>2. InStep'
    BY <1>7 DEF Boot, InStep
  <2>3. Mirrors'
    <3>1. \A i : Folded(i)' = Folded(i)
      BY <1>7 DEF Boot, Folded, ClaimsOf, EventsOf, LineInstance
    <3>2. \A n : FoldedOwner(n)' = FoldedOwner(n)
      BY <1>7 DEF Boot, FoldedOwner, BindersOf, LineInstance
    <3> QED BY <1>7, <3>1, <3>2 DEF Boot, Mirrors
  <2> QED BY <1>7, <2>1, <2>2, <2>3 DEF FaithInv, Boot
<1>8. CASE BootRefused
  BY <1>2, <1>8 DEF BootRefused
<1>9. ASSUME NEW i \in Instances, MarkUnknown(i) PROVE FaithInv'
  <2> DEFINE q == records[i].req
  <2>1. /\ pc = "marking" /\ pc' = "marking" /\ i \in Unsettled
        /\ JournalAppend("unknown_outcome", q)
        /\ Settle(i, "unknown_outcome")
        /\ UNCHANGED <<owner, lseq, ledger, ltorn>>
    BY <1>1, <1>9 DEF MarkUnknown
  <2>2. q \in Requests /\ InstanceOf[q] = i /\ ClaimsOf(i) # {} /\ anchor.there
        /\ records[InstanceOf[q]].state # "none"
    BY <1>5, <2>1
  <2>3. StateAfter("unknown_outcome") = "unknown_outcome"
    BY DEF StateAfter
  <2> HIDE DEF q
  <2>4. /\ journal' = Append(journal, JournalLine("unknown_outcome", q))
        /\ AnchorStep /\ InStep'
    BY <1>0, <1>1, <1>2, <1>3, <2>1, <2>2, CleanAppend
  <2>5. Mirrors'
    BY <1>0, <1>2, <1>3, <2>1, <2>2, <2>3, <2>4, MirrorSettles
  <2>6. Bootable'
    BY <1>0, <1>2, <1>3, <2>1, <2>2, <2>4, JournalBootable DEF InStep
  <2> QED BY <2>1, <2>4, <2>5, <2>6 DEF FaithInv
<1>10. CASE BootDone
  <2>1. /\ pc = "marking" /\ pc' = "idle" /\ Anchored(jseq, lseq)
        /\ UNCHANGED <<memoryVars, journal, jtorn, ledger, ltorn>>
    BY <1>1, <1>10 DEF BootDone
  <2>2. AnchorStep /\ anchor'.there /\ InStep'
    BY <1>2, <2>1 DEF Anchored, AnchorStep, InStep, memoryVars
  <2>3. Bootable' /\ Mirrors'
    BY <1>0, <1>2, <2>1, <2>2, BootableKept, MirrorKept DEF memoryVars
  <2> QED BY <2>1, <2>2, <2>3 DEF FaithInv
<1>11. CASE Claim
  <2>1. cur \in Requests
    BY <1>0, <1>11 DEF Claim, ActuatorInv, ClaimInv
  <2>2. /\ pc = "claim" /\ pc' = "perform" /\ JournalAppend("executing", cur)
        /\ records' = [records EXCEPT ![InstanceOf[cur]] =
                         [state |-> "executing", req |-> cur]]
        /\ owner' = [n \in Nonces |->
                       IF n \in NoncesOf[cur] THEN InstanceOf[cur] ELSE owner[n]]
        /\ UNCHANGED <<ledger, ltorn, lseq>>
    BY <1>1, <1>11 DEF Claim, JournalFails
  <2>3. /\ journal' = Append(journal, JournalLine("executing", cur))
        /\ AnchorStep /\ anchor'.there /\ InStep'
    BY <1>0, <1>1, <1>2, <1>3, <2>1, <2>2, CleanAppend
  <2>4. Mirrors'
    BY <1>0, <1>2, <2>1, <2>2, <2>3, MirrorClaim
  <2>5. Bootable'
    BY <1>0, <1>2, <1>3, <2>1, <2>2, <2>3, JournalBootable DEF InStep
  <2> QED BY <2>2, <2>3, <2>4, <2>5 DEF FaithInv
<1>12. CASE Perform
  <2>1. /\ pc = "perform" /\ pc' = "complete"
        /\ UNCHANGED <<journal, jtorn, records, owner, jseq>>
    BY <1>1, <1>12 DEF Perform
  <2>2. CASE /\ UNCHANGED <<ledger, ltorn, lseq>> /\ Anchored(jseq, lseq)
    <3>1. AnchorStep /\ anchor'.there /\ InStep'
      BY <1>2, <2>1, <2>2 DEF Anchored, AnchorStep, InStep
    <3>2. Bootable' /\ Mirrors'
      BY <1>0, <1>2, <2>1, <2>2, <3>1, BootableKept, MirrorKept
    <3> QED BY <2>1, <3>1, <3>2 DEF FaithInv
  <2>3. CASE /\ ledger' = Written(ledger, ltorn, LedgerLine(cur))
             /\ ltorn' = FALSE /\ lseq' = lseq + 1 /\ Anchored(jseq, lseq + 1)
    <3>1. ledger' = Append(ledger, LedgerLine(cur)) /\ ledger \in Seq(Line)
          /\ LedgerLine(cur) \in Line
      BY <1>0, <1>2, <2>1, <2>3, LineTypes DEF Written, InStep, TypeOK
    <3>2. Len(ledger') = Len(ledger) + 1
      BY <3>1
    <3>3. AnchorStep /\ anchor'.there /\ InStep'
      BY <1>2, <2>1, <2>3, <3>2 DEF Anchored, AnchorStep, InStep
    <3>4. Bootable'
      BY <1>0, <1>2, <1>4, <2>1, <3>1, <3>3, LedgerBootable DEF InStep
    <3>5. Mirrors'
      BY <1>2, <2>1, MirrorKept
    <3> QED BY <2>1, <3>3, <3>4, <3>5 DEF FaithInv
  <2> QED BY <1>1, <1>12, <2>2, <2>3 DEF Perform
<1>13. ASSUME NEW event \in Events \ {"executing"},
              pc \in {"complete", "reconcile"}, JournalAppend(event, cur),
              Settle(InstanceOf[cur], StateAfter(event)), pc' = "idle",
              event = "completed" => pc = "complete",
              UNCHANGED <<ledger, ltorn, owner, lseq>>
       PROVE  FaithInv'
  <2>1. /\ cur \in Requests /\ records[InstanceOf[cur]].state # "none"
        /\ ClaimsOf(InstanceOf[cur]) # {}
    BY <1>4, <1>13
  <2>2. /\ journal' = Append(journal, JournalLine(event, cur))
        /\ AnchorStep /\ anchor'.there /\ InStep'
    BY <1>0, <1>1, <1>2, <1>13, <2>1, CleanAppend
  <2>3. Mirrors'
    BY <1>0, <1>2, <1>13, <2>1, <2>2, MirrorSettles
  <2>4. Bootable'
    BY <1>0, <1>2, <1>6, <1>13, <2>1, <2>2, JournalBootable DEF InStep
  <2> QED BY <1>13, <2>2, <2>3, <2>4 DEF FaithInv
<1>14. CASE Complete
  <2>1. StateAfter("completed") = "completed"
    BY DEF StateAfter
  <2> QED BY <1>1, <1>3, <1>13, <1>14, <2>1 DEF Complete, JournalFails
<1>15. CASE Unknown
  BY <1>2, <1>15 DEF Unknown
<1>16. CASE ReconcileAppend
  <2>1. verdict \in Resolutions
    BY <1>0, <1>16 DEF ReconcileAppend, ActuatorInv, ReconcileInv
  <2> QED BY <1>1, <1>3, <1>13, <1>16, <2>1 DEF ReconcileAppend, JournalFails
<1>17. ASSUME NEW q \in Requests, Execute(q) PROVE FaithInv'
  <2>1. /\ pc = "idle" /\ pc' \in {"idle", "claim"}
        /\ anchor' = anchor \/ Anchored(jseq, lseq)
        /\ UNCHANGED <<memoryVars, journal, jtorn, ledger, ltorn>>
    BY <1>17 DEF Execute
  <2>2. AnchorStep /\ anchor'.there /\ InStep'
    BY <1>2, <2>1 DEF Anchored, AnchorStep, InStep, memoryVars
  <2>3. Bootable' /\ Mirrors'
    BY <1>0, <1>2, <2>1, <2>2, BootableKept, MirrorKept DEF memoryVars
  <2> QED BY <2>1, <2>2, <2>3 DEF FaithInv
<1>18. ASSUME NEW i \in Instances, Reconcile(i) PROVE FaithInv'
  <2>1. pc = "idle" /\ pc' = "reconcile" /\ UNCHANGED <<memoryVars, fileVars>>
    BY <1>18 DEF Reconcile
  <2>2. AnchorStep /\ anchor'.there /\ InStep'
    BY <1>2, <2>1 DEF AnchorStep, InStep, memoryVars, fileVars
  <2>3. Bootable' /\ Mirrors'
    BY <1>0, <1>2, <2>1, <2>2, BootableKept, MirrorKept DEF memoryVars, fileVars
  <2> QED BY <2>1, <2>2, <2>3 DEF FaithInv
<1>19. CASE Crash
  <2>1. pc # "down" /\ pc' = "down" /\ UNCHANGED anchor /\ InStep
    BY <1>2, <1>19 DEF Crash
  <2>2. CASE UNCHANGED <<journal, ledger>>
    BY <1>0, <1>2, <2>1, <2>2, BootableKept DEF AnchorStep, FaithInv
  <2>3. CASE InFlight \in Events /\ JournalLeft(InFlight, cur) /\ UNCHANGED ledger
    <3>1. \/ pc = "claim" /\ InFlight = "executing"
          \/ pc = "complete" /\ InFlight = "completed"
          \/ pc = "reconcile" /\ InFlight = verdict /\ verdict \in Resolutions
      BY <1>0, <1>2, <2>3 DEF InFlight, Events, ActuatorInv, ReconcileInv
    <3>2. /\ cur \in Requests
          /\ InFlight # "executing" => ClaimsOf(InstanceOf[cur]) # {}
          /\ InFlight = "completed" => cur \in Probes \/ Ledgered(cur)
          /\ anchor.there
      BY <1>0, <1>2, <1>3, <1>4, <1>6, <3>1 DEF ActuatorInv, ClaimInv
    <3> QED BY <1>0, <1>2, <2>1, <2>3, <3>2, LeftBootable DEF FaithInv
  <2>4. CASE /\ pc = "marking" /\ UNCHANGED ledger
             /\ \E i \in Unsettled : JournalLeft("unknown_outcome", records[i].req)
    <3>1. PICK i \in Unsettled : JournalLeft("unknown_outcome", records[i].req)
      BY <2>4
    <3>2. /\ records[i].req \in Requests /\ anchor.there
          /\ ClaimsOf(InstanceOf[records[i].req]) # {}
      BY <1>5, <2>4
    <3> QED BY <1>0, <1>2, <1>3, <2>1, <2>4, <3>1, <3>2, LeftBootable DEF FaithInv
  <2>5. CASE pc = "perform" /\ LedgerLeft(cur) /\ UNCHANGED journal
    <3>1. CASE ledger' = Append(ledger, LedgerLine(cur))
      BY <1>0, <1>2, <1>4, <2>1, <2>5, <3>1, LedgerBootable
      DEF AnchorStep, InStep, FaithInv
    <3> QED BY <2>1, <2>2, <2>5, <3>1 DEF LedgerLeft, Written, InStep
  <2>6. pc = "perform" => InFlight \notin Events
    BY DEF InFlight, Events
  <2> QED BY <1>19, <2>2, <2>3, <2>4, <2>5, <2>6 DEF Crash
<1>20. CASE UNCHANGED vars
  <2>1. UNCHANGED <<pc, memoryVars, fileVars>>
    BY <1>20 DEF vars
  <2>2. Bootable'
    BY <1>0, <1>2, <2>1, BootableKept DEF fileVars, AnchorStep
  <2>3. pc # "down" => InStep' /\ Mirrors'
    BY <1>2, <2>1, MirrorKept DEF fileVars, memoryVars, InStep
  <2> QED BY <1>2, <2>1, <2>2, <2>3 DEF FaithInv, fileVars
<1> QED BY <1>7, <1>8, <1>9, <1>10, <1>11, <1>12, <1>14, <1>15, <1>16, <1>17,
           <1>18, <1>19, <1>20 DEF Next, StoreStep

\* Initially the state directory is empty.
LEMMA FaithInit == Init => FaithInv
<1> SUFFICES ASSUME Init PROVE FaithInv
  OBVIOUS
<1>1. DOMAIN journal = {} /\ DOMAIN ledger = {} /\ Len(journal) = 0 /\ Len(ledger) = 0
  BY DEF Init
<1>2. Chained(journal) /\ Chained(ledger) /\ CrossChecked
  BY <1>1 DEF Chained, CrossChecked
<1>3. AnchorHolds
  BY <1>1 DEF Init, AnchorHolds, Missing
<1> QED BY <1>2, <1>3 DEF FaithInv, Bootable, Init

\* While no write has failed, the files of a dead or an idle store are accepted
\* by boot/1 wherever the process died, and an idle store holds in memory what
\* fold/1 would read back.
THEOREM RestartIsFaithful == Spec => []RestartFaithful
<1> DEFINE Inv == BaseInv /\ AckInv /\ FaithInv
<1>1. Init => Inv
  BY BaseInit, FaithInit DEF Init, AckInv
<1>2. Inv /\ [Next]_vars => Inv'
  <2> SUFFICES ASSUME Inv, [Next]_vars PROVE Inv'
    OBVIOUS
  <2>1. BaseInv'
    BY BaseStep
  <2>2. AckInv'
    BY <2>1, AckStep DEF BaseInv
  <2>3. FaithInv'
    <3>1. CASE faults' = 0
      BY <3>1, FaithStep
    <3>2. CASE faults' # 0
      BY <3>2 DEF FaithInv
    <3> QED BY <3>1, <3>2
  <2> QED BY <2>1, <2>2, <2>3
<1>3. Inv => RestartFaithful
  BY DEF FaithInv, RestartFaithful, Mirrors
<1> QED BY <1>1, <1>2, <1>3, PTL DEF Spec
=============================================================================
