--------------------------- MODULE ActuatorProofs ---------------------------
(***************************************************************************)
(* For any requests, nonces and any number of failing writes and crashes:  *)
(* the actuator's store performs an instance at most once and spends a     *)
(* nonce on one instance.  The argument has three parts.  Every step       *)
(* leaves the journal alone or appends one line to it (Grows), so a claim  *)
(* in it stays, and so does damage; boot/1 reads every claim of an         *)
(* undamaged journal (FoldedTypes, OwnerTypes); and the process performs   *)
(* only under a record and nonces it has just written down (SafeStep).     *)
(***************************************************************************)
EXTENDS Actuator, WellFoundedInduction, TLAPS

\* Last/1, the end of Enum.reduce over an instance's events, is the largest
\* position of a non-empty set of positions.
LEMMA LastIsLast ==
  ASSUME NEW n \in Nat, NEW ks \in SUBSET (1..n), ks # {}
  PROVE  Last(ks) \in ks /\ \A m \in ks : m <= Last(ks)
<1> DEFINE Left == {n - k : k \in ks}
           Less == OpToRel(<, Nat)
<1>0. \A k \in ks : n - k \in Nat /\ k \in Nat
  OBVIOUS
<1>1. Left \subseteq Nat /\ Left # {}
  BY <1>0
<1>2. \A x, y \in Nat : <<y, x>> \in Less <=> y < x
  BY Zenon DEF OpToRel
<1>3. IsWellFoundedOn(Less, Nat)
  BY NatLessThanWellFounded
<1> HIDE DEF Less, Left
<1>4. PICK x \in Left : \A y \in Left : ~ (<<y, x>> \in Less)
  BY <1>1, <1>3, WFMin
<1>5. PICK k \in ks : x = n - k
  BY DEF Left
<1>6. \A m \in ks : m <= k
  <2> TAKE m \in ks
  <2>1. n - m \in Left
    BY DEF Left
  <2>2. ~(n - m < n - k)
    BY <2>1, <1>0, <1>1, <1>2, <1>4, <1>5, Zenon
  <2> QED BY <2>2, <1>0
<1> QED BY <1>6 DEF Last

\* The lines the store writes are lines, whether or not a partial line is in
\* the way.
LEMMA WrittenTypes ==
  ASSUME NEW file \in Seq(Line), NEW torn \in BOOLEAN, NEW line \in Line
  PROVE  /\ Written(file, torn, line) \in Seq(Line)
         /\ \E l \in {line, Garbage} : Written(file, torn, line) = Append(file, l)
<1>1. Garbage \in Line
  BY DEF Garbage, Line
<1> QED BY <1>1 DEF Written

LEMMA LineTypes ==
  ASSUME TypeOK, NEW q \in Requests \cup {NoRequest}
  PROVE  /\ \A event \in Events : JournalLine(event, q) \in Line
         /\ LedgerLine(q) \in Line
BY DEF TypeOK, JournalLine, LedgerLine, Line, Events

\* What fold/1 gives an instance of an undamaged journal: a record, and a real
\* one if the journal has a claim of the instance.
LEMMA FoldedTypes ==
  ASSUME TypeOK, Chained(journal), NEW i \in Instances
  PROVE  /\ Folded(i) \in Record
         /\ ClaimsOf(i) # {} => Folded(i).state # "none"
<1>1. CASE ClaimsOf(i) = {}
  BY <1>1 DEF Folded, NoRecord, Record, States
<1>2. CASE ClaimsOf(i) # {}
  <2>1. Len(journal) \in Nat /\ DOMAIN journal = 1..Len(journal)
    BY DEF TypeOK
  <2>2. ClaimsOf(i) \subseteq EventsOf(i) /\ EventsOf(i) \subseteq 1..Len(journal)
    BY <2>1 DEF ClaimsOf, EventsOf
  <2>3. Last(EventsOf(i)) \in DOMAIN journal /\ Last(ClaimsOf(i)) \in DOMAIN journal
    BY <1>2, <2>1, <2>2, LastIsLast
  <2> DEFINE e == journal[Last(EventsOf(i))]
             c == journal[Last(ClaimsOf(i))]
  <2>4. e \in Line /\ c \in Line
    BY <2>3, <2>1 DEF TypeOK
  <2>5. e.t \in Events
    BY <2>3, <2>4 DEF Chained, Line
  <2>6. StateAfter(e.t) \in States \ {"none"}
    BY <2>5 DEF StateAfter, Events, States
  <2>7. c.req \in Requests \cup {NoRequest}
    BY <2>4 DEF Line
  <2>8. Folded(i) = [state |-> StateAfter(e.t), req |-> c.req]
    BY <1>2 DEF Folded
  <2> QED BY <2>6, <2>7, <2>8 DEF Record
<1> QED BY <1>1, <1>2

\* What fold/1 gives a nonce: the instance of one of the claims that carry it.
LEMMA OwnerTypes ==
  ASSUME TypeOK, NonceInv, NEW n \in Nonces
  PROVE  /\ FoldedOwner(n) \in Instances \cup {NoInstance}
         /\ BindersOf(n) # {} =>
              \E k \in BindersOf(n) : FoldedOwner(n) = LineInstance(journal[k])
<1>1. CASE BindersOf(n) = {}
  BY <1>1 DEF FoldedOwner
<1>2. CASE BindersOf(n) # {}
  <2>1. Len(journal) \in Nat /\ BindersOf(n) \subseteq 1..Len(journal)
    BY DEF TypeOK, BindersOf
  <2>2. Last(BindersOf(n)) \in BindersOf(n)
    BY <1>2, <2>1, LastIsLast
  <2>3. journal[Last(BindersOf(n))].req \in Requests
    BY <2>2 DEF BindersOf, NonceInv
  <2> QED BY <1>2, <2>2, <2>3, RequestAssumption DEF FoldedOwner, LineInstance
<1> QED BY <1>1, <1>2

\* A journal append, done, failed or interrupted, adds its line, a garbled
\* line or nothing.
AtMostOneLine(event, q) ==
  \/ UNCHANGED journal
  \/ \E l \in {JournalLine(event, q), Garbage} : journal' = Append(journal, l)

LEMMA LeftTypes ==
  ASSUME TypeOK, NEW event \in Events, NEW q \in Requests \cup {NoRequest}
  PROVE  /\ JournalLeft(event, q) =>
              /\ journal' \in Seq(Line) /\ jtorn' \in BOOLEAN
              /\ AtMostOneLine(event, q)
         /\ LedgerLeft(q) => ledger' \in Seq(Line) /\ ltorn' \in BOOLEAN
<1>1. /\ journal \in Seq(Line) /\ jtorn \in BOOLEAN
      /\ ledger \in Seq(Line) /\ ltorn \in BOOLEAN
  BY DEF TypeOK
<1>2. JournalLine(event, q) \in Line /\ LedgerLine(q) \in Line
  BY LineTypes
<1>3. /\ Written(journal, jtorn, JournalLine(event, q)) \in Seq(Line)
      /\ \E l \in {JournalLine(event, q), Garbage} :
           Written(journal, jtorn, JournalLine(event, q)) = Append(journal, l)
      /\ Written(ledger, ltorn, LedgerLine(q)) \in Seq(Line)
  BY <1>1, <1>2, WrittenTypes
<1> QED BY <1>1, <1>3 DEF JournalLeft, LedgerLeft, AtMostOneLine

LEMMA AnchorTypes ==
  ASSUME NEW j \in Nat, NEW l \in Nat, Anchored(j, l)
  PROVE  anchor' \in [j : Nat, l : Nat, there : BOOLEAN]
BY DEF Anchored

LEMMA FaultTypes ==
  ASSUME TypeOK, Fault \/ NoFault
  PROVE  faults' \in 0..MaxFaults /\ crashes' \in 0..MaxCrashes
BY ActuatorBounds DEF TypeOK, Fault, NoFault, envVars

LEMMA AppendTypes ==
  ASSUME TypeOK, NEW event \in Events, NEW q \in Requests \cup {NoRequest},
         JournalAppend(event, q) \/ JournalFails(event, q)
  PROVE  /\ journal' \in Seq(Line) /\ jtorn' \in BOOLEAN
         /\ jseq' \in Nat
         /\ anchor' \in [j : Nat, l : Nat, there : BOOLEAN]
         /\ faults' \in 0..MaxFaults /\ crashes' \in 0..MaxCrashes
         /\ AtMostOneLine(event, q)
<1>1. CASE JournalAppend(event, q)
  <2>1. JournalLeft(event, q)
    BY <1>1 DEF JournalAppend, JournalLeft
  <2>2. jseq' \in Nat /\ jseq + 1 \in Nat /\ lseq \in Nat
    BY <1>1 DEF JournalAppend, TypeOK
  <2>3. Anchored(jseq + 1, lseq) \/ UNCHANGED anchor
    BY <1>1 DEF JournalAppend
  <2>4. anchor' \in [j : Nat, l : Nat, there : BOOLEAN]
    BY <2>2, <2>3, AnchorTypes DEF TypeOK
  <2>5. Fault \/ NoFault
    BY <1>1 DEF JournalAppend
  <2> QED BY <2>1, <2>2, <2>4, <2>5, LeftTypes, FaultTypes
<1>2. CASE JournalFails(event, q)
  <2>1. Fault /\ JournalLeft(event, q) /\ UNCHANGED <<jseq, anchor>>
    BY <1>2 DEF JournalFails
  <2> QED BY <2>1, LeftTypes, FaultTypes DEF TypeOK
<1> QED BY <1>1, <1>2

LEMMA ForgetTypes ==
  ASSUME Forget
  PROVE  /\ records' \in [Instances -> Record]
         /\ owner' \in [Nonces -> Instances \cup {NoInstance}]
         /\ jseq' \in Nat /\ lseq' \in Nat
BY DEF Forget, NoRecord, Record, States

LEMMA SettleTypes ==
  ASSUME TypeOK, NEW i, NEW state \in States, Settle(i, state)
  PROVE  records' \in [Instances -> Record]
BY DEF TypeOK, Settle, Record

LEMMA ReplyTypes ==
  ASSUME TypeOK, NEW q, NEW what \in Answers, Reply(q, what)
  PROVE  answer' \in [Requests -> Answers]
BY DEF TypeOK, Reply

LEMMA TypedInit == Init => TypeOK
<1> SUFFICES ASSUME Init PROVE TypeOK
  OBVIOUS
<1>1. NoRecord \in Record /\ Missing \in [j : Nat, l : Nat, there : BOOLEAN]
  BY DEF NoRecord, Record, States, Missing
<1>2. /\ <<>> \in Seq(Line) /\ 0 \in 0..MaxFaults /\ 0 \in 0..MaxCrashes
  BY ActuatorBounds
<1>3. records \in [Instances -> Record] /\ performs \in [Requests -> Nat]
  BY <1>1 DEF Init
<1>4. /\ owner \in [Nonces -> Instances \cup {NoInstance}]
      /\ answer \in [Requests -> Answers] /\ pc \in Pcs
  BY DEF Init, Answers, Pcs
<1> QED BY <1>1, <1>2, <1>3, <1>4 DEF Init, TypeOK

\* Every step keeps the types; that there is a request behind each claim, in
\* the journal and in the process, is what it needs from the invariant.
LEMMA TypedStep ==
  ASSUME TypeOK, NonceInv, ClaimInv, PerformInv, ReconcileInv, [Next]_vars
  PROVE  TypeOK'
<1> USE DEF envVars
<1>0. /\ cur \in Requests \cup {NoRequest} /\ pc \in Pcs /\ jseq \in Nat /\ lseq \in Nat
      /\ \A i \in Instances : records[i] \in Record
      /\ \A i \in Instances : records[i].req \in Requests \cup {NoRequest}
  BY DEF TypeOK, Record
<1>1. CASE Boot
  <2>1. Chained(journal)
    BY <1>1 DEF Boot, Bootable
  <2>2. records' \in [Instances -> Record]
    BY <1>1, <2>1, FoldedTypes DEF Boot
  <2>3. owner' \in [Nonces -> Instances \cup {NoInstance}]
    BY <1>1, OwnerTypes DEF Boot
  <2>4. jseq' \in Nat /\ lseq' \in Nat
    BY <1>1 DEF Boot, TypeOK
  <2> QED BY <1>1, <2>2, <2>3, <2>4 DEF Boot, TypeOK, Pcs
<1>2. CASE BootRefused
  BY <1>2 DEF BootRefused, TypeOK, memoryVars
<1>3. ASSUME NEW i \in Instances, MarkUnknown(i) PROVE TypeOK'
  <2>1. "unknown_outcome" \in Events /\ "unknown_outcome" \in States
    BY DEF Events, States
  <2>2. CASE JournalAppend("unknown_outcome", records[i].req)
    <3>1. Settle(i, "unknown_outcome") \/ Forget
      BY <1>3 DEF MarkUnknown
    <3>2. records' \in [Instances -> Record]
      BY <2>1, <3>1, SettleTypes, ForgetTypes
    <3>3. /\ owner' \in [Nonces -> Instances \cup {NoInstance}]
          /\ lseq' \in Nat /\ pc' \in Pcs
      BY <1>3, ForgetTypes DEF MarkUnknown, TypeOK, Pcs
    <3> QED BY <1>0, <1>3, <2>1, <2>2, <3>2, <3>3, AppendTypes
          DEF MarkUnknown, TypeOK
  <2>3. CASE /\ Fault /\ JournalLeft("unknown_outcome", records[i].req)
             /\ UNCHANGED anchor /\ Forget /\ pc' = "down"
    BY <1>0, <1>3, <2>1, <2>3, LeftTypes, ForgetTypes, FaultTypes
    DEF MarkUnknown, TypeOK, Pcs
  <2> QED BY <1>3, <2>2, <2>3 DEF MarkUnknown
<1>4. CASE BootDone
  <2>1. CASE Anchored(jseq, lseq) /\ NoFault /\ pc' = "idle" /\ UNCHANGED memoryVars
    BY <1>0, <1>4, <2>1, AnchorTypes, FaultTypes
    DEF BootDone, TypeOK, memoryVars, Pcs
  <2>2. CASE Fault /\ UNCHANGED anchor /\ pc' = "down" /\ Forget
    BY <1>4, <2>2, ForgetTypes, FaultTypes DEF BootDone, TypeOK, Pcs
  <2> QED BY <1>4, <2>1, <2>2 DEF BootDone
<1>5. ASSUME NEW q \in Requests, Execute(q) PROVE TypeOK'
  <2>1. answer' \in [Requests -> Answers]
    BY <1>5, ReplyTypes DEF Execute, Answers, TypeOK
  <2>2. anchor' \in [j : Nat, l : Nat, there : BOOLEAN]
    BY <1>0, <1>5, AnchorTypes DEF Execute, TypeOK
  <2>3. faults' \in 0..MaxFaults /\ crashes' \in 0..MaxCrashes
    BY <1>5, FaultTypes DEF Execute
  <2>4. pc' \in Pcs /\ cur' \in Requests \cup {NoRequest}
    BY <1>0, <1>5 DEF Execute, Pcs
  <2> QED BY <1>5, <2>1, <2>2, <2>3, <2>4 DEF Execute, TypeOK, memoryVars
<1>6. CASE Claim
  <2>1. "executing" \in Events /\ "executing" \in States /\ "refused" \in Answers
    BY DEF Events, States, Answers
  <2>2. records' \in [Instances -> Record]
    BY <1>0, <1>6, <2>1 DEF Claim, TypeOK, Record
  <2>3. InstanceOf[cur] \in Instances
    BY <1>6, RequestAssumption DEF Claim, ClaimInv
  <2>4. owner' \in [Nonces -> Instances \cup {NoInstance}]
    BY <1>6, <2>3 DEF Claim, TypeOK
  <2>5. answer' \in [Requests -> Answers]
    BY <1>6, <2>1, ReplyTypes DEF Claim, TypeOK
  <2>6. pc' \in Pcs /\ cur' \in Requests \cup {NoRequest}
    BY <1>0, <1>6 DEF Claim, Pcs
  <2> QED BY <1>0, <1>6, <2>1, <2>2, <2>4, <2>5, <2>6, AppendTypes DEF Claim, TypeOK
<1>7. CASE Perform
  <2>1. cur \in Requests \cup {NoRequest} /\ LedgerLine(cur) \in Line
    BY <1>0, LineTypes
  <2>2. /\ ledger' \in Seq(Line) /\ ltorn' \in BOOLEAN
        /\ lseq' \in Nat /\ lseq + 1 \in Nat
    <3>1. CASE UNCHANGED <<ledger, ltorn, lseq>>
      BY <1>0, <3>1 DEF TypeOK
    <3>2. CASE /\ ledger' = Written(ledger, ltorn, LedgerLine(cur))
               /\ ltorn' = FALSE /\ lseq' = lseq + 1
      <4>1. ledger \in Seq(Line) /\ ltorn \in BOOLEAN
        BY DEF TypeOK
      <4>2. Written(ledger, ltorn, LedgerLine(cur)) \in Seq(Line)
        BY <2>1, <4>1, WrittenTypes
      <4>3. lseq' \in Nat /\ lseq + 1 \in Nat
        BY <1>0, <3>2
      <4> QED BY <3>2, <4>2, <4>3
    <3>3. CASE LedgerLeft(cur) /\ UNCHANGED lseq
      BY <1>0, <3>3, LeftTypes DEF Events
    <3> QED BY <1>7, <3>1, <3>2, <3>3 DEF Perform
  <2>3. anchor' \in [j : Nat, l : Nat, there : BOOLEAN]
    BY <1>0, <1>7, <2>2, AnchorTypes DEF Perform, TypeOK
  <2>4. Fault \/ NoFault
    BY <1>7 DEF Perform
  <2>5. performs' \in [Requests -> Nat]
    BY <1>7 DEF Perform, PerformInv, TypeOK
  <2>6. pc' \in Pcs
    BY <1>7 DEF Perform, Pcs
  <2> QED BY <1>7, <2>2, <2>3, <2>4, <2>5, <2>6, FaultTypes DEF Perform, TypeOK
<1>8. CASE Complete
  <2>1. /\ "completed" \in Events /\ "completed" \in States
        /\ "performed" \in Answers
    BY DEF Events, States, Answers
  <2>2. records' \in [Instances -> Record] /\ answer' \in [Requests -> Answers]
    BY <1>8, <2>1, SettleTypes, ReplyTypes DEF Complete, TypeOK
  <2>3. pc' \in Pcs /\ cur' \in Requests \cup {NoRequest}
    BY <1>0, <1>8 DEF Complete, Pcs
  <2>4. JournalAppend("completed", cur) \/ JournalFails("completed", cur)
    BY <1>8 DEF Complete
  <2> QED BY <1>0, <1>8, <2>1, <2>2, <2>3, <2>4, AppendTypes DEF Complete, TypeOK
<1>9. CASE Unknown
  <2>1. /\ "unknown_outcome" \in Events /\ "unknown_outcome" \in States
        /\ "unknown_outcome" \in Answers
    BY DEF Events, States, Answers
  <2>2. records' \in [Instances -> Record] /\ answer' \in [Requests -> Answers]
    BY <1>9, <2>1, SettleTypes, ReplyTypes DEF Unknown
  <2>3. pc' \in Pcs /\ cur' \in Requests \cup {NoRequest}
    BY <1>9 DEF Unknown, Pcs
  <2> QED BY <1>0, <1>9, <2>1, <2>2, <2>3, AppendTypes DEF Unknown, TypeOK
<1>10. ASSUME NEW i \in Instances, Reconcile(i) PROVE TypeOK'
  BY <1>0, <1>10 DEF Reconcile, TypeOK, fileVars, memoryVars, Pcs
<1>11. CASE ReconcileAppend
  <2>1. verdict \in Resolutions
    BY <1>11 DEF ReconcileAppend, ReconcileInv
  <2>2. verdict \in Events /\ StateAfter(verdict) \in States
    BY <2>1 DEF Resolutions, Events, StateAfter, States
  <2>3. records' \in [Instances -> Record]
    BY <1>11, <2>2, SettleTypes DEF ReconcileAppend, TypeOK
  <2>4. JournalAppend(verdict, cur) \/ JournalFails(verdict, cur)
    BY <1>11 DEF ReconcileAppend
  <2> QED BY <1>0, <1>11, <2>2, <2>3, <2>4, AppendTypes
        DEF ReconcileAppend, TypeOK, Pcs
<1>12. CASE Crash
  <2>1. journal' \in Seq(Line) /\ jtorn' \in BOOLEAN
    <3>1. CASE UNCHANGED <<journal, jtorn>>
      BY <3>1 DEF TypeOK
    <3>2. CASE InFlight \in Events /\ JournalLeft(InFlight, cur)
      BY <1>0, <3>2, LeftTypes
    <3>3. CASE \E i \in Unsettled : JournalLeft("unknown_outcome", records[i].req)
      BY <1>0, <3>3, LeftTypes DEF Unsettled, Events
    <3> QED BY <1>12, <3>1, <3>2, <3>3 DEF Crash
  <2>2. /\ ledger' \in Seq(Line) /\ ltorn' \in BOOLEAN
        /\ performs' \in [Requests -> Nat]
    <3>1. CASE UNCHANGED <<ledger, ltorn, performs>>
      BY <3>1 DEF TypeOK
    <3>2. CASE pc = "perform" /\ performs' = [performs EXCEPT ![cur] = @ + 1]
      <4>1. performs' \in [Requests -> Nat]
        BY <3>2 DEF PerformInv, TypeOK
      <4>2. UNCHANGED <<ledger, ltorn>> \/ LedgerLeft(cur)
        BY <1>12 DEF Crash
      <4>3. ledger' \in Seq(Line) /\ ltorn' \in BOOLEAN
        BY <1>0, <4>2, LeftTypes DEF TypeOK, Events
      <4> QED BY <4>1, <4>3
    <3> QED BY <1>12, <3>1, <3>2 DEF Crash
  <2>3. crashes' \in 0..MaxCrashes /\ faults' \in 0..MaxFaults
    BY <1>12, ActuatorBounds DEF Crash, TypeOK
  <2> QED BY <1>12, <2>1, <2>2, <2>3, ForgetTypes DEF Crash, TypeOK, Pcs
<1>13. CASE UNCHANGED vars
  BY <1>13 DEF vars, fileVars, memoryVars, TypeOK
<1> QED
  BY <1>1, <1>2, <1>3, <1>4, <1>5, <1>6, <1>7, <1>8, <1>9, <1>10, <1>11, <1>12, <1>13
  DEF Next, StoreStep

\* Every step leaves the journal alone or adds one line to it; a line that is
\* not garbled carries the process's own sequence number, and a claim is the
\* one the process is writing.
Grows ==
  \/ UNCHANGED journal
  \/ \E l \in Line :
       /\ journal' = Append(journal, l)
       /\ l.t # "garbage" => l.seq = jseq
       /\ l.t = "executing" => pc = "claim" /\ l.req = cur

LEMMA OneLineGrows ==
  ASSUME TypeOK, NEW event \in Events, NEW q \in Requests \cup {NoRequest},
         event = "executing" => pc = "claim" /\ q = cur,
         AtMostOneLine(event, q)
  PROVE  Grows
<1>1. JournalLine(event, q) \in Line
  BY LineTypes
<1>2. Garbage \in Line /\ Garbage.t = "garbage"
  BY DEF Garbage, Line
<1> QED BY <1>1, <1>2 DEF AtMostOneLine, Grows, JournalLine

LEMMA StepGrows ==
  ASSUME TypeOK, ReconcileInv, [Next]_vars
  PROVE  Grows
<1>0. /\ cur \in Requests \cup {NoRequest}
      /\ \A i \in Instances : records[i].req \in Requests \cup {NoRequest}
      /\ verdict \in Resolutions \cup {"none"}
      /\ "executing" \in Events /\ "completed" \in Events
      /\ "unknown_outcome" \in Events /\ Resolutions \subseteq Events
      /\ "executing" \notin Resolutions
  BY DEF TypeOK, Record, Events, Resolutions
<1>1. ASSUME NEW i \in Instances, MarkUnknown(i) PROVE Grows
  <2>1. \/ JournalAppend("unknown_outcome", records[i].req)
        \/ JournalLeft("unknown_outcome", records[i].req)
    BY <1>1 DEF MarkUnknown
  <2>2. AtMostOneLine("unknown_outcome", records[i].req)
    BY <1>0, <2>1, AppendTypes, LeftTypes
  <2> QED BY <1>0, <2>2, OneLineGrows
<1>2. CASE Claim
  <2>1. AtMostOneLine("executing", cur) /\ pc = "claim"
    BY <1>0, <1>2, AppendTypes DEF Claim
  <2> QED BY <1>0, <2>1, OneLineGrows
<1>3. CASE Complete
  <2>1. AtMostOneLine("completed", cur)
    BY <1>0, <1>3, AppendTypes DEF Complete
  <2> QED BY <1>0, <2>1, OneLineGrows
<1>4. CASE Unknown
  <2>1. AtMostOneLine("unknown_outcome", cur)
    BY <1>0, <1>4, AppendTypes DEF Unknown
  <2> QED BY <1>0, <2>1, OneLineGrows
<1>5. CASE ReconcileAppend
  <2>1. verdict \in Events /\ verdict # "executing"
    BY <1>0, <1>5 DEF ReconcileAppend, ReconcileInv
  <2>2. AtMostOneLine(verdict, cur)
    BY <1>0, <1>5, <2>1, AppendTypes DEF ReconcileAppend
  <2> QED BY <1>0, <2>1, <2>2, OneLineGrows
<1>6. CASE Crash
  <2>1. CASE UNCHANGED <<journal, jtorn>>
    BY <2>1 DEF Grows
  <2>2. CASE InFlight \in Events /\ JournalLeft(InFlight, cur)
    <3>1. InFlight = "executing" => pc = "claim"
      BY <1>0 DEF InFlight
    <3>2. AtMostOneLine(InFlight, cur)
      BY <1>0, <2>2, LeftTypes
    <3> QED BY <1>0, <2>2, <3>1, <3>2, OneLineGrows
  <2>3. CASE \E i \in Unsettled : JournalLeft("unknown_outcome", records[i].req)
    <3>1. PICK i \in Instances : JournalLeft("unknown_outcome", records[i].req)
      BY <2>3 DEF Unsettled
    <3>2. AtMostOneLine("unknown_outcome", records[i].req)
      BY <1>0, <3>1, LeftTypes
    <3> QED BY <1>0, <3>2, OneLineGrows
  <2> QED BY <1>6, <2>1, <2>2, <2>3 DEF Crash
<1>7. CASE Boot \/ BootRefused \/ BootDone \/ Perform
  BY <1>7 DEF Boot, BootRefused, BootDone, Perform, Grows
<1>8. ASSUME NEW q \in Requests, Execute(q) PROVE Grows
  BY <1>8 DEF Execute, Grows
<1>9. ASSUME NEW i \in Instances, Reconcile(i) PROVE Grows
  BY <1>9 DEF Reconcile, fileVars, Grows
<1>10. CASE UNCHANGED vars
  BY <1>10 DEF vars, fileVars, Grows
<1> QED BY <1>1, <1>2, <1>3, <1>4, <1>5, <1>6, <1>7, <1>8, <1>9, <1>10
        DEF Next, StoreStep

\* A claim in the journal stays there, and damage is not undone.
LEMMA GrowthKeeps ==
  ASSUME TypeOK, Grows
  PROVE  /\ \A q \in Requests : Vouched(q) => Vouched(q)'
         /\ Chained(journal)' => Chained(journal)
<1>1. /\ DOMAIN journal = 1..Len(journal) /\ Len(journal) \in Nat
      /\ DOMAIN journal \subseteq DOMAIN journal'
      /\ \A k \in DOMAIN journal : journal'[k] = journal[k]
  <2>1. journal \in Seq(Line)
    BY DEF TypeOK
  <2>2. CASE UNCHANGED journal
    BY <2>1, <2>2
  <2>3. ASSUME NEW l \in Line, journal' = Append(journal, l)
        PROVE  /\ DOMAIN journal \subseteq DOMAIN journal'
               /\ \A k \in DOMAIN journal : journal'[k] = journal[k]
    BY <2>1, <2>3
  <2> QED BY <2>1, <2>2, <2>3 DEF Grows
<1>2. \A q \in Requests : Vouched(q) => Vouched(q)'
  BY <1>1 DEF Vouched
<1>3. Chained(journal)' => Chained(journal)
  BY <1>1 DEF Chained
<1> QED BY <1>2, <1>3

\* Only the effector's step, finished or interrupted, counts as performing.
LEMMA OnlyPerformPerforms ==
  ASSUME [Next]_vars
  PROVE  \/ UNCHANGED performs
         \/ pc = "perform" /\ performs' = [performs EXCEPT ![cur] = @ + 1]
<1>1. CASE Boot \/ BootRefused \/ BootDone \/ Claim \/ Perform \/ Complete
  BY <1>1 DEF Boot, BootRefused, BootDone, Claim, Perform, Complete
<1>2. CASE Unknown \/ ReconcileAppend \/ Crash
  BY <1>2 DEF Unknown, ReconcileAppend, Crash
<1>3. CASE \E i \in Instances : MarkUnknown(i) \/ Reconcile(i)
  BY <1>3 DEF MarkUnknown, Reconcile
<1>4. CASE \E q \in Requests : Execute(q)
  BY <1>4 DEF Execute
<1>5. CASE UNCHANGED vars
  BY <1>5 DEF vars
<1> QED BY <1>1, <1>2, <1>3, <1>4, <1>5 DEF Next, StoreStep

\* So a step keeps the claims behind the effects, and the two properties.
LEMMA PerformsSafe ==
  ASSUME TypeOK, ActuatorInv, Grows, [Next]_vars
  PROVE  VouchInv' /\ AtMostOncePerInstance' /\ NonceBinds'
<1>1. \A q \in Requests : Vouched(q) => Vouched(q)'
  BY GrowthKeeps
<1>2. VouchInv /\ AtMostOncePerInstance /\ NonceBinds
  BY DEF ActuatorInv
<1>3. CASE UNCHANGED performs
  BY <1>1, <1>2, <1>3 DEF VouchInv, AtMostOncePerInstance, NonceBinds
<1>4. CASE pc = "perform" /\ performs' = [performs EXCEPT ![cur] = @ + 1]
  <2>1. /\ cur \in Requests /\ Vouched(cur)
        /\ \A n \in NoncesOf[cur] : owner[n] = InstanceOf[cur]
        /\ \A q \in Requests : InstanceOf[q] = InstanceOf[cur] => performs[q] = 0
    BY <1>4 DEF ActuatorInv, PerformInv
  <2>2. \A q \in Requests :
          /\ performs[q] \in Nat
          /\ q # cur => performs'[q] = performs[q]
          /\ performs'[cur] = 1
    BY <1>4, <2>1 DEF TypeOK
  <2>3. \A q \in Requests : performs[q] > 0 =>
          \A n \in NoncesOf[q] : owner[n] = InstanceOf[q]
    BY <1>4 DEF ActuatorInv, MemoryInv
  <2>4. VouchInv'
    BY <1>1, <1>2, <2>1, <2>2 DEF VouchInv
  <2>5. AtMostOncePerInstance'
    BY <1>2, <2>1, <2>2 DEF AtMostOncePerInstance
  <2>6. NonceBinds'
    BY <1>2, <2>1, <2>2, <2>3 DEF NonceBinds
  <2> QED BY <2>4, <2>5, <2>6
<1> QED BY <1>3, <1>4, OnlyPerformPerforms

\* A line added to a journal that stays chained lands where the process counts.
LEMMA AddedLine ==
  ASSUME TypeOK, NEW l \in Line, journal' = Append(journal, l),
         l.t # "garbage" => l.seq = jseq, Chained(journal)'
  PROVE  Len(journal) = jseq
<1>1. /\ Len(journal) \in Nat /\ Len(journal) + 1 \in DOMAIN journal'
      /\ journal'[Len(journal) + 1] = l
  BY DEF TypeOK
<1>2. l.t # "garbage" /\ l.seq = (Len(journal) + 1) - 1
  BY <1>1 DEF Chained
<1> QED BY <1>1, <1>2

\* The parts of NonceInv that speak of the journal alone.
LEMMA ClaimsAgree ==
  ASSUME TypeOK, ActuatorInv, Grows
  PROVE  /\ \A k \in DOMAIN journal' :
              journal'[k].t = "executing" => journal'[k].req \in Requests
         /\ Chained(journal)' =>
              \A k, m \in DOMAIN journal' : \A n \in Nonces :
                Binds(k, n)' /\ Binds(m, n)' =>
                  LineInstance(journal'[k]) = LineInstance(journal'[m])
<1>0. journal \in Seq(Line) /\ NonceInv /\ ClaimInv
  BY DEF TypeOK, ActuatorInv
<1>1. CASE UNCHANGED journal
  BY <1>0, <1>1 DEF NonceInv, Binds, Chained
<1>2. ASSUME NEW l \in Line, journal' = Append(journal, l),
             l.t # "garbage" => l.seq = jseq,
             l.t = "executing" => pc = "claim" /\ l.req = cur
      PROVE  /\ \A k \in DOMAIN journal' :
                  journal'[k].t = "executing" => journal'[k].req \in Requests
             /\ Chained(journal)' =>
                  \A k, m \in DOMAIN journal' : \A n \in Nonces :
                    Binds(k, n)' /\ Binds(m, n)' =>
                      LineInstance(journal'[k]) = LineInstance(journal'[m])
  <2>0. PICK new \in Nat : new = Len(journal) + 1
    BY <1>0
  <2>1. /\ \A k \in DOMAIN journal' : k \in DOMAIN journal \/ k = new
        /\ \A k \in DOMAIN journal : journal'[k] = journal[k]
        /\ journal'[new] = l
        /\ DOMAIN journal = 1..Len(journal) /\ Len(journal) \in Nat
    BY <1>0, <1>2, <2>0
  <2>2. l.t = "executing" => l.req \in Requests
    BY <1>0, <1>2 DEF ClaimInv
  <2>3. \A k \in DOMAIN journal' :
          journal'[k].t = "executing" => journal'[k].req \in Requests
    BY <1>0, <2>1, <2>2 DEF NonceInv
  <2>4. ASSUME Chained(journal)', NEW k \in DOMAIN journal, NEW n \in Nonces,
               Binds(k, n), l.t = "executing", n \in NoncesOf[l.req]
        PROVE  LineInstance(journal[k]) = LineInstance(l)
    <3>1. Len(journal) = jseq
      BY <1>2, <2>4, AddedLine
    <3>2. Chained(journal)
      BY <2>4, GrowthKeeps
    <3>3. owner[n] = LineInstance(journal[k])
      BY <1>0, <1>2, <2>1, <2>4, <3>1, <3>2 DEF NonceInv
    <3>4. owner[n] \in {NoInstance, InstanceOf[cur]}
      BY <1>0, <1>2, <2>4 DEF ClaimInv, Foreign
    <3>5. journal[k].req \in Requests
      BY <1>0, <2>4 DEF NonceInv, Binds
    <3>6. LineInstance(journal[k]) # NoInstance
      BY <3>5, RequestAssumption DEF LineInstance
    <3> QED BY <1>2, <2>4, <3>3, <3>4, <3>6 DEF LineInstance
  <2>5. ASSUME Chained(journal)', NEW k \in DOMAIN journal', NEW m \in DOMAIN journal',
               NEW n \in Nonces, Binds(k, n)', Binds(m, n)'
        PROVE  LineInstance(journal'[k]) = LineInstance(journal'[m])
    <3>1. \A j \in DOMAIN journal : Binds(j, n)' => Binds(j, n)
      BY <2>1 DEF Binds
    <3>2. Binds(new, n)' => l.t = "executing" /\ n \in NoncesOf[l.req]
      BY <2>1 DEF Binds
    <3>3. Chained(journal)
      BY <2>5, GrowthKeeps
    <3>4. CASE k \in DOMAIN journal /\ m \in DOMAIN journal
      BY <1>0, <2>1, <2>5, <3>1, <3>3, <3>4 DEF NonceInv
    <3>5. CASE k \in DOMAIN journal /\ m = new
      BY <2>1, <2>4, <2>5, <3>1, <3>2, <3>5
    <3>6. CASE k = new /\ m \in DOMAIN journal
      BY <2>1, <2>4, <2>5, <3>1, <3>2, <3>6
    <3>7. CASE k = new /\ m = new
      BY <3>7
    <3> QED BY <2>1, <3>4, <3>5, <3>6, <3>7
  <2> QED BY <2>3, <2>5
<1> QED BY <1>1, <1>2 DEF Grows

\* The rest of NonceInv: what the process counts and whom it holds for owner.
Counted ==
  /\ pc # "down" => jseq <= Len(journal)
  /\ Chained(journal) /\ pc # "down" =>
       \A k \in DOMAIN journal : \A n \in Nonces :
         k <= jseq /\ Binds(k, n) => owner[n] = LineInstance(journal[k])

\* A step that counts no claim and moves no owner keeps it.
LEMMA CountKept ==
  ASSUME TypeOK, ActuatorInv, Grows, pc # "down", UNCHANGED owner,
         \/ UNCHANGED jseq
         \/ \E l \in Line :
              /\ journal' = Append(journal, l) /\ jseq' = jseq + 1
              /\ l.t # "executing" /\ (l.t # "garbage" => l.seq = jseq)
  PROVE  Counted'
<1>0. /\ journal \in Seq(Line) /\ jseq \in Nat /\ NonceInv /\ Len(journal) \in Nat
      /\ DOMAIN journal = 1..Len(journal) /\ jseq <= Len(journal)
  BY DEF TypeOK, ActuatorInv, NonceInv
<1>1. Chained(journal)' => Chained(journal)
  BY GrowthKeeps
<1>2. /\ Len(journal') \in Nat /\ Len(journal) <= Len(journal')
      /\ \A k \in DOMAIN journal : journal'[k] = journal[k]
  BY <1>0 DEF Grows
<1>3. CASE UNCHANGED jseq
  <2>1. ASSUME NEW k \in DOMAIN journal', NEW n \in Nonces, Chained(journal)',
               k <= jseq', Binds(k, n)'
        PROVE  owner'[n] = LineInstance(journal'[k])
    <3>1. k \in DOMAIN journal
      <4>1. k \in 1..Len(journal')
        BY <1>0, <2>1 DEF Grows
      <4> QED BY <1>0, <1>3, <2>1, <4>1
    <3>2. Binds(k, n) /\ journal'[k] = journal[k]
      BY <1>2, <2>1, <3>1 DEF Binds
    <3> QED BY <1>0, <1>1, <1>3, <2>1, <3>1, <3>2 DEF NonceInv
  <2>2. jseq' <= Len(journal')
    BY <1>0, <1>2, <1>3
  <2> QED BY <2>1, <2>2 DEF Counted
<1>4. ASSUME NEW l \in Line, journal' = Append(journal, l), jseq' = jseq + 1,
             l.t # "executing", l.t # "garbage" => l.seq = jseq
      PROVE  Counted'
  <2>1. /\ DOMAIN journal' = 1..(Len(journal) + 1)
        /\ journal'[Len(journal) + 1] = l /\ Len(journal') = Len(journal) + 1
    BY <1>0, <1>4
  <2>2. ASSUME NEW k \in DOMAIN journal', NEW n \in Nonces, Chained(journal)',
               k <= jseq', Binds(k, n)'
        PROVE  owner'[n] = LineInstance(journal'[k])
    <3>1. Len(journal) = jseq
      BY <1>4, <2>2, AddedLine
    <3>2. k # Len(journal) + 1
      BY <1>4, <2>1, <2>2 DEF Binds
    <3>3. k \in DOMAIN journal /\ k <= jseq
      BY <1>0, <2>1, <2>2, <3>1, <3>2
    <3>4. Binds(k, n) /\ journal'[k] = journal[k]
      BY <1>2, <2>2, <3>3 DEF Binds
    <3> QED BY <1>0, <1>1, <2>2, <3>3, <3>4 DEF NonceInv
  <2>3. jseq' <= Len(journal')
    BY <1>0, <1>4, <2>1
  <2> QED BY <2>2, <2>3 DEF Counted
<1> QED BY <1>3, <1>4

\* A running process that keeps its owners and loses no record remembers.
LEMMA MemoryKept ==
  ASSUME TypeOK, ActuatorInv, [Next]_vars, pc # "down", UNCHANGED owner,
         \A i \in Instances : records[i].state # "none" => records'[i].state # "none"
  PROVE  MemoryInv'
<1>1. ASSUME NEW q \in Requests, performs'[q] > 0
      PROVE  /\ records'[InstanceOf[q]].state # "none"
             /\ \A n \in NoncesOf[q] : owner'[n] = InstanceOf[q]
  <2>0. InstanceOf[q] \in Instances
    BY RequestAssumption
  <2>1. CASE performs[q] > 0
    BY <2>0, <2>1 DEF ActuatorInv, MemoryInv
  <2>2. CASE pc = "perform" /\ q = cur
    BY <2>0, <2>2 DEF ActuatorInv, PerformInv
  <2>3. performs[q] > 0 \/ (pc = "perform" /\ q = cur)
    BY <1>1, OnlyPerformPerforms DEF TypeOK
  <2> QED BY <2>1, <2>2, <2>3
<1> QED BY <1>1 DEF MemoryInv

\* What a journal append that is not a claim does to the two.
LEMMA AppendCounts ==
  ASSUME TypeOK, ActuatorInv, Grows, pc # "down", UNCHANGED owner,
         NEW event \in Events \ {"executing"}, NEW q \in Requests \cup {NoRequest},
         JournalAppend(event, q) \/ JournalFails(event, q)
  PROVE  Counted'
<1>1. CASE JournalAppend(event, q)
  <2>1. journal \in Seq(Line) /\ jtorn \in BOOLEAN /\ JournalLine(event, q) \in Line
    BY LineTypes DEF TypeOK
  <2>2. PICK l \in {JournalLine(event, q), Garbage} : journal' = Append(journal, l)
    BY <1>1, <2>1, WrittenTypes DEF JournalAppend
  <2>3. /\ l \in Line /\ l.t # "executing"
        /\ l.t # "garbage" => l.seq = jseq
    BY <2>1, <2>2 DEF JournalLine, Garbage, Line
  <2>4. jseq' = jseq + 1
    BY <1>1 DEF JournalAppend
  <2> QED BY <2>2, <2>3, <2>4, CountKept
<1>2. CASE JournalFails(event, q)
  BY <1>2, CountKept DEF JournalFails
<1> QED BY <1>1, <1>2

\* Settling a record leaves it a record.
LEMMA SettleKeeps ==
  ASSUME TypeOK, NEW i0, NEW state \in States \ {"none"}, Settle(i0, state)
  PROVE  \A i \in Instances : records[i].state # "none" => records'[i].state # "none"
BY DEF Settle, TypeOK, Record

LEMMA SafeInit == Init => ActuatorInv
<1> SUFFICES ASSUME Init PROVE ActuatorInv
  OBVIOUS
<1>1. pc = "down" /\ DOMAIN journal = {} /\ \A q \in Requests : performs[q] = 0
  BY DEF Init
<1>2. VouchInv /\ MemoryInv /\ ClaimInv /\ PerformInv /\ ReconcileInv
  BY <1>1 DEF VouchInv, MemoryInv, ClaimInv, PerformInv, ReconcileInv
<1>3. NonceInv
  BY <1>1 DEF NonceInv
<1>4. AtMostOncePerInstance /\ NonceBinds
  BY <1>1 DEF AtMostOncePerInstance, NonceBinds
<1> QED BY <1>2, <1>3, <1>4 DEF ActuatorInv

\* The parts of the invariant that speak of the running process.
Running == MemoryInv /\ ClaimInv /\ PerformInv /\ ReconcileInv /\ Counted

\* A store that is down has nothing to remember.
LEMMA DownRuns == ASSUME pc' = "down" PROVE Running'
BY DEF Running, MemoryInv, ClaimInv, PerformInv, ReconcileInv, Counted

\* Boot reads every claim and every owner back from a journal it accepts.
LEMMA BootRuns ==
  ASSUME TypeOK, ActuatorInv, Boot
  PROVE  Running'
<1>0. /\ Chained(journal) /\ NonceInv /\ VouchInv
      /\ UNCHANGED <<journal, performs>> /\ pc' = "marking"
      /\ jseq' = Len(journal) /\ Len(journal) \in Nat
  BY DEF Boot, Bootable, ActuatorInv, TypeOK
<1>1. ASSUME NEW k \in DOMAIN journal, NEW n \in Nonces, Binds(k, n)
      PROVE  owner'[n] = LineInstance(journal[k])
  <2>1. k \in BindersOf(n)
    BY <1>1 DEF BindersOf, Binds
  <2>2. PICK m \in BindersOf(n) : FoldedOwner(n) = LineInstance(journal[m])
    BY <1>0, <2>1, OwnerTypes
  <2>3. m \in DOMAIN journal /\ Binds(m, n)
    BY <2>2 DEF BindersOf, Binds
  <2>4. LineInstance(journal[k]) = LineInstance(journal[m])
    BY <1>0, <1>1, <2>3 DEF NonceInv
  <2> QED BY <2>2, <2>4 DEF Boot
<1>2. Counted'
  <2>1. \A k \in DOMAIN journal, n \in Nonces : Binds(k, n)' => Binds(k, n)
    BY <1>0 DEF Binds
  <2> QED BY <1>0, <1>1, <2>1 DEF Counted
<1>3. ASSUME NEW q \in Requests, performs[q] > 0
      PROVE  /\ records'[InstanceOf[q]].state # "none"
             /\ \A n \in NoncesOf[q] : owner'[n] = InstanceOf[q]
  <2>0. InstanceOf[q] \in Instances /\ NoncesOf[q] \subseteq Nonces
    BY RequestAssumption
  <2>1. PICK k \in DOMAIN journal : journal[k].t = "executing" /\ journal[k].req = q
    BY <1>0, <1>3 DEF VouchInv, Vouched, Chained
  <2>2. ClaimsOf(InstanceOf[q]) # {}
    BY <2>1 DEF ClaimsOf, LineInstance
  <2>3. Folded(InstanceOf[q]).state # "none"
    BY <1>0, <2>0, <2>2, FoldedTypes
  <2>4. records'[InstanceOf[q]].state # "none"
    BY <2>0, <2>3 DEF Boot
  <2>5. ASSUME NEW n \in NoncesOf[q] PROVE owner'[n] = InstanceOf[q]
    BY <1>1, <2>0, <2>1 DEF Binds, LineInstance
  <2> QED BY <2>4, <2>5
<1>4. MemoryInv'
  BY <1>0, <1>3 DEF MemoryInv
<1> QED BY <1>0, <1>2, <1>4 DEF Running, ClaimInv, PerformInv, ReconcileInv

\* The write-ahead record of a claim.
LEMMA ClaimRuns ==
  ASSUME TypeOK, ActuatorInv, Grows, Claim
  PROVE  Running'
<1>0. /\ pc = "claim" /\ cur \in Requests /\ InstanceOf[cur] \in Instances
      /\ NoncesOf[cur] \subseteq Nonces /\ ~Foreign(cur)
      /\ records[InstanceOf[cur]].state = "none" /\ UNCHANGED performs
      /\ MemoryInv /\ NonceInv /\ journal \in Seq(Line) /\ jtorn \in BOOLEAN
      /\ jseq \in Nat
  BY RequestAssumption DEF Claim, ActuatorInv, ClaimInv, TypeOK
<1>1. CASE JournalFails("executing", cur) /\ UNCHANGED <<records, owner>> /\ pc' = "idle"
  <2>1. MemoryInv'
    BY <1>0, <1>1 DEF MemoryInv
  <2>2. Counted'
    BY <1>0, <1>1, CountKept DEF JournalFails
  <2> QED BY <1>1, <2>1, <2>2 DEF Running, ClaimInv, PerformInv, ReconcileInv
<1>2. CASE /\ JournalAppend("executing", cur)
           /\ records' = [records EXCEPT ![InstanceOf[cur]] =
                            [state |-> "executing", req |-> cur]]
           /\ owner' = [n \in Nonces |->
                          IF n \in NoncesOf[cur] THEN InstanceOf[cur] ELSE owner[n]]
           /\ pc' = "perform" /\ UNCHANGED cur
  <2>1. \A i \in Instances : records'[i].state = "none" => records[i].state = "none"
    BY <1>2 DEF TypeOK
  <2>2. records'[InstanceOf[cur]].state = "executing"
    BY <1>0, <1>2 DEF TypeOK
  <2>3. \A n \in Nonces :
          owner[n] # NoInstance /\ n \in NoncesOf[cur] => owner[n] = InstanceOf[cur]
    BY <1>0 DEF Foreign
  <2>4. \A n \in Nonces : owner[n] # NoInstance => owner'[n] = owner[n]
    BY <1>2, <2>3
  <2>5. \A q \in Requests : performs[q] > 0 => InstanceOf[q] # InstanceOf[cur]
    BY <1>0 DEF MemoryInv
  <2>6. MemoryInv'
    <3> SUFFICES ASSUME NEW q \in Requests, performs[q] > 0
                 PROVE  /\ records'[InstanceOf[q]].state # "none"
                        /\ \A n \in NoncesOf[q] : owner'[n] = InstanceOf[q]
      BY <1>0 DEF MemoryInv
    <3>1. /\ InstanceOf[q] \in Instances /\ NoncesOf[q] \subseteq Nonces
          /\ InstanceOf[q] # NoInstance
      BY RequestAssumption
    <3>2. /\ records[InstanceOf[q]].state # "none"
          /\ \A n \in NoncesOf[q] : owner[n] = InstanceOf[q]
      BY <1>0 DEF MemoryInv
    <3> QED BY <2>1, <2>4, <3>1, <3>2
  <2>7. JournalLine("executing", cur) \in Line
    BY <1>0, LineTypes DEF Events
  <2>8. PICK l \in {JournalLine("executing", cur), Garbage} :
          journal' = Append(journal, l)
    BY <1>0, <1>2, <2>7, WrittenTypes DEF JournalAppend
  <2>9. /\ l \in Line
        /\ l.t # "garbage" => l.seq = jseq
        /\ l.t = "garbage" \/ (l.t = "executing" /\ l.req = cur)
    BY <2>7, <2>8 DEF JournalLine, Garbage, Line
  <2>10. /\ Len(journal) \in Nat /\ DOMAIN journal = 1..Len(journal)
         /\ DOMAIN journal' = 1..(Len(journal) + 1) /\ Len(journal') = Len(journal) + 1
         /\ journal'[Len(journal) + 1] = l
         /\ \A k \in DOMAIN journal : journal'[k] = journal[k]
    BY <1>0, <2>8
  <2>11. Vouched(cur)'
    BY <1>2, <2>9, <2>10 DEF Vouched
  <2>12. \A q \in Requests : InstanceOf[q] = InstanceOf[cur] => performs[q] = 0
    BY <2>5 DEF TypeOK
  <2>13. PerformInv'
    BY <1>0, <1>2, <2>2, <2>11, <2>12 DEF PerformInv
  <2>14. jseq' = jseq + 1 /\ jseq <= Len(journal)
    BY <1>0, <1>2 DEF JournalAppend, NonceInv
  <2>15. ASSUME NEW k \in DOMAIN journal', NEW n \in Nonces, Chained(journal)',
                Binds(k, n)'
         PROVE  owner'[n] = LineInstance(journal'[k])
    <3>1. Len(journal) = jseq
      BY <2>8, <2>9, <2>15, AddedLine
    <3>2. CASE k = Len(journal) + 1
      BY <1>2, <2>9, <2>10, <2>15, <3>2 DEF Binds, LineInstance
    <3>3. CASE k \in DOMAIN journal
      <4>1. Binds(k, n) /\ journal'[k] = journal[k]
        BY <2>10, <2>15, <3>3 DEF Binds
      <4>2. Chained(journal) /\ k <= jseq
        BY <2>10, <2>15, <3>1, <3>3, GrowthKeeps
      <4>3. owner[n] = LineInstance(journal[k]) /\ journal[k].req \in Requests
        BY <1>0, <3>3, <4>1, <4>2 DEF NonceInv, Binds
      <4>4. owner[n] # NoInstance
        BY <4>3, RequestAssumption DEF LineInstance
      <4> QED BY <2>4, <4>1, <4>3, <4>4
    <3> QED BY <2>10, <2>15, <3>2, <3>3
  <2>16. Counted'
    BY <1>0, <2>10, <2>14, <2>15 DEF Counted
  <2> QED BY <1>2, <2>6, <2>13, <2>16 DEF Running, ClaimInv, ReconcileInv
<1> QED BY <1>1, <1>2 DEF Claim

\* Every other step of a running process.
LEMMA StepRuns ==
  ASSUME TypeOK, ActuatorInv, Grows, [Next]_vars
  PROVE  Running'
<1>0. /\ cur \in Requests \cup {NoRequest}
      /\ \A i \in Instances : records[i].req \in Requests \cup {NoRequest}
      /\ Running
  BY DEF TypeOK, Record, ActuatorInv, NonceInv, Running, Counted
<1> DEFINE Quiet == ClaimInv' /\ PerformInv' /\ ReconcileInv'
<1>q. ASSUME pc' \notin {"claim", "perform", "reconcile"} PROVE Quiet
  BY <1>q DEF ClaimInv, PerformInv, ReconcileInv
<1> HIDE DEF Quiet
<1>c. ASSUME MemoryInv', Counted', Quiet PROVE Running'
  BY <1>c DEF Running, Quiet
<1>1. CASE Boot
  BY <1>1, BootRuns
<1>2. CASE BootRefused \/ Crash
  BY <1>2, DownRuns DEF BootRefused, Crash
<1>3. ASSUME NEW i \in Instances, MarkUnknown(i) PROVE Running'
  <2>1. CASE pc' = "down"
    BY <2>1, DownRuns
  <2>2. CASE /\ JournalAppend("unknown_outcome", records[i].req)
             /\ Settle(i, "unknown_outcome") /\ UNCHANGED <<pc, owner, lseq>>
    <3>1. pc = "marking" /\ pc' = "marking"
      BY <1>3, <2>2 DEF MarkUnknown
    <3>2. Counted'
      BY <1>0, <2>2, <3>1, AppendCounts DEF Events
    <3>3. MemoryInv'
      BY <2>2, <3>1, SettleKeeps, MemoryKept DEF States
    <3> QED BY <3>1, <3>2, <3>3, <1>q, <1>c
  <2> QED BY <1>3, <2>1, <2>2 DEF MarkUnknown
<1>4. CASE BootDone
  <2>1. CASE pc' = "down"
    BY <2>1, DownRuns
  <2>2. CASE pc' = "idle" /\ UNCHANGED memoryVars
    <3>1. pc = "marking" /\ UNCHANGED <<records, owner, jseq>>
      BY <1>4, <2>2 DEF BootDone, memoryVars
    <3>2. Counted' /\ MemoryInv'
      BY <3>1, CountKept, MemoryKept
    <3> QED BY <2>2, <3>2, <1>q, <1>c
  <2> QED BY <1>4, <2>1, <2>2 DEF BootDone
<1>5. ASSUME NEW q \in Requests, Execute(q) PROVE Running'
  <2>1. pc = "idle" /\ UNCHANGED <<records, owner, jseq>>
    BY <1>5 DEF Execute, memoryVars
  <2>2. Counted' /\ MemoryInv'
    BY <2>1, CountKept, MemoryKept
  <2>3. CASE UNCHANGED pc
    BY <2>1, <2>2, <2>3, <1>q, <1>c
  <2>4. CASE Admits(q) /\ pc' = "claim" /\ cur' = q
    <3>1. records'[InstanceOf[q]].state = "none" /\ ~Foreign(q)'
      BY <2>1, <2>4 DEF Admits, NoRecord, Foreign
    <3>2. Quiet
      BY <2>4, <3>1 DEF Quiet, ClaimInv, PerformInv, ReconcileInv, Foreign
    <3> QED BY <2>2, <3>2, <1>c
  <2> QED BY <1>5, <2>3, <2>4 DEF Execute
<1>6. CASE Claim
  BY <1>6, ClaimRuns
<1>7. CASE Perform
  <2>1. /\ pc = "perform" /\ pc' \in {"complete", "unknown"}
        /\ UNCHANGED <<records, owner, jseq>>
    BY <1>7 DEF Perform
  <2>2. Counted' /\ MemoryInv'
    BY <2>1, CountKept, MemoryKept
  <2> QED BY <2>1, <2>2, <1>q, <1>c
<1>8. CASE Complete
  <2>1. /\ pc = "complete" /\ pc' \in {"idle", "unknown"} /\ UNCHANGED owner
        /\ JournalAppend("completed", cur) \/ JournalFails("completed", cur)
        /\ Settle(InstanceOf[cur], "completed") \/ UNCHANGED records
    BY <1>8 DEF Complete
  <2>2. Counted'
    BY <1>0, <2>1, AppendCounts DEF Events
  <2>3. MemoryInv'
    BY <2>1, SettleKeeps, MemoryKept DEF States
  <2> QED BY <2>1, <2>2, <2>3, <1>q, <1>c
<1>9. CASE Unknown
  <2>1. /\ pc = "unknown" /\ pc' = "idle" /\ UNCHANGED owner
        /\ JournalAppend("unknown_outcome", cur) \/ JournalFails("unknown_outcome", cur)
        /\ Settle(InstanceOf[cur], "unknown_outcome")
    BY <1>9 DEF Unknown
  <2>2. Counted'
    BY <1>0, <2>1, AppendCounts DEF Events
  <2>3. MemoryInv'
    BY <2>1, SettleKeeps, MemoryKept DEF States
  <2> QED BY <2>1, <2>2, <2>3, <1>q, <1>c
<1>10. ASSUME NEW i \in Instances, Reconcile(i) PROVE Running'
  <2>1. /\ pc = "idle" /\ pc' = "reconcile" /\ verdict' \in Resolutions
        /\ UNCHANGED <<records, owner, jseq>>
    BY <1>10 DEF Reconcile, memoryVars
  <2>2. Counted' /\ MemoryInv'
    BY <2>1, CountKept, MemoryKept
  <2>3. Quiet
    BY <2>1 DEF Quiet, ClaimInv, PerformInv, ReconcileInv
  <2> QED BY <2>2, <2>3, <1>c
<1>11. CASE ReconcileAppend
  <2>1. /\ pc = "reconcile" /\ pc' = "idle" /\ UNCHANGED owner
        /\ JournalAppend(verdict, cur) \/ JournalFails(verdict, cur)
        /\ Settle(InstanceOf[cur], StateAfter(verdict)) \/ UNCHANGED records
    BY <1>11 DEF ReconcileAppend
  <2>2. verdict \in Resolutions
    BY <2>1 DEF ActuatorInv, ReconcileInv
  <2>3. /\ verdict \in Events \ {"executing"}
        /\ StateAfter(verdict) \in States \ {"none"}
    BY <2>2 DEF Resolutions, Events, StateAfter, States
  <2>4. Counted'
    BY <1>0, <2>1, <2>3, AppendCounts
  <2>5. MemoryInv'
    BY <2>1, <2>3, SettleKeeps, MemoryKept
  <2> QED BY <2>1, <2>4, <2>5, <1>q, <1>c
<1>12. CASE UNCHANGED vars
  BY <1>0, <1>12 DEF vars, fileVars, memoryVars, Running, MemoryInv, ClaimInv,
     PerformInv, ReconcileInv, Counted, Foreign, Vouched, Binds, Chained
<1> QED
  BY <1>1, <1>2, <1>3, <1>4, <1>5, <1>6, <1>7, <1>8, <1>9, <1>10, <1>11, <1>12
  DEF Next, StoreStep

\* The invariant is inductive.
LEMMA SafeStep ==
  ASSUME TypeOK, ActuatorInv, [Next]_vars
  PROVE  ActuatorInv'
<1>1. Grows
  BY StepGrows DEF ActuatorInv
<1>2. VouchInv' /\ AtMostOncePerInstance' /\ NonceBinds'
  BY <1>1, PerformsSafe
<1>3. Running'
  BY <1>1, StepRuns
<1>4. NonceInv'
  BY <1>1, <1>3, ClaimsAgree DEF Running, Counted, NonceInv
<1> QED BY <1>2, <1>3, <1>4 DEF ActuatorInv, Running

\* The types and ActuatorInv hold in every reachable state of the store,
\* whatever fails and however often it restarts.
THEOREM ActuatorInvariant == Spec => [](TypeOK /\ ActuatorInv)
<1>1. Init => TypeOK /\ ActuatorInv
  BY TypedInit, SafeInit
<1>2. TypeOK /\ ActuatorInv /\ [Next]_vars => (TypeOK /\ ActuatorInv)'
  BY TypedStep, SafeStep DEF ActuatorInv
<1> QED BY <1>1, <1>2, PTL DEF Spec

\* The files, the records and the nonce owners of the store stay well typed
\* over every failing write, death and boot.
THEOREM ActuatorTypes == Spec => []TypeOK
BY ActuatorInvariant, PTL

\* Store.execute/3 performs an effect instance at most once.
THEOREM InstanceAtMostOnce == Spec => []AtMostOncePerInstance
<1>1. TypeOK /\ ActuatorInv => AtMostOncePerInstance
  BY DEF ActuatorInv
<1> QED BY <1>1, ActuatorInvariant, PTL

\* A signature's nonce is spent on one effect instance only.
THEOREM NonceSpentOnce == Spec => []NonceBinds
<1>1. TypeOK /\ ActuatorInv => NonceBinds
  BY DEF ActuatorInv
<1> QED BY <1>1, ActuatorInvariant, PTL
\* While the store serves, the only claim that is executing is the one in hand.
HandInv ==
  /\ pc \in {"perform", "complete", "unknown"} => cur \in Requests
  /\ pc = "reconcile" => verdict \in Resolutions
  /\ pc \notin {"down", "marking"} =>
       \A i \in Instances :
         records[i].state = "executing" =>
           pc \in {"perform", "complete", "unknown"} /\ i = InstanceOf[cur]

\* Every step keeps to one executing claim: claim_and_perform/7 opens it,
\* perform/4 and unknown/3 close it on every path, and boot/1 does not serve
\* before mark_unknown_on_restart/1 is through.
LEMMA HandStep ==
  ASSUME TypeOK, ActuatorInv, HandInv, [Next]_vars
  PROVE  HandInv'
<1> USE DEF HandInv, TypeOK, Record, States
<1>1. CASE Boot
  BY <1>1 DEF Boot
<1>2. CASE BootRefused
  BY <1>2 DEF BootRefused, memoryVars
<1>3. CASE \E i \in Instances : MarkUnknown(i)
  BY <1>3 DEF MarkUnknown
<1>4. CASE BootDone
  BY <1>4 DEF BootDone, Unsettled, memoryVars
<1>5. CASE Claim
  BY <1>5, RequestAssumption DEF Claim, ActuatorInv, ClaimInv
<1>6. CASE Perform
  BY <1>6 DEF Perform
<1>7. CASE Complete
  <2>1. CASE pc' = "unknown" /\ UNCHANGED <<cur, records>>
    BY <1>7, <2>1 DEF Complete
  <2>2. CASE Settle(InstanceOf[cur], "completed") /\ pc' = "idle"
    BY <1>7, <2>2, RequestAssumption DEF Complete, Settle
  <2> QED BY <1>7, <2>1, <2>2 DEF Complete
<1>8. CASE Unknown
  BY <1>8, RequestAssumption DEF Unknown, Settle
<1>9. CASE ReconcileAppend
  <2>1. pc = "reconcile" /\ pc' = "idle"
    BY <1>9 DEF ReconcileAppend
  <2>2. StateAfter(verdict) # "executing"
    BY <2>1 DEF StateAfter, Resolutions
  <2>3. \A i \in Instances : records[i].state # "executing"
    BY <2>1
  <2>4. CASE UNCHANGED records
    BY <2>1, <2>3, <2>4
  <2>5. CASE Settle(InstanceOf[cur], StateAfter(verdict))
    BY <2>1, <2>2, <2>3, <2>5 DEF Settle
  <2> QED BY <1>9, <2>4, <2>5 DEF ReconcileAppend
<1>10. CASE \E q \in Requests : Execute(q)
  BY <1>10 DEF Execute, memoryVars
<1>11. CASE \E i \in Instances : Reconcile(i)
  BY <1>11 DEF Reconcile, memoryVars
<1>12. CASE Crash
  BY <1>12 DEF Crash
<1>13. CASE UNCHANGED vars
  BY <1>13 DEF vars, memoryVars
<1> QED BY <1>1, <1>2, <1>3, <1>4, <1>5, <1>6, <1>7, <1>8, <1>9, <1>10, <1>11, <1>12,
           <1>13 DEF Next, StoreStep

\* Between two calls no claim is left executing, whatever write failed and
\* wherever the process died: nobody is refused with claim_held for good.
THEOREM NoStuckClaim == Spec => []NoClaimStuck
<1>1. Init => HandInv
  BY DEF Init, HandInv
<1>2. TypeOK /\ ActuatorInv /\ HandInv /\ [Next]_vars => HandInv'
  BY HandStep
<1>3. HandInv => NoClaimStuck
  BY DEF HandInv, NoClaimStuck, Unsettled
<1> QED BY <1>1, <1>2, <1>3, ActuatorInvariant, PTL DEF Spec
=============================================================================
