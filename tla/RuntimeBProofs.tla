--------------------------- MODULE RuntimeBProofs ---------------------------
(***************************************************************************)
(* A session of RuntimeB for any calls, frames of other senders, header    *)
(* length and bounds. The inductive invariant (SessionInv) has six parts,  *)
(* each resting on the ones before: the units between owner and host are   *)
(* the frames the host has still to take, whole and in order, so that      *)
(* whatever chunks the stream comes in the host parses the message that    *)
(* was written (FrameInv); no two frames carry the id of one request       *)
(* (SentInv); the block an argument or a result is in holds it until it is *)
(* read, and the host's replies answer the frames one by one (HostInv);    *)
(* the owner waits for its last request only, and an answer it took is     *)
(* that of its request (ClientInv); its mailbox holds what the port has    *)
(* delivered, in order (BoxInv); and the replies it has consumed never run *)
(* ahead of its requests, and fall behind for good with the first timeout  *)
(* (PairInv).  On top of it, BalanceInv counts what is on the stack and on *)
(* the heap of the instance while a call is made: what the calls before it *)
(* left behind, and a block of its own for each of its arguments.          *)
(***************************************************************************)
EXTENDS RuntimeB, FiniteSetTheorems, SequenceTheorems, TLAPS

-----------------------------------------------------------------------------
(* Framing. *)

Ops == {"descriptor", "call", "close"} \cup Strays
Fns == DOMAIN Arity \cup {"none"}
Msg == [id : Ids \cup {NoId}, op : Ops, fn : Fns, args : Seq(Strings)]

UnitAt(k, p) == [frame |-> k, part |-> p]
Unit == [frame : Nat, part : Nat]

\* The length of frame k of the messages s.
FullLen(s, k) == HeaderLen + PayloadLen(s[k])

\* Around position j of the units u stands all of a frame that is yet to be
\* taken, and behind it the next one.
WholeFrame(u, t, s, j) ==
  LET k == u[j].frame
      p == u[j].part
  IN  /\ k \in t + 1 .. Len(s)
      /\ p \in 1 .. FullLen(s, k)
      /\ p <= j /\ (j - p) + FullLen(s, k) <= Len(u)
      /\ \A x \in 1 .. FullLen(s, k) : u[(j - p) + x] = UnitAt(k, x)
      /\ p = FullLen(s, k) /\ j < Len(u) => u[j + 1] = UnitAt(k + 1, 1)

\* The units u are the frames of the messages s after the first t.
Framed(u, t, s) ==
  /\ t <= Len(s)
  /\ u = <<>> <=> t = Len(s)
  /\ u # <<>> =>
       /\ u[1] = UnitAt(t + 1, 1)
       /\ u[Len(u)] = UnitAt(Len(s), FullLen(s, Len(s)))
  /\ \A j \in DOMAIN u : WholeFrame(u, t, s, j)
  /\ \A i, j \in DOMAIN u : i <= j => u[i].frame <= u[j].frame

\* A frame has a header and at least one unit of payload.
LEMMA FrameLens ==
  ASSUME NEW m \in Msg
  PROVE  PayloadLen(m) \in {1, 2} /\ HeaderLen \in Nat /\ HeaderLen >= 1
BY SessionAssumption DEF PayloadLen

\* An id is a number.
LEMMA MsgIds == ASSUME NEW m \in Msg PROVE m.id \in Nat
BY SessionAssumption DEF Msg, Ids, NoId

\* The units of a frame.
LEMMA UnitsAre ==
  ASSUME NEW k \in Nat, NEW m \in Msg
  PROVE  /\ Units(k, m) \in Seq(Unit)
         /\ Len(Units(k, m)) = HeaderLen + PayloadLen(m)
         /\ \A x \in 1 .. HeaderLen + PayloadLen(m) : Units(k, m)[x] = UnitAt(k, x)
<1> DEFINE n == HeaderLen + PayloadLen(m)
<1>1. n \in Nat
  BY FrameLens
<1>2. \A x \in 1..n : [frame |-> k, part |-> x] \in Unit
  BY DEF Unit
<1>3. Units(k, m) \in [1..n -> Unit]
  BY <1>2 DEF Units
<1> HIDE DEF n
<1>4. Units(k, m) \in Seq(Unit) /\ Len(Units(k, m)) = n
  BY <1>1, <1>3
<1> QED BY <1>4 DEF Units, UnitAt, n

\* A frame written goes behind the frames that wait.
LEMMA FramedGrows ==
  ASSUME NEW s \in Seq(Msg), NEW u \in Seq(Unit), NEW t \in Nat, Framed(u, t, s),
         NEW m \in Msg
  PROVE  Framed(u \o Units(Len(s) + 1, m), t, Append(s, m))
<1> DEFINE n == Len(s)
           f == HeaderLen + PayloadLen(m)
           s2 == Append(s, m)
           v == Units(n + 1, m)
           w == u \o v
<1>1. /\ n \in Nat /\ s2 \in Seq(Msg) /\ Len(s2) = n + 1 /\ s2[n + 1] = m
      /\ \A k \in 1..n : s2[k] = s[k]
  OBVIOUS
<1>2. f \in Nat /\ f >= 2 /\ \A k \in 1..n : FullLen(s, k) \in Nat /\ FullLen(s, k) >= 2
  BY <1>1, FrameLens DEF FullLen
<1>3. v \in Seq(Unit) /\ Len(v) = f /\ \A x \in 1..f : v[x] = UnitAt(n + 1, x)
  BY <1>1, UnitsAre
<1>4. FullLen(s2, n + 1) = f /\ \A k \in 1..n : FullLen(s2, k) = FullLen(s, k)
  BY <1>1 DEF FullLen
<1> HIDE DEF v, f, s2
<1>5. /\ w \in Seq(Unit) /\ Len(u) \in Nat /\ Len(w) = Len(u) + f
      /\ \A j \in 1..Len(u) : w[j] = u[j]
      /\ \A x \in 1..f : w[Len(u) + x] = UnitAt(n + 1, x)
  <2>1. /\ w \in Seq(Unit) /\ Len(u) \in Nat /\ Len(w) = Len(u) + f
        /\ \A i \in 1 .. Len(u) + f : w[i] = IF i <= Len(u) THEN u[i] ELSE v[i - Len(u)]
    BY <1>3, ConcatProperties
  <2>2. \A j \in 1..Len(u) : w[j] = u[j]
    BY <1>2, <2>1
  <2>3. ASSUME NEW x \in 1..f PROVE w[Len(u) + x] = UnitAt(n + 1, x)
    <3>1. Len(u) + x \in 1 .. Len(u) + f /\ ~(Len(u) + x <= Len(u)) /\ (Len(u) + x) - Len(u) = x
      BY <1>2, <2>1
    <3>2. w[Len(u) + x] = v[x]
      BY <2>1, <3>1
    <3> QED BY <1>3, <3>2
  <2> QED BY <2>1, <2>2, <2>3
<1> HIDE DEF w
<1>6. t <= n /\ (u = <<>> <=> t = n) /\ (u = <<>> <=> Len(u) = 0)
  BY DEF Framed
<1>7. w # <<>> /\ w[1] = UnitAt(t + 1, 1)
      /\ w[Len(w)] = UnitAt(n + 1, FullLen(s2, n + 1))
  <2>1. w[Len(w)] = UnitAt(n + 1, f) /\ w # <<>>
    BY <1>2, <1>5
  <2>2. CASE u = <<>>
    BY <1>2, <1>4, <1>5, <1>6, <2>1, <2>2
  <2>3. CASE u # <<>>
    <3>1. u[1] = UnitAt(t + 1, 1) /\ 1 \in 1..Len(u)
      BY <1>5, <1>6, <2>3 DEF Framed
    <3> QED BY <1>4, <1>5, <2>1, <3>1
  <2> QED BY <2>2, <2>3
<1>8. ASSUME NEW j \in 1..Len(u) PROVE WholeFrame(w, t, s2, j)
  <2> DEFINE k == u[j].frame
             p == u[j].part
  <2>1. /\ k \in t + 1 .. n /\ p \in 1 .. FullLen(s, k)
        /\ p <= j /\ (j - p) + FullLen(s, k) <= Len(u)
        /\ \A x \in 1 .. FullLen(s, k) : u[(j - p) + x] = UnitAt(k, x)
        /\ p = FullLen(s, k) /\ j < Len(u) => u[j + 1] = UnitAt(k + 1, 1)
    BY <1>8 DEF Framed, WholeFrame
  <2>2. w[j] = u[j] /\ w[j].frame = k /\ w[j].part = p
    BY <1>5
  <2> HIDE DEF k, p
  <2>3. k \in 1..n /\ k \in t + 1 .. n + 1
    BY <1>1, <2>1
  <2>4. FullLen(s2, k) = FullLen(s, k) /\ FullLen(s, k) \in Nat
    BY <1>2, <1>4, <2>3
  <2> DEFINE l == FullLen(s, k)
  <2> HIDE DEF l
  <2>5. l \in Nat /\ p \in 1..l /\ p <= j /\ (j - p) + l <= Len(u)
        /\ \A x \in 1..l : u[(j - p) + x] = UnitAt(k, x)
    BY <2>1, <2>4 DEF l
  <2>6. ASSUME NEW x \in 1..l PROVE w[(j - p) + x] = UnitAt(k, x)
    <3>1. (j - p) + x \in 1..Len(u)
      BY <1>5, <2>5
    <3> QED BY <1>5, <2>5, <3>1
  <2>7. ASSUME p = l, j < Len(w) PROVE w[j + 1] = UnitAt(k + 1, 1)
    <3>1. CASE j < Len(u)
      <4>1. j + 1 \in 1..Len(u)
        BY <1>5, <3>1
      <4> QED BY <1>5, <2>1, <2>7, <3>1, <4>1 DEF l
    <3>2. CASE j = Len(u)
      <4>1. u[j] = UnitAt(n, FullLen(s, n))
        BY <1>5, <1>6, <1>8, <3>2 DEF Framed
      <4>2. k = n
        BY <4>1 DEF UnitAt, k
      <4>3. 1 \in 1..f
        BY <1>2
      <4> QED BY <1>5, <3>2, <4>2, <4>3
    <3> QED BY <1>5, <1>8, <3>1, <3>2
  <2>8. (j - p) + l <= Len(w)
    BY <1>2, <1>5, <2>5
  <2> QED BY <1>1, <2>2, <2>3, <2>4, <2>5, <2>6, <2>7, <2>8 DEF WholeFrame, l
<1>9. ASSUME NEW x \in 1..f PROVE WholeFrame(w, t, s2, Len(u) + x)
  <2>1. w[Len(u) + x] = UnitAt(n + 1, x)
    BY <1>5
  <2>2. w[Len(u) + x].frame = n + 1 /\ w[Len(u) + x].part = x
    BY <2>1 DEF UnitAt
  <2>3. (Len(u) + x) - x = Len(u) /\ x <= Len(u) + x /\ Len(u) + f <= Len(w)
    BY <1>2, <1>5
  <2>4. n + 1 \in t + 1 .. Len(s2)
    BY <1>1, <1>6
  <2>5. ~(x = f /\ Len(u) + x < Len(w))
    BY <1>2, <1>5
  <2>6. \A y \in 1..f : w[((Len(u) + x) - x) + y] = UnitAt(n + 1, y)
    BY <1>5, <2>3
  <2> QED BY <1>4, <2>2, <2>3, <2>4, <2>5, <2>6 DEF WholeFrame
<1>10. \A j \in DOMAIN w : WholeFrame(w, t, s2, j)
  <2> SUFFICES ASSUME NEW j \in 1..(Len(u) + f), j > Len(u)
               PROVE  WholeFrame(w, t, s2, j)
    BY <1>2, <1>5, <1>8
  <2>1. (j - Len(u)) \in 1..f /\ Len(u) + (j - Len(u)) = j
    BY <1>2, <1>5
  <2> QED BY <1>9, <2>1
<1>11. t <= Len(s2) /\ t # Len(s2)
  BY <1>1, <1>6
<1>12. ASSUME NEW i \in DOMAIN w, NEW j \in DOMAIN w, i <= j
      PROVE  w[i].frame <= w[j].frame
  <2>1. \A x \in 1..Len(u) : w[x] = u[x] /\ u[x].frame \in 1..n
    BY <1>1, <1>5 DEF Framed, WholeFrame
  <2>2. \A x \in DOMAIN w : x > Len(u) => w[x].frame = n + 1
    <3> SUFFICES ASSUME NEW x \in 1..(Len(u) + f), x > Len(u) PROVE w[x].frame = n + 1
      BY <1>5
    <3>1. (x - Len(u)) \in 1..f /\ Len(u) + (x - Len(u)) = x
      BY <1>2, <1>5
    <3>2. w[x] = UnitAt(n + 1, x - Len(u))
      BY <1>5, <3>1
    <3> QED BY <3>2 DEF UnitAt
  <2>3. i \in 1..Len(w) /\ j \in 1..Len(w)
    BY <1>5
  <2>4. CASE j <= Len(u)
    <3>1. i \in DOMAIN u /\ j \in DOMAIN u
      BY <1>5, <1>12, <2>3, <2>4
    <3> QED BY <1>12, <2>1, <3>1 DEF Framed
  <2>5. CASE j > Len(u) /\ i <= Len(u)
    BY <1>1, <1>5, <2>1, <2>2, <2>3, <2>5
  <2>6. CASE j > Len(u) /\ i > Len(u)
    BY <1>1, <2>2, <2>6
  <2> QED BY <1>5, <2>3, <2>4, <2>5, <2>6
<1> QED BY <1>1, <1>7, <1>10, <1>11, <1>12 DEF Framed, w, v, s2

\* The first frame that waits, once it is there.
LEMMA FramedFirst ==
  ASSUME NEW s \in Seq(Msg), NEW u \in Seq(Unit), NEW t \in Nat, Framed(u, t, s), u # <<>>
  PROVE  /\ t + 1 \in 1 .. Len(s) /\ FullLen(s, t + 1) \in Nat
         /\ FullLen(s, t + 1) <= Len(u)
         /\ \A x \in 1 .. FullLen(s, t + 1) : u[x] = UnitAt(t + 1, x)
<1>1. 1 \in DOMAIN u /\ Len(u) \in Nat
  OBVIOUS
<1>2. WholeFrame(u, t, s, 1) /\ u[1] = UnitAt(t + 1, 1)
  BY <1>1 DEF Framed
<1>3. u[1].frame = t + 1 /\ u[1].part = 1
  BY <1>2 DEF UnitAt
<1> DEFINE l == FullLen(s, t + 1)
<1>4. /\ t + 1 \in t + 1 .. Len(s) /\ (1 - 1) + l <= Len(u)
      /\ \A x \in 1..l : u[(1 - 1) + x] = UnitAt(t + 1, x)
  BY <1>2, <1>3 DEF WholeFrame
<1>5. t + 1 \in 1 .. Len(s)
  BY <1>4
<1>6. s[t + 1] \in Msg
  BY <1>5
<1>7. l \in Nat
  BY <1>6, FrameLens DEF FullLen
<1> HIDE DEF l
<1>8. l <= Len(u) /\ \A x \in 1..l : u[x] = UnitAt(t + 1, x)
  BY <1>1, <1>4, <1>7
<1> QED BY <1>5, <1>7, <1>8 DEF l

\* The first frame is taken; the others wait as before.
LEMMA FramedTake ==
  ASSUME NEW s \in Seq(Msg), NEW u \in Seq(Unit), NEW t \in Nat, Framed(u, t, s), u # <<>>
  PROVE  Framed(SubSeq(u, FullLen(s, t + 1) + 1, Len(u)), t + 1, s)
<1> DEFINE l == FullLen(s, t + 1)
           w == SubSeq(u, l + 1, Len(u))
<1>1. /\ t + 1 \in 1 .. Len(s) /\ l \in Nat /\ l <= Len(u)
      /\ \A x \in 1..l : u[x] = UnitAt(t + 1, x)
  BY FramedFirst
<1>2. l \in 1..Len(u)
  <2>1. s[t + 1] \in Msg
    BY <1>1
  <2> QED BY <1>1, <2>1, FrameLens DEF FullLen
<1>3. WholeFrame(u, t, s, l) /\ u[l] = UnitAt(t + 1, l)
  BY <1>1, <1>2 DEF Framed
<1>4. u[l].frame = t + 1 /\ u[l].part = l
  BY <1>3 DEF UnitAt
<1>5. l < Len(u) => u[l + 1] = UnitAt(t + 2, 1)
  <2>1. l = FullLen(s, t + 1) /\ l < Len(u) => u[l + 1] = UnitAt((t + 1) + 1, 1)
    BY <1>3, <1>4 DEF WholeFrame
  <2> QED BY <2>1
<1>6. /\ t <= Len(s) /\ u[Len(u)] = UnitAt(Len(s), FullLen(s, Len(s)))
      /\ Len(u) \in Nat /\ Len(s) \in Nat
  BY DEF Framed
<1>7. \A k \in 1..Len(s) : FullLen(s, k) \in Nat /\ FullLen(s, k) >= 1
  BY FrameLens DEF FullLen
<1>8. ASSUME NEW j \in 1..Len(u), j > l PROVE u[j].frame > t + 1 /\ u[j].part <= j - l
  <2> DEFINE k == u[j].frame
             p == u[j].part
             f == FullLen(s, k)
  <2>1. /\ k \in t + 1 .. Len(s) /\ p \in 1..f /\ p <= j /\ (j - p) + f <= Len(u)
        /\ \A x \in 1..f : u[(j - p) + x] = UnitAt(k, x)
    BY <1>8 DEF Framed, WholeFrame
  <2>2. k \in Nat /\ f \in Nat
    BY <1>1, <1>6, <1>7, <2>1
  <2> HIDE DEF k, p, f
  <2>3. ASSUME j - p < l PROVE FALSE
    <3>1. (j - p) + 1 \in 1..l /\ 1 \in 1..f
      BY <1>1, <2>1, <2>2, <2>3
    <3>2. UnitAt(t + 1, (j - p) + 1) = UnitAt(k, 1)
      BY <1>1, <2>1, <3>1
    <3>3. k = t + 1 /\ j - p = 0
      BY <1>1, <2>1, <2>2, <3>2 DEF UnitAt
    <3>4. f = l
      BY <3>3 DEF f
    <3> QED BY <1>1, <1>8, <2>1, <2>2, <3>3, <3>4
  <2>4. p <= j - l
    BY <1>1, <2>1, <2>2, <2>3
  <2>5. ASSUME k = t + 1 PROVE FALSE
    <3>1. l + 1 \in 1..Len(u) /\ l + 1 <= j
      BY <1>1, <1>6, <1>8
    <3>2. u[l + 1].frame = t + 2
      BY <1>1, <1>5, <1>6, <3>1 DEF UnitAt
    <3>3. u[l + 1].frame <= u[j].frame
      BY <1>8, <3>1 DEF Framed
    <3> QED BY <2>5, <3>2, <3>3 DEF k
  <2> QED BY <2>1, <2>2, <2>4, <2>5, <1>1 DEF k, p
<1>9. /\ w \in Seq(Unit) /\ Len(w) = Len(u) - l
      /\ \A j \in 1..(Len(u) - l) : w[j] = u[l + j]
  <2>1. \A i \in l + 1 .. Len(u) : u[i] \in Unit
    BY <1>1, <1>6
  <2>2. /\ w \in Seq(Unit) /\ Len(w) = IF l + 1 <= Len(u) THEN Len(u) - (l + 1) + 1 ELSE 0
        /\ \A i \in 1 .. Len(u) - (l + 1) + 1 : w[i] = u[(l + 1) + i - 1]
    <3>1. l + 1 \in Int /\ Len(u) \in Int
      BY <1>1, <1>6
    <3> QED BY <2>1, <3>1, SubSeqProperties
  <2>3. Len(w) = Len(u) - l
    BY <1>1, <1>6, <2>2
  <2>4. ASSUME NEW j \in 1..(Len(u) - l) PROVE w[j] = u[l + j]
    <3>1. j \in 1 .. Len(u) - (l + 1) + 1 /\ (l + 1) + j - 1 = l + j
      BY <1>1, <1>6
    <3> QED BY <2>2, <3>1
  <2> QED BY <2>2, <2>3, <2>4
<1> HIDE DEF w, l
<1>10. ASSUME NEW j \in 1..(Len(u) - l) PROVE WholeFrame(w, t + 1, s, j)
  <2>1. l + j \in 1..Len(u) /\ l + j > l
    BY <1>1, <1>6
  <2> DEFINE k == u[l + j].frame
             p == u[l + j].part
             f == FullLen(s, k)
  <2>2. /\ k \in t + 1 .. Len(s) /\ p \in 1..f
        /\ ((l + j) - p) + f <= Len(u)
        /\ \A x \in 1..f : u[((l + j) - p) + x] = UnitAt(k, x)
        /\ p = f /\ l + j < Len(u) => u[(l + j) + 1] = UnitAt(k + 1, 1)
    BY <2>1 DEF Framed, WholeFrame
  <2>3. k > t + 1 /\ p <= (l + j) - l
    BY <1>8, <2>1
  <2>4. w[j].frame = k /\ w[j].part = p
    BY <1>9
  <2>5. k \in Nat /\ f \in Nat
    BY <1>1, <1>6, <1>7, <2>2
  <2>6. f = FullLen(s, k)
    OBVIOUS
  <2> HIDE DEF k, p, f
  <2>7. k \in (t + 1) + 1 .. Len(s) /\ p <= j /\ (j - p) + f <= Len(w)
    BY <1>1, <1>6, <1>9, <2>2, <2>3, <2>5
  <2>8. ASSUME NEW x \in 1..f PROVE w[(j - p) + x] = UnitAt(k, x)
    <3>1. (j - p) + x \in 1..(Len(u) - l) /\ l + ((j - p) + x) = ((l + j) - p) + x
      BY <1>1, <1>6, <1>9, <2>2, <2>5, <2>7
    <3> QED BY <1>9, <2>2, <3>1
  <2>9. ASSUME p = f, j < Len(w) PROVE w[j + 1] = UnitAt(k + 1, 1)
    <3>1. j + 1 \in 1..(Len(u) - l) /\ l + (j + 1) = (l + j) + 1 /\ l + j < Len(u)
      BY <1>1, <1>6, <1>9, <2>9
    <3> QED BY <1>9, <2>2, <2>9, <3>1
  <2> QED BY <2>2, <2>4, <2>6, <2>7, <2>8, <2>9 DEF WholeFrame
<1>11. ASSUME NEW i \in DOMAIN w, NEW j \in DOMAIN w, i <= j
       PROVE  w[i].frame <= w[j].frame
  <2>1. /\ i \in 1..(Len(u) - l) /\ j \in 1..(Len(u) - l)
        /\ l + i \in DOMAIN u /\ l + j \in DOMAIN u /\ l + i <= l + j
    BY <1>1, <1>6, <1>9, <1>11
  <2> QED BY <1>9, <2>1 DEF Framed
<1>12. w = <<>> <=> t + 1 = Len(s)
  <2>1. w = <<>> <=> l = Len(u)
    BY <1>1, <1>6, <1>9
  <2>2. ASSUME l = Len(u) PROVE t + 1 = Len(s)
    BY <1>3, <1>6, <2>2 DEF UnitAt
  <2>3. ASSUME l # Len(u) PROVE t + 1 # Len(s)
    <3>1. Len(u) \in 1..Len(u) /\ Len(u) > l
      BY <1>1, <1>6, <2>3
    <3>2. u[Len(u)].frame > t + 1
      BY <1>8, <3>1
    <3>3. u[Len(u)].frame = Len(s)
      BY <1>6 DEF UnitAt
    <3> QED BY <1>6, <3>2, <3>3
  <2> QED BY <2>1, <2>2, <2>3
<1>13. ASSUME w # <<>>
       PROVE  w[1] = UnitAt((t + 1) + 1, 1) /\ w[Len(w)] = UnitAt(Len(s), FullLen(s, Len(s)))
  <2>1. Len(u) - l > 0 /\ l < Len(u)
    BY <1>1, <1>6, <1>9, <1>13
  <2>2. 1 \in 1..(Len(u) - l) /\ Len(w) \in 1..(Len(u) - l) /\ l + Len(w) = Len(u)
    BY <1>1, <1>6, <1>9, <2>1
  <2>3. w[1] = u[l + 1] /\ w[Len(w)] = u[Len(u)]
    BY <1>9, <2>2
  <2>4. t + 2 = (t + 1) + 1
    OBVIOUS
  <2> QED BY <1>5, <1>6, <2>1, <2>3, <2>4
<1>14. t + 1 <= Len(s) /\ DOMAIN w = 1..(Len(u) - l)
  BY <1>1, <1>6, <1>9
<1> QED BY <1>10, <1>11, <1>12, <1>13, <1>14 DEF Framed, w, l

\* A chunk moved from the stream to the buffer changes neither's order.
LEMMA ChunkMoves ==
  ASSUME NEW b \in Seq(Unit), NEW s \in Seq(Unit), NEW n \in 1 .. Len(s)
  PROVE  /\ b \o SubSeq(s, 1, n) \in Seq(Unit) /\ SubSeq(s, n + 1, Len(s)) \in Seq(Unit)
         /\ (b \o SubSeq(s, 1, n)) \o SubSeq(s, n + 1, Len(s)) = b \o s
         /\ \A k \in DOMAIN (b \o SubSeq(s, 1, n)) :
              \/ \E j \in DOMAIN b : (b \o SubSeq(s, 1, n))[k] = b[j]
              \/ \E j \in DOMAIN s : (b \o SubSeq(s, 1, n))[k] = s[j]
         /\ \A k \in DOMAIN SubSeq(s, n + 1, Len(s)) :
              \E j \in DOMAIN s : SubSeq(s, n + 1, Len(s))[k] = s[j]
<1> DEFINE c == SubSeq(s, 1, n)
           r == SubSeq(s, n + 1, Len(s))
<1>1. Len(s) \in Nat /\ n \in Nat /\ n <= Len(s)
  OBVIOUS
<1>2. c \in Seq(Unit) /\ Len(c) = n /\ \A i \in 1..n : c[i] = s[i]
  <2>1. \A i \in 1..n : s[i] \in Unit
    BY <1>1
  <2>2. /\ c \in Seq(Unit) /\ Len(c) = IF 1 <= n THEN n - 1 + 1 ELSE 0
        /\ \A i \in 1..n - 1 + 1 : c[i] = s[1 + i - 1]
    BY <1>1, <2>1, SubSeqProperties
  <2> QED BY <1>1, <2>2
<1>3. /\ r \in Seq(Unit) /\ Len(r) = Len(s) - n
      /\ \A i \in 1 .. Len(s) - n : r[i] = s[n + i]
  <2>1. \A i \in n + 1 .. Len(s) : s[i] \in Unit
    BY <1>1
  <2>2. /\ r \in Seq(Unit)
        /\ Len(r) = IF n + 1 <= Len(s) THEN Len(s) - (n + 1) + 1 ELSE 0
        /\ \A i \in 1..Len(s) - (n + 1) + 1 : r[i] = s[(n + 1) + i - 1]
    <3>1. n + 1 \in Int /\ Len(s) \in Int
      BY <1>1
    <3> QED BY <2>1, <3>1, SubSeqProperties
  <2>3. ASSUME NEW i \in 1 .. Len(s) - n PROVE r[i] = s[n + i]
    <3>1. i \in 1..Len(s) - (n + 1) + 1 /\ (n + 1) + i - 1 = n + i
      BY <1>1
    <3> QED BY <2>2, <3>1
  <2> QED BY <1>1, <2>2, <2>3
<1>4. c \o r = s
  <2>1. 1 \in 1 .. Len(s) + 1 /\ n \in 1 - 1 .. Len(s) /\ Len(s) \in n .. Len(s)
    BY <1>1
  <2>2. c \o r = SubSeq(s, 1, Len(s))
    BY <2>1, ConcatAdjacentSubSeq
  <2> QED BY <2>2, SubSeqFull
<1> HIDE DEF c, r
<1>5. (b \o c) \o r = b \o (c \o r)
  <2>1. c \in Seq(Unit) /\ r \in Seq(Unit)
    BY <1>2, <1>3
  <2> QED BY <2>1, ConcatAssociative
<1>6. /\ b \o c \in Seq(Unit) /\ Len(b \o c) = Len(b) + n
      /\ \A i \in 1 .. Len(b) + n : (b \o c)[i] = IF i <= Len(b) THEN b[i] ELSE c[i - Len(b)]
  BY <1>2, ConcatProperties
<1>7. ASSUME NEW k \in DOMAIN (b \o c)
      PROVE  (\E j \in DOMAIN b : (b \o c)[k] = b[j]) \/ (\E j \in DOMAIN s : (b \o c)[k] = s[j])
  <2>1. k \in 1 .. Len(b) + n /\ Len(b) \in Nat
    BY <1>1, <1>6
  <2>2. CASE k <= Len(b)
    <3>1. k \in DOMAIN b /\ (b \o c)[k] = b[k]
      BY <1>6, <2>1, <2>2
    <3> QED BY <3>1
  <2>3. CASE ~(k <= Len(b))
    <3>1. k - Len(b) \in 1..n
      BY <1>1, <2>1, <2>3
    <3>2. (b \o c)[k] = s[k - Len(b)]
      BY <1>2, <1>6, <2>1, <2>3, <3>1
    <3>3. k - Len(b) \in DOMAIN s
      BY <1>1, <3>1
    <3> QED BY <3>2, <3>3
  <2> QED BY <2>2, <2>3
<1>8. ASSUME NEW k \in DOMAIN r PROVE \E j \in DOMAIN s : r[k] = s[j]
  <2>1. k \in 1 .. Len(s) - n /\ n + k \in DOMAIN s
    BY <1>1, <1>3
  <2> QED BY <1>3, <2>1
<1> QED BY <1>3, <1>4, <1>5, <1>6, <1>7, <1>8 DEF c, r

\* Nothing is lost, added or reordered on the way from s to b.
Moved(b, s, b2, s2) ==
  /\ b2 \in Seq(Unit) /\ s2 \in Seq(Unit) /\ b2 \o s2 = b \o s
  /\ \A k \in DOMAIN b2 : \/ \E j \in DOMAIN b : b2[k] = b[j]
                          \/ \E j \in DOMAIN s : b2[k] = s[j]
  /\ \A k \in DOMAIN s2 : \E j \in DOMAIN s : s2[k] = s[j]

\* The same of the buffer and the stream after the chunk has moved.
LEMMA ChunkMoved ==
  ASSUME NEW b \in Seq(Unit), NEW s \in Seq(Unit), NEW n \in 1 .. Len(s),
         NEW b2, NEW s2, b2 = b \o SubSeq(s, 1, n), s2 = SubSeq(s, n + 1, Len(s))
  PROVE  Moved(b, s, b2, s2)
<1>1. b2 \in Seq(Unit) /\ s2 \in Seq(Unit)
  BY ChunkMoves
<1>2. b2 \o s2 = b \o s
  BY ChunkMoves
<1>3. \A k \in DOMAIN b2 : \/ \E j \in DOMAIN b : b2[k] = b[j]
                           \/ \E j \in DOMAIN s : b2[k] = s[j]
  BY ChunkMoves, Zenon
<1>4. \A k \in DOMAIN s2 : \E j \in DOMAIN s : s2[k] = s[j]
  BY ChunkMoves
<1> QED BY <1>1, <1>2, <1>3, <1>4, Zenon DEF Moved

\* What is cut off the front of the buffer is cut off the front of it all.
LEMMA FrontCut ==
  ASSUME NEW b \in Seq(Unit), NEW s \in Seq(Unit), NEW l \in 0 .. Len(b)
  PROVE  /\ SubSeq(b, l + 1, Len(b)) \in Seq(Unit)
         /\ SubSeq(b, l + 1, Len(b)) \o s = SubSeq(b \o s, l + 1, Len(b \o s))
         /\ \A k \in DOMAIN SubSeq(b, l + 1, Len(b)) :
              \E j \in DOMAIN b : SubSeq(b, l + 1, Len(b))[k] = b[j]
<1> DEFINE r == SubSeq(b, l + 1, Len(b))
           u == b \o s
           v == SubSeq(u, l + 1, Len(u))
<1>1. Len(b) \in Nat /\ Len(s) \in Nat /\ l \in Nat /\ l <= Len(b)
  OBVIOUS
<1>2. /\ u \in Seq(Unit) /\ Len(u) = Len(b) + Len(s)
      /\ \A i \in 1 .. Len(b) + Len(s) : u[i] = IF i <= Len(b) THEN b[i] ELSE s[i - Len(b)]
  BY ConcatProperties
<1>3. ASSUME NEW q \in Seq(Unit), l <= Len(q)
      PROVE  /\ SubSeq(q, l + 1, Len(q)) \in Seq(Unit)
             /\ Len(SubSeq(q, l + 1, Len(q))) = Len(q) - l
             /\ \A i \in 1 .. Len(q) - l : SubSeq(q, l + 1, Len(q))[i] = q[l + i]
  <2> DEFINE y == SubSeq(q, l + 1, Len(q))
  <2>1. Len(q) \in Nat /\ \A i \in l + 1 .. Len(q) : q[i] \in Unit
    BY <1>1
  <2>2. l + 1 \in Int /\ Len(q) \in Int
    BY <1>1, <2>1
  <2>3. /\ y \in Seq(Unit)
        /\ Len(y) = IF l + 1 <= Len(q) THEN Len(q) - (l + 1) + 1 ELSE 0
        /\ \A i \in 1..Len(q) - (l + 1) + 1 : y[i] = q[(l + 1) + i - 1]
    BY <2>1, <2>2, SubSeqProperties
  <2> HIDE DEF y
  <2>4. ASSUME NEW i \in 1 .. Len(q) - l PROVE y[i] = q[l + i]
    <3>1. i \in 1..Len(q) - (l + 1) + 1 /\ (l + 1) + i - 1 = l + i
      BY <1>1, <2>1
    <3> QED BY <2>3, <3>1
  <2>5. Len(y) = Len(q) - l
    BY <1>1, <1>3, <2>1, <2>3
  <2> QED BY <2>3, <2>4, <2>5 DEF y
<1>4. r \in Seq(Unit) /\ Len(r) = Len(b) - l /\ \A i \in 1 .. Len(b) - l : r[i] = b[l + i]
  BY <1>1, <1>3
<1>5. l <= Len(u)
  BY <1>1, <1>2
<1> HIDE DEF u, r
<1>6. /\ v \in Seq(Unit) /\ Len(v) = Len(u) - l
      /\ \A i \in 1 .. Len(u) - l : v[i] = u[l + i]
  BY <1>2, <1>3, <1>5
<1> HIDE DEF v
<1>7. /\ r \o s \in Seq(Unit) /\ Len(r \o s) = Len(r) + Len(s)
      /\ \A i \in 1 .. Len(r) + Len(s) : (r \o s)[i] = IF i <= Len(r) THEN r[i] ELSE s[i - Len(r)]
  BY <1>4, ConcatProperties
<1>8. Len(r \o s) = Len(v)
  BY <1>1, <1>2, <1>4, <1>6, <1>7
<1>9. ASSUME NEW i \in 1 .. Len(r \o s) PROVE (r \o s)[i] = v[i]
  <2>1. i \in 1 .. Len(r) + Len(s) /\ i \in 1 .. Len(u) - l /\ Len(r) = Len(b) - l
    BY <1>1, <1>2, <1>4, <1>7
  <2>2. v[i] = u[l + i] /\ l + i \in 1 .. Len(b) + Len(s)
    BY <1>1, <1>2, <1>6, <2>1
  <2>3. CASE i <= Len(r)
    <3>1. i \in 1 .. Len(b) - l /\ l + i <= Len(b)
      BY <1>1, <2>1, <2>3
    <3>2. (r \o s)[i] = b[l + i]
      BY <1>4, <1>7, <2>1, <2>3, <3>1
    <3>3. u[l + i] = b[l + i]
      BY <1>2, <2>2, <3>1
    <3> QED BY <2>2, <3>2, <3>3
  <2>4. CASE ~(i <= Len(r))
    <3>1. ~(l + i <= Len(b)) /\ (l + i) - Len(b) = i - Len(r)
      BY <1>1, <2>1, <2>4
    <3>2. (r \o s)[i] = s[i - Len(r)]
      BY <1>7, <2>1, <2>4
    <3>3. u[l + i] = s[i - Len(r)]
      BY <1>2, <2>2, <3>1
    <3> QED BY <2>2, <3>2, <3>3
  <2> QED BY <2>3, <2>4
<1>10. r \o s = v
  BY <1>6, <1>7, <1>8, <1>9, SeqEqual
<1>11. ASSUME NEW k \in DOMAIN r PROVE \E j \in DOMAIN b : r[k] = b[j]
  <2>1. k \in 1 .. Len(b) - l /\ l + k \in DOMAIN b
    BY <1>1, <1>4
  <2> QED BY <1>4, <2>1
<1> QED BY <1>4, <1>10, <1>11 DEF r, u, v

-----------------------------------------------------------------------------
(* The invariants. *)

\* The host is in the middle of a call.
Busy == host \in {"put", "result", "hung"}

\* The frames the host has taken off its buffer.
Taken == Len(replied) + (IF Busy THEN 1 ELSE 0)

Values == {<<>>} \cup {Expected(m) : m \in Msg}
Answer == [id : Ids \cup {NoId}, ok : BOOLEAN, value : Values]

\* The stream and the host's buffer hold the frames the host has yet to take.
FrameInv ==
  /\ sent \in Seq(Msg) /\ buffer \in Seq(Unit) /\ stream \in Seq(Unit)
  /\ replied \in Seq(Answer)
  /\ host \in {"none", "boot", "idle", "parse", "put", "result", "hung", "exited"}
  /\ Taken <= Len(sent)
  /\ \A k \in DOMAIN stream : stream[k].frame \in DOMAIN sent
  /\ \A k \in DOMAIN buffer : buffer[k].frame \in DOMAIN sent
  /\ host # "exited" => Framed(buffer \o stream, Taken, sent)

\* Every frame was written by request/2 under an id of its own, or by
\* somebody else under none; and no frame is written before its turn.
Frame(k) ==
  LET m == sent[k]
  IN  \/ /\ m.id # NoId /\ m.id < next /\ m.id <= k
         /\ m.op \in {"descriptor", "call", "close"}
         /\ m.op = "call" => Wellformed(m.fn, m.args)
      \/ m.id = NoId /\ m.fn = "none" /\ m.args = <<>>

SentInv ==
  /\ next \in 1 .. MaxRequests + 1
  /\ \A k \in DOMAIN sent : Frame(k)
  /\ \A j, k \in DOMAIN sent : sent[j].id = sent[k].id /\ sent[j].id # NoId => j = k
  /\ portOpen \in BOOLEAN
  /\ portOpen => Len(sent) >= next - 1
  /\ phase = "new" =>
       ~portOpen /\ next = 1 /\ host = "none" /\ waiting = NoId /\ sent = <<>>

\* The instance as a record whose heap is finite.
Sound(i) ==
  /\ i = [sp |-> i.sp, gen |-> i.gen, heap |-> i.heap]
  /\ i.sp \in Nat /\ i.gen \in Nat
  /\ IsFiniteSet(Live(i))

\* The call being made is the frame taken last; the blocks of its arguments
\* hold them, and the block of its result holds what they give.
CallInv ==
  /\ cur = [id |-> cur.id, fn |-> cur.fn, args |-> cur.args, flat |-> cur.flat,
            ret |-> cur.ret]
  /\ Busy =>
       /\ cur.id = sent[Taken].id /\ cur.fn = sent[Taken].fn
       /\ cur.args = sent[Taken].args
       /\ sent[Taken].op = "call" /\ Wellformed(cur.fn, cur.args)
       /\ inst.sp > 0
  /\ host = "put" =>
       /\ Len(cur.flat) <= Len(cur.args) /\ cur.flat \in Seq(Live(inst))
       /\ \A k \in DOMAIN cur.flat : inst.heap[cur.flat[k]] = Bytes(cur.args[k])
  /\ host = "result" => inst.heap[cur.ret] = Expected(sent[Taken])

\* The replies answer the frames one by one.
ReplyInv ==
  \A k \in DOMAIN replied :
    /\ replied[k].id = sent[k].id
    /\ replied[k].ok => replied[k].value = Expected(sent[k])
    /\ ~replied[k].ok /\ sent[k].id # NoId => sent[k].id \in trapped

HostInv == Sound(inst) /\ trapped \subseteq Ids /\ CallInv /\ ReplyInv

-----------------------------------------------------------------------------

Timedout == \E i \in Ids : outcome[i].tag = "timeout"
Strayed  == \E k \in DOMAIN sent : sent[k].id = NoId
Pending  == IF waiting = NoId THEN 0 ELSE 1

Outcome == [tag : Outcomes, value : Values]

ClientInv ==
  /\ phase \in {"new", "opening", "idle", "calling", "failed", "closing", "closed"}
  /\ waiting \in Ids \cup {NoId}
  /\ waiting # NoId <=> phase \in {"opening", "calling", "closing"}
  /\ waiting # NoId => waiting = next - 1
  /\ phase = "closed" => ~portOpen
  /\ outcome \in [Ids -> Outcome]
  /\ \A i \in Ids : outcome[i].tag # "none" => i < next /\ i # waiting
  /\ \A i \in Ids : outcome[i].tag = "ok" =>
       \E k \in DOMAIN sent : sent[k].id = i /\ outcome[i].value = Expected(sent[k])
  /\ ErrorMeansTrap

\* The replies in the mailbox, in front of the end of the host if that is in.
BoxData == IF box # <<>> /\ box[Len(box)].kind = "exit" THEN Len(box) - 1 ELSE Len(box)

\* The replies the owner has consumed.
Consumed == delivered - BoxData

Mail == [kind : {"data", "exit"}, reply : Answer]

BoxInv ==
  /\ box \in Seq(Mail)
  /\ delivered \in 0 .. Len(replied)
  /\ BoxData <= delivered
  /\ \A j \in 1 .. BoxData : box[j].kind = "data" /\ box[j].reply = replied[Consumed + j]
  /\ box # <<>> /\ box[Len(box)].kind = "exit" => ~portOpen
  /\ phase = "new" => box = <<>>

PairInv ==
  /\ phase # "closed" =>
       /\ Consumed + Pending <= next - 1
       /\ Timedout => Consumed + Pending + 1 <= next - 1
  /\ phase # "closed" /\ ~Timedout /\ ~Strayed /\ (portOpen \/ box # <<>>) =>
       Consumed + Pending = next - 1
  /\ ~Strayed => \A k \in DOMAIN sent : sent[k].id = k
  /\ ~Strayed /\ portOpen => Len(sent) = next - 1
  /\ TimeoutIsFinal
  /\ MismatchNeedsCause

-----------------------------------------------------------------------------
(* The host takes the frames as they were written. *)

\* The number of frames taken is a number.
LEMMA TakenNat == ASSUME FrameInv PROVE Taken \in Nat /\ Len(replied) \in Nat /\ Len(sent) \in Nat
BY DEF FrameInv, Taken

\* What the host parses is the message that was written next: its header
\* names the payload's length, and the payload is whole.
LEMMA ParsesNext ==
  ASSUME FrameInv, host = "parse", FrameComplete(buffer)
  PROVE  /\ Taken = Len(replied) /\ Taken + 1 \in DOMAIN sent /\ sent[Taken + 1] \in Msg
         /\ HeaderLen + FrameLen(buffer) = FullLen(sent, Taken + 1)
         /\ FullLen(sent, Taken + 1) \in 0 .. Len(buffer)
         /\ buffer \o stream # <<>>
         /\ Incoming = sent[Taken + 1]
<1> DEFINE u == buffer \o stream
           t == Taken
           m == sent[t + 1]
           f == FullLen(sent, t + 1)
<1>1. /\ sent \in Seq(Msg) /\ buffer \in Seq(Unit) /\ stream \in Seq(Unit)
      /\ Framed(u, t, sent) /\ t \in Nat
  BY TakenNat DEF FrameInv
<1>2. /\ u \in Seq(Unit) /\ Len(u) = Len(buffer) + Len(stream)
      /\ \A i \in 1 .. Len(buffer) + Len(stream) :
           u[i] = IF i <= Len(buffer) THEN buffer[i] ELSE stream[i - Len(buffer)]
  BY <1>1, ConcatProperties
<1>3. Len(buffer) \in Nat /\ Len(stream) \in Nat /\ Len(buffer) >= 1
  BY <1>1, SessionAssumption DEF FrameComplete
<1>4. u # <<>>
  BY <1>2, <1>3
<1>5. t = Len(replied)
  BY DEF Taken, Busy
<1> HIDE DEF u, t
<1>6. /\ t + 1 \in 1 .. Len(sent) /\ f \in Nat /\ f <= Len(u)
      /\ \A x \in 1..f : u[x] = UnitAt(t + 1, x)
  BY <1>1, <1>2, <1>4, FramedFirst
<1>7. m \in Msg
  BY <1>1, <1>6
<1>8. f = HeaderLen + PayloadLen(m) /\ PayloadLen(m) \in {1, 2} /\ HeaderLen \in Nat /\ HeaderLen >= 1
  BY <1>7, FrameLens DEF FullLen
<1> HIDE DEF m, f
<1>9. \A x \in 1..Len(buffer) : buffer[x] = u[x]
  BY <1>2, <1>3
<1>10. Head(buffer).frame = t + 1
  <2>1. Head(buffer) = buffer[1] /\ 1 \in 1..Len(buffer) /\ 1 \in 1..f
    BY <1>1, <1>3, <1>8
  <2>2. Head(buffer) = UnitAt(t + 1, 1)
    BY <1>6, <1>9, <2>1
  <2> QED BY <2>2 DEF UnitAt
<1>11. FrameLen(buffer) = PayloadLen(m) /\ HeaderLen + FrameLen(buffer) = f
  BY <1>8, <1>10 DEF FrameLen, m
<1>12. f <= Len(buffer)
  BY <1>11 DEF FrameComplete
<1> DEFINE a == Units(t + 1, m)
           P == PayloadLen(m)
<1>13. a \in Seq(Unit) /\ Len(a) = f /\ \A x \in 1..f : a[x] = UnitAt(t + 1, x)
  BY <1>1, <1>7, <1>8, UnitsAre
<1> HIDE DEF a
<1>14. ASSUME NEW q \in Seq(Unit), f <= Len(q), \A x \in 1..f : q[x] = UnitAt(t + 1, x)
       PROVE  /\ SubSeq(q, HeaderLen + 1, HeaderLen + P) \in Seq(Unit)
              /\ Len(SubSeq(q, HeaderLen + 1, HeaderLen + P)) = P
              /\ \A i \in 1..P : SubSeq(q, HeaderLen + 1, HeaderLen + P)[i] = UnitAt(t + 1, HeaderLen + i)
  <2> DEFINE y == SubSeq(q, HeaderLen + 1, HeaderLen + P)
  <2>1. \A i \in HeaderLen + 1 .. HeaderLen + P : q[i] \in Unit
    BY <1>8, <1>14
  <2>2. HeaderLen + 1 \in Int /\ HeaderLen + P \in Int
    BY <1>8
  <2>3. /\ y \in Seq(Unit)
        /\ Len(y) = IF HeaderLen + 1 <= HeaderLen + P
                    THEN (HeaderLen + P) - (HeaderLen + 1) + 1 ELSE 0
        /\ \A i \in 1 .. (HeaderLen + P) - (HeaderLen + 1) + 1 : y[i] = q[(HeaderLen + 1) + i - 1]
    BY <2>1, <2>2, SubSeqProperties
  <2> HIDE DEF y
  <2>4. Len(y) = P
    BY <1>8, <2>3
  <2>5. ASSUME NEW i \in 1..P PROVE y[i] = UnitAt(t + 1, HeaderLen + i)
    <3>1. /\ i \in 1 .. (HeaderLen + P) - (HeaderLen + 1) + 1
          /\ (HeaderLen + 1) + i - 1 = HeaderLen + i
          /\ HeaderLen + i \in 1..f
      BY <1>8
    <3> QED BY <1>14, <2>3, <3>1
  <2> QED BY <2>3, <2>4, <2>5 DEF y
<1>15. Payload(buffer) = SubSeq(buffer, HeaderLen + 1, HeaderLen + P)
  BY <1>11 DEF Payload
<1>16. \A x \in 1..f : buffer[x] = UnitAt(t + 1, x)
  BY <1>3, <1>6, <1>8, <1>9, <1>12
<1> DEFINE y == SubSeq(buffer, HeaderLen + 1, HeaderLen + P)
           z == SubSeq(a, HeaderLen + 1, HeaderLen + P)
<1>17. /\ y \in Seq(Unit) /\ Len(y) = P
       /\ \A i \in 1..P : y[i] = UnitAt(t + 1, HeaderLen + i)
  BY <1>1, <1>12, <1>14, <1>16
<1>18. /\ z \in Seq(Unit) /\ Len(z) = P
       /\ \A i \in 1..P : z[i] = UnitAt(t + 1, HeaderLen + i)
  BY <1>8, <1>13, <1>14
<1>19. y = z
  <2> HIDE DEF y, z
  <2>1. \A i \in 1..Len(y) : y[i] = z[i]
    BY <1>17, <1>18
  <2> QED BY <1>17, <1>18, <2>1, SeqEqual
<1>20. Head(y).frame = t + 1
  <2> HIDE DEF y
  <2>1. Head(y) = UnitAt(t + 1, HeaderLen + 1)
    BY <1>8, <1>17
  <2> QED BY <2>1 DEF UnitAt
<1>21. Incoming = m
  BY <1>15, <1>19, <1>20 DEF Incoming, Parse, a, m
<1> QED BY <1>1, <1>4, <1>5, <1>6, <1>7, <1>11, <1>12, <1>21, <1>3 DEF t, u, f, m

-----------------------------------------------------------------------------
(* Steps, by what they do to the frames. *)

\* A frame is written to the host.
Writes(m) ==
  /\ sent' = Append(sent, m)
  /\ stream' = stream \o Units(Len(sent) + 1, m)
  /\ UNCHANGED <<buffer, cur, inst, replied, trapped>>
  /\ host' = host \/ (host = "none" /\ host' = "boot")

\* Nothing happens between the owner's port and the host.
Aside == UNCHANGED <<sent, stream, host, buffer, cur, inst, replied, trapped>>

\* A request or a stray frame is a message.
LEMMA Messages ==
  ASSUME SentInv
  PROVE  /\ next <= MaxRequests =>
                   /\ Message(next, "descriptor", "none", <<>>) \in Msg
                   /\ Message(next, "close", "none", <<>>) \in Msg
                   /\ \A c \in Calls : Wellformed(c.fn, c.args) =>
                        Message(next, "call", c.fn, c.args) \in Msg
         /\ \A op \in Strays : Message(NoId, op, "none", <<>>) \in Msg
<1>1. <<>> \in Seq(Strings) /\ "none" \in Fns
  BY DEF Fns
<1>2. ASSUME next <= MaxRequests PROVE next \in Ids
  BY <1>2, SessionAssumption DEF SentInv, Ids
<1>3. ASSUME NEW c \in Calls, Wellformed(c.fn, c.args)
      PROVE  c.fn \in Fns /\ c.args \in Seq(Strings)
  BY <1>3, SessionAssumption DEF Fns, Wellformed
<1> QED BY <1>1, <1>2, <1>3 DEF Msg, Message, Ops

\* Every step writes a frame, leaves the frames aside, or is the host's.
LEMMA StepKinds ==
  ASSUME SentInv, Next
  PROVE  (\E m \in Msg : Writes(m)) \/ Aside \/ Host
<1> USE DEF Writes, Aside, hostVars, Request, WriteFrame
<1>1. CASE Open
  <2>1. Writes(Message(next, "descriptor", "none", <<>>)) /\ next <= MaxRequests
    BY <1>1 DEF Open, SentInv
  <2> QED BY <2>1, Messages
<1>2. ASSUME NEW c \in Calls, Call(c) PROVE (\E m \in Msg : Writes(m)) \/ Aside
  <2>1. CASE portOpen
    <3>1. Writes(Message(next, "call", c.fn, c.args)) /\ next <= MaxRequests
          /\ Wellformed(c.fn, c.args)
      BY <1>2, <2>1 DEF Call
    <3> QED BY <3>1, Messages
  <2>2. CASE ~portOpen
    BY <1>2, <2>2 DEF Call
  <2> QED BY <2>1, <2>2
<1>3. CASE Close
  <2>1. CASE portOpen
    <3>1. Writes(Message(next, "close", "none", <<>>)) /\ next <= MaxRequests
      BY <1>3, <2>1 DEF Close
    <3> QED BY <3>1, Messages
  <2>2. CASE ~portOpen
    BY <1>3, <2>2 DEF Close
  <2> QED BY <2>1, <2>2
<1>4. CASE Receive \/ Timeout
  BY <1>4 DEF Receive, Timeout, Returned
<1>5. CASE OwnerDies \/ Port
  BY <1>5 DEF OwnerDies, Port, PortData, PortExit
<1>6. ASSUME NEW op \in Strays, Stray(op) PROVE \E m \in Msg : Writes(m)
  <2>1. Writes(Message(NoId, op, "none", <<>>))
    BY <1>6 DEF Stray
  <2> QED BY <2>1, Messages
<1> QED BY <1>1, <1>2, <1>3, <1>4, <1>5, <1>6 DEF Next, Owner

\* An argument is put through a view of the memory as it is, so it arrives.
LEMMA PutArrives ==
  ASSUME PutArgument
  PROVE  \E grow \in MayGrow :
           /\ inst' = Store(Malloc(inst, grow), Fresh(inst),
                            Bytes(cur.args[Len(cur.flat) + 1]))
           /\ cur' = [cur EXCEPT !.flat = Append(@, Fresh(inst))]
           /\ UNCHANGED <<host, replied, trapped>>
BY DEF PutArgument, PutString, Detached, View

\* A result is read through a view of the memory as it is.
LEMMA FinishReads ==
  ASSUME FinishCall
  PROVE  /\ Respond(Reply(cur.id, TRUE, inst.heap[cur.ret]))
         /\ inst' = FreeAll(Pop(inst), {cur.ret})
         /\ cur' = NoCall
         /\ host' = "parse"
BY DEF FinishCall, Detached, View, NextFrame

\* A frame written leaves FrameInv.
LEMMA WritesFrame ==
  ASSUME FrameInv, NEW m \in Msg, Writes(m)
  PROVE  FrameInv'
<1> DEFINE v == Units(Len(sent) + 1, m)
<1>1. /\ sent \in Seq(Msg) /\ buffer \in Seq(Unit) /\ stream \in Seq(Unit)
      /\ replied \in Seq(Answer) /\ Len(sent) \in Nat
  BY DEF FrameInv
<1>2. /\ sent' \in Seq(Msg) /\ Len(sent') = Len(sent) + 1
  BY <1>1 DEF Writes
<1>3. v \in Seq(Unit) /\ Len(v) \in Nat /\ \A x \in 1..Len(v) : v[x].frame = Len(sent) + 1
  <2>1. /\ v \in Seq(Unit) /\ Len(v) = HeaderLen + PayloadLen(m)
        /\ \A x \in 1 .. HeaderLen + PayloadLen(m) : v[x] = UnitAt(Len(sent) + 1, x)
    BY <1>1, UnitsAre
  <2> HIDE DEF v
  <2>2. ASSUME NEW x \in 1..Len(v) PROVE v[x].frame = Len(sent) + 1
    <3>1. v[x] = UnitAt(Len(sent) + 1, x)
      BY <2>1
    <3> QED BY <3>1 DEF UnitAt
  <2> QED BY <2>1, <2>2
<1> HIDE DEF v
<1>4. stream' = stream \o v /\ buffer' = buffer /\ replied' = replied
  BY DEF Writes, v
<1>5. stream' \in Seq(Unit)
  BY <1>1, <1>3, <1>4, ConcatProperties
<1>6. ASSUME NEW k \in DOMAIN stream' PROVE stream'[k].frame \in DOMAIN sent'
  <2>1. k \in 1 .. Len(stream) + Len(v) /\ Len(stream) \in Nat
        /\ stream'[k] = IF k <= Len(stream) THEN stream[k] ELSE v[k - Len(stream)]
    <3>1. /\ Len(stream') = Len(stream) + Len(v)
          /\ \A i \in 1 .. Len(stream) + Len(v) :
               stream'[i] = IF i <= Len(stream) THEN stream[i] ELSE v[i - Len(stream)]
      BY <1>1, <1>3, <1>4, ConcatProperties
    <3> QED BY <1>1, <1>5, <3>1
  <2>2. CASE k <= Len(stream)
    <3>1. k \in DOMAIN stream
      BY <1>1, <2>1, <2>2
    <3>2. stream[k].frame \in DOMAIN sent
      BY <3>1 DEF FrameInv
    <3> QED BY <1>1, <1>2, <2>1, <2>2, <3>2
  <2>3. CASE ~(k <= Len(stream))
    <3>1. k - Len(stream) \in 1..Len(v)
      BY <1>3, <2>1, <2>3
    <3> QED BY <1>1, <1>2, <1>3, <2>1, <2>3, <3>1
  <2> QED BY <2>2, <2>3
<1>7. \A k \in DOMAIN buffer' : buffer'[k].frame \in DOMAIN sent'
  <2>1. \A k \in DOMAIN buffer : buffer[k].frame \in 1..Len(sent)
    BY <1>1 DEF FrameInv
  <2> QED BY <1>1, <1>2, <1>4, <2>1
<1>8. Taken' = Taken /\ Taken \in Nat /\ Taken <= Len(sent)
  <2>1. Taken' = Taken
    BY DEF Writes, Taken, Busy
  <2> QED BY <2>1, TakenNat DEF FrameInv
<1>9. ASSUME host' # "exited" PROVE Framed(buffer' \o stream', Taken', sent')
  <2> DEFINE u == buffer \o stream
  <2>1. Framed(u, Taken, sent) /\ u \in Seq(Unit)
    BY <1>1, <1>9, ConcatProperties DEF FrameInv, Writes
  <2>2. Framed(u \o v, Taken, Append(sent, m))
    BY <1>1, <1>8, <2>1, FramedGrows DEF v
  <2>3. buffer' \o stream' = u \o v
    <3>1. stream \in Seq(Unit) /\ buffer \in Seq(Unit) /\ v \in Seq(Unit)
      BY <1>1, <1>3
    <3>2. (buffer \o stream) \o v = buffer \o (stream \o v)
      BY <3>1, ConcatAssociative
    <3> QED BY <1>4, <3>2
  <2> QED BY <1>8, <2>2, <2>3 DEF Writes
<1>10. host' \in {"none", "boot", "idle", "parse", "put", "result", "hung", "exited"}
  BY DEF Writes, FrameInv
<1> QED BY <1>1, <1>2, <1>4, <1>5, <1>6, <1>7, <1>8, <1>9, <1>10 DEF FrameInv

\* One frame is taken off: the others still wait.
LEMMA TakesFrame ==
  ASSUME FrameInv, Take
  PROVE  /\ sent' = sent /\ stream' = stream /\ buffer' \in Seq(Unit)
         /\ \A k \in DOMAIN buffer' : buffer'[k].frame \in DOMAIN sent
         /\ Framed(buffer' \o stream, Taken + 1, sent)
         /\ Taken = Len(replied) /\ Taken + 1 \in DOMAIN sent /\ sent[Taken + 1] \in Msg
         /\ Taken + 1 <= Len(sent)
         /\ Incoming = sent[Taken + 1]
<1>1. host = "parse" /\ FrameComplete(buffer) /\ sent' = sent /\ stream' = stream
  BY DEF Take, wireVars
<1> DEFINE l == FullLen(sent, Taken + 1)
           u == buffer \o stream
<1>2. /\ Taken = Len(replied) /\ Taken + 1 \in DOMAIN sent /\ sent[Taken + 1] \in Msg
      /\ HeaderLen + FrameLen(buffer) = l /\ l \in 0 .. Len(buffer)
      /\ u # <<>> /\ Incoming = sent[Taken + 1]
  BY <1>1, ParsesNext
<1>3. /\ sent \in Seq(Msg) /\ buffer \in Seq(Unit) /\ stream \in Seq(Unit)
      /\ Framed(u, Taken, sent) /\ Taken \in Nat
  BY <1>1, TakenNat DEF FrameInv
<1>4. u \in Seq(Unit)
  BY <1>3, ConcatProperties
<1>5. Framed(SubSeq(u, l + 1, Len(u)), Taken + 1, sent)
  BY <1>2, <1>3, <1>4, FramedTake
<1>6. buffer' = SubSeq(buffer, l + 1, Len(buffer))
  BY <1>2 DEF Take, Rest
<1> HIDE DEF l
<1>7. /\ buffer' \in Seq(Unit) /\ buffer' \o stream = SubSeq(u, l + 1, Len(u))
      /\ \A k \in DOMAIN buffer' : \E j \in DOMAIN buffer : buffer'[k] = buffer[j]
  <2> DEFINE r == SubSeq(buffer, l + 1, Len(buffer))
  <2>1. buffer \in Seq(Unit) /\ stream \in Seq(Unit) /\ l \in 0 .. Len(buffer)
    BY <1>2, <1>3
  <2>2. /\ r \in Seq(Unit) /\ r \o stream = SubSeq(u, l + 1, Len(u))
        /\ \A k \in DOMAIN r : \E j \in DOMAIN buffer : r[k] = buffer[j]
    BY <2>1, FrontCut
  <2>3. buffer' = r
    BY <1>6
  <2> HIDE DEF r, u
  <2> QED BY <2>2, <2>3
<1>8. \A j \in DOMAIN buffer : buffer[j].frame \in DOMAIN sent
  BY DEF FrameInv
<1> QED BY <1>1, <1>2, <1>3, <1>5, <1>7, <1>8

-----------------------------------------------------------------------------
(* The memory of the instance. *)

\* malloc finds an address no live block has.
LEMMA FreshIsNew ==
  ASSUME NEW i, IsFiniteSet(Live(i))
  PROVE  Fresh(i) \notin Live(i)
<1> DEFINE n == Cardinality(Live(i))
           s == 1 .. n + 1
<1>1. n \in Nat
  BY FS_CardinalityType
<1>2. \E a \in s : a \notin Live(i)
  <2> SUFFICES ASSUME s \subseteq Live(i) PROVE FALSE
    OBVIOUS
  <2>1. Cardinality(s) <= n
    BY FS_Subset
  <2>2. Cardinality(s) = n + 1
    <3>1. 1 \in Int /\ n + 1 \in Int
      BY <1>1
    <3>2. Cardinality(s) = IF 1 > n + 1 THEN 0 ELSE (n + 1) - 1 + 1
      BY <3>1, FS_Interval
    <3> QED BY <1>1, <3>2
  <2> QED BY <1>1, <2>1, <2>2
<1> QED BY <1>2 DEF Fresh

\* What is stored is found, and everything else stays.
LEMMA StoreKeeps ==
  ASSUME NEW i, Sound(i), NEW a, NEW v
  PROVE  /\ Sound(Store(i, a, v)) /\ Live(Store(i, a, v)) = Live(i) \cup {a}
         /\ Store(i, a, v).sp = i.sp /\ Store(i, a, v).gen = i.gen
         /\ Store(i, a, v).heap[a] = v
         /\ \A x \in Live(i) : x # a => Store(i, a, v).heap[x] = i.heap[x]
<1> DEFINE h == [x \in Live(i) \cup {a} |-> IF x = a THEN v ELSE i.heap[x]]
<1>1. i = [sp |-> i.sp, gen |-> i.gen, heap |-> i.heap]
  BY DEF Sound
<1>2. Store(i, a, v) = [sp |-> i.sp, gen |-> i.gen, heap |-> h]
  BY <1>1 DEF Store
<1>3. DOMAIN h = Live(i) \cup {a}
  OBVIOUS
<1>4. h[a] = v /\ \A x \in Live(i) : x # a => h[x] = i.heap[x]
  OBVIOUS
<1> HIDE DEF h
<1>5. IsFiniteSet(Live(i) \cup {a})
  BY FS_AddElement DEF Sound
<1>6. i.sp \in Nat /\ i.gen \in Nat
  BY DEF Sound
<1> QED BY <1>2, <1>3, <1>4, <1>5, <1>6 DEF Sound, Live

\* What is not freed stays.
LEMMA FreeKeeps ==
  ASSUME NEW i, Sound(i), NEW as
  PROVE  /\ Sound(FreeAll(i, as)) /\ Live(FreeAll(i, as)) = Live(i) \ as
         /\ FreeAll(i, as).sp = i.sp /\ FreeAll(i, as).gen = i.gen
         /\ \A x \in Live(i) \ as : FreeAll(i, as).heap[x] = i.heap[x]
<1> DEFINE d == Live(i) \ as
           h == [x \in d |-> i.heap[x]]
           j == FreeAll(i, as)
<1>1. i = [sp |-> i.sp, gen |-> i.gen, heap |-> i.heap] /\ i.sp \in Nat /\ i.gen \in Nat
  BY DEF Sound
<1>2. j = [i EXCEPT !.heap = h]
  BY DEF FreeAll
<1>3. IsFiniteSet(d)
  BY FS_Difference DEF Sound
<1> HIDE DEF d, j
<1>4. DOMAIN h = d /\ \A x \in d : h[x] = i.heap[x]
  OBVIOUS
<1> HIDE DEF h
<1>5. j = [sp |-> i.sp, gen |-> i.gen, heap |-> h]
  BY <1>1, <1>2
<1>6. j.heap = h /\ j.sp = i.sp /\ j.gen = i.gen
  BY <1>5
<1>7. Sound(j) /\ Live(j) = d
  BY <1>1, <1>3, <1>4, <1>5, <1>6 DEF Sound, Live
<1> QED BY <1>4, <1>6, <1>7 DEF d, j

\* Growing the memory moves no block.
LEMMA GrowKeeps ==
  ASSUME NEW i, Sound(i), NEW grow
  PROVE  /\ Sound(Grown(i, grow))
         /\ Grown(i, grow).sp = i.sp /\ Grown(i, grow).heap = i.heap
<1>1. i = [sp |-> i.sp, gen |-> i.gen, heap |-> i.heap]
  BY DEF Sound
<1>2. i.sp \in Nat /\ i.gen \in Nat /\ i.gen + 1 \in Nat
  BY DEF Sound
<1>3. CASE grow
  <2>1. Grown(i, grow) = [sp |-> i.sp, gen |-> i.gen + 1, heap |-> i.heap]
    BY <1>1, <1>3 DEF Grown
  <2> QED BY <1>2, <2>1 DEF Sound, Live
<1>4. CASE ~grow
  BY <1>4 DEF Grown
<1> QED BY <1>3, <1>4

\* The stack pointer moves, the heap does not.
LEMMA StackKeeps ==
  ASSUME NEW i, Sound(i)
  PROVE  /\ Sound(Push(i)) /\ Push(i).sp > 0
         /\ i.sp > 0 => Sound(Pop(i))
<1>1. i = [sp |-> i.sp, gen |-> i.gen, heap |-> i.heap] /\ i.sp \in Nat /\ i.gen \in Nat
  BY DEF Sound
<1>2. Push(i) = [sp |-> i.sp + 1, gen |-> i.gen, heap |-> i.heap]
  BY <1>1 DEF Push
<1>3. Pop(i) = [sp |-> i.sp - 1, gen |-> i.gen, heap |-> i.heap]
  BY <1>1 DEF Pop
<1>4. Sound(Push(i)) /\ Push(i).sp > 0
  BY <1>1, <1>2 DEF Sound, Live
<1>5. ASSUME i.sp > 0 PROVE Sound(Pop(i))
  BY <1>1, <1>3, <1>5 DEF Sound, Live
<1> QED BY <1>4, <1>5

-----------------------------------------------------------------------------
(* The host's own invariants. *)

\* A call in progress is a request's, and fits the host's table.
LEMMA CallIsRequest ==
  ASSUME FrameInv, SentInv, HostInv, Busy
  PROVE  /\ Taken \in DOMAIN sent /\ Taken = Len(replied) + 1 /\ Taken \in Nat
         /\ cur.id = sent[Taken].id /\ cur.id # NoId /\ cur.id \in Ids
         /\ sent[Taken] \in Msg /\ sent[Taken].op = "call"
         /\ cur.fn = sent[Taken].fn /\ cur.args = sent[Taken].args
         /\ cur.args \in Seq(Strings) /\ inst.sp > 0
<1>1. Taken \in DOMAIN sent /\ Taken = Len(replied) + 1 /\ Taken \in Nat
  <2>1. Taken = Len(replied) + 1
    BY DEF Taken
  <2> QED BY <2>1, TakenNat DEF FrameInv
<1>2. sent[Taken] \in Msg
  BY <1>1 DEF FrameInv
<1>3. /\ cur.id = sent[Taken].id /\ cur.fn = sent[Taken].fn /\ cur.args = sent[Taken].args
      /\ sent[Taken].op = "call" /\ Wellformed(cur.fn, cur.args) /\ inst.sp > 0
  BY DEF HostInv, CallInv
<1>4. cur.id # NoId
  <2>1. cur.fn # "none"
    BY <1>3 DEF Wellformed, Arity
  <2> QED BY <1>1, <1>3, <2>1 DEF SentInv, Frame
<1>5. sent[Taken].id \in Ids \cup {NoId} /\ sent[Taken].args \in Seq(Strings)
  BY <1>2 DEF Msg
<1> QED BY <1>1, <1>2, <1>3, <1>4, <1>5

\* What the host promises of the frames: FrameInv is kept by its steps.
LEMMA HostKeepsFrames ==
  ASSUME FrameInv, SentInv, HostInv, Host
  PROVE  FrameInv'
<1>0. /\ sent \in Seq(Msg) /\ buffer \in Seq(Unit) /\ stream \in Seq(Unit)
      /\ replied \in Seq(Answer) /\ Len(replied) \in Nat /\ Len(sent) \in Nat
      /\ Taken \in Nat /\ Taken <= Len(sent)
  BY TakenNat DEF FrameInv
<1>1. CASE Boot \/ NeedMore \/ End \/ EngineHangs
  BY <1>1 DEF Boot, NeedMore, End, EngineHangs, wireVars, FrameInv, Taken, Busy
<1>2. CASE Data
  <2>1. PICK n \in 1 .. Len(stream) :
          /\ buffer' = buffer \o SubSeq(stream, 1, n)
          /\ stream' = SubSeq(stream, n + 1, Len(stream))
    BY <1>2 DEF Data
  <2>2. /\ host = "idle" /\ host' = "parse" /\ replied' = replied /\ sent' = sent
    BY <1>2 DEF Data
  <2>3. Taken' = Taken /\ Framed(buffer \o stream, Taken, sent)
    BY <2>2 DEF Taken, Busy, FrameInv
  <2>4. /\ buffer' \in Seq(Unit) /\ stream' \in Seq(Unit)
        /\ buffer' \o stream' = buffer \o stream
        /\ \A k \in DOMAIN buffer' : \/ \E j \in DOMAIN buffer : buffer'[k] = buffer[j]
                                     \/ \E j \in DOMAIN stream : buffer'[k] = stream[j]
        /\ \A k \in DOMAIN stream' : \E j \in DOMAIN stream : stream'[k] = stream[j]
    <3>1. buffer \in Seq(Unit) /\ stream \in Seq(Unit) /\ n \in 1 .. Len(stream)
      BY <1>0, <2>1
    <3> DEFINE b2 == buffer'
               s2 == stream'
    <3>2. b2 = buffer \o SubSeq(stream, 1, n) /\ s2 = SubSeq(stream, n + 1, Len(stream))
      BY <2>1
    <3> HIDE DEF b2, s2
    <3>3. Moved(buffer, stream, b2, s2)
      BY <3>1, <3>2, ChunkMoved
    <3> QED BY <3>3, Zenon DEF b2, s2, Moved
  <2>5. /\ \A k \in DOMAIN stream : stream[k].frame \in DOMAIN sent
        /\ \A k \in DOMAIN buffer : buffer[k].frame \in DOMAIN sent
    BY DEF FrameInv
  <2>6. /\ \A k \in DOMAIN stream' : stream'[k].frame \in DOMAIN sent
        /\ \A k \in DOMAIN buffer' : buffer'[k].frame \in DOMAIN sent
    BY <2>4, <2>5
  <2> QED BY <1>0, <2>2, <2>3, <2>4, <2>6 DEF FrameInv
<1>3. ASSUME Take, host' \in {"parse", "exited"},
             NEW r \in Answer, replied' = Append(replied, r)
      PROVE  FrameInv'
  <2>1. Taken = Len(replied) /\ Taken' = Taken + 1
    BY <1>0, <1>3, TakesFrame DEF Taken, Busy
  <2>2. replied' \in Seq(Answer)
    BY <1>0, <1>3
  <2>3. \A k \in DOMAIN stream : stream[k].frame \in DOMAIN sent
    BY DEF FrameInv
  <2> QED BY <1>0, <1>3, <2>1, <2>2, <2>3, TakesFrame DEF FrameInv
<1>4. CASE TakeRefused \/ TakeDescriptor \/ TakeClose
  <2>1. Take /\ host' \in {"parse", "exited"}
    BY <1>4 DEF TakeRefused, TakeDescriptor, TakeClose, NextFrame
  <2>2. Incoming = sent[Taken + 1] /\ sent[Taken + 1] \in Msg
    BY <2>1, TakesFrame
  <2> DEFINE m == sent[Taken + 1]
  <2> HIDE DEF m
  <2>3. m \in Msg /\ m.id \in Ids \cup {NoId}
    BY <2>2 DEF m, Msg
  <2>4. CASE TakeRefused
    <3>1. Reply(m.id, FALSE, <<>>) \in Answer
      BY <2>3 DEF Reply, Answer, Values
    <3>2. replied' = Append(replied, Reply(m.id, FALSE, <<>>))
      BY <2>2, <2>4 DEF TakeRefused, Respond, m
    <3> QED BY <1>3, <2>1, <3>1, <3>2
  <2>5. CASE TakeDescriptor
    <3>1. Expected(m) = <<"descriptor">>
      BY <2>2, <2>5 DEF TakeDescriptor, Expected, m
    <3>2. Reply(m.id, TRUE, Expected(m)) \in Answer
      BY <2>3 DEF Reply, Answer, Values
    <3>3. replied' = Append(replied, Reply(m.id, TRUE, Expected(m)))
      BY <2>2, <2>5, <3>1 DEF TakeDescriptor, Respond, m
    <3> QED BY <1>3, <2>1, <3>2, <3>3
  <2>6. CASE TakeClose
    <3>1. Expected(m) = <<"closing">>
      BY <2>2, <2>6 DEF TakeClose, Expected, m
    <3>2. Reply(m.id, TRUE, Expected(m)) \in Answer
      BY <2>3 DEF Reply, Answer, Values
    <3>3. replied' = Append(replied, Reply(m.id, TRUE, Expected(m)))
      BY <2>2, <2>6, <3>1 DEF TakeClose, Respond, m
    <3> QED BY <1>3, <2>1, <3>2, <3>3
  <2> QED BY <1>4, <2>4, <2>5, <2>6
<1>5. CASE TakeNull
  <2>1. Take /\ host' = "exited" /\ replied' = replied
    BY <1>5 DEF TakeNull
  <2>2. Taken' <= Len(sent)
    BY <1>0, <2>1, TakesFrame DEF Taken, Busy
  <2>3. \A k \in DOMAIN stream : stream[k].frame \in DOMAIN sent
    BY DEF FrameInv
  <2> QED BY <1>0, <2>1, <2>2, <2>3, TakesFrame DEF FrameInv
<1>6. CASE TakeCall
  <2>1. Take /\ host' = "put" /\ replied' = replied
    BY <1>6 DEF TakeCall
  <2>2. Taken' = Taken + 1
    BY <1>0, <2>1, TakesFrame DEF Taken, Busy
  <2>3. \A k \in DOMAIN stream : stream[k].frame \in DOMAIN sent
    BY DEF FrameInv
  <2> QED BY <1>0, <2>1, <2>2, <2>3, TakesFrame DEF FrameInv
<1>7. CASE PutArgument \/ EngineReturns
  <2>1. host = "put" /\ host' \in {"put", "result"} /\ replied' = replied
        /\ sent' = sent /\ stream' = stream /\ buffer' = buffer
    BY <1>7, PutArrives DEF PutArgument, EngineReturns, wireVars
  <2>2. Taken' = Taken
    BY <2>1 DEF Taken, Busy
  <2> QED BY <2>1, <2>2 DEF FrameInv
<1>8. CASE EngineTraps \/ FinishCall
  <2>1. Busy
    BY <1>8 DEF EngineTraps, FinishCall, Busy
  <2>2. PICK r \in Answer : replied' = Append(replied, r)
    <3>1. CASE EngineTraps
      <4>1. Reply(cur.id, FALSE, <<>>) \in Answer
        BY <2>1, CallIsRequest DEF Reply, Answer, Values
      <4> QED BY <3>1, <4>1 DEF EngineTraps, Abandon, Respond
    <3>2. CASE FinishCall
      <4>1. inst.heap[cur.ret] = Expected(sent[Taken])
        BY <3>2 DEF FinishCall, HostInv, CallInv
      <4>2. Reply(cur.id, TRUE, inst.heap[cur.ret]) \in Answer
        BY <2>1, <4>1, CallIsRequest DEF Reply, Answer, Values
      <4> QED BY <3>2, <4>2, FinishReads DEF Respond
    <3> QED BY <1>8, <3>1, <3>2
  <2>3. host' = "parse" /\ host # "exited" /\ sent' = sent /\ stream' = stream /\ buffer' = buffer
    BY <1>8, FinishReads DEF EngineTraps, FinishCall, Abandon, NextFrame, wireVars
  <2>4. Taken' = Taken /\ replied' \in Seq(Answer)
    BY <1>0, <2>1, <2>2, <2>3 DEF Taken, Busy
  <2> QED BY <2>3, <2>4 DEF FrameInv
<1> QED BY <1>1, <1>2, <1>4, <1>5, <1>6, <1>7, <1>8 DEF Host

\* The stream is framed, whatever happens.
LEMMA FrameStep ==
  ASSUME FrameInv, SentInv, HostInv, [Next]_vars
  PROVE  FrameInv'
<1>1. CASE Aside
  BY <1>1 DEF Aside, FrameInv, Taken, Busy
<1>2. CASE UNCHANGED vars
  BY <1>1, <1>2 DEF vars, Aside
<1>3. CASE Next
  BY <1>1, <1>3, StepKinds, WritesFrame, HostKeepsFrames
<1> QED BY <1>2, <1>3

\* The instance stays sound.
LEMMA SoundStep ==
  ASSUME FrameInv, SentInv, HostInv, Host
  PROVE  Sound(inst)'
<1>0. Sound(inst)
  BY DEF HostInv
<1>1. CASE inst' = inst
  BY <1>0, <1>1 DEF Sound, Live
<1>2. CASE TakeCall
  <2>1. inst' = Push(inst)
    BY <1>2 DEF TakeCall
  <2>2. Sound(Push(inst))
    BY <1>0, StackKeeps
  <2> QED BY <2>1, <2>2 DEF Sound, Live
<1>3. CASE PutArgument
  <2>1. PICK grow \in MayGrow :
          inst' = Store(Malloc(inst, grow), Fresh(inst), Bytes(cur.args[Len(cur.flat) + 1]))
    BY <1>3, PutArrives
  <2>2. Sound(Store(Malloc(inst, grow), Fresh(inst), Bytes(cur.args[Len(cur.flat) + 1])))
    BY <1>0, StoreKeeps, GrowKeeps DEF Malloc
  <2> QED BY <2>1, <2>2 DEF Sound, Live
<1>4. CASE EngineReturns
  <2>1. PICK grow, d, a, w : inst' = Grown(Store(FreeAll(inst, d), a, w), grow)
    BY <1>4 DEF EngineReturns
  <2>2. Sound(Grown(Store(FreeAll(inst, d), a, w), grow))
    BY <1>0, StoreKeeps, GrowKeeps, FreeKeeps
  <2> QED BY <2>1, <2>2 DEF Sound, Live
<1>5. CASE FinishCall
  <2>1. inst.sp > 0
    BY <1>5, CallIsRequest DEF FinishCall, Busy
  <2>2. inst' = FreeAll(Pop(inst), {cur.ret})
    BY <1>5, FinishReads
  <2>3. Sound(FreeAll(Pop(inst), {cur.ret}))
    BY <1>0, <2>1, StackKeeps, FreeKeeps
  <2> QED BY <2>2, <2>3 DEF Sound, Live
<1>6. CASE Boot \/ Data \/ NeedMore \/ TakeRefused \/ TakeNull \/ TakeDescriptor
           \/ TakeClose \/ EngineTraps \/ EngineHangs \/ End
  <2>1. inst' = inst
    BY <1>6 DEF Boot, Data, NeedMore, TakeRefused, TakeNull, TakeDescriptor, TakeClose,
                EngineTraps, Abandon, EngineHangs, End
  <2> QED BY <1>1, <2>1
<1> QED BY <1>2, <1>3, <1>4, <1>5, <1>6 DEF Host

\* The blocks of a call hold what they should.
LEMMA CallStep ==
  ASSUME FrameInv, SentInv, HostInv, Host
  PROVE  CallInv'
<1>0. /\ Sound(inst) /\ CallInv
      /\ cur = [id |-> cur.id, fn |-> cur.fn, args |-> cur.args, flat |-> cur.flat,
                ret |-> cur.ret]
  BY DEF HostInv, CallInv
<1>1. CASE Boot \/ Data \/ NeedMore \/ TakeRefused \/ TakeNull \/ TakeDescriptor
           \/ TakeClose \/ End
  <2>1. cur' = cur /\ host' \in {"idle", "parse", "exited"}
    BY <1>1 DEF Boot, Data, NeedMore, TakeRefused, TakeNull, TakeDescriptor, TakeClose,
                End, NextFrame
  <2> QED BY <1>0, <2>1 DEF CallInv, Busy
<1>2. CASE EngineTraps \/ FinishCall
  <2>1. cur' = NoCall /\ host' = "parse"
    BY <1>2, FinishReads DEF EngineTraps, Abandon, NextFrame
  <2> QED BY <2>1 DEF CallInv, Busy, NoCall
<1>3. CASE EngineHangs
  <2>1. /\ Busy /\ Busy' /\ host' = "hung" /\ cur' = cur /\ inst' = inst /\ sent' = sent
        /\ Taken' = Taken
    BY <1>3 DEF EngineHangs, Busy, Taken, wireVars
  <2> QED BY <1>0, <2>1 DEF CallInv
<1>4. CASE TakeCall
  <2>1. /\ Take /\ host' = "put" /\ inst' = Push(inst) /\ replied' = replied
        /\ Incoming.op = "call" /\ ~Refusable(Incoming)
        /\ cur' = [NoCall EXCEPT !.id = Incoming.id, !.fn = Incoming.fn,
                                 !.args = Incoming.args]
    BY <1>4 DEF TakeCall
  <2>2. /\ sent' = sent /\ Taken' = Taken + 1 /\ Incoming = sent[Taken']
        /\ Taken + 1 \in DOMAIN sent /\ sent[Taken + 1] \in Msg
    <3>1. Taken' = Taken + 1 /\ sent' = sent
      BY <2>1, TakesFrame DEF Taken, Busy
    <3> QED BY <2>1, <3>1, TakesFrame
  <2> DEFINE m == sent[Taken + 1]
  <2>3. cur' = [id |-> m.id, fn |-> m.fn, args |-> m.args, flat |-> <<>>, ret |-> 0]
    BY <2>1, <2>2 DEF NoCall
  <2>4. m.op = "call" /\ Wellformed(m.fn, m.args)
    BY <2>1, <2>2 DEF Refusable
  <2>5. inst'.sp > 0
    BY <1>0, <2>1, StackKeeps
  <2>6. sent'[Taken'] = m /\ m \in Msg
    BY <2>2
  <2> HIDE DEF m
  <2>7. /\ cur'.id = m.id /\ cur'.fn = m.fn /\ cur'.args = m.args
        /\ cur'.flat = <<>> /\ cur'.ret = 0
    BY <2>3
  <2>8. Len(m.args) \in Nat
    BY <2>6 DEF Msg
  <2>9. /\ Len(cur'.flat) <= Len(cur'.args) /\ cur'.flat \in Seq(Live(inst'))
        /\ DOMAIN cur'.flat = {}
    BY <2>7, <2>8
  <2> QED BY <2>1, <2>3, <2>4, <2>5, <2>6, <2>7, <2>9 DEF CallInv, Busy, Live
<1>5. CASE PutArgument
  <2> DEFINE n == Len(cur.flat)
             b == Bytes(cur.args[n + 1])
             a == Fresh(inst)
  <2>1. host = "put" /\ n < Len(cur.args) /\ sent' = sent
    BY <1>5 DEF PutArgument, wireVars
  <2>2. PICK grow \in MayGrow :
          /\ inst' = Store(Malloc(inst, grow), a, b)
          /\ cur' = [cur EXCEPT !.flat = Append(@, a)]
          /\ UNCHANGED <<host, replied, trapped>>
    BY <1>5, PutArrives
  <2>3. Taken' = Taken /\ Busy /\ Busy' /\ host' = "put"
    BY <2>1, <2>2 DEF Taken, Busy
  <2>4. a \notin Live(inst)
    BY <1>0, FreshIsNew DEF Sound
  <2> DEFINE j == Malloc(inst, grow)
  <2>5. /\ Sound(j) /\ j.sp = inst.sp /\ Live(j) = Live(inst) \cup {a}
        /\ \A x \in Live(inst) : j.heap[x] = inst.heap[x]
    <3> DEFINE i == Store(inst, a, Junk)
    <3>1. /\ Sound(i) /\ Live(i) = Live(inst) \cup {a} /\ i.sp = inst.sp
          /\ \A x \in Live(inst) : i.heap[x] = inst.heap[x]
      BY <1>0, <2>4, StoreKeeps
    <3> HIDE DEF i
    <3>2. Sound(Grown(i, grow)) /\ Grown(i, grow).sp = i.sp /\ Grown(i, grow).heap = i.heap
      BY <3>1, GrowKeeps
    <3>3. j = Grown(i, grow)
      BY DEF Malloc, i
    <3> HIDE DEF j
    <3> QED BY <3>1, <3>2, <3>3 DEF Live
  <2> HIDE DEF j, a, b
  <2>6. /\ inst'.sp = inst.sp /\ Live(inst') = Live(inst) \cup {a}
        /\ inst'.heap[a] = b
        /\ \A x \in Live(inst) : inst'.heap[x] = inst.heap[x]
    <3>1. inst' = Store(j, a, b)
      BY <2>2 DEF j
    <3>2. /\ Live(Store(j, a, b)) = Live(j) \cup {a} /\ Store(j, a, b).sp = j.sp
          /\ Store(j, a, b).heap[a] = b
          /\ \A x \in Live(j) : x # a => Store(j, a, b).heap[x] = j.heap[x]
      BY <2>5, StoreKeeps
    <3> QED BY <2>4, <2>5, <3>1, <3>2 DEF a
  <2>7. cur' = [id |-> cur.id, fn |-> cur.fn, args |-> cur.args,
                flat |-> Append(cur.flat, a), ret |-> cur.ret]
    BY <1>0, <2>2
  <2>8. /\ cur'.id = cur.id /\ cur'.fn = cur.fn /\ cur'.args = cur.args
        /\ cur'.flat = Append(cur.flat, a) /\ cur'.ret = cur.ret
    BY <2>7
  <2>9. /\ cur.flat \in Seq(Live(inst)) /\ n <= Len(cur.args)
        /\ \A k \in DOMAIN cur.flat : inst.heap[cur.flat[k]] = Bytes(cur.args[k])
    BY <1>0, <2>1 DEF CallInv
  <2>10. n \in Nat /\ Len(cur.args) \in Nat
    BY <2>3, <2>9, CallIsRequest
  <2> DEFINE fl == Append(cur.flat, a)
  <2>11. /\ cur.flat \in Seq(Live(inst'))
         /\ \A k \in 1..n : cur.flat[k] \in Live(inst)
    BY <2>6, <2>9
  <2>12. /\ fl \in Seq(Live(inst')) /\ Len(fl) = n + 1 /\ fl[n + 1] = a
         /\ \A k \in 1..n : fl[k] = cur.flat[k]
    <3>1. a \in Live(inst')
      BY <2>6
    <3> QED BY <2>11, <3>1, AppendProperties
  <2> HIDE DEF fl
  <2>13. ASSUME NEW k \in DOMAIN fl PROVE inst'.heap[fl[k]] = Bytes(cur.args[k])
    <3>1. k \in 1 .. n + 1
      BY <2>10, <2>12
    <3>2. CASE k = n + 1
      BY <2>6, <2>12, <3>2 DEF b
    <3>3. CASE k \in 1..n
      BY <2>6, <2>9, <2>11, <2>12, <3>3
    <3> QED BY <2>10, <3>1, <3>2, <3>3
  <2>14. Len(fl) <= Len(cur.args)
    BY <2>1, <2>10, <2>12
  <2>15. /\ cur.id = sent[Taken].id /\ cur.fn = sent[Taken].fn
         /\ cur.args = sent[Taken].args
         /\ sent[Taken].op = "call" /\ Wellformed(cur.fn, cur.args)
         /\ inst.sp > 0
    BY <1>0, <2>3 DEF CallInv
  <2>16. cur'.flat = fl
    BY <2>8 DEF fl
  <2> QED BY <2>1, <2>3, <2>6, <2>7, <2>8, <2>12, <2>13, <2>14, <2>15, <2>16
          DEF CallInv, Live
<1>6. CASE EngineReturns
  <2> DEFINE found == [k \in DOMAIN cur.flat |-> inst.heap[cur.flat[k]]]
             owned == {cur.flat[k] : k \in {x \in DOMAIN cur.flat : cur.args[x] # Empty}}
             after == FreeAll(inst, owned)
             a == Fresh(after)
             d == Digest(cur.fn, found)
             j == Store(after, a, d)
  <2>1. /\ host = "put" /\ Len(cur.flat) = Len(cur.args) /\ host' = "result"
        /\ sent' = sent /\ replied' = replied
    BY <1>6 DEF EngineReturns, wireVars
  <2>2. PICK grow \in MayGrow : inst' = Grown(j, grow) /\ cur' = [cur EXCEPT !.ret = a]
    BY <1>6 DEF EngineReturns
  <2>3. Taken' = Taken /\ Busy /\ Busy'
    BY <2>1 DEF Taken, Busy
  <2>4. d = Expected(sent[Taken])
    <3>1. /\ cur.flat \in Seq(Live(inst))
          /\ \A k \in DOMAIN cur.flat : inst.heap[cur.flat[k]] = Bytes(cur.args[k])
      BY <1>0, <2>1 DEF CallInv
    <3>2. DOMAIN cur.flat = DOMAIN cur.args
      BY <2>1, <2>3, <3>1, CallIsRequest
    <3>3. found = [k \in DOMAIN cur.args |-> Bytes(cur.args[k])]
      BY <3>1, <3>2
    <3>4. sent[Taken].op = "call" /\ cur.fn = sent[Taken].fn /\ cur.args = sent[Taken].args
      BY <2>3, CallIsRequest
    <3> HIDE DEF found
    <3> QED BY <3>3, <3>4 DEF Expected
  <2>5. Sound(after) /\ after.sp = inst.sp
    BY <1>0, FreeKeeps
  <2> HIDE DEF after, a, d
  <2>6. Sound(j) /\ j.sp = after.sp /\ j.heap[a] = d
    BY <2>5, StoreKeeps
  <2> HIDE DEF j
  <2>7. inst'.sp = inst.sp /\ inst'.heap = j.heap
    BY <2>2, <2>5, <2>6, GrowKeeps
  <2>8. cur' = [id |-> cur.id, fn |-> cur.fn, args |-> cur.args, flat |-> cur.flat, ret |-> a]
    BY <1>0, <2>2
  <2>9. /\ cur'.id = cur.id /\ cur'.fn = cur.fn /\ cur'.args = cur.args
        /\ cur'.flat = cur.flat /\ cur'.ret = a
    BY <2>8
  <2>10. /\ cur.id = sent[Taken].id /\ cur.fn = sent[Taken].fn
         /\ cur.args = sent[Taken].args
         /\ sent[Taken].op = "call" /\ Wellformed(cur.fn, cur.args)
         /\ inst.sp > 0
    BY <1>0, <2>3 DEF CallInv
  <2>11. Expected(sent[Taken])' = Expected(sent[Taken])
    BY <2>1, <2>3 DEF Expected
  <2> QED BY <2>1, <2>3, <2>4, <2>6, <2>7, <2>8, <2>9, <2>10, <2>11 DEF CallInv
<1> QED BY <1>1, <1>2, <1>3, <1>4, <1>5, <1>6 DEF Host

\* The replies answer the frames.
LEMMA ReplyStep ==
  ASSUME FrameInv, SentInv, HostInv, Host
  PROVE  ReplyInv' /\ trapped' \subseteq Ids /\ trapped \subseteq trapped'
<1>0. /\ replied \in Seq(Answer) /\ Len(replied) \in Nat /\ ReplyInv /\ trapped \subseteq Ids
  BY TakenNat DEF FrameInv, HostInv
<1> DEFINE n == Len(replied)
<1>1. ASSUME UNCHANGED <<replied, sent, trapped>>
      PROVE  ReplyInv' /\ trapped' \subseteq Ids /\ trapped \subseteq trapped'
  <2>1. ASSUME NEW k \in DOMAIN replied PROVE Expected(sent[k])' = Expected(sent[k])
    BY <1>1 DEF Expected
  <2> QED BY <1>0, <1>1, <2>1 DEF ReplyInv
<1>2. ASSUME NEW r, replied' = Append(replied, r), sent' = sent,
             trapped \subseteq trapped', trapped' \subseteq Ids,
             r.id = sent[n + 1].id,
             r.ok => r.value = Expected(sent[n + 1]),
             ~r.ok /\ sent[n + 1].id # NoId => sent[n + 1].id \in trapped'
      PROVE  ReplyInv' /\ trapped' \subseteq Ids /\ trapped \subseteq trapped'
  <2> SUFFICES ASSUME NEW k \in DOMAIN replied'
               PROVE  /\ replied'[k].id = sent[k].id
                      /\ replied'[k].ok => replied'[k].value = Expected(sent[k])
                      /\ ~replied'[k].ok /\ sent[k].id # NoId => sent[k].id \in trapped'
    BY <1>2 DEF ReplyInv, Expected
  <2>1. k \in 1 .. n + 1
    BY <1>0, <1>2
  <2>2. CASE k = n + 1
    <3>1. replied'[k] = r
      BY <1>0, <1>2, <2>2
    <3> QED BY <1>2, <2>2, <3>1
  <2>3. CASE k \in 1..n
    <3>1. replied'[k] = replied[k] /\ k \in DOMAIN replied
      BY <1>0, <1>2, <2>3
    <3> QED BY <1>0, <1>2, <3>1 DEF ReplyInv
  <2> QED BY <1>0, <2>1, <2>2, <2>3
<1>3. CASE Boot \/ Data \/ NeedMore \/ End \/ EngineHangs \/ TakeNull \/ TakeCall
           \/ PutArgument \/ EngineReturns
  <2>1. UNCHANGED <<replied, sent, trapped>>
    BY <1>3, PutArrives DEF Boot, Data, NeedMore, End, EngineHangs, TakeNull, TakeCall,
       Take, PutArgument, EngineReturns, wireVars
  <2> QED BY <1>1, <2>1
<1>4. CASE TakeRefused \/ TakeDescriptor \/ TakeClose
  <2>1. Take /\ trapped' = trapped
    BY <1>4 DEF TakeRefused, TakeDescriptor, TakeClose
  <2>2. /\ Incoming = sent[n + 1] /\ n + 1 \in DOMAIN sent /\ sent' = sent
    BY <2>1, TakesFrame
  <2> DEFINE m == sent[n + 1]
  <2>3. CASE TakeRefused
    <3>1. replied' = Append(replied, Reply(m.id, FALSE, <<>>)) /\ Refusable(m)
      BY <2>2, <2>3 DEF TakeRefused, Respond
    <3>2. m.id = NoId
      <4>1. Frame(n + 1)
        BY <2>2 DEF SentInv
      <4> QED BY <3>1, <4>1 DEF Frame, Refusable
    <3> DEFINE r == Reply(m.id, FALSE, <<>>)
    <3>3. r.id = m.id /\ r.ok = FALSE
      BY DEF Reply
    <3> HIDE DEF r
    <3>4. replied' = Append(replied, r)
      BY <3>1 DEF r
    <3> QED BY <1>0, <1>2, <2>1, <2>2, <3>2, <3>3, <3>4
  <2>4. CASE TakeDescriptor \/ TakeClose
    <3>1. replied' = Append(replied, Reply(m.id, TRUE, Expected(m)))
      BY <2>2, <2>4 DEF TakeDescriptor, TakeClose, Respond, Expected
    <3> DEFINE r == Reply(m.id, TRUE, Expected(m))
    <3>2. r.id = m.id /\ r.ok = TRUE /\ r.value = Expected(m)
      BY DEF Reply
    <3> HIDE DEF r
    <3>3. replied' = Append(replied, r)
      BY <3>1 DEF r
    <3> QED BY <1>0, <1>2, <2>1, <2>2, <3>2, <3>3
  <2> QED BY <1>4, <2>3, <2>4
<1>5. CASE EngineTraps \/ FinishCall
  <2>1. Busy /\ sent' = sent
    BY <1>5 DEF EngineTraps, FinishCall, Busy, wireVars
  <2>2. Taken = n + 1 /\ cur.id = sent[n + 1].id /\ cur.id \in Ids
    BY <2>1, CallIsRequest
  <2>3. CASE EngineTraps
    <3> DEFINE r == Reply(cur.id, FALSE, <<>>)
    <3>1. r.id = cur.id /\ r.ok = FALSE
      BY DEF Reply
    <3>2. replied' = Append(replied, r) /\ trapped' = trapped \cup {cur.id}
      BY <2>3 DEF EngineTraps, Abandon, Respond
    <3> HIDE DEF r
    <3>3. trapped \subseteq trapped' /\ trapped' \subseteq Ids /\ cur.id \in trapped'
      BY <1>0, <2>2, <3>2
    <3> QED BY <1>2, <2>1, <2>2, <3>1, <3>2, <3>3
  <2>4. CASE FinishCall
    <3> DEFINE r == Reply(cur.id, TRUE, inst.heap[cur.ret])
    <3>1. r.id = cur.id /\ r.ok = TRUE /\ r.value = inst.heap[cur.ret]
      BY DEF Reply
    <3>2. replied' = Append(replied, r) /\ trapped' = trapped
      BY <2>4, FinishReads DEF FinishCall, Respond
    <3>3. inst.heap[cur.ret] = Expected(sent[n + 1])
      BY <2>2, <2>4 DEF FinishCall, HostInv, CallInv
    <3> HIDE DEF r
    <3> QED BY <1>0, <1>2, <2>1, <2>2, <3>1, <3>2, <3>3
  <2> QED BY <1>5, <2>3, <2>4
<1> QED BY <1>3, <1>4, <1>5 DEF Host

\* What is said of the frames taken stays true when one is written.
LEMMA WritesHost ==
  ASSUME FrameInv, HostInv, NEW m \in Msg, Writes(m)
  PROVE  HostInv'
<1>1. /\ sent \in Seq(Msg) /\ Taken \in Nat /\ Taken <= Len(sent) /\ Len(sent) \in Nat
      /\ Len(replied) \in Nat /\ replied \in Seq(Answer)
  BY TakenNat DEF FrameInv
<1>2. \A k \in 1..Len(sent) : sent'[k] = sent[k]
  BY <1>1 DEF Writes
<1>3. /\ cur' = cur /\ inst' = inst /\ replied' = replied /\ trapped' = trapped
      /\ host' = host \/ (host = "none" /\ host' = "boot")
  BY DEF Writes
<1>4. Taken' = Taken
  BY <1>3 DEF Taken, Busy
<1>5. Sound(inst)'
  BY <1>3 DEF HostInv, Sound, Live
<1>6. \A k \in DOMAIN replied : k \in 1..Len(sent)
  <2>1. Len(replied) <= Len(sent)
    BY <1>1 DEF Taken
  <2> QED BY <1>1, <2>1
<1>7. ReplyInv'
  <2> SUFFICES ASSUME NEW k \in DOMAIN replied
               PROVE  /\ replied[k].id = sent'[k].id
                      /\ replied[k].ok => replied[k].value = Expected(sent[k])'
                      /\ ~replied[k].ok /\ sent'[k].id # NoId => sent'[k].id \in trapped
    BY <1>3 DEF ReplyInv
  <2>1. sent'[k] = sent[k]
    BY <1>2, <1>6
  <2>2. Expected(sent[k])' = Expected(sent[k])
    BY <2>1 DEF Expected
  <2> QED BY <2>1, <2>2 DEF HostInv, ReplyInv
<1>8. CallInv'
  <2>1. CASE Busy
    <3>1. Taken \in 1..Len(sent)
      BY <1>1, <2>1 DEF Taken
    <3>2. sent'[Taken'] = sent[Taken]
      BY <1>2, <1>4, <3>1
    <3>3. Expected(sent[Taken])' = Expected(sent[Taken])
      BY <1>4, <3>2 DEF Expected
    <3>4. host' = host
      BY <1>3, <2>1 DEF Busy
    <3> QED BY <1>3, <1>4, <2>1, <3>2, <3>3, <3>4 DEF HostInv, CallInv, Busy, Live
  <2>2. CASE ~Busy
    BY <1>3, <2>2 DEF HostInv, CallInv, Busy
  <2> QED BY <2>1, <2>2
<1> QED BY <1>3, <1>5, <1>7, <1>8 DEF HostInv

\* The host's invariants hold after every step.
LEMMA HostStep ==
  ASSUME FrameInv, SentInv, HostInv, [Next]_vars
  PROVE  HostInv' /\ trapped \subseteq trapped'
<1>1. CASE Aside
  <2>1. \A k : Expected(sent[k])' = Expected(sent[k])
    BY <1>1 DEF Aside, Expected
  <2>2. ReplyInv'
    BY <1>1, <2>1 DEF Aside, HostInv, ReplyInv
  <2>3. Taken' = Taken /\ Busy' = Busy
    BY <1>1 DEF Aside, Taken, Busy
  <2>4. Expected(sent[Taken])' = Expected(sent[Taken])
    BY <1>1, <2>3 DEF Aside, Expected
  <2>5. CallInv'
    BY <1>1, <2>3, <2>4 DEF Aside, HostInv, CallInv, Live
  <2> QED BY <1>1, <2>2, <2>5 DEF Aside, HostInv, Sound, Live
<1>2. CASE UNCHANGED vars
  BY <1>1, <1>2 DEF vars, Aside
<1>3. CASE Host
  BY <1>3, SoundStep, CallStep, ReplyStep DEF HostInv
<1>4. ASSUME NEW m \in Msg, Writes(m) PROVE HostInv' /\ trapped \subseteq trapped'
  BY <1>4, WritesHost DEF Writes
<1>5. CASE Next
  BY <1>1, <1>3, <1>4, <1>5, StepKinds
<1> QED BY <1>2, <1>5

-----------------------------------------------------------------------------
(* The owner and its port. *)

\* The host's steps leave the owner and the port alone, and only add replies.
LEMMA HostAside ==
  ASSUME FrameInv, Host
  PROVE  /\ host # "none"
         /\ UNCHANGED <<phase, waiting, next, outcome, box, portOpen, sent, delivered>>
         /\ Len(replied) <= Len(replied')
         /\ \A k \in DOMAIN replied : replied'[k] = replied[k]
<1>0. replied \in Seq(Answer) /\ Len(replied) \in Nat
  BY TakenNat DEF FrameInv
<1>1. ASSUME NEW r, replied' = Append(replied, r)
      PROVE  Len(replied) <= Len(replied') /\ \A k \in DOMAIN replied : replied'[k] = replied[k]
  BY <1>0, <1>1
<1>2. CASE Boot \/ Data \/ NeedMore \/ End \/ EngineHangs
  BY <1>0, <1>2 DEF Boot, Data, NeedMore, End, EngineHangs, clientVars, wireVars
<1>3. CASE TakeRefused \/ TakeNull \/ TakeDescriptor \/ TakeClose \/ TakeCall
  <2>1. /\ host # "none"
        /\ UNCHANGED <<phase, waiting, next, outcome, box, portOpen, sent, delivered>>
    BY <1>3 DEF TakeRefused, TakeNull, TakeDescriptor, TakeClose, TakeCall, Take,
       clientVars, wireVars
  <2>2. replied' = replied \/ \E r : replied' = Append(replied, r)
    BY <1>3 DEF TakeRefused, TakeNull, TakeDescriptor, TakeClose, TakeCall, Respond
  <2> QED BY <1>0, <1>1, <2>1, <2>2
<1>4. CASE PutArgument \/ EngineReturns
  BY <1>0, <1>4, PutArrives DEF PutArgument, EngineReturns, clientVars, wireVars
<1>5. CASE EngineTraps \/ FinishCall
  <2>1. /\ host # "none"
        /\ UNCHANGED <<phase, waiting, next, outcome, box, portOpen, sent, delivered>>
    BY <1>5 DEF EngineTraps, FinishCall, clientVars, wireVars
  <2>2. \E r : replied' = Append(replied, r)
    BY <1>5, FinishReads DEF EngineTraps, Abandon, Respond
  <2> QED BY <1>1, <2>1, <2>2
<1> QED BY <1>2, <1>3, <1>4, <1>5 DEF Host

\* Frames are only added.
LEMMA SentGrows ==
  ASSUME FrameInv, SentInv, [Next]_vars
  PROVE  /\ Len(sent) <= Len(sent') /\ Len(sent) \in Nat /\ Len(sent') \in Nat
         /\ sent' \in Seq(Msg)
         /\ \A k \in 1..Len(sent) : k \in DOMAIN sent' /\ sent'[k] = sent[k]
<1>0. sent \in Seq(Msg) /\ Len(sent) \in Nat
  BY TakenNat DEF FrameInv
<1>1. ASSUME NEW m \in Msg, sent' = Append(sent, m)
      PROVE  /\ sent' \in Seq(Msg) /\ Len(sent') = Len(sent) + 1
             /\ \A k \in 1..Len(sent) : sent'[k] = sent[k]
  BY <1>0, <1>1, AppendProperties
<1>2. ASSUME NEW m \in Msg, Writes(m)
      PROVE  /\ Len(sent) <= Len(sent') /\ Len(sent') \in Nat /\ sent' \in Seq(Msg)
             /\ \A k \in 1..Len(sent) : k \in DOMAIN sent' /\ sent'[k] = sent[k]
  <2>1. sent' = Append(sent, m)
    BY <1>2 DEF Writes
  <2>2. /\ sent' \in Seq(Msg) /\ Len(sent') = Len(sent) + 1
        /\ \A k \in 1..Len(sent) : sent'[k] = sent[k]
    BY <1>1, <2>1
  <2> QED BY <1>0, <2>2
<1>3. CASE sent' = sent
  BY <1>0, <1>3
<1>4. CASE Aside \/ UNCHANGED vars \/ Host
  BY <1>3, <1>4, HostAside DEF Aside, vars
<1> QED BY <1>0, <1>2, <1>4, StepKinds

\* A frame with a number of its own keeps the numbering.
LEMMA Numbered ==
  ASSUME FrameInv, SentInv, NEW m \in Msg, sent' = Append(sent, m),
         \/ /\ m.id = next /\ next' = next + 1 /\ Len(sent) >= next - 1
            /\ m.op \in {"descriptor", "call", "close"}
            /\ m.op = "call" => Wellformed(m.fn, m.args)
         \/ m.id = NoId /\ m.fn = "none" /\ m.args = <<>> /\ next' = next
  PROVE  /\ \A k \in DOMAIN sent' : Frame(k)'
         /\ \A j, k \in DOMAIN sent' : sent'[j].id = sent'[k].id /\ sent'[j].id # NoId => j = k
<1> DEFINE n == Len(sent)
<1>1. sent \in Seq(Msg) /\ n \in Nat /\ next \in Nat /\ next >= 1
  BY TakenNat, SessionAssumption DEF FrameInv, SentInv
<1>2. /\ sent' \in Seq(Msg) /\ Len(sent') = n + 1 /\ sent'[n + 1] = m
      /\ \A k \in 1..n : sent'[k] = sent[k]
  BY <1>1, AppendProperties
<1>3. DOMAIN sent' = 1 .. n + 1 /\ DOMAIN sent = 1..n
  BY <1>1, <1>2
<1>4. \A k \in 1..n : sent[k].id # NoId => sent[k].id < next
  BY <1>3 DEF SentInv, Frame
<1>5. ASSUME NEW k \in 1..n PROVE Frame(k)'
  <2>1. Frame(k)
    BY <1>3 DEF SentInv
  <2>2. sent[k].id \in Nat
    BY <1>1, MsgIds
  <2>3. next' = next \/ next' = next + 1
    OBVIOUS
  <2> QED BY <1>1, <1>2, <2>1, <2>2, <2>3 DEF Frame
<1>6. ASSUME NEW k \in Nat, k = n + 1 PROVE Frame(k)'
  <2>1. m.id # NoId => m.id < next' /\ m.id <= n + 1
    BY <1>1 DEF NoId
  <2>2. m.id = next => m.id # NoId
    BY <1>1 DEF NoId
  <2> QED BY <1>2, <1>6, <2>1, <2>2 DEF Frame
<1>7. ASSUME NEW j \in DOMAIN sent', NEW k \in DOMAIN sent', sent'[j].id = sent'[k].id,
             sent'[j].id # NoId, j < k
      PROVE  FALSE
  <2>1. j \in 1..n /\ sent'[j] = sent[j] /\ sent[j].id < next
    BY <1>1, <1>2, <1>3, <1>4, <1>7
  <2>2. CASE k \in 1..n
    <3>1. sent[j].id = sent[k].id /\ sent[j].id # NoId
      BY <1>2, <1>7, <2>1, <2>2
    <3>2. j = k
      BY <1>3, <2>1, <2>2, <3>1 DEF SentInv
    <3> QED BY <1>3, <1>7, <3>2
  <2>3. CASE k = n + 1
    <3>1. sent[j].id = m.id
      BY <1>2, <1>7, <2>1, <2>3
    <3> QED BY <1>1, <1>7, <2>1, <3>1
  <2> QED BY <1>1, <1>3, <2>2, <2>3
<1>8. \A j, k \in DOMAIN sent' : sent'[j].id = sent'[k].id /\ sent'[j].id # NoId => j = k
  <2> SUFFICES ASSUME NEW j \in 1 .. n + 1, NEW k \in 1 .. n + 1,
                      sent'[j].id = sent'[k].id, sent'[j].id # NoId
               PROVE  j = k
    BY <1>3
  <2>1. j < k \/ k < j \/ j = k
    BY <1>1
  <2> QED BY <1>3, <1>7, <2>1
<1>9. ASSUME NEW k \in 1 .. n + 1 PROVE Frame(k)'
  <2>1. k \in 1..n \/ (k \in Nat /\ k = n + 1)
    BY <1>1
  <2> QED BY <1>5, <1>6, <2>1
<1> QED BY <1>3, <1>8, <1>9

\* The frames are numbered by their requests.
LEMMA SentStep ==
  ASSUME FrameInv, SentInv, ClientInv, [Next]_vars
  PROVE  SentInv'
<1>0. sent \in Seq(Msg) /\ Len(sent) \in Nat /\ next \in Nat /\ next >= 1 /\ MaxRequests \in Nat
  BY TakenNat, SessionAssumption DEF FrameInv, SentInv
<1>1. ASSUME UNCHANGED <<next, sent>>, portOpen' \in BOOLEAN, portOpen' => portOpen,
             phase' = "new" => phase = "new" /\ UNCHANGED <<host, waiting>>
      PROVE  SentInv'
  <2>1. \A k \in DOMAIN sent : Frame(k)' = Frame(k)
    BY <1>1 DEF Frame
  <2> QED BY <1>1, <2>1 DEF SentInv
<1>2. ASSUME NEW m \in Msg, sent' = Append(sent, m), next <= MaxRequests,
             m.id = next, next' = next + 1,
             m.op \in {"descriptor", "call", "close"},
             m.op = "call" => Wellformed(m.fn, m.args),
             Len(sent) >= next - 1, portOpen' \in BOOLEAN, phase' # "new"
      PROVE  SentInv'
  <2>1. Len(sent') = Len(sent) + 1
    BY <1>0, <1>2, AppendProperties
  <2>2. /\ \A k \in DOMAIN sent' : Frame(k)'
        /\ \A j, k \in DOMAIN sent' : sent'[j].id = sent'[k].id /\ sent'[j].id # NoId => j = k
    BY <1>2, Numbered
  <2>3. next' \in 1 .. MaxRequests + 1 /\ Len(sent') >= next' - 1
    BY <1>0, <1>2, <2>1
  <2> QED BY <1>2, <2>2, <2>3 DEF SentInv
<1>3. CASE Open
  <2> DEFINE m == Message(next, "descriptor", "none", <<>>)
  <2>1. /\ sent' = Append(sent, m) /\ next <= MaxRequests /\ next' = next + 1
        /\ portOpen' = TRUE /\ phase' = "opening" /\ next = 1
    BY <1>3 DEF Open, Request, WriteFrame, SentInv
  <2>2. m \in Msg /\ m.id = next /\ m.op = "descriptor"
    BY <2>1, Messages DEF Message
  <2> HIDE DEF m
  <2> QED BY <1>0, <1>2, <2>1, <2>2
<1>4. ASSUME NEW c \in Calls, Call(c) PROVE SentInv'
  <2>1. phase = "idle" /\ Wellformed(c.fn, c.args) /\ phase' = "calling" /\ portOpen' = portOpen
        /\ next <= MaxRequests /\ next' = next + 1
    BY <1>4 DEF Call, Request
  <2>2. CASE portOpen
    <3> DEFINE m == Message(next, "call", c.fn, c.args)
    <3>1. sent' = Append(sent, m)
      BY <1>4, <2>2 DEF Call, Request, WriteFrame
    <3>2. m \in Msg /\ m.id = next /\ m.op = "call" /\ Wellformed(m.fn, m.args)
      BY <2>1, Messages DEF Message
    <3>3. Len(sent) >= next - 1 /\ portOpen' \in BOOLEAN
      BY <2>1, <2>2 DEF SentInv
    <3> HIDE DEF m
    <3> QED BY <1>2, <2>1, <3>1, <3>2, <3>3
  <2>3. CASE ~portOpen
    <3>1. sent' = sent
      BY <1>4, <2>3 DEF Call, Request, WriteFrame
    <3>2. ASSUME NEW k \in DOMAIN sent PROVE Frame(k)'
      <4>1. Frame(k) /\ sent[k].id \in Nat
        BY <1>0, <3>2, MsgIds DEF SentInv
      <4> QED BY <1>0, <2>1, <3>1, <4>1 DEF Frame
    <3>3. next' \in 1 .. MaxRequests + 1
      BY <1>0, <2>1
    <3> QED BY <2>1, <2>3, <3>1, <3>2, <3>3 DEF SentInv
  <2> QED BY <2>2, <2>3
<1>5. CASE Close
  <2>1. CASE portOpen
    <3> DEFINE m == Message(next, "close", "none", <<>>)
    <3>1. /\ sent' = Append(sent, m) /\ next <= MaxRequests /\ next' = next + 1
          /\ portOpen' = portOpen /\ phase' = "closing"
      BY <1>5, <2>1 DEF Close, Request, WriteFrame
    <3>2. m \in Msg /\ m.id = next /\ m.op = "close"
      BY <3>1, Messages DEF Message
    <3>3. Len(sent) >= next - 1 /\ portOpen' \in BOOLEAN
      BY <2>1, <3>1 DEF SentInv
    <3> HIDE DEF m
    <3> QED BY <1>2, <3>1, <3>2, <3>3
  <2>2. CASE ~portOpen
    <3>1. UNCHANGED <<next, sent, portOpen>> /\ phase' = "closed"
      BY <1>5, <2>2 DEF Close
    <3>2. portOpen' \in BOOLEAN
      BY <3>1 DEF SentInv
    <3> QED BY <1>1, <3>1, <3>2
  <2> QED BY <2>1, <2>2
<1>6. CASE Receive \/ Timeout
  <2>1. PICK r : Returned(r)
    BY <1>6 DEF Receive, Timeout
  <2>2. waiting # NoId
    BY <1>6 DEF Receive, Timeout
  <2>3. phase \in {"opening", "calling", "closing"}
    BY <2>2 DEF ClientInv
  <2>4. phase' # "new"
    BY <2>1, <2>3 DEF Returned
  <2>5. UNCHANGED <<next, sent>> /\ portOpen' = (portOpen /\ phase # "closing")
    BY <2>1 DEF Returned
  <2> QED BY <1>1, <2>4, <2>5
<1>7. CASE OwnerDies \/ PortData \/ PortExit
  <2>1. /\ UNCHANGED <<next, sent>> /\ portOpen' \in BOOLEAN /\ (portOpen' => portOpen)
        /\ portOpen
    BY <1>7 DEF OwnerDies, PortData, PortExit, clientVars
  <2>2. phase' # "new"
    BY <1>7, <2>1 DEF OwnerDies, PortData, PortExit, clientVars, SentInv
  <2> QED BY <1>1, <2>1, <2>2
<1>8. CASE Host
  <2>1. phase # "new"
    BY <1>8, HostAside DEF SentInv
  <2>2. portOpen \in BOOLEAN
    BY DEF SentInv
  <2> QED BY <1>1, <1>8, <2>1, <2>2, HostAside
<1>9. ASSUME NEW op \in Strays, Stray(op) PROVE SentInv'
  <2> DEFINE m == Message(NoId, op, "none", <<>>)
  <2>1. sent' = Append(sent, m) /\ UNCHANGED <<next, portOpen, phase>> /\ portOpen
    BY <1>9 DEF Stray, WriteFrame, clientVars
  <2>2. m \in Msg /\ m.id = NoId /\ m.fn = "none" /\ m.args = <<>>
    BY Messages DEF Message
  <2> HIDE DEF m
  <2>3. Len(sent') = Len(sent) + 1
    BY <1>0, <2>1, <2>2, AppendProperties
  <2>4. /\ \A k \in DOMAIN sent' : Frame(k)'
        /\ \A j, k \in DOMAIN sent' : sent'[j].id = sent'[k].id /\ sent'[j].id # NoId => j = k
    BY <2>1, <2>2, Numbered
  <2>5. Len(sent') >= next' - 1 /\ phase' # "new" /\ next' \in 1 .. MaxRequests + 1
    BY <1>0, <2>1, <2>3 DEF SentInv
  <2>6. portOpen' \in BOOLEAN
    BY <2>1 DEF SentInv
  <2> QED BY <2>4, <2>5, <2>6 DEF SentInv
<1>10. CASE UNCHANGED vars
  <2>1. portOpen \in BOOLEAN
    BY DEF SentInv
  <2> QED BY <1>1, <1>10, <2>1 DEF vars
<1> QED BY <1>3, <1>4, <1>5, <1>6, <1>7, <1>8, <1>9, <1>10 DEF Next, Owner, Port

\* What the owner's mailbox offers next.
LEMMA BoxHead ==
  ASSUME FrameInv, BoxInv, box # <<>>
  PROVE  /\ Head(box) = box[1] /\ Head(box) \in Mail /\ Len(box) \in Nat /\ Len(box) >= 1
         /\ BoxData \in Nat /\ Consumed \in Nat /\ BoxData <= Len(box)
         /\ Head(box).kind = "exit" => Len(box) = 1 /\ BoxData = 0
         /\ Head(box).kind = "data" =>
              /\ BoxData >= 1 /\ Consumed + 1 \in DOMAIN replied
              /\ Head(box).reply = replied[Consumed + 1]
<1>1. box \in Seq(Mail) /\ Len(box) \in Nat /\ Len(box) >= 1
  BY DEF BoxInv
<1>2. Head(box) = box[1] /\ box[1] \in Mail
  BY <1>1
<1>3. BoxData \in Nat /\ BoxData <= Len(box) /\ BoxData >= Len(box) - 1
  BY <1>1 DEF BoxData
<1>4. delivered \in Nat /\ delivered <= Len(replied) /\ Len(replied) \in Nat /\ BoxData <= delivered
  BY TakenNat DEF BoxInv
<1>5. Consumed \in Nat
  BY <1>3, <1>4 DEF Consumed
<1>6. ASSUME box[1].kind = "exit" PROVE Len(box) = 1 /\ BoxData = 0
  <2>1. BoxData = 0
    <3>1. ASSUME BoxData >= 1 PROVE FALSE
      <4>1. 1 \in 1 .. BoxData
        BY <1>3, <3>1
      <4> QED BY <1>6, <4>1 DEF BoxInv
    <3> QED BY <1>3, <3>1
  <2>2. Len(box) \in Nat /\ Len(box) >= 1 /\ 0 >= Len(box) - 1
    BY <1>1, <1>3, <2>1
  <2>3. \A x \in Nat : x >= 1 /\ 0 >= x - 1 => x = 1
    OBVIOUS
  <2> QED BY <2>1, <2>2, <2>3
<1>7. ASSUME box[1].kind = "data"
      PROVE  BoxData >= 1 /\ Consumed + 1 \in DOMAIN replied
             /\ box[1].reply = replied[Consumed + 1]
  <2>1. BoxData >= 1
    BY <1>1, <1>3, <1>7 DEF BoxData
  <2>2. 1 \in 1 .. BoxData
    BY <1>3, <2>1
  <2>3. box[1].reply = replied[Consumed + 1]
    BY <2>2 DEF BoxInv
  <2>4. Consumed + 1 \in 1 .. Len(replied)
    BY <1>3, <1>4, <2>1 DEF Consumed
  <2> QED BY <2>1, <2>3, <2>4 DEF FrameInv
<1> QED BY <1>1, <1>2, <1>3, <1>5, <1>6, <1>7

\* What request/2 makes of it.
LEMMA Receives ==
  ASSUME FrameInv, SentInv, HostInv, ClientInv, BoxInv, Receive
  PROVE  \E r \in Outcome :
           /\ Returned(r) /\ r.tag \in {"ok", "error", "mismatch", "exited"}
           /\ r.tag = "ok" => /\ waiting <= Consumed + 1
                              /\ \E k \in DOMAIN sent : /\ sent[k].id = waiting
                                                        /\ r.value = Expected(sent[k])
           /\ r.tag = "error" => waiting \in trapped
           /\ r.tag = "mismatch" => /\ Head(box).kind = "data" /\ Consumed + 1 \in DOMAIN sent
                                    /\ sent[Consumed + 1].id # waiting
<1> DEFINE msg == Head(box)
           q == msg.reply
           k == Consumed + 1
<1>1. box # <<>> /\ waiting # NoId
  BY DEF Receive
<1>2. msg \in Mail /\ msg.kind \in {"data", "exit"} /\ q \in Answer
  <2>1. msg \in Mail
    BY <1>1, BoxHead
  <2> HIDE DEF msg
  <2> QED BY <2>1 DEF Mail
<1>3. CASE msg.kind = "exit"
  <2> DEFINE r == [tag |-> "exited", value |-> <<>>]
  <2>1. Returned(r)
    BY <1>3 DEF Receive
  <2>2. r \in Outcome /\ r.tag = "exited"
    BY DEF Outcome, Outcomes, Values
  <2> HIDE DEF r
  <2> QED BY <2>1, <2>2
<1>4. CASE msg.kind = "data"
  <2> DEFINE r == DecodeResponse(q, waiting)
  <2>1. Returned(r)
    BY <1>4 DEF Receive
  <2>2. k \in DOMAIN replied /\ q = replied[k] /\ Consumed \in Nat
    BY <1>1, <1>4, BoxHead
  <2>3. k \in DOMAIN sent
    <3>1. Len(replied) <= Len(sent) /\ replied \in Seq(Answer) /\ sent \in Seq(Msg)
      BY TakenNat DEF FrameInv, Taken
    <3> QED BY <2>2, <3>1
  <2> HIDE DEF k
  <2>4. /\ q.id = sent[k].id /\ (q.ok => q.value = Expected(sent[k]))
        /\ (~q.ok /\ sent[k].id # NoId => sent[k].id \in trapped)
    BY <2>2 DEF HostInv, ReplyInv
  <2>5. q.value \in Values /\ q.ok \in BOOLEAN
    BY <1>2 DEF Answer
  <2>6. sent[k].id # NoId => sent[k].id <= k
    BY <2>3 DEF SentInv, Frame
  <2> HIDE DEF q, msg
  <2>7. CASE q.id = waiting
    <3>1. r = [tag |-> IF q.ok THEN "ok" ELSE "error", value |-> q.value]
      BY <2>7 DEF DecodeResponse
    <3>2. r.tag = (IF q.ok THEN "ok" ELSE "error") /\ r.value = q.value
      BY <3>1
    <3>3. r \in Outcome
      BY <2>5, <3>1 DEF Outcome, Outcomes
    <3> HIDE DEF r
    <3> QED BY <1>1, <2>1, <2>3, <2>4, <2>6, <2>7, <3>2, <3>3 DEF k
  <2>8. CASE q.id # waiting
    <3>1. r = [tag |-> "mismatch", value |-> <<>>]
      BY <2>8 DEF DecodeResponse
    <3>2. r.tag = "mismatch" /\ r \in Outcome
      BY <3>1 DEF Outcome, Outcomes, Values
    <3> HIDE DEF r
    <3> QED BY <1>4, <2>1, <2>3, <2>4, <2>8, <3>2 DEF k, msg
  <2> QED BY <2>7, <2>8
<1> QED BY <1>2, <1>3, <1>4

\* The expected value of a frame does not change.
LEMMA ExpectedStays ==
  ASSUME FrameInv, SentInv, [Next]_vars, NEW k \in DOMAIN sent
  PROVE  k \in DOMAIN sent' /\ sent'[k] = sent[k] /\ Expected(sent[k])' = Expected(sent[k])
<1>1. k \in 1..Len(sent)
  BY DEF FrameInv
<1>2. k \in DOMAIN sent' /\ sent'[k] = sent[k]
  BY <1>1, SentGrows
<1> QED BY <1>2 DEF Expected

\* What the owner was told is true of the call it made.
LEMMA ClientStep ==
  ASSUME FrameInv, SentInv, HostInv, ClientInv, BoxInv, [Next]_vars
  PROVE  ClientInv'
<1>0. next \in 1 .. MaxRequests + 1 /\ MaxRequests \in Nat /\ next \in Nat
  BY SessionAssumption DEF SentInv
<1>1. trapped \subseteq trapped'
  BY HostStep
<1>2. ASSUME outcome' = outcome
      PROVE  /\ outcome' \in [Ids -> Outcome] /\ ErrorMeansTrap'
             /\ \A i \in Ids : outcome'[i].tag = "ok" =>
                  \E k \in DOMAIN sent' : /\ sent'[k].id = i
                                          /\ outcome'[i].value = Expected(sent[k])'
  <2>1. outcome' \in [Ids -> Outcome] /\ ErrorMeansTrap'
    BY <1>1, <1>2 DEF ClientInv, ErrorMeansTrap
  <2>2. ASSUME NEW i \in Ids, outcome[i].tag = "ok"
        PROVE  \E k \in DOMAIN sent' : /\ sent'[k].id = i
                                       /\ outcome[i].value = Expected(sent[k])'
    <3>1. PICK k \in DOMAIN sent : sent[k].id = i /\ outcome[i].value = Expected(sent[k])
      BY <2>2 DEF ClientInv
    <3> QED BY <3>1, ExpectedStays
  <2> QED BY <1>2, <2>1, <2>2
<1>3. ASSUME UNCHANGED <<phase, waiting, next, outcome>>, portOpen' => portOpen
      PROVE  ClientInv'
  BY <1>2, <1>3 DEF ClientInv
<1>4. ASSUME next <= MaxRequests, waiting' = next, next' = next + 1, outcome' = outcome,
             phase' \in {"opening", "calling", "closing"}
      PROVE  ClientInv'
  <2>1. waiting' \in Ids /\ waiting' # NoId /\ waiting' = next' - 1
    BY <1>0, <1>4 DEF Ids, NoId
  <2>2. ASSUME NEW i \in Ids, outcome[i].tag # "none" PROVE i < next' /\ i # waiting'
    <3>1. i < next /\ i \in Nat
      BY <1>0, <2>2 DEF ClientInv, Ids
    <3> QED BY <1>0, <1>4, <3>1
  <2> QED BY <1>2, <1>4, <2>1, <2>2 DEF ClientInv
<1>5. ASSUME waiting # NoId, NEW r \in Outcome, Returned(r),
             r.tag = "ok" => \E k \in DOMAIN sent : /\ sent[k].id = waiting
                                                    /\ r.value = Expected(sent[k]),
             r.tag = "error" => waiting \in trapped
      PROVE  ClientInv'
  <2>1. /\ waiting \in Ids /\ phase \in {"opening", "calling", "closing"}
        /\ waiting = next - 1 /\ outcome \in [Ids -> Outcome]
    BY <1>5 DEF ClientInv
  <2>2. /\ outcome' = [outcome EXCEPT ![waiting] = r] /\ waiting' = NoId /\ next' = next
        /\ portOpen' = (portOpen /\ phase # "closing") /\ trapped' = trapped
    BY <1>5 DEF Returned, hostVars
  <2>3. phase' \in {"idle", "failed", "closed"} /\ (phase' = "closed" => ~portOpen')
    BY <1>5, <2>1, <2>2 DEF Returned
  <2>4. /\ outcome' \in [Ids -> Outcome] /\ outcome'[waiting] = r
        /\ \A i \in Ids : i # waiting => outcome'[i] = outcome[i]
    BY <2>1, <2>2
  <2>5. ASSUME NEW i \in Ids, outcome'[i].tag # "none" PROVE i < next' /\ i # waiting'
    <3>1. i # NoId /\ i \in Nat
      BY <1>0 DEF Ids, NoId
    <3>2. i < next
      BY <1>0, <2>1, <2>4, <2>5 DEF ClientInv
    <3> QED BY <2>2, <3>1, <3>2
  <2>6. ASSUME NEW i \in Ids, outcome'[i].tag = "ok"
        PROVE  \E k \in DOMAIN sent' : /\ sent'[k].id = i
                                       /\ outcome'[i].value = Expected(sent[k])'
    <3>1. PICK k \in DOMAIN sent : sent[k].id = i /\ outcome'[i].value = Expected(sent[k])
      <4>1. CASE i = waiting
        BY <1>5, <2>4, <2>6, <4>1
      <4>2. CASE i # waiting
        BY <2>4, <2>6, <4>2 DEF ClientInv
      <4> QED BY <4>1, <4>2
    <3> QED BY <3>1, ExpectedStays
  <2>7. ErrorMeansTrap'
    BY <1>5, <2>1, <2>2, <2>4 DEF ClientInv, ErrorMeansTrap
  <2> QED BY <2>2, <2>3, <2>4, <2>5, <2>6, <2>7 DEF ClientInv, NoId
<1>6. CASE Open
  BY <1>4, <1>6 DEF Open, Request
<1>7. ASSUME NEW c \in Calls, Call(c) PROVE ClientInv'
  BY <1>4, <1>7 DEF Call, Request
<1>8. CASE Close
  <2>1. CASE portOpen
    BY <1>4, <1>8, <2>1 DEF Close, Request
  <2>2. CASE ~portOpen
    <3>1. /\ UNCHANGED <<waiting, next, outcome, portOpen>> /\ phase' = "closed"
          /\ phase \in {"idle", "failed"}
      BY <1>8, <2>2 DEF Close
    <3> QED BY <1>2, <2>2, <3>1 DEF ClientInv
  <2> QED BY <2>1, <2>2
<1>9. CASE Receive
  <2>1. waiting # NoId
    BY <1>9 DEF Receive
  <2>2. PICK r \in Outcome :
           /\ Returned(r)
           /\ r.tag = "ok" => \E k \in DOMAIN sent : /\ sent[k].id = waiting
                                                     /\ r.value = Expected(sent[k])
           /\ r.tag = "error" => waiting \in trapped
    BY <1>9, Receives
  <2> QED BY <1>5, <2>1, <2>2
<1>10. CASE Timeout
  <2> DEFINE r == [tag |-> "timeout", value |-> <<>>]
  <2>1. r \in Outcome /\ r.tag = "timeout"
    BY DEF Outcome, Outcomes, Values
  <2>2. Returned(r) /\ waiting # NoId
    BY <1>10 DEF Timeout
  <2> HIDE DEF r
  <2> QED BY <1>5, <2>1, <2>2
<1>11. CASE OwnerDies
  <2>1. /\ phase' = "closed" /\ waiting' = NoId /\ ~portOpen' /\ next' = next
        /\ outcome' = [i \in Ids |-> None]
    BY <1>11 DEF OwnerDies, Ids
  <2>2. None \in Outcome /\ None.tag = "none"
    BY DEF None, Outcome, Outcomes, Values
  <2>3. outcome' \in [Ids -> Outcome] /\ \A i \in Ids : outcome'[i].tag = "none"
    BY <2>1, <2>2
  <2> QED BY <2>1, <2>3 DEF ClientInv, ErrorMeansTrap
<1>12. CASE Port
  BY <1>3, <1>12 DEF Port, PortData, PortExit, clientVars
<1>13. CASE Host
  BY <1>3, <1>13, HostAside
<1>14. ASSUME NEW op \in Strays, Stray(op) PROVE ClientInv'
  BY <1>3, <1>14 DEF Stray, clientVars
<1>15. CASE UNCHANGED vars
  BY <1>3, <1>15 DEF vars
<1> QED BY <1>6, <1>7, <1>8, <1>9, <1>10, <1>11, <1>12, <1>13, <1>14, <1>15
        DEF Next, Owner

-----------------------------------------------------------------------------
(* Requests and replies stay paired. *)

\* The numbers of the mailbox.
LEMMA BoxNat ==
  ASSUME FrameInv, BoxInv
  PROVE  /\ box \in Seq(Mail) /\ Len(box) \in Nat /\ BoxData \in Nat /\ BoxData <= Len(box)
         /\ delivered \in Nat /\ delivered <= Len(replied) /\ Len(replied) \in Nat
         /\ Consumed \in Nat /\ Consumed + BoxData = delivered
<1>1. box \in Seq(Mail) /\ Len(box) \in Nat /\ (box # <<>> => Len(box) >= 1)
  BY DEF BoxInv
<1>2. BoxData \in Nat /\ BoxData <= Len(box)
  BY <1>1 DEF BoxData
<1>3. delivered \in Nat /\ delivered <= Len(replied) /\ Len(replied) \in Nat /\ BoxData <= delivered
  BY TakenNat DEF BoxInv
<1> QED BY <1>1, <1>2, <1>3 DEF Consumed

\* The mailbox stays as it is, whatever is answered meanwhile.
LEMMA BoxKept ==
  ASSUME FrameInv, FrameInv', BoxInv, UNCHANGED <<box, delivered>>,
         Len(replied) <= Len(replied'),
         \A k \in DOMAIN replied : replied'[k] = replied[k],
         portOpen' => portOpen \/ box = <<>>, phase' = "new" => phase = "new"
  PROVE  BoxInv' /\ Consumed' = Consumed
<1>1. BoxData' = BoxData
  BY DEF BoxData
<1>2. Consumed' = Consumed
  BY <1>1 DEF Consumed
<1>3. delivered \in 0 .. Len(replied')
  <2>1. Len(replied') \in Nat
    BY DEF FrameInv
  <2> QED BY <2>1, BoxNat
<1>4. ASSUME NEW j \in 1 .. BoxData PROVE replied'[Consumed + j] = replied[Consumed + j]
  <2>1. Consumed + j \in 1 .. Len(replied)
    BY <1>4, BoxNat
  <2>2. Consumed + j \in DOMAIN replied
    BY <2>1 DEF FrameInv
  <2> QED BY <2>2
<1> QED BY <1>1, <1>2, <1>3, <1>4 DEF BoxInv

\* The owner takes the oldest message.
LEMMA BoxTaken ==
  ASSUME FrameInv, BoxInv, box # <<>>, box' = Tail(box), UNCHANGED <<delivered, replied>>,
         portOpen' => portOpen, phase' # "new"
  PROVE  /\ BoxInv'
         /\ Head(box).kind = "data" => Consumed' = Consumed + 1
         /\ Head(box).kind = "exit" => Consumed' = Consumed /\ box' = <<>> /\ ~portOpen'
<1> DEFINE n == Len(box)
<1>1. /\ Head(box) = box[1] /\ Head(box) \in Mail /\ n \in Nat /\ n >= 1
      /\ BoxData \in Nat /\ Consumed \in Nat /\ BoxData <= n
      /\ Head(box).kind = "exit" => n = 1 /\ BoxData = 0
      /\ Head(box).kind = "data" => BoxData >= 1
  BY BoxHead
<1>2. /\ box' \in Seq(Mail) /\ Len(box') = n - 1
      /\ \A i \in 1 .. n - 1 : box'[i] = box[i + 1]
  BY BoxNat, HeadTailProperties
<1>3. Head(box).kind \in {"data", "exit"}
  BY <1>1 DEF Mail
<1>4. CASE Head(box).kind = "exit"
  <2>1. n = 1 /\ BoxData = 0 /\ Len(box') = 0
    BY <1>1, <1>2, <1>4
  <2>2. box' = <<>>
    BY <1>2, <2>1
  <2>3. BoxData' = 0
    BY <2>1, <2>2 DEF BoxData
  <2>4. box[n].kind = "exit"
    BY <1>1, <1>4, <2>1
  <2>5. ~portOpen
    BY <2>4 DEF BoxInv
  <2>6. Consumed' = Consumed
    BY <2>1, <2>3 DEF Consumed
  <2>7. 0 <= delivered
    BY BoxNat
  <2> QED BY <1>2, <1>4, <2>2, <2>3, <2>5, <2>6, <2>7 DEF BoxInv
<1>5. CASE Head(box).kind = "data"
  <2>1. BoxData' = BoxData - 1
    <3>1. CASE n = 1
      <4>1. box' = <<>> /\ box[n].kind = "data" /\ Len(box') = 0
        BY <1>1, <1>2, <1>5, <3>1
      <4>2. BoxData = 1 /\ BoxData' = 0
        BY <3>1, <4>1 DEF BoxData
      <4> QED BY <4>2
    <3>2. CASE n # 1
      <4>1. n - 1 \in 1 .. n - 1 /\ (n - 1) + 1 = n /\ Len(box') # 0
        BY <1>1, <1>2, <3>2
      <4>2. box'[Len(box')] = box[n] /\ box' # <<>>
        BY <1>2, <4>1
      <4> QED BY <1>1, <1>2, <4>2 DEF BoxData
    <3> QED BY <3>1, <3>2
  <2>2. Consumed' = Consumed + 1
    BY <1>1, <2>1, BoxNat DEF Consumed
  <2>3. ASSUME NEW j \in 1 .. BoxData'
        PROVE  box'[j].kind = "data" /\ box'[j].reply = replied[Consumed' + j]
    <3>1. j + 1 \in 1 .. BoxData /\ j \in 1 .. n - 1
      BY <1>1, <2>1
    <3>2. box'[j] = box[j + 1]
      BY <1>2, <3>1
    <3>3. box[j + 1].kind = "data" /\ box[j + 1].reply = replied[Consumed + (j + 1)]
      BY <3>1 DEF BoxInv
    <3>4. Consumed + (j + 1) = Consumed' + j
      BY <1>1, <2>2, <3>1
    <3> QED BY <3>2, <3>3, <3>4
  <2>4. ASSUME box' # <<>>, box'[Len(box')].kind = "exit" PROVE ~portOpen
    <3>1. n - 1 \in 1 .. n - 1 /\ (n - 1) + 1 = n
      BY <1>1, <1>2, <2>4
    <3>2. box[n].kind = "exit"
      BY <1>2, <2>4, <3>1
    <3> QED BY <3>2 DEF BoxInv
  <2>5. BoxData' <= delivered /\ delivered \in 0 .. Len(replied)
    BY <1>1, <2>1, BoxNat
  <2> QED BY <1>2, <1>5, <2>2, <2>3, <2>4, <2>5 DEF BoxInv
<1> QED BY <1>3, <1>4, <1>5

\* The port passes a reply on.
LEMMA BoxFilled ==
  ASSUME FrameInv, BoxInv, PortData, phase # "new"
  PROVE  BoxInv' /\ Consumed' = Consumed
<1> DEFINE n == Len(box)
           d == [kind |-> "data", reply |-> replied[delivered + 1]]
<1>1. /\ portOpen /\ delivered < Len(replied) /\ box' = Append(box, d)
      /\ delivered' = delivered + 1 /\ replied' = replied /\ portOpen' = portOpen
      /\ phase' = phase
  BY DEF PortData, clientVars, hostVars
<1>2. n \in Nat /\ box \in Seq(Mail) /\ delivered \in Nat /\ Len(replied) \in Nat
      /\ replied \in Seq(Answer)
  BY BoxNat DEF FrameInv
<1>3. d \in Mail
  <2>1. replied[delivered + 1] \in Answer
    BY <1>1, <1>2
  <2> QED BY <2>1 DEF Mail
<1>4. d.kind = "data" /\ d.reply = replied[delivered + 1]
  OBVIOUS
<1> HIDE DEF d
<1>5. /\ box' \in Seq(Mail) /\ box' # <<>> /\ Len(box') = n + 1 /\ box'[n + 1] = d
      /\ \A i \in 1..n : box'[i] = box[i]
  BY <1>1, <1>2, <1>3, AppendProperties
<1>6. BoxData = n
  BY <1>1 DEF BoxData, BoxInv
<1>7. BoxData' = n + 1
  BY <1>4, <1>5 DEF BoxData
<1>8. Consumed' = Consumed
  BY <1>1, <1>2, <1>6, <1>7 DEF Consumed
<1>9. ASSUME NEW j \in 1 .. n + 1
      PROVE  box'[j].kind = "data" /\ box'[j].reply = replied[Consumed + j]
  <2>1. CASE j = n + 1
    <3>1. Consumed + j = delivered + 1
      BY <1>2, <1>6, <2>1 DEF Consumed
    <3> QED BY <1>4, <1>5, <2>1, <3>1
  <2>2. CASE j \in 1..n
    BY <1>5, <1>6, <2>2 DEF BoxInv
  <2> QED BY <1>2, <2>1, <2>2
<1>10. n + 1 <= delivered + 1 /\ delivered + 1 \in 0 .. Len(replied)
  BY <1>1, <1>2, <1>6, BoxNat
<1>11. box'[Len(box')].kind # "exit"
  BY <1>4, <1>5
<1> QED BY <1>1, <1>5, <1>7, <1>8, <1>9, <1>10, <1>11 DEF BoxInv

\* The port reports the host's end behind its replies.
LEMMA BoxEnds ==
  ASSUME FrameInv, BoxInv, PortExit, phase # "new"
  PROVE  BoxInv' /\ Consumed' = Consumed
<1> DEFINE n == Len(box)
           d == [kind |-> "exit", reply |-> Reply(NoId, FALSE, <<>>)]
<1>1. /\ portOpen /\ box' = Append(box, d) /\ delivered' = delivered
      /\ replied' = replied /\ ~portOpen' /\ phase' = phase
  BY DEF PortExit, clientVars, hostVars
<1>2. n \in Nat /\ box \in Seq(Mail)
  BY BoxNat
<1>3. d \in Mail /\ d.kind = "exit"
  BY DEF Mail, Reply, Answer, Values
<1> HIDE DEF d
<1>4. /\ box' \in Seq(Mail) /\ box' # <<>> /\ Len(box') = n + 1 /\ box'[n + 1] = d
      /\ \A i \in 1..n : box'[i] = box[i]
  BY <1>1, <1>2, <1>3, AppendProperties
<1>5. BoxData = n
  BY <1>1 DEF BoxData, BoxInv
<1>6. BoxData' = n
  BY <1>2, <1>3, <1>4 DEF BoxData
<1>7. Consumed' = Consumed
  BY <1>1, <1>5, <1>6 DEF Consumed
<1>8. \A j \in 1..n : box'[j].kind = "data" /\ box'[j].reply = replied[Consumed + j]
  BY <1>4, <1>5 DEF BoxInv
<1>9. n <= delivered /\ delivered \in 0 .. Len(replied)
  BY <1>5, BoxNat
<1> QED BY <1>1, <1>4, <1>6, <1>7, <1>8, <1>9 DEF BoxInv

\* A step that neither asks nor tells the owner anything.
LEMMA PairKept ==
  ASSUME PairInv, UNCHANGED <<phase, waiting, next, outcome, sent>>, Consumed' = Consumed,
         portOpen' => portOpen, box' # <<>> => portOpen \/ box # <<>>
  PROVE  PairInv'
<1>1. Timedout' = Timedout /\ Strayed' = Strayed /\ Pending' = Pending
  BY DEF Timedout, Strayed, Pending
<1>2. TimeoutIsFinal' /\ MismatchNeedsCause'
  BY DEF PairInv, TimeoutIsFinal, MismatchNeedsCause
<1> HIDE DEF Timedout, Strayed, Pending
<1> QED BY <1>1, <1>2 DEF PairInv

\* A request that is written takes the number of its frame.
LEMMA PairAsks ==
  ASSUME FrameInv, SentInv, ClientInv, BoxInv, PairInv,
         NEW m \in Msg, sent' = Append(sent, m), m.id = next, m.id # NoId,
         next' = next + 1, waiting' = next, UNCHANGED outcome, Consumed' = Consumed,
         waiting = NoId, phase # "closed", portOpen \/ phase = "new"
  PROVE  PairInv'
<1> DEFINE n == Len(sent)
<1>1. sent \in Seq(Msg) /\ n \in Nat /\ next \in Nat /\ Consumed \in Nat
  BY TakenNat, BoxNat, SessionAssumption DEF FrameInv, SentInv
<1>2. /\ sent' \in Seq(Msg) /\ Len(sent') = n + 1 /\ sent'[n + 1] = m
      /\ \A k \in 1..n : sent'[k] = sent[k]
  BY <1>1, AppendProperties
<1>3. DOMAIN sent = 1..n /\ DOMAIN sent' = 1 .. n + 1
  BY <1>1, <1>2
<1>4. Timedout' = Timedout /\ Pending = 0 /\ Pending' = 1
  BY DEF Timedout, Pending
<1>5. Strayed => Strayed'
  <2>1. ASSUME NEW k \in 1..n, sent[k].id = NoId PROVE Strayed'
    <3>1. k \in DOMAIN sent' /\ sent'[k].id = NoId
      BY <1>1, <1>2, <1>3, <2>1
    <3> QED BY <3>1 DEF Strayed
  <2> QED BY <1>3, <2>1 DEF Strayed
<1>6. Consumed <= next - 1 /\ (Timedout => Consumed + 1 <= next - 1)
  <2>1. Consumed + 0 <= next - 1 /\ (Timedout => Consumed + 0 + 1 <= next - 1)
    BY <1>4 DEF PairInv
  <2> QED BY <1>1, <2>1
<1>7. ASSUME ~Timedout, ~Strayed PROVE Consumed = next - 1 /\ n = next - 1
  <2>1. CASE phase = "new"
    <3>1. next = 1 /\ n = 0
      BY <2>1 DEF SentInv
    <3> QED BY <1>1, <1>6, <3>1
  <2>2. CASE portOpen
    <3>1. Consumed + 0 = next - 1 /\ n = next - 1
      BY <1>4, <1>7, <2>2 DEF PairInv
    <3> QED BY <1>1, <3>1
  <2> QED BY <2>1, <2>2
<1>8. ASSUME ~Strayed PROVE n = next - 1
  <2>1. CASE phase = "new"
    BY <1>1, <2>1 DEF SentInv
  <2>2. CASE portOpen
    BY <1>8, <2>2 DEF PairInv
  <2> QED BY <2>1, <2>2
<1>9. ASSUME ~Strayed' PROVE \A k \in DOMAIN sent' : sent'[k].id = k
  <2>1. ~Strayed /\ \A k \in 1..n : sent[k].id = k
    BY <1>3, <1>5, <1>9 DEF PairInv
  <2>2. next = n + 1
    BY <1>1, <1>8, <2>1
  <2> SUFFICES ASSUME NEW k \in 1 .. n + 1 PROVE sent'[k].id = k
    BY <1>3
  <2>3. k \in 1..n \/ k = n + 1
    BY <1>1
  <2> QED BY <1>2, <2>1, <2>2, <2>3
<1>10. TimeoutIsFinal'
  BY DEF PairInv, TimeoutIsFinal
<1>11. MismatchNeedsCause'
  BY <1>5 DEF PairInv, MismatchNeedsCause, Strayed
<1>12. Consumed' + Pending' <= next' - 1 /\ (Timedout' => Consumed' + Pending' + 1 <= next' - 1)
  BY <1>1, <1>4, <1>6
<1>13. ~Timedout' /\ ~Strayed' => Consumed' + Pending' = next' - 1
  BY <1>1, <1>4, <1>5, <1>7
<1>14. ~Strayed' => Len(sent') = next' - 1
  BY <1>1, <1>2, <1>5, <1>8
<1> QED BY <1>9, <1>10, <1>11, <1>12, <1>13, <1>14 DEF PairInv

\* A request that returns: a timeout puts the replies behind for good.
LEMMA PairReturns ==
  ASSUME FrameInv, SentInv, ClientInv, BoxInv, PairInv, waiting # NoId,
         NEW r, Returned(r),
         r.tag = "ok" => waiting <= Consumed + 1,
         r.tag = "mismatch" => /\ Consumed + 1 \in DOMAIN sent /\ box # <<>>
                               /\ sent[Consumed + 1].id # waiting,
         \/ r.tag = "timeout" /\ Consumed' = Consumed
         \/ r.tag # "timeout" /\ Consumed' = Consumed + 1 /\ box # <<>>
         \/ r.tag # "timeout" /\ Consumed' = Consumed /\ ~portOpen' /\ box' = <<>>
  PROVE  PairInv'
<1>1. /\ outcome' = [outcome EXCEPT ![waiting] = r] /\ waiting' = NoId
      /\ UNCHANGED <<next, sent>> /\ (portOpen' => portOpen)
  BY DEF Returned
<1>2. /\ waiting \in Ids /\ waiting = next - 1 /\ outcome \in [Ids -> Outcome]
      /\ phase # "closed" /\ outcome[waiting].tag = "none"
      /\ \A i \in Ids : outcome[i].tag # "none" => i < next
  BY DEF ClientInv
<1>3. next \in Nat /\ Consumed \in Nat /\ waiting \in Nat /\ \A i \in Ids : i \in Nat
  BY BoxNat, <1>2, SessionAssumption DEF SentInv, Ids
<1>4. outcome'[waiting] = r /\ \A i \in Ids : i # waiting => outcome'[i] = outcome[i]
  BY <1>1, <1>2
<1>5. Pending = 1 /\ Pending' = 0 /\ Strayed' = Strayed
  BY <1>1 DEF Pending, Strayed
<1>6. Consumed + 1 <= next - 1 /\ (Timedout => Consumed + 1 + 1 <= next - 1)
  BY <1>2, <1>5 DEF PairInv
<1>7. Timedout' <=> Timedout \/ r.tag = "timeout"
  BY <1>2, <1>4 DEF Timedout
<1>8. \A i \in Ids : outcome[i].tag = "timeout" => i < waiting /\ outcome'[i].tag = "timeout"
  <2> SUFFICES ASSUME NEW i \in Ids, outcome[i].tag = "timeout"
               PROVE  i < waiting /\ outcome'[i].tag = "timeout"
    OBVIOUS
  <2>1. i # waiting /\ i < next
    BY <1>2
  <2> QED BY <1>2, <1>3, <1>4, <2>1
<1>9. TimeoutIsFinal'
  <2> SUFFICES ASSUME NEW i \in Ids, NEW j \in Ids, i < j, outcome'[i].tag = "timeout",
                      outcome'[j].tag = "ok"
               PROVE  FALSE
    BY DEF TimeoutIsFinal
  <2>1. CASE j = waiting
    <3>1. r.tag = "ok" /\ i # waiting
      BY <1>3, <1>4, <2>1
    <3>2. Timedout
      BY <1>4, <3>1 DEF Timedout
    <3>3. waiting <= Consumed + 1 /\ Consumed + 1 + 1 <= waiting
      BY <1>2, <1>6, <3>1, <3>2
    <3> QED BY <1>3, <3>3
  <2>2. CASE j # waiting /\ i = waiting
    <3>1. outcome[j].tag = "ok"
      BY <1>4, <2>2
    <3>2. j < next
      BY <1>2, <3>1
    <3> QED BY <1>2, <1>3, <2>2, <3>2
  <2>3. CASE j # waiting /\ i # waiting
    BY <1>4, <2>3 DEF PairInv, TimeoutIsFinal
  <2> QED BY <2>1, <2>2, <2>3
<1>10. MismatchNeedsCause'
  <2> SUFFICES ASSUME NEW j \in Ids, outcome'[j].tag = "mismatch", ~Strayed
               PROVE  \E i \in Ids : i < j /\ outcome'[i].tag = "timeout"
    BY <1>1 DEF MismatchNeedsCause, Strayed
  <2>1. CASE j = waiting
    <3>1. r.tag = "mismatch"
      BY <1>4, <2>1
    <3>2. Timedout
      <4> SUFFICES ASSUME ~Timedout PROVE FALSE
        OBVIOUS
      <4>1. Consumed + 1 = next - 1 /\ \A k \in DOMAIN sent : sent[k].id = k
        BY <1>2, <1>5, <3>1 DEF PairInv
      <4> QED BY <1>2, <3>1, <4>1
    <3>3. PICK i \in Ids : outcome[i].tag = "timeout"
      BY <3>2 DEF Timedout
    <3> QED BY <1>8, <2>1, <3>3
  <2>2. CASE j # waiting
    <3>1. outcome[j].tag = "mismatch"
      BY <1>4, <2>2
    <3>2. PICK i \in Ids : i < j /\ outcome[i].tag = "timeout"
      BY <3>1 DEF PairInv, MismatchNeedsCause, Strayed
    <3> QED BY <1>8, <3>2
  <2> QED BY <2>1, <2>2
<1>11. Consumed' + Pending' <= next' - 1 /\ (Timedout' => Consumed' + Pending' + 1 <= next' - 1)
  <2>1. CASE r.tag = "timeout"
    BY <1>1, <1>3, <1>5, <1>6, <2>1
  <2>2. CASE r.tag # "timeout"
    BY <1>1, <1>3, <1>5, <1>6, <1>7, <2>2
  <2> QED BY <2>1, <2>2
<1>12. ASSUME ~Timedout', ~Strayed', portOpen' \/ box' # <<>>
       PROVE  Consumed' + Pending' = next' - 1
  <2>1. r.tag # "timeout" /\ ~Timedout /\ ~Strayed
    BY <1>5, <1>7, <1>12
  <2>2. Consumed' = Consumed + 1 /\ box # <<>>
    BY <1>12, <2>1
  <2>3. Consumed + 1 = next - 1
    BY <1>2, <1>5, <2>1, <2>2 DEF PairInv
  <2> QED BY <1>1, <1>3, <1>5, <2>2, <2>3
<1>13. /\ ~Strayed' => \A k \in DOMAIN sent' : sent'[k].id = k
       /\ ~Strayed' /\ portOpen' => Len(sent') = next' - 1
  BY <1>1, <1>5 DEF PairInv
<1> QED BY <1>9, <1>10, <1>11, <1>12, <1>13 DEF PairInv

\* The mailbox and the pairing after every step.
LEMMA MailStep ==
  ASSUME FrameInv, SentInv, HostInv, ClientInv, BoxInv, PairInv, [Next]_vars, FrameInv'
  PROVE  BoxInv' /\ PairInv'
<1>0. /\ next \in Nat /\ replied \in Seq(Answer) /\ Len(replied) \in Nat
      /\ phase \in {"new", "opening", "idle", "calling", "failed", "closing", "closed"}
      /\ waiting # NoId <=> phase \in {"opening", "calling", "closing"}
  BY TakenNat, SessionAssumption DEF FrameInv, SentInv, ClientInv
<1>1. ASSUME UNCHANGED <<replied, delivered, box>>, portOpen' => portOpen,
             phase' = "new" => phase = "new"
      PROVE  BoxInv' /\ Consumed' = Consumed
  BY <1>0, <1>1, BoxKept
<1>2. next <= MaxRequests => next # NoId
  BY <1>0 DEF SentInv, NoId
<1>3. CASE Open
  <2> DEFINE m == Message(next, "descriptor", "none", <<>>)
  <2>1. /\ phase = "new" /\ phase' = "opening" /\ sent' = Append(sent, m)
        /\ next <= MaxRequests /\ next' = next + 1 /\ waiting' = next
        /\ UNCHANGED <<outcome, box, delivered, replied>>
    BY <1>3 DEF Open, Request, WriteFrame
  <2>2. m \in Msg /\ m.id = next /\ m.id # NoId
    BY <1>2, <2>1, Messages DEF Message
  <2> HIDE DEF m
  <2>3. box = <<>> /\ waiting = NoId
    BY <2>1 DEF BoxInv, SentInv
  <2>4. BoxInv' /\ Consumed' = Consumed
    BY <1>0, <2>1, <2>3, BoxKept
  <2>5. PairInv'
    BY <2>1, <2>2, <2>3, <2>4, PairAsks
  <2> QED BY <2>4, <2>5
<1>4. ASSUME NEW c \in Calls, Call(c) PROVE BoxInv' /\ PairInv'
  <2>1. /\ phase = "idle" /\ Wellformed(c.fn, c.args) /\ phase' = "calling"
        /\ next <= MaxRequests /\ next' = next + 1 /\ waiting' = next
        /\ UNCHANGED <<outcome, box, portOpen, delivered, replied>>
    BY <1>4 DEF Call, Request, hostVars
  <2>2. BoxInv' /\ Consumed' = Consumed
    BY <1>1, <2>1
  <2>3. waiting = NoId
    BY <1>0, <2>1
  <2>4. CASE portOpen
    <3> DEFINE m == Message(next, "call", c.fn, c.args)
    <3>1. sent' = Append(sent, m)
      BY <1>4, <2>4 DEF Call, Request, WriteFrame
    <3>2. m \in Msg /\ m.id = next /\ m.id # NoId
      BY <1>2, <2>1, Messages DEF Message
    <3> HIDE DEF m
    <3>3. PairInv'
      BY <2>1, <2>2, <2>3, <2>4, <3>1, <3>2, PairAsks
    <3> QED BY <2>2, <3>3
  <2>5. CASE ~portOpen
    \* the request goes nowhere, but it may still be told of the host's end
    <3>1. sent' = sent
      BY <1>4, <2>5 DEF Call, Request, WriteFrame
    <3>2. /\ Timedout' = Timedout /\ Strayed' = Strayed /\ Pending = 0 /\ Pending' = 1
      BY <1>2, <2>1, <2>3, <3>1 DEF Timedout, Strayed, Pending
    <3>3. TimeoutIsFinal' /\ MismatchNeedsCause'
      BY <2>1, <3>1 DEF PairInv, TimeoutIsFinal, MismatchNeedsCause
    <3>4. Consumed \in Nat
      BY BoxNat
    <3>5. /\ Consumed + 0 <= next - 1 /\ (Timedout => Consumed + 0 + 1 <= next - 1)
          /\ ~Timedout /\ ~Strayed /\ box # <<>> => Consumed + 0 = next - 1
      BY <2>1, <3>2 DEF PairInv
    <3>6. /\ Consumed + 1 <= (next + 1) - 1 /\ (Timedout => Consumed + 1 + 1 <= (next + 1) - 1)
          /\ ~Timedout /\ ~Strayed /\ box # <<>> => Consumed + 1 = (next + 1) - 1
      BY <1>0, <3>4, <3>5
    <3>7. ~Strayed => \A k \in DOMAIN sent : sent[k].id = k
      BY DEF PairInv
    <3>8. PairInv'
      BY <2>1, <2>2, <2>5, <3>1, <3>2, <3>3, <3>6, <3>7 DEF PairInv
    <3> QED BY <2>2, <3>8
  <2> QED BY <2>4, <2>5
<1>5. CASE Close
  <2>1. phase \in {"idle", "failed"} /\ UNCHANGED <<outcome, box, portOpen, delivered, replied>>
        /\ phase' \in {"closing", "closed"}
    BY <1>5 DEF Close, hostVars
  <2>2. BoxInv' /\ Consumed' = Consumed
    BY <1>1, <2>1
  <2>3. waiting = NoId
    BY <1>0, <2>1
  <2>4. CASE portOpen
    <3> DEFINE m == Message(next, "close", "none", <<>>)
    <3>1. /\ sent' = Append(sent, m) /\ next <= MaxRequests /\ next' = next + 1
          /\ waiting' = next
      BY <1>5, <2>4 DEF Close, Request, WriteFrame
    <3>2. m \in Msg /\ m.id = next /\ m.id # NoId
      BY <1>2, <3>1, Messages DEF Message
    <3> HIDE DEF m
    <3>3. PairInv'
      BY <2>1, <2>2, <2>3, <2>4, <3>1, <3>2, PairAsks
    <3> QED BY <2>2, <3>3
  <2>5. CASE ~portOpen
    <3>1. UNCHANGED <<waiting, next, sent>> /\ phase' = "closed"
      BY <1>5, <2>5 DEF Close
    <3>2. TimeoutIsFinal' /\ MismatchNeedsCause' /\ Strayed' = Strayed
      BY <2>1, <3>1 DEF PairInv, TimeoutIsFinal, MismatchNeedsCause, Strayed
    <3>3. ~Strayed => \A k \in DOMAIN sent : sent[k].id = k
      BY DEF PairInv
    <3>4. PairInv'
      BY <2>1, <2>5, <3>1, <3>2, <3>3 DEF PairInv
    <3> QED BY <2>2, <3>4
  <2> QED BY <2>4, <2>5
<1>6. CASE Receive
  <2>1. waiting # NoId /\ box # <<>> /\ box' = Tail(box)
    BY <1>6 DEF Receive
  <2>2. PICK r \in Outcome :
           /\ Returned(r) /\ r.tag \in {"ok", "error", "mismatch", "exited"}
           /\ r.tag = "ok" => waiting <= Consumed + 1
           /\ r.tag = "mismatch" => /\ Consumed + 1 \in DOMAIN sent
                                    /\ sent[Consumed + 1].id # waiting
    BY <1>6, Receives
  <2>3. /\ UNCHANGED <<delivered, replied>> /\ (portOpen' => portOpen) /\ phase' # "new"
    BY <1>0, <2>1, <2>2 DEF Returned, hostVars
  <2>4. /\ BoxInv'
        /\ Head(box).kind = "data" => Consumed' = Consumed + 1
        /\ Head(box).kind = "exit" => Consumed' = Consumed /\ box' = <<>> /\ ~portOpen'
    BY <2>1, <2>3, BoxTaken
  <2>5. Head(box).kind \in {"data", "exit"}
    BY <2>1, BoxHead DEF Mail
  <2>6. PairInv'
    BY <2>1, <2>2, <2>4, <2>5, PairReturns
  <2> QED BY <2>4, <2>6
<1>7. CASE Timeout
  <2> DEFINE r == [tag |-> "timeout", value |-> <<>>]
  <2>1. waiting # NoId /\ Returned(r) /\ box' = box /\ r.tag = "timeout"
    BY <1>7 DEF Timeout
  <2> HIDE DEF r
  <2>2. UNCHANGED <<delivered, replied>> /\ (portOpen' => portOpen) /\ phase' # "new"
    BY <1>0, <2>1 DEF Returned, hostVars
  <2>3. BoxInv' /\ Consumed' = Consumed
    BY <1>1, <2>1, <2>2
  <2>4. PairInv'
    BY <2>1, <2>3, PairReturns
  <2> QED BY <2>3, <2>4
<1>8. CASE OwnerDies
  <2>1. /\ box' = <<>> /\ ~portOpen' /\ phase' = "closed" /\ UNCHANGED <<sent, delivered, replied>>
        /\ outcome' = [i \in Ids |-> None]
    BY <1>8 DEF OwnerDies, Ids, hostVars
  <2>2. BoxData' = 0 /\ box' \in Seq(Mail) /\ delivered \in 0 .. Len(replied) /\ 0 <= delivered
    BY <2>1, BoxNat DEF BoxData
  <2>3. BoxInv'
    BY <2>1, <2>2 DEF BoxInv
  <2>4. \A i \in Ids : outcome'[i].tag = "none"
    BY <2>1 DEF None
  <2>5. TimeoutIsFinal' /\ MismatchNeedsCause'
    BY <2>4 DEF TimeoutIsFinal, MismatchNeedsCause
  <2>6. Strayed' = Strayed /\ (~Strayed => \A k \in DOMAIN sent : sent[k].id = k)
    BY <2>1 DEF Strayed, PairInv
  <2>7. PairInv'
    BY <2>1, <2>5, <2>6 DEF PairInv
  <2> QED BY <2>3, <2>7
<1>9. CASE PortData \/ PortExit
  <2>1. /\ UNCHANGED <<phase, waiting, next, outcome, sent>> /\ portOpen
    BY <1>9 DEF PortData, PortExit, clientVars
  <2>2. phase # "new"
    BY <2>1 DEF SentInv
  <2>3. BoxInv' /\ Consumed' = Consumed
    BY <1>9, <2>2, BoxFilled, BoxEnds
  <2>4. PairInv'
    BY <2>1, <2>3, PairKept
  <2> QED BY <2>3, <2>4
<1>10. CASE Host
  <2>1. /\ UNCHANGED <<phase, waiting, next, outcome, box, portOpen, sent, delivered>>
        /\ Len(replied) <= Len(replied')
        /\ \A k \in DOMAIN replied : replied'[k] = replied[k]
    BY <1>10, HostAside
  <2>2. BoxInv' /\ Consumed' = Consumed
    BY <2>1, BoxKept
  <2>3. PairInv'
    BY <2>1, <2>2, PairKept
  <2> QED BY <2>2, <2>3
<1>11. ASSUME NEW op \in Strays, Stray(op) PROVE BoxInv' /\ PairInv'
  <2> DEFINE m == Message(NoId, op, "none", <<>>)
  <2>1. /\ sent' = Append(sent, m) /\ UNCHANGED <<phase, waiting, next, outcome>>
        /\ UNCHANGED <<box, portOpen, delivered, replied>>
    BY <1>11 DEF Stray, WriteFrame, clientVars, hostVars
  <2>2. BoxInv' /\ Consumed' = Consumed
    BY <1>1, <2>1
  <2>3. m \in Msg /\ m.id = NoId
    BY Messages DEF Message
  <2> HIDE DEF m
  <2>4. sent'[Len(sent) + 1].id = NoId /\ Len(sent) + 1 \in DOMAIN sent'
    <3>1. sent \in Seq(Msg) /\ Len(sent) \in Nat
      BY TakenNat DEF FrameInv
    <3>2. /\ sent' \in Seq(Msg) /\ Len(sent') = Len(sent) + 1 /\ sent'[Len(sent) + 1] = m
      BY <2>1, <2>3, <3>1, AppendProperties
    <3> QED BY <2>3, <3>1, <3>2
  <2>5. Strayed'
    BY <2>4 DEF Strayed
  <2>6. Timedout' = Timedout /\ Pending' = Pending
    BY <2>1 DEF Timedout, Pending
  <2>7. TimeoutIsFinal' /\ MismatchNeedsCause'
    BY <2>1, <2>5 DEF PairInv, TimeoutIsFinal, MismatchNeedsCause, Strayed
  <2>8. PairInv'
    BY <2>1, <2>2, <2>5, <2>6, <2>7 DEF PairInv
  <2> QED BY <2>2, <2>8
<1>12. CASE UNCHANGED vars
  <2>1. UNCHANGED <<phase, waiting, next, outcome, sent, box, portOpen, delivered, replied>>
    BY <1>12 DEF vars
  <2>2. BoxInv' /\ Consumed' = Consumed
    BY <1>1, <2>1
  <2> QED BY <2>1, <2>2, PairKept
<1> QED BY <1>3, <1>4, <1>5, <1>6, <1>7, <1>8, <1>9, <1>10, <1>11, <1>12
        DEF Next, Owner, Port

-----------------------------------------------------------------------------
(* The inductive invariant of a session. *)

SessionInv == FrameInv /\ SentInv /\ HostInv /\ ClientInv /\ BoxInv /\ PairInv

\* A session that has not begun.
LEMMA SessionInit == Init => SessionInv
<1> SUFFICES ASSUME Init PROVE SessionInv
  OBVIOUS
<1> USE SessionAssumption DEF Init
<1>1. FrameInv
  <2>1. Taken = 0 /\ <<>> \o <<>> = <<>>
    BY DEF Taken, Busy
  <2>2. Framed(<<>>, 0, <<>>)
    BY DEF Framed
  <2> QED BY <2>1, <2>2 DEF FrameInv
<1>2. SentInv
  <2>1. DOMAIN sent = {} /\ Len(sent) = 0
    OBVIOUS
  <2>2. 1 \in 1 .. MaxRequests + 1 /\ 0 >= 1 - 1
    OBVIOUS
  <2> QED BY <2>1, <2>2 DEF SentInv
<1>3. HostInv
  <2>1. Sound(inst)
    BY FS_EmptySet DEF Sound, NewInstance, Live
  <2>2. CallInv
    BY DEF CallInv, Busy, NoCall
  <2> QED BY <2>1, <2>2 DEF HostInv, ReplyInv
<1>4. \A i \in Ids : outcome[i].tag = "none"
  BY DEF Ids, None
<1>5. ClientInv
  <2>1. None \in Outcome
    BY DEF None, Outcome, Outcomes, Values
  <2>2. outcome \in [Ids -> Outcome]
    BY <2>1 DEF Ids
  <2> QED BY <1>4, <2>2 DEF ClientInv, ErrorMeansTrap
<1>6. BoxInv
  BY DEF BoxInv, BoxData
<1>7. PairInv
  <2>1. Consumed = 0 /\ Pending = 0
    <3>1. BoxData = 0
      BY DEF BoxData
    <3> QED BY <3>1 DEF Consumed, Pending
  <2>2. ~Timedout
    BY <1>4 DEF Timedout
  <2>3. TimeoutIsFinal /\ MismatchNeedsCause
    BY <1>4 DEF TimeoutIsFinal, MismatchNeedsCause
  <2> QED BY <2>1, <2>2, <2>3 DEF PairInv
<1> QED BY <1>1, <1>2, <1>3, <1>5, <1>6, <1>7 DEF SessionInv

\* Every step keeps the invariant.
LEMMA SessionStep == SessionInv /\ [Next]_vars => SessionInv'
<1> SUFFICES ASSUME SessionInv, [Next]_vars PROVE SessionInv'
  OBVIOUS
<1>1. FrameInv'
  BY FrameStep DEF SessionInv
<1>2. SentInv' /\ HostInv' /\ ClientInv'
  BY SentStep, HostStep, ClientStep DEF SessionInv
<1>3. BoxInv' /\ PairInv'
  BY <1>1, MailStep DEF SessionInv
<1> QED BY <1>1, <1>2, <1>3 DEF SessionInv

\* The inductive invariant of a session.
LEMMA SessionHolds == Spec => []SessionInv
BY SessionInit, SessionStep, PTL DEF Spec

-----------------------------------------------------------------------------
(* What the instance holds. *)

\* The engine runs, or has not begun to: it does not hang.
Serving == host \notin {"hung", "exited"}

\* What is on the heap for the call being made: a block of its own for each
\* argument put so far, then the result and the padding of the arguments.
Holds ==
  CASE host = "put"    -> Len(cur.flat)
    [] host = "result" -> Cardinality(Padding(cur.args)) + 1
    [] OTHER           -> 0

\* No two arguments share a block, and the result has one that is not freed.
Apart ==
  /\ host = "put" =>
       \A x, y \in DOMAIN cur.flat : cur.flat[x] = cur.flat[y] => x = y
  /\ host = "result" => cur.ret \in Live(inst)

\* Only a call that was answered, with an error, is one the engine trapped in;
\* the stack and the heap hold what those left, and what the call being made
\* has of its own.
BalanceInv ==
  /\ \A i \in trapped : \E k \in DOMAIN replied : sent[k].id = i
  /\ Serving =>
       /\ Apart
       /\ inst.sp = Cardinality(Torn) + (IF Busy THEN 1 ELSE 0)
       /\ Cardinality(Live(inst)) = Cardinality(Left) + Holds

\* Only frames that were answered are counted, and only finitely many.
LEMMA LeftSorts ==
  ASSUME FrameInv
  PROVE  /\ Answered \subseteq 1 .. Len(replied) /\ Torn \subseteq Answered
         /\ IsFiniteSet(Torn) /\ IsFiniteSet(Left)
         /\ \A b : b \in Left <=> \E k \in Answered : \E x \in LeftBy(k) : b = <<k, x>>
         /\ \A b \in Left : b[1] \in Answered
<1>1. /\ Len(replied) \in Nat /\ Answered \subseteq 1 .. Len(replied) /\ Torn \subseteq Answered
      /\ Len(replied) <= Len(sent) /\ sent \in Seq(Msg) /\ Len(sent) \in Nat
  BY TakenNat DEF FrameInv, Answered, Torn, Taken
<1>2. IsFiniteSet(1 .. Len(replied))
  BY <1>1, FS_Interval
<1>3. IsFiniteSet(Answered) /\ IsFiniteSet(Torn)
  BY <1>1, <1>2, FS_Subset
<1>4. ASSUME NEW k \in Answered PROVE IsFiniteSet({k} \X LeftBy(k))
  <2>1. sent[k] \in Msg
    BY <1>1
  <2>2. sent[k].args \in Seq(Strings)
    BY <2>1 DEF Msg
  <2>3. Len(sent[k].args) \in Nat /\ DOMAIN sent[k].args = 1 .. Len(sent[k].args)
    BY <2>2
  <2>4. IsFiniteSet(DOMAIN sent[k].args)
    BY <2>3, FS_Interval
  <2>5. LeftBy(k) \subseteq DOMAIN sent[k].args
    BY DEF LeftBy, Padding
  <2>6. IsFiniteSet(LeftBy(k)) /\ IsFiniteSet({k})
    BY <2>4, <2>5, FS_Subset, FS_Singleton
  <2> QED BY <2>6, FS_Product
<1> DEFINE P == {{k} \X LeftBy(k) : k \in Answered}
<1>5. IsFiniteSet(P)
  <2> DEFINE f == [k \in Answered |-> {k} \X LeftBy(k)]
  <2>1. f \in [Answered -> P] /\ \A T \in P : \E k \in Answered : f[k] = T
    OBVIOUS
  <2> HIDE DEF f, P
  <2>2. f \in Surjection(Answered, P)
    BY <2>1 DEF Surjection
  <2> QED BY <1>3, <2>2, FS_Surjection
<1>6. IsFiniteSet(Left)
  <2>1. \A T \in P : IsFiniteSet(T)
    BY <1>4
  <2> HIDE DEF P
  <2>2. IsFiniteSet(UNION P)
    BY <1>5, <2>1, FS_UNION
  <2> QED BY <2>2 DEF P, Left
<1>7. \A b : b \in Left <=> \E k \in Answered : \E x \in LeftBy(k) : b = <<k, x>>
  BY DEF Left
<1> QED BY <1>1, <1>3, <1>6, <1>7

\* What was left behind stays the same as long as the answers do.
LEMMA LeftStays ==
  ASSUME FrameInv, replied' = replied, trapped' = trapped,
         \A k \in DOMAIN replied : sent'[k] = sent[k]
  PROVE  Answered' = Answered /\ Torn' = Torn /\ Left' = Left
<1>1. Answered' = Answered
  BY DEF Answered
<1>2. \A k \in Answered : sent'[k] = sent[k]
  BY DEF Answered
<1>3. Torn' = Torn
  BY <1>1, <1>2 DEF Torn
<1>4. \A k \in Answered : LeftBy(k)' = LeftBy(k)
  BY <1>2, <1>3 DEF LeftBy, Padding
<1> QED BY <1>1, <1>3, <1>4 DEF Left

\* A frame that is no call of the owner's leaves nothing behind.
LEMMA OtherLeavesNothing ==
  ASSUME FrameInv, NEW r, replied' = Append(replied, r), sent' = sent, trapped' = trapped,
         sent[Len(replied) + 1].op # "call" \/ sent[Len(replied) + 1].id = NoId
  PROVE  Answered' = Answered /\ Torn' = Torn /\ Left' = Left
<1> DEFINE n == Len(replied) + 1
<1>1. replied \in Seq(Answer) /\ Len(replied) \in Nat
  BY TakenNat DEF FrameInv
<1>2. DOMAIN replied' = DOMAIN replied \cup {n}
  BY <1>1
<1>3. Answered' = Answered
  BY <1>2 DEF Answered
<1>4. Torn' = Torn
  BY <1>3 DEF Torn
<1>5. \A k \in Answered : LeftBy(k)' = LeftBy(k)
  BY <1>4 DEF LeftBy, Padding
<1> QED BY <1>3, <1>4, <1>5 DEF Left

\* A call that is answered leaves its arguments behind when the engine trapped
\* in it, and the padding of them when it did not; what was there stays.
LEMMA CallLeaves ==
  ASSUME FrameInv, SentInv, BalanceInv, NEW n \in DOMAIN sent, n = Len(replied) + 1,
         NEW r, replied' = Append(replied, r), sent' = sent,
         sent[n].op = "call", sent[n].id # NoId,
         trapped' = trapped \/ trapped' = trapped \cup {sent[n].id}
  PROVE  LET torn == trapped' # trapped
             d    == IF torn THEN DOMAIN sent[n].args ELSE Padding(sent[n].args)
         IN  /\ Cardinality(Torn') = Cardinality(Torn) + (IF torn THEN 1 ELSE 0)
             /\ Cardinality(Left') = Cardinality(Left) + Cardinality(d)
             /\ Cardinality(d) \in Nat
<1> DEFINE torn == trapped' # trapped
           args == sent[n].args
           d    == IF torn THEN DOMAIN args ELSE Padding(args)
<1>1. /\ replied \in Seq(Answer) /\ Len(replied) \in Nat
      /\ Answered \subseteq 1 .. Len(replied) /\ Torn \subseteq Answered
      /\ IsFiniteSet(Torn) /\ IsFiniteSet(Left) /\ n \notin Answered
      /\ sent \in Seq(Msg) /\ DOMAIN replied \subseteq DOMAIN sent
  <2>1. Len(replied) <= Len(sent) /\ Len(sent) \in Nat
    BY TakenNat DEF FrameInv, Taken
  <2> QED BY <2>1, TakenNat, LeftSorts DEF FrameInv
<1>2. \A k \in DOMAIN replied : sent[k].id # sent[n].id
  <2>1. \A k \in DOMAIN replied : k # n
    BY <1>1
  <2> QED BY <1>1, <2>1 DEF SentInv
<1>3. sent[n].id \notin trapped
  BY <1>2 DEF BalanceInv
<1>4. DOMAIN replied' = DOMAIN replied \cup {n}
  BY <1>1
<1>5. Answered' = Answered \cup {n}
  BY <1>4 DEF Answered
<1>6. \A k \in Answered : sent[k].id \in trapped' <=> sent[k].id \in trapped
  BY <1>2 DEF Answered
<1>7. sent[n].id \in trapped' <=> torn
  BY <1>3
<1>8. Torn' = Torn \cup (IF torn THEN {n} ELSE {})
  BY <1>5, <1>6, <1>7 DEF Torn
<1>9. Cardinality(Torn') = Cardinality(Torn) + (IF torn THEN 1 ELSE 0)
  <2>1. Cardinality(Torn) \in Nat /\ n \notin Torn
    BY <1>1, FS_CardinalityType
  <2>2. CASE torn
    <3>1. Torn' = Torn \cup {n}
      BY <1>8, <2>2
    <3> QED BY <1>1, <2>1, <2>2, <3>1, FS_AddElement
  <2>3. CASE ~torn
    BY <1>8, <2>1, <2>3
  <2> QED BY <2>2, <2>3
<1>10. \A k \in Answered : LeftBy(k)' = LeftBy(k)
  <2>1. \A k \in Answered : k \in Torn' <=> k \in Torn
    BY <1>1, <1>8
  <2> QED BY <2>1 DEF LeftBy, Padding
<1>11. LeftBy(n)' = d
  <2>1. n \in Torn' <=> torn
    BY <1>1, <1>8
  <2> QED BY <2>1 DEF LeftBy, Padding
<1>12. IsFiniteSet(d)
  <2>1. args \in Seq(Strings)
    <3>1. sent[n] \in Msg
      BY <1>1
    <3> QED BY <3>1 DEF Msg
  <2>2. IsFiniteSet(DOMAIN args)
    <3>1. DOMAIN args = 1 .. Len(args) /\ Len(args) \in Nat
      BY <2>1
    <3> QED BY <3>1, FS_Interval
  <2>3. d \subseteq DOMAIN args
    BY DEF Padding
  <2> QED BY <2>2, <2>3, FS_Subset
<1> DEFINE e == {n} \X d
<1>13. Left' = Left \cup e
  <2> DEFINE g(k) == LeftBy(k)'
  <2>1. Left' = UNION {{k} \X g(k) : k \in Answered'}
    BY DEF Left
  <2>2. (\A k \in Answered : g(k) = LeftBy(k)) /\ g(n) = d
    BY <1>10, <1>11
  <2> HIDE DEF g, d
  <2>3. \A b : b \in Left' <=> \E k \in Answered' : \E x \in g(k) : b = <<k, x>>
    BY <2>1
  <2>4. \A b : b \in Left <=> \E k \in Answered : \E x \in LeftBy(k) : b = <<k, x>>
    BY LeftSorts
  <2>5. \A b : b \in e <=> \E x \in d : b = <<n, x>>
    OBVIOUS
  <2>6. \A b : b \in Left' <=> b \in Left \/ b \in e
    <3> HIDE DEF e
    <3> QED BY <1>5, <2>2, <2>3, <2>4, <2>5
  <2> HIDE DEF e
  <2> QED BY <2>6
<1> HIDE DEF d
<1>14. IsFiniteSet(e) /\ Cardinality(e) = Cardinality(d) /\ Cardinality(d) \in Nat
  <2>1. IsFiniteSet({n}) /\ Cardinality({n}) = 1 /\ Cardinality(d) \in Nat
    BY <1>12, FS_Singleton, FS_CardinalityType
  <2> QED BY <1>12, <2>1, FS_Product
<1>15. Left \cap e = {}
  BY <1>1, LeftSorts
<1>16. Cardinality(Left') = Cardinality(Left) + Cardinality(d)
  <2>1. Cardinality(Left) \in Nat /\ Cardinality({}) = 0
    BY <1>1, FS_CardinalityType, FS_EmptySet
  <2> HIDE DEF e
  <2>2. Cardinality(Left \cup e)
          = Cardinality(Left) + Cardinality(e) - Cardinality(Left \cap e)
    BY <1>1, <1>14, FS_Union
  <2>3. Cardinality(Left \cap e) = 0
    BY <1>15, <2>1
  <2> QED BY <1>13, <1>14, <2>1, <2>2, <2>3
<1> QED BY <1>9, <1>14, <1>16 DEF d

\* An argument that is put takes one block more, which no other one has.
LEMMA PutTakesBlock ==
  ASSUME SessionInv, PutArgument
  PROVE  LET a == Fresh(inst)
         IN  /\ a \notin Live(inst) /\ Live(inst') = Live(inst) \cup {a}
             /\ inst'.sp = inst.sp
             /\ cur'.flat = Append(cur.flat, a) /\ cur'.args = cur.args
             /\ host = "put" /\ UNCHANGED <<host, sent, replied, trapped>>
<1> DEFINE a == Fresh(inst)
<1>1. PICK grow \in MayGrow :
        /\ inst' = Store(Malloc(inst, grow), a, Bytes(cur.args[Len(cur.flat) + 1]))
        /\ cur' = [cur EXCEPT !.flat = Append(@, a)]
        /\ UNCHANGED <<host, replied, trapped>>
  BY PutArrives
<1>2. host = "put" /\ sent' = sent
  BY DEF PutArgument, wireVars
<1>3. Sound(inst) /\ cur = [id |-> cur.id, fn |-> cur.fn, args |-> cur.args,
                            flat |-> cur.flat, ret |-> cur.ret]
  BY DEF SessionInv, HostInv, CallInv
<1>4. a \notin Live(inst)
  BY <1>3, FreshIsNew DEF Sound
<1> DEFINE i == Store(inst, a, Junk)
           j == Grown(i, grow)
<1>5. Sound(i) /\ Live(i) = Live(inst) \cup {a} /\ i.sp = inst.sp
  BY <1>3, StoreKeeps
<1>6. Malloc(inst, grow) = j
  BY DEF Malloc
<1> HIDE DEF i, a
<1>7. Sound(j) /\ Live(j) = Live(i) /\ j.sp = i.sp
  BY <1>5, GrowKeeps DEF Live
<1> HIDE DEF j
<1>8. Live(inst') = Live(j) \cup {a} /\ inst'.sp = j.sp
  BY <1>1, <1>6, <1>7, StoreKeeps
<1>9. cur'.flat = Append(cur.flat, a) /\ cur'.args = cur.args
  BY <1>1, <1>3
<1> QED BY <1>1, <1>2, <1>4, <1>5, <1>7, <1>8, <1>9 DEF a

\* The blocks of distinct arguments are as many as the arguments.
LEMMA BlocksApart ==
  ASSUME NEW f, NEW S, S \subseteq DOMAIN f, IsFiniteSet(S),
         \A x, y \in DOMAIN f : f[x] = f[y] => x = y
  PROVE  /\ IsFiniteSet({f[x] : x \in S})
         /\ Cardinality({f[x] : x \in S}) = Cardinality(S)
<1> DEFINE T == {f[x] : x \in S}
           g == [x \in S |-> f[x]]
<1>1. g \in [S -> T] /\ (\A t \in T : \E x \in S : g[x] = t)
      /\ DOMAIN g = S /\ \A x, y \in S : g[x] = g[y] => x = y
  OBVIOUS
<1> HIDE DEF g, T
<1>2. g \in Bijection(S, T)
  BY <1>1 DEF Bijection, Injection, Surjection, IsInjective
<1>3. ExistsBijection(S, T)
  BY <1>2 DEF ExistsBijection
<1> QED BY <1>3, FS_Bijection DEF T

\* The engine frees the blocks it was given bytes of, keeps the padding, and
\* takes a block of its own for the result.
LEMMA ReturnTakesBlock ==
  ASSUME SessionInv, BalanceInv, EngineReturns
  PROVE  /\ cur'.ret \in Live(inst') /\ inst'.sp = inst.sp /\ cur'.args = cur.args
         /\ host = "put" /\ host' = "result" /\ UNCHANGED <<sent, replied, trapped>>
         /\ Cardinality(Live(inst')) + Len(cur.args)
              = Cardinality(Live(inst)) + Cardinality(Padding(cur.args)) + 1
         /\ Len(cur.flat) = Len(cur.args) /\ Len(cur.args) \in Nat
         /\ Cardinality(Padding(cur.args)) \in Nat
<1> DEFINE full  == {x \in DOMAIN cur.flat : cur.args[x] # Empty}
           owned == {cur.flat[k] : k \in full}
           after == FreeAll(inst, owned)
           a == Fresh(after)
           d == Digest(cur.fn, [k \in DOMAIN cur.flat |-> inst.heap[cur.flat[k]]])
           j == Store(after, a, d)
<1>1. /\ host = "put" /\ Len(cur.flat) = Len(cur.args) /\ host' = "result"
      /\ sent' = sent /\ replied' = replied /\ trapped' = trapped
  BY DEF EngineReturns, wireVars
<1>2. PICK grow \in MayGrow : inst' = Grown(j, grow) /\ cur' = [cur EXCEPT !.ret = a]
  BY DEF EngineReturns
<1>3. /\ Sound(inst) /\ cur.flat \in Seq(Live(inst))
      /\ cur = [id |-> cur.id, fn |-> cur.fn, args |-> cur.args,
                flat |-> cur.flat, ret |-> cur.ret]
      /\ \A x, y \in DOMAIN cur.flat : cur.flat[x] = cur.flat[y] => x = y
  BY <1>1 DEF SessionInv, HostInv, CallInv, BalanceInv, Serving, Apart
<1>4. cur.args \in Seq(Strings)
  BY <1>1, CallIsRequest DEF SessionInv, Busy
<1>5. /\ DOMAIN cur.flat = DOMAIN cur.args /\ Len(cur.args) \in Nat
      /\ IsFiniteSet(DOMAIN cur.args) /\ Cardinality(DOMAIN cur.args) = Len(cur.args)
  <2>1. DOMAIN cur.args = 1 .. Len(cur.args) /\ Len(cur.args) \in Nat
    BY <1>4
  <2>2. DOMAIN cur.flat = 1 .. Len(cur.flat)
    BY <1>3
  <2>3. IsFiniteSet(1 .. Len(cur.args)) /\ Cardinality(1 .. Len(cur.args)) = Len(cur.args)
    BY <2>1, FS_Interval
  <2> QED BY <1>1, <2>1, <2>2, <2>3
<1>6. /\ IsFiniteSet(full) /\ Cardinality(full) \in Nat
      /\ Cardinality(Padding(cur.args)) \in Nat
      /\ Cardinality(full) + Cardinality(Padding(cur.args)) = Len(cur.args)
  <2> DEFINE pad == Padding(cur.args)
  <2>1. full \cup pad = DOMAIN cur.args /\ full \cap pad = {}
    BY <1>5 DEF Padding
  <2> HIDE DEF full, pad
  <2>2. full \subseteq DOMAIN cur.args /\ pad \subseteq DOMAIN cur.args
    BY <2>1
  <2>3. IsFiniteSet(full) /\ IsFiniteSet(pad)
    BY <1>5, <2>2, FS_Subset
  <2>4. Cardinality(full) \in Nat /\ Cardinality(pad) \in Nat
    BY <2>3, FS_CardinalityType
  <2>5. Cardinality(full \cup pad)
          = Cardinality(full) + Cardinality(pad) - Cardinality(full \cap pad)
    BY <2>3, FS_Union
  <2>6. Cardinality(full \cap pad) = 0
    BY <2>1, FS_EmptySet
  <2>7. Cardinality(full \cup pad) = Len(cur.args)
    BY <1>5, <2>1
  <2>8. Cardinality(full) + Cardinality(pad) = Len(cur.args)
    <3> HIDE DEF full, pad
    <3>1. \A p, q, u, v \in Nat : u = p + q - v /\ v = 0 => p + q = u
      OBVIOUS
    <3>2. Cardinality(full \cup pad) \in Nat
      BY <1>5, <2>7
    <3>3. Cardinality(full \cap pad) \in Nat
      BY <2>6
    <3> QED BY <2>4, <2>5, <2>6, <2>7, <3>1, <3>2, <3>3
  <2> QED BY <2>3, <2>4, <2>8 DEF pad
<1>7. IsFiniteSet(owned) /\ Cardinality(owned) = Cardinality(full) /\ owned \subseteq Live(inst)
  <2>1. full \subseteq DOMAIN cur.flat
    OBVIOUS
  <2>2. owned \subseteq Live(inst)
    BY <1>3
  <2> HIDE DEF full
  <2> QED BY <1>3, <1>6, <2>1, <2>2, BlocksApart
<1> HIDE DEF owned
<1>8. Sound(after) /\ Live(after) = Live(inst) \ owned /\ after.sp = inst.sp
  BY <1>3, FreeKeeps
<1>9. /\ IsFiniteSet(Live(after)) /\ Cardinality(Live(inst)) \in Nat
      /\ Cardinality(Live(after)) = Cardinality(Live(inst)) - Cardinality(full)
  <2>1. IsFiniteSet(Live(inst)) /\ Live(inst) \cap owned = owned
    BY <1>3, <1>7 DEF Sound
  <2>2. Cardinality(Live(inst) \ owned) = Cardinality(Live(inst)) - Cardinality(owned)
    BY <2>1, FS_Difference
  <2>3. Cardinality(Live(inst)) \in Nat
    BY <2>1, FS_CardinalityType
  <2> QED BY <1>7, <1>8, <2>2, <2>3 DEF Sound
<1> HIDE DEF after, d
<1>10. a \notin Live(after)
  BY <1>9, FreshIsNew
<1> HIDE DEF a
<1>11. Sound(j) /\ Live(j) = Live(after) \cup {a} /\ j.sp = after.sp
  BY <1>8, StoreKeeps
<1>12. Cardinality(Live(after) \cup {a}) = Cardinality(Live(after)) + 1
  BY <1>9, <1>10, FS_AddElement
<1> HIDE DEF j
<1>13. Live(inst') = Live(after) \cup {a} /\ inst'.sp = inst.sp
  BY <1>2, <1>8, <1>11, GrowKeeps DEF Live
<1>14. cur'.ret = a /\ cur'.args = cur.args
  BY <1>2, <1>3
<1>15. Cardinality(Live(inst')) = Cardinality(Live(inst)) - Cardinality(full) + 1
  BY <1>9, <1>12, <1>13
<1> HIDE DEF full
<1> QED BY <1>1, <1>5, <1>6, <1>9, <1>13, <1>14, <1>15

\* The engine traps in calls that are answered, and in no other.
LEMMA TrapsAnswered ==
  ASSUME SessionInv, BalanceInv, [Next]_vars
  PROVE  \A i \in trapped' : \E k \in DOMAIN replied' : sent'[k].id = i
<1>0. /\ sent \in Seq(Msg) /\ replied \in Seq(Answer) /\ Len(replied) \in Nat
      /\ Len(sent) \in Nat /\ Len(replied) <= Len(sent)
  BY TakenNat DEF SessionInv, FrameInv, Taken
<1>1. \A i \in trapped : \E k \in DOMAIN replied : sent[k].id = i
  BY DEF BalanceInv
<1>2. ASSUME trapped' = trapped, DOMAIN replied \subseteq DOMAIN replied',
             \A k \in DOMAIN replied : sent'[k] = sent[k]
      PROVE  \A i \in trapped' : \E k \in DOMAIN replied' : sent'[k].id = i
  BY <1>1, <1>2
<1>3. CASE Aside
  BY <1>2, <1>3 DEF Aside
<1>4. CASE UNCHANGED vars
  BY <1>3, <1>4 DEF vars, Aside
<1>5. ASSUME NEW m \in Msg, Writes(m)
      PROVE  \A i \in trapped' : \E k \in DOMAIN replied' : sent'[k].id = i
  <2>1. sent' = Append(sent, m) /\ replied' = replied /\ trapped' = trapped
    BY <1>5 DEF Writes
  <2>2. \A k \in 1 .. Len(sent) : sent'[k] = sent[k]
    BY <1>0, <2>1
  <2>3. \A k \in DOMAIN replied : k \in 1 .. Len(sent)
    BY <1>0
  <2> QED BY <1>2, <2>1, <2>2, <2>3
<1>6. CASE EngineTraps
  <2>1. /\ trapped' = trapped \cup {cur.id} /\ sent' = sent
        /\ replied' = Append(replied, Reply(cur.id, FALSE, <<>>)) /\ Busy
    BY <1>6 DEF EngineTraps, Abandon, Respond, wireVars, Busy
  <2>2. cur.id = sent[Len(replied) + 1].id
    BY <2>1, CallIsRequest DEF SessionInv
  <2>3. DOMAIN replied' = DOMAIN replied \cup {Len(replied) + 1}
    BY <1>0, <2>1
  <2> QED BY <1>1, <2>1, <2>2, <2>3
<1>7. ASSUME Host, ~EngineTraps
      PROVE  trapped' = trapped /\ sent' = sent /\ DOMAIN replied \subseteq DOMAIN replied'
  <2>1. trapped' = trapped
    <3>1. CASE PutArgument
      BY <3>1, PutArrives
    <3>2. CASE FinishCall
      BY <3>2, FinishReads DEF FinishCall
    <3> QED BY <1>7, <3>1, <3>2
          DEF Host, Boot, Data, NeedMore, TakeRefused, TakeNull, TakeDescriptor, TakeClose,
              TakeCall, EngineReturns, EngineHangs, End
  <2>2. /\ sent' = sent /\ Len(replied) <= Len(replied')
        /\ \A k \in DOMAIN replied : replied'[k] = replied[k]
    BY <1>7, HostAside DEF SessionInv
  <2>3. replied' \in Seq(Answer)
    BY <1>7, HostKeepsFrames DEF SessionInv, FrameInv
  <2> QED BY <1>0, <2>1, <2>2, <2>3
<1>8. CASE Next
  <2>1. (\E m \in Msg : Writes(m)) \/ Aside \/ Host
    BY <1>8, StepKinds DEF SessionInv
  <2> QED BY <1>2, <1>3, <1>5, <1>6, <1>7, <2>1
<1> QED BY <1>4, <1>8

\* Where no call is answered and no block taken, the balance stands.
LEMMA QuietBalance ==
  ASSUME SessionInv, BalanceInv, [Next]_vars, Serving,
         Torn' = Torn, Left' = Left, inst' = inst,
         \/ host' = host /\ cur' = cur
         \/ ~Busy /\ ~Busy'
  PROVE  BalanceInv'
<1>1. Apart /\ inst.sp = Cardinality(Torn) + (IF Busy THEN 1 ELSE 0)
      /\ Cardinality(Live(inst)) = Cardinality(Left) + Holds
  BY DEF BalanceInv
<1>2. Live(inst)' = Live(inst)
  BY DEF Live
<1>3. Busy' = Busy /\ Apart' /\ Holds' = Holds
  <2>1. CASE host' = host /\ cur' = cur
    BY <1>1, <1>2, <2>1 DEF Busy, Apart, Holds, Live
  <2>2. CASE ~Busy /\ ~Busy'
    BY <2>2 DEF Busy, Apart, Holds
  <2> QED BY <2>1, <2>2
<1>4. Cardinality(Live(inst)') = Cardinality(Left') + Holds'
  BY <1>1, <1>2, <1>3
<1>5. inst'.sp = Cardinality(Torn') + (IF Busy' THEN 1 ELSE 0)
  BY <1>1, <1>3
<1> QED BY <1>3, <1>4, <1>5, TrapsAnswered DEF BalanceInv

\* The balance stands after every step of the host.
LEMMA HostBalance ==
  ASSUME SessionInv, BalanceInv, Host
  PROVE  BalanceInv'
<1>0. /\ replied \in Seq(Answer) /\ Len(replied) \in Nat /\ [Next]_vars
      /\ IsFiniteSet(Torn) /\ Cardinality(Torn) \in Nat
      /\ IsFiniteSet(Left) /\ Cardinality(Left) \in Nat
      /\ Sound(inst) /\ IsFiniteSet(Live(inst)) /\ inst.sp \in Nat
      /\ Cardinality(Live(inst)) \in Nat
  BY TakenNat, LeftSorts, FS_CardinalityType
     DEF SessionInv, FrameInv, HostInv, Sound, Next
<1>1. /\ Serving => Apart
      /\ Serving => inst.sp = Cardinality(Torn) + (IF Busy THEN 1 ELSE 0)
      /\ Serving => Cardinality(Live(inst)) = Cardinality(Left) + Holds
  BY DEF BalanceInv
<1>2. CASE ~Serving'
  BY <1>0, <1>2, TrapsAnswered DEF BalanceInv
<1>3. CASE Boot \/ Data \/ NeedMore \/ End \/ EngineHangs \/ TakeNull \/ TakeClose
  <2>1. CASE End \/ EngineHangs \/ TakeNull \/ TakeClose
    <3>1. ~Serving'
      BY <2>1 DEF End, EngineHangs, TakeNull, TakeClose, Serving
    <3> QED BY <1>2, <3>1
  <2>2. CASE Boot \/ Data \/ NeedMore
    <3>1. /\ UNCHANGED <<replied, sent, trapped, inst>> /\ Serving
          /\ ~Busy /\ ~Busy'
      BY <2>2 DEF Boot, Data, NeedMore, wireVars, Serving, Busy
    <3>2. Torn' = Torn /\ Left' = Left
      BY <3>1, LeftStays DEF SessionInv
    <3> QED BY <1>0, <3>1, <3>2, QuietBalance
  <2> QED BY <1>3, <2>1, <2>2
<1>4. CASE TakeRefused \/ TakeDescriptor
  <2> DEFINE m == sent[Len(replied) + 1]
  <2>1. /\ Take /\ inst' = inst /\ trapped' = trapped /\ host = "parse" /\ host' = "parse"
    BY <1>4 DEF TakeRefused, TakeDescriptor, Take, NextFrame
  <2>2. sent' = sent /\ Incoming = m /\ Len(replied) + 1 \in DOMAIN sent
    BY <2>1, TakesFrame DEF SessionInv
  <2>3. m.op # "call" \/ m.id = NoId
    <3>1. CASE TakeDescriptor
      BY <2>2, <3>1 DEF TakeDescriptor
    <3>2. CASE TakeRefused
      <4>1. Refusable(m)
        BY <2>2, <3>2 DEF TakeRefused
      <4>2. Frame(Len(replied) + 1)
        BY <2>2 DEF SessionInv, SentInv
      <4> QED BY <4>1, <4>2 DEF Refusable, Frame
    <3> QED BY <1>4, <3>1, <3>2
  <2>4. \E r : replied' = Append(replied, r)
    BY <1>4 DEF TakeRefused, TakeDescriptor, Respond
  <2>5. Torn' = Torn /\ Left' = Left
    BY <2>1, <2>2, <2>3, <2>4, OtherLeavesNothing DEF SessionInv
  <2>6. Serving /\ ~Busy /\ ~Busy'
    BY <2>1 DEF Serving, Busy
  <2> QED BY <1>0, <2>1, <2>5, <2>6, QuietBalance
<1>5. CASE TakeCall
  <2>1. /\ Take /\ inst' = Push(inst) /\ trapped' = trapped /\ replied' = replied
        /\ host = "parse" /\ host' = "put" /\ cur'.flat = <<>>
    BY <1>5 DEF TakeCall, Take, NoCall
  <2>2. sent' = sent
    BY <2>1, TakesFrame DEF SessionInv
  <2>3. Torn' = Torn /\ Left' = Left
    BY <2>1, <2>2, LeftStays DEF SessionInv
  <2>4. /\ Serving /\ ~Busy /\ Busy' /\ Holds = 0 /\ Holds' = 0 /\ Apart'
    BY <2>1 DEF Serving, Busy, Holds, Apart
  <2>5. inst'.sp = inst.sp + 1 /\ Live(inst') = Live(inst)
    <3>1. Push(inst) = [sp |-> inst.sp + 1, gen |-> inst.gen, heap |-> inst.heap]
      <4>1. inst = [sp |-> inst.sp, gen |-> inst.gen, heap |-> inst.heap]
        BY <1>0 DEF Sound
      <4> QED BY <4>1 DEF Push
    <3> QED BY <2>1, <3>1 DEF Live
  <2>6. inst'.sp = Cardinality(Torn') + (IF Busy' THEN 1 ELSE 0)
    BY <1>0, <1>1, <2>3, <2>4, <2>5
  <2>7. Cardinality(Live(inst')) = Cardinality(Left') + Holds'
    BY <1>0, <1>1, <2>3, <2>4, <2>5
  <2> QED BY <1>0, <2>4, <2>6, <2>7, TrapsAnswered DEF BalanceInv
<1>6. CASE PutArgument
  <2> DEFINE a == Fresh(inst)
             fl == Append(cur.flat, a)
  <2>1. /\ a \notin Live(inst) /\ Live(inst') = Live(inst) \cup {a} /\ inst'.sp = inst.sp
        /\ cur'.flat = fl
        /\ host = "put" /\ UNCHANGED <<host, sent, replied, trapped>>
    BY <1>6, PutTakesBlock
  <2>2. Torn' = Torn /\ Left' = Left
    BY <2>1, LeftStays DEF SessionInv
  <2>3. /\ Serving /\ Busy /\ Busy' /\ Holds = Len(cur.flat) /\ Holds' = Len(fl)
    BY <2>1 DEF Serving, Busy, Holds
  <2>4. cur.flat \in Seq(Live(inst))
    BY <2>1 DEF SessionInv, HostInv, CallInv
  <2>5. \A x, y \in DOMAIN cur.flat : cur.flat[x] = cur.flat[y] => x = y
    BY <1>1, <2>1, <2>3 DEF Apart
  <2> HIDE DEF a
  <2>6. Len(fl) = Len(cur.flat) + 1 /\ Len(cur.flat) \in Nat
    BY <2>4
  <2>7. \A x, y \in DOMAIN fl : fl[x] = fl[y] => x = y
    <3>1. /\ DOMAIN fl = 1 .. Len(cur.flat) + 1 /\ fl[Len(cur.flat) + 1] = a
          /\ DOMAIN cur.flat = 1 .. Len(cur.flat)
          /\ \A x \in 1 .. Len(cur.flat) : fl[x] = cur.flat[x] /\ fl[x] \in Live(inst)
      BY <2>4, <2>6
    <3> HIDE DEF fl
    <3> QED BY <2>1, <2>5, <2>6, <3>1
  <2> HIDE DEF fl
  <2>8. Apart'
    BY <2>1, <2>7 DEF Apart
  <2>9. Cardinality(Live(inst')) = Cardinality(Live(inst)) + 1
    BY <1>0, <2>1, FS_AddElement
  <2>10. inst'.sp = Cardinality(Torn') + (IF Busy' THEN 1 ELSE 0)
    BY <1>0, <1>1, <2>1, <2>2, <2>3
  <2>11. Cardinality(Live(inst')) = Cardinality(Left') + Holds'
    BY <1>0, <1>1, <2>2, <2>3, <2>6, <2>9
  <2> QED BY <1>0, <2>8, <2>10, <2>11, TrapsAnswered DEF BalanceInv
<1>7. CASE EngineReturns
  <2> DEFINE p == Cardinality(Padding(cur.args))
  <2>1. /\ cur'.ret \in Live(inst') /\ inst'.sp = inst.sp /\ cur'.args = cur.args
        /\ host = "put" /\ host' = "result" /\ UNCHANGED <<sent, replied, trapped>>
        /\ Cardinality(Live(inst')) + Len(cur.args) = Cardinality(Live(inst)) + p + 1
        /\ Len(cur.flat) = Len(cur.args) /\ Len(cur.args) \in Nat /\ p \in Nat
    BY <1>7, ReturnTakesBlock
  <2>2. Torn' = Torn /\ Left' = Left
    BY <2>1, LeftStays DEF SessionInv
  <2>3. /\ Serving /\ Busy /\ Busy' /\ Holds = Len(cur.flat)
        /\ Apart'
    BY <2>1 DEF Serving, Busy, Holds, Apart
  <2>4. Holds' = p + 1
    BY <2>1 DEF Holds, Padding
  <2> HIDE DEF p
  <2>5. inst'.sp = Cardinality(Torn') + (IF Busy' THEN 1 ELSE 0)
    BY <1>0, <1>1, <2>1, <2>2, <2>3
  <2>6. Cardinality(Live(inst')) \in Nat
    <3>1. IsFiniteSet(Live(inst'))
      BY <1>7, SoundStep DEF SessionInv, Host, Sound
    <3> QED BY <3>1, FS_CardinalityType
  <2>7. Cardinality(Live(inst')) = Cardinality(Left') + Holds'
    <3> DEFINE now == Cardinality(Live(inst'))
               was == Cardinality(Live(inst))
               len == Len(cur.args)
    <3>1. now + len = was + p + 1 /\ was = Cardinality(Left) + len
      BY <1>1, <2>1, <2>3
    <3>2. now \in Nat /\ was \in Nat /\ len \in Nat /\ p \in Nat /\ Cardinality(Left) \in Nat
      BY <1>0, <2>1, <2>6
    <3> HIDE DEF now, was, len
    <3>3. now = Cardinality(Left) + (p + 1)
      BY <3>1, <3>2
    <3> QED BY <2>2, <2>4, <3>3 DEF now
  <2> QED BY <1>0, <2>3, <2>5, <2>7, TrapsAnswered DEF BalanceInv
<1>8. CASE EngineTraps \/ FinishCall
  <2> DEFINE n == Len(replied) + 1
  <2>1. Busy /\ sent' = sent /\ host \in {"put", "result"} /\ host' = "parse"
    BY <1>8, FinishReads DEF EngineTraps, FinishCall, Busy, wireVars, Abandon, NextFrame
  <2>2. /\ n \in DOMAIN sent /\ cur.id = sent[n].id /\ cur.id # NoId
        /\ sent[n].op = "call" /\ cur.args = sent[n].args /\ cur.args \in Seq(Strings)
    BY <2>1, CallIsRequest DEF SessionInv
  <2>3. Serving /\ ~Busy' /\ Apart' /\ Holds' = 0
    BY <2>1 DEF Serving, Busy, Apart, Holds
  <2>4. CASE EngineTraps
    <3>1. /\ inst' = inst /\ trapped' = trapped \cup {sent[n].id} /\ host = "put"
          /\ Len(cur.flat) = Len(cur.args)
          /\ \E r : replied' = Append(replied, r)
      BY <2>2, <2>4 DEF EngineTraps, Abandon, Respond
    <3>2. trapped' # trapped
      <4>1. sent[n].id \notin trapped
        <5>1. \A k \in DOMAIN replied : k \in DOMAIN sent /\ k # n
          BY <1>0, <2>2 DEF SessionInv, FrameInv
        <5>2. \A k \in DOMAIN replied : sent[k].id # sent[n].id
          BY <2>2, <5>1 DEF SessionInv, SentInv
        <5> QED BY <5>2 DEF BalanceInv
      <4> QED BY <3>1, <4>1
    <3> DEFINE c == Cardinality(DOMAIN sent[n].args)
    <3>3. /\ Cardinality(Torn') = Cardinality(Torn) + 1
          /\ Cardinality(Left') = Cardinality(Left) + c
      BY <2>1, <2>2, <3>1, <3>2, CallLeaves DEF SessionInv
    <3>4. c = Len(cur.args) /\ c \in Nat
      <4>1. DOMAIN cur.args = 1 .. Len(cur.args) /\ Len(cur.args) \in Nat
        BY <2>2
      <4>2. Cardinality(1 .. Len(cur.args)) = Len(cur.args)
        BY <4>1, FS_Interval
      <4> QED BY <2>2, <4>1, <4>2
    <3> HIDE DEF c
    <3>5. Holds = c
      BY <3>1, <3>4 DEF Holds
    <3>6. inst'.sp = Cardinality(Torn') + (IF Busy' THEN 1 ELSE 0)
      BY <1>0, <1>1, <2>1, <2>3, <3>1, <3>3
    <3>7. Cardinality(Live(inst')) = Cardinality(Left') + Holds'
      BY <1>0, <1>1, <2>3, <3>1, <3>3, <3>4, <3>5
    <3> QED BY <1>0, <2>3, <3>6, <3>7, TrapsAnswered DEF BalanceInv
  <2>5. CASE FinishCall
    <3>1. /\ inst' = FreeAll(Pop(inst), {cur.ret}) /\ trapped' = trapped /\ host = "result"
          /\ \E r : replied' = Append(replied, r)
      BY <2>5, FinishReads DEF FinishCall, Respond
    <3> DEFINE c == Cardinality(Padding(sent[n].args))
    <3>2. /\ Cardinality(Torn') = Cardinality(Torn)
          /\ Cardinality(Left') = Cardinality(Left) + c /\ c \in Nat
      BY <1>0, <2>1, <2>2, <3>1, CallLeaves DEF SessionInv
    <3>3. Holds = c + 1
      BY <2>2, <3>1 DEF Holds
    <3> HIDE DEF c
    <3>4. inst.sp > 0
      BY <2>1, CallIsRequest DEF SessionInv
    <3> DEFINE i == Pop(inst)
    <3>5. Sound(i) /\ i.sp = inst.sp - 1 /\ Live(i) = Live(inst)
      <4>1. i = [sp |-> inst.sp - 1, gen |-> inst.gen, heap |-> inst.heap]
        <5>1. inst = [sp |-> inst.sp, gen |-> inst.gen, heap |-> inst.heap]
          BY <1>0 DEF Sound
        <5> QED BY <5>1 DEF Pop
      <4> QED BY <1>0, <3>4, <4>1, StackKeeps DEF Live
    <3> HIDE DEF i
    <3>6. inst'.sp = inst.sp - 1 /\ Live(inst') = Live(inst) \ {cur.ret}
      BY <3>1, <3>5, FreeKeeps DEF i
    <3>7. Cardinality(Live(inst')) = Cardinality(Live(inst)) - 1
      <4>1. cur.ret \in Live(inst)
        BY <1>1, <2>3, <3>1 DEF Apart
      <4> QED BY <1>0, <3>6, <4>1, FS_RemoveElement
    <3>8. inst'.sp = Cardinality(Torn') + (IF Busy' THEN 1 ELSE 0)
      BY <1>0, <1>1, <2>1, <2>3, <3>2, <3>6
    <3>9. Cardinality(Live(inst')) = Cardinality(Left') + Holds'
      BY <1>0, <1>1, <2>3, <3>2, <3>3, <3>7
    <3> QED BY <1>0, <2>3, <3>8, <3>9, TrapsAnswered DEF BalanceInv
  <2> QED BY <1>8, <2>4, <2>5
<1> QED BY <1>3, <1>4, <1>5, <1>6, <1>7, <1>8 DEF Host

\* What the instance holds at the start, and after every step.
LEMMA BalanceHolds == Spec => []BalanceInv
<1>1. Init => BalanceInv
  <2> SUFFICES ASSUME Init PROVE BalanceInv
    OBVIOUS
  <2>1. Torn = {} /\ Left = {} /\ Live(inst) = {} /\ inst.sp = 0 /\ host = "none"
        /\ trapped = {}
    BY DEF Init, NewInstance, Live, Torn, Left, Answered
  <2>2. Apart /\ Holds = 0 /\ ~Busy
    BY <2>1 DEF Apart, Holds, Busy
  <2> QED BY <2>1, <2>2, FS_EmptySet DEF BalanceInv
<1>2. SessionInv /\ BalanceInv /\ [Next]_vars => BalanceInv'
  <2> SUFFICES ASSUME SessionInv, BalanceInv, [Next]_vars PROVE BalanceInv'
    OBVIOUS
  <2>1. CASE Host
    BY <2>1, HostBalance
  <2>2. ASSUME ~Serving, inst' = inst, replied' = replied, host' = host PROVE BalanceInv'
    BY <2>2, TrapsAnswered DEF BalanceInv, Serving
  <2>3. CASE Aside \/ UNCHANGED vars
    <3>1. UNCHANGED <<sent, host, cur, inst, replied, trapped>>
      BY <2>3 DEF Aside, vars
    <3>2. Torn' = Torn /\ Left' = Left
      BY <3>1, LeftStays DEF SessionInv
    <3> QED BY <2>2, <3>1, <3>2, QuietBalance
  <2>4. ASSUME NEW m \in Msg, Writes(m) PROVE BalanceInv'
    <3>1. /\ sent \in Seq(Msg) /\ Len(sent) \in Nat /\ Len(replied) <= Len(sent)
          /\ replied \in Seq(Answer) /\ Len(replied) \in Nat
      BY TakenNat DEF SessionInv, FrameInv, Taken
    <3>2. /\ sent' = Append(sent, m) /\ UNCHANGED <<cur, inst, replied, trapped>>
          /\ host' = host \/ (host = "none" /\ host' = "boot")
      BY <2>4 DEF Writes
    <3>3. \A k \in DOMAIN replied : sent'[k] = sent[k]
      <4>1. \A k \in 1 .. Len(sent) : sent'[k] = sent[k]
        BY <3>1, <3>2
      <4> QED BY <3>1, <4>1
    <3>4. Torn' = Torn /\ Left' = Left
      BY <3>2, <3>3, LeftStays DEF SessionInv
    <3>5. CASE ~Serving
      BY <2>2, <3>2, <3>5 DEF Serving
    <3>6. CASE Serving
      <4>1. (host' = host /\ cur' = cur) \/ (~Busy /\ ~Busy')
        BY <3>2 DEF Busy
      <4> QED BY <3>2, <3>4, <3>6, <4>1, QuietBalance
    <3> QED BY <3>5, <3>6
  <2> QED BY <2>1, <2>3, <2>4, StepKinds DEF SessionInv
<1> QED BY <1>1, <1>2, SessionHolds, PTL DEF Spec

-----------------------------------------------------------------------------
(* The theorems. *)

\* Types, and the ranges the code relies on: the stack pointer never rises
\* above where it started, and no unit is of a frame that was not written.
THEOREM SessionTypes == Spec => []TypeOK
<1>1. SessionInv => TypeOK
  <2> SUFFICES ASSUME SessionInv PROVE TypeOK
    OBVIOUS
  <2>1. \A i \in Ids : outcome[i].tag \in Outcomes
    BY DEF SessionInv, ClientInv, Outcome
  <2>2. inst.sp \in Nat /\ inst.gen \in Nat /\ trapped \subseteq Ids
    BY DEF SessionInv, HostInv, Sound
  <2> QED BY <2>1, <2>2 DEF TypeOK, SessionInv, FrameInv, SentInv, ClientInv, BoxInv
<1> QED BY <1>1, SessionHolds, PTL

\* The host answers the frames it is sent one by one, in their order, each
\* once and under its own id, whatever chunks the stream arrives in.
THEOREM HostAnswersInOrder == Spec => []RepliesInOrder
<1>1. SessionInv => RepliesInOrder
  <2> SUFFICES ASSUME SessionInv PROVE RepliesInOrder
    OBVIOUS
  <2>1. Len(replied) <= Len(sent)
    BY TakenNat DEF SessionInv, FrameInv, Taken
  <2> QED BY <2>1 DEF RepliesInOrder, SessionInv, HostInv, ReplyInv
<1> QED BY <1>1, SessionHolds, PTL

\* What request/2 returns as {:ok, result} is what the engine computes from
\* the strings of that very call.
THEOREM AnswersAreOwn == Spec => []AnswersMatch
<1>1. SessionInv => AnswersMatch
  <2> SUFFICES ASSUME SessionInv, NEW i \in Ids, outcome[i].tag = "ok"
               PROVE  outcome[i].value = Expected(sent[FrameOf(i)])
    BY DEF AnswersMatch
  <2>1. PICK k \in DOMAIN sent : sent[k].id = i /\ outcome[i].value = Expected(sent[k])
    BY DEF SessionInv, ClientInv
  <2>2. i # NoId
    BY SessionAssumption DEF Ids, NoId
  <2>3. \A j \in DOMAIN sent : sent[j].id = i => j = k
    BY <2>1, <2>2 DEF SessionInv, SentInv
  <2>4. FrameOf(i) = k
    BY <2>1, <2>3 DEF FrameOf
  <2> QED BY <2>1, <2>4
<1> QED BY <1>1, SessionHolds, PTL

\* A call of the owner fails only when the engine trapped in it: no growth of
\* the memory and no refusal of the host's table costs a call.
THEOREM ErrorsAreTraps == Spec => []ErrorMeansTrap
<1>1. SessionInv => ErrorMeansTrap
  BY DEF SessionInv, ClientInv
<1> QED BY <1>1, SessionHolds, PTL

\* After a timeout no later request of the session is answered ok.
THEOREM TimeoutEndsSession == Spec => []TimeoutIsFinal
<1>1. SessionInv => TimeoutIsFinal
  BY DEF SessionInv, PairInv
<1> QED BY <1>1, SessionHolds, PTL

\* A reply under another id is the trace of an earlier timeout or of a frame
\* that somebody else wrote.
THEOREM MismatchIsCaused == Spec => []MismatchNeedsCause
<1>1. SessionInv => MismatchNeedsCause
  BY DEF SessionInv, PairInv
<1> QED BY <1>1, SessionHolds, PTL

\* Between two calls the instance holds exactly what the calls that never came
\* back left behind, sixteen bytes of stack each and their arguments, and the
\* byte putString allocates for each empty string and nobody frees.
THEOREM InstanceIsBalanced == Spec => []InstanceBalanced
<1>1. SessionInv /\ BalanceInv => InstanceBalanced
  <2> SUFFICES ASSUME SessionInv, BalanceInv, host \in {"idle", "parse"}
               PROVE  /\ inst.sp = Cardinality(Torn)
                      /\ Cardinality(Live(inst)) = Cardinality(Left)
    BY DEF InstanceBalanced
  <2>1. Serving /\ ~Busy /\ Holds = 0
    BY DEF Serving, Busy, Holds
  <2>2. Cardinality(Torn) \in Nat /\ Cardinality(Left) \in Nat
    BY LeftSorts, FS_CardinalityType DEF SessionInv
  <2> QED BY <2>1, <2>2 DEF BalanceInv
<1> QED BY <1>1, SessionHolds, BalanceHolds, PTL
=============================================================================
