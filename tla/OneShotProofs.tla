---------------------------- MODULE OneShotProofs ----------------------------
(***************************************************************************)
(* The one-shot hosts, for requests of any length, whatever the engine     *)
(* does and whenever the wasm file disappears. Each script implements the  *)
(* safety part of HostContract: at most one object, the end only after it, *)
(* silence only from a fragile one. And what the object says is so: a      *)
(* success has an earned result for every call, a refusal has a cause, and *)
(* the exit status agrees. Every step is reduced to one of eight deeds     *)
(* (NextDeed), and the invariants are shown of deeds.                      *)
(***************************************************************************)
EXTENDS OneShotHost, SequenceTheorems, TLAPS

Object == \E b \in BOOLEAN : \E x : out = <<[ok |-> b, results |-> x]>>

\* At most one object is out, and who may die is settled at the start.
OneObject == (out = <<>> \/ Object) /\ host \in Hosts /\ pc \in Nat \ {0}

-----------------------------------------------------------------------------
(* The ladders. *)

\* Every rung of a ladder that does not hold is caught, or the host is one
\* of the fragile ones.
Guarded(s) == \A k \in DOMAIN s : s[k].ok \/ s[k].catches \/ Fragile

Rungs(s) == s \in Seq([ok : BOOLEAN, catches : BOOLEAN, code : Nat])

\* Two guarded ladders one after the other are a guarded ladder.
LEMMA GuardedConcat ==
  ASSUME NEW s, NEW t, Rungs(s), Rungs(t), Guarded(s), Guarded(t)
  PROVE  Rungs(s \o t) /\ Guarded(s \o t)
<1> DEFINE S == [ok : BOOLEAN, catches : BOOLEAN, code : Nat]
<1>1. s \in Seq(S) /\ t \in Seq(S)
  BY DEF Rungs
<1> HIDE DEF S
<1>2. /\ s \o t \in Seq(S) /\ Len(s) \in Nat /\ Len(t) \in Nat
      /\ DOMAIN s = 1 .. Len(s) /\ DOMAIN t = 1 .. Len(t)
      /\ DOMAIN (s \o t) = 1 .. Len(s) + Len(t)
      /\ \A k \in 1 .. Len(s) + Len(t) :
           (s \o t)[k] = IF k <= Len(s) THEN s[k] ELSE t[k - Len(s)]
  BY <1>1, ConcatProperties, LenProperties
<1>3. Guarded(s \o t)
  <2> SUFFICES ASSUME NEW k \in DOMAIN (s \o t)
               PROVE  (s \o t)[k].ok \/ (s \o t)[k].catches \/ Fragile
    BY DEF Guarded
  <2>1. CASE k <= Len(s)
    BY <1>2, <2>1 DEF Guarded
  <2>2. CASE ~(k <= Len(s))
    BY <1>2, <2>2 DEF Guarded
  <2> QED BY <2>1, <2>2
<1> QED BY <1>2, <1>3 DEF Rungs, S

\* The ladder of every script is guarded: one case per script.
LEMMA LadderGuarded ==
  ASSUME host \in Hosts
  PROVE  Rungs(Ladder) /\ Guarded(Ladder)
<1> USE DEF Rung, Uncaught, Readable, Compiles, Links, Loads, Rungs, Guarded
<1>1. CASE host = "vendor"
  <2>1. Rungs(VendorRequest) /\ Guarded(VendorRequest)
    BY DEF VendorRequest, VendorFail
  <2>2. Rungs(VendorModule) /\ Guarded(VendorModule)
    BY DEF VendorModule, VendorFail
  <2>3. Rungs(VendorInstance) /\ Guarded(VendorInstance)
    BY DEF VendorInstance, VendorFail
  <2> HIDE DEF Rungs, Guarded
  <2> QED BY <1>1, <2>1, <2>2, <2>3, GuardedConcat DEF Ladder
<1>2. CASE host = "admission"
  <2>1. Rungs(AdmissionRequest) /\ Guarded(AdmissionRequest)
    BY DEF AdmissionRequest, AdmissionFail
  <2>2. Rungs(AdmissionInstance) /\ Guarded(AdmissionInstance)
    BY DEF AdmissionInstance, AdmissionFail
  <2> HIDE DEF Rungs, Guarded
  <2> QED BY <1>2, <2>1, <2>2, GuardedConcat DEF Ladder
<1>3. CASE host = "probe"
  <2>1. Rungs(ProbeRequest) /\ Guarded(ProbeRequest)
    BY DEF ProbeRequest, ProbeFail
  <2>2. Rungs(ProbeInstance) /\ Guarded(ProbeInstance)
    BY DEF ProbeInstance, ProbeFail
  <2> HIDE DEF Rungs, Guarded
  <2> QED BY <1>3, <2>1, <2>2, GuardedConcat DEF Ladder
<1>4. CASE host = "driver"
  <2>1. Rungs(DriverRequest) /\ Guarded(DriverRequest)
    <3>1. Rungs(DriverRequest)
      BY DEF DriverRequest, DriverFail
    <3>2. DOMAIN DriverRequest = 1 .. 6
      BY DEF DriverRequest
    <3>3. \A k \in {2, 4, 5, 6} : DriverRequest[k].catches
      BY DEF DriverRequest
    <3>4. DriverRequest[1].ok = (req # "unreadable") /\ DriverRequest[3].ok = (req # "null")
      BY DEF DriverRequest
    <3>5. DriverRequest[1].ok \/ Fragile
      BY <1>4, <3>4 DEF Fragile
    <3>6. DriverRequest[3].ok \/ Fragile
      BY <1>4, <3>4 DEF Fragile
    <3>7. ASSUME NEW k \in 1 .. 6
          PROVE  DriverRequest[k].ok \/ DriverRequest[k].catches \/ Fragile
      <4>1. k = 1 \/ k = 3 \/ k \in {2, 4, 5, 6}
        OBVIOUS
      <4> QED BY <3>3, <3>5, <3>6, <4>1
    <3> QED BY <3>1, <3>2, <3>7
  <2>2. Rungs(DriverInstance) /\ Guarded(DriverInstance)
    BY DEF DriverInstance, DriverFail
  <2> HIDE DEF Rungs, Guarded
  <2> QED BY <1>4, <2>1, <2>2, GuardedConcat DEF Ladder
<1>5. CASE host = "invoke"
  <2>1. Rungs(InvokeRequest) /\ Guarded(InvokeRequest)
    BY DEF InvokeRequest, InvokeFail
  <2>2. Rungs(InvokeInstance) /\ Guarded(InvokeInstance)
    BY DEF InvokeInstance, InvokeFail
  <2>3. Rungs(InvokeCalls) /\ Guarded(InvokeCalls)
    BY DEF InvokeCalls, InvokeFail
  <2> HIDE DEF Rungs, Guarded
  <2> QED BY <1>5, <2>1, <2>2, <2>3, GuardedConcat DEF Ladder
<1>6. CASE host = "peer"
  <2>1. Rungs(PeerRequest) /\ Guarded(PeerRequest)
    BY DEF PeerRequest, PeerFail
  <2>2. Rungs(PeerInstance) /\ Guarded(PeerInstance)
    BY DEF PeerInstance, PeerFail
  <2> HIDE DEF Rungs, Guarded
  <2> QED BY <1>6, <2>1, <2>2, GuardedConcat DEF Ladder
<1>7. CASE host = "verify"
  <2>0. Fragile
    BY <1>7 DEF Fragile
  <2>1. Rungs(VerifyArguments) /\ Guarded(VerifyArguments)
    BY <2>0 DEF VerifyArguments
  <2>2. Rungs(VerifyInstance) /\ Guarded(VerifyInstance)
    BY <2>0 DEF VerifyInstance
  <2>3. Rungs(VerifyManifest) /\ Guarded(VerifyManifest)
    BY <2>0 DEF VerifyManifest
  <2>4. Rungs(VerifyCorpus) /\ Guarded(VerifyCorpus)
    BY <2>0 DEF VerifyCorpus
  <2> HIDE DEF Rungs, Guarded
  <2> QED BY <1>7, <2>1, <2>2, <2>3, <2>4, GuardedConcat DEF Ladder
<1> QED BY <1>1, <1>2, <1>3, <1>4, <1>5, <1>6, <1>7, HostAssumption

-----------------------------------------------------------------------------
(* One step of a host is one step of the contract, or none. *)

\* The first object on stdout is the answer a reader has.
LEMMA OneAnswer ==
  ASSUME out = <<>>, NEW b \in BOOLEAN, NEW x, out' = Append(out, [ok |-> b, results |-> x])
  PROVE  /\ Answer = "none" /\ Answer' = IF b THEN "ok" ELSE "refused"
         /\ Object'
<1>1. out' = <<[ok |-> b, results |-> x]>>
  OBVIOUS
<1>2. Object'
  BY <1>1 DEF Object
<1>3. out' # <<>> /\ Len(out') = 1 /\ out'[1].ok = b
  BY <1>1
<1> QED BY <1>2, <1>3 DEF Answer

\* What every step of a script amounts to.
Outcome ==
  /\ UNCHANGED <<host, req>>
  /\ \/ UNCHANGED <<out, status>>
     \/ /\ status = "running" /\ out = <<>>
        /\ \E b \in BOOLEAN : \E x :
             /\ out' = Append(out, [ok |-> b, results |-> x])
             /\ status' = "running" \/ (status' = "exited" /\ ~b)
     \/ status = "running" /\ out # <<>> /\ status' = "exited" /\ UNCHANGED out
     \/ status = "running" /\ out = <<>> /\ UNCHANGED out
          /\ (status' = "hung" \/ (status' = "crashed" /\ Fragile))

\* Every step of every script has one of the five outcomes.
LEMMA StepOutcome ==
  ASSUME OneObject, Next
  PROVE  Outcome /\ pc' \in Nat \ {0}
<1> USE DEF Outcome, OneObject, Running, Refuse, Crash, At, Record, Pushed, Hang, Emit,
            Report, FailFast, input
<1>1. CASE WasmRemoved
  BY <1>1 DEF WasmRemoved
<1>2. CASE Climb
  <2>1. Rungs(Ladder) /\ Guarded(Ladder) /\ pc \in DOMAIN Ladder
    BY <1>2, LadderGuarded DEF Climb, Rungs
  <2>2. Ladder[pc].ok \/ Ladder[pc].catches \/ Fragile
    BY <2>1 DEF Guarded
  <2> DEFINE rung == Ladder[pc]
  <2>3. /\ Running /\ UNCHANGED <<host, req>>
        /\ \/ rung.ok /\ pc' = pc + 1 /\ UNCHANGED <<out, status>>
           \/ ~rung.ok /\ rung.catches /\ Refuse(rung.code) /\ UNCHANGED pc
           \/ ~rung.ok /\ ~rung.catches /\ Crash /\ UNCHANGED pc
    BY <1>2 DEF Climb
  <2> HIDE DEF rung
  <2>4. CASE rung.ok /\ pc' = pc + 1 /\ UNCHANGED <<out, status>>
    BY <2>3, <2>4
  <2>5. CASE ~rung.ok /\ rung.catches /\ Refuse(rung.code) /\ UNCHANGED pc
    BY <2>3, <2>5
  <2>6. CASE ~rung.ok /\ ~rung.catches /\ Crash /\ UNCHANGED pc
    BY <2>2, <2>3, <2>6 DEF rung
  <2> QED BY <2>3, <2>4, <2>5, <2>6
<1>3. CASE Drain
  BY <1>3 DEF Drain
<1>4. CASE VendorCall \/ VendorReport
  BY <1>4 DEF VendorCall, VendorReport
<1>5. CASE AdmissionCall \/ AdmissionReport
  BY <1>5 DEF AdmissionCall, AdmissionReport
<1>6. CASE ProbeCall
  BY <1>6 DEF ProbeCall
<1>7. CASE DriverCall \/ DriverReport
  BY <1>7 DEF DriverCall, DriverReport
<1>8. CASE InvokeCall \/ InvokeReport
  BY <1>8 DEF InvokeCall, InvokeReport
<1>9. CASE PeerCall
  BY <1>9 DEF PeerCall
<1>10. CASE VerifyVector \/ VerifyReport
  BY <1>10 DEF VerifyVector, VerifyReport, Fragile
<1> QED BY <1>1, <1>2, <1>3, <1>4, <1>5, <1>6, <1>7, <1>8, <1>9, <1>10 DEF Next, Step

\* Each outcome is a step of the contract, or none.
LEMMA OutcomeRefines ==
  ASSUME OneObject, Outcome, pc' \in Nat \ {0}
  PROVE  OneObject' /\ [Contract!Next]_(Contract!vars)
<1>1. Fragile' = Fragile /\ host' = host
  BY DEF Outcome, Fragile
<1>2. CASE UNCHANGED <<out, status>>
  <2>1. Answer' = Answer
    BY <1>2 DEF Answer
  <2> QED BY <1>1, <1>2, <2>1 DEF OneObject, Object, Contract!vars
<1>3. ASSUME status = "running", out = <<>>, NEW b \in BOOLEAN, NEW x,
             out' = Append(out, [ok |-> b, results |-> x]),
             status' = "running" \/ (status' = "exited" /\ ~b)
      PROVE  OneObject' /\ [Contract!Next]_(Contract!vars)
  <2>1. Answer = "none" /\ Answer' = (IF b THEN "ok" ELSE "refused") /\ Object'
    BY <1>3, OneAnswer
  <2> QED BY <1>1, <1>3, <2>1
        DEF OneObject, Contract!Next, Contract!Answer, Contract!Refuse
<1>4. CASE status = "running" /\ out # <<>> /\ status' = "exited" /\ UNCHANGED out
  <2>1. Answer' = Answer /\ Answer # "none"
    BY <1>4 DEF Answer
  <2> QED BY <1>1, <1>4, <2>1 DEF OneObject, Object, Contract!Next, Contract!Exit
<1>5. CASE /\ status = "running" /\ out = <<>> /\ UNCHANGED out
           /\ status' = "hung" \/ (status' = "crashed" /\ Fragile)
  <2>1. Answer' = Answer /\ Answer = "none"
    BY <1>5 DEF Answer
  <2> QED BY <1>1, <1>5, <2>1
     DEF OneObject, Object, Contract!Next, Contract!Hang, Contract!Crash
<1> QED BY <1>2, <1>3, <1>4, <1>5 DEF Outcome

\* Each of the seven scripts implements the safety part of the contract: one
\* object on stdout, the end after it, and silence only from the verifier
\* and from the driver on a request it cannot read.
THEOREM HostsRefineContract == Spec => Contract!Safe
<1>1. Init => OneObject
  BY HostAssumption DEF Init, OneObject
<1>2. Init => Contract!Init
  BY DEF Init, Contract!Init, Answer, Fragile
<1>3. OneObject /\ [Next]_vars => OneObject' /\ [Contract!Next]_(Contract!vars)
  <2> SUFFICES ASSUME OneObject, [Next]_vars
               PROVE  OneObject' /\ [Contract!Next]_(Contract!vars)
    OBVIOUS
  <2>1. CASE Next
    BY <2>1, StepOutcome, OutcomeRefines
  <2>2. CASE UNCHANGED vars
    <3>1. Answer' = Answer /\ Fragile' = Fragile
      BY <2>2 DEF vars, Answer, Fragile
    <3> QED BY <2>2, <3>1 DEF vars, OneObject, Object, Contract!vars
  <2> QED BY <2>1, <2>2
<1> QED BY <1>1, <1>2, <1>3, PTL DEF Spec, Contract!Safe

-----------------------------------------------------------------------------
(* What the caller reads.  The inductive invariant follows the results as  *)
(* they come in (ResultInv) and the way the process ends (EndInv).         *)

Tags == {"value", "engine_error", "trap", "refused"}

\* A result of call k may say this.
Earned(k, tag) ==
  \/ tag \in Returns /\ Asked[k] # "absent"
  \/ host = "driver" /\ tag = "trap"
  \/ host = "driver" /\ tag = "refused" /\ Asked[k] \notin {"law", "other"}

\* Nothing is wrong with the request, the module or the corpus.
Good ==
  /\ req = "good" /\ wasm = "good" /\ corpus = "whole"
  /\ \A k \in DOMAIN calls : calls[k] = "law"

\* The results are those of the calls asked for, one by one, and a success
\* is written when all of them are in.
ResultInv ==
  /\ OneObject
  /\ calls \in Seq(CallKinds)
  /\ host \in {"probe", "peer"} => Len(calls) = 1 /\ req # "nocalls"
  /\ host = "peer" /\ pc > 4 => calls[1] \in {"law", "badargs"}
  /\ sp \in Nat
  /\ results \in Seq([call : Nat, tag : Tags])
  /\ Len(results) <= Len(Asked)
  /\ \A k \in DOMAIN results : results[k].call = k /\ Earned(k, results[k].tag)
  /\ out = <<>> /\ host \in {"probe", "peer"} => results = <<>>
  /\ out # <<>> /\ out[1].ok => out[1].results = results /\ Len(results) = Len(Asked)

\* How a process ends says what it wrote, and a refusal is not written for
\* nothing.
EndInv ==
  /\ status \in {"running", "exited", "crashed", "hung"}
  /\ status = "running" => exit = 0
  /\ status = "running" /\ out # <<>> /\ host # "probe" => out[1].ok
  /\ status = "exited" => out # <<>>
  /\ ExitAgrees
  /\ Good /\ sp = 0 => status # "crashed" /\ (out # <<>> => out[1].ok)

-----------------------------------------------------------------------------
(* The ladders again: exit statuses and good requests.                     *)

\* A refusal of this script may exit with this status.
Apt(code) == IF host \in {"vendor", "verify"} THEN code # 0 ELSE code = 0

\* A rung that refuses, if it refuses, with an exit status of its script,
\* and never refuses a good request.
FairRung ==
  {r \in [ok : BOOLEAN, catches : BOOLEAN, code : Nat] :
     (r.catches => Apt(r.code)) /\ (Good => r.ok)}

\* What makes a rung a fair one.
LEMMA FairRungs ==
  /\ \A p \in BOOLEAN, c \in Nat : Apt(c) /\ (Good => p) => Rung(p, c) \in FairRung
  /\ \A p \in BOOLEAN : (Good => p) => Uncaught(p) \in FairRung
BY DEF FairRung, Rung, Uncaught

\* The ladder of every script has fair rungs only: one case per script.
LEMMA LadderFair ==
  ASSUME host \in Hosts, host = "peer" => 1 \in DOMAIN calls
  PROVE  Ladder \in Seq(FairRung)
<1>0. /\ Good => req = "good" /\ Readable /\ Compiles /\ Links /\ Loads /\ corpus = "whole"
      /\ Good /\ 1 \in DOMAIN calls => calls[1] \in {"law", "badargs"}
      /\ {Readable, Compiles, Links, Loads} \subseteq BOOLEAN
  BY DEF Good, Readable, Compiles, Links, Loads
<1>1. CASE host = "vendor"
  <2>0. Apt(VendorFail) /\ VendorFail \in Nat
    BY <1>1 DEF Apt, VendorFail
  <2>1. VendorRequest \in Seq(FairRung)
    BY <1>0, <1>1, <2>0 DEF VendorRequest, Rung, Uncaught, FairRung
  <2>2. VendorModule \in Seq(FairRung)
    BY <1>0, <1>1, <2>0, FairRungs DEF VendorModule
  <2>3. VendorInstance \in Seq(FairRung)
    BY <1>0, <1>1, <2>0, FairRungs DEF VendorInstance
  <2> QED BY <1>1, <2>1, <2>2, <2>3, ConcatProperties DEF Ladder
<1>2. CASE host = "admission"
  <2>0. Apt(AdmissionFail) /\ AdmissionFail \in Nat
    BY <1>2 DEF Apt, AdmissionFail
  <2>1. AdmissionRequest \in Seq(FairRung)
    BY <1>0, <1>2, <2>0 DEF AdmissionRequest, Rung, Uncaught, FairRung
  <2>2. AdmissionInstance \in Seq(FairRung)
    BY <1>0, <1>2, <2>0, FairRungs DEF AdmissionInstance
  <2> QED BY <1>2, <2>1, <2>2, ConcatProperties DEF Ladder
<1>3. CASE host = "probe"
  <2>0. Apt(ProbeFail) /\ ProbeFail \in Nat
    BY <1>3 DEF Apt, ProbeFail
  <2>1. ProbeRequest \in Seq(FairRung)
    BY <1>0, <1>3, <2>0 DEF ProbeRequest, Rung, Uncaught, FairRung
  <2>2. ProbeInstance \in Seq(FairRung)
    BY <1>0, <1>3, <2>0, FairRungs DEF ProbeInstance
  <2> QED BY <1>3, <2>1, <2>2, ConcatProperties DEF Ladder
<1>4. CASE host = "driver"
  <2>0. Apt(DriverFail) /\ DriverFail \in Nat
    BY <1>4 DEF Apt, DriverFail
  <2>1. DriverRequest \in Seq(FairRung)
    BY <1>0, <1>4, <2>0 DEF DriverRequest, Rung, Uncaught, FairRung
  <2>2. DriverInstance \in Seq(FairRung)
    BY <1>0, <1>4, <2>0, FairRungs DEF DriverInstance
  <2> QED BY <1>4, <2>1, <2>2, ConcatProperties DEF Ladder
<1>5. CASE host = "invoke"
  <2>0. Apt(InvokeFail) /\ InvokeFail \in Nat
    BY <1>5 DEF Apt, InvokeFail
  <2>1. InvokeRequest \in Seq(FairRung)
    BY <1>0, <1>5, <2>0 DEF InvokeRequest, Rung, Uncaught, FairRung
  <2>2. InvokeInstance \in Seq(FairRung)
    BY <1>0, <1>5, <2>0, FairRungs DEF InvokeInstance
  <2>3. InvokeCalls \in Seq(FairRung)
    BY <1>0, <1>5, <2>0 DEF InvokeCalls, Rung, Uncaught, FairRung
  <2> QED BY <1>5, <2>1, <2>2, <2>3, ConcatProperties DEF Ladder
<1>6. CASE host = "peer"
  <2>0. Apt(PeerFail) /\ PeerFail \in Nat
    BY <1>6 DEF Apt, PeerFail
  <2>1. PeerRequest \in Seq(FairRung)
    BY <1>0, <1>6, <2>0 DEF PeerRequest, Rung, Uncaught, FairRung
  <2>2. PeerInstance \in Seq(FairRung)
    BY <1>0, <1>6, <2>0, FairRungs DEF PeerInstance
  <2> QED BY <1>6, <2>1, <2>2, ConcatProperties DEF Ladder
<1>7. CASE host = "verify"
  <2>0. \A c \in 2 .. 5 : Apt(c) /\ c \in Nat
    BY <1>7 DEF Apt
  <2>1. VerifyArguments \in Seq(FairRung)
    BY <1>0, <1>7, <2>0 DEF VerifyArguments, Rung, Uncaught, FairRung
  <2>2. VerifyInstance \in Seq(FairRung)
    BY <1>0, <1>7, <2>0, FairRungs DEF VerifyInstance
  <2>3. VerifyManifest \in Seq(FairRung)
    BY <1>0, <1>7, <2>0 DEF VerifyManifest, Rung, Uncaught, FairRung
  <2>4. VerifyCorpus \in Seq(FairRung)
    BY <1>0, <1>7, <2>0 DEF VerifyCorpus, Rung, Uncaught, FairRung
  <2> QED BY <1>7, <2>1, <2>2, <2>3, <2>4, ConcatProperties DEF Ladder
<1> QED BY <1>1, <1>2, <1>3, <1>4, <1>5, <1>6, <1>7, HostAssumption

\* The fourth of the peer's six rungs is the check of its operation.
LEMMA PeerLadder ==
  ASSUME host = "peer"
  PROVE  /\ Len(Ladder) = 6
         /\ Ladder[4].ok => calls[1] \in {"law", "badargs"}
<1> DEFINE S == [ok : BOOLEAN, catches : BOOLEAN, code : Nat]
           s == PeerRequest
           t == PeerInstance
<1>1. s \in Seq(S) /\ Len(s) = 4
  BY DEF PeerRequest, PeerFail, Rung, Readable
<1>2. s[4] = Rung(req # "null" /\ calls[1] \in {"law", "badargs"}, PeerFail)
  BY DEF PeerRequest
<1>3. s[4].ok => calls[1] \in {"law", "badargs"}
  <2> DEFINE p == req # "null" /\ calls[1] \in {"law", "badargs"}
  <2>1. Rung(p, PeerFail).ok = p
    BY DEF Rung
  <2> QED BY <1>2, <2>1
<1>4. t \in Seq(S) /\ Len(t) = 2
  BY DEF PeerInstance, PeerFail, Rung, Readable, Compiles, Links
<1>5. Ladder = s \o t
  BY DEF Ladder
<1> HIDE DEF S, s, t
<1>6. /\ Len(s \o t) = Len(s) + Len(t)
      /\ \A k \in 1 .. Len(s) + Len(t) :
           (s \o t)[k] = IF k <= Len(s) THEN s[k] ELSE t[k - Len(s)]
  BY <1>1, <1>4, ConcatProperties
<1>7. Len(s \o t) = 6 /\ (s \o t)[4] = s[4]
  BY <1>1, <1>4, <1>6
<1> QED BY <1>3, <1>5, <1>7

-----------------------------------------------------------------------------
(* What a step does to the results, the stack and the end of the process.  *)

\* A refusal, a death or a fault has a cause: the request, the module, the
\* corpus or the calls were not good, or a call trapped.
Caused == (~Good /\ sp' = sp) \/ sp' = sp + 1

Proceeds ==
  /\ pc' = pc \/ (pc' = pc + 1 /\ (host = "peer" /\ pc = 4 => calls[1] \in {"law", "badargs"}))
  /\ UNCHANGED <<results, sp, out, status, exit>>

Refuses ==
  /\ Running /\ Caused
  /\ \E code \in Nat : Apt(code) /\ Refuse(code)
  /\ UNCHANGED <<pc, results>>

Dies == Running /\ Caused /\ Crash /\ UNCHANGED <<pc, results>>

Faults ==
  /\ host = "probe" /\ Running /\ Caused
  /\ Emit(FALSE, <<>>)
  /\ UNCHANGED <<pc, results, status, exit>>

Gains ==
  /\ Running /\ More
  /\ \E tag \in Tags : Earned(Len(results) + 1, tag) /\ Record(tag)
  /\ sp' \in {sp, sp + 1}
  /\ IF host \in {"probe", "peer"} THEN Emit(TRUE, results') ELSE UNCHANGED out
  /\ UNCHANGED <<pc, status, exit>>

Reports ==
  /\ Running /\ ~More
  /\ Emit(TRUE, results)
  /\ UNCHANGED <<pc, results, sp, status, exit>>

Hangs == Running /\ status' = "hung" /\ UNCHANGED <<pc, results, sp, out, exit>>

Leaves ==
  /\ status = "running" /\ out # <<>> /\ status' = "exited"
  /\ UNCHANGED <<pc, results, sp, out, exit>>

Deed ==
  /\ UNCHANGED input
  /\ wasm' = wasm \/ (wasm = "good" /\ wasm' = "missing")
  /\ \/ Proceeds \/ Refuses \/ Dies \/ Faults
     \/ Gains \/ Reports \/ Hangs \/ Leaves

\* The call a script is at is one it was asked for, and of a good request
\* that is one of the five functions.
LEMMA AtCall ==
  ASSUME ResultInv, More
  PROVE  /\ Len(results) + 1 \in DOMAIN Asked
         /\ Kind = Asked[Len(results) + 1]
         /\ Kind \in CallKinds
         /\ Good => Kind = "law"
<1>1. Asked \in Seq(CallKinds) /\ (Good => Asked = calls)
  BY DEF ResultInv, Asked, Good
<1>2. Len(results) \in Nat /\ Len(Asked) \in Nat /\ DOMAIN Asked = 1 .. Len(Asked)
  BY <1>1 DEF ResultInv
<1>3. Len(results) + 1 \in DOMAIN Asked
  BY <1>2 DEF More
<1>4. Kind \in CallKinds
  BY <1>1, <1>3, ElementOfSeq, <1>2 DEF Kind
<1> QED BY <1>1, <1>3, <1>4 DEF Kind, Good

\* A probe and a peer that have not answered are at their one call.
LEMMA OneCall ==
  ASSUME ResultInv, host \in {"probe", "peer"}, out = <<>>
  PROVE  results = <<>> /\ Asked = calls /\ Len(Asked) = 1 /\ More
<1>1. results = <<>> /\ Asked = calls /\ Len(calls) = 1
  BY DEF ResultInv, Asked
<1> QED BY <1>1 DEF More

\* One rung of a ladder.
LEMMA ClimbDeed ==
  ASSUME ResultInv, Climb
  PROVE  Deed
<1>1. host \in Hosts /\ pc \in Nat \ {0} /\ (host = "peer" => 1 \in DOMAIN calls)
  BY DEF ResultInv, OneObject
<1>2. Ladder \in Seq(FairRung) /\ pc \in DOMAIN Ladder
  BY <1>1, LadderFair DEF Climb
<1>3. Ladder[pc] \in FairRung
  BY <1>2, ElementOfSeq
<1>4. host = "peer" /\ pc = 4 /\ Ladder[pc].ok => calls[1] \in {"law", "badargs"}
  BY PeerLadder
<1> DEFINE rung == Ladder[pc]
<1>5. /\ Running /\ UNCHANGED <<input, wasm, results, sp>>
      /\ \/ rung.ok /\ pc' = pc + 1 /\ UNCHANGED <<out, status, exit>>
         \/ ~rung.ok /\ rung.catches /\ Refuse(rung.code) /\ UNCHANGED pc
         \/ ~rung.ok /\ ~rung.catches /\ Crash /\ UNCHANGED pc
  BY DEF Climb
<1>6. /\ rung.code \in Nat /\ (rung.catches => Apt(rung.code)) /\ (Good => rung.ok)
      /\ host = "peer" /\ pc = 4 /\ rung.ok => calls[1] \in {"law", "badargs"}
  BY <1>3, <1>4 DEF FairRung
<1> HIDE DEF rung
<1>7. CASE rung.ok /\ pc' = pc + 1 /\ UNCHANGED <<out, status, exit>>
  BY <1>5, <1>6, <1>7 DEF Deed, Proceeds
<1>8. CASE ~rung.ok /\ rung.catches /\ Refuse(rung.code) /\ UNCHANGED pc
  BY <1>5, <1>6, <1>8 DEF Deed, Refuses, Caused
<1>9. CASE ~rung.ok /\ ~rung.catches /\ Crash /\ UNCHANGED pc
  BY <1>5, <1>6, <1>9 DEF Deed, Dies, Caused
<1> QED BY <1>5, <1>7, <1>8, <1>9

\* A call of a script that gives up on the first fault.
LEMMA FailFastDeed ==
  ASSUME ResultInv, NEW h \in {"vendor", "admission", "invoke", "verify"}, At(h),
         NEW refused, "absent" \in refused, "law" \notin refused,
         NEW code \in Nat, Apt(code), FailFast(refused, code)
  PROVE  Deed
<1>1. /\ Running /\ host \notin {"probe", "peer"} /\ More
      /\ UNCHANGED <<input, wasm, pc>>
  BY DEF At, FailFast
<1>2. Kind = Asked[Len(results) + 1] /\ (Good => Kind = "law")
  BY <1>1, AtCall
<1>3. CASE Kind \in refused /\ Refuse(code) /\ UNCHANGED <<results, sp>>
  BY <1>1, <1>2, <1>3 DEF Deed, Refuses, Caused
<1>4. ASSUME Kind \notin refused, NEW o \in Returns, Record(o), UNCHANGED <<sp, out, status, exit>>
      PROVE  Deed
  <2>1. o \in Tags /\ Earned(Len(results) + 1, o)
    BY <1>2, <1>4 DEF Earned, Returns, Tags
  <2> QED BY <1>1, <1>4, <2>1 DEF Deed, Gains
<1>5. CASE Pushed /\ Refuse(code) /\ UNCHANGED results
  BY <1>1, <1>5 DEF Deed, Refuses, Caused, Pushed
<1>6. CASE Hang
  BY <1>1, <1>6 DEF Deed, Hangs, Hang
<1> QED BY <1>3, <1>4, <1>5, <1>6 DEF FailFast

\* Every result is in.
LEMMA ReportDeed ==
  ASSUME NEW h, At(h), Report
  PROVE  Deed
BY DEF At, Report, Deed, Reports

\* The probe's one operation.
LEMMA ProbeDeed ==
  ASSUME ResultInv, ProbeCall
  PROVE  Deed
<1>1. Running /\ host = "probe" /\ UNCHANGED <<input, wasm, pc>>
  BY DEF ProbeCall, At
<1>2. results = <<>> /\ More
  BY <1>1, OneCall DEF Running
<1>3. Kind = Asked[Len(results) + 1] /\ (Good => Kind = "law")
  BY <1>2, AtCall
<1>4. CASE /\ Kind \in {"other", "absent", "shapeless"}
           /\ Refuse(ProbeFail) /\ UNCHANGED <<results, sp>>
  <2>1. ~Good /\ ProbeFail \in Nat /\ Apt(ProbeFail)
    BY <1>1, <1>3, <1>4 DEF ProbeFail, Apt
  <2> QED BY <1>1, <1>4, <2>1 DEF Deed, Refuses, Caused
<1>5. CASE Kind = "badargs" /\ Emit(FALSE, <<>>) /\ UNCHANGED <<results, sp, status, exit>>
  <2>1. ~Good
    BY <1>3, <1>5
  <2> QED BY <1>1, <1>5, <2>1 DEF Deed, Faults, Caused
<1>6. ASSUME Kind = "law", NEW o \in Returns, Record(o), Emit(TRUE, results'),
             UNCHANGED <<sp, status, exit>>
      PROVE  Deed
  <2>1. o \in Tags /\ Earned(Len(results) + 1, o)
    BY <1>3, <1>6 DEF Earned, Returns, Tags
  <2> QED BY <1>1, <1>2, <1>6, <2>1 DEF Deed, Gains
<1>7. CASE Pushed /\ Emit(FALSE, <<>>) /\ UNCHANGED <<results, status, exit>>
  BY <1>1, <1>7 DEF Deed, Faults, Caused, Pushed
<1>8. CASE Hang
  BY <1>1, <1>8 DEF Deed, Hangs, Hang
<1> QED BY <1>4, <1>5, <1>6, <1>7, <1>8 DEF ProbeCall

\* A call of the driver, whose faults are results.
LEMMA DriverDeed ==
  ASSUME ResultInv, DriverCall
  PROVE  Deed
<1>1. Running /\ host = "driver" /\ More /\ UNCHANGED <<input, wasm, pc>>
  BY DEF DriverCall, At
<1>2. Kind = Asked[Len(results) + 1]
  BY <1>1, AtCall
<1> DEFINE k == Len(results) + 1
<1>3. ASSUME NEW tag \in Tags, Earned(k, tag), Record(tag), sp' \in {sp, sp + 1},
             UNCHANGED <<out, status, exit>>
      PROVE  Deed
  BY <1>1, <1>3 DEF Deed, Gains
<1>4. CASE /\ Kind \in {"shapeless", "badargs", "absent"}
           /\ Record("refused") /\ UNCHANGED <<sp, out, status, exit>>
  <2>1. "refused" \in Tags /\ Earned(k, "refused")
    BY <1>1, <1>2, <1>4 DEF Earned, Tags
  <2> QED BY <1>3, <1>4, <2>1
<1>5. ASSUME Kind \in {"law", "other"}, NEW o \in Returns, Record(o),
             UNCHANGED <<sp, out, status, exit>>
      PROVE  Deed
  <2>1. o \in Tags /\ Earned(k, o)
    BY <1>2, <1>5 DEF Earned, Returns, Tags
  <2> QED BY <1>3, <1>5, <2>1
<1>6. CASE Pushed /\ Record("trap") /\ UNCHANGED <<out, status, exit>>
  <2>1. "trap" \in Tags /\ Earned(k, "trap")
    BY <1>1 DEF Earned, Tags
  <2> QED BY <1>3, <1>6, <2>1 DEF Pushed
<1>7. CASE Hang
  BY <1>1, <1>7 DEF Deed, Hangs, Hang
<1> QED BY <1>4, <1>5, <1>6, <1>7 DEF DriverCall

\* The peer's one operation, which its ladder has checked.
LEMMA PeerDeed ==
  ASSUME ResultInv, PeerCall
  PROVE  Deed
<1>1. Running /\ host = "peer" /\ UNCHANGED <<input, wasm, pc>> /\ pc > Len(Ladder)
  BY DEF PeerCall, At
<1>2. results = <<>> /\ Asked = calls /\ More
  BY <1>1, OneCall DEF Running
<1>3. pc > 4
  <2>1. Len(Ladder) = 6 /\ pc \in Nat
    BY <1>1, PeerLadder DEF ResultInv, OneObject
  <2> QED BY <1>1, <2>1
<1>4. Len(results) + 1 = 1 /\ Asked[1] # "absent"
  BY <1>1, <1>2, <1>3 DEF ResultInv
<1>5. ASSUME NEW o \in Returns, Record(o), Emit(TRUE, results'), UNCHANGED <<sp, status, exit>>
      PROVE  Deed
  <2>1. o \in Tags /\ Earned(Len(results) + 1, o)
    BY <1>4, <1>5 DEF Earned, Returns, Tags
  <2> QED BY <1>1, <1>2, <1>5, <2>1 DEF Deed, Gains
<1>6. CASE Pushed /\ Refuse(PeerFail) /\ UNCHANGED results
  <2>1. PeerFail \in Nat /\ Apt(PeerFail)
    BY <1>1 DEF PeerFail, Apt
  <2> QED BY <1>1, <1>6, <2>1 DEF Deed, Refuses, Caused, Pushed
<1>7. CASE Hang
  BY <1>1, <1>7 DEF Deed, Hangs, Hang
<1> QED BY <1>5, <1>6, <1>7 DEF PeerCall

\* Every step is a deed.
LEMMA NextDeed ==
  ASSUME ResultInv, Next
  PROVE  Deed
<1>1. CASE WasmRemoved
  BY <1>1 DEF WasmRemoved, Deed, Proceeds
<1>2. CASE Drain
  BY <1>2 DEF Drain, Deed, Leaves
<1>3. CASE VendorCall
  <2>1. At("vendor") /\ FailFast({"shapeless", "absent"}, VendorFail)
    BY <1>3 DEF VendorCall
  <2>2. VendorFail \in Nat /\ Apt(VendorFail)
    BY <2>1 DEF VendorFail, Apt, At
  <2> QED BY <2>1, <2>2, FailFastDeed
<1>4. CASE AdmissionCall
  <2>1. /\ At("admission")
        /\ FailFast({"shapeless", "absent", "other", "badargs"}, AdmissionFail)
    BY <1>4 DEF AdmissionCall
  <2>2. AdmissionFail \in Nat /\ Apt(AdmissionFail)
    BY <2>1 DEF AdmissionFail, Apt, At
  <2> QED BY <2>1, <2>2, FailFastDeed
<1>5. CASE InvokeCall
  <2>1. At("invoke") /\ FailFast({"shapeless", "absent"}, InvokeFail)
    BY <1>5 DEF InvokeCall
  <2>2. InvokeFail \in Nat /\ Apt(InvokeFail)
    BY <2>1 DEF InvokeFail, Apt, At
  <2> QED BY <2>1, <2>2, FailFastDeed
<1>6. CASE VerifyVector
  <2>1. At("verify") /\ FailFast({"absent"}, 5)
    BY <1>6 DEF VerifyVector
  <2>2. Apt(5)
    BY <2>1 DEF Apt, At
  <2> QED BY <2>1, <2>2, FailFastDeed
<1>7. CASE VendorReport \/ AdmissionReport \/ DriverReport \/ InvokeReport
  BY <1>7, ReportDeed DEF VendorReport, AdmissionReport, DriverReport, InvokeReport
<1>8. CASE VerifyReport
  <2>1. Running /\ ~More /\ UNCHANGED <<input, wasm, pc>>
    BY <1>8 DEF VerifyReport, At
  <2>2. CASE Emit(TRUE, results) /\ UNCHANGED <<results, sp, status, exit>>
    BY <2>1, <2>2 DEF Deed, Reports
  <2>3. CASE Pushed /\ Crash /\ UNCHANGED results
    BY <2>1, <2>3 DEF Deed, Dies, Caused, Pushed
  <2>4. CASE Hang
    BY <2>1, <2>4 DEF Deed, Hangs, Hang
  <2> QED BY <1>8, <2>2, <2>3, <2>4 DEF VerifyReport
<1> QED BY <1>1, <1>2, <1>3, <1>4, <1>5, <1>6, <1>7, <1>8,
           ClimbDeed, ProbeDeed, DriverDeed, PeerDeed DEF Next, Step

-----------------------------------------------------------------------------
(* The invariant holds.                                                    *)

\* What is on stdout, when there is one object at most.
LEMMA OneOut ==
  ASSUME OneObject
  PROVE  /\ out = <<>> => ~OkObject
         /\ out # <<>> => Len(out) = 1 /\ (OkObject <=> out[1].ok)
BY DEF OneObject, Object, OkObject

\* Writing the one object.
LEMMA EmitOne ==
  ASSUME NEW b \in BOOLEAN, NEW rs, out = <<>>, Emit(b, rs)
  PROVE  /\ out' # <<>> /\ Len(out') = 1 /\ out'[1].ok = b /\ out'[1].results = rs
         /\ (OkObject)' = b
<1>1. out' = <<[ok |-> b, results |-> rs]>>
  BY DEF Emit
<1>2. out' # <<>> /\ Len(out') = 1 /\ out'[1] = [ok |-> b, results |-> rs]
  BY <1>1
<1> QED BY <1>2 DEF OkObject

\* Results come one by one, and a success is written when all are in.
LEMMA ResultStep ==
  ASSUME ResultInv, Deed, OneObject'
  PROVE  ResultInv'
<1>1. UNCHANGED <<host, req, calls>> /\ Asked' = Asked
  BY DEF Deed, input, Asked
<1>2. \A k, tag : Earned(k, tag)' <=> Earned(k, tag)
  BY <1>1 DEF Earned
<1>3. /\ calls' \in Seq(CallKinds)
      /\ host' \in {"probe", "peer"} => Len(calls') = 1 /\ req' # "nocalls"
  BY <1>1 DEF ResultInv
<1>4. host' = "peer" /\ pc' > 4 => calls'[1] \in {"law", "badargs"}
  <2>1. pc' = pc \/ (pc' = pc + 1 /\ (host = "peer" /\ pc = 4 => calls[1] \in {"law", "badargs"}))
    BY DEF Deed, Proceeds, Refuses, Dies, Faults, Gains, Reports, Hangs, Leaves
  <2>2. pc \in Nat
    BY DEF ResultInv, OneObject
  <2> QED BY <1>1, <2>1, <2>2 DEF ResultInv
<1>5. sp' \in Nat
  <2>1. sp' = sp \/ sp' = sp + 1
    BY DEF Deed, Proceeds, Refuses, Dies, Faults, Gains, Reports, Hangs, Leaves, Caused
  <2> QED BY <2>1 DEF ResultInv
<1> DEFINE T == [call : Nat, tag : Tags]
           Right(rs) ==
             /\ rs \in Seq(T)
             /\ Len(rs) <= Len(Asked)
             /\ \A k \in DOMAIN rs : rs[k].call = k /\ Earned(k, rs[k].tag)
<1>6. Right(results)
  BY DEF ResultInv
<1>7. Right(results')
  <2>1. CASE UNCHANGED results
    BY <1>6, <2>1
  <2>2. CASE Gains
    <3>1. PICK tag \in Tags : Earned(Len(results) + 1, tag) /\ Record(tag)
      BY <2>2 DEF Gains
    <3> DEFINE n == Len(results)
               r == [call |-> n + 1, tag |-> tag]
    <3>2. results' = Append(results, r) /\ r \in T /\ r.call = n + 1 /\ r.tag = tag
          /\ n \in Nat /\ tag \in Tags
      BY <1>6, <3>1 DEF Record
    <3>3. n < Len(Asked)
      BY <2>2 DEF Gains, More
    <3>4. Len(Asked) \in Nat
      <4>1. Asked \in Seq(CallKinds)
        BY DEF Asked, ResultInv
      <4> QED BY <4>1
    <3>5. results \in Seq(T) /\ DOMAIN results = 1 .. n
      BY <1>6
    <3> HIDE DEF T, r
    <3>6. /\ results' \in Seq(T) /\ Len(results') = n + 1 /\ DOMAIN results' = 1 .. n + 1
          /\ \A k \in 1 .. n : results'[k] = results[k]
          /\ results'[n + 1] = r
      BY <3>2, <3>5
    <3>7. ASSUME NEW k \in DOMAIN results'
          PROVE  results'[k].call = k /\ Earned(k, results'[k].tag)
      <4>1. CASE k = n + 1
        BY <3>1, <3>2, <3>6, <4>1
      <4>2. CASE k \in 1 .. n
        BY <1>6, <3>5, <3>6, <4>2
      <4> QED BY <3>2, <3>6, <4>1, <4>2
    <3> QED BY <3>2, <3>3, <3>4, <3>6, <3>7
  <2> QED BY <2>1, <2>2
       DEF Deed, Proceeds, Refuses, Dies, Faults, Reports, Hangs, Leaves
<1>8. out' = <<>> /\ host' \in {"probe", "peer"} => results' = <<>>
  <2>1. CASE UNCHANGED <<results, out>>
    BY <1>1, <2>1 DEF ResultInv
  <2>2. CASE out' # <<>>
    BY <2>2
  <2>3. CASE Gains
    <3>1. CASE host \in {"probe", "peer"}
      BY <2>3, <3>1, EmitOne DEF Gains, Running
    <3> QED BY <1>1, <3>1
  <2>4. CASE Refuses
    BY <2>4 DEF Refuses, Refuse, Running
  <2>5. CASE Faults \/ Reports
    BY <2>5, EmitOne DEF Faults, Reports, Running
  <2> QED BY <2>1, <2>2, <2>3, <2>4, <2>5
       DEF Deed, Proceeds, Dies, Crash, Hangs, Leaves
<1>9. out' # <<>> /\ out'[1].ok => out'[1].results = results' /\ Len(results') = Len(Asked')
  <2>1. CASE UNCHANGED <<results, out>>
    BY <1>1, <2>1 DEF ResultInv
  <2>2. CASE Refuses
    <3>1. out = <<>> /\ Emit(FALSE, <<>>)
      BY <2>2 DEF Refuses, Refuse, Emit, Running
    <3> QED BY <3>1, EmitOne
  <2>3. CASE Faults
    BY <2>3, EmitOne DEF Faults, Running
  <2>4. CASE Reports
    <3>1. out = <<>> /\ Emit(TRUE, results) /\ results' = results /\ ~More
      BY <2>4 DEF Reports, Running
    <3>2. out'[1].results = results
      BY <3>1, EmitOne
    <3>3. Len(results) = Len(Asked)
      <4>1. Asked \in Seq(CallKinds)
        BY DEF Asked, ResultInv
      <4> QED BY <1>6, <3>1, <4>1 DEF More
    <3> QED BY <1>1, <3>1, <3>2, <3>3
  <2>5. CASE Gains /\ host \in {"probe", "peer"}
    <3>1. out = <<>> /\ Emit(TRUE, results')
      BY <2>5 DEF Gains, Running
    <3>2. out'[1].results = results'
      BY <3>1, EmitOne
    <3>3. Len(Asked) = 1 /\ results = <<>>
      BY <2>5, <3>1, OneCall
    <3>4. \E r : results' = Append(results, r)
      BY <2>5 DEF Gains, Record
    <3>5. Len(results') = 1
      BY <3>3, <3>4
    <3> QED BY <1>1, <3>2, <3>3, <3>5
  <2>6. CASE Gains /\ host \notin {"probe", "peer"}
    BY <2>6 DEF Gains, Running
  <2> QED BY <2>1, <2>2, <2>3, <2>4, <2>5, <2>6 DEF Deed, Proceeds, Dies, Crash, Hangs, Leaves
<1> QED BY <1>1, <1>2, <1>3, <1>4, <1>5, <1>7, <1>8, <1>9 DEF ResultInv

\* A process ends as its object says, and only a cause makes it refuse.
LEMMA EndStep ==
  ASSUME ResultInv, EndInv, Deed
  PROVE  EndInv'
<1>1. /\ UNCHANGED <<host, req, calls, corpus>>
      /\ (Good' => Good)
  BY DEF Deed, input, Good
<1>2. sp \in Nat /\ OneObject
  BY DEF ResultInv
<1>3. /\ out = <<>> => ~OkObject
      /\ out # <<>> => Len(out) = 1 /\ (OkObject <=> out[1].ok)
  BY <1>2, OneOut
<1> DEFINE Coded == host \in {"vendor", "verify"}
<1>4. CASE Proceeds
  BY <1>1, <1>4 DEF EndInv, Proceeds, ExitAgrees, OkObject, Over
<1>5. CASE Refuses
  <2>1. PICK code \in Nat : Apt(code) /\ Refuse(code)
    BY <1>5 DEF Refuses
  <2>2. /\ status' = "exited" /\ exit' = code
        /\ out = <<>> /\ Emit(FALSE, <<>>)
    BY <1>5, <2>1 DEF Refuses, Refuse, Emit, Running
  <2>3. out' # <<>> /\ out'[1].ok = FALSE /\ (OkObject)' = FALSE
    BY <2>2, EmitOne
  <2>4. ~(Good /\ sp' = 0)
    BY <1>2, <1>5 DEF Refuses, Caused
  <2>5. (ExitAgrees)'
    BY <1>1, <2>1, <2>2, <2>3 DEF ExitAgrees, Apt, Over
  <2> QED BY <1>1, <2>2, <2>3, <2>4, <2>5 DEF EndInv
<1>6. CASE Dies
  <2>1. status' = "crashed" /\ exit' = 1 /\ out = <<>> /\ out' = <<>>
    BY <1>6 DEF Dies, Crash, Running
  <2>2. (OkObject)' = FALSE
    BY <2>1 DEF OkObject
  <2>3. ~(Good /\ sp' = 0)
    BY <1>2, <1>6 DEF Dies, Caused
  <2>4. (ExitAgrees)'
    BY <1>1, <2>1, <2>2 DEF ExitAgrees, Over
  <2> QED BY <1>1, <2>1, <2>3, <2>4 DEF EndInv
<1>7. CASE Faults
  <2>1. /\ host = "probe" /\ status = "running" /\ status' = "running"
        /\ out = <<>> /\ Emit(FALSE, <<>>) /\ exit' = exit
    BY <1>7 DEF Faults, Running
  <2>2. ~(Good /\ sp' = 0)
    BY <1>2, <1>7 DEF Faults, Caused
  <2>3. (ExitAgrees)'
    BY <1>1, <2>1 DEF ExitAgrees, Over
  <2> QED BY <1>1, <2>1, <2>2, <2>3 DEF EndInv
<1>8. CASE Gains
  <2>1. /\ status = "running" /\ status' = "running" /\ exit' = exit /\ out = <<>>
        /\ out' = <<>> \/ Emit(TRUE, results')
    BY <1>8 DEF Gains, Running
  <2>2. out' # <<>> => out'[1].ok
    BY <2>1, EmitOne
  <2>3. (ExitAgrees)'
    BY <2>1 DEF ExitAgrees, Over
  <2> QED BY <2>1, <2>2, <2>3 DEF EndInv
<1>9. CASE Reports
  <2>1. /\ status = "running" /\ status' = "running" /\ exit' = exit /\ out = <<>>
        /\ Emit(TRUE, results)
    BY <1>9 DEF Reports, Running
  <2>2. out'[1].ok
    BY <2>1, EmitOne
  <2>3. (ExitAgrees)'
    BY <2>1 DEF ExitAgrees, Over
  <2> QED BY <2>1, <2>2, <2>3 DEF EndInv
<1>10. CASE Hangs
  <2>1. status = "running" /\ status' = "hung" /\ out = <<>> /\ out' = <<>>
    BY <1>10 DEF Hangs, Running
  <2>2. (ExitAgrees)'
    BY <2>1 DEF ExitAgrees, Over
  <2> QED BY <2>1, <2>2 DEF EndInv
<1>11. CASE Leaves
  <2>1. /\ status = "running" /\ status' = "exited" /\ exit' = exit
        /\ out # <<>> /\ out' = out /\ sp' = sp
    BY <1>11 DEF Leaves
  <2>2. exit = 0 /\ (host # "probe" => out[1].ok)
    BY <2>1 DEF EndInv
  <2>3. (OkObject)' = OkObject
    BY <2>1 DEF OkObject
  <2>4. (ExitAgrees)'
    BY <1>1, <1>3, <2>1, <2>2, <2>3 DEF ExitAgrees, Over
  <2> QED BY <1>1, <2>1, <2>4 DEF EndInv
<1> QED BY <1>4, <1>5, <1>6, <1>7, <1>8, <1>9, <1>10, <1>11 DEF Deed

\* A process starts with no result, no object and exit status 0.
LEMMA InitResult == Init => ResultInv /\ EndInv
<1> SUFFICES ASSUME Init PROVE ResultInv /\ EndInv
  OBVIOUS
<1>1. calls \in Seq(CallKinds) /\ (host \in {"probe", "peer"} => Len(calls) = 1)
  <2>1. ASSUME NEW n \in Nat, NEW K, K \subseteq CallKinds, calls \in [1 .. n -> K]
        PROVE  calls \in Seq(CallKinds) /\ Len(calls) = n
    BY <2>1
  <2>2. CASE host \in {"probe", "peer"}
    BY <2>1, <2>2 DEF Init
  <2>3. CASE host \notin {"probe", "peer"}
    <3>1. PICK K \in {CallKinds, {"law", "absent"}} : calls \in Batches(K)
      BY <2>3 DEF Init
    <3>2. PICK n \in 0 .. MaxCalls : calls \in [1 .. n -> K]
      BY <3>1 DEF Batches
    <3>3. n \in Nat /\ K \subseteq CallKinds
      BY <3>1, <3>2, HostAssumption DEF CallKinds
    <3> QED BY <2>1, <2>3, <3>2, <3>3
  <2> QED BY <2>2, <2>3
<1>2. host \in {"probe", "peer"} => req # "nocalls"
  BY DEF Init, Requests
<1>3. OneObject
  BY DEF Init, OneObject
<1>4. results = <<>> /\ out = <<>> /\ pc = 1 /\ sp = 0 /\ status = "running" /\ exit = 0
  BY DEF Init
<1>5. Len(results) <= Len(Asked)
  <2>1. Asked \in Seq(CallKinds)
    BY <1>1 DEF Asked
  <2> QED BY <1>4, <2>1
<1>6. ResultInv
  BY <1>1, <1>2, <1>3, <1>4, <1>5 DEF ResultInv
<1>7. EndInv
  BY <1>4 DEF EndInv, ExitAgrees, Over
<1> QED BY <1>6, <1>7

\* Both invariants hold throughout.
LEMMA HostInvariant == Spec => [](ResultInv /\ EndInv)
<1>1. ResultInv /\ EndInv /\ [Next]_vars => (ResultInv /\ EndInv)'
  <2> SUFFICES ASSUME ResultInv, EndInv, [Next]_vars
               PROVE  (ResultInv /\ EndInv)'
    OBVIOUS
  <2>1. CASE Next
    <3>1. Deed
      BY <2>1, NextDeed
    <3>2. OneObject'
      BY <2>1, StepOutcome, OutcomeRefines DEF ResultInv
    <3> QED BY <3>1, <3>2, ResultStep, EndStep
  <2>2. CASE UNCHANGED vars
    <3>1. Asked' = Asked /\ OkObject' = OkObject /\ Over' = Over
      BY <2>2 DEF vars, Asked, OkObject, Over
    <3>2. ResultInv'
      BY <2>2, <3>1 DEF vars, ResultInv, OneObject, Object, Earned
    <3>3. EndInv'
      BY <2>2, <3>1 DEF vars, EndInv, ExitAgrees, Good
    <3> QED BY <3>2, <3>3
  <2> QED BY <2>1, <2>2
<1> QED BY <1>1, InitResult, PTL DEF Spec

\* OkIsEarned for requests with any number of calls: a caller that reads a
\* success has one result per call, in order, each out of the engine or, from
\* the driver only, the fault of that call.
THEOREM SuccessIsEarned == Spec => []OkIsEarned
<1>1. ResultInv => OkIsEarned
  <2> SUFFICES ASSUME ResultInv, Over, ReadsOk
               PROVE  LET rs == out[1].results
                      IN  /\ Len(rs) = Len(Asked)
                          /\ \A k \in DOMAIN rs :
                               /\ rs[k].call = k
                               /\ Earned(k, rs[k].tag)
    BY DEF OkIsEarned, Earned
  <2>1. host \in Hosts /\ OneObject
    BY DEF ResultInv, OneObject
  <2>2. OkObject
    BY <2>1, HostAssumption
       DEF ReadsOk, WasmHostDecode, WasmDecode, ProbeDecode, ShimDecode, DriverDecode,
           PeerDecode, MeasureDecode
  <2>3. out # <<>> /\ out[1].ok
    BY <2>1, <2>2, OneOut
  <2> QED BY <2>3 DEF ResultInv
<1> QED BY <1>1, HostInvariant, PTL

\* RefusalHasCause for requests with any number of calls: a good request, on a
\* module that stays and loads, is refused only after a trap.
THEOREM RefusalIsCaused == Spec => []RefusalHasCause
<1>1. ResultInv /\ EndInv => RefusalHasCause
  <2> SUFFICES ASSUME ResultInv, EndInv, Over, Good, ~(sp > 0)
               PROVE  ReadsOk
    BY DEF RefusalHasCause, Good
  <2>1. sp = 0 /\ host \in Hosts /\ OneObject
    BY DEF ResultInv, OneObject
  <2>2. status = "exited" /\ out # <<>> /\ out[1].ok
    BY <2>1 DEF EndInv, Over
  <2>3. OkObject
    BY <2>1, <2>2, OneOut
  <2>4. exit = 0
    BY <2>2, <2>3 DEF EndInv, ExitAgrees, Over
  <2>5. Len(out[1].results) = Len(calls)
    BY <2>2 DEF ResultInv, Asked, Good
  <2> QED BY <2>1, <2>3, <2>4, <2>5, HostAssumption
       DEF ReadsOk, WasmHostDecode, WasmDecode, ProbeDecode, ShimDecode, DriverDecode,
           PeerDecode, MeasureDecode
<1> QED BY <1>1, HostInvariant, PTL

\* ExitAgrees for every request: 0 is the exit status of the vendored host and
\* of the verifier exactly when they wrote a success, and of every other script
\* that wrote its object.
THEOREM ExitTellsOutcome == Spec => []ExitAgrees
<1>1. EndInv => ExitAgrees
  BY DEF EndInv
<1> QED BY <1>1, HostInvariant, PTL
=============================================================================
