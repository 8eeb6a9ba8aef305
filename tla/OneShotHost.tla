----------------------------- MODULE OneShotHost -----------------------------
(***************************************************************************)
(* The one-shot GraphLaw hosts: seven Node scripts that each read one      *)
(* request, load the wasm module, make its calls and write one JSON object *)
(* to stdout.                                                              *)
(*                                                                         *)
(*   "vendor"     priv/graphlaw/host/graphlaw_host.mjs                     *)
(*   "admission"  priv/graphlaw/graphlaw_host.mjs                          *)
(*   "probe"      priv/graphlaw/graphlaw_host_probe.mjs                    *)
(*   "driver"     priv/graphlaw/graphlaw_driver.mjs                        *)
(*   "invoke"     priv/graphlaw/graphlaw_invoke.mjs                        *)
(*   "peer"       priv/graphlaw/graphlaw_host_peer.mjs                     *)
(*   "verify"     priv/sa2a_graphlaw/verify.mjs                            *)
(*                                                                         *)
(* A behaviour is one process.  Its script is a ladder of checks, climbed  *)
(* in the order of the code while the wasm file may be taken away under    *)
(* it, then its calls on one instance, then its report.                    *)
(***************************************************************************)
EXTENDS Naturals, Sequences

CONSTANTS
  Hosts,       \* the scripts to run
  MaxCalls     \* bound: calls of a request, vectors of a corpus

ASSUME HostAssumption ==
  /\ Hosts \subseteq {"vendor", "admission", "probe", "driver", "invoke", "peer", "verify"}
  /\ MaxCalls \in Nat \ {0}

VARIABLES
  host,      \* the script
  wasm,      \* the file the request names as the module
  req,       \* the request, as far as the scripts tell requests apart
  calls,     \* the calls it asks for, or the vectors of the corpus
  corpus,    \* the corpus directory of "verify"
  pc,        \* the rung of the ladder
  results,   \* what the calls gave so far
  sp,        \* frames of 16 bytes left on the stack of the instance
  out,       \* the JSON objects on stdout
  status,    \* "running", "exited", "crashed" or "hung"
  exit       \* the exit status

vars == <<host, wasm, req, calls, corpus, pc, results, sp, out, status, exit>>

input == <<host, req, calls, corpus>>

-----------------------------------------------------------------------------
(* What a process may be started on. *)

WasmFiles == {"good", "missing", "junk", "unlinkable"}

\* "absent": too few arguments on the command line; "unnamed": no module
\* named; "nocalls": calls is not an array.  Each script can be started on
\* the requests it has the means to tell apart.
Requests(h) ==
  CASE h \in {"vendor", "driver"} ->
         {"good", "unreadable", "malformed", "null", "unnamed", "nocalls"}
    [] h = "admission" ->
         {"good", "absent", "unreadable", "malformed", "null", "unnamed", "nocalls"}
    [] h = "invoke" -> {"good", "absent", "unreadable", "malformed", "null", "nocalls"}
    [] h = "peer"   -> {"good", "absent", "unreadable", "malformed", "null", "unnamed"}
    [] h = "probe"  -> {"good", "absent", "unnamed"}
    [] h = "verify" -> {"good", "absent"}

\* A call of one of the five GraphLaw functions with strings ("law"), of
\* another export ("other"), of no export ("absent"), an entry with no
\* function name ("shapeless"), and a call with an argument that is not a
\* string, or a file argument that cannot be read ("badargs").  A vector of
\* the corpus is "law", or "absent" when one of its files cannot be read.
CallKinds == {"law", "other", "absent", "shapeless", "badargs"}

Corpora == {"whole", "nomanifest", "badmanifest", "torn", "nofiles"}

Batches(kinds) == UNION {[1 .. n -> kinds] : n \in 0 .. MaxCalls}

Init ==
  /\ host \in Hosts
  /\ wasm \in WasmFiles
  /\ req \in Requests(host)
  /\ calls \in IF host \in {"probe", "peer"} THEN [1 .. 1 -> CallKinds]
               ELSE IF host = "verify" THEN Batches({"law", "absent"})
               ELSE Batches(CallKinds)
  /\ corpus \in IF host = "verify" THEN Corpora ELSE {"whole"}
  /\ pc = 1 /\ results = <<>> /\ sp = 0
  /\ out = <<>> /\ status = "running" /\ exit = 0

\* The artifact is replaced or removed while a host starts.
WasmRemoved ==
  /\ status = "running"
  /\ wasm = "good"
  /\ wasm' = "missing"
  /\ UNCHANGED <<input, pc, results, sp, out, status, exit>>

-----------------------------------------------------------------------------
(* The ladders.  A rung holds or not; if not, the script refuses with an   *)
(* exit status, or dies on an error nobody catches.                        *)

Rung(ok, code) == [ok |-> ok, catches |-> TRUE, code |-> code]

Uncaught(ok) == [ok |-> ok, catches |-> FALSE, code |-> 1]

Readable == wasm # "missing"
Compiles == wasm # "junk"
Links    == wasm # "unlinkable"
Loads    == Readable /\ Compiles /\ Links

\* Mutant: fail() of the vendored host exits like that of the other scripts.
VendorFailQuietly == 0

\* The exit status of each script's fail().
VendorFail == 1

AdmissionFail == 0

ProbeFail == 0

DriverFail == 0

InvokeFail == 0

PeerFail == 0

VendorRequest ==
  << Rung(req # "unreadable", VendorFail),
     Rung(req # "malformed", VendorFail),
     Rung(req \notin {"null", "unnamed"}, VendorFail) >>

VendorModule ==
  << Rung(Readable, VendorFail), Rung(Compiles, VendorFail) >>

VendorInstance == << Rung(Links, VendorFail) >>

AdmissionRequest ==
  << Rung(req # "absent", AdmissionFail),
     Rung(req \notin {"unreadable", "malformed"}, AdmissionFail),
     Rung(req \notin {"null", "unnamed"}, AdmissionFail),
     Rung(Readable, AdmissionFail),
     Rung(req # "nocalls", AdmissionFail) >>

AdmissionInstance == << Rung(Loads, AdmissionFail) >>

ProbeRequest ==
  << Rung(req # "absent", ProbeFail),
     Rung(req # "unnamed", ProbeFail),
     Rung(Readable, ProbeFail) >>

ProbeInstance == << Rung(Loads, ProbeFail) >>

\* The driver reads its stdin with a promise nobody catches, and a request
\* that is null has no field to read.
DriverRequest ==
  << Uncaught(req # "unreadable"),
     Rung(req # "malformed", DriverFail),
     Uncaught(req # "null"),
     Rung(req # "unnamed", DriverFail),
     Rung(Readable, DriverFail),
     Rung(req # "nocalls", DriverFail) >>

DriverInstance == << Rung(Loads, DriverFail) >>

InvokeRequest ==
  << Rung(req # "absent", InvokeFail),
     Rung(Readable, InvokeFail),
     Rung(req \notin {"unreadable", "malformed"}, InvokeFail) >>

InvokeInstance == << Rung(Compiles /\ Links, InvokeFail) >>

\* Mutant: a request without a call is refused.
InvokeCallsNonEmpty == << Rung(req # "null" /\ calls # <<>>, InvokeFail) >>

\* A request that is null has no calls to read, and the catch says so.
InvokeCalls == << Rung(req # "null", InvokeFail) >>

PeerRequest ==
  << Rung(req # "unnamed", PeerFail),
     Rung(Readable, PeerFail),
     Rung(req \notin {"absent", "unreadable", "malformed"}, PeerFail),
     Rung(req # "null" /\ calls[1] \in {"law", "badargs"}, PeerFail) >>

\* Mutant: main() is started without its catch.
PeerInstanceUncaught ==
  << Uncaught(Readable), Rung(Compiles /\ Links, PeerFail) >>

\* The module is read a second time outside of any try; main().catch is left.
PeerInstance ==
  << Rung(Readable, PeerFail), Rung(Compiles /\ Links, PeerFail) >>

\* The module is looked for here, and read and instantiated after it.
VerifyArguments ==
  << Rung(req # "absent", 2), Rung(Readable, 3) >>

VerifyInstance == << Uncaught(Readable), Uncaught(Compiles /\ Links) >>

VerifyManifest ==
  << Rung(corpus # "nomanifest", 4), Rung(corpus # "badmanifest", 4) >>

\* The nine files every vector needs are read outside of any try; a manifest
\* that lists no files is met inside the try around the vectors.
VerifyCorpus == << Uncaught(corpus # "torn"), Rung(corpus # "nofiles", 5) >>

Ladder ==
  CASE host = "vendor"    -> VendorRequest \o VendorModule \o VendorInstance
    [] host = "admission" -> AdmissionRequest \o AdmissionInstance
    [] host = "probe"     -> ProbeRequest \o ProbeInstance
    [] host = "driver"    -> DriverRequest \o DriverInstance
    [] host = "invoke"    -> InvokeRequest \o InvokeInstance \o InvokeCalls
    [] host = "peer"      -> PeerRequest \o PeerInstance
    [] host = "verify"    -> VerifyArguments \o VerifyInstance
                               \o VerifyManifest \o VerifyCorpus

-----------------------------------------------------------------------------
(* Steps every script shares. *)

Running == status = "running" /\ out = <<>>

Refuse(code) ==
  /\ out' = Append(out, [ok |-> FALSE, results |-> <<>>])
  /\ status' = "exited"
  /\ exit' = code

Crash ==
  /\ status' = "crashed"
  /\ exit' = 1
  /\ UNCHANGED out

\* One rung of the ladder.
Climb ==
  /\ Running /\ pc <= Len(Ladder)
  /\ LET rung == Ladder[pc]
     IN  \/ rung.ok /\ pc' = pc + 1 /\ UNCHANGED <<out, status, exit>>
         \/ ~rung.ok /\ rung.catches /\ Refuse(rung.code) /\ UNCHANGED pc
         \/ ~rung.ok /\ ~rung.catches /\ Crash /\ UNCHANGED pc
  /\ UNCHANGED <<input, wasm, results, sp>>

\* The calls: an array that is none is an empty one where it is not refused.
Asked == IF req = "nocalls" THEN <<>> ELSE calls

At(h) ==
  /\ host = h
  /\ Running /\ pc > Len(Ladder)
  /\ UNCHANGED <<input, wasm, pc>>

More == Len(results) < Len(Asked)

Kind == Asked[Len(results) + 1]

Record(tag) == results' = Append(results, [call |-> Len(results) + 1, tag |-> tag])

\* An exported function gives a string, which may be the engine's own
\* {"error": ...}, or traps with its frame still on the stack, or hangs.
Returns == {"value", "engine_error"}

Pushed == sp' = sp + 1

Hang == status' = "hung" /\ UNCHANGED <<results, sp, out, exit>>

Emit(ok, rs) == out' = Append(out, [ok |-> ok, results |-> rs])

\* A call of a script that gives up on the first fault.
FailFast(refused, code) ==
  /\ More
  /\ \/ /\ Kind \in refused
        /\ Refuse(code)
        /\ UNCHANGED <<results, sp>>
     \/ /\ Kind \notin refused
        /\ \/ \E o \in Returns : Record(o) /\ UNCHANGED <<sp, out, status, exit>>
           \/ Pushed /\ Refuse(code) /\ UNCHANGED results
           \/ Hang

\* Every result is in: one object on stdout.
Report ==
  /\ ~More
  /\ Emit(TRUE, results)
  /\ UNCHANGED <<results, sp, status, exit>>

\* The script has run out of things to do.
Drain ==
  /\ status = "running" /\ out # <<>>
  /\ status' = "exited"
  /\ UNCHANGED <<input, wasm, pc, results, sp, out, exit>>

-----------------------------------------------------------------------------
(* The calls of each script. *)

VendorCall == At("vendor") /\ FailFast({"shapeless", "absent"}, VendorFail)

VendorReport == At("vendor") /\ Report

\* The admission host serves the five functions, with strings, only.
AdmissionCall ==
  /\ At("admission")
  /\ FailFast({"shapeless", "absent", "other", "badargs"}, AdmissionFail)

AdmissionReport == At("admission") /\ Report

\* One operation; a throw is reported by the last statement of the script.
ProbeCall ==
  /\ At("probe")
  /\ \/ /\ Kind \in {"other", "absent", "shapeless"}
        /\ Refuse(ProbeFail)
        /\ UNCHANGED <<results, sp>>
     \/ /\ Kind = "badargs"
        /\ Emit(FALSE, <<>>)
        /\ UNCHANGED <<results, sp, status, exit>>
     \/ /\ Kind = "law"
        /\ \/ \E o \in Returns :
                /\ Record(o) /\ Emit(TRUE, results') /\ UNCHANGED sp
           \/ Pushed /\ Emit(FALSE, <<>>) /\ UNCHANGED results
        /\ UNCHANGED <<status, exit>>
     \/ Kind = "law" /\ Hang

\* Mutant: a call that cannot be served gets an empty success.
DriverCallOkays ==
  /\ At("driver") /\ More
  /\ \/ Kind \in {"shapeless", "badargs", "absent"} /\ Record("value") /\ UNCHANGED sp
     \/ /\ Kind \in {"law", "other"}
        /\ \/ \E o \in Returns : Record(o) /\ UNCHANGED sp
           \/ Pushed /\ Record("trap")
  /\ UNCHANGED <<out, status, exit>>

\* The driver answers call by call: a fault is that call's result, and the
\* next call runs on the same instance.
DriverCall ==
  /\ At("driver") /\ More
  /\ \/ /\ Kind \in {"shapeless", "badargs", "absent"}
        /\ Record("refused")
        /\ UNCHANGED <<sp, out, status, exit>>
     \/ /\ Kind \in {"law", "other"}
        /\ \/ \E o \in Returns : Record(o) /\ UNCHANGED sp
           \/ Pushed /\ Record("trap")
        /\ UNCHANGED <<out, status, exit>>
     \/ Kind \in {"law", "other"} /\ Hang

DriverReport == At("driver") /\ Report

\* Arguments that are no strings are made strings.
InvokeCall == At("invoke") /\ FailFast({"shapeless", "absent"}, InvokeFail)

InvokeReport == At("invoke") /\ Report

PeerCall ==
  /\ At("peer")
  /\ \/ \E o \in Returns :
          /\ Record(o) /\ Emit(TRUE, results')
          /\ UNCHANGED <<sp, status, exit>>
     \/ Pushed /\ Refuse(PeerFail) /\ UNCHANGED results
     \/ Hang

\* A vector of the corpus: its files are read, three validations, one hook
\* run and two hashes are made.  An {"error": ...} of a validation leaves
\* its fields out of the report.
VerifyVector == At("verify") /\ FailFast({"absent"}, 5)

\* The last two calls are outside of any try.
VerifyReport ==
  /\ At("verify") /\ ~More
  /\ \/ Emit(TRUE, results) /\ UNCHANGED <<results, sp, status, exit>>
     \/ Pushed /\ Crash /\ UNCHANGED results
     \/ Hang

Step ==
  \/ Climb \/ Drain
  \/ VendorCall \/ VendorReport \/ AdmissionCall \/ AdmissionReport
  \/ ProbeCall \/ DriverCall \/ DriverReport
  \/ InvokeCall \/ InvokeReport \/ PeerCall
  \/ VerifyVector \/ VerifyReport

Next == Step \/ WasmRemoved

Spec == Init /\ [][Next]_vars

\* A process that can go on does.
FairSpec == Spec /\ WF_vars(Step)

-----------------------------------------------------------------------------
(* What the callers on the BEAM read.  Each decoder wants exactly one JSON *)
(* object.                                                                 *)

OkObject == Len(out) = 1 /\ out[1].ok

WasmHostDecode == OkObject
WasmDecode     == exit = 0 /\ OkObject
ProbeDecode    == OkObject
ShimDecode     == OkObject
DriverDecode   == exit = 0 /\ OkObject /\ Len(out[1].results) = Len(calls)
PeerDecode     == exit = 0 /\ OkObject
MeasureDecode  == exit = 0 /\ OkObject

ReadsOk ==
  CASE host = "vendor"    -> WasmHostDecode
    [] host = "admission" -> WasmDecode
    [] host = "probe"     -> ProbeDecode
    [] host = "driver"    -> DriverDecode
    [] host = "invoke"    -> ShimDecode
    [] host = "peer"      -> PeerDecode
    [] host = "verify"    -> MeasureDecode

-----------------------------------------------------------------------------
(* Properties. *)

Over == status \in {"exited", "crashed"}

\* A caller that reads a success has one result for every call it asked
\* for, in the order it asked, each of them out of the engine; only the
\* driver's list may hold the faults of single calls, and then exactly of
\* the calls that could not be served or trapped.
OkIsEarned ==
  Over /\ ReadsOk =>
    LET rs == out[1].results
    IN  /\ Len(rs) = Len(Asked)
        /\ \A k \in DOMAIN rs :
             /\ rs[k].call = k
             /\ \/ rs[k].tag \in Returns /\ Asked[k] # "absent"
                \/ host = "driver" /\ rs[k].tag = "trap"
                \/ host = "driver" /\ rs[k].tag = "refused" /\ Asked[k] \notin {"law", "other"}

\* A refusal has a cause: a good request for GraphLaw functions, on a module
\* that loads and stays where it is, is refused only after a trap.
RefusalHasCause ==
  Over /\ ~ReadsOk =>
    \/ req # "good" \/ wasm # "good" \/ corpus # "whole" \/ sp > 0
    \/ \E k \in DOMAIN calls : calls[k] # "law"

\* The exit status of the vendored host is 0 on success and 1 otherwise, the
\* verifier's is 0 only on success, and every other script that wrote its
\* object exits 0, so that a caller who looks at the status first never
\* mistakes a refusal for a crash.
ExitAgrees ==
  /\ host \in {"vendor", "verify"} /\ Over => (exit = 0 <=> OkObject)
  /\ host \notin {"vendor", "verify"} /\ status = "exited" => exit = 0

\* Which object a reader of stdout has.
Answer ==
  IF out = <<>> THEN "none"
  ELSE IF Len(out) > 1 THEN "many"
  ELSE IF out[1].ok THEN "ok" ELSE "refused"

\* Which scripts can die without a word: the verifier, and the driver on an
\* unreadable stdin or on a request that is null.
Fragile == host = "verify" \/ (host = "driver" /\ req \in {"unreadable", "null"})

Contract == INSTANCE HostContract WITH answer <- Answer, status <- status, fragile <- Fragile

\* Each script implements the contract of a one-shot host: one object, then
\* the end, whatever is wrong with the request, the module or the engine and
\* whenever the module is taken away.
HonoursContract == Contract!Spec
=============================================================================
