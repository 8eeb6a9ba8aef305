------------------------------ MODULE RuntimeB ------------------------------
(***************************************************************************)
(* A session of AshA2A.GraphLaw.RuntimeB: the BEAM process that owns it,   *)
(* the port with its {:packet, 4} framing, and the Node process            *)
(* priv/graphlaw_host/graphlaw_host.mjs that serves calls of one wasm      *)
(* instance for as long as the session lasts.                              *)
(*                                                                         *)
(* The byte stream to the host is a sequence of units: each frame is       *)
(* HeaderLen units of length and a payload.  The host sees the stream in   *)
(* chunks cut anywhere.  Replies are whole frames: the host writes each    *)
(* one with a single write, and the port driver reassembles them.          *)
(***************************************************************************)
EXTENDS WasmAbi

CONSTANTS
  Strings,       \* the strings a call may carry
  Calls,         \* the calls the owner makes: records [fn, args]
  Strays,        \* frames of another sender: "malformed", "null", ...
  HeaderLen,     \* units of a frame's length field
  StackFrames,   \* frames of 16 bytes the wasm stack holds
  MaxRequests,   \* bound: requests of the session
  MaxStrays,     \* bound: frames of another sender
  MaxGrowth      \* bound: growths of the linear memory

ASSUME SessionAssumption ==
  /\ \A c \in Calls : c.args \in Seq(Strings)
  /\ HeaderLen \in Nat \ {0}
  /\ StackFrames \in Nat
  /\ MaxRequests \in Nat \ {0}
  /\ MaxStrays \in Nat
  /\ MaxGrowth \in Nat

VARIABLES
  phase,      \* what the owner does with the session
  waiting,    \* the id its request/2 waits for, NoId when it waits for none
  next,       \* the session's counter
  outcome,    \* what request/2 returned, by id
  box,        \* the owner's mailbox: the messages of this port
  portOpen,   \* the port is open
  sent,       \* history: the frames written to the host, in order
  stream,     \* units on their way to the host
  host,       \* where the host's event loop is
  buffer,     \* the host's buffer of units
  cur,        \* the call being made
  inst,       \* the wasm instance
  replied,    \* history: the frames the host wrote, in order
  delivered,  \* how many of them the port has passed on
  trapped     \* history: ids of the calls the engine trapped in

vars == <<phase, waiting, next, outcome, box, portOpen, sent, stream, host,
          buffer, cur, inst, replied, delivered, trapped>>

clientVars == <<phase, waiting, next, outcome>>
wireVars   == <<box, portOpen, sent, stream, delivered>>
hostVars   == <<host, buffer, cur, inst, replied, trapped>>

-----------------------------------------------------------------------------
(* Messages. *)

\* The id of a frame that carries none: -1 in the host's replies.
NoId == 0

Message(id, op, fn, args) == [id |-> id, op |-> op, fn |-> fn, args |-> args]

Malformed == Message(NoId, "malformed", "none", <<>>)

\* A frame's payload is longer when it carries arguments.
PayloadLen(m) == IF m.args = <<>> THEN 1 ELSE 2

\* The units of the frame that is written as number k.
Units(k, m) ==
  [p \in 1 .. HeaderLen + PayloadLen(m) |-> [frame |-> k, part |-> p]]

\* JSON.parse of a payload: its message when the units are exactly the
\* payload of one frame, a syntax error when they are anything else.
Parse(payload) ==
  LET k == Head(payload).frame
  IN  IF payload = SubSeq(Units(k, sent[k]), HeaderLen + 1,
                          HeaderLen + PayloadLen(sent[k]))
      THEN sent[k] ELSE Malformed

Reply(id, ok, value) == [id |-> id, ok |-> ok, value |-> value]

\* What the engine computes from the strings it finds in its memory.
Digest(fn, found) == <<fn, found>>

None == [tag |-> "none", value |-> <<>>]
NoCall == [id |-> NoId, fn |-> "none", args |-> <<>>, flat |-> <<>>, ret |-> 0]

-----------------------------------------------------------------------------
(* The owner: AshA2A.GraphLaw.RuntimeB. *)

Init ==
  /\ phase = "new" /\ waiting = NoId /\ next = 1
  /\ outcome = [i \in 1 .. MaxRequests |-> None]
  /\ box = <<>> /\ portOpen = FALSE /\ sent = <<>> /\ stream = <<>>
  /\ host = "none" /\ buffer = <<>> /\ cur = NoCall /\ inst = NewInstance
  /\ replied = <<>> /\ delivered = 0 /\ trapped = {}

\* Frames written to a closed port are dropped without a word.
WriteFrame(m, open) ==
  /\ sent' = IF open THEN Append(sent, m) ELSE sent
  /\ stream' = IF open THEN stream \o Units(Len(sent) + 1, m) ELSE stream

\* request/2: take an id, write the frame, wait.
Request(op, fn, args, open) ==
  /\ next <= MaxRequests
  /\ WriteFrame(Message(next, op, fn, args), open)
  /\ waiting' = next
  /\ next' = next + 1

\* open/1: start the host and ask for its descriptor.
Open ==
  /\ phase = "new"
  /\ portOpen' = TRUE
  /\ host' = "boot"
  /\ Request("descriptor", "none", <<>>, TRUE)
  /\ phase' = "opening"
  /\ UNCHANGED <<outcome, box, delivered, buffer, cur, inst, replied, trapped>>

\* The functions the host serves, with their number of strings.
Arity ==
  [graphlaw_version |-> 0, validate_all |-> 5, graph_hash |-> 1,
   run_hooks |-> 2, blake3_hex |-> 1]

Wellformed(fn, args) == fn \in DOMAIN Arity /\ Len(args) = Arity[fn]

\* call/3: a call whose arity is wrong is refused before anything is sent.
Call(c) ==
  /\ phase = "idle"
  /\ Wellformed(c.fn, c.args)
  /\ Request("call", c.fn, c.args, portOpen)
  /\ phase' = "calling"
  /\ UNCHANGED <<outcome, box, portOpen, delivered>>
  /\ UNCHANGED hostVars

\* close/1: a live port is asked to close first.
Close ==
  /\ phase \in {"idle", "failed"}
  /\ \/ /\ portOpen
        /\ Request("close", "none", <<>>, TRUE)
        /\ phase' = "closing"
     \/ /\ ~portOpen
        /\ phase' = "closed"
        /\ UNCHANGED <<waiting, next, sent, stream>>
  /\ UNCHANGED <<outcome, box, portOpen, delivered>>
  /\ UNCHANGED hostVars

\* Mutant: whatever the port delivers is taken for the answer.
DecodeAny(reply, id) ==
  [tag |-> IF reply.ok THEN "ok" ELSE "error", value |-> reply.value]

\* Mutant: the reply of an earlier request will do.
DecodeOlder(reply, id) ==
  IF reply.id <= id
  THEN [tag |-> IF reply.ok THEN "ok" ELSE "error", value |-> reply.value]
  ELSE [tag |-> "mismatch", value |-> <<>>]

\* decode_response/2: a reply is this request's only if it carries its id.
DecodeResponse(reply, id) ==
  IF reply.id = id
  THEN [tag |-> IF reply.ok THEN "ok" ELSE "error", value |-> reply.value]
  ELSE [tag |-> "mismatch", value |-> <<>>]

\* What the owner does once its request/2 has returned r.
Returned(r) ==
  /\ outcome' = [outcome EXCEPT ![waiting] = r]
  /\ waiting' = NoId
  /\ phase' = CASE phase = "opening" -> IF r.tag = "ok" THEN "idle" ELSE "failed"
                [] phase = "calling" -> "idle"
                [] phase = "closing" -> "closed"
  /\ portOpen' = (portOpen /\ phase # "closing")
  /\ UNCHANGED <<next, sent, stream, delivered>>
  /\ UNCHANGED hostVars

\* request/2 takes the oldest message of the port, whatever it answers.
Receive ==
  /\ waiting # NoId
  /\ box # <<>>
  /\ box' = Tail(box)
  /\ LET msg == Head(box)
     IN  Returned(IF msg.kind = "exit" THEN [tag |-> "exited", value |-> <<>>]
                  ELSE DecodeResponse(msg.reply, waiting))

\* Nothing arrived within @call_timeout.
Timeout ==
  /\ waiting # NoId
  /\ box = <<>>
  /\ Returned([tag |-> "timeout", value |-> <<>>])
  /\ UNCHANGED box

\* A frame written to the host's stdin by something else than request/2.
Stray(op) ==
  /\ portOpen
  /\ Cardinality({k \in DOMAIN sent : sent[k].id = NoId}) < MaxStrays
  /\ WriteFrame(Message(NoId, op, "none", <<>>), TRUE)
  /\ UNCHANGED <<box, portOpen, delivered>>
  /\ UNCHANGED clientVars
  /\ UNCHANGED hostVars

\* The port passes a reply on to its owner's mailbox.
PortData ==
  /\ portOpen
  /\ delivered < Len(replied)
  /\ box' = Append(box, [kind |-> "data", reply |-> replied[delivered + 1]])
  /\ delivered' = delivered + 1
  /\ UNCHANGED <<portOpen, sent, stream>>
  /\ UNCHANGED clientVars
  /\ UNCHANGED hostVars

\* The port reports the end of its process once the output is drained.
PortExit ==
  /\ portOpen
  /\ host = "exited"
  /\ delivered = Len(replied)
  /\ box' = Append(box, [kind |-> "exit", reply |-> Reply(NoId, FALSE, <<>>)])
  /\ portOpen' = FALSE
  /\ UNCHANGED <<sent, stream, delivered>>
  /\ UNCHANGED clientVars
  /\ UNCHANGED hostVars

\* The process that owns the session ends, by a crash or a kill, and with it
\* its mailbox and what it was told: the BEAM closes its ports, and no close
\* frame is written.
OwnerDies ==
  /\ portOpen
  /\ phase' = "closed" /\ waiting' = NoId
  /\ outcome' = [i \in 1 .. MaxRequests |-> None]
  /\ portOpen' = FALSE /\ box' = <<>>
  /\ UNCHANGED <<next, sent, stream, delivered>>
  /\ UNCHANGED hostVars

-----------------------------------------------------------------------------
(* The host: priv/graphlaw_host/graphlaw_host.mjs. *)

\* Reading, compiling and instantiating the module; a fault is uncaught.
Boot ==
  /\ host = "boot"
  /\ host' \in {"idle", "exited"}
  /\ UNCHANGED <<buffer, cur, inst, replied, trapped>>
  /\ UNCHANGED clientVars
  /\ UNCHANGED wireVars

\* stdin 'data': a chunk of any size is added to the buffer.
Data ==
  /\ host = "idle"
  /\ \E n \in 1 .. Len(stream) :
       /\ buffer' = buffer \o SubSeq(stream, 1, n)
       /\ stream' = SubSeq(stream, n + 1, Len(stream))
  /\ host' = "parse"
  /\ UNCHANGED <<cur, inst, replied, trapped, box, portOpen, sent, delivered>>
  /\ UNCHANGED clientVars

\* The length the header names, once it is complete.
FrameLen(b) == PayloadLen(sent[Head(b).frame])

FrameComplete(b) == Len(b) >= HeaderLen /\ Len(b) >= HeaderLen + FrameLen(b)

\* The rest of a frame is yet to come.
NeedMore ==
  /\ host = "parse"
  /\ ~FrameComplete(buffer)
  /\ host' = "idle"
  /\ UNCHANGED <<buffer, cur, inst, replied, trapped>>
  /\ UNCHANGED clientVars
  /\ UNCHANGED wireVars

Payload(b) == SubSeq(b, HeaderLen + 1, HeaderLen + FrameLen(b))

\* Mutant: the buffer is emptied once a frame is taken off it.
RestDropped(b) == <<>>

\* What the buffer holds after its first frame.
Rest(b) == SubSeq(b, HeaderLen + FrameLen(b) + 1, Len(b))

\* Mutant: one frame is handled for each chunk.
OneFramePerChunk == "idle"

\* Where the loop goes after a frame: on to the next one.
NextFrame == "parse"

\* The request of the first frame of the buffer.
Incoming == Parse(Payload(buffer))

\* One complete frame is taken off the buffer.
Take ==
  /\ host = "parse"
  /\ FrameComplete(buffer)
  /\ buffer' = Rest(buffer)
  /\ UNCHANGED clientVars
  /\ UNCHANGED wireVars

\* writeFrame: one write of one whole frame.
Respond(reply) == replied' = Append(replied, reply)

\* What handle/1 throws before it has touched the instance.
Refusable(m) ==
  \/ m.op \in {"malformed", "unknown"}
  \/ m.op = "call" /\ ~Wellformed(m.fn, m.args)

TakeRefused ==
  /\ Take
  /\ Refusable(Incoming)
  /\ Respond(Reply(Incoming.id, FALSE, <<>>))
  /\ host' = NextFrame
  /\ UNCHANGED <<cur, inst, trapped>>

\* A payload of "null" makes handle/1 throw and the handler of that throw
\* read the id of null, which nobody catches.
TakeNull ==
  /\ Take
  /\ Incoming.op = "null"
  /\ host' = "exited"
  /\ UNCHANGED <<cur, inst, replied, trapped>>

TakeDescriptor ==
  /\ Take
  /\ Incoming.op = "descriptor"
  /\ Respond(Reply(Incoming.id, TRUE, <<"descriptor">>))
  /\ host' = NextFrame
  /\ UNCHANGED <<cur, inst, trapped>>

\* A close is answered, and whatever is behind it in the buffer is not.
TakeClose ==
  /\ Take
  /\ Incoming.op = "close"
  /\ Respond(Reply(Incoming.id, TRUE, <<"closing">>))
  /\ host' = "exited"
  /\ UNCHANGED <<cur, inst, trapped>>

\* callGraphLaw: the frame of the result pointer is pushed first.
TakeCall ==
  /\ Take
  /\ Incoming.op = "call"
  /\ ~Refusable(Incoming)
  /\ cur' = [NoCall EXCEPT !.id = Incoming.id, !.fn = Incoming.fn,
                           !.args = Incoming.args]
  /\ inst' = Push(inst)
  /\ host' = "put"
  /\ UNCHANGED <<replied, trapped>>

\* Mutant: the error path restores the stack pointer once too often.
AbandonPopsTwice(i) ==
  /\ Respond(Reply(cur.id, FALSE, <<>>))
  /\ inst' = Pop(Pop(i))
  /\ cur' = NoCall
  /\ host' = NextFrame

\* Mutant: the error reply forgets which request it answers.
AbandonUnnamed(i) ==
  /\ Respond(Reply(NoId, FALSE, <<>>))
  /\ inst' = i
  /\ cur' = NoCall
  /\ host' = NextFrame

\* An error inside a call is answered; the stack pointer and the argument
\* blocks stay as they are.
Abandon(i) ==
  /\ Respond(Reply(cur.id, FALSE, <<>>))
  /\ inst' = i
  /\ cur' = NoCall
  /\ host' = NextFrame

\* Mutant: the typed array is made before the allocation.
PutStringStale(i, s, grow) ==
  LET j == Malloc(i, grow)
      p == Fresh(i)
      v == View(i)
  IN  [inst   |-> IF Detached(j, v) THEN j ELSE Store(j, p, Bytes(s)),
       ptr    |-> p,
       thrown |-> Detached(j, v)]

\* putString: allocate at least one byte, then write through a typed array
\* made after the allocation.
PutString(i, s, grow) ==
  LET j == Malloc(i, grow)
      p == Fresh(i)
      v == View(j)
  IN  [inst   |-> IF Detached(j, v) THEN j ELSE Store(j, p, Bytes(s)),
       ptr    |-> p,
       thrown |-> Detached(j, v)]

MayGrow == {g \in BOOLEAN : g => inst.gen < MaxGrowth}

PutArgument ==
  /\ host = "put"
  /\ Len(cur.flat) < Len(cur.args)
  /\ \E grow \in MayGrow :
       LET put == PutString(inst, cur.args[Len(cur.flat) + 1], grow)
       IN  IF put.thrown
           THEN Abandon(put.inst) /\ UNCHANGED trapped
           ELSE /\ inst' = put.inst
                /\ cur' = [cur EXCEPT !.flat = Append(@, put.ptr)]
                /\ UNCHANGED <<host, replied, trapped>>
  /\ UNCHANGED buffer
  /\ UNCHANGED clientVars
  /\ UNCHANGED wireVars

\* The engine reads its arguments, frees the blocks it was given bytes of,
\* and leaves the address of its result in the pushed frame.
EngineReturns ==
  /\ host = "put"
  /\ Len(cur.flat) = Len(cur.args)
  /\ inst.sp <= StackFrames
  /\ \E grow \in MayGrow :
       LET found == [k \in DOMAIN cur.flat |-> inst.heap[cur.flat[k]]]
           owned == {cur.flat[k] : k \in {x \in DOMAIN cur.flat : cur.args[x] # Empty}}
           after == FreeAll(inst, owned)
       IN  /\ inst' = Grown(Store(after, Fresh(after), Digest(cur.fn, found)), grow)
           /\ cur' = [cur EXCEPT !.ret = Fresh(after)]
  /\ host' = "result"
  /\ UNCHANGED <<buffer, replied, trapped>>
  /\ UNCHANGED clientVars
  /\ UNCHANGED wireVars

\* The engine traps; once the stack is used up it always does.
EngineTraps ==
  /\ host = "put"
  /\ Len(cur.flat) = Len(cur.args)
  /\ Abandon(inst)
  /\ trapped' = trapped \cup {cur.id}
  /\ UNCHANGED buffer
  /\ UNCHANGED clientVars
  /\ UNCHANGED wireVars

\* The engine does not come back at all.
EngineHangs ==
  /\ host = "put"
  /\ Len(cur.flat) = Len(cur.args)
  /\ host' = "hung"
  /\ UNCHANGED <<buffer, cur, inst, replied, trapped>>
  /\ UNCHANGED clientVars
  /\ UNCHANGED wireVars

\* Mutant: the result block is not given back.
FinishCallLeaks ==
  /\ host = "result"
  /\ Respond(Reply(cur.id, TRUE, inst.heap[cur.ret]))
  /\ inst' = Pop(inst)
  /\ cur' = NoCall
  /\ host' = NextFrame
  /\ UNCHANGED <<buffer, trapped>>
  /\ UNCHANGED clientVars
  /\ UNCHANGED wireVars

\* The result is copied out through new views, the frame popped, the
\* result block freed, the reply written.
FinishCall ==
  /\ host = "result"
  /\ LET v == View(inst)
     IN  IF Detached(inst, v)
         THEN Abandon(inst)
         ELSE /\ Respond(Reply(cur.id, TRUE, inst.heap[cur.ret]))
              /\ inst' = FreeAll(Pop(inst), {cur.ret})
              /\ cur' = NoCall
              /\ host' = NextFrame
  /\ UNCHANGED <<buffer, trapped>>
  /\ UNCHANGED clientVars
  /\ UNCHANGED wireVars

\* Mutant: the end of the stream is noted, and the process lives on.
EndNoted ==
  /\ host = "idle"
  /\ ~portOpen
  /\ stream = <<>>
  /\ UNCHANGED vars

\* stdin 'end': the port is closed and the stream has run out.
End ==
  /\ host = "idle"
  /\ ~portOpen
  /\ stream = <<>>
  /\ host' = "exited"
  /\ UNCHANGED <<buffer, cur, inst, replied, trapped>>
  /\ UNCHANGED clientVars
  /\ UNCHANGED wireVars

-----------------------------------------------------------------------------
Owner == Open \/ Close \/ Receive \/ Timeout \/ \E c \in Calls : Call(c)

Port == PortData \/ PortExit

Host ==
  \/ Boot \/ Data \/ NeedMore
  \/ TakeRefused \/ TakeNull \/ TakeDescriptor \/ TakeClose \/ TakeCall
  \/ PutArgument \/ EngineReturns \/ EngineTraps \/ EngineHangs \/ FinishCall
  \/ End

Next == Owner \/ OwnerDies \/ Port \/ Host \/ \E op \in Strays : Stray(op)

Spec == Init /\ [][Next]_vars

\* The operating system runs the host and hands it what is in its pipe; the
\* engine may hang all the same, and nothing is asked of the owner.
FairSpec == Spec /\ WF_vars(Host)

-----------------------------------------------------------------------------
(* Properties. *)

Ids == 1 .. MaxRequests
Outcomes == {"none", "ok", "error", "mismatch", "exited", "timeout"}

\* Types, and the ranges the code relies on: the stack pointer never rises
\* above where it started, and the host never reads past the frames written.
TypeOK ==
  /\ phase \in {"new", "opening", "idle", "calling", "failed", "closing", "closed"}
  /\ waiting \in Ids \cup {NoId}
  /\ next \in 1 .. MaxRequests + 1
  /\ \A i \in Ids : outcome[i].tag \in Outcomes
  /\ portOpen \in BOOLEAN
  /\ host \in {"none", "boot", "idle", "parse", "put", "result", "hung", "exited"}
  /\ inst.sp \in Nat /\ inst.gen \in Nat
  /\ delivered \in 0 .. Len(replied)
  /\ trapped \subseteq Ids
  /\ \A k \in DOMAIN stream : stream[k].frame \in DOMAIN sent
  /\ \A k \in DOMAIN buffer : buffer[k].frame \in DOMAIN sent

\* The frame request i was written in.
FrameOf(i) == CHOOSE k \in DOMAIN sent : sent[k].id = i

Expected(m) ==
  CASE m.op = "call"       -> Digest(m.fn, [k \in DOMAIN m.args |-> Bytes(m.args[k])])
    [] m.op = "descriptor" -> <<"descriptor">>
    [] m.op = "close"      -> <<"closing">>

\* An answer that request/2 gives its caller as {:ok, result} is what the
\* engine computes from that call's own strings: whatever the chunks of the
\* stream, however often the memory grew under the host's typed arrays, and
\* whichever replies of earlier requests came late.
AnswersMatch ==
  \A i \in Ids : outcome[i].tag = "ok" => outcome[i].value = Expected(sent[FrameOf(i)])

\* The host answers the frames it is sent one by one, in their order, each
\* once and under its own id: a chunk boundary inside a header or a payload
\* loses nothing and doubles nothing.
RepliesInOrder ==
  /\ Len(replied) <= Len(sent)
  /\ \A k \in DOMAIN replied : replied[k].id = sent[k].id

\* A request that timed out leaves its reply behind, and every later request
\* of the session would take the reply of the one before it: because of the
\* id check none of them is ever answered ok, so the session is dead for
\* good and says so.
TimeoutIsFinal ==
  \A i, j \in Ids : i < j /\ outcome[i].tag = "timeout" => outcome[j].tag # "ok"

\* A reply under another id is only ever the trace of an earlier timeout or
\* of a frame somebody else wrote: in a healthy session requests and replies
\* stay paired.
MismatchNeedsCause ==
  \A j \in Ids :
    outcome[j].tag = "mismatch" =>
      \/ \E i \in Ids : i < j /\ outcome[i].tag = "timeout"
      \/ \E k \in DOMAIN sent : sent[k].id = NoId

\* A call of the owner fails only when the engine trapped in it: growing the
\* memory between two allocations, or during the call, costs no call, and
\* the arity table of the host refuses nothing the owner let through.
ErrorMeansTrap == \A i \in Ids : outcome[i].tag = "error" => i \in trapped

\* The frames of calls that have been answered, and those the engine trapped in.
Answered == {k \in DOMAIN replied : sent[k].op = "call" /\ sent[k].id # NoId}
Torn == {k \in Answered : sent[k].id \in trapped}

\* The arguments a call leaves behind: all of them when it never came back,
\* and otherwise those of no bytes, which the engine does not own.
Padding(args) == {x \in DOMAIN args : args[x] = Empty}
LeftBy(k) == IF k \in Torn THEN DOMAIN sent[k].args ELSE Padding(sent[k].args)
Left == UNION {{k} \X LeftBy(k) : k \in Answered}

\* Between two calls the instance holds exactly what the calls that never
\* came back left behind, sixteen bytes of stack each and their arguments,
\* and the byte putString allocates for an empty string and nobody frees.
InstanceBalanced ==
  host \in {"idle", "parse"} =>
    /\ inst.sp = Cardinality(Torn)
    /\ Cardinality(Live(inst)) = Cardinality(Left)

\* The host catches up with what it is sent, unless it is gone or the engine
\* hangs: no frame stays in the buffer because no further chunk arrives.
FramesAnswered ==
  Len(replied) < Len(sent) ~>
    (Len(replied) = Len(sent) \/ host \in {"exited", "hung"})

\* No Node process outlives its session: however the port came to be closed,
\* by close/1, by the exit of the host or because the owner died before it
\* could ask, the host works off what it was sent and exits.  Only an engine
\* that hangs keeps it.
HostEnds == host # "none" /\ ~portOpen ~> host \in {"exited", "hung"}
=============================================================================
