--------------------------------- MODULE H3 ---------------------------------
(***************************************************************************)
(* HTTP/3 over DTP's blocks (h3/mod.rs): two endpoints open their control  *)
(* streams, send requests and responses as HEADERS and DATA frames, and    *)
(* learn of what the peer sent by calling poll() and recv_body().  poll()  *)
(* runs as one action per turn of its loops; nothing reaches an endpoint   *)
(* while its poll() runs.                                                  *)
(*                                                                         *)
(* The transport is external here: it delivers each stream in order, in    *)
(* pieces of any length, keeps the readable mark as BlockReceiver does,    *)
(* collects a stream that is read and acknowledged, and cancels a block    *)
(* whose deadline passed.  A rogue peer may write any frames.              *)
(***************************************************************************)
EXTENDS H3Stream, Integers, FiniteSets, SequencesExt, FiniteSetsExt

CONSTANTS
    UniLimit,     \* unidirectional streams the peer allows
    Grease,       \* config.grease
    Plans,        \* sizes of the bodies the two send, in cells; to whom streams arrive in
                  \* pieces; whose blocks may miss their deadline; who is rogue, or "nobody";
                  \* may a fin come in a frame of its own?
    RogueFrames,  \* frames a rogue peer may write
    MaxRequests,  \* bound: requests
    MaxRogue,     \* bound: frames a rogue peer writes
    MaxEvents     \* bound: what an application is told of a stream

Sides == {"client", "server"}
Peer(e) == IF e = "client" THEN "server" ELSE "client"
Requests == {4 * i : i \in 0..(MaxRequests - 1)}
UniOf(e) == IF e = "client" THEN {2, 6} ELSE {3, 7}
Ids == Requests \cup UNION {UniOf(e) : e \in Sides}
IsBidi(s) == s % 4 \in {0, 1}
NoStream == -1

ASSUME H3Constants ==
    /\ UniLimit \in 1..2 /\ Grease \in BOOLEAN
    /\ Plans \subseteq [client : Nat, server : Nat, split : Sides, late : SUBSET Sides,
                        rogue : Sides \cup {"nobody"}, lone : BOOLEAN]
    /\ MaxRequests \in Nat /\ MaxRogue \in Nat /\ MaxEvents \in Nat

VARIABLES
    ep,       \* the h3::Connection of each side and the streams it receives
    wire,     \* what each side wrote on each stream
    acked,    \* request streams of which each side knows that the peer has all
    call,     \* the call of poll() that runs, and how far it is
    plan,     \* external: the body size of each side's messages, and who is rogue
    got, wrote, raised, script  \* history: events and body delivered, and sent; last error of poll(); rogue frames

vars == <<ep, wire, acked, call, plan, got, wrote, raised, script>>

-----------------------------------------------------------------------------
(* External: streams *)

NewRx == [arr |-> 0, off |-> 0, fin |-> FALSE, efin |-> FALSE, mark |-> FALSE, shut |-> FALSE, gone |-> FALSE]

NewEndpoint ==
    [up |-> FALSE, next |-> 0, frames_greased |-> FALSE, streams |-> <<>>, rx |-> [s \in Ids |-> NewRx],
     peer |-> [t \in {"Control", "QpackEncoder", "QpackDecoder"} |-> NoStream],
     finished |-> <<>>, max_push |-> 0, closed |-> ""]

Sent(e, s) == wire[Peer(e)][s]
Marked(x) == {s \in Ids : x.rx[s].mark}
Total(e, s) == Len(Sent(e, s).cells)
Ready(r) == ~r.shut /\ (r.off < r.arr \/ r.efin)
AllRead(e, x, s) == x.rx[s].fin /\ x.rx[s].off = Total(e, s)

\* Mutant: stream_received
StreamFinished_Received(e, x, s) == x.rx[s].gone \/ (x.rx[s].fin /\ x.rx[s].arr = Total(e, s))

\* stream_finished: also of a stream that was collected
StreamFinished(e, x, s) == x.rx[s].gone \/ AllRead(e, x, s)

\* Stream::is_complete, of a stream this side can read
IsComplete(e, x, s) == AllRead(e, x, s) /\ (IsBidi(s) => s \in acked[e])

\* stream_recv, of a stream that is ready
Received(e, x, s, cap) ==
    LET r == x.rx[s]
        read == [r EXCEPT !.off = Min({r.off + cap, r.arr}), !.efin = @ /\ r.off + cap <= r.arr]
        y == [x EXCEPT !.rx[s] = [read EXCEPT !.mark = Ready(read)]]
    IN [y EXCEPT !.rx[s].gone = IsComplete(e, y, s)]

StreamRecvError(x, s) == IF x.rx[s].gone THEN "TransportError" ELSE IF ~Ready(x.rx[s]) THEN "Done" ELSE ""

Arrives(e, s, r) ==
    /\ call.at = "idle" /\ e # plan.rogue
    /\ ep' = [ep EXCEPT ![e].rx[s] = [r EXCEPT !.mark = @ \/ Ready(r)]]
    /\ UNCHANGED <<wire, acked, call, plan, got, wrote, raised, script>>

\* The next piece of a stream
Deliver(e, s) ==
    LET r == ep[e].rx[s] left == Total(e, s) - r.arr IN
    /\ plan.rogue # Peer(e) /\ left > 0
    /\ \E n \in (IF IsBidi(s) /\ plan.split = e THEN 1..left ELSE {left}) :
         \E fin \in (IF Sent(e, s).fin /\ n = left THEN (IF plan.lone THEN BOOLEAN ELSE {TRUE}) ELSE {FALSE}) :
            Arrives(e, s, [r EXCEPT !.arr = @ + n, !.fin = @ \/ fin])

DeliverFin(e, s) ==
    LET r == ep[e].rx[s] IN
    /\ plan.rogue # Peer(e) /\ Sent(e, s).fin /\ ~r.fin /\ r.arr = Total(e, s)
    /\ Arrives(e, s, [r EXCEPT !.fin = TRUE, !.efin = ~r.shut])

\* RESET_STREAM with the error code of a missed deadline
DeliverReset(e, s) ==
    LET r == ep[e].rx[s] IN
    /\ Sent(e, s).reset /\ ~r.shut /\ ~r.gone
    /\ Arrives(e, s, [r EXCEPT !.fin = TRUE, !.efin = FALSE, !.shut = TRUE])

Expire(e, s) ==
    /\ e \in plan.late /\ call.at = "idle" /\ wire[e][s].cells # <<>> /\ ~wire[e][s].reset /\ s \notin acked[e]
    /\ wire' = [wire EXCEPT ![e][s].reset = TRUE]
    /\ UNCHANGED <<ep, acked, call, plan, got, wrote, raised, script>>

Acked(e, s) ==
    LET x == ep[e] r == ep[Peer(e)].rx[s] IN
    /\ call.at = "idle" /\ plan.rogue = "nobody" /\ s \notin acked[e] /\ wire[e][s].fin /\ ~wire[e][s].reset
    /\ r.fin /\ r.arr = Len(wire[e][s].cells)
    /\ acked' = [acked EXCEPT ![e] = @ \cup {s}]
    /\ ep' = [ep EXCEPT ![e].rx[s].gone = AllRead(e, x, s)]
    /\ UNCHANGED <<wire, call, plan, got, wrote, raised, script>>

-----------------------------------------------------------------------------
(* Sending *)

Write(e, s, cells, fin) ==
    wire' = [wire EXCEPT ![e][s] = IF @.reset THEN @ ELSE [@ EXCEPT !.cells = @ \o cells, !.fin = @ \/ fin]]

\* The i-th stream of open_uni_stream; without credit it is not opened
UniStream(e, i) == IF e = "client" THEN 4 * i - 2 ELSE 4 * i - 1

SendSettings == Varint(CONTROL, 1) \o Frame(SETTINGS, 7, 1)
QpackStreams == <<Varint(QPACK_ENCODER, 1), Varint(QPACK_DECODER, 1)>>
GreaseStream == Varint(GREASE, 2) \o Payload(0, 1)
UniStreams == <<SendSettings>> \o QpackStreams \o <<GreaseStream>>

\* The first open_uni_stream must succeed, the failure of the others is ignored
WithTransport(e) ==
    LET Opened(s) == {i \in 1..UniLimit : s = UniStream(e, i)} IN
       /\ call.at = "idle" /\ ~ep[e].up /\ e # plan.rogue
       /\ ep' = [ep EXCEPT ![e].up = TRUE]
       /\ wire' = [wire EXCEPT ![e] = [s \in Ids |->
                       IF Opened(s) = {} THEN @[s] ELSE [@[s] EXCEPT !.cells = UniStreams[CHOOSE i \in Opened(s) : TRUE]]]]
       /\ UNCHANGED <<acked, call, plan, got, wrote, raised, script>>

GreaseFrames == Frame(GREASE, 0, 0) \o Frame(GREASE, 0, 1)

\* An h3::Stream is dropped when its last write finds everything read
AfterFin(e, x, s, fin) ==
    IF fin /\ StreamFinished(e, x, s) THEN [x EXCEPT !.streams = [t \in DOMAIN @ \ {s} |-> @[t]]] ELSE x

SendHeaders(e, x, s, fin) ==
    LET greasing == Grease /\ ~x.frames_greased IN
    /\ Write(e, s, (IF greasing THEN GreaseFrames ELSE <<>>) \o Frame(HEADERS, 40, 1), fin)
    /\ ep' = [ep EXCEPT ![e] = AfterFin(e, [x EXCEPT !.frames_greased = @ \/ greasing], s, fin)]
    /\ wrote' = [wrote EXCEPT ![e][s] = @ \o <<<<"headers", 40>>>> \o (IF fin THEN <<<<"finished", 0>>>> ELSE <<>>)]
    /\ UNCHANGED <<acked, call, plan, got, raised, script>>

MaySend(e) == call.at = "idle" /\ ep[e].up /\ ep[e].closed = ""

SendRequest(fin) ==
    LET x == ep["client"] s == x.next IN
    /\ MaySend("client") /\ s \in Requests /\ (fin => plan["client"] = 0)
    /\ plan.rogue = "server" => fin
    /\ SendHeaders("client", [x EXCEPT !.next = @ + 4, !.streams = (s :> NewStream(TRUE, TRUE)) @@ @], s, fin)

SendResponse(s, fin) ==
    /\ MaySend("server") /\ plan.rogue = "nobody" /\ <<"headers", 40>> \in ToSet(got["server"][s]) /\ wrote["server"][s] = <<>>
    /\ fin => plan["server"] = 0
    /\ SendHeaders("server", ep["server"], s, fin)

BodyLeft(e, s) == plan[e] - Cardinality({i \in DOMAIN wrote[e][s] : wrote[e][s][i][1] = "body"})

\* The application offers the rest of the body and the fin; the stream takes
\* at least one cell of it, or the call returns Done
SendBody(e, s) ==
    LET x == ep[e] left == BodyLeft(e, s) IN
    /\ MaySend(e) /\ wrote[e][s] # <<>> /\ Last(wrote[e][s])[1] # "finished"
    /\ s \in DOMAIN x.streams /\ ~x.rx[s].gone
    /\ \E n \in (IF left = 0 THEN {0} ELSE 1..left) :
         LET cells == [i \in 1..n |-> <<50 + plan[e] - left + i, 1>>] IN
         /\ Write(e, s, Varint(DATA, 1) \o Varint(n, 1) \o cells, n = left)
         /\ wrote' = [wrote EXCEPT ![e][s] = @ \o [i \in 1..n |-> <<"body", cells[i][1]>>]
                                               \o (IF n = left THEN <<<<"finished", 0>>>> ELSE <<>>)]
         /\ ep' = [ep EXCEPT ![e] = AfterFin(e, x, s, n = left)]
    /\ UNCHANGED <<acked, call, plan, got, raised, script>>

-----------------------------------------------------------------------------
(* A rogue peer, external: any frames on a unidirectional and a request    *)
(* stream, and a second unidirectional stream; it writes the next when the *)
(* last was looked at                                                      *)

RogueWrites(s, cells, fin) ==
    LET e == Peer(plan.rogue) r == ep[e].rx[s]
        arrived == [r EXCEPT !.arr = @ + Len(cells), !.fin = fin]
    IN /\ call.at = "idle" /\ ep[e].closed = "" /\ Marked(ep[e]) = {} /\ ~r.fin
       /\ Write(plan.rogue, s, cells, fin)
       /\ ep' = [ep EXCEPT ![e].rx[s] = [arrived EXCEPT !.mark = Ready(arrived)]]
       /\ UNCHANGED <<acked, call, plan, got, wrote, raised>>

RogueOpens(s, ty) ==
    /\ script[s].ty = "none"
    /\ RogueWrites(s, Varint(ty, 1) \o (IF ty = PUSH THEN Varint(1, 1) ELSE <<>>), FALSE)
    /\ script' = [script EXCEPT ![s].ty = Deserialize(ty)]

RogueFrame(s, f) ==
    LET cells == Frame(f.ty, f.v, f.len) IN
    /\ FoldFunction(+, 0, [t \in Ids |-> Len(script[t].frames)]) < MaxRogue
    /\ IF IsBidi(s) THEN plan.rogue = "client" \/ wrote["client"][s] # <<>> ELSE script[s].ty # "none"
    /\ RogueWrites(s, cells, f.fin)
    /\ script' = [script EXCEPT ![s].frames = Append(@, f),
                                ![s].ends = Append(@, Len(wire[plan.rogue][s].cells \o cells))]

Rogue ==
    /\ plan.rogue # "nobody"
    /\ LET first == UniStream(plan.rogue, 1) second == UniStream(plan.rogue, 2) IN
       \/ \E ty \in {CONTROL, PUSH, QPACK_ENCODER, QPACK_DECODER, GREASE} : RogueOpens(first, ty)
       \/ \E ty \in {CONTROL, QPACK_ENCODER} : script[first].ty # "none" /\ RogueOpens(second, ty)
       \/ \E s \in {first} \cup Requests, f \in RogueFrames : RogueFrame(s, f)

-----------------------------------------------------------------------------
(* Receiving: poll() *)

Idle == [at |-> "idle", who |-> "client", s |-> NoStream, todo |-> {}]
Critical == <<"Control", "QpackEncoder", "QpackDecoder">>

(* Where a call is after the stage `at' (0 at its start): at the next      *)
(* critical stream (process_control_stream first asks whether it           *)
(* finished), at the list of finished streams, or at a readable stream, in *)
(* the order of a HashSet.  What would change nothing is passed over.      *)
Readable(e, todo) ==
    IF todo = {} THEN {Idle} ELSE {[at |-> "streams", who |-> e, s |-> s, todo |-> todo \ {s}] : s \in todo}

Onward(e, x, at) ==
    LET Due(i) == LET s == x.peer[Critical[i]] IN s # NoStream /\ (x.rx[s].mark \/ StreamFinished(e, x, s))
        due == {i \in (at + 1)..3 : Due(i)}
        first == Critical[Min(due)]
    IN IF due # {}
       THEN {[Idle EXCEPT !.at = IF StreamFinished(e, x, x.peer[first]) THEN "closed" ELSE first,
                          !.who = e, !.s = x.peer[first]]}
       ELSE IF x.finished # <<>> THEN {[Idle EXCEPT !.at = "finished", !.who = e]}
       ELSE Readable(e, Marked(x))

BeginPoll(e) ==
    LET x == ep[e] IN
    /\ call.at = "idle" /\ x.up /\ x.closed = ""
    /\ \A s \in Ids : Len(got[e][s]) + Len(x.finished) <= MaxEvents
    /\ call' \in Onward(e, x, 0) \ {Idle}
    /\ UNCHANGED <<ep, wire, acked, plan, got, wrote, raised, script>>

E == call.who
X == ep[E]
S == call.s

Raise(x, error) ==
    /\ ep' = [ep EXCEPT ![E] = x]
    /\ raised' = [raised EXCEPT ![E] = error]
    /\ call' = Idle
    /\ UNCHANGED <<wire, acked, plan, got, wrote, script>>

Close(x, error) == Raise([x EXCEPT !.closed = error], error)

Proceed(x, steps, events) ==
    /\ ep' = [ep EXCEPT ![E] = x]
    /\ call' \in steps
    /\ got' = [got EXCEPT ![E] = [s \in Ids |-> @[s] \o events[s]]]
    /\ UNCHANGED <<wire, acked, plan, wrote, raised, script>>

NoEvents == [s \in Ids |-> <<>>]

CriticalClosed == call.at = "closed" /\ Close(X, "ClosedCriticalStream")

PopFinished ==
    /\ call.at = "finished"
    /\ Proceed([X EXCEPT !.finished = Tail(@)], {Idle}, [NoEvents EXCEPT ![Head(X.finished)] = <<<<"finished", 0>>>>])

\* Mutant: the event is returned first
Noted_Late(x, result) ==
    IF result = "Done" /\ StreamFinished(E, x, S) THEN [x EXCEPT !.finished = Append(@, S)] ELSE x

\* finished_streams.push_back, after a readable stream or a piece of body was read
Noted(x, result) == IF StreamFinished(E, x, S) THEN [x EXCEPT !.finished = Append(@, S)] ELSE x

\* What process_readable_stream returned: "Done", an event or an error
Return(x, result, events) ==
    LET finished == StreamFinished(E, x, S) IN
       CASE result \notin {"Done", "Headers", "Data"} -> Raise(x, result)
         [] call.at \in DOMAIN x.peer /\ finished -> Close(x, "ClosedCriticalStream")
         [] call.at \in DOMAIN x.peer /\ ~finished ->
                Proceed(x, Onward(E, x, CHOOSE i \in 1..3 : Critical[i] = call.at), NoEvents)
         [] call.at = "streams" ->
                Proceed(Noted(x, result), CASE result = "Done" -> Readable(E, call.todo)
                             [] result = "Headers" -> {Idle}
                             [] result = "Data" -> {[Idle EXCEPT !.at = "body", !.who = E, !.s = S]},
                        events)

Continue(x) == Proceed(x, {call}, NoEvents)

\* Connection.streams.entry(): streams first heard of are the peer's
Current == IF S \in DOMAIN X.streams THEN X.streams[S] ELSE NewStream(IsBidi(S), FALSE)
With(x, st) == [x EXCEPT !.streams = (S :> st) @@ @]
In(state) == call.at \in DOMAIN X.peer \cup {"streams"} /\ Current.state = state

\* try_fill_buffer
Filled ==
    LET st == Current r == X.rx[S] n == Min({st.len - Len(st.buf), r.arr - r.off})
        more == [st EXCEPT !.buf = @ \o SubSeq(Sent(E, S).cells, r.off + 1, r.off + n)]
    IN IF StreamRecvError(X, S) # "" THEN [error |-> StreamRecvError(X, S), stream |-> st, x |-> With(X, st)]
       ELSE [error |-> IF Complete(more) THEN "" ELSE "Done", stream |-> more,
             x |-> With(Received(E, X, S, st.len - Len(st.buf)), more)]

\* try_fill_buffer and try_consume_varint, and what follows when they succeed
ReadVarint(Then(_, _)) ==
    LET f == Filled w == Widened(f.stream) IN
    IF f.error # "" THEN Return(f.x, f.error, NoEvents)
    ELSE IF ~Complete(w) THEN Continue(With(f.x, w))
    ELSE Then(f.x, w)

\* The stream after an operation on it, or the connection closed by its error
Checked(x, op) == IF op.error = "" THEN Continue(With(x, op.stream)) ELSE Close(With(x, op.stream), op.error)

ReadStreamType ==
    LET Typed(x, w) ==
            LET ty == Deserialize(Value(w)) y == With(x, SetTy(w, ty).stream) IN
            IF \/ ty \in DOMAIN x.peer /\ x.peer[ty] # NoStream
               \/ ty = "Push" /\ E = "server"
            THEN Close(y, "StreamCreationError")
            ELSE Continue(IF ty \in DOMAIN x.peer THEN [y EXCEPT !.peer[ty] = S] ELSE y)
    IN In("StreamType") /\ ReadVarint(Typed)

ReadPushId ==
    LET Pushed(x, w) == Checked(x, SetPushId(w)) IN In("PushId") /\ ReadVarint(Pushed)

ReadFrameType ==
    LET Framed(x, w) == Checked(x, SetFrameType(w, Value(w))) IN In("FrameType") /\ ReadVarint(Framed)

ReadPayloadLen ==
    LET Sized(x, w) == Checked(x, SetFramePayloadLen(w, Value(w))) IN In("FramePayloadLen") /\ ReadVarint(Sized)

\* The error process_frame closes the connection with, "" when there is none
Refusal(e, x, s, ty, v) ==
    LET control == s = x.peer["Control"] IN
    CASE ty \in {HEADERS, DATA} /\ control -> "FrameUnexpected"
      [] ty = GOAWAY /\ (e = "server" \/ ~control \/ v % 4 # 0) -> "FrameUnexpected"
      [] ty = MAX_PUSH /\ (~control \/ e = "client") -> "FrameUnexpected"
      [] ty = MAX_PUSH /\ control /\ e = "server" /\ v < x.max_push -> "IdError"
      [] ty \in {PUSH_PROMISE, DUPLICATE_PUSH} /\ (e = "server" \/ s % 4 # 0) -> "FrameUnexpected"
      [] ty = CANCEL_PUSH /\ ~control -> "FrameUnexpected"
      [] OTHER -> ""

\* An empty header block is not one QPACK can decode: the error is returned
\* without closing the connection
ProcessFrame(x, ty, v, len) ==
    IF Refusal(E, x, S, ty, v) # "" THEN Close(x, Refusal(E, x, S, ty, v))
    ELSE IF ty = HEADERS
    THEN IF len = 0 THEN Return(x, "QpackDecompressionFailed", NoEvents)
         ELSE Return(x, "Headers", [NoEvents EXCEPT ![S] = <<<<"headers", v>>>>])
    ELSE Continue(IF ty = MAX_PUSH THEN [x EXCEPT !.max_push = v] ELSE x)

ReadFrame ==
    LET f == Filled op == FrameConsumed(f.stream) IN
    /\ In("FramePayload")
    /\ IF f.error # "" THEN Return(f.x, f.error, NoEvents)
       ELSE IF op.error # "" THEN Close(f.x, op.error)
       ELSE ProcessFrame(With(f.x, op.stream), f.stream.frame, Value(f.stream), f.stream.len)

ReportData == In("Data") /\ Return(With(X, Current), "Data", NoEvents)

\* Reads until stream_recv fails: Done, or the stream is gone
SkipInstructions ==
    /\ In("QpackInstruction")
    /\ IF StreamRecvError(X, S) = "" THEN Continue(Received(E, X, S, Total(E, S) + 1))
       ELSE Return(X, StreamRecvError(X, S), NoEvents)

\* stream_shutdown(Read)
Discard ==
    /\ In("Drain")
    /\ Return([X EXCEPT !.rx[S] = [@ EXCEPT !.shut = TRUE, !.efin = FALSE, !.mark = FALSE]], "Done", NoEvents)

\* The application calls recv_body() when poll() returned Data
RecvBody ==
    LET st == Current r == X.rx[S] IN
    /\ call.at = "body"
    /\ \E room \in 1..Max({1, plan[Peer(E)]}) :
         LET cap == Min({room, st.len - Len(st.buf)})
             n == Min({cap, r.arr - r.off})
             read == SubSeq(Sent(E, S).cells, r.off + 1, r.off + n)
             more == [st EXCEPT !.buf = @ \o read]
             x == With(Received(E, X, S, cap), DataConsumed(more))
         IN IF S \notin DOMAIN X.streams \/ StreamRecvError(X, S) # "" THEN Proceed(X, {Idle}, NoEvents)
            ELSE Proceed(Noted(x, "Done"), {Idle},
                         [NoEvents EXCEPT ![S] = [i \in 1..n |-> <<"body", read[i][1]>>]])

Turn == \/ CriticalClosed \/ PopFinished
        \/ ReadStreamType \/ ReadPushId \/ ReadFrameType \/ ReadPayloadLen \/ ReadFrame
        \/ ReportData \/ SkipInstructions \/ Discard \/ RecvBody

-----------------------------------------------------------------------------
Init ==
    /\ ep = [e \in Sides |-> NewEndpoint]
    /\ wire = [e \in Sides |-> [s \in Ids |-> [cells |-> <<>>, fin |-> FALSE, reset |-> FALSE]]]
    /\ acked = [e \in Sides |-> {}]
    /\ call = Idle
    /\ plan \in Plans
    /\ got = [e \in Sides |-> [s \in Ids |-> <<>>]] /\ wrote = got
    /\ raised = [e \in Sides |-> ""]
    /\ script = [s \in Ids |-> [ty |-> IF IsBidi(s) THEN "Request" ELSE "none", frames |-> <<>>, ends |-> <<>>]]

Network ==
    \E e \in Sides :
      \/ \E s \in Ids : Deliver(e, s) \/ DeliverFin(e, s) \/ DeliverReset(e, s)
      \/ \E s \in Requests : Expire(e, s) \/ Acked(e, s)

Application ==
    \/ \E e \in Sides : WithTransport(e) \/ BeginPoll(e) \/ \E s \in Requests : SendBody(e, s)
    \/ \E fin \in BOOLEAN : SendRequest(fin) \/ \E s \in Requests : SendResponse(s, fin)

Next == Turn \/ Network \/ Application \/ Rogue

Spec == Init /\ [][Next]_vars

-----------------------------------------------------------------------------
(* Properties *)

Ends(e, s) == {i \in DOMAIN got[e][s] : got[e][s][i][1] = "finished"}

\* Where a fin may come in a frame of its own the end may be told again, with
\* nothing else after it: up to three times, or without end of a stream that
\* was collected while its readable mark stays
EndRepeated(e, s) ==
    /\ plan.lone /\ Cardinality(Ends(e, s)) > 1
    /\ Ends(e, s) = Min(Ends(e, s))..Len(got[e][s])
    /\ Cardinality(Ends(e, s)) <= 3 \/ (ep[e].rx[s].gone /\ ep[e].rx[s].mark)

Told(e, s) == IF EndRepeated(e, s) THEN SubSeq(got[e][s], 1, Min(Ends(e, s))) ELSE got[e][s]

(* What an application is told of a stream is what the other one sent, in  *)
(* order: the headers, every cell of the body, and that the stream         *)
(* finished, last.  All of it is told once, the end too unless a fin may   *)
(* come in a frame of its own: each read that leaves the stream finished   *)
(* notes it in finished_streams, the read of the lone fin as well, and the *)
(* end is told again (EndRepeated).  Frame headers split anywhere, grease  *)
(* frames and cancellation must not make the parser lose its place (poll,  *)
(* process_readable_stream, try_consume_varint, state_transition,          *)
(* recv_body).                                                             *)
EventsInOrder ==
    plan.rogue = "nobody" => \A e \in Sides, s \in Requests : IsPrefix(Told(e, s), wrote[Peer(e)][s])

\* Frames the receiver refuses where they stand
Refused(e, s, i) ==
    LET f == script[s].frames[i] ty == f.ty kind == script[s].ty IN
    \/ kind = "Control" /\ (i = 1) # (ty = SETTINGS)
    \/ kind = "Control" /\ ty \in {DATA, HEADERS, PUSH_PROMISE, DUPLICATE_PUSH}
    \/ kind = "Control" /\ ty = GOAWAY /\ (e = "server" \/ f.v % 4 # 0)
    \/ kind = "Control" /\ ty = MAX_PUSH
          /\ (e = "client" \/ \E j \in 1..(i - 1) : script[s].frames[j].ty = MAX_PUSH /\ script[s].frames[j].v > f.v)
    \/ kind \in {"Request", "Push"} /\ ty \in {CANCEL_PUSH, GOAWAY, MAX_PUSH}
    \/ (kind = "Push" \/ (kind = "Request" /\ e = "server")) /\ ty \in {SETTINGS, PUSH_PROMISE, DUPLICATE_PUSH}
    \/ kind \in {"Control", "Request", "Push"} /\ ty # DATA /\ f.len > MaxStateBuf
    \/ kind \in {"Control", "Request", "Push"} /\ f.len = 0
          /\ ty \in {CANCEL_PUSH, PUSH_PROMISE, GOAWAY, MAX_PUSH, DUPLICATE_PUSH}

\* "Request stream starts uninitialized and only HEADERS is accepted. Other
\* frames cause an error." (h3/stream.rs:262).  The grease frames that
\* send_headers() puts first are such frames too.
BeforeHeaders(s, i) ==
    LET frames == script[s].frames IN
    script[s].ty = "Request" /\ \A j \in 1..i : frames[j].ty # HEADERS

\* SETTINGS is among the "Frames that can never be received on request
\* streams" (h3/stream.rs:297); what arrives on a request of one's own is
\* not looked at
SettingsOnRequest(s, i) == script[s].ty = "Request" /\ script[s].frames[i].ty = SETTINGS

\* A frame the comments do not allow where it stands
Breach(e, s, i) == Refused(e, s, i) \/ BeforeHeaders(s, i) \/ SettingsOnRequest(s, i)

\* set_frame_type lets pass, against those comments: before HEADERS every
\* frame it has no other reason to refuse, and on a client's own request
\* SETTINGS too, which then replace the peer's
Overlooked(e, s, i) ==
    ~Refused(e, s, i) /\ (BeforeHeaders(s, i) \/ (e = "client" /\ SettingsOnRequest(s, i)))

Breaches(e, read(_), done(_, _)) ==
    \/ \E s \in Ids : \E i \in DOMAIN script[s].frames : done(s, i) /\ Breach(e, s, i) /\ ~Overlooked(e, s, i)
    \/ \E s, t \in Ids : s # t /\ script[s].ty = script[t].ty /\ script[s].ty \in DOMAIN ep[e].peer
                              /\ read(s) > 0 /\ read(t) > 0
    \/ e = "server" /\ \E s \in Ids : script[s].ty = "Push" /\ read(s) > 0

(* The connection is closed for what a peer sent exactly when the peer     *)
(* broke a rule, the Overlooked ones apart: frames are allowed or not by   *)
(* the kind of stream, the role, what came before, over several streams    *)
(* read in any order (set_frame_type, process_frame,                       *)
(* process_readable_stream).  Until poll() looks at it, a breach is        *)
(* unnoticed; what it read and let pass had none but an overlooked one,    *)
(* and an overlooked one alone closes nothing.                             *)
RulesKept ==
    LET e == Peer(plan.rogue)
        Arrived(s) == ep[e].rx[s].arr
        Came(s, i) == TRUE
        Read(s) == ep[e].rx[s].off
        \* a frame without payload is looked at when more arrives
        Passed(s, i) == \/ Read(s) > script[s].ends[i]
                        \/ Read(s) = script[s].ends[i] /\ s \in DOMAIN ep[e].streams /\ ep[e].streams[s].state # "FramePayload"
        MustStay(s) == script[s].ty \in DOMAIN ep[e].peer /\ wire[plan.rogue][s].fin
    IN plan.rogue # "nobody" =>
         /\ ep[e].closed # "" => Breaches(e, Arrived, Came) \/ \E s \in Ids : MustStay(s)
         /\ call.at = "idle" /\ ep[e].closed = "" /\ raised[e] = "" => ~Breaches(e, Read, Passed)

\* Nothing is on its way and no poll() would do anything
Quiet ==
    /\ call.at = "idle" /\ \A e \in Sides : ep[e].up /\ ep[e].finished = <<>> /\ Marked(ep[e]) = {}
    /\ \A e \in Sides, s \in Ids : ep[e].rx[s].arr = Total(e, s) /\ (Sent(e, s).fin => ep[e].rx[s].fin)

(* Between honest peers, once everything arrived and poll() has nothing    *)
(* more to say, all of every message was reported, its end at least once,  *)
(* unless the block was canceled: no piece is left in a state buffer, in   *)
(* the finished queue, or behind a readable mark that is gone (poll,       *)
(* recv_body, try_fill_buffer).                                            *)
NothingForgotten ==
    Quiet /\ plan.rogue = "nobody" =>
        \A e \in Sides, s \in Requests : Told(e, s) = wrote[Peer(e)][s] \/ Sent(e, s).reset

(* "On error the connection will be closed by calling close() with the     *)
(* appropriate error code" (poll).                                         *)
ErrClosesConnection == \A e \in Sides : raised[e] # "" => ep[e].closed # ""
=============================================================================
