------------------------------ MODULE H3Stream ------------------------------
(***************************************************************************)
(* The parser of one HTTP/3 stream (h3/stream.rs): it gathers in a state   *)
(* buffer what the current state needs, consumes it and moves on.          *)
(*                                                                         *)
(* A stream is a sequence of cells <<value, octets>>.  A varint of n cells *)
(* starts with <<v, n>>; a cell of payload is a varint of one cell to a    *)
(* parser that has lost its place.  Lengths count cells.                   *)
(***************************************************************************)
EXTENDS Naturals, Sequences

CONSTANT MaxStateBuf   \* MAX_STATE_BUF_SIZE, in cells

ASSUME MaxStateBufAssumption == MaxStateBuf \in Nat

\* Stream types, and the frame types of h3/frame.rs
CONTROL == 0
PUSH == 1
QPACK_ENCODER == 2
QPACK_DECODER == 3
DATA == 0
HEADERS == 1
CANCEL_PUSH == 3
SETTINGS == 4
PUSH_PROMISE == 5
GOAWAY == 6
MAX_PUSH == 13
DUPLICATE_PUSH == 14
GREASE == 33

More == <<0, 1>>
Varint(v, n) == <<<<v, n>>>> \o [i \in 1..(n - 1) |-> More]
Payload(v, n) == IF n = 0 THEN <<>> ELSE Varint(v, 1) \o [i \in 1..(n - 1) |-> More]
Frame(ty, v, n) == Varint(ty, IF ty = GREASE THEN 2 ELSE 1) \o Varint(n, 1) \o Payload(v, n)

-----------------------------------------------------------------------------
NewStream(bidi, local) ==
    [ty |-> IF bidi THEN "Request" ELSE "none", state |-> IF bidi THEN "FrameType" ELSE "StreamType",
     len |-> 1, buf |-> <<>>, frame |-> DATA, local |-> local, initialized |-> FALSE]

Complete(st) == Len(st.buf) = st.len

\* What an operation returns: an error or "", and the stream after it
Ok(st) == [error |-> "", stream |-> st]
Fails(error, st) == [error |-> error, stream |-> st]

Deserialize(v) == CASE v = CONTROL -> "Control" [] v = PUSH -> "Push" [] v = QPACK_ENCODER -> "QpackEncoder"
                    [] v = QPACK_DECODER -> "QpackDecoder" [] OTHER -> "Unknown"

StateTransition(st, state, len, resize) ==
    LET moved == [st EXCEPT !.state = state, !.len = len, !.buf = <<>>] IN
    IF resize /\ len > MaxStateBuf THEN Fails("InternalError", moved) ELSE Ok(moved)

SetTy(st, ty) ==
    StateTransition([st EXCEPT !.ty = ty, !.initialized = @ \/ ty \in {"QpackEncoder", "QpackDecoder"}],
        CASE ty = "Control" -> "FrameType" [] ty = "Push" -> "PushId"
          [] ty \in {"QpackEncoder", "QpackDecoder"} -> "QpackInstruction" [] OTHER -> "Drain",
        1, TRUE)

SetPushId(st) == StateTransition(st, "FrameType", 1, TRUE)

\* The error set_frame_type has for a frame, "" when it accepts it
FrameError(st, ty) ==
    CASE st.ty = "Control" /\ ~st.initialized -> IF ty = SETTINGS THEN "" ELSE "MissingSettings"
      [] st.ty = "Control" /\ st.initialized ->
             IF ty \in {SETTINGS, DATA, HEADERS, PUSH_PROMISE, DUPLICATE_PUSH} THEN "FrameUnexpected" ELSE ""
      [] st.ty = "Request" ->
             IF ~st.local /\ ty \in {CANCEL_PUSH, SETTINGS, GOAWAY, MAX_PUSH} THEN "FrameUnexpected" ELSE ""
      [] st.ty = "Push" ->
             IF ty \in {CANCEL_PUSH, SETTINGS, PUSH_PROMISE, GOAWAY, MAX_PUSH, DUPLICATE_PUSH}
             THEN "FrameUnexpected" ELSE ""
      [] OTHER -> "FrameUnexpected"

\* Mutant: SETTINGS does not initialize the control stream
Initializes_Request(st, ty) == st.ty = "Request" /\ ~st.local /\ ty = HEADERS

Initializes(st, ty) ==
    \/ st.ty = "Control" /\ ty = SETTINGS
    \/ st.ty = "Request" /\ ~st.local /\ ty = HEADERS

SetFrameType(st, ty) ==
    IF FrameError(st, ty) # "" THEN Fails(FrameError(st, ty), st)
    ELSE StateTransition([st EXCEPT !.frame = ty, !.initialized = @ \/ Initializes(st, ty)],
                         "FramePayloadLen", 1, TRUE)

SetFramePayloadLen(st, len) ==
    IF st.frame = DATA THEN StateTransition(st, "Data", len, FALSE)
    ELSE StateTransition(st, "FramePayload", len, TRUE)

\* try_consume_varint: the first cell tells how many there are
Widened(st) == IF Len(st.buf) = 1 THEN [st EXCEPT !.len = st.buf[1][2]] ELSE st
Value(st) == IF st.buf = <<>> THEN 0 ELSE st.buf[1][1]

\* Frame::from_bytes: what must hold a varint may not be empty
Malformed(st) ==
    st.frame \in {CANCEL_PUSH, PUSH_PROMISE, GOAWAY, MAX_PUSH, DUPLICATE_PUSH} /\ st.len = 0

\* try_consume_frame
FrameConsumed(st) ==
    IF Malformed(st) THEN Fails("BufferTooShort", st) ELSE StateTransition(st, "FrameType", 1, TRUE)

\* try_consume_data, once its bytes are in
DataConsumed(st) ==
    IF Complete(st) THEN StateTransition(st, "FrameType", 1, TRUE).stream ELSE st
=============================================================================
