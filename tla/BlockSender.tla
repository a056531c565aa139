---------------------------- MODULE BlockSender ----------------------------
(***************************************************************************)
(* The sending half of a DTP connection: SendBuf and StreamMap             *)
(* (src/src/stream.rs), the block schedulers (src/src/scheduler) and the   *)
(* part of Connection::send, recv_single and process_frame                 *)
(* (src/src/lib.rs) that queues, schedules, drops, sends, retransmits and  *)
(* acknowledges blocks.  A block is one locally opened unidirectional      *)
(* stream.                                                                 *)
(*                                                                         *)
(* Bytes are offsets and a send buffer is the set of offsets still queued: *)
(* SendBuf::pop joins adjacent RangeBufs, so chunk boundaries are not      *)
(* visible.  Packet sizes, congestion window and the frames of other       *)
(* components are abstracted to the space `left' a packet offers to this   *)
(* component, chosen afresh by every call of send().                       *)
(*                                                                         *)
(* Every &mut self method runs to completion, so the loop inside send() is *)
(* unfolded into steps under pc: no other action is enabled while pc is    *)
(* not "idle".  "panic" is the state after a failed unwrap().              *)
(***************************************************************************)
EXTENDS Integers, Sequences, FiniteSets

CONSTANTS
    Ids,          \* stream IDs the application uses
    Sizes,        \* lengths of the writes the application makes
    EmptyFin,     \* may the application finish a stream with a zero-length write?
    AppShutdown,  \* may the application call stream_shutdown(Write)?
    Deadlines,    \* relative block deadlines passed to stream_send_full
    DTP,          \* TRUE: DtpScheduler, FALSE: BasicScheduler
    InitStreamMax, StreamMaxes,   \* stream windows: initial and later MAX_STREAM_DATA
    InitMaxTx, TxMaxes,           \* connection window: initial and later MAX_DATA
    ResetLen, InfoLen,            \* wire length of RESET_STREAM and BLOCK_INFO
    StreamHdr, MaxStreamOverhead, \* STREAM header, and frame::MAX_STREAM_OVERHEAD
    Lefts,        \* space a packet may offer
    Others,       \* may frames of other components share the packet? (set of BOOLEAN)
    LateFrames,   \* may MAX_STREAM_DATA arrive for a collected stream?
    PktNums,      \* names of the outstanding packets: the congestion window in packets
    MaxOff,       \* bound: bytes written to one stream
    MaxQueue,     \* bound: length of the flushable queue at a zero-length write
    MaxNow,       \* bound: clock
    MaxLost,      \* bound: packets declared lost
    NoId          \* Option::None for a stream ID

ASSUME ConstantsAssumption ==
    /\ NoId \notin Ids
    /\ Sizes \subseteq Nat \ {0}
    /\ EmptyFin \in BOOLEAN /\ AppShutdown \in BOOLEAN /\ DTP \in BOOLEAN
    /\ LateFrames \in BOOLEAN
    /\ Deadlines \subseteq Nat
    /\ InitStreamMax \in Nat /\ StreamMaxes \subseteq Nat
    /\ InitMaxTx \in Nat /\ TxMaxes \subseteq Nat
    /\ ResetLen \in Nat \ {0} /\ InfoLen \in Nat \ {0}
    /\ StreamHdr \in Nat \ {0} /\ MaxStreamOverhead \in Nat
    /\ Lefts \subseteq Nat /\ Others \subseteq BOOLEAN
    /\ PktNums \subseteq Nat
    /\ MaxOff \in Nat /\ MaxQueue \in Nat /\ MaxNow \in Nat /\ MaxLost \in Nat

VARIABLES
    \* Stream and SendBuf, one field per variable
    st,         \* "none", "live" or "collected"
    queued,     \* offsets counted by SendBuf.len; SendBuf.data is Data(id)
    off,        \* SendBuf.off: bytes written by the application
    max_data,   \* SendBuf.max_data
    fin_off,    \* SendBuf.fin_off, NoFin when unknown
    shutdown,   \* SendBuf.shutdown
    acked,      \* SendBuf.acked: offsets acknowledged
    fin_acked,  \* SendBuf.acked is the empty range 0..0
    new,        \* SendBuf.new: BLOCK_INFO still to be sent
    expires,    \* creation time + deadline
    \* StreamMap
    flushable, canceled, writable,
    last_block, \* Scheduler.last_block_id
    \* Connection
    tx_data, max_tx_data,
    \* Recovery, Application epoch: packets not yet acked or lost, and
    \* packets declared lost whose frames send() has not looked at
    sent, lost, losses,
    now,
    \* the call of send() in progress: the packet it fills, the space left in
    \* it, the index of the drop loop, the selected block; what the last call returned
    pc, pkt, left, other, idx, cur, result,
    \* histories: some call failed with FinalSize; final sizes told to the peer
    failed, announced

streamVars == <<st, queued, off, max_data, fin_off, shutdown, acked, fin_acked,
                new, expires>>
mapVars    == <<flushable, canceled, writable, last_block>>
flowVars   == <<tx_data, max_tx_data>>
recVars    == <<sent, lost, losses>>
callVars   == <<pc, pkt, left, other, idx, cur>>
histVars   == <<failed, announced>>
vars == <<streamVars, mapVars, flowVars, recVars, now, callVars, result, histVars>>

-----------------------------------------------------------------------------
NoFin == -1

Members(q) == {q[i] : i \in DOMAIN q}

\* A packet: the names of the blocks whose BLOCK_INFO it carries, the
\* RESET_STREAM frames (block, final size), and at most one STREAM frame.
Packet == [pn : Nat, infos : SUBSET Ids, resets : SUBSET (Ids \X Nat),
           sid : Ids \cup {NoId}, bytes : SUBSET Nat, end : Nat, fin : BOOLEAN]

EmptyPkt == [pn |-> 0, infos |-> {}, resets |-> {},
             sid |-> NoId, bytes |-> {}, end |-> 0, fin |-> FALSE]

Live(id) == st[id] = "live"

\* SendBuf.data.  shutdown() clears it and leaves SendBuf.len as it was.
Data(id) == IF shutdown[id] THEN {} ELSE queued[id]

\* Block.remaining_size > 0
Remaining(id) == queued[id] # {}

\* Stream::is_writable, of the state given by the arguments
Writable(isShut, finOff, o, max) == ~isShut /\ finOff # o /\ o < max
IsWritable(id) == Writable(shutdown[id], fin_off[id], off[id], max_data[id])

\* Stream::is_flushable: the lowest offset in the buffer is inside the window
Flushable(data, max) == \E b \in data : b < max
IsFlushable(id) == Flushable(Data(id), max_data[id])

\* SendBuf::is_complete
Complete(id, ackedBytes, finAcked) ==
    /\ fin_off[id] # NoFin
    /\ IF fin_off[id] = 0 THEN finAcked ELSE ackedBytes = 0..(fin_off[id] - 1)

\* SendBuf::block_size; fault: the remaining size (SendBuf.len)
BlockSize_Remaining(id) == Cardinality(queued[id])
BlockSize(id) == IF fin_off[id] # NoFin THEN fin_off[id] ELSE off[id]

\* SendBuf::ack_off() >= n; fault: off by one
AckedUpTo_Short(id, n) == 0..(n - 2) \subseteq acked[id]
AckedUpTo(id, n) == 0..(n - 1) \subseteq acked[id]

\* SendBuf::pop: the lowest contiguous run of the buffer, at most n bytes,
\* inside the stream's window
Popped(id, n) ==
    {b \in Data(id) : /\ b < max_data[id]
                      /\ \A c \in Data(id) : c <= b => c..b \subseteq Data(id) /\ b < c + n}

\* RangeBuf::max_off of what pop returns; nothing popped: an empty buffer at SendBuf.off
EndsAt(id, bytes, e) ==
    IF bytes = {} THEN e = off[id] ELSE e - 1 \in bytes /\ \A b \in bytes : b < e

\* VecDeque::swap_remove_back
SwapRemoveBack(q, i) ==
    [j \in 1..(Len(q) - 1) |-> IF j = i THEN q[Len(q)] ELSE q[j]]

\* VecDeque::swap_remove_front
SwapRemoveFront(q, i) ==
    [j \in 1..(Len(q) - 1) |-> IF j + 1 = i THEN q[1] ELSE q[j + 1]]

\* The first occurrence of id is taken out of the queue, if there is one
TakeOut(id) ==
    \/ id \notin Members(flushable) /\ UNCHANGED flushable
    \/ \E i \in 1..Len(flushable) :
         /\ flushable[i] = id /\ \A j \in 1..(i - 1) : flushable[j] # id
         /\ flushable' = SwapRemoveFront(flushable, i)

-----------------------------------------------------------------------------
TypeOK ==
    /\ st \in [Ids -> {"none", "live", "collected"}]
    /\ queued \in [Ids -> SUBSET Nat] /\ acked \in [Ids -> SUBSET Nat]
    /\ off \in [Ids -> Nat] /\ max_data \in [Ids -> Nat]
    /\ fin_off \in [Ids -> Nat \cup {NoFin}]
    /\ shutdown \in [Ids -> BOOLEAN] /\ fin_acked \in [Ids -> BOOLEAN]
    /\ new \in [Ids -> BOOLEAN] /\ expires \in [Ids -> Nat]
    /\ flushable \in Seq(Ids) /\ canceled \subseteq Ids /\ writable \subseteq Ids
    /\ last_block \in Ids \cup {NoId}
    /\ tx_data \in Int /\ max_tx_data \in Nat
    /\ sent \subseteq Packet /\ lost \subseteq Packet /\ losses \in Nat
    /\ now \in Nat
    /\ pc \in {"idle", "lost", "reset", "window", "peek", "drop", "select",
               "fill", "finish", "panic"}
    /\ pkt \in Packet /\ left \in Nat /\ other \in BOOLEAN
    /\ idx \in Nat /\ cur \in Ids \cup {NoId}
    /\ result \in {"none", "ok", "done", "final_size", "invalid_stream_state"}
    /\ failed \in BOOLEAN /\ announced \subseteq Ids \X Nat

Init ==
    /\ st = [id \in Ids |-> "none"]
    /\ queued = [id \in Ids |-> {}] /\ acked = [id \in Ids |-> {}]
    /\ off = [id \in Ids |-> 0] /\ max_data = [id \in Ids |-> InitStreamMax]
    /\ fin_off = [id \in Ids |-> NoFin]
    /\ shutdown = [id \in Ids |-> FALSE] /\ fin_acked = [id \in Ids |-> FALSE]
    /\ new = [id \in Ids |-> TRUE] /\ expires = [id \in Ids |-> 0]
    /\ flushable = <<>> /\ canceled = {} /\ writable = {} /\ last_block = NoId
    /\ tx_data = 0 /\ max_tx_data = InitMaxTx
    /\ sent = {} /\ lost = {} /\ losses = 0
    /\ now = 0
    /\ pc = "idle" /\ pkt = EmptyPkt /\ left = 0 /\ other = FALSE
    /\ idx = 0 /\ cur = NoId /\ result = "none"
    /\ failed = FALSE /\ announced = {}

-----------------------------------------------------------------------------
(* The application *)

\* Bytes push_slice stores of a write of n bytes
Accepted(id, n) ==
    IF shutdown[id] \/ fin_off[id] # NoFin THEN 0
    ELSE IF n <= max_data[id] - off[id] THEN n ELSE max_data[id] - off[id]

\* Does the write set fin_off?  A truncated write drops the flag.
SetsFin(id, n, fin) ==
    fin /\ ~shutdown[id] /\ fin_off[id] = NoFin /\ n <= max_data[id] - off[id]

\* Connection::stream_send_full: get_or_create, push_slice, then the queue
\* and the writable set.  A non-empty write to a finished stream stores
\* nothing (FinalSize, or a capacity of zero).
StreamSend(id, n, fin, deadline) ==
    LET k == Accepted(id, n)
        newOff == off[id] + k
        newQueued == queued[id] \cup off[id]..(newOff - 1)
        newFin == IF SetsFin(id, n, fin) THEN newOff ELSE fin_off[id]
        emptyFin == n = 0 /\ fin
    IN
    /\ pc = "idle"
    /\ st[id] # "collected"
    /\ off[id] + n <= MaxOff
    /\ n = 0 => Len(flushable) < MaxQueue
    /\ st' = [st EXCEPT ![id] = "live"]
    /\ expires' = [expires EXCEPT ![id] = IF Live(id) THEN @ ELSE now + deadline]
    /\ off' = [off EXCEPT ![id] = newOff]
    /\ queued' = [queued EXCEPT ![id] = newQueued]
    /\ fin_off' = [fin_off EXCEPT ![id] = newFin]
    /\ flushable' =
         IF /\ ~IsFlushable(id)
            /\ emptyFin \/ (~shutdown[id] /\ Flushable(newQueued, max_data[id]))
         THEN Append(flushable, id) ELSE flushable
    /\ writable' =
         IF Writable(shutdown[id], newFin, newOff, max_data[id])
         THEN writable \cup {id} ELSE writable \ {id}
    /\ result' = "none"
    /\ UNCHANGED <<max_data, shutdown, acked, fin_acked, new, canceled, last_block,
                   flowVars, recVars, now, callVars, histVars>>

\* Connection::stream_shutdown(Shutdown::Write); fault: the writable mark stays
StreamShutdown_Marked(id) ==
    /\ AppShutdown
    /\ pc = "idle" /\ Live(id) /\ ~shutdown[id]
    /\ shutdown' = [shutdown EXCEPT ![id] = TRUE]
    /\ result' = "none"
    /\ UNCHANGED <<st, queued, off, max_data, fin_off, acked, fin_acked, new, expires,
                   mapVars, flowVars, recVars, now, callVars, histVars>>
StreamShutdown(id) ==
    /\ AppShutdown
    /\ pc = "idle" /\ Live(id) /\ ~shutdown[id]
    /\ shutdown' = [shutdown EXCEPT ![id] = TRUE]
    /\ writable' = writable \ {id}
    /\ result' = "none"
    /\ UNCHANGED <<st, queued, off, max_data, fin_off, acked, fin_acked, new, expires,
                   flushable, canceled, last_block, flowVars, recVars, now,
                   callVars, histVars>>

-----------------------------------------------------------------------------
(* The peer and the network *)

\* process_frame, MAX_DATA
RecvMaxData(m) ==
    /\ pc = "idle" /\ m > max_tx_data
    /\ max_tx_data' = m
    /\ result' = "none"
    /\ UNCHANGED <<streamVars, mapVars, tx_data, recVars, now, callVars, histVars>>

\* process_frame, MAX_STREAM_DATA
RecvMaxStreamData(id, m) ==
    /\ pc = "idle" /\ Live(id) /\ m > max_data[id]
    /\ max_data' = [max_data EXCEPT ![id] = m]
    /\ flushable' = IF Flushable(Data(id), m) /\ ~IsFlushable(id)
                    THEN Append(flushable, id) ELSE flushable
    /\ writable' = IF Writable(shutdown[id], fin_off[id], off[id], m)
                   THEN writable \cup {id} ELSE writable
    /\ result' = "none"
    /\ UNCHANGED <<st, queued, off, fin_off, shutdown, acked, fin_acked, new, expires,
                   canceled, last_block, flowVars, recVars, now, callVars, histVars>>

\* The same for a stream that is gone: get_or_create compares `local' with the
\* stream's initiator before it looks at the collected set.
RecvLateMaxStreamData(id) ==
    /\ LateFrames
    /\ pc = "idle" /\ st[id] = "collected"
    /\ result' = "invalid_stream_state"
    /\ UNCHANGED <<streamVars, mapVars, flowVars, recVars, now, callVars, histVars>>

\* recv_single, "Process acked frames", for the frames of one packet
AckPacket(p) ==
    LET id == p.sid
        newAcked == acked[id] \cup p.bytes
        newFinAcked == fin_acked[id] \/ (p.bytes = {} /\ p.end = 0)
    IN
    /\ pc = "idle" /\ p \in sent
    /\ sent' = sent \ {p}
    /\ IF id # NoId /\ Live(id)
       THEN /\ acked' = [acked EXCEPT ![id] = newAcked]
            /\ fin_acked' = [fin_acked EXCEPT ![id] = newFinAcked]
            /\ st' = IF Complete(id, newAcked, newFinAcked)
                     THEN [st EXCEPT ![id] = "collected"] ELSE st
       ELSE UNCHANGED <<acked, fin_acked, st>>
    /\ result' = "none"
    /\ UNCHANGED <<queued, off, max_data, fin_off, shutdown, new, expires, mapVars,
                   flowVars, lost, losses, now, callVars, histVars>>

\* Recovery::detect_lost_packets declares one packet lost; fault: it stays in
\* the map of sent packets
LosePacket_Stays(p) ==
    /\ pc = "idle" /\ p \in sent /\ losses < MaxLost
    /\ lost' = lost \cup {p}
    /\ losses' = losses + 1
    /\ result' = "none"
    /\ UNCHANGED <<streamVars, mapVars, flowVars, sent, now, callVars, histVars>>
LosePacket(p) ==
    /\ pc = "idle" /\ p \in sent /\ losses < MaxLost
    /\ sent' = sent \ {p}
    /\ lost' = lost \cup {p}
    /\ losses' = losses + 1
    /\ result' = "none"
    /\ UNCHANGED <<streamVars, mapVars, flowVars, now, callVars, histVars>>

Tick ==
    /\ pc = "idle" /\ now < MaxNow
    /\ now' = now + 1
    /\ result' = "none"
    /\ UNCHANGED <<streamVars, mapVars, flowVars, recVars, callVars, histVars>>

-----------------------------------------------------------------------------
(* Connection::send *)

\* The call ends without a packet: what was composed so far is dropped.
Abort(res) ==
    /\ pc' = "idle" /\ result' = res
    /\ pkt' = EmptyPkt /\ left' = 0 /\ other' = FALSE /\ idx' = 0 /\ cur' = NoId

Panic ==
    /\ pc' = "panic"
    /\ UNCHANGED <<streamVars, mapVars, flowVars, recVars, now, pkt, left, other,
                   idx, cur, result, histVars>>

Goto(label) == pc' = label

\* write_epoch() finds something to send ...
BeginSend ==
    /\ pc = "idle"
    /\ \E o \in Others :
         /\ o \/ lost # {} \/ flushable # <<>>
         /\ other' = o
    /\ Goto("lost")
    /\ result' = "none"
    /\ UNCHANGED <<streamVars, mapVars, flowVars, recVars, now, pkt, left, idx, cur,
                   histVars>>

\* ... or nothing: the canceled set is not consulted.
NothingToSend ==
    /\ pc = "idle" /\ lost = {} /\ flushable = <<>>
    /\ result' = "done"
    /\ UNCHANGED <<streamVars, mapVars, flowVars, recVars, now, callVars, histVars>>

\* SendBuf::push refuses the lost STREAM frame of p
PushFails(p) ==
    LET f == fin_off[p.sid] IN f # NoFin /\ (p.end > f \/ (p.end = f /\ ~p.fin))

\* tx_data.saturating_sub(n); fault: the window is not given back
TxAfterLoss_Kept(n) == tx_data
TxAfterLoss(n) == IF n <= tx_data THEN tx_data - n ELSE 0

\* "Process lost frames", the frames of one packet; RESET_STREAM is ignored
ProcessLost(p) ==
    LET id == p.sid
        isStream == id # NoId /\ Live(id)
        newQueued == IF shutdown[id] \/ AckedUpTo(id, p.end) THEN queued[id]
                     ELSE queued[id] \cup p.bytes
        emptyFin == p.bytes = {} /\ p.fin
        n == Cardinality(p.bytes)
    IN
    /\ pc = "lost" /\ p \in lost
    /\ new' = [i \in Ids |-> new[i] \/ (i \in p.infos /\ Live(i))]
    /\ IF isStream /\ PushFails(p)
       THEN /\ lost' = {} /\ failed' = TRUE
            /\ tx_data' = TxAfterLoss(n)
            /\ Abort("final_size")
            /\ UNCHANGED <<queued, flushable>>
       ELSE /\ lost' = lost \ {p}
            /\ IF isStream
               THEN /\ tx_data' = TxAfterLoss(n)
                    /\ queued' = [queued EXCEPT ![id] = newQueued]
                    /\ flushable' =
                         IF /\ ~IsFlushable(id)
                            /\ emptyFin \/ (~shutdown[id] /\ Flushable(newQueued, max_data[id]))
                         THEN Append(flushable, id) ELSE flushable
               ELSE UNCHANGED <<tx_data, queued, flushable>>
            /\ UNCHANGED <<callVars, result, failed>>
    /\ UNCHANGED <<st, off, max_data, fin_off, shutdown, acked, fin_acked, expires,
                   canceled, writable, last_block, max_tx_data, sent, losses, now,
                   announced>>

\* The congestion window or the output buffer has no room for a packet
NoRoom ==
    /\ pc = "lost" /\ lost = {}
    /\ 0 \in Lefts \/ \A n \in PktNums : \E p \in sent : p.pn = n
    /\ Abort("done")
    /\ UNCHANGED <<streamVars, mapVars, flowVars, recVars, now, histVars>>

\* A fresh packet, or a FEC repair packet, which carries nothing else
StartPacket ==
    /\ pc = "lost" /\ lost = {}
    /\ \E n \in PktNums :
         /\ \A p \in sent : p.pn # n
         /\ \A m \in PktNums : m < n => \E p \in sent : p.pn = m
         /\ pkt' = [EmptyPkt EXCEPT !.pn = n]
    /\ left' \in Lefts \ {0}
    /\ Goto("reset") \/ (other /\ Goto("finish"))
    /\ UNCHANGED <<streamVars, mapVars, flowVars, recVars, now, other, idx, cur,
                   result, histVars>>

\* One element of the loop over canceled(): the mark goes before the size check
ResetCanceled(id) ==
    /\ pc = "reset" /\ id \in canceled
    /\ canceled' = canceled \ {id}
    /\ \/ ~Live(id) /\ UNCHANGED <<pkt, left, pc>>
       \/ /\ Live(id) /\ ResetLen <= left
          /\ pkt' = [pkt EXCEPT !.resets = @ \cup {<<id, BlockSize(id)>>}]
          /\ left' = left - ResetLen
          /\ UNCHANGED pc
       \/ /\ Live(id) /\ ResetLen > left
          /\ Goto("window")
          /\ UNCHANGED <<pkt, left>>
    /\ UNCHANGED <<streamVars, flushable, writable, last_block, flowVars, recVars, now,
                   other, idx, cur, result, histVars>>

ResetDone ==
    /\ pc = "reset" /\ canceled = {}
    /\ Goto("window")
    /\ UNCHANGED <<streamVars, mapVars, flowVars, recVars, now, pkt, left, other, idx,
                   cur, result, histVars>>

\* Frames of other components may take space before the STREAM frame is built
EnterStreamLoop ==
    /\ pc = "window"
    /\ left' \in {left} \cup {l \in Lefts : other /\ l <= left}
    /\ IF max_tx_data > tx_data /\ left' > MaxStreamOverhead
       THEN Goto("peek") ELSE Goto("finish")
    /\ UNCHANGED <<streamVars, mapVars, flowVars, recVars, now, pkt, other, idx, cur,
                   result, histVars>>

\* peek_flushable, first part: get_block() of every queued stream unwraps
Peek ==
    /\ pc = "peek"
    /\ \/ /\ flushable = <<>> /\ Goto("finish") /\ UNCHANGED idx
       \/ /\ flushable # <<>> /\ \A id \in Members(flushable) : Live(id)
          /\ Goto("drop") /\ idx' = Len(flushable)
    /\ UNCHANGED <<streamVars, mapVars, flowVars, recVars, now, pkt, left, other, cur,
                   result, histVars>>

PeekGone ==
    /\ pc = "peek" /\ \E id \in Members(flushable) : ~Live(id)
    /\ Panic

\* Scheduler::should_drop_block; fault: one tick late
ShouldDrop_Late(id) == DTP /\ now > expires[id] + 1
ShouldDrop(id) == DTP /\ now > expires[id]

\* peek_flushable, one round of the drop loop: cancel_block and swap_remove_back
DropBlock ==
    LET id == flushable[idx] IN
    /\ pc = "drop" /\ idx > 0
    /\ ShouldDrop(id) /\ ~shutdown[id]
    /\ canceled' = canceled \cup {id}
    /\ shutdown' = [shutdown EXCEPT ![id] = TRUE]
    /\ writable' = writable \ {id}
    /\ flushable' = SwapRemoveBack(flushable, idx)
    /\ idx' = idx - 1
    /\ UNCHANGED <<st, queued, off, max_data, fin_off, acked, fin_acked, new, expires,
                   last_block, flowVars, recVars, now, pc, pkt, left, other, cur,
                   result, histVars>>

\* cancel_block of a stream already shut down: shutdown()? returns Done from send()
DropFails ==
    LET id == flushable[idx] IN
    /\ pc = "drop" /\ idx > 0
    /\ ShouldDrop(id) /\ shutdown[id]
    /\ canceled' = canceled \cup {id}
    /\ Abort("done")
    /\ UNCHANGED <<streamVars, flushable, writable, last_block, flowVars, recVars, now,
                   histVars>>

KeepBlock ==
    /\ pc = "drop" /\ idx > 0
    /\ ~ShouldDrop(flushable[idx])
    /\ idx' = idx - 1
    /\ UNCHANGED <<streamVars, mapVars, flowVars, recVars, now, pc, pkt, left, other,
                   cur, result, histVars>>

DropDone ==
    /\ pc = "drop" /\ idx = 0
    /\ Goto(IF flushable = <<>> THEN "finish" ELSE "select")
    /\ UNCHANGED <<streamVars, mapVars, flowVars, recVars, now, pkt, left, other, idx,
                   cur, result, histVars>>

\* DtpScheduler::select_block minimises a floating-point weight over the blocks
\* with bytes remaining; any of them may win.  Without one, the last choice.
DtpChoices ==
    LET ready == {id \in Members(flushable) : Remaining(id)} IN
    IF ready # {} THEN ready ELSE {last_block}

\* BasicScheduler::select_block: finish the last block, else the newest entry
BasicChoices ==
    IF last_block \in {id \in Members(flushable) : Remaining(id)}
    THEN {last_block} ELSE {flushable[Len(flushable)]}

\* peek_flushable, last part
SelectBlock ==
    /\ pc = "select"
    /\ \E id \in IF DTP THEN DtpChoices ELSE BasicChoices :
         /\ id # NoId
         /\ last_block' = id
         /\ cur' = id
         /\ TakeOut(id)
    /\ Goto("fill")
    /\ UNCHANGED <<streamVars, canceled, writable, flowVars, recVars, now, pkt, left,
                   other, idx, result, histVars>>

\* last_block_id.unwrap() of None
SelectNone ==
    /\ pc = "select" /\ DTP /\ DtpChoices = {NoId}
    /\ Panic

\* The space left once the BLOCK_INFO of a new block is in; fault: no size check
SendsInfo_Unchecked == new[cur]
SendsInfo == new[cur] /\ InfoLen <= left
Room == IF SendsInfo THEN left - InfoLen ELSE left
\* The data a frame may hold; fault: the window was checked before the loop only
StreamRoom_NoWindow == Room - StreamHdr
StreamRoom ==
    LET window == max_tx_data - tx_data IN
    (IF Room < window THEN Room ELSE window) - StreamHdr
InfoPkt == IF SendsInfo THEN [pkt EXCEPT !.infos = @ \cup {cur}] ELSE pkt

\* push_flushable of a stream that is still flushable; fault: left out
Requeue_Never(data) == flushable
Requeue(data) ==
    IF Flushable(data, max_data[cur]) THEN Append(flushable, cur) ELSE flushable

\* The body of the STREAM loop for the selected block
FillPacket ==
    LET bytes == Popped(cur, StreamRoom) IN
    /\ pc = "fill" /\ Live(cur)
    /\ new' = [new EXCEPT ![cur] = @ /\ ~SendsInfo]
    /\ left' = Room
    /\ \/ /\ Room <= MaxStreamOverhead
          /\ flushable' = Requeue(Data(cur))
          /\ pkt' = InfoPkt
          /\ Goto("finish")
          /\ UNCHANGED <<queued, tx_data>>
       \/ /\ Room > MaxStreamOverhead
          /\ StreamRoom < 0 \/ (bytes = {} /\ fin_off[cur] # off[cur])
          /\ pkt' = InfoPkt
          /\ Goto("peek")
          /\ UNCHANGED <<queued, tx_data, flushable>>
       \/ /\ Room > MaxStreamOverhead
          /\ StreamRoom >= 0 /\ (bytes # {} \/ fin_off[cur] = off[cur])
          /\ queued' = [queued EXCEPT ![cur] = @ \ bytes]
          /\ tx_data' = tx_data + Cardinality(bytes)
          /\ \E e \in 0..off[cur] :
               /\ EndsAt(cur, bytes, e)
               /\ pkt' = [InfoPkt EXCEPT !.sid = cur, !.bytes = bytes, !.end = e,
                                        !.fin = (fin_off[cur] = e)]
          /\ flushable' = Requeue(Data(cur) \ bytes)
          /\ Goto("finish")
    /\ UNCHANGED <<st, off, max_data, fin_off, shutdown, acked, fin_acked, expires,
                   canceled, writable, last_block, max_tx_data, recVars, now, other,
                   idx, cur, result, histVars>>

\* get_block() of a selected stream that is gone
FillGone ==
    /\ pc = "fill" /\ ~Live(cur)
    /\ Panic

Carries(p) == p.infos # {} \/ p.resets # {} \/ p.sid # NoId

\* on_packet_sent; the history keeps the final sizes the packet tells the peer
FinishPacket ==
    /\ pc = "finish"
    /\ sent' = IF Carries(pkt) THEN sent \cup {pkt} ELSE sent
    /\ announced' = announced \cup pkt.resets
                      \cup {<<id, pkt.end>> : id \in {i \in Ids : i = pkt.sid /\ pkt.fin}}
    /\ Abort(IF Carries(pkt) \/ other THEN "ok" ELSE "done")
    /\ UNCHANGED <<streamVars, mapVars, flowVars, lost, losses, now, failed>>

-----------------------------------------------------------------------------
AppStep ==
    \E id \in Ids :
        \/ \E n \in Sizes, fin \in BOOLEAN, d \in Deadlines : StreamSend(id, n, fin, d)
        \/ EmptyFin /\ \E d \in Deadlines : StreamSend(id, 0, TRUE, d)
        \/ StreamShutdown(id)

PeerStep ==
    \/ \E m \in TxMaxes : RecvMaxData(m)
    \/ \E id \in Ids : (\E m \in StreamMaxes : RecvMaxStreamData(id, m)) \/ RecvLateMaxStreamData(id)

Acknowledge == \E p \in sent : AckPacket(p)
Lose == \E p \in sent : LosePacket(p)

SendStep ==
    \/ BeginSend
    \/ \E p \in lost : ProcessLost(p)
    \/ NoRoom \/ StartPacket
    \/ \E id \in canceled : ResetCanceled(id)
    \/ ResetDone \/ EnterStreamLoop
    \/ Peek \/ PeekGone \/ DropBlock \/ DropFails \/ KeepBlock \/ DropDone
    \/ SelectBlock \/ SelectNone \/ FillPacket \/ FillGone
    \/ FinishPacket

Next == AppStep \/ PeerStep \/ Acknowledge \/ Lose \/ Tick \/ SendStep \/ NothingToSend

Spec == Init /\ [][Next]_vars

\* The event loop keeps calling send() while it may have something to send,
\* and recv() keeps processing the ACKs that arrive.
FairSpec ==
    Spec /\ WF_vars(SendStep) /\ WF_vars(NothingToSend) /\ SF_vars(Acknowledge)

-----------------------------------------------------------------------------
(* What the sender promises *)

Outstanding == sent \cup lost \cup {pkt}
InPackets(id) == UNION {p.bytes : p \in {q \in Outstanding : q.sid = id}}

\* No byte stream_send accepted is forgotten: until a block is canceled, each
\* of its bytes is queued, in a packet (sent, lost or being built) or acked.
\* The exception is a call of send() that failed with FinalSize half-way
\* through the lost frames.
NoByteLost ==
    ~failed => \A id \in Ids : ~shutdown[id] =>
        0..(off[id] - 1) = queued[id] \cup acked[id] \cup InPackets(id)

\* Nothing is sent twice without having been declared lost in between: a byte
\* is in at most one of the queue, the acked ranges and the outstanding
\* packets (the retransmission bookkeeping of "Process lost frames").
ByteInOnePlace ==
    \A id \in Ids :
        /\ queued[id] \cap acked[id] = {}
        /\ (queued[id] \cup acked[id]) \cap InPackets(id) = {}
        /\ \A p, q \in Outstanding :
              p.sid = id /\ q.sid = id /\ p # q => p.bytes \cap q.bytes = {}
        /\ sent \cap lost = {}

\* The connection-level counter is the number of bytes acked or in a packet, so
\* the saturating_sub in "Process lost frames" never saturates.
TxDataExact ==
    ~failed =>
        tx_data = Cardinality(UNION {{id} \X (acked[id] \cup InPackets(id)) : id \in Ids})

\* The set behind writable() is exact after every call: the marks made by
\* get_or_create, stream_send, stream_shutdown, cancel_block and
\* MAX_STREAM_DATA together neither miss a writable stream nor keep a stale one.
WritableExact == writable = {id \in Ids : Live(id) /\ IsWritable(id)}

\* Between calls a stream is queued once if it has data inside its window and
\* not at all otherwise (the caller's duty stated at push_flushable).
QueueExact ==
    pc = "idle" => \A id \in Ids :
        Cardinality({i \in DOMAIN flushable : flushable[i] = id})
            = IF Live(id) /\ IsFlushable(id) THEN 1 ELSE 0

\* The peer never sees two final sizes for a block, by fin or by RESET_STREAM,
\* nor a byte at or beyond the final size it was told.
FinalSizeConsistent ==
    \A a \in announced :
        /\ \A b \in announced : a[1] = b[1] => a[2] = b[2]
        /\ \A n \in InPackets(a[1]) \cup acked[a[1]] : n < a[2]

\* A packet never carries data of a block whose deadline has passed.
NoExpiredData ==
    DTP /\ pc = "finish" /\ pkt.bytes # {} => now <= expires[pkt.sid]

\* Every finished block is delivered (and collected) or canceled.
BlockResolved ==
    \A id \in Ids : (Live(id) /\ fin_off[id] # NoFin)
                        ~> (st[id] = "collected" \/ shutdown[id])

-----------------------------------------------------------------------------
(* What the documentation says and the code does not do *)

\* "Consider the stream flushable also when we are sending a zero-length frame
\* that has the fin flag set": the scheduler copes with such a stream.
NoPanic == pc # "panic"

\* "Queue of stream IDs corresponding to streams that have buffered data ready
\* to be sent": a flushable stream is in the queue between calls.
QueueComplete ==
    pc = "idle" => \A id \in Ids : Live(id) /\ IsFlushable(id) => id \in Members(flushable)

=============================================================================
