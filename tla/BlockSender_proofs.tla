------------------------- MODULE BlockSender_proofs -------------------------
(***************************************************************************)
(* Proofs about BlockSender for every value of its constants: type         *)
(* correctness, the fate of every byte, the writable set, the final sizes  *)
(* and the queue of flushable streams.  Shape is the part of the inductive *)
(* invariant the others rest on; each of them is then inductive relative   *)
(* to it.                                                                  *)
(***************************************************************************)
EXTENDS BlockSender, FiniteFacts

-----------------------------------------------------------------------------
\* What SendBuf keeps true of one stream
StreamOK(id) ==
    /\ fin_off[id] \in {NoFin, off[id]}
    /\ off[id] <= max_data[id]
    /\ queued[id] \subseteq 0..(off[id] - 1)
    /\ acked[id] \subseteq 0..(off[id] - 1)
    /\ st[id] = "none" => off[id] = 0 /\ fin_off[id] = NoFin /\ ~shutdown[id]
    /\ st[id] = "collected" => fin_off[id] = off[id] /\ 0..(off[id] - 1) \subseteq acked[id]

StreamShape == \A id \in Ids : StreamOK(id)

\* What a STREAM frame may hold
FrameOK(p) ==
    /\ p.sid = NoId => p.bytes = {}
    /\ p.sid # NoId => /\ p.bytes \subseteq 0..(p.end - 1)
                       /\ p.end <= off[p.sid]
                       /\ p.fin => p.end = off[p.sid] /\ fin_off[p.sid] # NoFin
    /\ p.sid = NoId => ~p.fin

PacketShape ==
    /\ \A p \in sent : FrameOK(p)
    /\ \A p \in lost : FrameOK(p)
    /\ FrameOK(pkt)

\* Where the call of send() is
CallShape ==
    /\ pc # "finish" => pkt.sid = NoId
    /\ pc \in {"idle", "lost"} => pkt = EmptyPkt
    /\ pc \notin {"idle", "lost"} => lost = {}
    /\ pc = "fill" => cur \in Ids
    /\ pc = "drop" => idx <= Len(flushable)
    /\ pc = "select" => flushable # <<>>
    /\ pc = "drop" => \A id \in Members(flushable) : Live(id)
    /\ \A id \in canceled : shutdown[id]

Shape == StreamShape /\ PacketShape /\ CallShape

\* ByteInOnePlace, byte by byte
OnePlace ==
    /\ \A id \in Ids : \A b \in queued[id] : b \notin acked[id]
    /\ \A p \in Outstanding : \A b \in p.bytes :
          p.sid \in Ids => b \notin queued[p.sid] /\ b \notin acked[p.sid]
    /\ \A p, q \in Outstanding : p # q /\ p.sid = q.sid => \A b \in p.bytes : b \notin q.bytes
    /\ sent \cap lost = {}

\* NoByteLost, byte by byte
Placed ==
    ~failed => \A id \in Ids : ~shutdown[id] => \A b \in 0..(off[id] - 1) :
        \/ b \in queued[id]
        \/ b \in acked[id]
        \/ \E p \in Outstanding : p.sid = id /\ b \in p.bytes

\* Every final size told, or about to be told, is the stream's length for good
FinalSizes ==
    \A a \in announced \cup pkt.resets :
        a[2] = off[a[1]] /\ (shutdown[a[1]] \/ fin_off[a[1]] # NoFin)

\* Typed state and its shape
Inv1 == TypeOK /\ Shape

-----------------------------------------------------------------------------
(* The queue operations return queues *)

\* swap_remove_back of a valid index keeps a queue of stream IDs, one shorter
LEMMA SwapRemoveBackType ==
    ASSUME NEW q \in Seq(Ids), NEW i \in 1..Len(q)
    PROVE  /\ SwapRemoveBack(q, i) \in Seq(Ids)
           /\ Len(SwapRemoveBack(q, i)) = Len(q) - 1
           /\ Members(SwapRemoveBack(q, i)) \subseteq Members(q)
<1>1. Len(q) \in Nat /\ \A j \in 1..Len(q) : q[j] \in Ids
  OBVIOUS
<1>2. SwapRemoveBack(q, i) \in [1..(Len(q) - 1) -> Ids]
  BY <1>1 DEF SwapRemoveBack
<1>3. Members(SwapRemoveBack(q, i)) \subseteq Members(q)
  BY <1>1 DEF SwapRemoveBack, Members
<1> QED BY <1>1, <1>2, <1>3

\* swap_remove_front of a valid index keeps a queue of stream IDs
LEMMA SwapRemoveFrontType ==
    ASSUME NEW q \in Seq(Ids), NEW i \in 1..Len(q)
    PROVE  SwapRemoveFront(q, i) \in Seq(Ids)
<1>1. Len(q) \in Nat /\ \A j \in 1..Len(q) : q[j] \in Ids
  OBVIOUS
<1>2. SwapRemoveFront(q, i) \in [1..(Len(q) - 1) -> Ids]
  BY <1>1 DEF SwapRemoveFront
<1> QED BY <1>1, <1>2

\* The search of peek_flushable, whatever it finds
LEMMA TakeOutType ==
    ASSUME flushable \in Seq(Ids), NEW id, TakeOut(id)
    PROVE  flushable' \in Seq(Ids)
BY SwapRemoveFrontType DEF TakeOut

-----------------------------------------------------------------------------
(* Sizes *)

\* A set of offsets below a bound has a size
LEMMA OffsetsFinite ==
    ASSUME NEW n \in Nat, NEW S \in SUBSET (0..(n - 1))
    PROVE  IsFiniteSet(S) /\ Cardinality(S) \in Nat
<1>1. IsFiniteSet(0..(n - 1))
  BY FS_Interval
<1>2. IsFiniteSet(S)
  BY <1>1, FS_Subset
<1> QED BY <1>2, FS_CardinalityType

\* The bytes of a packet have a size
LEMMA PacketFinite ==
    ASSUME TypeOK, NEW p \in Packet, FrameOK(p)
    PROVE  Cardinality(p.bytes) \in Nat
<1>1. CASE p.sid = NoId
  BY <1>1, FS_EmptySet DEF FrameOK
<1>2. CASE p.sid # NoId
  <2>1. p.end \in Nat /\ p.bytes \in SUBSET (0..(p.end - 1))
    BY <1>2 DEF FrameOK, Packet
  <2> QED BY <2>1, OffsetsFinite
<1> QED BY <1>1, <1>2

-----------------------------------------------------------------------------
(* Type correctness *)

\* stream_send_full keeps the type: the accepted length is never negative
LEMMA T_StreamSend ==
    ASSUME Inv1, NEW id \in Ids, NEW n \in Nat, NEW fin \in BOOLEAN,
          NEW d \in Nat,
           StreamSend(id, n, fin, d)
    PROVE  TypeOK'
<1>1. Accepted(id, n) \in Nat
  BY DEF Accepted, Inv1, TypeOK, Shape, StreamShape, StreamOK
<1>2. off[id] + Accepted(id, n) \in Nat
  BY <1>1 DEF Inv1, TypeOK
<1> DEFINE k == Accepted(id, n)
<1>3. (off[id]..(off[id] + k - 1)) \in SUBSET Nat
  BY <1>1 DEF Inv1, TypeOK
<1> HIDE DEF k
<1>4. /\ st' \in [Ids -> {"none", "live", "collected"}]
      /\ expires' \in [Ids -> Nat]
  BY DEF StreamSend, Live, Inv1, TypeOK
<1>5. off' \in [Ids -> Nat] /\ queued' \in [Ids -> SUBSET Nat]
  BY <1>2, <1>3 DEF StreamSend, Inv1, TypeOK, k
<1>6. fin_off' \in [Ids -> Nat \cup {NoFin}]
  BY <1>2 DEF StreamSend, Inv1, TypeOK
<1>7. flushable' \in Seq(Ids) /\ writable' \subseteq Ids
  BY DEF StreamSend, Inv1, TypeOK
<1> QED BY <1>4, <1>5, <1>6, <1>7 DEF Inv1, TypeOK, StreamSend, streamVars, mapVars,
      flowVars, recVars, callVars, histVars

\* Processing an acknowledged packet keeps the type
LEMMA T_AckPacket ==
    ASSUME Inv1, NEW p \in sent, AckPacket(p)
    PROVE  TypeOK'
<1>1. p \in Packet
  BY DEF Inv1, TypeOK
<1>2. p.sid \in Ids \cup {NoId} /\ p.bytes \in SUBSET Nat
  BY <1>1 DEF Packet
<1>3. CASE p.sid # NoId /\ Live(p.sid)
  <2>1. acked' \in [Ids -> SUBSET Nat]
    <3>1. acked' = [acked EXCEPT ![p.sid] = acked[p.sid] \cup p.bytes]
      BY <1>3 DEF AckPacket
    <3> QED BY <1>2, <1>3, <3>1 DEF Inv1, TypeOK
  <2>2. fin_acked' \in [Ids -> BOOLEAN]
    <3>1. PICK x \in BOOLEAN : fin_acked' = [fin_acked EXCEPT ![p.sid] = x]
      BY <1>2, <1>3, Zenon DEF AckPacket
    <3> QED BY <3>1 DEF Inv1, TypeOK
  <2>3. st' \in [Ids -> {"none", "live", "collected"}]
    BY <1>2, <1>3 DEF AckPacket, Inv1, TypeOK
  <2> QED BY <2>1, <2>2, <2>3 DEF Inv1, TypeOK, AckPacket, streamVars, mapVars, flowVars,
        recVars, callVars, histVars
<1>4. CASE ~(p.sid # NoId /\ Live(p.sid))
  BY <1>2, <1>4 DEF Inv1, TypeOK, AckPacket, streamVars, mapVars, flowVars, recVars,
        callVars, histVars
<1> QED BY <1>3, <1>4

\* The packet before any frame is a packet
LEMMA EmptyPktType == EmptyPkt \in Packet
BY DEF EmptyPkt, Packet

\* Processing a lost packet keeps the type, on both outcomes of SendBuf::push
LEMMA T_ProcessLost ==
    ASSUME Inv1, NEW p \in lost, ProcessLost(p)
    PROVE  TypeOK'
<1>1. p \in Packet /\ FrameOK(p)
  BY DEF Inv1, TypeOK, Shape, PacketShape
<1>2. p.sid \in Ids \cup {NoId} /\ p.bytes \in SUBSET Nat /\ p.infos \in SUBSET Ids
  BY <1>1 DEF Packet
<1>3. Cardinality(p.bytes) \in Nat
  BY <1>1, PacketFinite DEF Inv1
<1>4. TxAfterLoss(Cardinality(p.bytes)) \in Int
  BY <1>3 DEF TxAfterLoss, Inv1, TypeOK
<1>5. new' \in [Ids -> BOOLEAN]
  BY DEF ProcessLost, Inv1, TypeOK
<1>6. CASE p.sid # NoId /\ Live(p.sid)
  <2> p.sid \in Ids
    BY <1>2, <1>6
  <2>1. CASE PushFails(p)
    <3>1. UNCHANGED <<queued, flushable>> /\ lost' = {} /\ failed' = TRUE /\ tx_data' \in Int
      BY <1>4, <1>6, <2>1 DEF ProcessLost
    <3>2. Abort("final_size")
      BY <1>6, <2>1 DEF ProcessLost
    <3> QED BY <1>5, <3>1, <3>2, EmptyPktType DEF Inv1, TypeOK, ProcessLost, Abort,
          streamVars, mapVars, flowVars, recVars, callVars, histVars
  <2>2. CASE ~PushFails(p)
    <3>1. tx_data' \in Int /\ lost' \subseteq Packet
      BY <1>4, <1>6, <2>2 DEF ProcessLost, Inv1, TypeOK
    <3>2. queued' \in [Ids -> SUBSET Nat]
      <4>1. PICK Q \in {queued[p.sid], queued[p.sid] \cup p.bytes} :
                   queued' = [queued EXCEPT ![p.sid] = Q]
        BY <1>6, <2>2 DEF ProcessLost
      <4> QED BY <1>2, <4>1 DEF Inv1, TypeOK
    <3>3. flushable' \in Seq(Ids)
      <4>1. flushable' = flushable \/ flushable' = Append(flushable, p.sid)
        BY <1>6, <2>2, Zenon DEF ProcessLost
      <4>2. flushable \in Seq(Ids) /\ p.sid \in Ids
        BY DEF Inv1, TypeOK
      <4>3. Append(flushable, p.sid) \in Seq(Ids)
        BY <4>2
      <4> QED BY <4>1, <4>2, <4>3
    <3>4. UNCHANGED <<callVars, result, failed>>
      BY <1>6, <2>2 DEF ProcessLost
    <3> QED BY <1>5, <3>1, <3>2, <3>3, <3>4 DEF Inv1, TypeOK, ProcessLost, streamVars,
          mapVars, flowVars, recVars, callVars, histVars
  <2> QED BY <2>1, <2>2
<1>7. CASE ~(p.sid # NoId /\ Live(p.sid))
  BY <1>2, <1>5, <1>7 DEF Inv1, TypeOK, ProcessLost, streamVars, mapVars, flowVars, recVars,
        callVars, histVars
<1> QED BY <1>6, <1>7

\* Starting a packet keeps the type
LEMMA T_StartPacket ==
    ASSUME Inv1, StartPacket
    PROVE  TypeOK'
<1>1. pkt' \in Packet
  BY EmptyPktType, ConstantsAssumption DEF StartPacket, Packet
<1> QED BY <1>1, ConstantsAssumption DEF StartPacket, Inv1, TypeOK, Goto, streamVars,
      mapVars, flowVars, recVars, callVars, histVars

\* RESET_STREAM is only put in when it fits, so the space left stays a natural
LEMMA T_ResetCanceled ==
    ASSUME Inv1, NEW id \in canceled, ResetCanceled(id)
    PROVE  TypeOK'
<1>1. BlockSize(id) \in Nat /\ id \in Ids
  BY DEF BlockSize, Inv1, TypeOK
<1>2. pkt' \in Packet
  <2> DEFINE R == pkt.resets \cup {<<id, BlockSize(id)>>}
  <2>1. pkt \in Packet
    BY DEF Inv1, TypeOK
  <2>2. R \in SUBSET (Ids \X Nat)
    BY <1>1, <2>1 DEF Packet
  <2>3. [pkt EXCEPT !.resets = R] \in Packet
    <3> HIDE DEF R
    <3> QED BY <2>1, <2>2 DEF Packet
  <2> QED BY <2>1, <2>3 DEF ResetCanceled
<1>3. left' \in Nat
  <2>1. ResetLen \in Nat /\ left \in Nat
    BY ConstantsAssumption DEF Inv1, TypeOK
  <2>2. ResetLen <= left => left - ResetLen \in Nat
    BY <2>1
  <2> QED BY <2>1, <2>2 DEF ResetCanceled
<1> QED BY <1>1, <1>2, <1>3 DEF ResetCanceled, Inv1, TypeOK, Goto, streamVars, mapVars,
      flowVars, recVars, callVars, histVars

\* cancel_block in the drop loop keeps the type: the index is inside the queue
LEMMA T_DropBlock ==
    ASSUME Inv1, DropBlock
    PROVE  TypeOK'
<1>1. idx \in 1..Len(flushable) /\ flushable \in Seq(Ids)
  BY DEF DropBlock, Inv1, TypeOK, Shape, CallShape
<1>2. flushable[idx] \in Ids
  BY <1>1
<1>3. flushable' \in Seq(Ids)
  BY <1>1, SwapRemoveBackType DEF DropBlock
<1> QED BY <1>1, <1>2, <1>3 DEF DropBlock, Inv1, TypeOK, streamVars, mapVars, flowVars,
      recVars, callVars, histVars

\* The failing cancel_block keeps the type
LEMMA T_DropFails ==
    ASSUME Inv1, DropFails
    PROVE  TypeOK'
<1>1. idx \in 1..Len(flushable) /\ flushable \in Seq(Ids)
  BY DEF DropFails, Inv1, TypeOK, Shape, CallShape
<1>2. flushable[idx] \in Ids
  BY <1>1
<1> QED BY <1>1, <1>2, EmptyPktType DEF DropFails, Abort, Inv1, TypeOK, streamVars, mapVars,
      flowVars, recVars, callVars, histVars

\* Skipping a block in the drop loop keeps the type
LEMMA T_KeepBlock ==
    ASSUME Inv1, KeepBlock
    PROVE  TypeOK'
<1>1. idx' \in Nat
  BY DEF KeepBlock, Inv1, TypeOK
<1> QED BY <1>1 DEF KeepBlock, Inv1, TypeOK, streamVars, mapVars, flowVars, recVars,
      callVars, histVars

\* Either scheduler selects a stream ID
LEMMA T_SelectBlock ==
    ASSUME Inv1, SelectBlock
    PROVE  TypeOK'
<1>1. PICK id \in IF DTP THEN DtpChoices ELSE BasicChoices : id # NoId /\ last_block' = id /\ cur' = id /\ TakeOut(id)
  BY DEF SelectBlock
<1>2. Members(flushable) \subseteq Ids /\ last_block \in Ids \cup {NoId}
  BY DEF Inv1, TypeOK, Members
<1>3. id \in Ids
  <2>1. CASE DTP
    BY <1>1, <1>2, <2>1 DEF DtpChoices
  <2>2. CASE ~DTP
    <3>1. flushable[Len(flushable)] \in Ids
      BY DEF Inv1, TypeOK, Shape, CallShape, SelectBlock
    <3> QED BY <1>1, <1>2, <2>2, <3>1 DEF BasicChoices
  <2> QED BY <2>1, <2>2
<1>5. flushable' \in Seq(Ids)
  BY <1>1, TakeOutType DEF Inv1, TypeOK
<1> QED BY <1>1, <1>3, <1>5 DEF SelectBlock, Goto, Inv1, TypeOK, streamVars, mapVars,
      flowVars, recVars, callVars, histVars

\* The body of the STREAM loop keeps the type: BLOCK_INFO is only put in when it
\* fits, and what SendBuf::pop returns is a finite set of offsets
LEMMA T_FillPacket ==
    ASSUME Inv1, FillPacket
    PROVE  TypeOK'
<1> DEFINE bytes == Popped(cur, StreamRoom)
<1>1. cur \in Ids
  BY DEF FillPacket, Inv1, Shape, CallShape
<1>2. Room \in Nat
  BY ConstantsAssumption DEF Room, SendsInfo, Inv1, TypeOK
<1>3. bytes \in SUBSET queued[cur] /\ bytes \in SUBSET Nat
  BY <1>1 DEF Popped, Data, Inv1, TypeOK
<1>4. Cardinality(bytes) \in Nat
  <2>1. off[cur] \in Nat /\ bytes \in SUBSET (0..(off[cur] - 1))
    BY <1>1, <1>3 DEF Inv1, TypeOK, Shape, StreamShape, StreamOK
  <2> QED BY <2>1, OffsetsFinite
<1>5. InfoPkt \in Packet
  BY <1>1 DEF InfoPkt, Packet, Inv1, TypeOK
<1>6. pkt' \in Packet
  <2>1. CASE pkt' = InfoPkt
    BY <1>5, <2>1
  <2>2. CASE \E e \in 0..off[cur] : pkt' = [InfoPkt EXCEPT !.sid = cur, !.bytes = bytes,
        !.end = e, !.fin = (fin_off[cur] = e)]
    <3>1. PICK e \in 0..off[cur] : pkt' = [InfoPkt EXCEPT !.sid = cur, !.bytes = bytes,
          !.end = e, !.fin = (fin_off[cur] = e)]
      BY <2>2
    <3>2. e \in Nat /\ (fin_off[cur] = e) \in BOOLEAN
      OBVIOUS
    <3> QED BY <1>1, <1>3, <1>5, <3>1, <3>2 DEF Packet
  <2> QED BY <2>1, <2>2 DEF FillPacket
<1>7. flushable' \in Seq(Ids)
  <2>1. flushable \in Seq(Ids) /\ \A data : Requeue(data) \in Seq(Ids)
    BY <1>1 DEF Requeue, Inv1, TypeOK
  <2> QED BY <2>1 DEF FillPacket
<1>8. queued' \in [Ids -> SUBSET Nat]
  <2>1. queued' = queued \/ queued' = [queued EXCEPT ![cur] = @ \ bytes]
    BY DEF FillPacket
  <2>2. queued \in [Ids -> SUBSET Nat]
    BY <1>1, Zenon DEF Inv1, TypeOK
  <2> QED BY ONLY <2>1, <2>2
<1>9. tx_data' \in Int
  <2>1. tx_data' = tx_data \/ tx_data' = tx_data + Cardinality(bytes)
    BY DEF FillPacket
  <2> HIDE DEF bytes
  <2> QED BY <1>4, <2>1 DEF Inv1, TypeOK
<1>10. new' \in [Ids -> BOOLEAN]
  BY <1>1 DEF FillPacket, Inv1, TypeOK
<1> HIDE DEF bytes
<1> QED BY <1>2, <1>6, <1>7, <1>8, <1>9, <1>10 DEF FillPacket, Goto, Inv1, TypeOK,
      streamVars, mapVars, flowVars, recVars, callVars, histVars

\* on_packet_sent keeps the type
LEMMA T_FinishPacket ==
    ASSUME Inv1, FinishPacket
    PROVE  TypeOK'
<1>1. pkt \in Packet /\ pkt.end \in Nat /\ pkt.resets \subseteq Ids \X Nat
  BY DEF Inv1, TypeOK, Packet
<1>2. announced' \subseteq Ids \X Nat
  BY <1>1 DEF FinishPacket, Inv1, TypeOK
<1>3. sent' \subseteq Packet
  BY <1>1 DEF FinishPacket, Inv1, TypeOK
<1> QED BY <1>2, <1>3, EmptyPktType DEF FinishPacket, Abort, Inv1, TypeOK, streamVars,
      mapVars, flowVars, recVars, callVars, histVars

-----------------------------------------------------------------------------
(* The shape of streams, packets and the call in progress *)

\* A frame that fits a stream keeps fitting while its length and fin stay
LEMMA FrameKept ==
    ASSUME NEW p, FrameOK(p), off' = off, fin_off' = fin_off
    PROVE  FrameOK(p)'
BY DEF FrameOK

\* The packet before any frame holds no STREAM frame
LEMMA EmptyPktFrame == FrameOK(EmptyPkt)
BY DEF FrameOK, EmptyPkt

\* What a write does to the stream's length and fin
LEMMA WriteEffect ==
    ASSUME Inv1, NEW id \in Ids, NEW n \in Nat, NEW fin \in BOOLEAN, NEW d \in Nat,
           StreamSend(id, n, fin, d)
    PROVE  /\ Accepted(id, n) \in Nat
           /\ off' = [off EXCEPT ![id] = off[id] + Accepted(id, n)]
           /\ off[id] + Accepted(id, n) <= max_data[id]
           /\ shutdown[id] \/ fin_off[id] # NoFin => Accepted(id, n) = 0 /\ fin_off' = fin_off
           /\ fin_off' = fin_off \/ fin_off' = [fin_off EXCEPT ![id] = off'[id]]
           /\ queued' = [queued EXCEPT ![id] = queued[id] \cup off[id]..(off'[id] - 1)]
<1>1. fin_off \in [Ids -> Nat \cup {NoFin}] /\ off \in [Ids -> Nat] /\ max_data \in [Ids -> Nat]
  BY DEF Inv1, TypeOK
<1>2. off[id] <= max_data[id]
  BY DEF Inv1, Shape, StreamShape, StreamOK
<1>3. Accepted(id, n) \in Nat /\ off[id] + Accepted(id, n) <= max_data[id]
  BY <1>1, <1>2 DEF Accepted
<1>4. off' = [off EXCEPT ![id] = off[id] + Accepted(id, n)]
  BY DEF StreamSend
<1>5. off'[id] = off[id] + Accepted(id, n)
  BY <1>1, <1>4
<1>6. queued' = [queued EXCEPT ![id] = queued[id] \cup off[id]..(off'[id] - 1)]
  BY <1>5 DEF StreamSend
<1>7. fin_off' = [fin_off EXCEPT ![id] = IF SetsFin(id, n, fin) THEN off'[id] ELSE fin_off[id]]
  BY <1>5 DEF StreamSend
<1>8. ~SetsFin(id, n, fin) => fin_off' = fin_off
  BY <1>1, <1>7
<1>9. shutdown[id] \/ fin_off[id] # NoFin => Accepted(id, n) = 0 /\ ~SetsFin(id, n, fin)
  BY DEF Accepted, SetsFin
<1> QED BY <1>3, <1>4, <1>6, <1>7, <1>8, <1>9

\* A write appends within the window and never moves a fin already set, so the
\* stream and every frame of it stay well formed
LEMMA S_StreamSend ==
    ASSUME Inv1, TypeOK', NEW id \in Ids, NEW n \in Nat, NEW fin \in BOOLEAN, NEW d \in Nat,
           StreamSend(id, n, fin, d)
    PROVE  Shape'
<1> DEFINE k == Accepted(id, n)
<1>1. /\ k \in Nat
      /\ off' = [off EXCEPT ![id] = off[id] + k]
      /\ off[id] + k <= max_data[id]
      /\ shutdown[id] \/ fin_off[id] # NoFin => k = 0 /\ fin_off' = fin_off
      /\ fin_off' = fin_off \/ fin_off' = [fin_off EXCEPT ![id] = off'[id]]
      /\ queued' = [queued EXCEPT ![id] = queued[id] \cup off[id]..(off'[id] - 1)]
  BY WriteEffect
<1> HIDE DEF k
<1>2. /\ fin_off \in [Ids -> Nat \cup {NoFin}] /\ off \in [Ids -> Nat]
      /\ queued \in [Ids -> SUBSET Nat] /\ st \in [Ids -> {"none", "live", "collected"}]
  BY DEF Inv1, TypeOK
<1>3. st' = [st EXCEPT ![id] = "live"] /\ UNCHANGED <<max_data, shutdown, acked, recVars,
      canceled, callVars>>
  BY DEF StreamSend
<1>4. StreamShape'
  <2> SUFFICES ASSUME NEW i \in Ids PROVE StreamOK(i)'
    BY DEF StreamShape
  <2>0. StreamOK(i)
    BY DEF Inv1, Shape, StreamShape
  <2>1. CASE i # id
    BY <1>1, <1>2, <1>3, <2>0, <2>1 DEF StreamOK
  <2>2. CASE i = id
    <3>1. off'[i] = off[i] + k /\ st'[i] = "live" /\ off[i] \in Nat
      BY <1>1, <1>2, <1>3, <2>2
    <3>2. fin_off'[i] \in {NoFin, off'[i]}
      BY <1>1, <1>2, <2>0, <2>2, <3>1 DEF StreamOK
    <3>3. queued'[i] \subseteq 0..(off'[i] - 1)
      BY <1>1, <1>2, <2>0, <2>2, <3>1 DEF StreamOK
    <3>4. acked'[i] \subseteq 0..(off'[i] - 1)
      BY <1>1, <1>3, <2>0, <3>1 DEF StreamOK
    <3> QED BY <1>1, <1>3, <2>2, <3>1, <3>2, <3>3, <3>4 DEF StreamOK
  <2> QED BY <2>1, <2>2
<1>5. ASSUME NEW p \in Packet, FrameOK(p)
      PROVE  FrameOK(p)'
  <2>1. p.end \in Nat /\ p.sid \in Ids \cup {NoId}
    BY <1>5 DEF Packet
  <2> QED BY <1>1, <1>2, <1>5, <2>1 DEF FrameOK
<1>6. PacketShape'
  BY <1>3, <1>5 DEF PacketShape, Inv1, Shape, TypeOK, recVars, callVars
<1>7. CallShape'
  <2>1. pc = "idle" /\ pc' = "idle"
    BY DEF StreamSend, callVars
  <2> QED BY <1>3, <2>1 DEF CallShape, Inv1, Shape, recVars, callVars
<1> QED BY <1>4, <1>6, <1>7 DEF Shape


\* Acknowledged bytes were written, and a stream is collected only when all of
\* its bytes are acknowledged
LEMMA S_AckPacket ==
    ASSUME Inv1, TypeOK', NEW p \in sent, AckPacket(p)
    PROVE  Shape'
<1>1. p \in Packet /\ FrameOK(p)
  BY DEF Inv1, TypeOK, Shape, PacketShape
<1>2. p.sid \in Ids \cup {NoId} /\ p.end \in Nat
  BY <1>1 DEF Packet
<1>3. StreamShape'
  <2> SUFFICES ASSUME NEW i \in Ids PROVE StreamOK(i)'
    BY DEF StreamShape
  <2>1. StreamOK(i)
    BY DEF Inv1, Shape, StreamShape
  <2>2. UNCHANGED <<queued, off, max_data, fin_off, shutdown>>
    BY DEF AckPacket
  <2>3. CASE i # p.sid \/ ~Live(p.sid)
    <3>1. acked'[i] = acked[i] /\ st'[i] = st[i]
      BY <2>3 DEF AckPacket, Inv1, TypeOK
    <3> QED BY <2>1, <2>2, <3>1 DEF StreamOK
  <2>4. CASE i = p.sid /\ Live(p.sid)
    <3> DEFINE A == acked[i] \cup p.bytes
    <3>1. acked' = [acked EXCEPT ![i] = A]
      BY <2>4, ConstantsAssumption DEF AckPacket
    <3>2. acked'[i] = A
      BY <3>1 DEF Inv1, TypeOK
    <3>3. A \subseteq 0..(off[i] - 1)
      <4>1. off[i] \in Nat
        BY DEF Inv1, TypeOK
      <4>2. p.bytes \subseteq 0..(p.end - 1) /\ p.end <= off[i]
        BY <1>1, <2>4, ConstantsAssumption DEF FrameOK
      <4> QED BY <1>2, <2>1, <4>1, <4>2 DEF StreamOK
    <3>4. PICK f \in BOOLEAN : st' = IF Complete(i, A,
          f) THEN [st EXCEPT ![i] = "collected"] ELSE st
      BY <2>4, ConstantsAssumption, Zenon DEF AckPacket
    <3>5. CASE ~Complete(i, A, f)
      BY <2>1, <2>2, <2>4, <3>2, <3>3, <3>4, <3>5 DEF StreamOK, Live
    <3>6. CASE Complete(i, A, f)
      <4>1. st'[i] = "collected"
        BY <3>4, <3>6 DEF Inv1, TypeOK
      <4>2. fin_off[i] = off[i]
        BY <2>1, <3>6 DEF Complete, StreamOK
      <4>3. 0..(off[i] - 1) \subseteq A
        BY <3>6, <4>2 DEF Complete
      <4> QED BY <2>1, <2>2, <3>2, <3>3, <4>1, <4>2, <4>3 DEF StreamOK
    <3> QED BY <3>5, <3>6
  <2> QED BY <2>3, <2>4
<1>4. PacketShape'
  BY FrameKept DEF AckPacket, Inv1, Shape, PacketShape, callVars
<1>5. CallShape'
  BY DEF AckPacket, Inv1, Shape, CallShape, callVars, mapVars
<1> QED BY <1>3, <1>4, <1>5 DEF Shape

\* Declaring a packet lost moves it as it is
LEMMA S_LosePacket ==
    ASSUME Inv1, TypeOK', NEW p \in sent, LosePacket(p)
    PROVE  Shape'
<1>1. StreamShape'
  BY DEF LosePacket, Inv1, Shape, StreamShape, StreamOK, streamVars
<1>2. off' = off /\ fin_off' = fin_off /\ pkt' = pkt /\ sent' \subseteq sent /\ lost' \subseteq lost \cup sent
  BY DEF LosePacket, streamVars, callVars
<1>3. PacketShape'
  BY <1>2, FrameKept DEF Inv1, Shape, PacketShape
<1>4. CallShape'
  BY DEF LosePacket, Inv1, Shape, CallShape, callVars, mapVars, streamVars
<1> QED BY <1>1, <1>3, <1>4 DEF Shape

\* Re-buffering a lost frame puts back only bytes that were written
LEMMA S_ProcessLost ==
    ASSUME Inv1, TypeOK', NEW p \in lost, ProcessLost(p)
    PROVE  Shape'
<1>1. p \in Packet /\ FrameOK(p)
  BY DEF Inv1, TypeOK, Shape, PacketShape
<1>2. p.sid \in Ids \cup {NoId} /\ p.end \in Nat
  BY <1>1 DEF Packet
<1>3. UNCHANGED <<st, off, max_data, fin_off, shutdown, acked, sent, canceled>>
  BY DEF ProcessLost
<1>4. queued' = queued \/ (p.sid \in Ids /\ \E Q \in {queued[p.sid],
      queued[p.sid] \cup p.bytes} :
                             queued' = [queued EXCEPT ![p.sid] = Q])
  <2>1. CASE p.sid # NoId /\ Live(p.sid) /\ ~PushFails(p)
    BY <1>2, <2>1 DEF ProcessLost
  <2>2. CASE ~(p.sid # NoId /\ Live(p.sid) /\ ~PushFails(p))
    BY <2>2 DEF ProcessLost
  <2> QED BY <2>1, <2>2
<1>5. lost' \subseteq lost /\ (pkt' = pkt \/ pkt' = EmptyPkt)
  BY DEF ProcessLost, Abort, callVars
<1>6. StreamShape'
  <2> SUFFICES ASSUME NEW i \in Ids PROVE StreamOK(i)'
    BY DEF StreamShape
  <2>1. StreamOK(i)
    BY DEF Inv1, Shape, StreamShape
  <2>2. queued'[i] \subseteq 0..(off[i] - 1)
    <3>1. off[i] \in Nat /\ queued \in [Ids -> SUBSET Nat]
      BY DEF Inv1, TypeOK
    <3>2. i = p.sid => p.bytes \subseteq 0..(off[i] - 1)
      BY <1>1, <1>2, <3>1, ConstantsAssumption DEF FrameOK
    <3>3. queued[i] \subseteq 0..(off[i] - 1)
      BY <2>1 DEF StreamOK
    <3> QED BY <1>4, <3>1, <3>2, <3>3
  <2> QED BY <1>3, <2>1, <2>2 DEF StreamOK
<1>7. PacketShape'
  BY <1>3, <1>5, FrameKept, EmptyPktFrame DEF Inv1, Shape, PacketShape
<1>8. CallShape'
  <2>1. pc = "lost" /\ pkt = EmptyPkt /\ pkt' = EmptyPkt
    BY <1>5 DEF ProcessLost, Inv1, Shape, CallShape
  <2>2. pc' \in {"idle", "lost"}
    BY <2>1 DEF ProcessLost, Abort, callVars
  <2> QED BY <1>3, <2>1, <2>2 DEF Inv1, Shape, CallShape, EmptyPkt
<1> QED BY <1>6, <1>7, <1>8 DEF Shape

\* A fresh packet holds no STREAM frame
LEMMA S_StartPacket ==
    ASSUME Inv1, TypeOK', StartPacket
    PROVE  Shape'
<1>1. PICK n \in PktNums : pkt' = [EmptyPkt EXCEPT !.pn = n]
  BY DEF StartPacket
<1>2. pkt'.sid = NoId /\ pkt'.bytes = {} /\ ~pkt'.fin
  BY <1>1 DEF EmptyPkt
<1>3. StreamShape'
  BY DEF StartPacket, Inv1, Shape, StreamShape, StreamOK, streamVars
<1>4. UNCHANGED <<off, fin_off, sent, lost>>
  BY DEF StartPacket, streamVars, recVars
<1>6. PacketShape'
  <2>1. \A p \in sent' \cup lost' : FrameOK(p)'
    BY <1>4, FrameKept DEF Inv1, Shape, PacketShape
  <2>2. FrameOK(pkt)'
    BY <1>2 DEF FrameOK
  <2> QED BY <2>1, <2>2 DEF PacketShape
<1>7. CallShape'
  BY <1>2 DEF StartPacket, Inv1, Shape, CallShape, Goto, streamVars, mapVars, recVars
<1> QED BY <1>3, <1>6, <1>7 DEF Shape

\* The loop over canceled() leaves streams and STREAM frames alone
LEMMA S_ResetCanceled ==
    ASSUME Inv1, TypeOK', NEW id \in canceled, ResetCanceled(id)
    PROVE  Shape'
<1>1. pkt \in Packet /\ pkt' \in Packet
  BY DEF Inv1, TypeOK
<1>2. pkt'.sid = pkt.sid /\ pkt'.bytes = pkt.bytes /\ pkt'.end = pkt.end /\ pkt'.fin = pkt.fin
  BY <1>1 DEF ResetCanceled, Packet
<1>3. StreamShape'
  BY DEF ResetCanceled, Inv1, Shape, StreamShape, StreamOK, streamVars
<1>4. UNCHANGED <<off, fin_off, sent, lost, shutdown, flushable, idx,
      cur>> /\ canceled' \subseteq canceled
  BY DEF ResetCanceled, streamVars, recVars
<1>5. PacketShape'
  <2>1. \A p \in sent' \cup lost' : FrameOK(p)'
    BY <1>4, FrameKept DEF Inv1, Shape, PacketShape
  <2>2. FrameOK(pkt)'
    BY <1>2, <1>4 DEF FrameOK, Inv1, Shape, PacketShape
  <2> QED BY <2>1, <2>2 DEF PacketShape
<1>6. pc = "reset" /\ pc' \in {"reset", "window"}
  BY DEF ResetCanceled, Goto
<1>7. CallShape'
  BY <1>2, <1>4, <1>6 DEF Inv1, Shape, CallShape
<1> QED BY <1>3, <1>5, <1>7 DEF Shape

\* cancel_block shuts the stream down before it is listed as canceled, and the
\* drop index stays inside the shrinking queue
LEMMA S_DropBlock ==
    ASSUME Inv1, TypeOK', DropBlock
    PROVE  Shape'
<1>1. idx \in 1..Len(flushable) /\ flushable \in Seq(Ids)
  BY DEF DropBlock, Inv1, TypeOK, Shape, CallShape
<1>2. Len(flushable') = Len(flushable) - 1
  BY <1>1, SwapRemoveBackType DEF DropBlock
<1>3. /\ flushable[idx] \in Ids /\ shutdown \in [Ids -> BOOLEAN] /\ canceled \subseteq Ids
      /\ ~shutdown[flushable[idx]]
  BY <1>1 DEF Inv1, TypeOK, DropBlock
<1>4. UNCHANGED <<off, fin_off, queued, acked, st, max_data, sent, lost, pkt, pc, cur>>
  BY DEF DropBlock, recVars
<1>5. shutdown' = [shutdown EXCEPT ![flushable[idx]] = TRUE] /\ canceled' = canceled \cup {flushable[idx]}
  BY DEF DropBlock
<1>6. Live(flushable[idx])
  BY <1>1, <1>3 DEF DropBlock, Inv1, Shape, CallShape, Members
<1>7. StreamShape'
  BY <1>3, <1>4, <1>5, <1>6 DEF Inv1, Shape, StreamShape, StreamOK, Live
<1>8. PacketShape'
  BY <1>4, FrameKept DEF Inv1, Shape, PacketShape
<1>9. CallShape'
  <2>1. pc = "drop" /\ idx' = idx - 1
    BY DEF DropBlock
  <2>2. idx' <= Len(flushable')
    BY <1>1, <1>2, <2>1
  <2>3. \A i \in canceled' : shutdown'[i]
    BY <1>3, <1>5 DEF Inv1, Shape, CallShape
  <2>4. \A i \in Members(flushable') : st'[i] = "live"
    <3>1. Members(flushable') \subseteq Members(flushable)
      BY <1>1, SwapRemoveBackType DEF DropBlock
    <3> QED BY <1>4, <2>1, <3>1 DEF Inv1, Shape, CallShape, Live
  <2> QED BY <1>4, <2>1, <2>2, <2>3, <2>4 DEF Inv1, Shape, CallShape, Live, Members
<1> QED BY <1>7, <1>8, <1>9 DEF Shape

\* Skipping a block moves the drop index only
LEMMA S_KeepBlock ==
    ASSUME Inv1, TypeOK', KeepBlock
    PROVE  Shape'
<1>1. StreamShape' /\ PacketShape'
  BY FrameKept DEF KeepBlock, Inv1, Shape, StreamShape, StreamOK, PacketShape, streamVars,
        recVars
<1>2. idx \in Nat /\ Len(flushable) \in Nat
  BY DEF Inv1, TypeOK
<1>3. idx' <= Len(flushable')
  BY <1>2 DEF KeepBlock, Inv1, Shape, CallShape, mapVars
<1>4. CallShape'
  BY <1>3 DEF KeepBlock, Inv1, Shape, CallShape, Live, Members, mapVars, streamVars, recVars
<1> QED BY <1>1, <1>4 DEF Shape

\* SendBuf::pop takes bytes from the buffer, and none once it was shut down
LEMMA PoppedBytes ==
    ASSUME Inv1, NEW id \in Ids, NEW n
    PROVE  Popped(id, n) \subseteq queued[id] /\ (shutdown[id] => Popped(id, n) = {})
BY DEF Popped, Data, Inv1, TypeOK

\* The three ways the body of the STREAM loop ends
LEMMA FillEffect ==
    ASSUME Inv1, FillPacket
    PROVE  /\ cur \in Ids
           /\ UNCHANGED <<st, off, max_data, fin_off, shutdown, acked, canceled, writable,
                          sent, lost, failed, announced, cur>>
           /\ InfoPkt \in Packet /\ InfoPkt.sid = NoId /\ InfoPkt.bytes = {} /\ ~InfoPkt.fin
           /\ InfoPkt.resets = pkt.resets
           /\ \/ pc' \in {"peek", "finish"} /\ pkt' = InfoPkt /\ queued' = queued
              \/ /\ pc' = "finish"
                 /\ queued' = [queued EXCEPT ![cur] = @ \ Popped(cur, StreamRoom)]
                 /\ \E e \in 0..off[cur] :
                      /\ EndsAt(cur, Popped(cur, StreamRoom), e)
                      /\ pkt' = [InfoPkt EXCEPT !.sid = cur, !.bytes = Popped(cur, StreamRoom),
                                        !.end = e, !.fin = (fin_off[cur] = e)]
<1>1. cur \in Ids /\ pkt \in Packet /\ pkt.sid = NoId /\ pkt.bytes = {} /\ ~pkt.fin
  BY DEF FillPacket, Inv1, TypeOK, Shape, CallShape, PacketShape, FrameOK
<1>2. /\ InfoPkt \in Packet /\ InfoPkt.sid = NoId /\ InfoPkt.bytes = {} /\ ~InfoPkt.fin
      /\ InfoPkt.resets = pkt.resets
  BY <1>1 DEF InfoPkt, Packet
<1>3. UNCHANGED <<st, off, max_data, fin_off, shutdown, acked, canceled, writable,
                  sent, lost, failed, announced, cur>>
  BY DEF FillPacket, recVars, histVars
<1> QED BY <1>1, <1>2, <1>3 DEF FillPacket, Goto

\* The STREAM frame send() builds fits its stream
LEMMA S_FillPacket ==
    ASSUME Inv1, TypeOK', FillPacket
    PROVE  Shape'
<1> DEFINE B == Popped(cur, StreamRoom)
<1>1. /\ cur \in Ids
      /\ UNCHANGED <<st, off, max_data, fin_off, shutdown, acked, canceled, sent, lost>>
      /\ InfoPkt \in Packet /\ InfoPkt.sid = NoId /\ InfoPkt.bytes = {} /\ ~InfoPkt.fin
      /\ \/ pc' \in {"peek", "finish"} /\ pkt' = InfoPkt /\ queued' = queued
         \/ /\ pc' = "finish"
            /\ queued' = [queued EXCEPT ![cur] = @ \ B]
            /\ \E e \in 0..off[cur] :
                 /\ EndsAt(cur, B, e)
                 /\ pkt' = [InfoPkt EXCEPT !.sid = cur, !.bytes = B,
                                   !.end = e, !.fin = (fin_off[cur] = e)]
  BY FillEffect
<1>2. B \subseteq queued[cur]
  BY <1>1, PoppedBytes
<1> HIDE DEF B
<1>3. StreamShape'
  <2>1. \A i \in Ids : queued'[i] \subseteq queued[i]
    <3>1. queued' = queued \/ queued' = [queued EXCEPT ![cur] = @ \ B]
      BY <1>1
    <3>2. cur \in Ids /\ queued \in [Ids -> SUBSET Nat]
      BY <1>1 DEF Inv1, TypeOK
    <3> QED BY <3>1, <3>2
  <2> QED BY <1>1, <2>1 DEF Inv1, Shape, StreamShape, StreamOK
<1>4. FrameOK(pkt)'
  <2>1. CASE pkt' = InfoPkt
    BY <1>1, <2>1 DEF FrameOK
  <2>2. CASE pkt' # InfoPkt
    <3>1. PICK e \in 0..off[cur] :
                 /\ EndsAt(cur, B, e)
                 /\ pkt' = [InfoPkt EXCEPT !.sid = cur, !.bytes = B,
                                   !.end = e, !.fin = (fin_off[cur] = e)]
      BY <1>1, <2>2
    <3>2. pkt'.sid = cur /\ pkt'.bytes = B /\ pkt'.end = e /\ pkt'.fin = (fin_off[cur] = e)
      BY <1>1, <3>1 DEF Packet
    <3>3. off[cur] \in Nat /\ B \subseteq 0..(off[cur] - 1) /\ fin_off[cur] \in {NoFin,
          off[cur]}
      BY <1>1, <1>2 DEF Inv1, TypeOK, Shape, StreamShape, StreamOK
    <3>4. B \subseteq 0..(e - 1)
      BY <3>1, <3>3 DEF EndsAt
    <3>5. fin_off[cur] = e => e = off[cur] /\ fin_off[cur] # NoFin
      BY <3>1, <3>3 DEF NoFin
    <3>6. cur # NoId
      BY <1>1, ConstantsAssumption
    <3>7. off' = off /\ fin_off' = fin_off
      BY <1>1
    <3>8. e <= off[cur]
      BY <3>3
    <3> QED BY <3>2, <3>4, <3>5, <3>6, <3>7, <3>8 DEF FrameOK
  <2> QED BY <2>1, <2>2
<1>5. PacketShape'
  BY <1>1, <1>4, FrameKept DEF Inv1, Shape, PacketShape
<1>6. CallShape'
  <2>1. pc = "fill"
    BY DEF FillPacket
  <2>2. lost' = {} /\ \A id \in canceled' : shutdown'[id]
    BY <1>1, <2>1 DEF Inv1, Shape, CallShape
  <2>3. pc' # "finish" => pkt'.sid = NoId
    BY <1>1
  <2>4. pc' \in {"peek", "finish"}
    BY <1>1
  <2> QED BY <2>2, <2>3, <2>4 DEF CallShape
<1> QED BY <1>3, <1>5, <1>6 DEF Shape

-----------------------------------------------------------------------------
(* Every step keeps the type and the shape *)

\* Steps of the call in progress leave streams and packets well formed
LEMMA ShapeKept ==
    ASSUME Inv1,
           UNCHANGED <<st, queued, off, max_data, fin_off, shutdown, acked, sent, lost>>,
           pkt' = pkt \/ pkt' = EmptyPkt
    PROVE  StreamShape' /\ PacketShape'
<1>1. StreamShape'
  BY DEF Inv1, Shape, StreamShape, StreamOK
<1>2. PacketShape'
  BY FrameKept, EmptyPktFrame DEF Inv1, Shape, PacketShape
<1> QED BY <1>1, <1>2

\* Larger windows, whatever the limits the peer sends
LEMMA Inv1MaxData ==
    ASSUME Inv1, NEW m \in Nat, RecvMaxData(m)
    PROVE  Inv1'
<1> USE DEF streamVars, mapVars, flowVars, recVars, callVars, histVars
<1>1. TypeOK'
  BY DEF RecvMaxData, Inv1, TypeOK
<1>2. StreamShape' /\ PacketShape'
  BY ShapeKept DEF RecvMaxData
<1>3. CallShape'
  BY <1>1, ConstantsAssumption DEF RecvMaxData, Inv1, TypeOK, Shape, CallShape,
        Live, Members, EmptyPkt
<1> QED BY <1>1, <1>2, <1>3 DEF Inv1, Shape

LEMMA Inv1MaxStreamData ==
    ASSUME Inv1, NEW id \in Ids, NEW m \in Nat, RecvMaxStreamData(id, m)
    PROVE  Inv1'
<1> USE DEF streamVars, mapVars, flowVars, recVars, callVars, histVars
<1>1. TypeOK'
  BY DEF RecvMaxStreamData, Inv1, TypeOK
<1>2. StreamShape'
  BY DEF RecvMaxStreamData, Inv1, TypeOK, Shape, StreamShape, StreamOK, Live
<1>3. PacketShape'
  BY FrameKept, EmptyPktFrame DEF RecvMaxStreamData, Inv1, Shape, PacketShape
<1>4. CallShape'
  BY <1>1, ConstantsAssumption DEF RecvMaxStreamData, Inv1, TypeOK, Shape,
        CallShape, Live, Members, EmptyPkt
<1> QED BY <1>1, <1>2, <1>3, <1>4 DEF Inv1, Shape

\* Typed state and shape are inductive: one step per action
LEMMA Inv1Step ==
    ASSUME Inv1, [Next]_vars
    PROVE  Inv1'
<1> USE DEF streamVars, mapVars, flowVars, recVars, callVars, histVars
<1>1. ASSUME NEW id \in Ids, NEW n \in Nat, NEW fin \in BOOLEAN, NEW d \in Nat,
      StreamSend(id, n, fin, d) PROVE Inv1'
  BY <1>1, T_StreamSend, S_StreamSend DEF Inv1
<1>2. ASSUME NEW p \in sent, AckPacket(p) PROVE Inv1'
  BY <1>2, T_AckPacket, S_AckPacket DEF Inv1
<1>3. ASSUME NEW p \in sent, LosePacket(p) PROVE Inv1'
  <2>1. TypeOK'
    BY <1>3 DEF LosePacket, Inv1, TypeOK
  <2> QED BY <1>3, <2>1, S_LosePacket DEF Inv1
<1>4. ASSUME NEW p \in lost, ProcessLost(p) PROVE Inv1'
  BY <1>4, T_ProcessLost, S_ProcessLost DEF Inv1
<1>5. CASE StartPacket
  BY <1>5, T_StartPacket, S_StartPacket DEF Inv1
<1>6. ASSUME NEW id \in canceled, ResetCanceled(id) PROVE Inv1'
  BY <1>6, T_ResetCanceled, S_ResetCanceled DEF Inv1
<1>7. CASE DropBlock
  BY <1>7, T_DropBlock, S_DropBlock DEF Inv1
<1>8. CASE KeepBlock
  BY <1>8, T_KeepBlock, S_KeepBlock DEF Inv1
<1>9. CASE FillPacket
  BY <1>9, T_FillPacket, S_FillPacket DEF Inv1
<1>10. ASSUME NEW id \in Ids, StreamShutdown(id) PROVE Inv1'
  <2>1. TypeOK'
    BY <1>10 DEF StreamShutdown, Inv1, TypeOK
  <2>2. StreamShape'
    BY <1>10 DEF StreamShutdown, Inv1, TypeOK, Shape, StreamShape, StreamOK, Live
  <2>3. PacketShape'
    BY <1>10, FrameKept, EmptyPktFrame DEF StreamShutdown, Inv1, Shape, PacketShape
  <2>4. CallShape'
    BY <1>10, <2>1, ConstantsAssumption DEF StreamShutdown, Inv1, TypeOK, Shape, CallShape,
          Live, Members, EmptyPkt
  <2> QED BY <2>1, <2>2, <2>3, <2>4 DEF Inv1, Shape
<1>11. ASSUME NEW m \in Nat, RecvMaxData(m) PROVE Inv1'
  BY <1>11, Inv1MaxData
<1>12. ASSUME NEW id \in Ids, NEW m \in Nat, RecvMaxStreamData(id, m) PROVE Inv1'
  BY <1>12, Inv1MaxStreamData
<1>13. ASSUME NEW id \in Ids, RecvLateMaxStreamData(id) PROVE Inv1'
  <2>1. TypeOK'
    BY <1>13 DEF RecvLateMaxStreamData, Inv1, TypeOK
  <2>2. StreamShape' /\ PacketShape'
    BY <1>13, ShapeKept DEF RecvLateMaxStreamData
  <2>3. CallShape'
    BY <1>13, <2>1, ConstantsAssumption DEF RecvLateMaxStreamData, Inv1, TypeOK, Shape,
          CallShape, Live, Members, EmptyPkt
  <2> QED BY <2>1, <2>2, <2>3 DEF Inv1, Shape
<1>14. CASE Tick
  <2>1. TypeOK'
    BY <1>14 DEF Tick, Inv1, TypeOK
  <2>2. StreamShape' /\ PacketShape'
    BY <1>14, ShapeKept DEF Tick
  <2>3. CallShape'
    BY <1>14, <2>1, ConstantsAssumption DEF Tick, Inv1, TypeOK, Shape, CallShape, Live,
          Members, EmptyPkt
  <2> QED BY <2>1, <2>2, <2>3 DEF Inv1, Shape
<1>15. CASE BeginSend
  <2>1. TypeOK'
    BY <1>15, ConstantsAssumption DEF BeginSend, Goto, Inv1, TypeOK
  <2>2. StreamShape' /\ PacketShape'
    BY <1>15, ShapeKept DEF BeginSend, Goto
  <2>3. CallShape'
    BY <1>15, <2>1, ConstantsAssumption DEF BeginSend, Goto, Inv1, TypeOK, Shape, CallShape,
          Live, Members, EmptyPkt
  <2> QED BY <2>1, <2>2, <2>3 DEF Inv1, Shape
<1>16. CASE NothingToSend
  <2>1. TypeOK'
    BY <1>16 DEF NothingToSend, Inv1, TypeOK
  <2>2. StreamShape' /\ PacketShape'
    BY <1>16, ShapeKept DEF NothingToSend
  <2>3. CallShape'
    BY <1>16, <2>1, ConstantsAssumption DEF NothingToSend, Inv1, TypeOK, Shape, CallShape,
          Live, Members, EmptyPkt
  <2> QED BY <2>1, <2>2, <2>3 DEF Inv1, Shape
<1>17. CASE NoRoom
  <2>1. TypeOK'
    BY <1>17, EmptyPktType DEF NoRoom, Abort, Inv1, TypeOK
  <2>2. StreamShape' /\ PacketShape'
    BY <1>17, ShapeKept DEF NoRoom, Abort
  <2>3. CallShape'
    BY <1>17, <2>1, ConstantsAssumption DEF NoRoom, Abort, Inv1, TypeOK, Shape, CallShape,
          Live, Members, EmptyPkt
  <2> QED BY <2>1, <2>2, <2>3 DEF Inv1, Shape
<1>18. CASE ResetDone
  <2>1. TypeOK'
    BY <1>18 DEF ResetDone, Goto, Inv1, TypeOK
  <2>2. StreamShape' /\ PacketShape'
    BY <1>18, ShapeKept DEF ResetDone, Goto
  <2>3. CallShape'
    BY <1>18, <2>1, ConstantsAssumption DEF ResetDone, Goto, Inv1, TypeOK, Shape, CallShape,
          Live, Members, EmptyPkt
  <2> QED BY <2>1, <2>2, <2>3 DEF Inv1, Shape
<1>19. CASE EnterStreamLoop
  <2>1. TypeOK'
    BY <1>19, ConstantsAssumption DEF EnterStreamLoop, Goto, Inv1, TypeOK
  <2>2. StreamShape' /\ PacketShape'
    BY <1>19, ShapeKept DEF EnterStreamLoop, Goto
  <2>3. CallShape'
    BY <1>19, <2>1, ConstantsAssumption DEF EnterStreamLoop, Goto, Inv1, TypeOK, Shape,
          CallShape, Live, Members, EmptyPkt
  <2> QED BY <2>1, <2>2, <2>3 DEF Inv1, Shape
<1>20. CASE Peek
  <2>1. TypeOK'
    <3>1. idx' \in Nat
      BY <1>20 DEF Peek, Inv1, TypeOK
    <3> QED BY <1>20, <3>1 DEF Peek, Goto, Inv1, TypeOK
  <2>2. StreamShape' /\ PacketShape'
    BY <1>20, ShapeKept DEF Peek, Goto
  <2>3. CallShape'
    BY <1>20, <2>1, ConstantsAssumption DEF Peek, Goto, Inv1, TypeOK, Shape, CallShape, Live,
          Members, EmptyPkt
  <2> QED BY <2>1, <2>2, <2>3 DEF Inv1, Shape
<1>21. CASE PeekGone
  <2>1. TypeOK'
    BY <1>21 DEF PeekGone, Panic, Inv1, TypeOK
  <2>2. StreamShape' /\ PacketShape'
    BY <1>21, ShapeKept DEF PeekGone, Panic
  <2>3. CallShape'
    BY <1>21, <2>1, ConstantsAssumption DEF PeekGone, Panic, Inv1, TypeOK, Shape, CallShape,
          Live, Members, EmptyPkt
  <2> QED BY <2>1, <2>2, <2>3 DEF Inv1, Shape
<1>22. CASE DropFails
  <2>1. TypeOK'
    BY <1>22, T_DropFails
  <2>2. StreamShape' /\ PacketShape'
    BY <1>22, ShapeKept DEF DropFails, Abort
  <2>3. CallShape'
    BY <1>22, <2>1, ConstantsAssumption DEF DropFails, Abort, Inv1, TypeOK, Shape, CallShape,
          Live, Members, EmptyPkt
  <2> QED BY <2>1, <2>2, <2>3 DEF Inv1, Shape
<1>23. CASE DropDone
  <2>1. TypeOK'
    BY <1>23 DEF DropDone, Goto, Inv1, TypeOK
  <2>2. StreamShape' /\ PacketShape'
    BY <1>23, ShapeKept DEF DropDone, Goto
  <2>3. CallShape'
    BY <1>23, <2>1, ConstantsAssumption DEF DropDone, Goto, Inv1, TypeOK, Shape, CallShape,
          Live, Members, EmptyPkt
  <2> QED BY <2>1, <2>2, <2>3 DEF Inv1, Shape
<1>24. CASE SelectBlock
  <2>1. TypeOK'
    BY <1>24, T_SelectBlock
  <2>2. StreamShape' /\ PacketShape'
    BY <1>24, ShapeKept DEF SelectBlock, Goto
  <2>3. CallShape'
    <3>1. cur' \in Ids
      BY <1>24, <2>1 DEF SelectBlock, TypeOK
    <3> QED BY <1>24, <3>1 DEF SelectBlock, Goto, Inv1, Shape, CallShape
  <2> QED BY <2>1, <2>2, <2>3 DEF Inv1, Shape
<1>25. CASE SelectNone
  <2>1. TypeOK'
    BY <1>25 DEF SelectNone, Panic, Inv1, TypeOK
  <2>2. StreamShape' /\ PacketShape'
    BY <1>25, ShapeKept DEF SelectNone, Panic
  <2>3. CallShape'
    BY <1>25, <2>1, ConstantsAssumption DEF SelectNone, Panic, Inv1, TypeOK, Shape,
          CallShape, Live, Members, EmptyPkt
  <2> QED BY <2>1, <2>2, <2>3 DEF Inv1, Shape
<1>26. CASE FillGone
  <2>1. TypeOK'
    BY <1>26 DEF FillGone, Panic, Inv1, TypeOK
  <2>2. StreamShape' /\ PacketShape'
    BY <1>26, ShapeKept DEF FillGone, Panic
  <2>3. CallShape'
    BY <1>26, <2>1, ConstantsAssumption DEF FillGone, Panic, Inv1, TypeOK, Shape, CallShape,
          Live, Members, EmptyPkt
  <2> QED BY <2>1, <2>2, <2>3 DEF Inv1, Shape
<1>27. CASE FinishPacket
  <2>1. TypeOK'
    BY <1>27, T_FinishPacket
  <2>2. StreamShape'
    BY <1>27 DEF FinishPacket, Abort, Inv1, Shape, StreamShape, StreamOK
  <2>3. PacketShape'
    BY <1>27, FrameKept, EmptyPktFrame DEF FinishPacket, Abort, Inv1, Shape, PacketShape
  <2>4. CallShape'
    BY <1>27, <2>1 DEF FinishPacket, Abort, Inv1, TypeOK, Shape, CallShape, EmptyPkt
  <2> QED BY <2>1, <2>2, <2>3, <2>4 DEF Inv1, Shape
<1>28. CASE UNCHANGED vars
  <2>0. UNCHANGED <<streamVars, mapVars, flowVars, recVars, now, callVars, result, histVars>>
    BY <1>28 DEF vars
  <2>1. TypeOK'
    BY <2>0 DEF streamVars, mapVars, flowVars, recVars, callVars, histVars, Inv1, TypeOK
  <2>2. StreamShape' /\ PacketShape'
    BY <2>0, ShapeKept DEF streamVars, recVars, callVars
  <2>3. CallShape'
    BY <2>0 DEF streamVars, mapVars, recVars, callVars, Inv1, Shape, CallShape, Live, Members
  <2> QED BY <2>1, <2>2, <2>3 DEF Inv1, Shape
<1>29. Sizes \subseteq Nat /\ 0 \in Nat /\ Deadlines \subseteq Nat /\ TxMaxes \subseteq Nat /\ StreamMaxes \subseteq Nat
  BY ConstantsAssumption
<1> QED BY <1>1, <1>2, <1>3, <1>4, <1>5, <1>6, <1>7, <1>8, <1>9, <1>10, <1>11, <1>12, <1>13,
      <1>14, <1>15, <1>16, <1>17, <1>18, <1>19, <1>20, <1>21, <1>22, <1>23, <1>24, <1>25,
        <1>26, <1>27, <1>28, <1>29 DEF Next, AppStep, PeerStep, Acknowledge, Lose, SendStep

\* A new connection has typed state of the right shape
LEMMA Inv1Init == Init => Inv1
<1> SUFFICES ASSUME Init PROVE Inv1
  OBVIOUS
<1>1. TypeOK
  <2>1. /\ InitStreamMax \in Nat /\ InitMaxTx \in Nat /\ <<>> \in Seq(Ids)
        /\ {} \in SUBSET Packet /\ {} \in SUBSET (Ids \X Nat)
    BY ConstantsAssumption
  <2>2. /\ off \in [Ids -> Nat] /\ max_data \in [Ids -> Nat] /\ expires \in [Ids -> Nat]
        /\ queued \in [Ids -> SUBSET Nat] /\ acked \in [Ids -> SUBSET Nat]
        /\ fin_off \in [Ids -> Nat \cup {NoFin}]
        /\ shutdown \in [Ids -> BOOLEAN] /\ fin_acked \in [Ids -> BOOLEAN]
        /\ new \in [Ids -> BOOLEAN] /\ st \in [Ids -> {"none", "live", "collected"}]
    BY <2>1 DEF Init
  <2>3. /\ flushable \in Seq(Ids) /\ canceled \subseteq Ids /\ writable \subseteq Ids
        /\ last_block \in Ids \cup {NoId}
        /\ tx_data \in Int /\ max_tx_data \in Nat /\ losses \in Nat /\ now \in Nat
    BY <2>1 DEF Init
  <2>4. /\ sent \subseteq Packet /\ lost \subseteq Packet /\ announced \subseteq Ids \X Nat
        /\ pkt \in Packet /\ left \in Nat /\ idx \in Nat /\ cur \in Ids \cup {NoId}
    BY EmptyPktType DEF Init
  <2>5. other \in BOOLEAN /\ failed \in BOOLEAN /\ pc = "idle" /\ result = "none"
    BY DEF Init
  <2> QED BY <2>2, <2>3, <2>4, <2>5 DEF TypeOK
<1>2. StreamShape
  BY ConstantsAssumption DEF Init, StreamShape, StreamOK, NoFin
<1>3. PacketShape
  BY EmptyPktFrame DEF Init, PacketShape
<1>4. CallShape
  BY DEF Init, CallShape, EmptyPkt
<1> QED BY <1>1, <1>2, <1>3, <1>4 DEF Inv1, Shape

\* The state of the sender is always of its type: in particular the space left in
\* a packet never underflows, whatever frames send() has put into it.
THEOREM TypeCorrect == Spec => []TypeOK
<1>1. Inv1 /\ [Next]_vars => Inv1'
  BY Inv1Step
<1>2. Inv1 => TypeOK
  BY DEF Inv1
<1> QED BY <1>1, <1>2, Inv1Init, PTL DEF Spec

-----------------------------------------------------------------------------
(* The steps that matter to the bytes, and all the others *)

\* Nothing happens to a stream, a sent or a lost packet; the packet being built
\* stays as it is or holds no STREAM frame before and after.
MovesNoBytes ==
    /\ UNCHANGED <<st, queued, off, max_data, fin_off, shutdown, acked, writable, sent, lost,
                   failed, announced>>
    /\ pkt' = pkt \/ (pkt.sid = NoId /\ pkt'.sid = NoId /\ pkt'.bytes = {})
    /\ pkt'.resets \subseteq pkt.resets \cup {<<id, BlockSize(id)>> : id \in canceled}

\* A step of send() is one of the steps that move bytes, or it moves none
LEMMA SendCases ==
    ASSUME Inv1, SendStep
    PROVE  \/ \E p \in lost : ProcessLost(p)
           \/ DropBlock \/ FillPacket \/ FinishPacket
           \/ MovesNoBytes
<1> USE DEF streamVars, mapVars, flowVars, recVars, callVars, histVars
<1>1. pc # "finish" => pkt.sid = NoId /\ pkt.bytes = {}
  BY DEF Inv1, Shape, CallShape, PacketShape, FrameOK
<1>2. EmptyPkt.sid = NoId /\ EmptyPkt.bytes = {} /\ EmptyPkt.resets = {}
  BY DEF EmptyPkt
<1>3. ASSUME NEW id \in canceled, ResetCanceled(id) PROVE MovesNoBytes
  <2>1. pkt \in Packet /\ pkt' \in Packet
    BY <1>3, T_ResetCanceled DEF Inv1, TypeOK
  <2>2. \/ pkt' = pkt
        \/ pkt' = [pkt EXCEPT !.resets = @ \cup {<<id, BlockSize(id)>>}]
    BY <1>3 DEF ResetCanceled
  <2>3. pkt'.sid = pkt.sid /\ pkt'.bytes = pkt.bytes /\ pkt'.resets \subseteq pkt.resets \cup {<<id, BlockSize(id)>>}
    BY <2>1, <2>2 DEF Packet
  <2>4. pc = "reset"
    BY <1>3 DEF ResetCanceled
  <2> QED BY <1>1, <1>3, <2>3, <2>4 DEF ResetCanceled, MovesNoBytes
<1>4. CASE StartPacket
  <2>1. PICK n \in PktNums : pkt' = [EmptyPkt EXCEPT !.pn = n]
    BY <1>4 DEF StartPacket
  <2>2. pkt'.sid = NoId /\ pkt'.bytes = {} /\ pkt'.resets = {}
    BY <2>1 DEF EmptyPkt
  <2> QED BY <1>1, <1>4, <2>2 DEF StartPacket, MovesNoBytes
<1>5. CASE NoRoom
  BY <1>1, <1>2, <1>5 DEF NoRoom, Abort, MovesNoBytes
<1>6. CASE DropFails
  BY <1>1, <1>2, <1>6 DEF DropFails, Abort, MovesNoBytes
<1>7. CASE BeginSend \/ ResetDone \/ EnterStreamLoop \/ Peek \/ KeepBlock \/ DropDone
  BY <1>7 DEF BeginSend, ResetDone, EnterStreamLoop, Peek, KeepBlock, DropDone, MovesNoBytes
<1>8. CASE SelectBlock
  BY <1>8 DEF SelectBlock, MovesNoBytes
<1>9. CASE PeekGone \/ SelectNone \/ FillGone
  BY <1>9 DEF PeekGone, SelectNone, FillGone, Panic, MovesNoBytes
<1> QED BY <1>3, <1>4, <1>5, <1>6, <1>7, <1>8, <1>9 DEF SendStep

\* A step of the sender is one of the steps that move bytes, or it moves none
LEMMA StepCases ==
    ASSUME Inv1, [Next]_vars
    PROVE  \/ \E id \in Ids, n \in Nat, fin \in BOOLEAN, d \in Nat : StreamSend(id, n, fin, d)
           \/ \E id \in Ids : StreamShutdown(id)
           \/ \E id \in Ids, m \in Nat : RecvMaxStreamData(id, m)
           \/ \E p \in sent : AckPacket(p) \/ LosePacket(p)
           \/ \E p \in lost : ProcessLost(p)
           \/ DropBlock \/ FillPacket \/ FinishPacket
           \/ MovesNoBytes
<1> USE DEF streamVars, mapVars, flowVars, recVars, callVars, histVars
<1>1. CASE NothingToSend \/ Tick \/ UNCHANGED vars
  BY <1>1 DEF NothingToSend, Tick, vars, MovesNoBytes
<1>2. ASSUME NEW m, RecvMaxData(m) PROVE MovesNoBytes
  BY <1>2 DEF RecvMaxData, MovesNoBytes
<1>3. ASSUME NEW id, RecvLateMaxStreamData(id) PROVE MovesNoBytes
  BY <1>3 DEF RecvLateMaxStreamData, MovesNoBytes
<1>4. /\ Sizes \subseteq Nat /\ 0 \in Nat /\ Deadlines \subseteq Nat /\ StreamMaxes \subseteq Nat
  BY ConstantsAssumption
<1>5. CASE AppStep
  BY <1>4, <1>5 DEF AppStep
<1>6. CASE PeerStep
  BY <1>2, <1>3, <1>4, <1>6 DEF PeerStep
<1>7. CASE SendStep
  BY <1>7, SendCases
<1>8. CASE Acknowledge \/ Lose
  BY <1>8 DEF Acknowledge, Lose
<1> QED BY <1>1, <1>5, <1>6, <1>7, <1>8 DEF Next

\* The only frame that comes into play is the one the STREAM loop builds
LEMMA NewFrame ==
    ASSUME Inv1, [Next]_vars, NEW q \in Outstanding', q \notin Outstanding, q.sid # NoId
    PROVE  FillPacket /\ q = pkt'
<1>1. ~MovesNoBytes
  BY DEF MovesNoBytes, Outstanding
<1>2. ASSUME UNCHANGED <<sent, lost, pkt>> PROVE FALSE
  BY <1>2 DEF Outstanding
<1>3. \A id, n, fin, d : ~StreamSend(id, n, fin, d)
  BY <1>2 DEF StreamSend, recVars, callVars
<1>4. \A id : ~StreamShutdown(id)
  BY <1>2 DEF StreamShutdown, recVars, callVars
<1>5. \A id, m : ~RecvMaxStreamData(id, m)
  BY <1>2 DEF RecvMaxStreamData, recVars, callVars
<1>6. ~DropBlock
  BY <1>2 DEF DropBlock, recVars
<1>7. ASSUME NEW p \in sent, AckPacket(p) \/ LosePacket(p) PROVE FALSE
  <2>1. sent' \subseteq sent /\ lost' \subseteq lost \cup {p} /\ pkt' = pkt
    BY <1>7 DEF AckPacket, LosePacket, callVars
  <2> QED BY <2>1 DEF Outstanding
<1>8. ASSUME NEW p \in lost, ProcessLost(p) PROVE FALSE
  <2>1. sent' = sent /\ lost' \subseteq lost /\ (pkt' = pkt \/ pkt' = EmptyPkt)
    BY <1>8, Zenon DEF ProcessLost, Abort, callVars
  <2> QED BY <2>1 DEF Outstanding, EmptyPkt
<1>9. ~FinishPacket
  <2> SUFFICES ASSUME FinishPacket PROVE FALSE
    OBVIOUS
  <2>1. sent' \subseteq sent \cup {pkt} /\ lost' = lost /\ pkt' = EmptyPkt
    BY DEF FinishPacket, Abort
  <2> QED BY <2>1 DEF Outstanding, EmptyPkt
<1>10. FillPacket
  BY <1>1, <1>3, <1>4, <1>5, <1>6, <1>7, <1>8, <1>9, StepCases
<1>11. UNCHANGED <<sent, lost>>
  BY <1>10, FillEffect
<1> QED BY <1>10, <1>11 DEF Outstanding

-----------------------------------------------------------------------------
(* The writable set *)

\* Every step keeps the writable set exact
LEMMA WritableStep ==
    ASSUME Inv1, WritableExact, [Next]_vars
    PROVE  WritableExact'
<1>1. /\ fin_off \in [Ids -> Nat \cup {NoFin}] /\ off \in [Ids -> Nat] /\ max_data \in [Ids -> Nat]
      /\ shutdown \in [Ids -> BOOLEAN] /\ st \in [Ids -> {"none", "live", "collected"}]
  BY DEF Inv1, TypeOK
<1>2. ASSUME NEW id \in Ids, NEW n \in Nat, NEW fin \in BOOLEAN, NEW d \in Nat,
             StreamSend(id, n, fin, d)
      PROVE  WritableExact'
  <2> DEFINE o == off[id] + Accepted(id, n)
             f == IF SetsFin(id, n, fin) THEN o ELSE fin_off[id]
  <2>1. /\ off' = [off EXCEPT ![id] = o] /\ fin_off' = [fin_off EXCEPT ![id] = f]
        /\ st' = [st EXCEPT ![id] = "live"] /\ UNCHANGED <<max_data, shutdown>>
    BY <1>2 DEF StreamSend
  <2>2. writable' = IF Writable(shutdown[id], f, o,
        max_data[id]) THEN writable \cup {id} ELSE writable \ {id}
    BY <1>2 DEF StreamSend
  <2> HIDE DEF o, f
  <2>3. \A i \in Ids : (Live(i) /\ IsWritable(i))' <=>
           IF i = id THEN Writable(shutdown[id], f, o,
             max_data[id]) ELSE Live(i) /\ IsWritable(i)
    BY <1>1, <2>1 DEF Live, IsWritable, Writable
  <2> QED BY <2>2, <2>3 DEF WritableExact
<1>3. ASSUME NEW id \in Ids, StreamShutdown(id) PROVE WritableExact'
  BY <1>1, <1>3 DEF StreamShutdown, WritableExact, Live, IsWritable, Writable
<1>4. ASSUME NEW id \in Ids, NEW m \in Nat, RecvMaxStreamData(id, m) PROVE WritableExact'
  <2>1. /\ max_data' = [max_data EXCEPT ![id] = m] /\ m > max_data[id] /\ Live(id)
        /\ UNCHANGED <<st, off, fin_off, shutdown>>
        /\ writable' = IF Writable(shutdown[id], fin_off[id], off[id], m)
                       THEN writable \cup {id} ELSE writable
    BY <1>4 DEF RecvMaxStreamData
  <2>2. \A i \in Ids \ {id} : (Live(i) /\ IsWritable(i))' <=> (Live(i) /\ IsWritable(i))
    BY <1>1, <2>1 DEF Live, IsWritable, Writable
  <2>3. (Live(id) /\ IsWritable(id))' <=> Writable(shutdown[id], fin_off[id], off[id], m)
    BY <1>1, <2>1 DEF Live, IsWritable, Writable
  <2>4. IsWritable(id) => Writable(shutdown[id], fin_off[id], off[id], m)
    BY <1>1, <2>1 DEF IsWritable, Writable
  <2> QED BY <2>1, <2>2, <2>3, <2>4 DEF WritableExact
<1>5. ASSUME NEW p \in sent, AckPacket(p) PROVE WritableExact'
  <2>1. UNCHANGED <<off, fin_off, shutdown, max_data, writable>>
    BY <1>5 DEF AckPacket, mapVars
  <2>2. \A i \in Ids : st'[i] = st[i] \/ (st[i] = "live" /\ st'[i] = "collected" /\ fin_off[i] # NoFin)
    <3>1. CASE st' = st
      BY <3>1
    <3>2. CASE st' # st
      <4>1. p.sid \in Ids
        BY <1>5, <3>2 DEF AckPacket, Inv1, TypeOK, Packet
      <4>2. st' = [st EXCEPT ![p.sid] = "collected"] /\ Live(p.sid) /\ fin_off[p.sid] # NoFin
        BY <1>5, <3>2 DEF AckPacket, Complete
      <4> QED BY <1>1, <4>1, <4>2 DEF Live
    <3> QED BY <3>1, <3>2
  <2>3. \A i \in Ids : fin_off[i] # NoFin => ~IsWritable(i)
    BY DEF IsWritable, Writable, Inv1, Shape, StreamShape, StreamOK
  <2> QED BY <2>1, <2>2, <2>3 DEF WritableExact, Live, IsWritable
<1>6. CASE DropBlock
  <2> DEFINE id == flushable[idx]
  <2>1. id \in Ids
    BY <1>6 DEF DropBlock, Inv1, TypeOK, Shape, CallShape
  <2>2. shutdown' = [shutdown EXCEPT ![id] = TRUE] /\ writable' = writable \ {id}
    BY <1>6 DEF DropBlock
  <2>3. UNCHANGED <<st, off, fin_off, max_data>>
    BY <1>6 DEF DropBlock
  <2> HIDE DEF id
  <2> QED BY <1>1, <2>1, <2>2, <2>3 DEF WritableExact, Live, IsWritable, Writable
<1>7. ASSUME UNCHANGED <<st, off, fin_off, max_data, shutdown, writable>> PROVE WritableExact'
  BY <1>7 DEF WritableExact, Live, IsWritable
<1>8. ASSUME NEW p, LosePacket(p) \/ ProcessLost(p) PROVE WritableExact'
  BY <1>7, <1>8 DEF LosePacket, ProcessLost, streamVars, mapVars
<1>9. CASE FillPacket \/ FinishPacket \/ MovesNoBytes
  BY <1>7, <1>9 DEF FillPacket, FinishPacket, MovesNoBytes, streamVars, mapVars
<1> QED BY <1>2, <1>3, <1>4, <1>5, <1>6, <1>8, <1>9, StepCases

\* The writable set stays exact under every interleaving of writes, shutdowns,
\* cancellations, window updates and acknowledgements.
THEOREM WritableCorrect == Spec => []WritableExact
<1>1. Init => WritableExact
  BY DEF Init, WritableExact, Live
<1>2. Inv1 /\ WritableExact /\ [Next]_vars => Inv1' /\ WritableExact'
  BY Inv1Step, WritableStep
<1> QED BY <1>1, <1>2, Inv1Init, PTL DEF Spec

-----------------------------------------------------------------------------
(* Final sizes *)

\* Every step keeps the final sizes: a stream whose size was told cannot grow
LEMMA FinalSizesStep ==
    ASSUME Inv1, FinalSizes, [Next]_vars
    PROVE  FinalSizes'
<1>1. /\ announced \subseteq Ids \X Nat /\ pkt \in Packet /\ pkt.resets \subseteq Ids \X Nat
      /\ fin_off \in [Ids -> Nat \cup {NoFin}] /\ off \in [Ids -> Nat]
      /\ shutdown \in [Ids -> BOOLEAN] /\ canceled \subseteq Ids
  BY DEF Inv1, TypeOK, Packet
<1>2. \A a \in announced \cup pkt.resets :
         a[1] \in Ids /\ a[2] = off[a[1]] /\ (shutdown[a[1]] \/ fin_off[a[1]] # NoFin)
  BY <1>1 DEF FinalSizes
<1>3. ASSUME NEW id \in Ids, NEW n \in Nat, NEW fin \in BOOLEAN, NEW d \in Nat,
             StreamSend(id, n, fin, d)
      PROVE  FinalSizes'
  <2>1. /\ Accepted(id, n) \in Nat
        /\ off' = [off EXCEPT ![id] = off[id] + Accepted(id, n)]
        /\ shutdown[id] \/ fin_off[id] # NoFin => Accepted(id, n) = 0 /\ fin_off' = fin_off
        /\ fin_off' = fin_off \/ fin_off' = [fin_off EXCEPT ![id] = off'[id]]
    BY <1>3, WriteEffect
  <2>2. UNCHANGED <<announced, pkt, shutdown>>
    BY <1>3 DEF StreamSend, callVars, histVars
  <2>3. \A i \in Ids : shutdown[i] \/ fin_off[i] # NoFin => off'[i] = off[i] /\ fin_off'[i] = fin_off[i]
    BY <1>1, <2>1
  <2> QED BY <1>2, <2>2, <2>3 DEF FinalSizes
<1>4. CASE FinishPacket
  <2>1. /\ announced' = announced \cup pkt.resets
                          \cup {<<id, pkt.end>> : id \in {i \in Ids : i = pkt.sid /\ pkt.fin}}
        /\ pkt' = EmptyPkt /\ UNCHANGED <<off, fin_off, shutdown>>
    BY <1>4 DEF FinishPacket, Abort, streamVars
  <2>2. pkt'.resets = {}
    BY <2>1 DEF EmptyPkt
  <2>3. \A id \in Ids : id = pkt.sid /\ pkt.fin => pkt.end = off[id] /\ fin_off[id] # NoFin
    BY ConstantsAssumption DEF Inv1, Shape, PacketShape, FrameOK
  <2> QED BY <1>2, <2>1, <2>2, <2>3 DEF FinalSizes
<1>5. CASE MovesNoBytes
  <2>1. \A id \in canceled : BlockSize(id) = off[id] /\ shutdown[id]
    BY <1>1 DEF BlockSize, Inv1, Shape, StreamShape, StreamOK, CallShape
  <2>2. UNCHANGED <<announced, off, fin_off, shutdown>>
    BY <1>5 DEF MovesNoBytes
  <2>3. \A a \in pkt'.resets : a \in pkt.resets \/ \E id \in canceled : a = <<id,
        off[id]>> /\ shutdown[id]
    BY <1>5, <2>1 DEF MovesNoBytes
  <2> QED BY <1>2, <2>2, <2>3 DEF FinalSizes
<1>6. ASSUME UNCHANGED <<announced, off, fin_off>>, pkt'.resets \subseteq pkt.resets,
             \A i \in Ids : shutdown[i] => shutdown'[i]
      PROVE  FinalSizes'
  BY <1>1, <1>2, <1>6 DEF FinalSizes
<1>7. ASSUME NEW id \in Ids, StreamShutdown(id) PROVE FinalSizes'
  BY <1>1, <1>6, <1>7 DEF StreamShutdown, callVars, histVars
<1>8. ASSUME NEW id, NEW m, RecvMaxStreamData(id, m) PROVE FinalSizes'
  BY <1>6, <1>8 DEF RecvMaxStreamData, callVars, histVars
<1>9. ASSUME NEW p, AckPacket(p) \/ LosePacket(p) PROVE FinalSizes'
  BY <1>6, <1>9 DEF AckPacket, LosePacket, callVars, histVars, streamVars
<1>10. ASSUME NEW p \in lost, ProcessLost(p) PROVE FinalSizes'
  <2>1. pkt' = pkt \/ pkt' = EmptyPkt
    BY <1>10 DEF ProcessLost, Abort, callVars
  <2>2. pkt'.resets \subseteq pkt.resets
    BY <2>1 DEF EmptyPkt
  <2> QED BY <1>6, <1>10, <2>2 DEF ProcessLost
<1>11. CASE DropBlock
  <2>1. flushable[idx] \in Ids
    BY <1>11 DEF DropBlock, Inv1, TypeOK, Shape, CallShape
  <2>2. \A i \in Ids : shutdown[i] => shutdown'[i]
    BY <1>1, <1>11, <2>1 DEF DropBlock
  <2> QED BY <1>6, <1>11, <2>2 DEF DropBlock, histVars
<1>12. CASE FillPacket
  <2>1. UNCHANGED <<announced, off, fin_off,
        shutdown>> /\ InfoPkt \in Packet /\ InfoPkt.resets = pkt.resets
    BY <1>12, FillEffect
  <2>2. \/ pkt' = InfoPkt
        \/ \E e : pkt' = [InfoPkt EXCEPT !.sid = cur, !.bytes = Popped(cur, StreamRoom),
                                        !.end = e, !.fin = (fin_off[cur] = e)]
    BY <1>12, FillEffect
  <2>3. pkt'.resets = pkt.resets
    BY <2>1, <2>2 DEF Packet
  <2> QED BY <1>6, <2>1, <2>3
<1> QED BY <1>3, <1>4, <1>5, <1>7, <1>8, <1>9, <1>10, <1>11, <1>12, StepCases

\* However fins, cancellations, losses and retransmissions interleave, the peer
\* is told one final size per block and never sent a byte beyond it.
THEOREM FinalSizeCorrect == Spec => []FinalSizeConsistent
<1>1. Init => FinalSizes
  BY DEF Init, FinalSizes, EmptyPkt
<1>2. Inv1 /\ FinalSizes /\ [Next]_vars => Inv1' /\ FinalSizes'
  BY Inv1Step, FinalSizesStep
<1>3. Inv1 /\ FinalSizes => FinalSizeConsistent
  <2> SUFFICES ASSUME Inv1, FinalSizes, NEW a \in announced
               PROVE  /\ \A b \in announced : a[1] = b[1] => a[2] = b[2]
                      /\ \A n \in InPackets(a[1]) \cup acked[a[1]] : n < a[2]
    BY DEF FinalSizeConsistent
  <2>1. a[1] \in Ids /\ a[2] = off[a[1]] /\ off[a[1]] \in Nat
    BY DEF Inv1, TypeOK, FinalSizes
  <2>2. \A b \in announced : a[1] = b[1] => a[2] = b[2]
    BY <2>1 DEF FinalSizes
  <2>3. \A n \in acked[a[1]] : n < a[2]
    BY <2>1 DEF Inv1, Shape, StreamShape, StreamOK
  <2>4. ASSUME NEW p \in Outstanding, p.sid = a[1], NEW n \in p.bytes
        PROVE  n < a[2]
    <3>1. p \in Packet /\ FrameOK(p)
      BY DEF Outstanding, Inv1, TypeOK, Shape, PacketShape
    <3>2. p.end \in Nat /\ p.bytes \subseteq 0..(p.end - 1) /\ p.end <= off[a[1]]
      BY <2>1, <2>4, <3>1, ConstantsAssumption DEF FrameOK, Packet
    <3> QED BY <2>1, <3>2
  <2>5. \A n \in InPackets(a[1]) : n < a[2]
    BY <2>4 DEF InPackets
  <2> QED BY <2>2, <2>3, <2>5
<1> QED BY <1>1, <1>2, <1>3, Inv1Init, PTL DEF Spec

-----------------------------------------------------------------------------
(* The fate of every byte *)

\* The packets in play, before and after a step that moves none of their bytes
LEMMA QuietPackets ==
    ASSUME MovesNoBytes, Inv1
    PROVE  /\ \A p \in Outstanding' : p \in Outstanding \/ p.bytes = {}
           /\ \A p \in Outstanding : p \in Outstanding' \/ p.bytes = {}
           /\ UNCHANGED <<queued, acked, off, shutdown, failed, sent, lost>>
<1>1. pkt.sid = NoId => pkt.bytes = {}
  BY DEF Inv1, Shape, PacketShape, FrameOK
<1> QED BY <1>1 DEF MovesNoBytes, Outstanding

\* A packet that carries stream data is not the empty packet between calls
LEMMA OutsideCall ==
    ASSUME Inv1, pc \in {"idle", "lost"}
    PROVE  pkt = EmptyPkt /\ pkt.sid = NoId /\ pkt.bytes = {}
BY DEF Inv1, Shape, CallShape, EmptyPkt

\* Every step keeps a byte in one place
LEMMA OnePlaceStep ==
    ASSUME Inv1, OnePlace, [Next]_vars
    PROVE  OnePlace'
<1>1. /\ queued \in [Ids -> SUBSET Nat] /\ acked \in [Ids -> SUBSET Nat] /\ off \in [Ids -> Nat]
      /\ sent \subseteq Packet /\ lost \subseteq Packet /\ pkt \in Packet
  BY DEF Inv1, TypeOK
<1>2. \A p \in Outstanding : p \in Packet /\ FrameOK(p)
  BY <1>1 DEF Outstanding, Inv1, Shape, PacketShape
<1>3. \A p \in Outstanding : p.sid \in Ids => p.bytes \subseteq 0..(off[p.sid] - 1)
  <2> SUFFICES ASSUME NEW p \in Outstanding,
        p.sid \in Ids PROVE p.bytes \subseteq 0..(off[p.sid] - 1)
    OBVIOUS
  <2>1. p.end \in Nat /\ p.bytes \subseteq 0..(p.end - 1) /\ p.end <= off[p.sid]
    BY <1>2, ConstantsAssumption DEF FrameOK, Packet
  <2> QED BY <1>1, <2>1
<1>4. \A id \in Ids : acked[id] \subseteq 0..(off[id] - 1)
  BY DEF Inv1, Shape, StreamShape, StreamOK
<1>5. ASSUME UNCHANGED <<queued, acked, sent, lost>>,
             \A p \in Outstanding' : p \in Outstanding \/ p.bytes = {}
      PROVE  OnePlace'
  BY <1>5 DEF OnePlace
<1>6. CASE MovesNoBytes
  BY <1>5, <1>6, QuietPackets
<1>7. ASSUME NEW id \in Ids, NEW n \in Nat, NEW fin \in BOOLEAN, NEW d \in Nat,
             StreamSend(id, n, fin, d)
      PROVE  OnePlace'
  <2>1. UNCHANGED <<acked, sent, lost, pkt>>
    BY <1>7 DEF StreamSend, recVars, callVars
  <2>2. queued' = [queued EXCEPT ![id] = queued[id] \cup off[id]..(off'[id] - 1)]
    BY <1>7, WriteEffect
  <2>3. \A i \in Ids : \A b \in queued'[i] : b \in queued[i] \/ b \notin 0..(off[i] - 1)
    BY <1>1, <2>2
  <2> QED BY <1>3, <1>4, <2>1, <2>3 DEF OnePlace, Outstanding
<1>8. ASSUME NEW p \in sent, AckPacket(p) PROVE OnePlace'
  <2>1. /\ UNCHANGED <<queued, lost, pkt>> /\ sent' = sent \ {p}
        /\ acked' = acked \/ (p.sid \in Ids /\ acked' = [acked EXCEPT ![p.sid] = acked[p.sid] \cup p.bytes])
    BY <1>1, <1>8 DEF AckPacket, callVars, Packet
  <2>2. pkt.bytes = {} /\ pkt.sid = NoId
    BY <1>8, OutsideCall DEF AckPacket
  <2>3. p \in Outstanding /\ \A q \in Outstanding' : q \in Outstanding /\ (q # p \/ q.bytes = {})
    BY <2>1, <2>2 DEF Outstanding, OnePlace
  <2>4. \A i \in Ids : \A b \in acked'[i] : b \in acked[i] \/ (i = p.sid /\ b \in p.bytes)
    BY <1>1, <2>1
  <2> QED BY <2>1, <2>3, <2>4 DEF OnePlace
<1>9. ASSUME NEW p \in sent, LosePacket(p) PROVE OnePlace'
  <2>1. UNCHANGED <<queued, acked, pkt>> /\ sent' = sent \ {p} /\ lost' = lost \cup {p}
    BY <1>9 DEF LosePacket, streamVars, callVars
  <2>2. Outstanding' = Outstanding
    BY <2>1 DEF Outstanding
  <2> QED BY <2>1, <2>2 DEF OnePlace
<1>10. ASSUME NEW p \in lost, ProcessLost(p) PROVE OnePlace'
  <2>1. pc = "lost" /\ p \in Packet /\ p.sid \in Ids \cup {NoId}
    BY <1>1, <1>10 DEF ProcessLost, Packet
  <2>2. pkt.bytes = {} /\ pkt.sid = NoId /\ pkt = EmptyPkt
    BY <2>1, OutsideCall
  <2>3. UNCHANGED <<acked, sent, pkt>> /\ lost' \subseteq lost \ {p}
    BY <1>10, <2>2 DEF ProcessLost, Abort, callVars
  <2>4. queued' = queued \/ (p.sid \in Ids /\ \E Q \in {queued[p.sid],
        queued[p.sid] \cup p.bytes} :
                               queued' = [queued EXCEPT ![p.sid] = Q])
    <3>1. CASE p.sid # NoId /\ Live(p.sid) /\ ~PushFails(p)
      BY <1>10, <2>1, <3>1 DEF ProcessLost
    <3>2. CASE ~(p.sid # NoId /\ Live(p.sid) /\ ~PushFails(p))
      BY <1>10, <3>2 DEF ProcessLost
    <3> QED BY <3>1, <3>2
  <2>5. \A i \in Ids : \A b \in queued'[i] : b \in queued[i] \/ (i = p.sid /\ b \in p.bytes)
    BY <1>1, <2>4
  <2>6. p \in Outstanding /\ \A q \in Outstanding' : q \in Outstanding /\ (q # p \/ q.bytes = {})
    BY <2>2, <2>3 DEF Outstanding, OnePlace
  <2> QED BY <2>3, <2>5, <2>6 DEF OnePlace
<1>11. CASE FillPacket
  <2> DEFINE B == Popped(cur, StreamRoom)
  <2>1. /\ cur \in Ids /\ UNCHANGED <<acked, sent, lost>>
        /\ InfoPkt \in Packet /\ InfoPkt.bytes = {}
        /\ \/ pkt' = InfoPkt /\ queued' = queued
           \/ /\ queued' = [queued EXCEPT ![cur] = @ \ B]
              /\ \E e : pkt' = [InfoPkt EXCEPT !.sid = cur, !.bytes = B, !.end = e,
                                                !.fin = (fin_off[cur] = e)]
    BY <1>11, FillEffect
  <2>2. B \subseteq queued[cur]
    BY <2>1, PoppedBytes
  <2> HIDE DEF B
  <2>3. CASE pkt' = InfoPkt /\ queued' = queued
    BY <1>5, <2>1, <2>3 DEF Outstanding
  <2>4. CASE ~(pkt' = InfoPkt /\ queued' = queued)
    <3>1. queued' = [queued EXCEPT ![cur] = @ \ B] /\ pkt'.sid = cur /\ pkt'.bytes = B
      BY <2>1, <2>4 DEF Packet
    <3>2. \A i \in Ids : queued'[i] \subseteq queued[i] /\ (i = cur => queued'[i] \cap B = {})
      BY <1>1, <2>1, <3>1
    <3>3. \A q \in Outstanding' : q \in Outstanding \/ q = pkt'
      BY <2>1 DEF Outstanding
    <3> QED BY <2>1, <2>2, <3>1, <3>2, <3>3 DEF OnePlace
  <2> QED BY <2>3, <2>4
<1>12. CASE FinishPacket
  <2>1. UNCHANGED <<queued, acked, lost>> /\ pkt' = EmptyPkt /\ sent' \subseteq sent \cup {pkt}
    BY <1>12 DEF FinishPacket, Abort, streamVars
  <2>2. lost = {}
    BY <1>12 DEF FinishPacket, Inv1, Shape, CallShape
  <2>3. \A q \in Outstanding' : q \in Outstanding \/ q.bytes = {}
    BY <2>1 DEF Outstanding, EmptyPkt
  <2> QED BY <2>1, <2>2, <2>3 DEF OnePlace
<1>13. ASSUME UNCHANGED <<queued, acked, sent, lost, pkt>> PROVE OnePlace'
  BY <1>5, <1>13 DEF Outstanding
<1>14. ASSUME NEW id, StreamShutdown(id) PROVE OnePlace'
  BY <1>13, <1>14 DEF StreamShutdown, recVars, callVars
<1>15. ASSUME NEW id, NEW m, RecvMaxStreamData(id, m) PROVE OnePlace'
  BY <1>13, <1>15 DEF RecvMaxStreamData, recVars, callVars
<1>16. CASE DropBlock
  BY <1>13, <1>16 DEF DropBlock, recVars
<1> QED BY <1>6, <1>7, <1>8, <1>9, <1>10, <1>11, <1>12, <1>14, <1>15, <1>16, StepCases

\* A byte is never in two places: nothing is sent again before the packet that
\* carried it was declared lost, and nothing acknowledged is sent again.
THEOREM ByteInOnePlaceCorrect == Spec => []ByteInOnePlace
<1>1. Init => OnePlace
  BY DEF Init, OnePlace, Outstanding, EmptyPkt
<1>2. Inv1 /\ OnePlace /\ [Next]_vars => Inv1' /\ OnePlace'
  BY Inv1Step, OnePlaceStep
<1>3. OnePlace => ByteInOnePlace
  <2> SUFFICES ASSUME OnePlace, NEW id \in Ids
               PROVE  /\ queued[id] \cap acked[id] = {}
                      /\ (queued[id] \cup acked[id]) \cap InPackets(id) = {}
                      /\ \A p, q \in Outstanding :
                            p.sid = id /\ q.sid = id /\ p # q => p.bytes \cap q.bytes = {}
                      /\ sent \cap lost = {}
    BY DEF ByteInOnePlace
  <2>1. \A b \in InPackets(id) : b \notin queued[id] /\ b \notin acked[id]
    BY DEF InPackets, OnePlace
  <2>2. queued[id] \cap acked[id] = {}
    BY DEF OnePlace
  <2>3. \A p, q \in Outstanding : p.sid = id /\ q.sid = id /\ p # q => p.bytes \cap q.bytes = {}
    BY DEF OnePlace
  <2> QED BY <2>1, <2>2, <2>3 DEF OnePlace
<1> QED BY <1>1, <1>2, <1>3, Inv1Init, PTL DEF Spec

\* The place of one byte
Somewhere(id, b) ==
    \/ b \in queued[id]
    \/ b \in acked[id]
    \/ \E p \in Outstanding : p.sid = id /\ b \in p.bytes

\* Every step keeps track of each byte; it needs OnePlace for the packets of
\* streams that were collected
LEMMA PlacedStep ==
    ASSUME Inv1, OnePlace, Placed, [Next]_vars
    PROVE  Placed'
<1>1. /\ queued \in [Ids -> SUBSET Nat] /\ acked \in [Ids -> SUBSET Nat] /\ off \in [Ids -> Nat]
      /\ sent \subseteq Packet /\ lost \subseteq Packet /\ pkt \in Packet
      /\ shutdown \in [Ids -> BOOLEAN] /\ failed \in BOOLEAN
  BY DEF Inv1, TypeOK
<1>2. ~failed => \A id \in Ids : ~shutdown[id] => \A b \in 0..(off[id] - 1) : Somewhere(id, b)
  BY DEF Placed, Somewhere
<1>3. ASSUME failed' = failed, off' = off, \A i \in Ids : shutdown[i] => shutdown'[i],
             \A i \in Ids : ~shutdown[i] => \A b \in 0..(off[i] - 1) : Somewhere(i,
               b) => Somewhere(i, b)'
      PROVE  Placed'
  BY <1>1, <1>2, <1>3 DEF Placed, Somewhere
<1>4. \A p \in Outstanding : p.sid \in Ids => p.bytes \subseteq 0..(p.end - 1) /\ p.end <= off[p.sid] /\ p.end \in Nat
  BY <1>1, ConstantsAssumption DEF Outstanding, Inv1, Shape, PacketShape, FrameOK, Packet
\* The bytes of a stream that is gone are acknowledged, so they are in no packet
<1>5. ASSUME NEW p \in Outstanding, p.sid \in Ids, ~Live(p.sid)
      PROVE  p.bytes = {}
  <2>1. p.bytes \subseteq 0..(off[p.sid] - 1)
    BY <1>1, <1>4, <1>5
  <2>2. CASE st[p.sid] = "none"
    BY <2>1, <2>2, <1>5 DEF Inv1, Shape, StreamShape, StreamOK
  <2>3. CASE st[p.sid] = "collected"
    BY <1>5, <2>1, <2>3 DEF Inv1, Shape, StreamShape, StreamOK, OnePlace
  <2> QED BY <1>5, <2>2, <2>3 DEF Live, Inv1, TypeOK
<1>6. CASE MovesNoBytes
  <2>1. \A i \in Ids : \A b : Somewhere(i, b) => Somewhere(i, b)'
    BY <1>6, QuietPackets DEF Somewhere
  <2> QED BY <1>3, <1>6, <2>1, QuietPackets
<1>7. ASSUME NEW id \in Ids, NEW n \in Nat, NEW fin \in BOOLEAN, NEW d \in Nat,
             StreamSend(id, n, fin, d)
      PROVE  Placed'
  <2>1. UNCHANGED <<acked, sent, lost, pkt, shutdown, failed>>
    BY <1>7 DEF StreamSend, recVars, callVars, histVars
  <2>2. /\ queued' = [queued EXCEPT ![id] = queued[id] \cup off[id]..(off'[id] - 1)]
        /\ off' = [off EXCEPT ![id] = off[id] + Accepted(id, n)] /\ Accepted(id, n) \in Nat
    BY <1>7, WriteEffect
  <2>3. \A i \in Ids : \A b \in 0..(off'[i] - 1) : b \in 0..(off[i] - 1) \/ b \in queued'[i]
    BY <1>1, <2>2
  <2>4. \A i \in Ids : queued[i] \subseteq queued'[i]
    BY <1>1, <2>2
  <2>5. Outstanding' = Outstanding
    BY <2>1 DEF Outstanding
  <2> QED BY <1>2, <2>1, <2>3, <2>4, <2>5 DEF Placed, Somewhere
<1>8. ASSUME NEW p \in sent, AckPacket(p) PROVE Placed'
  <2>1. UNCHANGED <<queued, off, lost, pkt, shutdown, failed>> /\ sent' = sent \ {p}
    BY <1>8 DEF AckPacket, callVars, histVars
  <2>2. p.sid \in Ids \cup {NoId} /\ p \in Outstanding
    BY <1>1 DEF Packet, Outstanding
  <2>3. \A i \in Ids : acked[i] \subseteq acked'[i] /\ (i = p.sid => p.bytes \subseteq acked'[i])
    <3>1. CASE p.sid \in Ids /\ Live(p.sid)
      <4>1. acked' = [acked EXCEPT ![p.sid] = acked[p.sid] \cup p.bytes]
        BY <1>8, <3>1, ConstantsAssumption DEF AckPacket
      <4> QED BY <1>1, <4>1
    <3>2. CASE ~(p.sid \in Ids /\ Live(p.sid))
      <4>1. acked' = acked
        BY <1>8, <2>2, <3>2 DEF AckPacket
      <4> QED BY <1>5, <2>2, <3>2, <4>1
    <3> QED BY <3>1, <3>2
  <2>4. \A q \in Outstanding : q \in Outstanding' \/ q = p
    BY <2>1 DEF Outstanding
  <2>5. \A i \in Ids : \A b : Somewhere(i, b) => Somewhere(i, b)'
    BY <2>1, <2>3, <2>4 DEF Somewhere
  <2> QED BY <1>3, <2>1, <2>5
<1>9. ASSUME NEW p \in sent, LosePacket(p) PROVE Placed'
  <2>1. /\ UNCHANGED <<queued, acked, off, shutdown, pkt, failed>>
        /\ sent' = sent \ {p} /\ lost' = lost \cup {p}
    BY <1>9 DEF LosePacket, streamVars, callVars, histVars
  <2>2. Outstanding' = Outstanding
    BY <2>1 DEF Outstanding
  <2> QED BY <2>1, <2>2 DEF Placed
<1>10. ASSUME NEW p \in lost, ProcessLost(p) PROVE Placed'
  <2>1. /\ UNCHANGED <<acked, off, shutdown, sent>>
        /\ p.sid \in Ids \cup {NoId} /\ p \in Outstanding
    BY <1>1, <1>10 DEF ProcessLost, Packet, Outstanding
  <2>2. CASE p.sid # NoId /\ Live(p.sid) /\ PushFails(p)
    BY <1>10, <2>2 DEF ProcessLost, Placed
  <2>3. CASE ~(p.sid # NoId /\ Live(p.sid) /\ PushFails(p))
    <3>1. lost' = lost \ {p} /\ UNCHANGED <<callVars, failed>>
      BY <1>10, <2>3 DEF ProcessLost
    <3>2. \A q \in Outstanding : q \in Outstanding' \/ q = p
      BY <2>1, <3>1 DEF Outstanding, callVars
    <3>3. \A i \in Ids : ~shutdown[i] =>
             /\ queued[i] \subseteq queued'[i]
             /\ i = p.sid => p.bytes \subseteq queued'[i] \cup acked[i]
      <4>1. CASE p.sid \in Ids /\ Live(p.sid)
        <5>1. queued' = [queued EXCEPT ![p.sid] =
                  IF shutdown[p.sid] \/ AckedUpTo(p.sid, p.end) THEN queued[p.sid]
                  ELSE queued[p.sid] \cup p.bytes]
          BY <1>10, <2>3, <4>1, ConstantsAssumption DEF ProcessLost
        <5>2. AckedUpTo(p.sid, p.end) => p.bytes \subseteq acked[p.sid]
          BY <1>4, <2>1, <4>1 DEF AckedUpTo
        <5> QED BY <1>1, <4>1, <5>1, <5>2
      <4>2. CASE ~(p.sid \in Ids /\ Live(p.sid))
        <5>1. queued' = queued
          BY <1>10, <2>1, <4>2 DEF ProcessLost
        <5> QED BY <1>5, <2>1, <4>2, <5>1
      <4> QED BY <4>1, <4>2
    <3>4. \A i \in Ids : ~shutdown[i] => \A b : Somewhere(i, b) => Somewhere(i, b)'
      BY <2>1, <3>2, <3>3 DEF Somewhere
    <3> QED BY <1>3, <2>1, <3>1, <3>4
  <2> QED BY <2>2, <2>3
<1>11. CASE FillPacket
  <2> DEFINE B == Popped(cur, StreamRoom)
  <2>1. /\ cur \in Ids /\ UNCHANGED <<off, shutdown, acked, sent, lost, failed>>
        /\ InfoPkt \in Packet
        /\ \/ pkt' = InfoPkt /\ queued' = queued
           \/ /\ queued' = [queued EXCEPT ![cur] = @ \ B]
              /\ \E e : pkt' = [InfoPkt EXCEPT !.sid = cur, !.bytes = B, !.end = e,
                                                !.fin = (fin_off[cur] = e)]
    BY <1>11, FillEffect
  <2>2. pkt.bytes = {}
    BY <1>11 DEF FillPacket, Inv1, Shape, CallShape, PacketShape, FrameOK
  <2> HIDE DEF B
  <2>3. \A q \in Outstanding : q \in Outstanding' \/ q.bytes = {}
    BY <2>1, <2>2 DEF Outstanding
  <2>4. pkt' \in Outstanding'
    BY DEF Outstanding
  <2>5. queued' = queued \/ (queued' = [queued EXCEPT ![cur] = @ \ B] /\ pkt'.sid = cur /\ pkt'.bytes = B)
    <3>1. InfoPkt \in Packet
      BY <2>1
    <3>2. ASSUME NEW e, pkt' = [InfoPkt EXCEPT !.sid = cur, !.bytes = B, !.end = e,
                                                !.fin = (fin_off[cur] = e)]
          PROVE  pkt'.sid = cur /\ pkt'.bytes = B
      BY ONLY <3>1, <3>2 DEF Packet
    <3> QED BY <2>1, <3>2
  <2>6. \A i \in Ids : \A b \in queued[i] : b \in queued'[i] \/ (pkt'.sid = i /\ b \in pkt'.bytes)
    BY <1>1, <2>1, <2>5
  <2>7. \A i \in Ids : \A b : Somewhere(i, b) => Somewhere(i, b)'
    BY <2>1, <2>3, <2>4, <2>6 DEF Somewhere
  <2> QED BY <1>3, <2>1, <2>7
<1>12. CASE FinishPacket
  <2>1. /\ UNCHANGED <<queued, acked, off, shutdown, lost, failed>>
        /\ sent' = IF Carries(pkt) THEN sent \cup {pkt} ELSE sent
    BY <1>12 DEF FinishPacket, streamVars
  <2>2. ~Carries(pkt) => pkt.bytes = {}
    BY DEF Carries, Inv1, Shape, PacketShape, FrameOK
  <2>3. \A q \in Outstanding : q \in Outstanding' \/ q.bytes = {}
    BY <2>1, <2>2 DEF Outstanding
  <2>4. \A i \in Ids : \A b : Somewhere(i, b) => Somewhere(i, b)'
    BY <2>1, <2>3 DEF Somewhere
  <2> QED BY <1>3, <2>1, <2>4
<1>13. ASSUME UNCHANGED <<queued, acked, off, sent, lost, pkt, failed>>,
              \A i \in Ids : shutdown[i] => shutdown'[i]
       PROVE  Placed'
  BY <1>3, <1>13 DEF Somewhere, Outstanding
<1>14. ASSUME NEW id \in Ids, StreamShutdown(id) PROVE Placed'
  BY <1>1, <1>13, <1>14 DEF StreamShutdown, recVars, callVars, histVars
<1>15. ASSUME NEW id, NEW m, RecvMaxStreamData(id, m) PROVE Placed'
  BY <1>13, <1>15 DEF RecvMaxStreamData, recVars, callVars, histVars
<1>16. CASE DropBlock
  <2>1. flushable[idx] \in Ids
    BY <1>16 DEF DropBlock, Inv1, TypeOK, Shape, CallShape
  <2>2. \A i \in Ids : shutdown[i] => shutdown'[i]
    BY <1>1, <1>16, <2>1 DEF DropBlock
  <2> QED BY <1>13, <1>16, <2>2 DEF DropBlock, recVars, histVars
<1> QED BY <1>6, <1>7, <1>8, <1>9, <1>10, <1>11, <1>12, <1>14, <1>15, <1>16, StepCases

\* No byte the application wrote is forgotten while its block is not canceled and
\* send() has not failed with FinalSize: it is queued, in a packet, or acked.
THEOREM NoByteLostCorrect == Spec => []NoByteLost
<1> DEFINE Inv == Inv1 /\ OnePlace /\ Placed
<1>1. Init => Inv
  <2>1. Init => OnePlace
    BY DEF Init, OnePlace, Outstanding, EmptyPkt
  <2>2. Init => Placed
    BY DEF Init, Placed
  <2> QED BY <2>1, <2>2, Inv1Init
<1>2. Inv /\ [Next]_vars => Inv'
  BY Inv1Step, OnePlaceStep, PlacedStep
<1>3. Inv => NoByteLost
  <2> SUFFICES ASSUME Inv, ~failed, NEW id \in Ids, ~shutdown[id]
               PROVE  0..(off[id] - 1) = queued[id] \cup acked[id] \cup InPackets(id)
    BY DEF NoByteLost
  <2>1. \A b \in 0..(off[id] - 1) : b \in queued[id] \cup acked[id] \cup InPackets(id)
    BY DEF Placed, InPackets
  <2>2. queued[id] \subseteq 0..(off[id] - 1) /\ acked[id] \subseteq 0..(off[id] - 1)
    BY DEF Inv1, Shape, StreamShape, StreamOK
  <2>3. ASSUME NEW p \in Outstanding, p.sid = id
        PROVE  p.bytes \subseteq 0..(off[id] - 1)
    <3>1. p \in Packet /\ FrameOK(p) /\ off[id] \in Nat
      BY DEF Outstanding, Inv1, TypeOK, Shape, PacketShape
    <3>2. p.end \in Nat /\ p.bytes \subseteq 0..(p.end - 1) /\ p.end <= off[id]
      BY <2>3, <3>1, ConstantsAssumption DEF FrameOK, Packet
    <3> QED BY <3>1, <3>2
  <2>4. InPackets(id) \subseteq 0..(off[id] - 1)
    BY <2>3 DEF InPackets
  <2> QED BY <2>1, <2>2, <2>4
<1> QED BY <1>1, <1>2, <1>3, PTL DEF Spec

-----------------------------------------------------------------------------
(* The connection-level counter *)

\* The bytes the connection window is charged for
Held == UNION {{id} \X (acked[id] \cup InPackets(id)) : id \in Ids}

\* Byte b of block id is charged
Charged(id, b) == b \in acked[id] \/ \E p \in Outstanding : p.sid = id /\ b \in p.bytes

\* TxDataExact, with the set it counts finite
TxOK == ~failed => IsFiniteSet(Held) /\ tx_data = Cardinality(Held)

\* Held, pair by pair
HeldExact ==
    /\ Held \in SUBSET (Ids \X Nat)
    /\ \A id \in Ids, b \in Nat : <<id, b>> \in Held <=> Charged(id, b)

\* Held is what its pairs say, before a step and after it
LEMMA HeldIs == TypeOK => HeldExact
<1> SUFFICES ASSUME TypeOK PROVE HeldExact
  OBVIOUS
<1>1. \A id \in Ids : acked[id] \cup InPackets(id) \subseteq Nat
  BY DEF TypeOK, InPackets, Outstanding, Packet
<1>2. \A id \in Ids, b \in Nat : b \in acked[id] \cup InPackets(id) <=> Charged(id, b)
  BY DEF InPackets, Charged
<1>3. Held \subseteq Ids \X Nat
  BY <1>1 DEF Held
<1>4. ASSUME NEW id \in Ids, NEW b \in Nat
      PROVE  <<id, b>> \in Held <=> b \in acked[id] \cup InPackets(id)
  <2>1. \A i \in Ids : <<id, b>> \in {i} \X (acked[i] \cup InPackets(i))
                         <=> id = i /\ b \in acked[i] \cup InPackets(i)
    OBVIOUS
  <2> QED BY <2>1 DEF Held
<1> QED BY <1>2, <1>3, <1>4 DEF HeldExact

LEMMA HeldIsNext == TypeOK' => HeldExact'
BY HeldIs, PTL

\* Two sets of pairs with the same pairs
LEMMA SamePairs ==
    ASSUME NEW A, NEW B, NEW S \in SUBSET (A \X B), NEW T \in SUBSET (A \X B),
           \A a \in A, b \in B : <<a, b>> \in S <=> <<a, b>> \in T
    PROVE  S = T
<1>1. ASSUME NEW x \in A \X B PROVE x \in S <=> x \in T
  <2>1. PICK a \in A, b \in B : x = <<a, b>>
    OBVIOUS
  <2> QED BY <2>1
<1> QED BY <1>1

\* The bytes of one block are as many as they are
LEMMA PairsOfOne ==
    ASSUME NEW id, NEW S, IsFiniteSet(S)
    PROVE  IsFiniteSet({id} \X S) /\ Cardinality({id} \X S) = Cardinality(S)
<1>1. IsFiniteSet({id}) /\ Cardinality({id}) = 1
  BY FS_Singleton
<1>2. IsFiniteSet({id} \X S) /\ Cardinality({id} \X S) = 1 * Cardinality(S)
  BY <1>1, FS_Product
<1> QED BY <1>2, FS_CardinalityType

\* A step that charges and returns nothing
LEMMA TxKept ==
    ASSUME TypeOK, TypeOK', TxOK, failed' = failed, tx_data' = tx_data,
           \A id \in Ids, b \in Nat : Charged(id, b)' <=> Charged(id, b)
    PROVE  TxOK'
<1>1. /\ Held \in SUBSET (Ids \X Nat)
      /\ \A id \in Ids, b \in Nat : <<id, b>> \in Held <=> Charged(id, b)
  BY HeldIs DEF HeldExact
<1>2. /\ Held' \in SUBSET (Ids \X Nat)
      /\ \A id \in Ids, b \in Nat : <<id, b>> \in Held' <=> Charged(id, b)'
  BY HeldIsNext DEF HeldExact
<1>3. \A id \in Ids, b \in Nat : <<id, b>> \in Held' <=> <<id, b>> \in Held
  BY <1>1, <1>2
<1>4. Held' = Held
  BY ONLY <1>1, <1>2, <1>3, SamePairs
<1> QED BY <1>4 DEF TxOK

\* The bytes of an outstanding packet of a stream that is not live are none
LEMMA DeadFrame ==
    ASSUME Inv1, OnePlace, NEW p \in Outstanding, p.sid = NoId \/ ~Live(p.sid)
    PROVE  p.bytes = {}
<1>1. p \in Packet /\ FrameOK(p)
  BY DEF Outstanding, Inv1, TypeOK, Shape, PacketShape
<1>2. CASE p.sid = NoId
  BY <1>1, <1>2 DEF FrameOK
<1>3. CASE p.sid # NoId
  <2>1. p.sid \in Ids /\ p.end \in Nat /\ p.bytes \subseteq 0..(p.end - 1) /\ p.end <= off[p.sid]
    BY <1>1, <1>3 DEF FrameOK, Packet
  <2>2. off[p.sid] \in Nat /\ StreamOK(p.sid)
    BY <2>1 DEF Inv1, TypeOK, Shape, StreamShape
  <2>3. CASE st[p.sid] = "none"
    BY <2>1, <2>2, <2>3 DEF StreamOK
  <2>4. CASE st[p.sid] = "collected"
    <3>1. \A b \in p.bytes : b \in acked[p.sid]
      BY <2>1, <2>2, <2>4 DEF StreamOK
    <3> QED BY <2>1, <3>1 DEF OnePlace
  <2>5. st[p.sid] \in {"none", "collected"}
    BY <1>3, <2>1 DEF Live, Inv1, TypeOK
  <2> QED BY <2>3, <2>4, <2>5
<1> QED BY <1>2, <1>3

\* A lost packet gives its bytes back
LEMMA TxProcessLost ==
    ASSUME Inv1, TypeOK', OnePlace, TxOK, NEW p \in lost, ProcessLost(p)
    PROVE  TxOK'
<1>1. p \in Packet /\ FrameOK(p) /\ p \in Outstanding /\ p.sid \in Ids \cup {NoId}
  BY DEF Inv1, TypeOK, Shape, PacketShape, Outstanding, Packet
<1>2. pc = "lost" /\ pkt = EmptyPkt /\ pkt.bytes = {} /\ pkt.sid = NoId
  BY OutsideCall DEF ProcessLost
<1>3. UNCHANGED <<acked, sent>>
  BY DEF ProcessLost
<1>4. CASE p.sid # NoId /\ Live(p.sid) /\ PushFails(p)
  BY <1>4 DEF ProcessLost, TxOK
<1>5. CASE ~(p.sid # NoId /\ Live(p.sid))
  <2>1. UNCHANGED <<tx_data, failed, pkt>> /\ lost' = lost \ {p}
    BY <1>5, Zenon DEF ProcessLost, callVars
  <2>2. p.bytes = {}
    BY <1>1, <1>5, DeadFrame
  <2>3. \A q : q \in Outstanding' => q \in Outstanding
    BY <1>3, <2>1 DEF Outstanding
  <2>4. \A q \in Outstanding : q \in Outstanding' \/ q.bytes = {}
    BY <1>3, <2>1, <2>2 DEF Outstanding
  <2>5. \A id \in Ids, b \in Nat : Charged(id, b)' <=> Charged(id, b)
    BY <1>3, <2>3, <2>4 DEF Charged
  <2> QED BY <2>1, <2>5, TxKept DEF Inv1
<1>6. CASE p.sid # NoId /\ Live(p.sid) /\ ~PushFails(p)
  <2> DEFINE n == Cardinality(p.bytes)
             P == {p.sid} \X p.bytes
  <2>1. UNCHANGED <<failed, pkt>> /\ lost' = lost \ {p} /\ tx_data' = TxAfterLoss(n)
    BY <1>6, Zenon DEF ProcessLost, callVars
  <2>2. p.sid \in Ids /\ p.bytes \in SUBSET Nat /\ IsFiniteSet(p.bytes)
    <3>1. p.end \in Nat /\ p.bytes \in SUBSET (0..(p.end - 1)) /\ p.bytes \in SUBSET Nat
      BY <1>1, <1>6 DEF FrameOK, Packet
    <3> QED BY <1>1, <1>6, <3>1, OffsetsFinite
  <2>3. IsFiniteSet(P) /\ Cardinality(P) = n
    BY <2>2, PairsOfOne
  <2>4. \A q : q \in Outstanding' <=> q \in Outstanding /\ q # p
    BY <1>2, <1>3, <1>6, <2>1 DEF Outstanding, OnePlace
  <2>5. ASSUME NEW id \in Ids, NEW b \in Nat
        PROVE  Charged(id, b)' <=> Charged(id, b) /\ ~(id = p.sid /\ b \in p.bytes)
    BY <1>1, <1>3, <2>4 DEF Charged, OnePlace
  <2>6. ASSUME NEW b \in p.bytes PROVE Charged(p.sid, b)
    BY <1>1 DEF Charged
  <2>7. /\ Held \in SUBSET (Ids \X Nat) /\ Held' \in SUBSET (Ids \X Nat)
        /\ \A id \in Ids, b \in Nat : <<id, b>> \in Held <=> Charged(id, b)
        /\ \A id \in Ids, b \in Nat : <<id, b>> \in Held' <=> Charged(id, b)'
    BY HeldIs, HeldIsNext DEF HeldExact, Inv1
  <2>8. \A id, b : <<id, b>> \in P <=> id = p.sid /\ b \in p.bytes
    OBVIOUS
  <2> HIDE DEF P, n
  <2>9. P \subseteq Held
    <3>1. P \subseteq Ids \X Nat
      BY <2>2 DEF P
    <3>2. \A id \in Ids, b \in Nat : <<id, b>> \in P <=> <<id, b>> \in P \cap Held
      <4>1. \A id \in Ids, b \in Nat : <<id, b>> \in P => Charged(id, b)
        BY <2>6, <2>8
      <4> QED BY ONLY <2>7, <4>1
    <3>3. P \in SUBSET (Ids \X Nat) /\ P \cap Held \in SUBSET (Ids \X Nat)
      BY <3>1
    <3>4. P = P \cap Held
      BY ONLY <3>2, <3>3, SamePairs
    <3> QED BY <3>4
  <2>10. Held' = Held \ P
    <3>1. \A id \in Ids, b \in Nat : <<id, b>> \in Held' <=> <<id, b>> \in Held \ P
      BY <2>5, <2>7, <2>8
    <3>2. Held \ P \in SUBSET (Ids \X Nat)
      BY <2>7
    <3> QED BY ONLY <2>7, <3>1, <3>2, SamePairs
  <2>11. ASSUME ~failed
         PROVE  IsFiniteSet(Held') /\ tx_data' = Cardinality(Held')
    <3>1. IsFiniteSet(Held) /\ tx_data = Cardinality(Held)
      BY <2>11 DEF TxOK
    <3>2. Held \cap P = P
      BY <2>9
    <3>3. IsFiniteSet(Held \ P) /\ Cardinality(Held \ P) = Cardinality(Held) - n
      BY <2>3, <3>1, <3>2, FS_Difference
    <3>4. Cardinality(Held \ P) \in Nat /\ Cardinality(Held) \in Nat /\ n \in Nat
      BY <2>3, <3>1, <3>3, FS_CardinalityType
    <3>5. tx_data' = tx_data - n
      BY <2>1, <3>1, <3>3, <3>4 DEF TxAfterLoss
    <3> QED BY <2>10, <3>1, <3>3, <3>5
  <2> QED BY <2>1, <2>11 DEF TxOK
<1> QED BY <1>4, <1>5, <1>6

\* A STREAM frame is charged for the bytes it takes from the queue
LEMMA TxFillPacket ==
    ASSUME Inv1, TypeOK', OnePlace, TxOK, FillPacket
    PROVE  TxOK'
<1> DEFINE B == Popped(cur, StreamRoom)
           P == {cur} \X B
<1>1. /\ cur \in Ids /\ UNCHANGED <<acked, sent, lost, failed>>
      /\ InfoPkt \in Packet /\ InfoPkt.bytes = {}
      /\ B \subseteq queued[cur]
  BY FillEffect, PoppedBytes
<1>2. \/ pkt' = InfoPkt /\ tx_data' = tx_data
      \/ /\ tx_data' = tx_data + Cardinality(B)
         /\ \E e : pkt' = [InfoPkt EXCEPT !.sid = cur, !.bytes = B, !.end = e,
                                           !.fin = (fin_off[cur] = e)]
  BY DEF FillPacket
<1>3. pkt.bytes = {}
  BY DEF FillPacket, Inv1, Shape, CallShape, PacketShape, FrameOK
<1>4. IsFiniteSet(B) /\ B \in SUBSET Nat
  <2>1. off[cur] \in Nat /\ B \in SUBSET (0..(off[cur] - 1)) /\ B \in SUBSET Nat
    BY <1>1 DEF Inv1, TypeOK, Shape, StreamShape, StreamOK
  <2> QED BY <2>1, OffsetsFinite
<1> HIDE DEF B
<1>5. CASE pkt' = InfoPkt /\ tx_data' = tx_data
  <2>1. \A q \in Outstanding' : q \in Outstanding \/ q.bytes = {}
    BY <1>1, <1>5 DEF Outstanding
  <2>2. \A q \in Outstanding : q \in Outstanding' \/ q.bytes = {}
    BY <1>1, <1>3 DEF Outstanding
  <2>3. \A id \in Ids, b \in Nat : Charged(id, b)' <=> Charged(id, b)
    BY <1>1, <2>1, <2>2 DEF Charged
  <2> QED BY <1>1, <1>5, <2>3, TxKept DEF Inv1
<1>6. CASE ~(pkt' = InfoPkt /\ tx_data' = tx_data)
  <2>1. tx_data' = tx_data + Cardinality(B) /\ pkt'.sid = cur /\ pkt'.bytes = B
    BY <1>1, <1>2, <1>6 DEF Packet
  <2>2. \A q \in Outstanding' : q = pkt' \/ q \in Outstanding
    BY <1>1 DEF Outstanding
  <2>3. pkt' \in Outstanding' /\ \A q \in Outstanding : q \in Outstanding' \/ q.bytes = {}
    BY <1>1, <1>3 DEF Outstanding
  <2>4. ASSUME NEW id \in Ids, NEW b \in Nat
        PROVE  Charged(id, b)' <=> Charged(id, b) \/ (id = cur /\ b \in B)
    BY <1>1, <2>1, <2>2, <2>3 DEF Charged
  <2>5. ASSUME NEW b \in B PROVE ~Charged(cur, b)
    BY <1>1 DEF Charged, OnePlace
  <2>6. /\ Held \in SUBSET (Ids \X Nat) /\ Held' \in SUBSET (Ids \X Nat)
        /\ \A id \in Ids, b \in Nat : <<id, b>> \in Held <=> Charged(id, b)
        /\ \A id \in Ids, b \in Nat : <<id, b>> \in Held' <=> Charged(id, b)'
    BY HeldIs, HeldIsNext DEF HeldExact, Inv1
  <2>7. /\ \A id, b : <<id, b>> \in P <=> id = cur /\ b \in B
        /\ P \in SUBSET (Ids \X Nat)
    BY <1>1, <1>4
  <2>8. IsFiniteSet(P) /\ Cardinality(P) = Cardinality(B)
    BY <1>4, PairsOfOne
  <2> HIDE DEF P
  <2>9. Held \cap P = {}
    <3>1. \A id \in Ids, b \in Nat : <<id, b>> \in Held \cap P <=> <<id, b>> \in {}
      BY <2>5, <2>6, <2>7
    <3>2. Held \cap P \in SUBSET (Ids \X Nat) /\ {} \in SUBSET (Ids \X Nat)
      BY <2>7
    <3> QED BY ONLY <3>1, <3>2, SamePairs
  <2>10. Held' = Held \cup P
    <3>1. \A id \in Ids, b \in Nat : <<id, b>> \in Held' <=> <<id, b>> \in Held \cup P
      BY <2>4, <2>6, <2>7
    <3>2. Held \cup P \in SUBSET (Ids \X Nat)
      BY <2>6, <2>7
    <3> QED BY ONLY <2>6, <3>1, <3>2, SamePairs
  <2>11. ASSUME ~failed
         PROVE  IsFiniteSet(Held') /\ tx_data' = Cardinality(Held')
    <3>1. IsFiniteSet(Held) /\ tx_data = Cardinality(Held)
      BY <2>11 DEF TxOK
    <3>2. /\ IsFiniteSet(Held \cup P)
          /\ Cardinality(Held \cup P) = Cardinality(Held) + Cardinality(P) - Cardinality({})
      BY <2>8, <2>9, <3>1, FS_Union
    <3>3. Cardinality({}) = 0 /\ Cardinality(Held) \in Nat /\ Cardinality(P) \in Nat
      BY <2>8, <3>1, FS_EmptySet, FS_CardinalityType
    <3> QED BY <2>1, <2>8, <2>10, <3>1, <3>2, <3>3
  <2> QED BY <1>1, <2>11 DEF TxOK
<1> QED BY <1>5, <1>6

\* Only lost packets and new STREAM frames move the counter
LEMMA TxMoves ==
    ASSUME [Next]_vars
    PROVE  FillPacket \/ (\E p \in lost : ProcessLost(p)) \/ tx_data' = tx_data
<1> USE DEF streamVars, mapVars, flowVars, recVars, callVars, histVars
<1>1. AppStep => tx_data' = tx_data
  <2>1. \A id, n, fin, d : StreamSend(id, n, fin, d) => tx_data' = tx_data
    BY DEF StreamSend
  <2>2. \A id : StreamShutdown(id) => tx_data' = tx_data
    BY DEF StreamShutdown
  <2> QED BY <2>1, <2>2 DEF AppStep
<1>2. PeerStep => tx_data' = tx_data
  BY DEF PeerStep, RecvMaxData, RecvMaxStreamData, RecvLateMaxStreamData
<1>3. Acknowledge \/ Lose \/ Tick \/ NothingToSend => tx_data' = tx_data
  BY DEF Acknowledge, AckPacket, Lose, LosePacket, Tick, NothingToSend
<1>4. SendStep => FillPacket \/ (\E p \in lost : ProcessLost(p)) \/ tx_data' = tx_data
  BY DEF SendStep, BeginSend, NoRoom, StartPacket, ResetCanceled, ResetDone, EnterStreamLoop,
         Peek, PeekGone, DropBlock, DropFails, KeepBlock, DropDone, SelectBlock, SelectNone,
         FillGone, FinishPacket, Panic
<1> QED BY <1>1, <1>2, <1>3, <1>4 DEF Next, vars

\* Every step keeps the counter equal to the bytes charged
LEMMA TxStep ==
    ASSUME Inv1, TypeOK', OnePlace, TxOK, [Next]_vars
    PROVE  TxOK'
<1>1. /\ queued \in [Ids -> SUBSET Nat] /\ acked \in [Ids -> SUBSET Nat]
      /\ sent \subseteq Packet /\ lost \subseteq Packet /\ pkt \in Packet
  BY DEF Inv1, TypeOK
<1>2. CASE FillPacket
  BY <1>2, TxFillPacket
<1>3. ASSUME NEW p \in lost, ProcessLost(p) PROVE TxOK'
  BY <1>3, TxProcessLost
<1>4. ASSUME tx_data' = tx_data, UNCHANGED <<acked, failed>>,
             \A q \in Outstanding' : q \in Outstanding \/ q.bytes = {},
             \A q \in Outstanding : q \in Outstanding' \/ q.bytes = {}
      PROVE  TxOK'
  <2>1. \A id \in Ids, b \in Nat : Charged(id, b)' <=> Charged(id, b)
    BY <1>4 DEF Charged
  <2> QED BY <1>4, <2>1, TxKept DEF Inv1
<1>5. CASE tx_data' = tx_data /\ MovesNoBytes
  BY <1>4, <1>5, QuietPackets
<1>6. ASSUME tx_data' = tx_data, UNCHANGED <<acked, failed, sent, lost, pkt>> PROVE TxOK'
  BY <1>4, <1>6 DEF Outstanding
<1>7. ASSUME NEW id \in Ids, NEW n \in Nat, NEW fin \in BOOLEAN, NEW d \in Nat,
             StreamSend(id, n, fin, d)
      PROVE  TxOK'
  BY <1>6, <1>7 DEF StreamSend, flowVars, recVars, callVars, histVars
<1>8. ASSUME NEW id, StreamShutdown(id) PROVE TxOK'
  BY <1>6, <1>8 DEF StreamShutdown, flowVars, recVars, callVars, histVars
<1>9. ASSUME NEW id, NEW m, RecvMaxStreamData(id, m) PROVE TxOK'
  BY <1>6, <1>9 DEF RecvMaxStreamData, flowVars, recVars, callVars, histVars
<1>10. CASE DropBlock
  BY <1>6, <1>10 DEF DropBlock, flowVars, recVars, histVars
<1>11. ASSUME NEW p \in sent, AckPacket(p) PROVE TxOK'
  <2>1. UNCHANGED <<tx_data, failed, lost, pkt>> /\ sent' = sent \ {p}
    BY <1>11 DEF AckPacket, flowVars, callVars, histVars
  <2>2. p \in Outstanding /\ pkt.bytes = {} /\ pkt.sid = NoId
    BY <1>11, OutsideCall DEF AckPacket, Outstanding
  <2>3. CASE p.sid # NoId /\ Live(p.sid)
    <3>1. p.sid \in Ids /\ acked' = [acked EXCEPT ![p.sid] = acked[p.sid] \cup p.bytes]
      BY <1>1, <1>11, <2>3 DEF AckPacket, Packet
    <3>2. \A q \in Outstanding' : q \in Outstanding
      BY <2>1 DEF Outstanding
    <3>3. \A q \in Outstanding : q \in Outstanding' \/ q = p
      BY <2>1 DEF Outstanding
    <3>4. \A id \in Ids : acked'[id] = acked[id] \cup (IF id = p.sid THEN p.bytes ELSE {})
      BY <1>1, <3>1
    <3>5. \A id \in Ids, b \in Nat : Charged(id, b)' <=> Charged(id, b)
      BY <2>2, <3>2, <3>3, <3>4 DEF Charged
    <3> QED BY <2>1, <3>5, TxKept DEF Inv1
  <2>4. CASE ~(p.sid # NoId /\ Live(p.sid))
    <3>1. p.bytes = {}
      BY <2>2, <2>4, DeadFrame
    <3>2. UNCHANGED acked
      BY <1>11, <2>4 DEF AckPacket
    <3> QED BY <1>4, <2>1, <3>1, <3>2 DEF Outstanding
  <2> QED BY <2>3, <2>4
<1>12. ASSUME NEW p \in sent, LosePacket(p) PROVE TxOK'
  BY <1>4, <1>12 DEF LosePacket, Outstanding, flowVars, callVars, histVars, streamVars
<1>13. CASE FinishPacket
  <2>1. /\ UNCHANGED <<acked, lost, failed, tx_data>> /\ pkt' = EmptyPkt
        /\ sent' = IF Carries(pkt) THEN sent \cup {pkt} ELSE sent
    BY <1>13 DEF FinishPacket, Abort, streamVars, flowVars
  <2>2. EmptyPkt.bytes = {} /\ (~Carries(pkt) => pkt.bytes = {})
    BY DEF EmptyPkt, Carries, Inv1, Shape, PacketShape, FrameOK
  <2> QED BY <1>4, <2>1, <2>2 DEF Outstanding
<1>14. FillPacket \/ (\E p \in lost : ProcessLost(p)) \/ tx_data' = tx_data
  BY TxMoves
<1> QED BY <1>2, <1>3, <1>5, <1>7, <1>8, <1>9, <1>10, <1>11, <1>12, <1>13, <1>14, StepCases

\* The connection-level counter is exact: what a lost packet gives back was
\* charged, so the saturating subtraction never saturates.
THEOREM TxDataCorrect == Spec => []TxDataExact
<1>1. Init => Inv1 /\ OnePlace /\ TxOK
  <2> SUFFICES ASSUME Init PROVE OnePlace /\ TxOK
    BY Inv1Init
  <2>1. OnePlace
    BY DEF Init, OnePlace, Outstanding, EmptyPkt
  <2>2. TypeOK /\ \A id \in Ids, b \in Nat : ~Charged(id, b)
    BY Inv1Init DEF Init, Inv1, Charged, Outstanding, EmptyPkt
  <2>3. /\ Held \in SUBSET (Ids \X Nat) /\ {} \in SUBSET (Ids \X Nat)
        /\ \A id \in Ids, b \in Nat : <<id, b>> \in Held <=> <<id, b>> \in {}
    BY <2>2, HeldIs DEF HeldExact
  <2>4. Held = {}
    BY ONLY <2>3, SamePairs
  <2> QED BY <2>1, <2>4, FS_EmptySet DEF Init, TxOK
<1>2. Inv1 /\ OnePlace /\ TxOK /\ [Next]_vars => Inv1' /\ OnePlace' /\ TxOK'
  BY Inv1Step, OnePlaceStep, TxStep DEF Inv1
<1>3. TxOK => TxDataExact
  BY DEF TxOK, TxDataExact, Held
<1> QED BY <1>1, <1>2, <1>3, PTL DEF Spec

-----------------------------------------------------------------------------
(* The queue of flushable streams: the unwrap()s of the schedulers never     *)
(* fail, no packet carries data of an expired block, and between calls the   *)
(* queue holds exactly the streams with data inside their window.            *)
(*                                                                           *)
(* They hold for applications without zero-length writes, and as long as     *)
(* send() reaches the STREAM loop with room in the connection window         *)
(* (Roomy): without it the loop takes a stream out of the queue, finds       *)
(* nothing to put in the packet and does not queue the stream again.         *)

\* When a stream is selected the connection window has room for a STREAM frame
Roomy == pc = "fill" => max_tx_data - tx_data > StreamHdr

\* The application finishes blocks with their last byte, and MAX_STREAM_OVERHEAD
\* bounds a STREAM header
Plain == ~EmptyFin /\ StreamHdr <= MaxStreamOverhead

\* A stream in the queue has bytes, inside its window unless it was shut down
Queued(id) == queued[id] # {} /\ (shutdown[id] \/ IsFlushable(id))

\* No stream is in the queue twice, except after a shutdown
NoTwice(q) == \A i, j \in 1..Len(q) : q[i] = q[j] => i = j \/ shutdown[q[i]]

\* The queue, and the stream taken out of it while its packet is filled
QueueOK ==
    /\ pc # "panic"
    /\ \A id \in Members(flushable) : Queued(id)
    /\ NoTwice(flushable)
    /\ pc = "fill" => Queued(cur) /\ (shutdown[cur] \/ cur \notin Members(flushable))

\* Frames without data were built for streams that were shut down
EmptyFrames ==
    \A p \in Outstanding : p.sid # NoId /\ p.bytes = {} => shutdown[p.sid] /\ queued[p.sid] # {}

\* A flushable stream is in the queue
Waiting ==
    \A id \in Ids : IsFlushable(id) /\ ~(pc = "fill" /\ cur = id) => id \in Members(flushable)

\* Without shutdowns by the application: streams in the queue, and those with a
\* frame without data, are open
NotShut ==
    /\ \A id \in Members(flushable) : ~shutdown[id]
    /\ pc = "fill" => ~shutdown[cur]
    /\ \A p \in Outstanding : p.sid # NoId => p.bytes # {}

\* The blocks the drop loop has passed, and those chosen afterwards, have time left
ExpiryOK ==
    DTP =>
       /\ pc = "drop" => \A j \in (idx + 1)..Len(flushable) : now <= expires[flushable[j]]
       /\ pc = "select" => \A id \in Members(flushable) : now <= expires[id]
       /\ pc = "fill" => now <= expires[cur]
       /\ pc = "finish" /\ pkt.sid # NoId => now <= expires[pkt.sid]

\* What the queue rests on
Inv2 == Inv1 /\ OnePlace

-----------------------------------------------------------------------------
(* Queues *)

\* Appending adds one member
LEMMA AppendIs ==
    ASSUME NEW q \in Seq(Ids), NEW id \in Ids
    PROVE  /\ Append(q, id) \in Seq(Ids) /\ Len(Append(q, id)) = Len(q) + 1 /\ Len(q) \in Nat
           /\ \A i \in 1..Len(q) : Append(q, id)[i] = q[i]
           /\ Append(q, id)[Len(q) + 1] = id
           /\ Members(Append(q, id)) = Members(q) \cup {id}
<1>1. /\ Append(q, id) \in Seq(Ids) /\ Len(Append(q, id)) = Len(q) + 1 /\ Len(q) \in Nat
      /\ \A i \in 1..Len(q) : Append(q, id)[i] = q[i]
      /\ Append(q, id)[Len(q) + 1] = id
  OBVIOUS
<1>2. /\ DOMAIN q = 1..Len(q) /\ DOMAIN Append(q, id) = 1..(Len(q) + 1)
  BY <1>1
<1>3. \A i \in 1..(Len(q) + 1) : i \in 1..Len(q) \/ i = Len(q) + 1
  BY <1>1
<1>4. 1..Len(q) \subseteq 1..(Len(q) + 1) /\ Len(q) + 1 \in 1..(Len(q) + 1)
  BY <1>1
<1> QED BY <1>1, <1>2, <1>3, <1>4 DEF Members

\* r is q without its element i, in some order
Without(q, i, r) ==
    /\ \A j \in 1..Len(r) : \E k \in 1..Len(q) : k # i /\ r[j] = q[k]
    /\ \A k \in 1..Len(q) : k # i => \E j \in 1..Len(r) : r[j] = q[k]
    /\ \A j, l \in 1..Len(r) : j # l =>
         \E k, m \in 1..Len(q) : k # m /\ r[j] = q[k] /\ r[l] = q[m]

\* swap_remove_back removes one element
LEMMA BackWithout ==
    ASSUME NEW q \in Seq(Ids), NEW i \in 1..Len(q)
    PROVE  Without(q, i, SwapRemoveBack(q, i))
<1> DEFINE r == SwapRemoveBack(q, i)
           n == Len(q)
           at(j) == IF j = i THEN n ELSE j
<1>1. n \in Nat /\ i \in 1..n /\ Len(r) = n - 1
  BY SwapRemoveBackType
<1>2. \A j \in 1..(n - 1) : r[j] = q[at(j)] /\ at(j) \in 1..n /\ at(j) # i
  BY <1>1 DEF SwapRemoveBack
<1>3. \A j, l \in 1..(n - 1) : j # l => at(j) # at(l)
  BY <1>1
<1>4. \A k \in 1..n : k # i => \E j \in 1..(n - 1) : at(j) = k
  <2> SUFFICES ASSUME NEW k \in 1..n, k # i PROVE \E j \in 1..(n - 1) : at(j) = k
    OBVIOUS
  <2>1. CASE k = n
    BY <1>1, <2>1
  <2>2. CASE k # n
    BY <1>1, <2>2
  <2> QED BY <2>1, <2>2
<1> HIDE DEF at, r, n
<1>5. Without(q, i, r)
  <2>1. ASSUME NEW j \in 1..Len(r) PROVE \E k \in 1..Len(q) : k # i /\ r[j] = q[k]
    BY <1>1, <1>2 DEF n
  <2>2. ASSUME NEW k \in 1..Len(q), k # i PROVE \E j \in 1..Len(r) : r[j] = q[k]
    <3>1. PICK j \in 1..(n - 1) : at(j) = k
      BY <1>4, <2>2 DEF n
    <3> QED BY <1>1, <1>2, <3>1
  <2>3. ASSUME NEW j \in 1..Len(r), NEW l \in 1..Len(r), j # l
        PROVE  \E k, m \in 1..Len(q) : k # m /\ r[j] = q[k] /\ r[l] = q[m]
    <3>1. at(j) # at(l) /\ at(j) \in 1..Len(q) /\ at(l) \in 1..Len(q)
      BY <1>1, <1>2, <1>3, <2>3 DEF n
    <3> QED BY <1>1, <1>2, <3>1
  <2> QED BY <2>1, <2>2, <2>3 DEF Without
<1> QED BY <1>5 DEF r

\* ... and so does swap_remove_front
LEMMA FrontWithout ==
    ASSUME NEW q \in Seq(Ids), NEW i \in 1..Len(q)
    PROVE  Without(q, i, SwapRemoveFront(q, i))
<1> DEFINE r == SwapRemoveFront(q, i)
           n == Len(q)
           at(j) == IF j + 1 = i THEN 1 ELSE j + 1
<1>1. n \in Nat /\ i \in 1..n
  OBVIOUS
<1>2. DOMAIN r = 1..(n - 1) /\ Len(r) = n - 1
  <2>1. r \in Seq(Ids) /\ DOMAIN r = 1..(n - 1)
    BY SwapRemoveFrontType DEF SwapRemoveFront
  <2> QED BY <1>1, <2>1
<1>3. \A j \in 1..(n - 1) : r[j] = q[at(j)]
  BY <1>1 DEF SwapRemoveFront
<1>4. \A j \in 1..(n - 1) : at(j) \in 1..n
  BY <1>1
<1>5. i = 1 => \A j \in 1..(n - 1) : at(j) # i
  BY <1>1
<1>6. i # 1 => \A j \in 1..(n - 1) : at(j) # i
  BY <1>1
<1>7. \A j, l \in 1..(n - 1) : j # l => at(j) # at(l)
  BY <1>1
<1>8. \A k \in 1..n : k # i => \E j \in 1..(n - 1) : at(j) = k
  <2> SUFFICES ASSUME NEW k \in 1..n, k # i PROVE \E j \in 1..(n - 1) : at(j) = k
    OBVIOUS
  <2>1. CASE k = 1
    <3>1. i - 1 \in 1..(n - 1) /\ at(i - 1) = k
      BY <1>1, <2>1
    <3> QED BY <3>1
  <2>2. CASE k # 1
    <3>1. k - 1 \in 1..(n - 1) /\ at(k - 1) = k
      BY <1>1, <2>2
    <3> QED BY <3>1
  <2> QED BY <2>1, <2>2
<1> HIDE DEF at, r, n
<1>9. Without(q, i, r)
  <2>1. ASSUME NEW j \in 1..Len(r) PROVE \E k \in 1..Len(q) : k # i /\ r[j] = q[k]
    BY <1>1, <1>2, <1>3, <1>4, <1>5, <1>6 DEF n
  <2>2. ASSUME NEW k \in 1..Len(q), k # i PROVE \E j \in 1..Len(r) : r[j] = q[k]
    <3>1. PICK j \in 1..(n - 1) : at(j) = k
      BY <1>8, <2>2 DEF n
    <3> QED BY <1>2, <1>3, <3>1
  <2>3. ASSUME NEW j \in 1..Len(r), NEW l \in 1..Len(r), j # l
        PROVE  \E k, m \in 1..Len(q) : k # m /\ r[j] = q[k] /\ r[l] = q[m]
    <3>1. at(j) # at(l) /\ at(j) \in 1..Len(q) /\ at(l) \in 1..Len(q)
      BY <1>2, <1>4, <1>7, <2>3 DEF n
    <3> QED BY <1>2, <1>3, <3>1
  <2> QED BY <2>1, <2>2, <2>3 DEF Without
<1> QED BY <1>9 DEF r

\* What is left of a queue that lost one element
LEMMA WithoutIs ==
    ASSUME NEW q \in Seq(Ids), NEW r \in Seq(Ids), NEW i \in 1..Len(q), Without(q, i, r)
    PROVE  /\ Members(r) \subseteq Members(q)
           /\ \A id \in Members(q) : id # q[i] => id \in Members(r)
           /\ NoTwice(q) => NoTwice(r)
           /\ NoTwice(q) /\ ~shutdown[q[i]] => q[i] \notin Members(r)
<1>1. DOMAIN q = 1..Len(q) /\ DOMAIN r = 1..Len(r)
  OBVIOUS
<1>2. Members(r) \subseteq Members(q)
  BY <1>1 DEF Members, Without
<1>3. \A id \in Members(q) : id # q[i] => id \in Members(r)
  <2> SUFFICES ASSUME NEW k \in 1..Len(q), q[k] # q[i] PROVE q[k] \in Members(r)
    BY <1>1 DEF Members
  <2>1. PICK j \in 1..Len(r) : r[j] = q[k]
    BY DEF Without
  <2> QED BY <1>1, <2>1 DEF Members
<1>4. NoTwice(q) => NoTwice(r)
  <2> SUFFICES ASSUME NoTwice(q), NEW j \in 1..Len(r), NEW l \in 1..Len(r), r[j] = r[l], j # l
               PROVE  shutdown[r[j]]
    BY DEF NoTwice
  <2>1. PICK k \in 1..Len(q), m \in 1..Len(q) : k # m /\ r[j] = q[k] /\ r[l] = q[m]
    BY DEF Without
  <2> QED BY <2>1 DEF NoTwice
<1>5. NoTwice(q) /\ ~shutdown[q[i]] => q[i] \notin Members(r)
  <2> SUFFICES ASSUME NoTwice(q), NEW j \in 1..Len(r), r[j] = q[i] PROVE shutdown[q[i]]
    BY <1>1 DEF Members
  <2>1. PICK k \in 1..Len(q) : k # i /\ r[j] = q[k]
    BY DEF Without
  <2> QED BY <2>1 DEF NoTwice
<1> QED BY <1>2, <1>3, <1>4, <1>5

\* A stream not in the queue may be appended
LEMMA NoTwiceAppend ==
    ASSUME NEW q \in Seq(Ids), NoTwice(q), NEW id \in Ids, id \notin Members(q)
    PROVE  NoTwice(Append(q, id))
<1> DEFINE r == Append(q, id)
<1>1. /\ Len(r) = Len(q) + 1 /\ Len(q) \in Nat /\ r[Len(q) + 1] = id
      /\ \A i \in 1..Len(q) : r[i] = q[i]
  BY AppendIs
<1>2. \A i \in 1..Len(q) : q[i] # id
  BY DEF Members
<1>3. \A i \in 1..(Len(q) + 1) : i \in 1..Len(q) \/ i = Len(q) + 1
  BY <1>1
<1> HIDE DEF r
<1>4. NoTwice(r)
  BY <1>1, <1>2, <1>3 DEF NoTwice
<1> QED BY <1>4 DEF r

-----------------------------------------------------------------------------
(* Streams with bytes *)

\* The fields of a stream are sets of offsets, and the queue is a queue
LEMMA Types2 ==
    ASSUME Inv2
    PROVE  /\ queued \in [Ids -> SUBSET Nat] /\ shutdown \in [Ids -> BOOLEAN]
           /\ max_data \in [Ids -> Nat] /\ flushable \in Seq(Ids) /\ Members(flushable) \subseteq Ids
           /\ expires \in [Ids -> Nat] /\ now \in Nat /\ idx \in Nat /\ pkt \in Packet
           /\ off \in [Ids -> Nat]
           /\ \A p \in Outstanding : p.sid \in Ids \cup {NoId} /\ p \in Packet
<1>1. /\ queued \in [Ids -> SUBSET Nat] /\ shutdown \in [Ids -> BOOLEAN]
      /\ max_data \in [Ids -> Nat] /\ flushable \in Seq(Ids)
      /\ expires \in [Ids -> Nat] /\ now \in Nat /\ idx \in Nat
      /\ off \in [Ids -> Nat]
  BY Zenon DEF Inv2, Inv1, TypeOK
<1>2. Members(flushable) \subseteq Ids
  BY <1>1 DEF Members
<1>3. sent \subseteq Packet /\ lost \subseteq Packet /\ pkt \in Packet
  BY Zenon DEF Inv2, Inv1, TypeOK
<1>4. Outstanding \subseteq Packet
  BY <1>3 DEF Outstanding
<1>5. \A p \in Packet : p.sid \in Ids \cup {NoId}
  BY DEF Packet
<1> QED BY <1>1, <1>2, <1>3, <1>4, <1>5

\* A stream with bytes in its buffer is in the map of streams
LEMMA QueuedLive ==
    ASSUME Inv2, NEW id \in Ids, queued[id] # {}
    PROVE  Live(id)
<1>1. /\ queued[id] \subseteq 0..(off[id] - 1) /\ off[id] \in Nat
      /\ st[id] \in {"none", "live", "collected"}
      /\ st[id] = "none" => off[id] = 0
      /\ st[id] = "collected" => 0..(off[id] - 1) \subseteq acked[id]
      /\ \A b \in queued[id] : b \notin acked[id]
  <2>1. StreamOK(id)
    BY Zenon DEF Inv2, Inv1, Shape, StreamShape
  <2>2. OnePlace /\ off \in [Ids -> Nat] /\ st \in [Ids -> {"none", "live", "collected"}]
    BY Zenon DEF Inv2, Inv1, TypeOK
  <2> QED BY <2>1, <2>2 DEF StreamOK, OnePlace
<1>2. st[id] # "none"
  BY <1>1
<1>3. st[id] # "collected"
  BY <1>1
<1> QED BY <1>1, <1>2, <1>3 DEF Live

\* A flushable stream is open and has bytes
LEMMA FlushableIs ==
    ASSUME Inv2, NEW id \in Ids, IsFlushable(id)
    PROVE  queued[id] # {} /\ ~shutdown[id] /\ Live(id)
<1>1. queued[id] # {} /\ ~shutdown[id]
  BY Types2 DEF IsFlushable, Flushable, Data
<1> QED BY <1>1, QueuedLive

\* IsFlushable after a step
LEMMA FlushableNext ==
    ASSUME Inv2, Inv2', NEW id \in Ids
    PROVE  /\ IsFlushable(id) <=> ~shutdown[id] /\ Flushable(queued[id], max_data[id])
           /\ IsFlushable(id)' <=> ~shutdown'[id] /\ Flushable(queued'[id], max_data'[id])
BY DEF IsFlushable, Flushable, Data

\* SendBuf::pop finds something in a flushable stream when there is room
LEMMA PoppedSome ==
    ASSUME Inv2, NEW id \in Ids, IsFlushable(id), NEW n \in Int, n > 0
    PROVE  Popped(id, n) # {}
<1>1. Data(id) \in SUBSET Nat /\ max_data[id] \in Nat
  BY Types2 DEF Data
<1>2. PICK x \in Data(id) : x < max_data[id]
  BY DEF IsFlushable, Flushable
<1>3. PICK b \in Data(id) : \A c \in Data(id) : b <= c
  BY <1>1, <1>2, MinOfNaturals
<1>4. b \in Nat /\ b < max_data[id]
  BY <1>1, <1>2, <1>3
<1>5. ASSUME NEW c \in Data(id), c <= b PROVE c..b \subseteq Data(id) /\ b < c + n
  <2>1. c = b
    BY <1>1, <1>3, <1>5
  <2> QED BY <1>4, <2>1
<1>6. b \in Popped(id, n)
  BY <1>4, <1>5 DEF Popped
<1> QED BY <1>6

\* At the body of the STREAM loop, past the check of the space left, the frame
\* has room for data
LEMMA FrameRoom ==
    ASSUME Plain, Roomy, Inv2, pc = "fill", Room > MaxStreamOverhead
    PROVE  StreamRoom \in Int /\ StreamRoom > 0
<1>1. /\ left \in Int /\ max_tx_data \in Int /\ tx_data \in Int /\ InfoLen \in Int
      /\ StreamHdr \in Int /\ MaxStreamOverhead \in Int
  BY ConstantsAssumption DEF Inv2, Inv1, TypeOK
<1>2. Room \in Int
  BY <1>1 DEF Room
<1>3. Room > StreamHdr /\ max_tx_data - tx_data > StreamHdr
  BY <1>1, <1>2 DEF Plain, Roomy
<1> QED BY <1>1, <1>2, <1>3 DEF StreamRoom

-----------------------------------------------------------------------------
(* The steps that touch the queue, and all the others *)

\* The streams' buffers and windows and the queue stay as they are, and no
\* stream is selected
Calm == /\ UNCHANGED <<queued, max_data, shutdown, flushable>>
        /\ pc # "fill" /\ pc' \notin {"panic", "fill"}

\* With the queue in order no unwrap() fails
LEMMA NoPanicStep ==
    ASSUME Inv2, QueueOK
    PROVE  ~PeekGone /\ ~SelectNone /\ ~FillGone
<1>1. \A id \in Members(flushable) : Live(id)
  BY Types2, QueuedLive DEF QueueOK, Queued
<1>2. ~PeekGone
  BY <1>1 DEF PeekGone
<1>3. ASSUME SelectNone PROVE FALSE
  <2>1. flushable # <<>>
    BY <1>3 DEF SelectNone, Inv2, Inv1, Shape, CallShape
  <2>2. 1 \in DOMAIN flushable
    BY <2>1, Types2
  <2>3. flushable[1] \in Members(flushable) /\ Remaining(flushable[1])
    BY <2>2 DEF Members, QueueOK, Queued, Remaining
  <2>4. flushable[1] \in DtpChoices
    BY <2>3 DEF DtpChoices
  <2>5. flushable[1] # NoId
    BY <2>3, Types2, ConstantsAssumption
  <2> QED BY <1>3, <2>4, <2>5 DEF SelectNone
<1>4. ASSUME FillGone PROVE FALSE
  <2>1. cur \in Ids /\ queued[cur] # {}
    BY <1>4 DEF FillGone, QueueOK, Queued, Inv2, Inv1, Shape, CallShape
  <2> QED BY <1>4, <2>1, QueuedLive DEF FillGone
<1> QED BY <1>2, <1>3, <1>4

\* A step is one that moves the queue or a buffer, or it is calm
LEMMA QueueCases ==
    ASSUME Plain, Inv2, QueueOK, [Next]_vars
    PROVE  \/ \E id \in Ids, n \in Nat \ {0}, fin \in BOOLEAN, d \in Nat : StreamSend(id, n, fin, d)
           \/ \E id \in Ids : StreamShutdown(id)
           \/ \E id \in Ids, m \in Nat : RecvMaxStreamData(id, m)
           \/ \E p \in lost : ProcessLost(p)
           \/ DropBlock \/ SelectBlock \/ FillPacket
           \/ Calm
           \/ UNCHANGED vars
<1> USE DEF streamVars, mapVars, Calm
<1>1. pc # "panic" /\ (pc \in {"idle", "lost", "reset", "window", "peek", "drop", "select",
               "fill", "finish", "panic"})
  BY DEF QueueOK, Inv2, Inv1, TypeOK
<1>2. Sizes \subseteq Nat \ {0} /\ Deadlines \subseteq Nat /\ StreamMaxes \subseteq Nat
  BY ConstantsAssumption
<1>3. CASE AppStep
  BY <1>2, <1>3 DEF AppStep, Plain
<1>4. CASE PeerStep
  <2>1. \A m : RecvMaxData(m) => Calm
    BY DEF RecvMaxData, callVars
  <2>2. \A id : RecvLateMaxStreamData(id) => Calm
    BY DEF RecvLateMaxStreamData, callVars
  <2> QED BY <1>2, <1>4, <2>1, <2>2 DEF PeerStep
<1>5. CASE Acknowledge \/ Lose \/ Tick \/ NothingToSend
  <2>1. \A p : AckPacket(p) => Calm
    BY DEF AckPacket, callVars
  <2>2. \A p : LosePacket(p) => Calm
    BY DEF LosePacket, callVars
  <2>3. Tick \/ NothingToSend => Calm
    BY DEF Tick, NothingToSend, callVars
  <2> QED BY <1>5, <2>1, <2>2, <2>3 DEF Acknowledge, Lose
<1>6. CASE SendStep
  <2>1. BeginSend \/ NoRoom \/ StartPacket \/ ResetDone \/ EnterStreamLoop => Calm
    BY DEF BeginSend, NoRoom, StartPacket, ResetDone, EnterStreamLoop, Abort, Goto
  <2>2. \A id : ResetCanceled(id) => Calm
    BY DEF ResetCanceled, Goto
  <2>3. Peek \/ DropFails \/ KeepBlock \/ DropDone \/ FinishPacket => Calm
    BY DEF Peek, DropFails, KeepBlock, DropDone, FinishPacket, Abort, Goto
  <2> QED BY <1>6, <2>1, <2>2, <2>3, NoPanicStep DEF SendStep
<1> QED BY <1>3, <1>4, <1>5, <1>6 DEF Next

\* A shut down stream stays shut down, and its bytes stay counted
LEMMA ShutKept ==
    ASSUME Plain, Inv2, QueueOK, [Next]_vars, NEW id \in Ids, shutdown[id]
    PROVE  shutdown'[id] /\ queued'[id] = queued[id]
<1> USE Types2
<1>1. ASSUME NEW i \in Ids, NEW n \in Nat \ {0}, NEW fin \in BOOLEAN, NEW d \in Nat,
             StreamSend(i, n, fin, d)
      PROVE  shutdown'[id] /\ queued'[id] = queued[id]
  <2>1. UNCHANGED shutdown
    BY <1>1 DEF StreamSend
  <2>2. CASE i # id
    BY <1>1, <2>1, <2>2 DEF StreamSend
  <2>3. CASE i = id
    <3>1. /\ queued' = [queued EXCEPT ![id] = queued[id] \cup off[id]..(off'[id] - 1)]
          /\ off' = [off EXCEPT ![id] = off[id] + 0]
      BY <1>1, <2>3, WriteEffect DEF Inv2
    <3>2. off[id] \in Nat /\ off'[id] = off[id]
      BY <3>1
    <3>3. off[id]..(off'[id] - 1) = {}
      BY <3>2
    <3> QED BY <2>1, <3>1, <3>3
  <2> QED BY <2>2, <2>3
<1>2. ASSUME NEW i, StreamShutdown(i) PROVE shutdown'[id] /\ queued'[id] = queued[id]
  BY <1>2 DEF StreamShutdown
<1>3. ASSUME NEW i, NEW m, RecvMaxStreamData(i, m) PROVE shutdown'[id] /\ queued'[id] = queued[id]
  BY <1>3 DEF RecvMaxStreamData
<1>4. ASSUME NEW p \in lost, ProcessLost(p) PROVE shutdown'[id] /\ queued'[id] = queued[id]
  <2>1. UNCHANGED shutdown
    BY <1>4 DEF ProcessLost
  <2>2. \/ queued' = queued
        \/ \E Q : queued' = [queued EXCEPT ![p.sid] = Q] /\ (shutdown[p.sid] => Q = queued[p.sid])
    BY <1>4, Zenon DEF ProcessLost
  <2> QED BY <2>1, <2>2
<1>5. CASE DropBlock
  BY <1>5 DEF DropBlock
<1>6. CASE SelectBlock
  BY <1>6 DEF SelectBlock, streamVars
<1>7. CASE FillPacket
  <2>1. /\ cur \in Ids /\ UNCHANGED shutdown
        /\ queued' = queued \/ queued' = [queued EXCEPT ![cur] = @ \ Popped(cur, StreamRoom)]
    BY <1>7, FillEffect DEF Inv2
  <2>2. shutdown[cur] => Popped(cur, StreamRoom) = {}
    BY <2>1, PoppedBytes DEF Inv2
  <2> QED BY <2>1, <2>2
<1>8. CASE Calm \/ UNCHANGED vars
  BY <1>8 DEF Calm, vars, streamVars
<1> QED BY <1>1, <1>2, <1>3, <1>4, <1>5, <1>6, <1>7, <1>8, QueueCases

-----------------------------------------------------------------------------
(* Frames without data *)

\* Every frame that comes into play is the selected stream's, and holds data
\* unless the stream was shut down
LEMMA NewFrames ==
    ASSUME Plain, Roomy, Inv2, QueueOK, [Next]_vars, NEW q \in Outstanding',
           q \notin Outstanding, q.sid # NoId
    PROVE  pc = "fill" /\ q.sid = cur /\ (q.bytes = {} => shutdown[cur])
<1> DEFINE B == Popped(cur, StreamRoom)
<1>1. FillPacket /\ q = pkt'
  BY NewFrame DEF Inv2
<1>2. cur \in Ids /\ InfoPkt \in Packet /\ InfoPkt.sid = NoId
  BY <1>1, FillEffect DEF Inv2
<1>3. \/ pkt' = InfoPkt
      \/ /\ Room > MaxStreamOverhead
         /\ \E e : pkt' = [InfoPkt EXCEPT !.sid = cur, !.bytes = B, !.end = e,
                                           !.fin = (fin_off[cur] = e)]
  BY <1>1 DEF FillPacket
<1>4. pc = "fill" /\ Queued(cur)
  BY <1>1 DEF FillPacket, QueueOK
<1> HIDE DEF B
<1>5. Room > MaxStreamOverhead /\ q.sid = cur /\ q.bytes = B
  BY <1>1, <1>2, <1>3 DEF Packet
<1>6. ~shutdown[cur] => B # {}
  BY <1>2, <1>4, <1>5, FrameRoom, PoppedSome DEF Queued, B
<1> QED BY <1>4, <1>5, <1>6

\* A frame without data stays one of a stream that was shut down
LEMMA EmptyFramesStep ==
    ASSUME Plain, Roomy, Inv2, QueueOK, EmptyFrames, [Next]_vars
    PROVE  EmptyFrames'
<1> SUFFICES ASSUME NEW q \in Outstanding', q.sid # NoId, q.bytes = {}
             PROVE  shutdown'[q.sid] /\ queued'[q.sid] # {}
  BY DEF EmptyFrames
<1>1. CASE q \in Outstanding
  <2>1. q.sid \in Ids /\ shutdown[q.sid] /\ queued[q.sid] # {}
    BY <1>1, Types2 DEF EmptyFrames
  <2> QED BY <2>1, ShutKept
<1>2. CASE q \notin Outstanding
  <2>1. q.sid = cur /\ shutdown[cur] /\ pc = "fill"
    BY <1>2, NewFrames
  <2>2. cur \in Ids /\ queued[cur] # {}
    BY <2>1 DEF QueueOK, Queued, Inv2, Inv1, Shape, CallShape
  <2> QED BY <2>1, <2>2, ShutKept
<1> QED BY <1>1, <1>2

-----------------------------------------------------------------------------
(* The queue *)

\* Bytes and windows that only grow, in streams that stay open, keep the queue
\* in order; so does appending a stream that became flushable, or was shut down.
LEMMA QueueGrows ==
    ASSUME Inv2, Inv2', QueueOK, pc' \notin {"panic", "fill"}, NEW id \in Ids,
           \A i \in Ids : queued[i] \subseteq queued'[i] /\ max_data[i] <= max_data'[i],
           \A i \in Ids : shutdown[i] => shutdown'[i],
           \/ flushable' = flushable
           \/ /\ flushable' = Append(flushable, id) /\ Queued(id)'
              /\ shutdown'[id] \/ ~IsFlushable(id)
    PROVE  QueueOK'
<1> USE Types2
<1>1. ASSUME NEW i \in Members(flushable) PROVE Queued(i)'
  <2>1. i \in Ids /\ Queued(i)
    BY <1>1 DEF QueueOK
  <2>2. queued'[i] # {}
    BY <2>1 DEF Queued
  <2>3. ~shutdown'[i] => IsFlushable(i)'
    <3> SUFFICES ASSUME ~shutdown'[i] PROVE Flushable(queued'[i], max_data'[i])
      BY <2>1, FlushableNext
    <3>1. ~shutdown[i] /\ Flushable(queued[i], max_data[i])
      BY <2>1, FlushableNext DEF Queued
    <3>2. PICK b \in queued[i] : b < max_data[i]
      BY <3>1 DEF Flushable
    <3>3. b \in Nat /\ max_data[i] \in Nat /\ max_data'[i] \in Nat /\ max_data[i] <= max_data'[i] /\ b \in queued'[i]
      BY <2>1, <3>2 DEF Inv2, Inv1, TypeOK
    <3> QED BY <3>2, <3>3 DEF Flushable
  <2> QED BY <2>2, <2>3 DEF Queued
<1>2. NoTwice(flushable)'
  <2> SUFFICES ASSUME NEW i \in 1..Len(flushable'), NEW j \in 1..Len(flushable'),
                      flushable'[i] = flushable'[j], ~shutdown'[flushable'[i]]
               PROVE  i = j
    BY DEF NoTwice
  <2>1. \A x \in 1..Len(flushable) : flushable[x] \in Ids /\ flushable[x] \in Members(flushable)
    <3>1. flushable \in Seq(Ids)
      BY Types2
    <3> QED BY ONLY <3>1 DEF Members
  <2>2. \A x, y \in 1..Len(flushable) :
           flushable[x] = flushable[y] /\ ~shutdown'[flushable[x]] => x = y
    BY <2>1 DEF QueueOK, NoTwice
  <2>3. CASE flushable' = flushable
    BY <2>2, <2>3
  <2>4. CASE flushable' # flushable
    <3>1. flushable' = Append(flushable, id) /\ (shutdown'[id] \/ ~IsFlushable(id))
      BY <2>4
    <3>2. /\ Len(flushable') = Len(flushable) + 1 /\ Len(flushable) \in Nat
          /\ \A x \in 1..Len(flushable) : flushable'[x] = flushable[x]
          /\ flushable'[Len(flushable) + 1] = id
      BY <3>1, AppendIs
    <3>3. \A x \in 1..(Len(flushable) + 1) : x \in 1..Len(flushable) \/ x = Len(flushable) + 1
      <4>1. Len(flushable) \in Nat
        BY <3>2
      <4> QED BY ONLY <4>1
    <3>4. ~shutdown'[id] => \A x \in 1..Len(flushable) : flushable[x] # id
      <4>1. ~shutdown'[id] => ~shutdown[id] /\ ~IsFlushable(id)
        BY <3>1
      <4>2. ~shutdown'[id] => id \notin Members(flushable)
        BY <4>1 DEF QueueOK, Queued
      <4> QED BY <2>1, <4>2
    <3> QED BY <2>2, <3>2, <3>3, <3>4
  <2> QED BY <2>3, <2>4
<1>3. \A i \in Members(flushable') : i \in Members(flushable) \/ Queued(i)'
  <2>1. CASE flushable' = flushable
    BY <2>1
  <2>2. CASE flushable' # flushable
    <3>1. Members(flushable') = Members(flushable) \cup {id} /\ Queued(id)'
      <4>1. flushable' = Append(flushable, id) /\ Queued(id)'
        BY <2>2
      <4>2. flushable \in Seq(Ids) /\ id \in Ids
        BY Types2
      <4> QED BY ONLY <4>1, <4>2, AppendIs
    <3> QED BY ONLY <3>1
  <2> QED BY <2>1, <2>2
<1> QED BY <1>1, <1>2, <1>3 DEF QueueOK

\* A write queues the stream it makes flushable
LEMMA SentQueue ==
    ASSUME NEW id, NEW n, NEW fin, NEW d, StreamSend(id, n, fin, d), n # 0,
           NEW o, o = off[id] + Accepted(id, n),
           NEW Q, Q = queued[id] \cup off[id]..(o - 1)
    PROVE  \/ /\ flushable' = flushable
              /\ IsFlushable(id) \/ shutdown[id] \/ ~Flushable(Q, max_data[id])
           \/ /\ flushable' = Append(flushable, id)
              /\ ~IsFlushable(id) /\ ~shutdown[id] /\ Flushable(Q, max_data[id])
BY Zenon DEF StreamSend

\* The scheduler selects a stream of the queue
LEMMA SelectedQueued ==
    ASSUME Inv2, QueueOK, SelectBlock
    PROVE  /\ cur' \in Members(flushable)
           /\ \E i \in 1..Len(flushable) :
                 flushable[i] = cur' /\ flushable' = SwapRemoveFront(flushable, i)
<1>1. PICK id \in IF DTP THEN DtpChoices ELSE BasicChoices : id # NoId /\ cur' = id /\ TakeOut(id)
  BY DEF SelectBlock
<1>2. id \in Members(flushable)
  <2>1. flushable # <<>>
    BY DEF SelectBlock, Inv2, Inv1, Shape, CallShape
  <2>2. flushable[1] \in Members(flushable) /\ flushable[Len(flushable)] \in Members(flushable)
    BY <2>1, Types2 DEF Members
  <2>3. \A i \in Members(flushable) : Remaining(i)
    BY DEF QueueOK, Queued, Remaining
  <2> QED BY <1>1, <2>2, <2>3 DEF DtpChoices, BasicChoices
<1> QED BY <1>1, <1>2 DEF TakeOut

\* Every step keeps the queue in order
LEMMA QueueStep ==
    ASSUME Plain, Roomy, Inv2, Inv2', QueueOK, EmptyFrames, [Next]_vars
    PROVE  QueueOK'
<1>1. flushable \in Seq(Ids) /\ Members(flushable) \subseteq Ids /\ max_data \in [Ids -> Nat]
      /\ queued \in [Ids -> SUBSET Nat] /\ shutdown \in [Ids -> BOOLEAN]
  BY Types2
<1>2. \A i \in Ids : max_data[i] <= max_data[i]
  BY <1>1
<1>3. CASE Calm
  <2>1. \A i : Queued(i)' <=> Queued(i)
    BY <1>3 DEF Calm, Queued, IsFlushable, Data
  <2>2. NoTwice(flushable)' <=> NoTwice(flushable)
    BY <1>3 DEF Calm, NoTwice
  <2> QED BY <1>3, <2>1, <2>2 DEF Calm, QueueOK
<1>4. CASE UNCHANGED vars
  <2>1. UNCHANGED <<queued, max_data, shutdown, flushable, pc, cur>>
    BY <1>4 DEF vars, streamVars, mapVars, callVars
  <2>2. \A i : Queued(i)' <=> Queued(i)
    BY <2>1 DEF Queued, IsFlushable, Data
  <2>3. NoTwice(flushable)' <=> NoTwice(flushable)
    BY <2>1 DEF NoTwice
  <2> QED BY <2>1, <2>2, <2>3 DEF QueueOK
<1>5. ASSUME NEW id \in Ids, NEW n \in Nat \ {0}, NEW fin \in BOOLEAN, NEW d \in Nat,
             StreamSend(id, n, fin, d)
      PROVE  QueueOK'
  <2>1. UNCHANGED <<shutdown, max_data, pc>> /\ pc = "idle"
    BY <1>5 DEF StreamSend, callVars
  <2>2. queued' = [queued EXCEPT ![id] = queued[id] \cup off[id]..(off'[id] - 1)]
    BY <1>5, WriteEffect DEF Inv2
  <2>3. \A i \in Ids : queued[i] \subseteq queued'[i]
    BY <1>1, <2>2
  <2>4. \/ flushable' = flushable
        \/ flushable' = Append(flushable, id) /\ ~IsFlushable(id) /\ ~shutdown[id]
           /\ Flushable(queued'[id], max_data[id])
    <3>1. off' = [off EXCEPT ![id] = off[id] + Accepted(id, n)] /\ off \in [Ids -> Nat]
      BY <1>5, WriteEffect, Types2 DEF Inv2
    <3>2. off'[id] = off[id] + Accepted(id, n)
      BY ONLY <3>1
    <3>3. queued'[id] = queued[id] \cup off[id]..(off'[id] - 1)
      BY ONLY <1>1, <2>2
    <3>4. n # 0
      OBVIOUS
    <3> QED BY ONLY <1>5, <3>2, <3>3, <3>4, SentQueue
  <2>5. ~shutdown[id] /\ Flushable(queued'[id], max_data[id]) => Queued(id)'
    BY <2>1, FlushableNext DEF Queued, Flushable
  <2> QED BY <1>2, <2>1, <2>3, <2>4, <2>5, QueueGrows
<1>6. ASSUME NEW id \in Ids, StreamShutdown(id) PROVE QueueOK'
  <2>1. /\ UNCHANGED <<queued, max_data, flushable, pc>> /\ pc = "idle"
        /\ shutdown' = [shutdown EXCEPT ![id] = TRUE]
    BY <1>6 DEF StreamShutdown, callVars
  <2>2. \A i \in Ids : shutdown[i] => shutdown'[i]
    BY <1>1, <2>1
  <2> QED BY <1>2, <1>6, <2>1, <2>2, QueueGrows
<1>7. ASSUME NEW id \in Ids, NEW m \in Nat, RecvMaxStreamData(id, m) PROVE QueueOK'
  <2>1. /\ UNCHANGED <<queued, shutdown, pc>> /\ pc = "idle" /\ m > max_data[id]
        /\ max_data' = [max_data EXCEPT ![id] = m]
        /\ \/ flushable' = flushable
           \/ flushable' = Append(flushable, id) /\ ~IsFlushable(id) /\ Flushable(Data(id), m)
    BY <1>7 DEF RecvMaxStreamData, callVars
  <2>2. \A i \in Ids : max_data[i] <= max_data'[i]
    BY <1>1, <1>2, <2>1
  <2>3. Flushable(Data(id), m) => Queued(id)'
    BY <1>1, <2>1, FlushableNext DEF Queued, Flushable, Data
  <2> QED BY <1>7, <2>1, <2>2, <2>3, QueueGrows
<1>8. ASSUME NEW p \in lost, ProcessLost(p) PROVE QueueOK'
  <2>1. pc = "lost" /\ UNCHANGED <<shutdown, max_data>> /\ p \in Outstanding
    BY <1>8 DEF ProcessLost, Outstanding
  <2>2. CASE p.sid # NoId /\ Live(p.sid) /\ PushFails(p)
    <3>1. UNCHANGED <<queued, flushable>> /\ pc' = "idle"
      BY <1>8, <2>2 DEF ProcessLost, Abort
    <3>2. Calm
      BY <2>1, <3>1 DEF Calm
    <3> QED BY <1>3, <3>2
  <2>3. CASE ~(p.sid # NoId /\ Live(p.sid))
    <3>1. UNCHANGED <<queued, flushable, pc>>
      BY <1>8, <2>3 DEF ProcessLost, callVars
    <3>2. Calm
      BY <2>1, <3>1 DEF Calm
    <3> QED BY <1>3, <3>2
  <2>4. CASE p.sid # NoId /\ Live(p.sid) /\ ~PushFails(p)
    <3>1. p.sid \in Ids
      BY <2>1, <2>4, Types2
    <3>2. PICK Q : /\ Q = (IF shutdown[p.sid] \/ AckedUpTo(p.sid, p.end) THEN queued[p.sid]
                           ELSE queued[p.sid] \cup p.bytes)
                   /\ queued' = [queued EXCEPT ![p.sid] = Q]
                   /\ flushable' =
                        IF /\ ~IsFlushable(p.sid)
                           /\ \/ p.bytes = {} /\ p.fin
                              \/ ~shutdown[p.sid] /\ Flushable(Q, max_data[p.sid])
                        THEN Append(flushable, p.sid) ELSE flushable
                   /\ pc' = pc
      BY <1>8, <2>4 DEF ProcessLost, callVars
    <3>3. queued[p.sid] \subseteq Q
      BY <3>2
    <3>4. \A i \in Ids : queued[i] \subseteq queued'[i] /\ queued'[p.sid] = Q
      BY <1>1, <3>1, <3>2, <3>3
    <3>5. p.bytes = {} => shutdown[p.sid] /\ queued[p.sid] # {}
      BY <2>1, <2>4 DEF EmptyFrames
    <3>6. shutdown[p.sid] /\ queued[p.sid] # {} => Queued(p.sid)'
      BY <2>1, <3>1, <3>4 DEF Queued
    <3>7. ~shutdown[p.sid] /\ Flushable(Q, max_data[p.sid]) => Queued(p.sid)'
      BY <2>1, <3>1, <3>4, FlushableNext DEF Queued, Flushable
    <3>8. \/ flushable' = flushable
          \/ flushable' = Append(flushable, p.sid) /\ Queued(p.sid)' /\ ~IsFlushable(p.sid)
      BY <3>2, <3>5, <3>6, <3>7
    <3> QED BY <1>2, <2>1, <3>1, <3>2, <3>4, <3>8, QueueGrows
  <2> QED BY <2>2, <2>3, <2>4
<1>9. CASE DropBlock
  <2> DEFINE b == flushable[idx]
  <2>1. idx \in 1..Len(flushable) /\ b \in Ids /\ ~shutdown[b]
    <3>1. idx \in 1..Len(flushable)
      BY <1>1, <1>9 DEF DropBlock, Inv2, Inv1, TypeOK, Shape, CallShape
    <3> QED BY <1>1, <1>9, <3>1 DEF DropBlock
  <2>2. /\ UNCHANGED <<queued, max_data, pc>> /\ pc = "drop"
        /\ shutdown' = [shutdown EXCEPT ![b] = TRUE]
        /\ flushable' = SwapRemoveBack(flushable, idx)
    BY <1>9 DEF DropBlock
  <2>3. flushable' \in Seq(Ids) /\ Without(flushable, idx, flushable')
    BY <1>1, <2>1, <2>2, BackWithout, SwapRemoveBackType
  <2>4. /\ Members(flushable') \subseteq Members(flushable)
        /\ NoTwice(flushable') /\ b \notin Members(flushable')
    BY <1>1, <2>1, <2>3, WithoutIs DEF QueueOK
  <2> HIDE DEF b
  <2>5. \A i \in Ids : i # b => (Queued(i)' <=> Queued(i))
    BY <1>1, <2>1, <2>2, FlushableNext DEF Queued
  <2>6. \A i \in Members(flushable') : Queued(i)'
    BY <1>1, <2>4, <2>5 DEF QueueOK
  <2>7. NoTwice(flushable)'
    <3>1. \A i \in 1..Len(flushable') : flushable'[i] \in Ids
      BY <2>3
    <3>2. \A i \in Ids : shutdown[i] => shutdown'[i]
      BY <1>1, <2>2
    <3> QED BY <2>4, <3>1, <3>2 DEF NoTwice
  <2> QED BY <2>2, <2>6, <2>7 DEF QueueOK
<1>10. CASE SelectBlock
  <2>1. PICK id : id = cur' /\ id \in Members(flushable)
    BY <1>10, SelectedQueued
  <2>2. UNCHANGED <<queued, max_data, shutdown>> /\ pc' = "fill"
    BY <1>10 DEF SelectBlock, streamVars, Goto
  <2>4. PICK i \in 1..Len(flushable) : flushable[i] = id /\ flushable' = SwapRemoveFront(flushable, i)
    BY <1>10, <2>1, SelectedQueued
  <2>5. flushable' \in Seq(Ids) /\ Without(flushable, i, flushable')
    BY <1>1, <2>4, FrontWithout, SwapRemoveFrontType
  <2>6. /\ Members(flushable') \subseteq Members(flushable) /\ NoTwice(flushable')
        /\ ~shutdown[id] => id \notin Members(flushable')
    BY <1>1, <2>4, <2>5, WithoutIs DEF QueueOK
  <2>7. \A x : Queued(x)' <=> Queued(x)
    BY <2>2 DEF Queued, IsFlushable, Data
  <2>8. NoTwice(flushable)'
    BY <2>2, <2>6 DEF NoTwice
  <2> QED BY <2>1, <2>2, <2>6, <2>7, <2>8 DEF QueueOK
<1>11. CASE FillPacket
  <2> DEFINE B == Popped(cur, StreamRoom)
             D == Data(cur)
  <2>1. /\ cur \in Ids /\ pc = "fill" /\ pc' \in {"peek", "finish"}
        /\ UNCHANGED <<shutdown, max_data, cur>>
        /\ B \subseteq queued[cur] /\ (shutdown[cur] => B = {} /\ D = {})
    BY <1>11, FillEffect, PoppedBytes DEF Inv2, FillPacket, Data
  <2>2. Queued(cur) /\ (shutdown[cur] \/ cur \notin Members(flushable))
    BY <2>1 DEF QueueOK
  <2>3. \/ queued' = queued /\ (flushable' = flushable \/ flushable' = Requeue(D))
        \/ queued' = [queued EXCEPT ![cur] = @ \ B] /\ flushable' = Requeue(D \ B)
    BY <1>11 DEF FillPacket
  <2>4. D = IF shutdown[cur] THEN {} ELSE queued[cur]
    BY DEF Data
  <2> HIDE DEF B, D
  <2>5. \A i \in Ids : i # cur \/ shutdown[i] => (Queued(i)' <=> Queued(i))
    <3>1. \A i \in Ids : i # cur => queued'[i] = queued[i]
      BY <1>1, <2>1, <2>3
    <3>2. shutdown[cur] => queued'[cur] = queued[cur]
      BY <1>1, <2>1, <2>3
    <3> QED BY <2>1, <3>1, <3>2, FlushableNext DEF Queued
  <2>6. \A i \in Members(flushable) : Queued(i)'
    BY <1>1, <2>2, <2>5 DEF QueueOK
  <2>7. \/ flushable' = flushable
        \/ flushable' = Append(flushable, cur) /\ ~shutdown[cur] /\ Queued(cur)'
    <3>1. PICK S : /\ flushable' = flushable \/ flushable' = Requeue(S)
                   /\ IF shutdown[cur] THEN S = {} ELSE S = queued'[cur]
      <4>1. CASE queued' = queued /\ (flushable' = flushable \/ flushable' = Requeue(D))
        BY <2>4, <4>1
      <4>2. CASE queued' = [queued EXCEPT ![cur] = @ \ B] /\ flushable' = Requeue(D \ B)
        <5>1. queued'[cur] = queued[cur] \ B
          BY <1>1, <2>1, <4>2
        <5>2. IF shutdown[cur] THEN D \ B = {} ELSE D \ B = queued'[cur]
          BY <2>4, <5>1
        <5> QED BY ONLY <4>2, <5>2
      <4> QED BY <2>3, <4>1, <4>2
    <3>2. CASE Flushable(S, max_data[cur]) /\ flushable' = Requeue(S)
      <4>1. S # {}
        BY <3>2 DEF Flushable
      <4>2. ~shutdown[cur] /\ S = queued'[cur]
        BY ONLY <3>1, <4>1
      <4>3. shutdown'[cur] = shutdown[cur] /\ max_data'[cur] = max_data[cur]
        BY <2>1
      <4>4. IsFlushable(cur)'
        BY ONLY <2>1, <3>2, <4>2, <4>3, Inv2, Inv2', FlushableNext
      <4>5. flushable' = Append(flushable, cur)
        BY <3>2 DEF Requeue
      <4> QED BY <2>1, <4>1, <4>2, <4>4, <4>5 DEF Queued
    <3>3. CASE ~(Flushable(S, max_data[cur]) /\ flushable' = Requeue(S))
      BY <3>1, <3>3 DEF Requeue
    <3> QED BY <3>2, <3>3
  <2>8. CASE flushable' = flushable
    <3>1. NoTwice(flushable)'
      BY <2>1, <2>8 DEF QueueOK, NoTwice
    <3> QED BY <2>1, <2>6, <2>8, <3>1 DEF QueueOK
  <2>9. CASE flushable' # flushable
    <3>1. flushable' = Append(flushable, cur) /\ cur \notin Members(flushable) /\ Queued(cur)'
      BY <2>2, <2>7, <2>9
    <3>2. Members(flushable') = Members(flushable) \cup {cur} /\ NoTwice(flushable')
      BY <1>1, <2>1, <3>1, AppendIs, NoTwiceAppend DEF QueueOK
    <3>3. NoTwice(flushable)'
      BY <2>1, <3>2 DEF NoTwice
    <3>4. \A i \in Members(flushable') : Queued(i)'
      <4>1. Queued(cur)' /\ cur' = cur
        BY <2>1, <3>1
      <4>2. ASSUME NEW i \in Ids, i = cur PROVE Queued(i)'
        BY <4>1, <4>2 DEF Queued, IsFlushable, Data
      <4> QED BY <2>1, <2>6, <3>2, <4>2
    <3> QED BY <2>1, <3>3, <3>4 DEF QueueOK
  <2> QED BY <2>8, <2>9
<1> QED BY <1>3, <1>4, <1>5, <1>6, <1>7, <1>8, <1>9, <1>10, <1>11, QueueCases

-----------------------------------------------------------------------------
(* Every flushable stream is waiting *)

\* The streams other than the one whose buffer or window a step moves
LEMMA OthersWait ==
    ASSUME Inv2, Inv2', Waiting, NEW id \in Ids, pc # "fill",
           \A i \in Ids : i # id => /\ queued'[i] = queued[i] /\ max_data'[i] = max_data[i]
                                    /\ shutdown'[i] = shutdown[i],
           \A i \in Members(flushable) : i # id => i \in Members(flushable'),
           IsFlushable(id)' => id \in Members(flushable')
    PROVE  Waiting'
<1>1. ASSUME NEW i \in Ids, IsFlushable(i)' PROVE i \in Members(flushable')
  <2>1. CASE i = id
    BY <1>1, <2>1
  <2>2. CASE i # id
    <3>1. IsFlushable(i)
      BY <1>1, <2>2, FlushableNext
    <3> QED BY <2>2, <3>1 DEF Waiting
  <2> QED BY <2>1, <2>2
<1> QED BY <1>1 DEF Waiting

\* Every step leaves the flushable streams in the queue
LEMMA WaitingStep ==
    ASSUME Plain, Roomy, Inv2, Inv2', QueueOK, Waiting, [Next]_vars
    PROVE  Waiting'
<1>1. flushable \in Seq(Ids) /\ Members(flushable) \subseteq Ids /\ max_data \in [Ids -> Nat]
      /\ queued \in [Ids -> SUBSET Nat] /\ shutdown \in [Ids -> BOOLEAN]
  BY Types2
<1>2. CASE Calm \/ UNCHANGED vars
  <2>1. /\ UNCHANGED <<queued, max_data, shutdown, flushable>>
        /\ (pc # "fill" /\ pc' # "fill") \/ (pc' = pc /\ cur' = cur)
    BY <1>2 DEF Calm, vars, streamVars, mapVars, callVars
  <2>2. \A i : IsFlushable(i)' <=> IsFlushable(i)
    BY <2>1 DEF IsFlushable, Data
  <2> QED BY <2>1, <2>2 DEF Waiting
<1>3. ASSUME NEW id \in Ids, NEW n \in Nat \ {0}, NEW fin \in BOOLEAN, NEW d \in Nat,
             StreamSend(id, n, fin, d)
      PROVE  Waiting'
  <2>1. UNCHANGED <<shutdown, max_data, pc>> /\ pc = "idle"
    BY <1>3 DEF StreamSend, callVars
  <2>2. queued' = [queued EXCEPT ![id] = queued[id] \cup off[id]..(off'[id] - 1)]
    BY <1>3, WriteEffect DEF Inv2
  <2>3. /\ \A i \in Ids : i # id => queued'[i] = queued[i]
        /\ queued'[id] = queued[id] \cup off[id]..(off'[id] - 1)
    BY ONLY <1>1, <2>2
  <2>4. off'[id] = off[id] + Accepted(id, n)
    <3>1. off' = [off EXCEPT ![id] = off[id] + Accepted(id, n)] /\ off \in [Ids -> Nat]
      BY <1>3, WriteEffect, Types2 DEF Inv2
    <3> QED BY ONLY <3>1
  <2>5. n # 0
    OBVIOUS
  <2>6. \/ /\ flushable' = flushable
           /\ IsFlushable(id) \/ shutdown[id] \/ ~Flushable(queued'[id], max_data[id])
        \/ flushable' = Append(flushable, id)
    BY ONLY <1>3, <2>3, <2>4, <2>5, SentQueue
  <2>7. IsFlushable(id)' => ~shutdown[id] /\ Flushable(queued'[id], max_data[id])
    BY <2>1, FlushableNext
  <2>8. flushable' = Append(flushable, id) => Members(flushable') = Members(flushable) \cup {id}
    BY <1>1, AppendIs
  <2>9. IsFlushable(id) => id \in Members(flushable)
    BY <2>1 DEF Waiting
  <2> QED BY <2>1, <2>3, <2>6, <2>7, <2>8, <2>9, OthersWait
<1>4. ASSUME NEW id \in Ids, StreamShutdown(id) PROVE Waiting'
  <2>1. /\ UNCHANGED <<queued, max_data, flushable>> /\ pc = "idle"
        /\ shutdown' = [shutdown EXCEPT ![id] = TRUE]
    BY <1>4 DEF StreamShutdown
  <2>2. ~IsFlushable(id)'
    BY <1>1, <2>1, FlushableNext
  <2> QED BY <1>1, <2>1, <2>2, OthersWait
<1>5. ASSUME NEW id \in Ids, NEW m \in Nat, RecvMaxStreamData(id, m) PROVE Waiting'
  <2>1. /\ UNCHANGED <<queued, shutdown>> /\ pc = "idle"
        /\ max_data' = [max_data EXCEPT ![id] = m]
        /\ flushable' = IF Flushable(Data(id), m) /\ ~IsFlushable(id)
                        THEN Append(flushable, id) ELSE flushable
    BY <1>5 DEF RecvMaxStreamData
  <2>2. IsFlushable(id)' => Flushable(Data(id), m)
    BY <1>1, <2>1 DEF IsFlushable, Data
  <2>3. Members(Append(flushable, id)) = Members(flushable) \cup {id}
    BY <1>1, AppendIs
  <2>4. IsFlushable(id) => id \in Members(flushable)
    BY <2>1 DEF Waiting
  <2> QED BY <1>1, <2>1, <2>2, <2>3, <2>4, OthersWait
<1>6. ASSUME NEW p \in lost, ProcessLost(p) PROVE Waiting'
  <2>1. pc = "lost" /\ UNCHANGED <<shutdown, max_data>> /\ p \in Outstanding
    BY <1>6 DEF ProcessLost, Outstanding
  <2>2. CASE p.sid # NoId /\ Live(p.sid) /\ PushFails(p)
    <3>1. UNCHANGED <<queued, flushable>> /\ pc' = "idle"
      BY <1>6, <2>2 DEF ProcessLost, Abort
    <3>2. Calm
      BY <2>1, <3>1 DEF Calm
    <3> QED BY <1>2, <3>2
  <2>3. CASE ~(p.sid # NoId /\ Live(p.sid))
    <3>1. UNCHANGED <<queued, flushable, pc>>
      BY <1>6, <2>3 DEF ProcessLost, callVars
    <3>2. Calm
      BY <2>1, <3>1 DEF Calm
    <3> QED BY <1>2, <3>2
  <2>4. CASE p.sid # NoId /\ Live(p.sid) /\ ~PushFails(p)
    <3>1. p.sid \in Ids
      BY <2>1, <2>4, Types2
    <3>2. PICK Q : /\ queued' = [queued EXCEPT ![p.sid] = Q]
                   /\ flushable' =
                        IF /\ ~IsFlushable(p.sid)
                           /\ \/ p.bytes = {} /\ p.fin
                              \/ ~shutdown[p.sid] /\ Flushable(Q, max_data[p.sid])
                        THEN Append(flushable, p.sid) ELSE flushable
      BY <1>6, <2>4 DEF ProcessLost
    <3>3. queued'[p.sid] = Q /\ \A i \in Ids : i # p.sid => queued'[i] = queued[i]
      BY ONLY <1>1, <3>1, <3>2
    <3>4. IsFlushable(p.sid)' => ~shutdown[p.sid] /\ Flushable(Q, max_data[p.sid])
      BY <2>1, <3>1, <3>3, FlushableNext
    <3>5. Members(Append(flushable, p.sid)) = Members(flushable) \cup {p.sid}
      BY <1>1, <3>1, AppendIs
    <3>6. IsFlushable(p.sid) => p.sid \in Members(flushable)
      BY <2>1, <3>1 DEF Waiting
    <3>7. /\ \A i \in Members(flushable) : i \in Members(flushable')
          /\ IsFlushable(p.sid)' => p.sid \in Members(flushable')
      BY ONLY <3>2, <3>4, <3>5, <3>6
    <3> QED BY <2>1, <3>1, <3>3, <3>7, OthersWait
  <2> QED BY <2>2, <2>3, <2>4
<1>7. CASE DropBlock
  <2> PICK b : b = flushable[idx]
    OBVIOUS
  <2>1. idx \in 1..Len(flushable) /\ b \in Ids
    <3>1. idx \in 1..Len(flushable)
      BY <1>1, <1>7 DEF DropBlock, Inv2, Inv1, TypeOK, Shape, CallShape
    <3> QED BY <1>1, <3>1
  <2>2. /\ UNCHANGED <<queued, max_data>> /\ pc = "drop"
        /\ shutdown' = [shutdown EXCEPT ![b] = TRUE]
        /\ flushable' = SwapRemoveBack(flushable, idx)
    BY <1>7 DEF DropBlock
  <2>3. flushable' \in Seq(Ids) /\ Without(flushable, idx, flushable')
    BY <1>1, <2>1, <2>2, BackWithout, SwapRemoveBackType
  <2>4. \A i \in Members(flushable) : i # b => i \in Members(flushable')
    BY <1>1, <2>1, <2>3, WithoutIs
  <2>5. ~IsFlushable(b)'
    BY <1>1, <2>1, <2>2, FlushableNext
  <2> QED BY <1>1, <2>1, <2>2, <2>4, <2>5, OthersWait
<1>8. CASE SelectBlock
  <2>1. UNCHANGED <<queued, max_data, shutdown>> /\ pc' = "fill" /\ pc = "select"
    BY <1>8 DEF SelectBlock, streamVars, Goto
  <2>2. PICK i \in 1..Len(flushable) : flushable[i] = cur' /\ flushable' = SwapRemoveFront(flushable, i)
    BY <1>8, SelectedQueued
  <2>3. flushable' \in Seq(Ids) /\ Without(flushable, i, flushable')
    BY <1>1, <2>2, FrontWithout, SwapRemoveFrontType
  <2>4. \A x \in Members(flushable) : x # cur' => x \in Members(flushable')
    BY <1>1, <2>2, <2>3, WithoutIs
  <2>5. \A x : IsFlushable(x)' <=> IsFlushable(x)
    BY <2>1 DEF IsFlushable, Data
  <2> QED BY <2>1, <2>4, <2>5 DEF Waiting
<1>9. CASE FillPacket
  <2> DEFINE B == Popped(cur, StreamRoom)
             D == Data(cur)
  <2>1. /\ cur \in Ids /\ pc = "fill" /\ pc' \in {"peek", "finish"}
        /\ UNCHANGED <<shutdown, max_data, cur>>
        /\ B \subseteq queued[cur]
    BY <1>9, FillEffect, PoppedBytes DEF Inv2, FillPacket
  <2>2. \/ queued' = queued /\ flushable' = Requeue(D)
        \/ /\ queued' = queued /\ flushable' = flushable /\ Room > MaxStreamOverhead
           /\ StreamRoom < 0 \/ B = {}
        \/ queued' = [queued EXCEPT ![cur] = @ \ B] /\ flushable' = Requeue(D \ B)
    BY <1>9 DEF FillPacket
  <2>3. D = IF shutdown[cur] THEN {} ELSE queued[cur]
    BY DEF Data
  <2>4. Room > MaxStreamOverhead /\ (StreamRoom < 0 \/ B = {}) => ~IsFlushable(cur)
    BY <2>1, FrameRoom, PoppedSome
  <2> HIDE DEF B, D
  <2>5. IsFlushable(cur)' => cur \in Members(flushable')
    <3> SUFFICES ASSUME ~shutdown[cur], Flushable(queued'[cur], max_data[cur])
                 PROVE  cur \in Members(flushable')
      BY <2>1, FlushableNext
    <3>1. CASE queued' = queued /\ flushable' = flushable /\ ~IsFlushable(cur)
      BY <2>1, <3>1, FlushableNext
    <3>2. CASE flushable' = Requeue(queued'[cur])
      BY <1>1, <2>1, <3>2, AppendIs DEF Requeue
    <3>3. queued' = [queued EXCEPT ![cur] = @ \ B] => queued'[cur] = queued[cur] \ B
      BY <1>1, <2>1
    <3> QED BY <2>2, <2>3, <2>4, <3>1, <3>2, <3>3
  <2>6. \A x \in Members(flushable) : x \in Members(flushable')
    <3>1. flushable' = flushable \/ flushable' = Append(flushable, cur)
      BY <2>2 DEF Requeue
    <3>2. Members(Append(flushable, cur)) = Members(flushable) \cup {cur}
      BY <1>1, <2>1, AppendIs
    <3> QED BY ONLY <3>1, <3>2
  <2>7. ASSUME NEW x \in Ids, x # cur, IsFlushable(x)' PROVE x \in Members(flushable')
    <3>1. queued'[x] = queued[x]
      BY <1>1, <2>1, <2>2, <2>7
    <3>2. IsFlushable(x)
      BY <2>1, <2>7, <3>1, FlushableNext
    <3> QED BY <2>6, <2>7, <3>2 DEF Waiting
  <2>8. \A x \in Ids : IsFlushable(x)' => x \in Members(flushable')
    <3> SUFFICES ASSUME NEW x \in Ids, IsFlushable(x)' PROVE x \in Members(flushable')
      OBVIOUS
    <3>1. CASE x = cur
      <4>1. IsFlushable(cur)'
        BY <2>1, <3>1 DEF IsFlushable, Data
      <4> QED BY <2>5, <3>1, <4>1
    <3> QED BY <2>7, <3>1
  <2> QED BY <2>8 DEF Waiting
<1> QED BY <1>2, <1>3, <1>4, <1>5, <1>6, <1>7, <1>8, <1>9, QueueCases

-----------------------------------------------------------------------------
(* Without shutdowns by the application *)

\* Every step keeps the streams that wait, and those with a frame, open
LEMMA NotShutStep ==
    ASSUME Plain, Roomy, ~AppShutdown, Inv2, Inv2', QueueOK, NotShut, [Next]_vars
    PROVE  NotShut'
<1>1. flushable \in Seq(Ids) /\ Members(flushable) \subseteq Ids /\ shutdown \in [Ids -> BOOLEAN]
  BY Types2
<1>2. ASSUME NEW q \in Outstanding', q.sid # NoId PROVE q.bytes # {}
  <2>1. CASE q \in Outstanding
    BY <1>2, <2>1 DEF NotShut
  <2>2. CASE q \notin Outstanding
    <3>1. pc = "fill" /\ (q.bytes = {} => shutdown[cur])
      BY <1>2, <2>2, NewFrames
    <3> QED BY <3>1 DEF NotShut
  <2> QED BY <2>1, <2>2
<1>3. ASSUME NEW id \in Ids, UNCHANGED shutdown, pc' # "fill",
             \/ flushable' = flushable
             \/ flushable' = Append(flushable, id) /\ ~shutdown[id]
      PROVE  NotShut'
  <2>1. Members(Append(flushable, id)) = Members(flushable) \cup {id}
    BY <1>1, AppendIs
  <2>2. \A i \in Members(flushable') : ~shutdown[i]
    BY <1>3, <2>1 DEF NotShut
  <2> QED BY <1>2, <1>3, <2>2 DEF NotShut
<1>4. CASE Calm
  BY <1>2, <1>4 DEF Calm, NotShut
<1>5. CASE UNCHANGED vars
  BY <1>2, <1>5 DEF vars, streamVars, mapVars, callVars, NotShut
<1>6. ASSUME NEW id \in Ids, NEW n \in Nat \ {0}, NEW fin \in BOOLEAN, NEW d \in Nat,
             StreamSend(id, n, fin, d)
      PROVE  NotShut'
  <2>1. UNCHANGED shutdown /\ pc' # "fill"
    BY <1>6 DEF StreamSend, callVars
  <2>2. flushable' = flushable \/ (flushable' = Append(flushable, id) /\ ~shutdown[id])
    <3>1. n # 0
      OBVIOUS
    <3> QED BY <1>6, <3>1, SentQueue
  <2> QED BY <1>3, <2>1, <2>2
<1>7. ASSUME NEW id \in Ids, NEW m \in Nat, RecvMaxStreamData(id, m) PROVE NotShut'
  <2>1. UNCHANGED shutdown /\ pc' # "fill"
    BY <1>7 DEF RecvMaxStreamData, callVars
  <2>2. flushable' = flushable \/ (flushable' = Append(flushable, id) /\ Flushable(Data(id), m))
    BY <1>7 DEF RecvMaxStreamData
  <2>3. Flushable(Data(id), m) => ~shutdown[id]
    BY DEF Flushable, Data
  <2> QED BY <1>3, <2>1, <2>2, <2>3
<1>8. ASSUME NEW p \in lost, ProcessLost(p) PROVE NotShut'
  <2>1. UNCHANGED shutdown /\ pc' \in {"lost", "idle"} /\ p \in Outstanding
    BY <1>8 DEF ProcessLost, callVars, Abort, Outstanding
  <2>2. CASE p.sid # NoId
    <3>1. p.sid \in Ids /\ p.bytes # {}
      BY <2>1, <2>2, Types2 DEF NotShut
    <3>2. flushable' = flushable \/ (flushable' = Append(flushable, p.sid) /\ ~shutdown[p.sid])
      BY <1>8, <3>1, Zenon DEF ProcessLost
    <3> QED BY <1>3, <2>1, <3>1, <3>2
  <2>3. CASE p.sid = NoId
    <3>1. flushable' = flushable
      BY <1>8, <2>3 DEF ProcessLost
    <3> QED BY <1>2, <2>1, <3>1 DEF NotShut
  <2> QED BY <2>2, <2>3
<1>9. CASE DropBlock
  <2> PICK b : b = flushable[idx]
    OBVIOUS
  <2>1. idx \in 1..Len(flushable) /\ ~shutdown[b] /\ pc' = "drop"
    BY <1>1, <1>9 DEF DropBlock, Inv2, Inv1, TypeOK, Shape, CallShape
  <2>2. /\ shutdown' = [shutdown EXCEPT ![b] = TRUE]
        /\ flushable' = SwapRemoveBack(flushable, idx)
    BY <1>9 DEF DropBlock
  <2>3. flushable' \in Seq(Ids) /\ Without(flushable, idx, flushable')
    BY <1>1, <2>1, <2>2, BackWithout, SwapRemoveBackType
  <2>4. Members(flushable') \subseteq Members(flushable) /\ b \notin Members(flushable')
    BY <1>1, <2>1, <2>3, WithoutIs DEF QueueOK
  <2>5. \A i \in Members(flushable') : ~shutdown'[i]
    BY <1>1, <2>2, <2>4 DEF NotShut
  <2> QED BY <1>2, <2>1, <2>5 DEF NotShut
<1>10. CASE SelectBlock
  <2>1. UNCHANGED shutdown /\ cur' \in Members(flushable)
    BY <1>10, SelectedQueued DEF SelectBlock, streamVars
  <2>2. PICK i \in 1..Len(flushable) : flushable[i] = cur' /\ flushable' = SwapRemoveFront(flushable, i)
    BY <1>10, SelectedQueued
  <2>3. flushable' \in Seq(Ids) /\ Without(flushable, i, flushable')
    BY <1>1, <2>2, FrontWithout, SwapRemoveFrontType
  <2>4. Members(flushable') \subseteq Members(flushable)
    BY <1>1, <2>3, WithoutIs
  <2> QED BY <1>2, <2>1, <2>4 DEF NotShut
<1>11. CASE FillPacket
  <2>1. cur \in Ids /\ UNCHANGED shutdown /\ pc' \in {"peek", "finish"} /\ ~shutdown[cur]
    BY <1>11, FillEffect DEF Inv2, FillPacket, NotShut
  <2>2. flushable' = flushable \/ flushable' = Append(flushable, cur)
    BY <1>11 DEF FillPacket, Requeue
  <2> QED BY <1>3, <2>1, <2>2
<1>12. \A id \in Ids : ~StreamShutdown(id)
  BY DEF StreamShutdown
<1> QED BY <1>4, <1>5, <1>6, <1>7, <1>8, <1>9, <1>10, <1>11, <1>12, QueueCases

-----------------------------------------------------------------------------
(* Deadlines *)

\* Every step keeps what the drop loop found out: the clock does not move while
\* send() runs
LEMMA ExpiryStep ==
    ASSUME Plain, Roomy, Inv2, Inv2', QueueOK, ExpiryOK, [Next]_vars
    PROVE  ExpiryOK'
<1> SUFFICES ASSUME DTP PROVE ExpiryOK'
  BY DEF ExpiryOK
<1>1. /\ flushable \in Seq(Ids) /\ Members(flushable) \subseteq Ids /\ Len(flushable) \in Nat
      /\ expires \in [Ids -> Nat] /\ now \in Nat /\ idx \in Nat
  BY Types2
<1>2. ASSUME pc' \notin {"drop", "select", "fill"}, pc' = "finish" => pkt'.sid = NoId
      PROVE  ExpiryOK'
  BY <1>2 DEF ExpiryOK
<1>3. CASE AppStep \/ PeerStep \/ Acknowledge \/ Lose \/ Tick \/ NothingToSend
  <2>1. pc' = "idle"
    <3>1. \A id, n, fin, d : StreamSend(id, n, fin, d) => pc' = "idle"
      BY DEF StreamSend, callVars
    <3>2. \A id, m : RecvMaxStreamData(id, m) => pc' = "idle"
      BY DEF RecvMaxStreamData, callVars
    <3>3. \A id : StreamShutdown(id) \/ RecvLateMaxStreamData(id) \/ RecvMaxData(id) => pc' = "idle"
      BY DEF StreamShutdown, RecvLateMaxStreamData, RecvMaxData, callVars
    <3>4. \A p : AckPacket(p) => pc' = "idle"
      BY DEF AckPacket, callVars
    <3>5. \A p : LosePacket(p) => pc' = "idle"
      BY DEF LosePacket, callVars
    <3>6. Tick \/ NothingToSend => pc' = "idle"
      BY DEF Tick, NothingToSend, callVars
    <3> QED BY <1>3, <3>1, <3>2, <3>3, <3>4, <3>5, <3>6 DEF AppStep, PeerStep, Acknowledge, Lose
  <2> QED BY <1>2, <2>1
<1>4. CASE SendStep
  <2>1. pc # "finish" => pkt.sid = NoId
    BY DEF Inv2, Inv1, Shape, CallShape
  <2>2. CASE BeginSend \/ NoRoom \/ ResetDone \/ EnterStreamLoop \/ DropFails \/ FinishPacket
    <3>1. pc' \in {"lost", "idle", "window", "peek"} \/ (pc' = "finish" /\ pc = "window" /\ pkt' = pkt)
      BY <2>2 DEF BeginSend, NoRoom, ResetDone, EnterStreamLoop, DropFails, FinishPacket, Abort, Goto
    <3> QED BY <1>2, <2>1, <3>1
  <2>3. CASE StartPacket
    <3>1. pc' \in {"reset", "finish"} /\ \E n : pkt' = [EmptyPkt EXCEPT !.pn = n]
      BY <2>3 DEF StartPacket, Goto
    <3> QED BY <1>2, <3>1 DEF EmptyPkt
  <2>4. ASSUME NEW p \in lost, ProcessLost(p) PROVE ExpiryOK'
    <3>1. pc' \in {"lost", "idle"}
      BY <2>4 DEF ProcessLost, callVars, Abort
    <3> QED BY <1>2, <3>1
  <2>5. ASSUME NEW id, ResetCanceled(id) PROVE ExpiryOK'
    <3>1. pc' \in {"reset", "window"}
      BY <2>5 DEF ResetCanceled, Goto
    <3> QED BY <1>2, <3>1
  <2>6. CASE Peek
    <3>1. UNCHANGED <<flushable, now, pkt>> /\ pc = "peek"
      BY <2>6 DEF Peek, mapVars
    <3>2. pc' = "finish" \/ (pc' = "drop" /\ idx' = Len(flushable))
      BY <2>6 DEF Peek, Goto
    <3>3. CASE pc' = "drop"
      <4>1. (idx' + 1)..Len(flushable') = {}
        BY <1>1, <3>1, <3>2, <3>3
      <4> QED BY <3>3, <4>1 DEF ExpiryOK
    <3> QED BY <1>2, <2>1, <3>1, <3>2, <3>3
  <2>7. CASE DropBlock
    <3>1. /\ UNCHANGED <<now, expires, pc>> /\ pc = "drop" /\ idx' = idx - 1
          /\ idx \in 1..Len(flushable) /\ flushable' = SwapRemoveBack(flushable, idx)
      BY <1>1, <2>7 DEF DropBlock, Inv2, Inv1, TypeOK, Shape, CallShape
    <3>2. Len(flushable') = Len(flushable) - 1
      BY <1>1, <3>1, SwapRemoveBackType
    <3>3. \A j \in (idx + 1)..Len(flushable) : now <= expires[flushable[j]]
      BY <3>1 DEF ExpiryOK
    <3>4. ASSUME NEW j \in (idx' + 1)..Len(flushable') PROVE now <= expires[flushable'[j]]
      <4>1. j \in idx..(Len(flushable) - 1)
        BY <3>1, <3>2
      <4>2. flushable'[j] = IF j = idx THEN flushable[Len(flushable)] ELSE flushable[j]
        BY <1>1, <3>1, <4>1 DEF SwapRemoveBack
      <4>3. Len(flushable) \in (idx + 1)..Len(flushable) /\ (j # idx => j \in (idx + 1)..Len(flushable))
        BY <1>1, <3>1, <4>1
      <4> QED BY <3>3, <4>2, <4>3
    <3> QED BY <3>1, <3>4 DEF ExpiryOK
  <2>8. CASE KeepBlock
    <3>1. /\ UNCHANGED <<now, expires, pc, flushable>> /\ pc = "drop" /\ idx' = idx - 1
          /\ idx \in 1..Len(flushable) /\ ~(now > expires[flushable[idx]])
      BY <1>1, <2>8 DEF KeepBlock, ShouldDrop, streamVars, mapVars, Inv2, Inv1, Shape, CallShape
    <3>2. flushable[idx] \in Ids /\ expires[flushable[idx]] \in Nat
      BY <1>1, <3>1
    <3>3. \A j \in (idx + 1)..Len(flushable) : now <= expires[flushable[j]]
      BY <3>1 DEF ExpiryOK
    <3>4. \A j \in (idx' + 1)..Len(flushable) : j = idx \/ j \in (idx + 1)..Len(flushable)
      BY <1>1, <3>1
    <3>5. now <= expires[flushable[idx]]
      BY <1>1, <3>1, <3>2
    <3> QED BY <3>1, <3>3, <3>4, <3>5 DEF ExpiryOK
  <2>9. CASE DropDone
    <3>1. /\ UNCHANGED <<now, expires, flushable, pkt>> /\ pc = "drop" /\ idx = 0
          /\ pc' \in {"finish", "select"}
      BY <2>9 DEF DropDone, streamVars, mapVars, Goto
    <3>2. \A j \in 1..Len(flushable) : now <= expires[flushable[j]]
      BY <3>1 DEF ExpiryOK
    <3>3. \A id \in Members(flushable) : now <= expires[id]
      BY <1>1, <3>2 DEF Members
    <3>4. CASE pc' = "select"
      BY <3>1, <3>3, <3>4 DEF ExpiryOK
    <3> QED BY <1>2, <2>1, <3>1, <3>4
  <2>10. CASE SelectBlock
    <3>1. UNCHANGED <<now, expires>> /\ pc = "select" /\ pc' = "fill" /\ cur' \in Members(flushable)
      BY <2>10, SelectedQueued DEF SelectBlock, streamVars, Goto
    <3> QED BY <3>1 DEF ExpiryOK
  <2>11. CASE FillPacket
    <3>1. UNCHANGED <<now, expires>> /\ pc = "fill" /\ pc' \in {"peek", "finish"}
      BY <2>11 DEF FillPacket, Goto
    <3>2. InfoPkt \in Packet /\ InfoPkt.sid = NoId
      BY <2>11, FillEffect DEF Inv2
    <3>3. \/ pkt' = InfoPkt
          \/ \E e : pkt' = [InfoPkt EXCEPT !.sid = cur, !.bytes = Popped(cur, StreamRoom),
                                            !.end = e, !.fin = (fin_off[cur] = e)]
      BY <2>11 DEF FillPacket
    <3>4. pkt'.sid = NoId \/ pkt'.sid = cur
      BY <3>2, <3>3 DEF Packet
    <3>5. now <= expires[cur]
      BY <3>1 DEF ExpiryOK
    <3> QED BY <3>1, <3>4, <3>5 DEF ExpiryOK
  <2> QED BY <1>4, <2>2, <2>3, <2>4, <2>5, <2>6, <2>7, <2>8, <2>9, <2>10, <2>11, NoPanicStep DEF SendStep
<1>5. CASE UNCHANGED vars
  BY <1>5 DEF vars, streamVars, mapVars, callVars, ExpiryOK
<1> QED BY <1>3, <1>4, <1>5 DEF Next

-----------------------------------------------------------------------------
(* The theorems *)

\* The initial state has an empty queue and no frames
LEMMA QueueInit ==
    Init => Inv2 /\ QueueOK /\ EmptyFrames /\ Waiting /\ NotShut /\ ExpiryOK
<1> SUFFICES ASSUME Init
             PROVE  Inv2 /\ QueueOK /\ EmptyFrames /\ Waiting /\ NotShut /\ ExpiryOK
  OBVIOUS
<1>1. Inv2
  <2>1. OnePlace
    BY DEF Init, OnePlace, Outstanding, EmptyPkt
  <2> QED BY <2>1, Inv1Init DEF Inv2
<1>2. flushable = <<>> /\ pc = "idle" /\ Members(flushable) = {} /\ Len(flushable) = 0
  BY DEF Init, Members
<1>3. \A p \in Outstanding : p.sid = NoId
  BY DEF Init, Outstanding, EmptyPkt
<1>4. \A id \in Ids : ~IsFlushable(id)
  BY DEF Init, IsFlushable, Flushable, Data
<1>5. NoTwice(flushable)
  BY <1>2 DEF NoTwice
<1> QED BY <1>1, <1>2, <1>3, <1>4, <1>5 DEF QueueOK, EmptyFrames, Waiting, NotShut, ExpiryOK

\* Every step keeps what the queue rests on
LEMMA Inv2Step == Inv2 /\ [Next]_vars => Inv2'
BY Inv1Step, OnePlaceStep DEF Inv2

\* The unwrap()s of peek_flushable and of the STREAM loop, get_block() of a
\* queued stream and last_block_id of the scheduler, never fail.
THEOREM NoPanicCorrect ==
    ASSUME Plain
    PROVE  Spec /\ []Roomy => []NoPanic
<1> DEFINE I == Inv2 /\ QueueOK /\ EmptyFrames
<1>1. Init => I
  BY QueueInit
<1>2. I /\ Roomy /\ [Next]_vars => I'
  BY Inv2Step, QueueStep, EmptyFramesStep
<1>3. I => NoPanic
  BY DEF QueueOK, NoPanic
<1> QED BY <1>1, <1>2, <1>3, PTL DEF Spec

\* should_drop_block takes an expired block out before select_block chooses:
\* no packet carries data of a block whose deadline has passed.
THEOREM NoExpiredCorrect ==
    ASSUME Plain
    PROVE  Spec /\ []Roomy => []NoExpiredData
<1> DEFINE I == Inv2 /\ QueueOK /\ EmptyFrames /\ ExpiryOK
<1>1. Init => I
  BY QueueInit
<1>2. I /\ Roomy /\ [Next]_vars => I'
  BY Inv2Step, QueueStep, EmptyFramesStep, ExpiryStep
<1>3. I => NoExpiredData
  <2> SUFFICES ASSUME I, DTP, pc = "finish", pkt.bytes # {} PROVE now <= expires[pkt.sid]
    BY DEF NoExpiredData
  <2>1. pkt.sid # NoId
    BY DEF Inv2, Inv1, Shape, PacketShape, FrameOK
  <2> QED BY <2>1 DEF ExpiryOK
<1> QED BY <1>1, <1>2, <1>3, PTL DEF Spec

\* The four places that push to the queue and the two that pop from it agree:
\* between calls a stream is in it once if it has data inside its window and not
\* at all otherwise, when the application shuts no stream down.
THEOREM QueueCorrect ==
    ASSUME Plain, ~AppShutdown
    PROVE  Spec /\ []Roomy => []QueueExact
<1> DEFINE I == Inv2 /\ QueueOK /\ EmptyFrames /\ Waiting /\ NotShut
<1>1. Init => I
  BY QueueInit
<1>2. I /\ Roomy /\ [Next]_vars => I'
  BY Inv2Step, QueueStep, EmptyFramesStep, WaitingStep, NotShutStep
<1>3. I => QueueExact
  <2> SUFFICES ASSUME I, pc = "idle", NEW id \in Ids
               PROVE  Cardinality({i \in DOMAIN flushable : flushable[i] = id})
                          = IF Live(id) /\ IsFlushable(id) THEN 1 ELSE 0
    BY DEF QueueExact
  <2> DEFINE S == {i \in DOMAIN flushable : flushable[i] = id}
  <2>1. flushable \in Seq(Ids) /\ DOMAIN flushable = 1..Len(flushable)
    BY Types2
  <2>2. CASE id \in Members(flushable)
    <3>1. ~shutdown[id] /\ IsFlushable(id) /\ Live(id)
      BY <2>2, FlushableIs DEF NotShut, QueueOK, Queued
    <3>2. PICK i \in DOMAIN flushable : flushable[i] = id
      BY <2>2 DEF Members
    <3>3. \A j \in DOMAIN flushable : flushable[j] = id => j = i
      BY <2>1, <3>1, <3>2 DEF QueueOK, NoTwice
    <3>4. S = {i}
      BY <3>2, <3>3
    <3>5. Cardinality(S) = 1
      BY <3>4, FS_Singleton
    <3> QED BY <3>1, <3>5
  <2>3. CASE id \notin Members(flushable)
    <3>1. S = {}
      BY <2>3 DEF Members
    <3>2. ~IsFlushable(id)
      BY <2>3 DEF Waiting
    <3>3. Cardinality(S) = 0
      BY <3>1, FS_EmptySet
    <3> QED BY <3>2, <3>3
  <2> QED BY <2>2, <2>3
<1> QED BY <1>1, <1>2, <1>3, PTL DEF Spec

=============================================================================
