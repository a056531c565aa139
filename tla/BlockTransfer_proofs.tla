------------------------ MODULE BlockTransfer_proofs ------------------------
(***************************************************************************)
(* BlockTransfer implements BlockDelivery, for every value of the          *)
(* constants: whatever the network drops, delays and reorders and whatever *)
(* the sender takes for lost, the receiving application reads a prefix of  *)
(* what was written, a block is closed only when it was read to its end,   *)
(* and the sender forgets it only when all of it has arrived.              *)
(*                                                                         *)
(* The invariant joins the two endpoints' own invariants (Inv1 of          *)
(* BlockSender_proofs, IInv and Delivered of BlockReceiver_proofs) by what *)
(* the packets between them say: PacketsSound, Numbered, Arrived and Ends. *)
(***************************************************************************)
EXTENDS BlockTransfer, BlockSender_proofs

\* The receiver's invariant and its lemmas
RP == INSTANCE BlockReceiver_proofs WITH
    st <- r_st, data <- r_data, off <- r_off, len <- r_len, max_data <- r_max_data,
    max_data_next <- r_max_data_next, fin_off <- r_fin_off, drain <- r_drain,
    info <- r_info, good_recv <- r_good_recv, readable <- r_readable,
    almost_full <- r_almost_full, opened <- r_opened, max_streams <- r_max_streams,
    max_streams_next <- r_max_streams_next, rx_data <- r_rx_data,
    max_rx_data <- r_max_rx_data, max_rx_data_next <- r_max_rx_data_next,
    error <- r_error, pc <- r_pc, cur <- r_cur, buf <- r_buf, tmp <- r_tmp,
    todo <- r_todo, cap <- r_cap, reaches <- r_reaches,
    peer_max_data <- r_peer_max_data, peer_max_streams <- r_peer_max_streams,
    peer_max_stream <- r_peer_max_stream, got <- r_got,
    Frames <- {}, Retransmit <- TRUE, Resets <- TRUE, Infos <- TRUE,
    AppShutdown <- FALSE, InitMaxData <- InitMaxTx,
    InitMaxStreams <- Cardinality(Ids), Lefts <- RLefts, LossyControl <- FALSE,
    UsizeMod <- 64, EvalLimit <- 0

-----------------------------------------------------------------------------
\* Blocks are written whole, in one call
WholeBlocks ==
    \A id \in Ids : /\ InitStreamMax <= max_data[id]
                    /\ off[id] \in {0, BlockLen}
                    /\ st[id] # "none" => off[id] = BlockLen

\* Frame(p) tells a receiver the bytes of p
FrameTells(p) == RP!Fits(Frame(p)) /\ RP!Bytes(Frame(p)) = p.bytes

\* What a packet says stays true: its RESET_STREAM frames are of canceled blocks,
\* its STREAM frame is a run of bytes of a written block
Sound(p) ==
    /\ p \in Packet
    /\ \A r \in p.resets : shutdown[r[1]] /\ r[2] = BlockLen
    /\ p.sid # NoId => /\ off[p.sid] = BlockLen
                       /\ FrameTells(p)
                       /\ p.fin => fin_off[p.sid] # NoFin

PacketsSound == Sound(pkt) /\ Sound(arriving) /\ \A p \in net : Sound(p)

\* send() has begun a packet
Composing == {"reset", "window", "peek", "drop", "select", "fill", "finish"}

\* A packet number stands for one packet until its fate is settled; a packet on
\* the way whose number is still used is the one the sender remembers
Numbered ==
    /\ \A p, q \in sent : p.pn = q.pn => p = q
    /\ \A p \in sent : p.pn # 0
    /\ pkt.pn # 0 => \A p \in sent : p.pn # pkt.pn
    /\ pc \in Composing => pkt.pn # 0
    /\ \A p \in net : p.pn # 0 => p \in sent /\ p.pn \notin accepted /\ p.pn # arriving.pn
    /\ arriving.pn # 0 => arriving.pn \notin accepted /\ \E p \in sent : p.pn = arriving.pn
    /\ \A n \in accepted : n # 0 /\ \E p \in sent : p.pn = n

\* What was acknowledged has arrived, and so has what is about to be
Arrived ==
    /\ \A id \in Ids : acked[id] \subseteq r_got[id] /\ r_got[id] \subseteq 0..(off[id] - 1)
    /\ \A p \in sent : p.sid # NoId =>
         /\ p.pn \in accepted => p.bytes \subseteq r_got[p.sid]
         /\ p.pn = arriving.pn => \/ arriving.sid = p.sid /\ arriving.bytes = p.bytes
                                  \/ p.bytes \subseteq r_got[p.sid]
                                  \/ r_error # "none"

\* The receiver learns the end of a block from its sender
Ends ==
    \A id \in Ids : ~r_drain[id] /\ r_fin_off[id] # RP!NoFin =>
        fin_off[id] # NoFin /\ off[id] = BlockLen

TInv ==
    /\ Inv1 /\ RP!IInv /\ RP!Delivered
    /\ WholeBlocks /\ PacketsSound /\ Numbered /\ Arrived /\ Ends

-----------------------------------------------------------------------------
(* The constants *)

\* What the receiver's lemmas assume of its constants
LEMMA ReceiverConstants == RP!ConstantsAssumption
<1>1. IsFiniteSet(Ids) /\ Cardinality(Ids) \in Nat
  BY TransferAssumption, FS_CardinalityType
<1>2. BlockLen \in Nat
  BY TransferAssumption, ConstantsAssumption
<1>3. RLefts \subseteq Nat /\ \A l \in RLefts : l < 64
  BY TransferAssumption
<1> QED BY <1>1, <1>2, <1>3, TransferAssumption, ConstantsAssumption
       DEF RP!ConstantsAssumption, RP!IsFiniteSet, IsFiniteSet

\* Blocks are not empty
LEMMA Lengths == BlockLen \in Nat /\ BlockLen > 0 /\ Sizes = {BlockLen} /\ InitStreamMax >= BlockLen /\ InitStreamMax \in Nat
BY TransferAssumption, ConstantsAssumption

\* Which BlockReceiver's handlers are meant
LEMMA SameReceiver ==
    /\ \A id, f : R!RecvStream(id, f) <=> RP!RecvStream(id, f)
    /\ \A id, f : R!RecvStreamError(id, f) <=> RP!RecvStreamError(id, f)
    /\ \A id : R!RecvInfo(id) <=> RP!RecvInfo(id)
    /\ \A id : R!RecvReset(id) <=> RP!RecvReset(id)
    /\ R!PushStep <=> RP!PushStep
    /\ R!ReadStep <=> RP!ReadStep
    /\ R!CreditStep <=> RP!CreditStep
    /\ R!Init <=> RP!Init
<1>1. \A id, f : R!RecvStream(id, f) <=> RP!RecvStream(id, f)
  BY DEF R!RecvStream, RP!RecvStream, R!limitVars, RP!limitVars, R!NoChunk, RP!NoChunk,
     R!Bytes, RP!Bytes, R!Marked, RP!Marked, R!Open, RP!Open, R!FrameError, RP!FrameError,
     R!Stores, RP!Stores, R!Trim, RP!Trim, R!ReadyAt, RP!ReadyAt, R!LimitHit, RP!LimitHit,
     R!PushError, RP!PushError, R!OverLimit, RP!OverLimit, R!NoFin, RP!NoFin, R!Empty,
     RP!Empty, R!TailFrom, RP!TailFrom
<1>2. \A id, f : R!RecvStreamError(id, f) <=> RP!RecvStreamError(id, f)
  BY DEF R!RecvStreamError, RP!RecvStreamError, R!flowVars, RP!flowVars, R!callVars,
     RP!callVars, R!limitVars, RP!limitVars, R!Open, RP!Open, R!OverLimit, RP!OverLimit,
     R!FrameError, RP!FrameError, R!LimitHit, RP!LimitHit, R!PushError, RP!PushError,
     R!NoFin, RP!NoFin
<1>3. \A id : R!RecvInfo(id) <=> RP!RecvInfo(id)
  BY DEF R!RecvInfo, RP!RecvInfo, R!flowVars, RP!flowVars, R!callVars, RP!callVars,
     R!limitVars, RP!limitVars, R!LimitHit, RP!LimitHit, R!Open, RP!Open
<1>4. \A id : R!RecvReset(id) <=> RP!RecvReset(id)
  BY DEF R!RecvReset, RP!RecvReset, R!callVars, RP!callVars, R!limitVars, RP!limitVars,
     R!NoFin, RP!NoFin, R!LimitHit, RP!LimitHit, R!Open, RP!Open
<1>5. R!PushStep <=> RP!PushStep
  BY DEF R!PushStep, RP!PushStep, R!PushContained, RP!PushContained, R!PushCut, RP!PushCut,
     R!StoreChunk, RP!StoreChunk, R!streamVars, RP!streamVars, R!flowVars, RP!flowVars,
     R!limitVars, RP!limitVars, R!NoChunk, RP!NoChunk, R!Marked, RP!Marked, R!mapVars,
     RP!mapVars, R!CutBuf, RP!CutBuf, R!CutTmp, RP!CutTmp, R!Trim, RP!Trim, R!ReadyAt,
     RP!ReadyAt, R!TailFrom, RP!TailFrom, R!HeadTo, RP!HeadTo, R!StartOverlaps,
     RP!StartOverlaps, R!EndOverlaps, RP!EndOverlaps
<1>6. R!ReadStep <=> RP!ReadStep
  BY DEF R!ReadStep, RP!ReadStep, R!StreamRecv, RP!StreamRecv, R!PopChunk, RP!PopChunk,
     R!PopDone, RP!PopDone, R!streamVars, RP!streamVars, R!mapVars, RP!mapVars, R!flowVars,
     RP!flowVars, R!limitVars, RP!limitVars, R!Live, RP!Live, R!Ready, RP!Ready, R!TailFrom,
     RP!TailFrom, R!Lowest, RP!Lowest, R!TooLong, RP!TooLong, R!AlmostFull, RP!AlmostFull,
     R!Collect, RP!Collect, R!ReadyAt, RP!ReadyAt, R!NoFin, RP!NoFin
<1>7. R!CreditStep <=> RP!CreditStep
  BY DEF R!CreditStep, RP!CreditStep, R!SendCredit, RP!SendCredit, R!Advertise,
     RP!Advertise, R!CreditDone, RP!CreditDone, R!streamVars, RP!streamVars,
     R!ShouldUpdateMaxData, RP!ShouldUpdateMaxData, R!ShouldUpdateMaxStreams,
     RP!ShouldUpdateMaxStreams, R!NeedsUpdate, RP!NeedsUpdate, R!StreamsFrames,
     RP!StreamsFrames, R!Committed, RP!Committed, R!flowVars, RP!flowVars, R!Live, RP!Live,
     R!mapVars, RP!mapVars, R!limitVars, RP!limitVars
<1>8. R!Init <=> RP!Init
  BY DEF R!Init, RP!Init, R!NoFin, RP!NoFin, R!NoChunk, RP!NoChunk
<1> QED BY <1>1, <1>2, <1>3, <1>4, <1>5, <1>6, <1>7, <1>8

-----------------------------------------------------------------------------
(* What the calls of the sender do to the blocks *)

\* The application writes a block; the application or the scheduler cancels it
Written(id) ==
    /\ st[id] = "none" /\ off[id] = 0 /\ fin_off[id] = NoFin /\ ~shutdown[id]
    /\ st' = [st EXCEPT ![id] = "live"] /\ off' = [off EXCEPT ![id] = BlockLen]
    /\ \E f \in {NoFin, BlockLen} : fin_off' = [fin_off EXCEPT ![id] = f]
    /\ UNCHANGED <<max_data, shutdown, acked, sent>>
Canceled(id) ==
    /\ shutdown' = [shutdown EXCEPT ![id] = TRUE]
    /\ UNCHANGED <<st, off, fin_off, max_data, acked, sent>>

\* What no step of the sender takes back
Stable ==
    \A id \in Ids : /\ shutdown[id] => shutdown'[id]
                    /\ off[id] = BlockLen => off'[id] = BlockLen
                    /\ fin_off[id] # NoFin => fin_off'[id] # NoFin

\* A write takes the whole block, once: the initial window has room for it
LEMMA WriteOnce ==
    ASSUME Inv1, WholeBlocks, NEW id \in Ids, NEW fin \in BOOLEAN, NEW d \in Nat,
           StreamSend(id, BlockLen, fin, d)
    PROVE  Written(id) /\ pkt' = pkt /\ pc' = pc
<1>1. /\ off \in [Ids -> Nat] /\ fin_off \in [Ids -> Nat \cup {NoFin}]
      /\ st \in [Ids -> {"none", "live", "collected"}] /\ max_data \in [Ids -> Nat]
  BY DEF Inv1, TypeOK
<1>2. st[id] = "none"
  <2>1. st[id] # "collected" /\ off[id] + BlockLen <= BlockLen
    BY TransferAssumption DEF StreamSend
  <2>2. off[id] # BlockLen
    BY <1>1, <2>1, Lengths
  <2> QED BY <1>1, <2>1, <2>2 DEF WholeBlocks
<1>3. off[id] = 0 /\ fin_off[id] = NoFin /\ ~shutdown[id]
  BY <1>2 DEF Inv1, Shape, StreamShape, StreamOK
<1>4. BlockLen <= max_data[id] - off[id]
  BY <1>1, <1>3, Lengths DEF WholeBlocks
<1>5. Accepted(id, BlockLen) = BlockLen
  BY <1>3, <1>4 DEF Accepted
<1>6. off[id] + Accepted(id, BlockLen) = BlockLen
  BY <1>3, <1>5, Lengths
<1>7. fin_off' = [fin_off EXCEPT ![id] = IF SetsFin(id, BlockLen, fin) THEN BlockLen ELSE fin_off[id]]
  BY <1>6 DEF StreamSend
<1>8. \E f \in {NoFin, BlockLen} : fin_off' = [fin_off EXCEPT ![id] = f]
  BY <1>3, <1>7
<1>9. off' = [off EXCEPT ![id] = BlockLen]
  BY <1>6 DEF StreamSend
<1> QED BY <1>2, <1>3, <1>8, <1>9 DEF StreamSend, Written, recVars, callVars

\* The steps of the calls in progress
LEMMA CallCases ==
    ASSUME Inv1, WholeBlocks, AppStep \/ SendStep
    PROVE  \/ \E id \in Ids : Written(id) /\ pkt' = pkt /\ pc' = pc
           \/ \E id \in Ids : Canceled(id) /\ pkt' = pkt /\ pc' = pc
           \/ UNCHANGED <<st, off, fin_off, shutdown, max_data, acked>>
<1>1. CASE AppStep
  <2>1. PICK id \in Ids : \/ \E fin \in BOOLEAN, d \in Nat : StreamSend(id, BlockLen, fin, d)
                          \/ StreamShutdown(id)
    BY <1>1, TransferAssumption, ConstantsAssumption DEF AppStep
  <2>2. StreamShutdown(id) => Canceled(id) /\ pkt' = pkt /\ pc' = pc
    BY DEF StreamShutdown, Canceled, recVars, callVars
  <2> QED BY <2>1, <2>2, WriteOnce
<1>2. CASE SendStep
  <2>1. CASE DropBlock
    <3>1. flushable[idx] \in Ids
      BY <2>1 DEF DropBlock, Inv1, TypeOK, Shape, CallShape
    <3> QED BY <2>1, <3>1 DEF DropBlock, Canceled, recVars
  <2>2. CASE FillPacket
    BY <2>2 DEF FillPacket
  <2>3. CASE FinishPacket
    BY <2>3 DEF FinishPacket, streamVars
  <2>4. CASE MovesNoBytes
    BY <2>4 DEF MovesNoBytes
  <2>5. ASSUME NEW p \in lost, ProcessLost(p)
        PROVE  UNCHANGED <<st, off, fin_off, shutdown, max_data, acked>>
    BY <2>5 DEF ProcessLost
  <2> QED BY <1>2, <2>1, <2>2, <2>3, <2>4, <2>5, SendCases
<1> QED BY <1>1, <1>2

LEMMA BlocksKept ==
    ASSUME Inv1, WholeBlocks,
           \/ \E id \in Ids : Written(id) \/ Canceled(id)
           \/ UNCHANGED <<st, off, fin_off, shutdown, max_data>>
    PROVE  WholeBlocks' /\ Stable
<1>1. /\ off \in [Ids -> Nat] /\ fin_off \in [Ids -> Nat \cup {NoFin}] /\ shutdown \in [Ids -> BOOLEAN]
      /\ st \in [Ids -> {"none", "live", "collected"}]
  BY DEF Inv1, TypeOK
<1>2. ASSUME NEW id \in Ids, Written(id) PROVE WholeBlocks' /\ Stable
  BY <1>1, <1>2, Lengths DEF Written, WholeBlocks, Stable
<1>3. ASSUME NEW id \in Ids, Canceled(id) PROVE WholeBlocks' /\ Stable
  BY <1>1, <1>3 DEF Canceled, WholeBlocks, Stable
<1>4. CASE UNCHANGED <<st, off, fin_off, shutdown, max_data>>
  BY <1>4 DEF WholeBlocks, Stable
<1> QED BY <1>2, <1>3, <1>4

-----------------------------------------------------------------------------
(* Packets *)

\* What a packet says stays true
LEMMA SoundKept ==
    ASSUME Stable, NEW p, Sound(p)
    PROVE  Sound(p)'
<1>1. p \in Packet
  BY DEF Sound
<1>2. /\ \A r \in p.resets : r[1] \in Ids
      /\ p.sid # NoId => p.sid \in Ids
  BY <1>1 DEF Packet
<1> QED BY <1>1, <1>2 DEF Sound, Stable

LEMMA EmptyPktSound == Sound(EmptyPkt)
BY EmptyPktType DEF Sound, EmptyPkt

\* The bytes of a frame without gaps are those its offset and length tell
LEMMA RunOfBytes ==
    ASSUME NEW S, S \subseteq Nat, NEW e \in Nat, e - 1 \in S, \A b \in S : b < e,
           \A b, c \in S : c <= b => c..b \subseteq S
    PROVE  /\ e - Cardinality(S) \in Nat /\ e - Cardinality(S) < e
           /\ S = (e - Cardinality(S))..(e - 1)
<1>1. S # {}
  OBVIOUS
<1>2. PICK m : m = Min(S)
  OBVIOUS
<1>3. m \in S /\ m \in Nat /\ \A y \in S : m <= y
  BY <1>1, <1>2, MinOfNaturals
<1>4. m <= e - 1 /\ e - 1 \in Int
  BY <1>3
<1>5. m..(e - 1) \subseteq S
  BY <1>3, <1>4
<1>6. S \subseteq m..(e - 1)
  BY <1>3
<1>7. S = m..(e - 1)
  BY <1>5, <1>6
<1>8. Cardinality(m..(e - 1)) = e - m
  <2>1. m \in Int
    BY <1>3
  <2> QED BY <1>4, <2>1, FS_Interval
<1> HIDE <1>5, <1>6
<1>9. Cardinality(S) = e - m
  BY <1>7, <1>8
<1>10. e - Cardinality(S) = m
  BY <1>3, <1>9
<1> QED BY <1>3, <1>4, <1>7, <1>10

\* SendBuf::pop returns bytes without gaps
LEMMA PoppedRun ==
    ASSUME Inv1, NEW id \in Ids, NEW n \in Int
    PROVE  \A b, c \in Popped(id, n) : c <= b => c..b \subseteq Popped(id, n)
<1>1. Data(id) \subseteq Nat /\ max_data[id] \in Nat
  BY DEF Inv1, TypeOK, Data
<1> SUFFICES ASSUME NEW b \in Popped(id, n), NEW c \in Popped(id, n), c <= b,
                    NEW d \in c..b
             PROVE  d \in Popped(id, n)
  OBVIOUS
<1>2. /\ b \in Data(id) /\ c \in Data(id) /\ b < max_data[id] /\ b \in Nat /\ c \in Nat /\ d \in Nat
      /\ \A x \in Data(id) : x <= b => x..b \subseteq Data(id) /\ b < x + n
  BY <1>1 DEF Popped
<1>3. d \in Data(id) /\ d < max_data[id]
  BY <1>1, <1>2
<1>4. ASSUME NEW x \in Data(id), x <= d PROVE x..d \subseteq Data(id) /\ d < x + n
  <2>1. x \in Nat /\ x <= b
    BY <1>1, <1>2, <1>4
  <2> QED BY <1>2, <1>4, <2>1
<1> QED BY <1>3, <1>4 DEF Popped

\* The STREAM frame that send() builds
LEMMA FilledFrame ==
    ASSUME Inv1, WholeBlocks, FillPacket, pkt'.sid # NoId
    PROVE  /\ pkt'.sid \in Ids /\ off[pkt'.sid] = BlockLen
           /\ FrameTells(pkt)'
           /\ pkt'.fin => fin_off[pkt'.sid] # NoFin
<1> DEFINE B == Popped(cur, StreamRoom)
<1>1. /\ cur \in Ids /\ Live(cur) /\ pkt' \in Packet
      /\ off[cur] = BlockLen /\ fin_off[cur] \in {NoFin, BlockLen}
  BY T_FillPacket DEF FillPacket, Inv1, TypeOK, Shape, StreamShape, StreamOK, CallShape, WholeBlocks, Live
<1>2. InfoPkt \in Packet /\ InfoPkt.sid = NoId
  BY FillEffect
<1>3. /\ B # {} \/ fin_off[cur] = off[cur]
      /\ \E e \in 0..off[cur] :
           /\ EndsAt(cur, B, e)
           /\ pkt' = [InfoPkt EXCEPT !.sid = cur, !.bytes = B, !.end = e,
                                     !.fin = (fin_off[cur] = e)]
  BY <1>2, Zenon DEF FillPacket
<1>4. PICK e \in 0..off[cur] :
           /\ EndsAt(cur, B, e)
           /\ pkt' = [InfoPkt EXCEPT !.sid = cur, !.bytes = B, !.end = e,
                                     !.fin = (fin_off[cur] = e)]
  BY <1>3
<1>5. B \subseteq Nat /\ \A b, c \in B : c <= b => c..b \subseteq B
  <2>1. B \subseteq queued[cur] /\ queued[cur] \subseteq Nat
    BY <1>1, PoppedBytes DEF Inv1, TypeOK
  <2>2. StreamRoom \in Int
    BY ConstantsAssumption DEF StreamRoom, Room, Inv1, TypeOK
  <2> QED BY <1>1, <2>1, <2>2, PoppedRun
<1> HIDE DEF B
<1>6. pkt'.sid = cur /\ pkt'.bytes = B /\ pkt'.end = e /\ pkt'.fin = (fin_off[cur] = e)
  BY <1>2, <1>4 DEF Packet
<1>7. e \in Nat /\ e <= BlockLen /\ BlockLen \in Nat /\ BlockLen > 0
  BY <1>1, <1>4, Lengths
<1>8. fin_off[cur] = e => e = BlockLen /\ fin_off[cur] # NoFin
  BY <1>1, <1>7 DEF NoFin
<1>9. /\ e - Cardinality(B) \in Nat /\ e - Cardinality(B) <= e
      /\ B = (e - Cardinality(B))..(e - 1)
      /\ e - Cardinality(B) < e \/ fin_off[cur] = e
  <2>1. CASE B = {}
    <3>1. e = off[cur] /\ fin_off[cur] = off[cur]
      BY <1>3, <1>4, <2>1 DEF EndsAt
    <3>2. Cardinality(B) = 0
      BY <2>1, FS_EmptySet
    <3> QED BY <1>7, <2>1, <3>1, <3>2
  <2>2. CASE B # {}
    <3>1. e - 1 \in B /\ \A b \in B : b < e
      BY <1>4, <2>2 DEF EndsAt
    <3>2. /\ e - Cardinality(B) \in Nat /\ e - Cardinality(B) < e
          /\ B = (e - Cardinality(B))..(e - 1)
      BY ONLY <1>5, <1>7, <3>1, RunOfBytes
    <3> QED BY <1>7, <3>2
  <2> QED BY <2>1, <2>2
<1> DEFINE f == Frame(pkt)'
<1>10. f = [off |-> e - Cardinality(B), end |-> e, fin |-> (fin_off[cur] = e)]
  BY <1>6 DEF Frame
<1>11. FrameTells(pkt)'
  <2>1. f.off = e - Cardinality(B) /\ f.end = e /\ f.fin = (fin_off[cur] = e)
    BY <1>10
  <2>2. f \in RP!Chunk
    BY <1>7, <1>9, <1>10 DEF RP!Chunk
  <2>3. f.off <= f.end /\ f.end <= BlockLen /\ (f.fin => f.end = BlockLen) /\ (f.off < f.end \/ f.fin)
    BY <1>7, <1>8, <1>9, <2>1
  <2>4. f.off..(f.end - 1) = pkt'.bytes
    BY <1>6, <1>9, <2>1
  <2> HIDE DEF f
  <2> QED BY <2>2, <2>3, <2>4 DEF FrameTells, RP!Fits, RP!Bytes, f
<1> QED BY <1>1, <1>6, <1>8, <1>11

\* The packet being composed stays sound
LEMMA PktSound ==
    ASSUME Inv1, TypeOK', WholeBlocks, Stable, Sound(pkt), AppStep \/ SendStep
    PROVE  Sound(pkt)'
<1>1. PICK p : p = pkt
  OBVIOUS
<1>2. Sound(p)'
  BY <1>1, SoundKept
<1>3. pkt' = pkt => Sound(pkt)'
  BY <1>1, <1>2 DEF Sound, FrameTells
<1>4. pkt' = EmptyPkt => Sound(pkt)'
  BY EmptyPktType DEF Sound, EmptyPkt
<1>5. pkt' \in Packet /\ pkt \in Packet
  BY DEF TypeOK, Sound
<1>6. \A r \in pkt.resets : shutdown'[r[1]] /\ r[2] = BlockLen
  BY <1>1, <1>2 DEF Sound
<1>7. CASE AppStep
  <2>1. \A id, n, fin, d : StreamSend(id, n, fin, d) => pkt' = pkt
    BY DEF StreamSend, callVars
  <2>2. pkt' = pkt
    BY <1>7, <2>1 DEF AppStep, StreamShutdown, callVars
  <2> QED BY <1>3, <2>2
<1>8. ASSUME NEW q \in lost, ProcessLost(q) PROVE Sound(pkt)'
  <2>1. pkt' = pkt \/ pkt' = EmptyPkt
    BY <1>8 DEF ProcessLost, Abort, callVars
  <2> QED BY <1>3, <1>4, <2>1
<1>9. CASE DropBlock
  BY <1>3, <1>9 DEF DropBlock
<1>10. CASE FillPacket
  <2>1. pkt'.resets = pkt.resets
    <3>1. InfoPkt \in Packet /\ InfoPkt.resets = pkt.resets
      BY <1>10, FillEffect
    <3>2. pkt' = InfoPkt => pkt'.resets = pkt.resets
      BY <3>1
    <3>3. ASSUME NEW e,
                 pkt' = [InfoPkt EXCEPT !.sid = cur, !.bytes = Popped(cur, StreamRoom),
                                        !.end = e, !.fin = (fin_off[cur] = e)]
          PROVE  pkt'.resets = pkt.resets
      BY <3>1, <3>3 DEF Packet
    <3>4. \/ pkt' = InfoPkt
          \/ \E e : pkt' = [InfoPkt EXCEPT !.sid = cur, !.bytes = Popped(cur, StreamRoom),
                                           !.end = e, !.fin = (fin_off[cur] = e)]
      BY <1>10, FillEffect
    <3> QED BY <3>2, <3>3, <3>4
  <2>2. UNCHANGED <<off, fin_off>>
    BY <1>10 DEF FillPacket
  <2>3. pkt'.sid # NoId => /\ off'[pkt'.sid] = BlockLen /\ FrameTells(pkt)'
                           /\ pkt'.fin => fin_off'[pkt'.sid] # NoFin
    BY <1>10, <2>2, FilledFrame
  <2> QED BY <1>5, <1>6, <2>1, <2>3 DEF Sound
<1>11. CASE FinishPacket
  BY <1>4, <1>11 DEF FinishPacket, Abort
<1>12. CASE MovesNoBytes /\ pkt' # pkt
  <2>1. pkt'.sid = NoId /\ UNCHANGED shutdown
    BY <1>12 DEF MovesNoBytes
  <2>2. ASSUME NEW id \in canceled PROVE shutdown[id] /\ BlockSize(id) = BlockLen
    <3>1. id \in Ids /\ shutdown[id] /\ st[id] # "none" /\ fin_off[id] \in {NoFin, off[id]}
      BY DEF Inv1, TypeOK, Shape, CallShape, StreamShape, StreamOK
    <3> QED BY <3>1 DEF WholeBlocks, BlockSize
  <2>3. pkt'.resets \subseteq pkt.resets \cup {<<id, BlockSize(id)>> : id \in canceled}
    BY <1>12 DEF MovesNoBytes
  <2>4. \A r \in pkt'.resets : shutdown'[r[1]] /\ r[2] = BlockLen
    BY <1>6, <2>1, <2>2, <2>3
  <2> QED BY <1>5, <2>1, <2>4 DEF Sound
<1>13. CASE MovesNoBytes /\ pkt' = pkt
  BY <1>3, <1>13
<1> QED BY <1>7, <1>8, <1>9, <1>10, <1>11, <1>12, <1>13, SendCases

\* A packet leaves when it is complete, under the number it was begun with
LEMMA PktNumber ==
    ASSUME Inv1, TypeOK', Numbered, AppStep \/ SendStep
    PROVE  /\ \/ sent' = sent /\ (pkt'.pn = pkt.pn \/ \A p \in sent : p.pn # pkt'.pn)
              \/ sent' = sent /\ pkt'.pn = 0
              \/ pc = "finish" /\ sent' = sent \cup {pkt} /\ pkt'.pn = 0
           /\ pc' \in Composing => pkt'.pn # 0
<1> USE DEF streamVars, mapVars, flowVars, recVars, callVars, histVars
<1>1. pc \in Composing => pkt.pn # 0
  BY DEF Numbered
<1>2. EmptyPkt.pn = 0 /\ EmptyPkt \in Packet /\ pkt \in Packet
  BY EmptyPktType DEF EmptyPkt, Inv1, TypeOK
<1>3. \A id, n, fin, d : StreamSend(id, n, fin, d) => sent' = sent /\ pkt' = pkt /\ pc' = pc
  BY DEF StreamSend
<1>4. CASE AppStep
  BY <1>1, <1>3, <1>4 DEF AppStep, StreamShutdown
<1>5. ASSUME NEW q \in lost, ProcessLost(q) PROVE sent' = sent /\ (pkt' = pkt \/ pkt' = EmptyPkt) /\ pc' \notin Composing
  BY <1>5 DEF ProcessLost, Abort, Composing
<1>6. CASE BeginSend \/ NoRoom \/ DropFails
  BY <1>2, <1>6 DEF BeginSend, NoRoom, DropFails, Abort, Goto, Composing
<1>7. CASE StartPacket
  <2>1. PICK n \in PktNums : /\ \A p \in sent : p.pn # n
                             /\ pkt' = [EmptyPkt EXCEPT !.pn = n]
    BY <1>7 DEF StartPacket
  <2>2. n # 0
    BY TransferAssumption
  <2>3. pkt'.pn = n
    BY <2>1 DEF EmptyPkt
  <2>4. sent' = sent
    BY <1>7 DEF StartPacket
  <2> QED BY <2>1, <2>2, <2>3, <2>4
<1>8. ASSUME NEW id \in canceled, ResetCanceled(id) PROVE sent' = sent /\ pkt'.pn = pkt.pn /\ pc = "reset"
  BY <1>2, <1>8 DEF ResetCanceled, Packet
<1>9. CASE FillPacket
  <2>1. sent' = sent /\ pc \in Composing
    BY <1>9 DEF FillPacket, Composing
  <2>2. InfoPkt \in Packet /\ InfoPkt.pn = pkt.pn
    BY <1>2, <1>9, FillEffect DEF InfoPkt, Packet
  <2>3. \/ pkt' = InfoPkt
        \/ \E e : pkt' = [InfoPkt EXCEPT !.sid = cur, !.bytes = Popped(cur, StreamRoom),
                                         !.end = e, !.fin = (fin_off[cur] = e)]
    BY <1>9, FillEffect
  <2>4. ASSUME NEW e,
               pkt' = [InfoPkt EXCEPT !.sid = cur, !.bytes = Popped(cur, StreamRoom),
                                      !.end = e, !.fin = (fin_off[cur] = e)]
        PROVE  pkt'.pn = pkt.pn
    BY <2>2, <2>4 DEF Packet
  <2>5. pkt'.pn = pkt.pn
    BY <2>2, <2>3, <2>4
  <2> QED BY <1>1, <2>1, <2>5
<1>10. CASE FinishPacket
  BY <1>2, <1>10 DEF FinishPacket, Abort, Composing
<1>11. CASE ResetDone \/ EnterStreamLoop \/ Peek \/ PeekGone \/ SelectNone \/ FillGone
  BY <1>1, <1>11 DEF ResetDone, EnterStreamLoop, Peek, PeekGone, SelectNone, FillGone, Panic,
     Goto, Composing
<1>12. CASE DropBlock \/ KeepBlock \/ DropDone \/ SelectBlock
  BY <1>1, <1>12 DEF DropBlock, KeepBlock, DropDone, SelectBlock, Goto, Composing
<1>13. "reset" \in Composing
  BY DEF Composing
<1> QED BY <1>1, <1>2, <1>4, <1>5, <1>6, <1>7, <1>8, <1>9, <1>10, <1>11, <1>12, <1>13 DEF SendStep

-----------------------------------------------------------------------------
(* What one side's steps leave of the other's invariant *)

\* The abstract step a step of the transfer makes
Promise == [D!Next]_(D!vars)

LEMMA SamePromise ==
    ASSUME UNCHANGED <<off, fin_off, shutdown, r_got, r_off, r_drain>>,
           \A id \in Ids : (st'[id] = "collected" <=> st[id] = "collected")
                           /\ (r_st'[id] = "collected" <=> r_st[id] = "collected")
    PROVE  Promise
BY DEF Promise, D!vars

LEMMA ReceiverRests ==
    ASSUME RP!IInv, RP!Delivered, UNCHANGED <<rVars, now>>
    PROVE  RP!IInv' /\ RP!Delivered'
<1>1. UNCHANGED RP!vars
  BY DEF RP!vars, RP!streamVars, RP!mapVars, RP!flowVars, RP!callVars, RP!limitVars, rVars
<1>2. RP!IInv'
  BY <1>1, RP!IInvStep, ReceiverConstants
<1>3. RP!Delivered'
  BY DEF RP!Delivered, RP!Live, RP!Bytes, rVars
<1> QED BY <1>2, <1>3

LEMMA SenderRests ==
    ASSUME Inv1, WholeBlocks, Sound(pkt), UNCHANGED vars
    PROVE  Inv1' /\ WholeBlocks' /\ Stable /\ Sound(pkt)'
<1> USE DEF vars, streamVars, mapVars, flowVars, recVars, callVars, histVars
<1>1. Inv1'
  BY Inv1Step
<1>2. UNCHANGED <<st, off, fin_off, shutdown, max_data, pkt>>
  OBVIOUS
<1>3. WholeBlocks' /\ Stable
  BY <1>2, BlocksKept
<1>4. PICK p : p = pkt
  OBVIOUS
<1>5. Sound(p)'
  BY <1>3, <1>4, SoundKept
<1>6. Sound(pkt)'
  BY <1>2, <1>4, <1>5 DEF Sound, FrameTells
<1> QED BY <1>1, <1>3, <1>6

\* A packet the sender gave up says what it said
LEMMA ForgottenSound ==
    ASSUME NEW p, Sound(p)
    PROVE  Sound(Forgotten(p)) /\ Forgotten(p).pn = 0
<1>1. p \in Packet
  BY DEF Sound
<1>2. /\ Forgotten(p) \in Packet /\ Forgotten(p).pn = 0
      /\ Forgotten(p).resets = p.resets /\ Forgotten(p).sid = p.sid
      /\ Forgotten(p).bytes = p.bytes /\ Forgotten(p).end = p.end /\ Forgotten(p).fin = p.fin
  BY <1>1 DEF Forgotten, Packet
<1>3. Frame(Forgotten(p)) = Frame(p)
  BY <1>2 DEF Frame
<1> QED BY <1>2, <1>3 DEF Sound, FrameTells

LEMMA NetSound ==
    ASSUME PacketsSound, Stable, Sound(pkt)', arriving' = arriving,
           \A q \in net' : q \in net \/ q = pkt \/ \E p \in net : q = Forgotten(p)
    PROVE  PacketsSound'
<1>1. PICK a : a = arriving
  OBVIOUS
<1>2. Sound(a)'
  BY <1>1, SoundKept DEF PacketsSound
<1>3. Sound(arriving)'
  BY <1>1, <1>2 DEF Sound, FrameTells
<1>4. ASSUME NEW q \in net' PROVE Sound(q)'
  <2>1. CASE q \in net
    BY <2>1, SoundKept DEF PacketsSound
  <2>2. CASE q = pkt
    <3>1. Sound(q)
      BY <2>2 DEF PacketsSound
    <3> QED BY <3>1, SoundKept
  <2>3. CASE \E p \in net : q = Forgotten(p)
    <3>1. PICK p \in net : q = Forgotten(p)
      BY <2>3
    <3>2. Sound(q)
      BY <3>1, ForgottenSound DEF PacketsSound
    <3> QED BY <3>2, SoundKept
  <2> QED BY <1>4, <2>1, <2>2, <2>3
<1> QED BY <1>3, <1>4 DEF PacketsSound

\* The receiver and the network wait while the sender moves, but for packets
\* that leave or are given up
LEMMA EndsKept ==
    ASSUME Ends, Stable, UNCHANGED <<r_drain, r_fin_off>>
    PROVE  Ends'
BY DEF Ends, Stable

-----------------------------------------------------------------------------
(* The sender moves *)

\* A write or a cancellation is one of BlockDelivery; nothing else shows there
LEMMA CallPromise ==
    ASSUME Inv1, WholeBlocks, UNCHANGED rVars,
           \/ \E id \in Ids : Written(id) \/ Canceled(id)
           \/ UNCHANGED <<st, off, fin_off, shutdown>>
    PROVE  Promise
<1> USE DEF rVars
<1>1. /\ off \in [Ids -> Nat] /\ fin_off \in [Ids -> Nat \cup {NoFin}] /\ shutdown \in [Ids -> BOOLEAN]
      /\ st \in [Ids -> {"none", "live", "collected"}]
  BY DEF Inv1, TypeOK
<1>2. ASSUME NEW id \in Ids, Written(id) PROVE Promise
  <2>1. PICK f \in {NoFin, BlockLen} : fin_off' = [fin_off EXCEPT ![id] = f]
    BY <1>2 DEF Written
  <2>2. off' = [off EXCEPT ![id] = BlockLen] /\ BlockLen \in off[id]..MaxOff
    BY <1>2, Lengths, TransferAssumption DEF Written
  <2>3. (f # NoFin) \in BOOLEAN
    OBVIOUS
  <2>4. [i \in Ids |-> fin_off'[i] # NoFin]
           = [[i \in Ids |-> fin_off[i] # NoFin] EXCEPT ![id] = (f # NoFin)]
    BY <1>1, <2>1
  <2>5. [i \in Ids |-> st'[i] = "collected"] = [i \in Ids |-> st[i] = "collected"]
    BY <1>1, <1>2 DEF Written
  <2>6. ~[i \in Ids |-> fin_off[i] # NoFin][id] /\ ~shutdown[id]
    BY <1>2 DEF Written
  <2>7. D!Write(id)
    BY <1>2, <2>2, <2>3, <2>4, <2>5, <2>6 DEF D!Write, Written
  <2> QED BY <2>7 DEF Promise, D!Next
<1>3. ASSUME NEW id \in Ids, Canceled(id) PROVE Promise
  BY <1>3 DEF Promise, D!Next, D!Cancel, Canceled
<1>4. CASE UNCHANGED <<st, off, fin_off, shutdown>>
  BY <1>4, SamePromise
<1> QED BY <1>2, <1>3, <1>4

LEMMA Tr_SenderStep ==
    ASSUME TInv, SenderStep
    PROVE  TInv' /\ Promise
<1> USE DEF rVars
<1>1. /\ AppStep \/ SendStep
      /\ Inv1 /\ WholeBlocks /\ PacketsSound /\ Numbered /\ Arrived /\ Ends
      /\ UNCHANGED <<rVars, arriving, accepted>> /\ arriving = EmptyPkt
      /\ net' = net \cup (sent' \ sent)
  BY DEF SenderStep, SenderMoves, TInv
<1>2. Inv1'
  BY <1>1, Inv1Step DEF Next
<1>3. \/ \E id \in Ids : Written(id) \/ Canceled(id)
      \/ UNCHANGED <<st, off, fin_off, shutdown, max_data, acked>>
  BY <1>1, CallCases
<1>4. WholeBlocks' /\ Stable /\ acked' = acked
  BY <1>1, <1>3, BlocksKept DEF Written, Canceled
<1>5. Promise
  BY <1>1, <1>3, CallPromise
<1>6. now' = now
  <2>1. AppStep => now' = now
    <3>1. \A id, n, fin, d : StreamSend(id, n, fin, d) => now' = now
      BY DEF StreamSend
    <3> QED BY <3>1 DEF AppStep, StreamShutdown
  <2>2. \A p : ProcessLost(p) => now' = now
    BY DEF ProcessLost
  <2>3. \A id : ResetCanceled(id) => now' = now
    BY DEF ResetCanceled
  <2>4. FillPacket \/ SelectBlock \/ SelectNone \/ FillGone \/ PeekGone => now' = now
    BY DEF FillPacket, SelectBlock, SelectNone, FillGone, PeekGone, Panic
  <2>5. SendStep => now' = now
    BY <2>2, <2>3, <2>4 DEF SendStep, BeginSend, NoRoom, StartPacket, ResetDone, EnterStreamLoop, Peek,
       DropBlock, DropFails, KeepBlock, DropDone, FinishPacket
  <2> QED BY <1>1, <2>1, <2>5
<1>7. RP!IInv' /\ RP!Delivered'
  BY <1>1, <1>6, ReceiverRests DEF TInv
<1>8. Sound(pkt)'
  BY <1>1, <1>2, <1>4, PktSound DEF PacketsSound, Inv1
<1>9. /\ \/ sent' = sent /\ (pkt'.pn = pkt.pn \/ \A p \in sent : p.pn # pkt'.pn)
         \/ sent' = sent /\ pkt'.pn = 0
         \/ pc = "finish" /\ sent' = sent \cup {pkt} /\ pkt'.pn = 0
      /\ pc' \in Composing => pkt'.pn # 0
  BY <1>1, <1>2, PktNumber DEF Inv1
<1>10. \A q \in net' : q \in net \/ (q = pkt /\ sent' = sent \cup {pkt} /\ pc = "finish")
  BY <1>1, <1>9
<1>11. PacketsSound'
  BY <1>1, <1>4, <1>8, <1>10, NetSound
<1>12. EmptyPkt.pn = 0 /\ EmptyPkt.sid = NoId /\ "finish" \in Composing
  BY DEF EmptyPkt, Composing
<1>13. Numbered'
  <2>1. CASE sent' = sent
    <3>1. net' = net
      BY <1>1, <2>1
    <3> QED BY <1>1, <1>9, <2>1, <3>1 DEF Numbered
  <2>2. CASE pc = "finish" /\ sent' = sent \cup {pkt} /\ pkt'.pn = 0
    <3>1. pkt.pn # 0 /\ \A p \in sent : p.pn # pkt.pn
      BY <1>1, <1>12, <2>2 DEF Numbered
    <3>2. pkt.pn \notin accepted
      BY <1>1, <3>1 DEF Numbered
    <3> QED BY <1>1, <1>9, <1>10, <1>12, <2>2, <3>1, <3>2 DEF Numbered
  <2> QED BY <1>9, <2>1, <2>2
<1>14. Arrived'
  <2>1. ASSUME NEW id \in Ids PROVE 0..(off[id] - 1) \subseteq 0..(off'[id] - 1)
    <3>1. off[id] = 0 \/ off'[id] = off[id]
      BY <1>1, <1>4 DEF WholeBlocks, Stable
    <3> QED BY <3>1
  <2>2. \A id \in Ids : acked'[id] \subseteq r_got'[id] /\ r_got'[id] \subseteq 0..(off'[id] - 1)
    BY <1>1, <1>4, <2>1 DEF Arrived
  <2>3. ASSUME NEW p \in sent', p \notin sent
        PROVE  p.pn \notin accepted /\ p.pn # arriving.pn
    <3>1. p = pkt /\ pc = "finish"
      BY <1>9, <2>3
    <3> QED BY <1>1, <1>12, <3>1 DEF Numbered
  <2> QED BY <1>1, <2>2, <2>3 DEF Arrived
<1>15. Ends'
  BY <1>1, <1>4, EndsKept
<1> QED BY <1>2, <1>4, <1>5, <1>7, <1>11, <1>13, <1>14, <1>15 DEF TInv

\* A packet whose fate is settled gives its number back
LEMMA NumberFreed ==
    ASSUME Numbered, NEW p \in sent, sent' = sent \ {p},
           arriving = EmptyPkt, UNCHANGED <<pc, pkt, arriving>>,
           accepted' \subseteq accepted \ {p.pn},
           \A q \in net' : q.pn # 0 => q \in net /\ (p \notin net \/ q # p)
    PROVE  Numbered'
<1>1. ASSUME NEW q \in net', q.pn # 0 PROVE q \in sent' /\ q.pn \notin accepted' /\ q.pn # arriving'.pn
  <2>1. q \in net /\ q # p
    BY <1>1
  <2> QED BY <1>1, <2>1 DEF Numbered
<1>2. ASSUME NEW n \in accepted' PROVE n # 0 /\ \E q \in sent' : q.pn = n
  <2>1. n \in accepted /\ n # p.pn
    BY <1>2
  <2> QED BY <2>1 DEF Numbered
<1>3. arriving'.pn = 0
  BY DEF EmptyPkt
<1> QED BY <1>1, <1>2, <1>3 DEF Numbered

\* Arrived, when the receiver waits and the numbers in use are old ones
LEMMA ArrivedKept ==
    ASSUME Arrived, UNCHANGED <<rVars, arriving, off>>, sent' \subseteq sent, accepted' \subseteq accepted,
           \A id \in Ids : acked'[id] \subseteq r_got[id]
    PROVE  Arrived'
BY DEF Arrived, rVars

LEMMA Tr_Wait ==
    ASSUME TInv, Wait
    PROVE  TInv' /\ Promise
<1>1. /\ Inv1 /\ WholeBlocks /\ PacketsSound /\ Numbered /\ Arrived /\ Ends
      /\ RP!IInv /\ RP!Delivered
      /\ r_pc = "idle" /\ now < MaxNow /\ now' = now + 1
      /\ UNCHANGED <<rVars, net, arriving, accepted>> /\ Tick
      /\ UNCHANGED <<st, off, fin_off, shutdown, max_data, acked, sent, pkt, pc>>
  BY DEF Wait, Quiet, Tick, netVars, TInv, streamVars, recVars, callVars
<1>2. Inv1'
  BY <1>1, Inv1Step DEF Next
<1>3. RP!IInv'
  <2>1. RP!Tick
    BY <1>1 DEF RP!Tick, RP!streamVars, RP!mapVars, RP!flowVars, RP!callVars, RP!limitVars, rVars
  <2> QED BY <1>1, <2>1, RP!IInvStep, ReceiverConstants DEF RP!Next
<1>4. RP!Delivered'
  BY <1>1 DEF RP!Delivered, RP!Live, RP!Bytes, rVars
<1>5. WholeBlocks' /\ Stable
  BY <1>1, BlocksKept
<1>6. PacketsSound'
  <2>1. PICK p : p = pkt
    OBVIOUS
  <2>2. Sound(p)'
    BY <1>1, <1>5, <2>1, SoundKept DEF PacketsSound
  <2>3. Sound(pkt)'
    BY <1>1, <2>1, <2>2 DEF Sound, FrameTells
  <2> QED BY <1>1, <1>5, <2>3, NetSound
<1>7. Numbered' /\ Arrived' /\ Ends'
  BY <1>1 DEF Numbered, Arrived, Ends, rVars
<1>8. Promise
  BY <1>1, SamePromise DEF rVars
<1> QED BY <1>2, <1>3, <1>4, <1>5, <1>6, <1>7, <1>8 DEF TInv

\* Steps that only move packets between sent and lost, or raise a window
LEMMA OnlyLimits ==
    ASSUME TInv, SenderMoves, Inv1', now' = now,
           UNCHANGED <<st, off, fin_off, shutdown, acked, pkt, pc, arriving>>,
           \A id \in Ids : max_data[id] <= max_data'[id],
           sent' \subseteq sent, accepted' \subseteq accepted,
           \A q \in net' : q \in net \/ \E p \in net : q = Forgotten(p)
    PROVE  /\ Inv1' /\ RP!IInv' /\ RP!Delivered' /\ WholeBlocks' /\ PacketsSound' /\ Arrived' /\ Ends'
           /\ Promise
<1>1. /\ Inv1 /\ WholeBlocks /\ PacketsSound /\ Arrived /\ Ends /\ UNCHANGED rVars
      /\ RP!IInv /\ RP!Delivered
  BY DEF TInv, SenderMoves
<1>2. RP!IInv' /\ RP!Delivered'
  BY <1>1, ReceiverRests
<1>3. WholeBlocks' /\ Stable
  <2>1. \A id \in Ids : max_data[id] \in Nat /\ max_data'[id] \in Nat
    BY <1>1 DEF Inv1, TypeOK
  <2> QED BY <1>1, <2>1, Lengths DEF WholeBlocks, Stable
<1>4. PacketsSound'
  <2>1. PICK p : p = pkt
    OBVIOUS
  <2>2. Sound(p)'
    BY <1>1, <1>3, <2>1, SoundKept DEF PacketsSound
  <2>3. Sound(pkt)'
    BY <2>1, <2>2 DEF Sound, FrameTells
  <2> QED BY <1>1, <1>3, <2>3, NetSound
<1>5. \A id \in Ids : acked'[id] \subseteq r_got[id]
  BY <1>1 DEF Arrived
<1>6. Arrived'
  BY <1>1, <1>5, ArrivedKept
<1>7. Ends'
  BY <1>1, <1>3, EndsKept DEF rVars
<1>8. Promise
  BY <1>1, SamePromise DEF rVars
<1> QED BY <1>2, <1>3, <1>4, <1>6, <1>7, <1>8

LEMMA Tr_LossDetected ==
    ASSUME TInv, LossDetected
    PROVE  TInv' /\ Promise
<1>1. PICK p \in sent : /\ p \notin net /\ p.pn \notin accepted
                        /\ sent' = sent \ {p} /\ lost' = lost \cup {p}
  BY DEF LossDetected, FoundMissing, Missing
<1>2. /\ SenderMoves /\ arriving = EmptyPkt /\ result' = "none"
      /\ UNCHANGED <<streamVars, mapVars, flowVars, losses, now, callVars, histVars>>
      /\ UNCHANGED <<net, arriving, accepted>>
  BY DEF LossDetected, FoundMissing, SenderMoves, netVars
<1>3. Inv1 /\ Numbered
  BY DEF TInv
<1>4. Inv1'
  <2>1. TypeOK'
    BY <1>1, <1>2, <1>3 DEF Inv1, TypeOK, streamVars, mapVars, flowVars, callVars, histVars
  <2>2. StreamShape'
    BY <1>2, <1>3 DEF Inv1, Shape, StreamShape, StreamOK, streamVars
  <2>3. PacketShape'
    BY <1>1, <1>2, <1>3, FrameKept DEF Inv1, Shape, PacketShape, streamVars, callVars
  <2>4. CallShape'
    <3>1. pc = "idle"
      BY DEF LossDetected, FoundMissing
    <3> QED BY <1>2, <1>3, <3>1 DEF Inv1, Shape, CallShape, callVars, mapVars, streamVars
  <2> QED BY <2>1, <2>2, <2>3, <2>4 DEF Inv1, Shape
<1>5. UNCHANGED <<st, off, fin_off, shutdown, max_data, acked, pkt, pc>>
  BY <1>2 DEF streamVars, callVars
<1>6. Numbered'
  BY <1>1, <1>2, <1>3, <1>5, NumberFreed
<1>7. \A id \in Ids : max_data[id] <= max_data'[id]
  BY <1>3, <1>5 DEF Inv1, TypeOK
<1> QED BY <1>1, <1>2, <1>4, <1>5, <1>6, <1>7, OnlyLimits DEF TInv

LEMMA Tr_SpuriousLoss ==
    ASSUME TInv, SpuriousLoss
    PROVE  TInv' /\ Promise
<1>1. PICK p \in sent : /\ LosePacket(p)
                        /\ net' = IF p \in net THEN (net \ {p}) \cup {Forgotten(p)} ELSE net
                        /\ accepted' = accepted \ {p.pn}
  BY DEF SpuriousLoss, AcceptedWithout
<1>2. /\ SenderMoves /\ arriving = EmptyPkt /\ arriving' = arriving
      /\ sent' = sent \ {p} /\ now' = now
      /\ UNCHANGED <<st, off, fin_off, shutdown, max_data, acked, pkt, pc>>
  BY <1>1 DEF SpuriousLoss, SenderMoves, LosePacket, streamVars, callVars
<1>3. Inv1 /\ Numbered /\ PacketsSound
  BY DEF TInv
<1>4. Inv1'
  BY <1>1, <1>3, Inv1Step DEF Next, Lose
<1>5. \A q \in net' : (q \in net /\ (p \notin net \/ q # p)) \/ (p \in net /\ q = Forgotten(p))
  BY <1>1
<1>6. p \in net => Forgotten(p).pn = 0
  BY <1>3, ForgottenSound DEF PacketsSound
<1>7. Numbered'
  BY <1>1, <1>2, <1>3, <1>5, <1>6, NumberFreed
<1>8. \A id \in Ids : max_data[id] <= max_data'[id]
  BY <1>2, <1>3 DEF Inv1, TypeOK
<1> QED BY <1>1, <1>2, <1>4, <1>5, <1>7, <1>8, OnlyLimits DEF TInv

LEMMA Tr_CreditArrives ==
    ASSUME TInv, CreditArrives \/ LateCreditArrives
    PROVE  TInv' /\ Promise
<1>1. /\ SenderMoves /\ arriving = EmptyPkt /\ Inv1 /\ Numbered
      /\ UNCHANGED <<net, arriving, accepted>>
  BY DEF CreditArrives, LateCreditArrives, SenderMoves, netVars, TInv
<1>2. /\ max_data \in [Ids -> Nat] /\ r_peer_max_data \in Nat
      /\ \A id \in Ids : r_peer_max_stream[id] \in Nat
  BY DEF TInv, Inv1, TypeOK, RP!IInv, RP!TypeOK
<1>3. /\ Inv1' /\ now' = now
      /\ UNCHANGED <<st, off, fin_off, shutdown, acked, pkt, pc, sent>>
      /\ \A id \in Ids : max_data[id] <= max_data'[id]
  <2>1. CASE RecvMaxData(r_peer_max_data)
    <3>1. PICK m \in Nat : m = r_peer_max_data
      BY <1>2
    <3>2. RecvMaxData(m)
      BY <2>1, <3>1
    <3>3. Inv1'
      BY <1>1, <3>2, Inv1MaxData
    <3> QED BY <1>2, <2>1, <3>3 DEF RecvMaxData, streamVars, recVars, callVars
  <2>2. ASSUME NEW id \in Ids, RecvMaxStreamData(id, r_peer_max_stream[id])
        PROVE  /\ Inv1' /\ now' = now
               /\ UNCHANGED <<st, off, fin_off, shutdown, acked, pkt, pc, sent>>
               /\ \A i \in Ids : max_data[i] <= max_data'[i]
    <3>1. PICK m \in Nat : m = r_peer_max_stream[id]
      BY <1>2
    <3>2. RecvMaxStreamData(id, m)
      BY <2>2, <3>1
    <3>3. Inv1'
      BY <1>1, <3>2, Inv1MaxStreamData
    <3>4. /\ UNCHANGED <<st, off, fin_off, shutdown, acked, pkt, pc, sent>> /\ now' = now
          /\ max_data' = [max_data EXCEPT ![id] = m] /\ m > max_data[id]
      BY <3>2 DEF RecvMaxStreamData, recVars, callVars
    <3> QED BY <1>2, <3>3, <3>4
  <2>3. ASSUME NEW id \in Ids, RecvLateMaxStreamData(id)
        PROVE  /\ Inv1' /\ now' = now
               /\ UNCHANGED <<st, off, fin_off, shutdown, acked, pkt, pc, sent>>
               /\ \A i \in Ids : max_data[i] <= max_data'[i]
    <3>1. PeerStep
      BY <2>3 DEF PeerStep
    <3>2. Inv1'
      BY <1>1, <3>1, Inv1Step DEF Next
    <3> QED BY <1>2, <2>3, <3>2 DEF RecvLateMaxStreamData, streamVars, recVars, callVars
  <2> QED BY <2>1, <2>2, <2>3 DEF CreditArrives, LateCreditArrives
<1>4. Numbered'
  BY <1>1, <1>3 DEF Numbered
<1> QED BY <1>1, <1>3, <1>4, OnlyLimits DEF TInv

\* An ACK comes for bytes that have arrived; the stream is collected when it
\* was the last one
LEMMA Tr_AckArrives ==
    ASSUME TInv, AckArrives
    PROVE  TInv' /\ Promise
<1> USE DEF rVars
<1>1. /\ Inv1 /\ WholeBlocks /\ PacketsSound /\ Numbered /\ Arrived /\ Ends
      /\ RP!IInv /\ RP!Delivered
      /\ UNCHANGED <<rVars, net, arriving>> /\ arriving = EmptyPkt
  BY DEF TInv, AckArrives, AckOf, SenderMoves
<1>2. PICK p \in sent : p.pn \in accepted /\ AckPacket(p) /\ accepted' = accepted \ {p.pn}
  BY DEF AckArrives, AckOf
<1>3. /\ sent' = sent \ {p} /\ now' = now
      /\ UNCHANGED <<off, max_data, fin_off, shutdown, pkt, pc>>
  BY <1>2 DEF AckPacket, callVars
<1>4. Inv1'
  BY <1>1, <1>2, Inv1Step DEF Next, Acknowledge
<1>5. /\ acked \in [Ids -> SUBSET Nat] /\ st \in [Ids -> {"none", "live", "collected"}]
      /\ off \in [Ids -> Nat] /\ fin_off \in [Ids -> Nat \cup {NoFin}] /\ p \in Packet
  BY <1>1 DEF Inv1, TypeOK
<1>6. p.sid # NoId => p.sid \in Ids /\ p.bytes \subseteq r_got[p.sid]
  BY <1>1, <1>2, <1>5 DEF Arrived, Packet
<1>7. \A id \in Ids : acked'[id] \subseteq r_got[id]
  <2>1. acked' = acked \/ (p.sid # NoId /\ acked' = [acked EXCEPT ![p.sid] = acked[p.sid] \cup p.bytes])
    BY <1>2 DEF AckPacket
  <2>2. \A id \in Ids : acked[id] \subseteq r_got[id]
    BY <1>1 DEF Arrived
  <2> QED BY <1>5, <1>6, <2>1, <2>2
<1>8. \/ UNCHANGED st
      \/ /\ p.sid \in Ids /\ Live(p.sid) /\ st' = [st EXCEPT ![p.sid] = "collected"]
         /\ fin_off[p.sid] # NoFin /\ r_got[p.sid] = 0..(off[p.sid] - 1)
  <2>1. \/ UNCHANGED st
        \/ /\ p.sid # NoId /\ Live(p.sid) /\ st' = [st EXCEPT ![p.sid] = "collected"]
           /\ acked' = [acked EXCEPT ![p.sid] = acked[p.sid] \cup p.bytes]
           /\ Complete(p.sid, acked[p.sid] \cup p.bytes, fin_acked[p.sid] \/ (p.bytes = {} /\ p.end = 0))
    BY <1>2, Zenon DEF AckPacket
  <2>2. CASE /\ p.sid # NoId /\ Live(p.sid) /\ st' = [st EXCEPT ![p.sid] = "collected"]
             /\ acked' = [acked EXCEPT ![p.sid] = acked[p.sid] \cup p.bytes]
             /\ Complete(p.sid, acked[p.sid] \cup p.bytes, fin_acked[p.sid] \/ (p.bytes = {} /\ p.end = 0))
    <3>1. p.sid \in Ids
      BY <1>6, <2>2
    <3>2. fin_off[p.sid] # NoFin /\ fin_off[p.sid] = off[p.sid] /\ off[p.sid] = BlockLen
      BY <1>1, <2>2, <3>1 DEF Complete, Inv1, Shape, StreamShape, StreamOK, WholeBlocks, Live
    <3>3. fin_off[p.sid] # 0
      BY <3>2, Lengths
    <3>4. acked[p.sid] \cup p.bytes = 0..(off[p.sid] - 1)
      BY <2>2, <3>2, <3>3 DEF Complete
    <3>5. acked'[p.sid] = acked[p.sid] \cup p.bytes
      BY <1>5, <2>2, <3>1
    <3>6. r_got[p.sid] \subseteq 0..(off[p.sid] - 1)
      BY <1>1, <3>1 DEF Arrived
    <3> QED BY <1>7, <2>2, <3>1, <3>2, <3>4, <3>5, <3>6
  <2> QED BY <2>1, <2>2
<1>9. WholeBlocks' /\ Stable
  BY <1>1, <1>3, <1>5, <1>8 DEF WholeBlocks, Stable, Live
<1>10. PacketsSound'
  <2>1. PICK q : q = pkt
    OBVIOUS
  <2>2. Sound(q)'
    BY <1>1, <1>9, <2>1, SoundKept DEF PacketsSound
  <2>3. Sound(pkt)'
    BY <1>3, <2>1, <2>2 DEF Sound, FrameTells
  <2> QED BY <1>1, <1>9, <2>3, NetSound
<1>11. Numbered'
  <2>1. \A q \in net' : q.pn # 0 => q \in net /\ (p \notin net \/ q # p)
    BY <1>1, <1>2 DEF Numbered
  <2> QED BY <1>1, <1>2, <1>3, <2>1, NumberFreed
<1>12. Arrived'
  BY <1>1, <1>2, <1>3, <1>7, ArrivedKept
<1>13. Ends'
  BY <1>1, <1>9, EndsKept
<1>14. RP!IInv' /\ RP!Delivered'
  BY <1>1, <1>3, ReceiverRests
<1>15. Promise
  <2>1. CASE UNCHANGED st
    BY <1>1, <1>3, <2>1, SamePromise
  <2>2. CASE /\ p.sid \in Ids /\ Live(p.sid) /\ st' = [st EXCEPT ![p.sid] = "collected"]
             /\ fin_off[p.sid] # NoFin /\ r_got[p.sid] = 0..(off[p.sid] - 1)
    <3>1. [i \in Ids |-> st'[i] = "collected"]
             = [[i \in Ids |-> st[i] = "collected"] EXCEPT ![p.sid] = TRUE]
      BY <1>5, <2>2
    <3>2. [i \in Ids |-> fin_off[i] # NoFin][p.sid]
      BY <2>2
    <3>3. D!Settle(p.sid)
      BY <1>1, <1>3, <2>2, <3>1, <3>2 DEF D!Settle
    <3> QED BY <2>2, <3>3 DEF Promise, D!Next
  <2> QED BY <1>8, <2>1, <2>2
<1> QED BY <1>4, <1>9, <1>10, <1>11, <1>12, <1>13, <1>14, <1>15 DEF TInv

-----------------------------------------------------------------------------
(* The network, and the end of a packet's processing *)

LEMMA Tr_DropPacket ==
    ASSUME TInv, DropPacket
    PROVE  TInv' /\ Promise
<1> USE DEF rVars, vars, streamVars, mapVars, flowVars, recVars, callVars, histVars
<1>1. /\ Inv1 /\ WholeBlocks /\ PacketsSound /\ Numbered /\ Arrived /\ Ends
      /\ UNCHANGED <<vars, rVars, arriving, accepted>> /\ net' \subseteq net
  BY DEF TInv, DropPacket
<1>2. Inv1' /\ WholeBlocks' /\ Stable /\ Sound(pkt)'
  BY <1>1, SenderRests DEF PacketsSound
<1>3. PacketsSound'
  BY <1>1, <1>2, NetSound
<1>4. RP!IInv' /\ RP!Delivered'
  BY <1>1, ReceiverRests DEF TInv
<1>5. Numbered' /\ Arrived' /\ Ends'
  BY <1>1 DEF Numbered, Arrived, Ends
<1>6. Promise
  BY <1>1, SamePromise
<1> QED BY <1>2, <1>3, <1>4, <1>5, <1>6 DEF TInv

LEMMA Tr_PacketArrives ==
    ASSUME TInv, PacketArrives
    PROVE  TInv' /\ Promise
<1> USE DEF rVars, vars, streamVars, mapVars, flowVars, recVars, callVars, histVars
<1>1. /\ Inv1 /\ WholeBlocks /\ PacketsSound /\ Numbered /\ Arrived /\ Ends
      /\ UNCHANGED <<vars, rVars, accepted>> /\ arriving = EmptyPkt
  BY DEF TInv, PacketArrives, Arrives, Quiet
<1>2. PICK q \in net : net' = net \ {q} /\ arriving' = q
  BY DEF PacketArrives, Arrives
<1>3. Inv1' /\ WholeBlocks' /\ Stable /\ Sound(pkt)'
  BY <1>1, SenderRests DEF PacketsSound
<1>4. PacketsSound'
  <2>1. \A p \in net : Sound(p)'
    BY <1>1, <1>3, SoundKept DEF PacketsSound
  <2>2. Sound(arriving)'
    BY <1>2, <2>1 DEF Sound, FrameTells
  <2> QED BY <1>2, <1>3, <2>1, <2>2 DEF PacketsSound
<1>5. RP!IInv' /\ RP!Delivered'
  BY <1>1, ReceiverRests DEF TInv
<1>6. q.pn # 0 => q \in sent /\ q.pn \notin accepted
  BY <1>1 DEF Numbered
<1>7. Numbered'
  <2>1. ASSUME NEW p \in net', p.pn # 0 PROVE p \in sent /\ p.pn \notin accepted /\ p.pn # q.pn
    BY <1>1, <1>2, <2>1 DEF Numbered
  <2> QED BY <1>1, <1>2, <1>6, <2>1 DEF Numbered
<1>8. Arrived'
  <2>1. ASSUME NEW p \in sent, p.pn = q.pn PROVE p = q
    BY <1>1, <1>6, <2>1 DEF Numbered
  <2> QED BY <1>1, <1>2, <2>1 DEF Arrived
<1>9. Ends'
  BY <1>1 DEF Ends
<1>10. Promise
  BY <1>1, SamePromise
<1> QED BY <1>3, <1>4, <1>5, <1>7, <1>8, <1>9, <1>10 DEF TInv

\* A packet is recorded when all its frames were taken; the STREAM frame, if it
\* had one, has arrived
LEMMA Tr_Record ==
    ASSUME TInv, Record
    PROVE  TInv' /\ Promise
<1> USE DEF rVars, vars, streamVars, mapVars, flowVars, recVars, callVars, histVars
<1>1. /\ Inv1 /\ WholeBlocks /\ PacketsSound /\ Numbered /\ Arrived /\ Ends
      /\ UNCHANGED <<vars, rVars, net>> /\ arriving' = EmptyPkt
      /\ arriving # EmptyPkt /\ arriving = [EmptyPkt EXCEPT !.pn = arriving.pn]
      /\ accepted' = IF r_error = "none" THEN accepted \cup {arriving.pn} ELSE accepted
  BY DEF TInv, Record
<1>2. Inv1' /\ WholeBlocks' /\ Stable /\ Sound(pkt)'
  BY <1>1, SenderRests DEF PacketsSound
<1>3. PacketsSound'
  <2>1. \A p \in net : Sound(p)'
    BY <1>1, <1>2, SoundKept DEF PacketsSound
  <2>2. Sound(arriving)'
    BY <1>1, EmptyPktType DEF Sound, EmptyPkt
  <2> QED BY <1>1, <1>2, <2>1, <2>2 DEF PacketsSound
<1>4. RP!IInv' /\ RP!Delivered'
  BY <1>1, ReceiverRests DEF TInv
<1>5. arriving.pn # 0 /\ arriving.sid = NoId /\ arriving'.pn = 0
  BY <1>1 DEF EmptyPkt
<1>6. Numbered'
  <2>1. accepted' \subseteq accepted \cup {arriving.pn}
    BY <1>1
  <2> QED BY <1>1, <1>5, <2>1 DEF Numbered
<1>7. Arrived'
  <2>1. ASSUME NEW p \in sent, p.sid # NoId, p.pn \in accepted'
        PROVE  p.bytes \subseteq r_got[p.sid]
    <3>1. CASE p.pn \in accepted
      BY <1>1, <2>1, <3>1 DEF Arrived
    <3>2. CASE p.pn = arriving.pn /\ r_error = "none"
      BY <1>1, <1>5, <2>1, <3>2 DEF Arrived
    <3> QED BY <1>1, <2>1, <3>1, <3>2
  <2>2. \A p \in sent : p.pn # arriving'.pn
    BY <1>1, <1>5 DEF Numbered
  <2> QED BY <1>1, <2>1, <2>2 DEF Arrived
<1>8. Ends'
  BY <1>1 DEF Ends
<1>9. Promise
  BY <1>1, SamePromise
<1> QED BY <1>2, <1>3, <1>4, <1>6, <1>7, <1>8, <1>9 DEF TInv

-----------------------------------------------------------------------------
(* The receiver takes the frames of the arriving packet *)

\* What is left of a sound packet is sound
LEMMA PartSound ==
    ASSUME NEW p, Sound(p), NEW q \in Packet, q.resets \subseteq p.resets,
           q.sid = NoId \/ (q.sid = p.sid /\ q.bytes = p.bytes /\ q.end = p.end /\ q.fin = p.fin)
    PROVE  Sound(q)
<1>1. q.sid # NoId => Frame(q) = Frame(p)
  BY DEF Frame
<1> QED BY <1>1 DEF Sound, FrameTells

\* What a step of the receiver has to keep
LEMMA ReceiverKept ==
    ASSUME TInv, UNCHANGED <<vars, net, accepted>>, RP!IInv', RP!Delivered', Ends',
           NEW q, arriving' = q, Sound(q), q.pn \in {0, arriving.pn},
           \A id \in Ids : r_got[id] \subseteq r_got'[id] /\ r_got'[id] \subseteq 0..(off[id] - 1),
           r_error # "none" => r_error' # "none",
           \/ q.pn = 0 \/ (q.sid = arriving.sid /\ q.bytes = arriving.bytes)
           \/ r_error' # "none"
           \/ arriving.sid # NoId => arriving.bytes \subseteq r_got'[arriving.sid]
    PROVE  TInv'
<1> USE DEF vars, streamVars, mapVars, flowVars, recVars, callVars, histVars
<1>1. Inv1 /\ WholeBlocks /\ PacketsSound /\ Numbered /\ Arrived
  BY DEF TInv
<1>2. Inv1' /\ WholeBlocks' /\ Stable /\ Sound(pkt)'
  BY <1>1, SenderRests DEF PacketsSound
<1>3. PacketsSound'
  <2>1. \A p \in net : Sound(p)'
    BY <1>1, <1>2, SoundKept DEF PacketsSound
  <2>2. Sound(q)'
    BY <1>2, SoundKept
  <2>3. Sound(arriving)'
    BY <2>2 DEF Sound, FrameTells
  <2> QED BY <1>2, <2>1, <2>3 DEF PacketsSound
<1>4. Numbered'
  BY <1>1 DEF Numbered
<1>5. Arrived'
  <2>1. \A p \in sent : p.pn # 0 /\ (p.sid # NoId => p.sid \in Ids)
    BY <1>1 DEF Numbered, Inv1, TypeOK, Packet
  <2>2. ASSUME NEW p \in sent, p.sid # NoId, p.pn = q.pn
        PROVE  \/ q.sid = p.sid /\ q.bytes = p.bytes
               \/ p.bytes \subseteq r_got'[p.sid]
               \/ r_error' # "none"
    <3>1. p.pn = arriving.pn /\ q.pn # 0 /\ p.sid \in Ids
      BY <2>1, <2>2
    <3>2. \/ arriving.sid = p.sid /\ arriving.bytes = p.bytes
          \/ p.bytes \subseteq r_got[p.sid]
          \/ r_error # "none"
      BY <1>1, <2>2, <3>1 DEF Arrived
    <3> QED BY <2>2, <3>1, <3>2
  <2>3. ASSUME NEW p \in sent, p.sid # NoId, p.pn \in accepted PROVE p.bytes \subseteq r_got'[p.sid]
    BY <1>1, <2>1, <2>3 DEF Arrived
  <2>4. \A id \in Ids : acked[id] \subseteq r_got'[id] /\ r_got'[id] \subseteq 0..(off[id] - 1)
    BY <1>1 DEF Arrived
  <2> QED BY <2>2, <2>3, <2>4 DEF Arrived
<1> QED BY <1>2, <1>3, <1>4, <1>5 DEF TInv

LEMMA SenderWaits ==
    ASSUME ReceiverMoves \/ OnlyReceiver, now' = now
    PROVE  UNCHANGED <<vars, net>>
BY DEF ReceiverMoves, OnlyReceiver, netVars, vars

LEMMA PacketParts ==
    ASSUME Sound(arriving)
    PROVE  /\ arriving \in Packet /\ EmptyPkt \in Packet /\ EmptyPkt.sid = NoId /\ EmptyPkt.pn = 0
           /\ EmptyPkt.resets = {}
           /\ \A r \in arriving.resets : r[1] \in Ids
           /\ \A id \in arriving.infos : id \in Ids
           /\ arriving.sid # NoId => arriving.sid \in Ids
BY EmptyPktType DEF Sound, Packet, EmptyPkt

LEMMA RefusedPacket ==
    ASSUME TInv, ReceiverMoves, Refuse
    PROVE  TInv' /\ Promise
<1> USE DEF rVars
<1>1. PICK q : q = EmptyPkt
  OBVIOUS
<1>2. UNCHANGED <<rVars, now, accepted>> /\ arriving' = q /\ RP!IInv /\ RP!Delivered /\ Ends /\ Arrived /\ Sound(arriving)
  BY <1>1 DEF Refuse, TInv, PacketsSound
<1>3. UNCHANGED <<vars, net>>
  BY <1>2, SenderWaits
<1>4. RP!IInv' /\ RP!Delivered'
  BY <1>2, ReceiverRests
<1>5. UNCHANGED <<off, fin_off, shutdown, st>>
  BY <1>3 DEF vars, streamVars
<1>6. Ends'
  BY <1>2, <1>5 DEF Ends
<1>7. Sound(q) /\ q.pn = 0
  BY <1>1, EmptyPktSound DEF EmptyPkt
<1>8. \A id \in Ids : r_got[id] \subseteq r_got'[id] /\ r_got'[id] \subseteq 0..(off[id] - 1)
  BY <1>2 DEF Arrived
<1>9. TInv'
  BY <1>2, <1>3, <1>4, <1>6, <1>7, <1>8, ReceiverKept
<1>10. Promise
  BY <1>2, <1>5, SamePromise
<1> QED BY <1>9, <1>10

LEMMA Tr_ResetFrame ==
    ASSUME TInv, ResetFrame
    PROVE  TInv' /\ Promise
<1> USE DEF rVars
<1>1. ReceiverMoves /\ r_error = "none" /\ RP!IInv /\ RP!Delivered /\ Ends /\ Arrived /\ Sound(arriving)
  BY DEF ResetFrame, ReceiverMoves, TInv, PacketsSound
<1>2. PICK r \in arriving.resets :
         \/ Refuse
         \/ /\ arriving' = [arriving EXCEPT !.resets = @ \ {r}] /\ UNCHANGED <<now, accepted>>
            /\ UNCHANGED rVars \/ (r_st[r[1]] # "collected" /\ R!RecvReset(r[1]))
  BY DEF ResetFrame, Processed
<1>3. r[1] \in Ids /\ shutdown[r[1]]
  BY <1>1, PacketParts DEF Sound
<1>4. CASE Refuse
  BY <1>1, <1>4, RefusedPacket
<1>5. CASE /\ arriving' = [arriving EXCEPT !.resets = @ \ {r}] /\ UNCHANGED <<now, accepted>>
           /\ UNCHANGED rVars \/ (r_st[r[1]] # "collected" /\ R!RecvReset(r[1]))
  <2>1. UNCHANGED <<vars, net>>
    BY <1>1, <1>5, SenderWaits
  <2>2. UNCHANGED <<off, fin_off, shutdown, st>>
    BY <2>1 DEF vars, streamVars
  <2>3. PICK q : q = [arriving EXCEPT !.resets = @ \ {r}]
    OBVIOUS
  <2>4. /\ q \in Packet /\ q.resets \subseteq arriving.resets
        /\ q.sid = arriving.sid /\ q.bytes = arriving.bytes /\ q.end = arriving.end
        /\ q.fin = arriving.fin /\ q.pn = arriving.pn
    BY <1>1, <2>3, PacketParts DEF Packet
  <2>5. Sound(q)
    <3>1. PICK a : a = arriving
      OBVIOUS
    <3> QED BY <1>1, <2>4, <3>1, PartSound
  <2>6. CASE UNCHANGED rVars
    <3>1. RP!IInv' /\ RP!Delivered'
      BY <1>1, <1>5, <2>6, ReceiverRests
    <3>2. Ends'
      BY <1>1, <2>2, <2>6 DEF Ends
    <3>3. \A id \in Ids : r_got[id] \subseteq r_got'[id] /\ r_got'[id] \subseteq 0..(off[id] - 1)
      BY <1>1, <2>6 DEF Arrived
    <3>4. TInv'
      BY <1>1, <1>5, <2>1, <2>3, <2>4, <2>5, <2>6, <3>1, <3>2, <3>3, ReceiverKept
    <3> QED BY <2>2, <2>6, <3>4, SamePromise
  <2>7. CASE r_st[r[1]] # "collected" /\ R!RecvReset(r[1])
    <3>1. RP!RecvReset(r[1])
      BY <2>7, SameReceiver
    <3>2. RP!IInv'
      BY <1>1, <1>3, <3>1, RP!I_RecvReset, ReceiverConstants
    <3>3. RP!Delivered'
      BY <1>1, <1>3, <3>1, RP!V_Others, ReceiverConstants
    <3>4. /\ RP!SameCollected /\ UNCHANGED <<r_off, r_got>>
          /\ \/ UNCHANGED <<r_drain, r_fin_off>>
             \/ /\ r_drain' = [r_drain EXCEPT ![r[1]] = TRUE]
                /\ \A i \in Ids : i # r[1] => r_fin_off'[i] = r_fin_off[i]
      BY <1>1, <1>3, <3>1, RP!E_RecvReset, ReceiverConstants
    <3>5. r_drain \in [Ids -> BOOLEAN]
      BY <1>1 DEF RP!IInv, RP!TypeOK
    <3>6. Ends'
      BY <1>1, <1>3, <2>2, <3>4, <3>5 DEF Ends
    <3>7. \A id \in Ids : r_got[id] \subseteq r_got'[id] /\ r_got'[id] \subseteq 0..(off[id] - 1)
      BY <1>1, <3>4 DEF Arrived
    <3>8. TInv'
      BY <1>1, <1>5, <2>1, <2>3, <2>4, <2>5, <3>2, <3>3, <3>6, <3>7, ReceiverKept
    <3>9. Promise
      <4>1. \A id \in Ids : r_st'[id] = "collected" <=> r_st[id] = "collected"
        BY <3>4 DEF RP!SameCollected
      <4>2. CASE UNCHANGED r_drain
        BY <2>2, <3>4, <4>1, <4>2, SamePromise
      <4>3. CASE r_drain' = [r_drain EXCEPT ![r[1]] = TRUE]
        <5>1. ~[id \in Ids |-> r_st[id] = "collected"][r[1]]
          BY <1>3, <2>7
        <5>2. [id \in Ids |-> r_st'[id] = "collected"] = [id \in Ids |-> r_st[id] = "collected"]
          BY <4>1
        <5>3. D!Stop(r[1])
          BY <1>3, <2>2, <3>4, <4>3, <5>1, <5>2 DEF D!Stop
        <5> QED BY <1>3, <5>3 DEF Promise, D!Next
      <4> QED BY <3>4, <4>2, <4>3
    <3> QED BY <3>8, <3>9
  <2> QED BY <1>5, <2>6, <2>7
<1> QED BY <1>2, <1>4, <1>5

LEMMA Tr_InfoFrame ==
    ASSUME TInv, InfoFrame
    PROVE  TInv' /\ Promise
<1> USE DEF rVars
<1>1. ReceiverMoves /\ r_error = "none" /\ RP!IInv /\ RP!Delivered /\ Ends /\ Arrived /\ Sound(arriving)
  BY DEF InfoFrame, ReceiverMoves, TInv, PacketsSound
<1>2. PICK id \in arriving.infos :
         \/ Refuse
         \/ /\ arriving' = [arriving EXCEPT !.infos = @ \ {id}] /\ UNCHANGED <<now, accepted>>
            /\ UNCHANGED rVars \/ R!RecvInfo(id)
  BY DEF InfoFrame, Processed
<1>3. id \in Ids
  BY <1>1, PacketParts
<1>4. CASE Refuse
  BY <1>1, <1>4, RefusedPacket
<1>5. CASE /\ arriving' = [arriving EXCEPT !.infos = @ \ {id}] /\ UNCHANGED <<now, accepted>>
           /\ UNCHANGED rVars \/ R!RecvInfo(id)
  <2>1. UNCHANGED <<vars, net>>
    BY <1>1, <1>5, SenderWaits
  <2>2. UNCHANGED <<off, fin_off, shutdown, st>>
    BY <2>1 DEF vars, streamVars
  <2>3. PICK q : q = [arriving EXCEPT !.infos = @ \ {id}]
    OBVIOUS
  <2>4. /\ q \in Packet /\ q.resets = arriving.resets
        /\ q.sid = arriving.sid /\ q.bytes = arriving.bytes /\ q.end = arriving.end
        /\ q.fin = arriving.fin /\ q.pn = arriving.pn
    BY <1>1, <2>3, PacketParts DEF Packet
  <2>5. Sound(q)
    <3>1. PICK a : a = arriving
      OBVIOUS
    <3> QED BY <1>1, <2>4, <3>1, PartSound
  <2>6. /\ RP!IInv' /\ RP!Delivered' /\ UNCHANGED <<r_off, r_drain, r_fin_off, r_got>>
        /\ \A i \in Ids : r_st'[i] = "collected" <=> r_st[i] = "collected"
    <3>1. CASE UNCHANGED rVars
      BY <1>1, <1>5, <3>1, ReceiverRests
    <3>2. CASE R!RecvInfo(id)
      <4>1. RP!RecvInfo(id)
        BY <3>2, SameReceiver
      <4>2. RP!IInv'
        BY <1>1, <1>3, <4>1, RP!I_RecvInfo, ReceiverConstants
      <4>3. RP!Delivered'
        BY <1>1, <1>3, <4>1, RP!V_Others, ReceiverConstants
      <4>4. RP!SameCollected /\ UNCHANGED <<r_off, r_drain, r_fin_off, r_got>>
        BY <1>1, <1>3, <4>1, RP!E_RecvInfo, ReceiverConstants
      <4> QED BY <4>2, <4>3, <4>4 DEF RP!SameCollected
    <3> QED BY <1>5, <3>1, <3>2
  <2>7. Ends'
    BY <1>1, <2>2, <2>6 DEF Ends
  <2>8. \A i \in Ids : r_got[i] \subseteq r_got'[i] /\ r_got'[i] \subseteq 0..(off[i] - 1)
    BY <1>1, <2>6 DEF Arrived
  <2>9. TInv'
    BY <1>1, <1>5, <2>1, <2>3, <2>4, <2>5, <2>6, <2>7, <2>8, ReceiverKept
  <2>10. Promise
    BY <2>2, <2>6, SamePromise
  <2> QED BY <2>9, <2>10
<1> QED BY <1>2, <1>4, <1>5

\* The bytes of a collected stream have arrived before
LEMMA CollectedGot ==
    ASSUME RP!IInv, RP!Delivered, NEW id \in Ids, r_st[id] = "collected"
    PROVE  0..(BlockLen - 1) \subseteq r_got[id]
<1>1. r_off \in [Ids -> Nat] /\ r_fin_off[id] \in {RP!NoFin, BlockLen}
  BY DEF RP!IInv, RP!TypeOK, RP!Streams, RP!StreamOK
<1>2. r_fin_off[id] = r_off[id] /\ \A n \in Nat : n < r_off[id] => n \in r_got[id]
  BY DEF RP!Delivered
<1>3. r_off[id] = BlockLen
  BY <1>1, <1>2 DEF RP!NoFin
<1> QED BY <1>2, <1>3, Lengths

LEMMA Tr_StreamFrame ==
    ASSUME TInv, StreamFrame
    PROVE  TInv' /\ Promise
<1> USE DEF rVars
<1>1. /\ ReceiverMoves /\ r_error = "none" /\ RP!IInv /\ RP!Delivered /\ Ends /\ Arrived
      /\ Sound(arriving) /\ arriving.sid # NoId /\ Inv1
  BY DEF StreamFrame, ReceiverMoves, TInv, PacketsSound
<1>2. PICK id, f, bytes : id = arriving.sid /\ f = Frame(arriving) /\ bytes = arriving.bytes
  OBVIOUS
<1>3. /\ arriving' = [EmptyPkt EXCEPT !.pn = arriving.pn] /\ UNCHANGED <<now, accepted>>
      /\ \/ UNCHANGED rVars /\ r_st[id] = "collected"
         \/ R!RecvStream(id, f) \/ R!RecvStreamError(id, f)
  BY <1>2 DEF StreamFrame, Processed
<1>4. /\ id \in Ids /\ RP!Fits(f) /\ RP!Bytes(f) = bytes /\ off[id] = BlockLen
      /\ f.fin => fin_off[id] # NoFin
  <2>1. f.fin = arriving.fin
    BY <1>2 DEF Frame
  <2> QED BY <1>1, <1>2, <2>1, PacketParts DEF Sound, FrameTells
<1>5. bytes \subseteq 0..(BlockLen - 1)
  BY <1>4, Lengths DEF RP!Fits, RP!Bytes, RP!Chunk
<1>6. UNCHANGED <<vars, net>>
  BY <1>1, <1>3, SenderWaits
<1>7. UNCHANGED <<off, fin_off, shutdown, st>>
  BY <1>6 DEF vars, streamVars
<1>8. PICK q : q = [EmptyPkt EXCEPT !.pn = arriving.pn]
  OBVIOUS
<1>9. q.pn = arriving.pn /\ q.sid = NoId /\ Sound(q)
  <2>1. arriving.pn \in Nat
    BY <1>1 DEF Sound, Packet
  <2>2. q \in Packet /\ q.pn = arriving.pn /\ q.sid = NoId /\ q.resets = {}
    BY <1>8, <2>1, EmptyPktType DEF EmptyPkt, Packet
  <2> QED BY <2>2 DEF Sound
<1>10. CASE UNCHANGED rVars /\ r_st[id] = "collected"
  <2>1. RP!IInv' /\ RP!Delivered'
    BY <1>1, <1>3, <1>10, ReceiverRests
  <2>2. Ends'
    BY <1>1, <1>7, <1>10 DEF Ends
  <2>3. \A i \in Ids : r_got[i] \subseteq r_got'[i] /\ r_got'[i] \subseteq 0..(off[i] - 1)
    BY <1>1, <1>10 DEF Arrived
  <2>4. arriving.bytes \subseteq r_got'[arriving.sid]
    BY <1>1, <1>2, <1>4, <1>5, <1>10, CollectedGot
  <2>5. TInv'
    BY <1>1, <1>3, <1>6, <1>8, <1>9, <2>1, <2>2, <2>3, <2>4, ReceiverKept
  <2> QED BY <1>7, <1>10, <2>5, SamePromise
<1>11. CASE R!RecvStream(id, f)
  <2>1. RP!RecvStream(id, f)
    BY <1>11, SameReceiver
  <2>2. RP!IInv'
    BY <1>1, <1>4, <2>1, RP!I_RecvStream, ReceiverConstants
  <2>3. RP!Delivered'
    BY <1>1, <1>4, <2>1, RP!V_RecvStream, ReceiverConstants
  <2>4. /\ RP!SameCollected /\ UNCHANGED <<r_off, r_drain, r_error>>
        /\ r_got' = [r_got EXCEPT ![id] = @ \cup bytes]
        /\ \A i \in Ids : r_fin_off'[i] = r_fin_off[i] \/ (i = id /\ f.fin)
    BY <1>1, <1>4, <2>1, RP!E_RecvStream, ReceiverConstants
  <2>5. r_got \in [Ids -> SUBSET Nat]
    BY <1>1 DEF RP!IInv, RP!TypeOK
  <2>6. Ends'
    BY <1>1, <1>4, <1>7, <2>4 DEF Ends
  <2>7. /\ \A i \in Ids : r_got[i] \subseteq r_got'[i] /\ r_got'[i] \subseteq 0..(off[i] - 1)
        /\ bytes \subseteq r_got'[id]
    BY <1>1, <1>4, <1>5, <2>4, <2>5 DEF Arrived
  <2>8. TInv'
    BY <1>1, <1>2, <1>3, <1>6, <1>8, <1>9, <2>2, <2>3, <2>4, <2>6, <2>7, ReceiverKept
  <2>9. D!Arrive(id)
    <3>1. bytes \in SUBSET (0..(off[id] - 1))
      BY <1>4, <1>5
    <3>2. [i \in Ids |-> r_st'[i] = "collected"] = [i \in Ids |-> r_st[i] = "collected"]
      BY <2>4 DEF RP!SameCollected
    <3> QED BY <1>7, <2>4, <3>1, <3>2 DEF D!Arrive
  <2> QED BY <1>4, <2>8, <2>9 DEF Promise, D!Next
<1>12. CASE R!RecvStreamError(id, f)
  <2>1. RP!RecvStreamError(id, f)
    BY <1>12, SameReceiver
  <2>2. RP!IInv'
    BY <1>1, <1>4, <2>1, RP!I_RecvStreamError, ReceiverConstants
  <2>3. RP!Delivered'
    BY <1>1, <1>4, <2>1, RP!V_Others, ReceiverConstants
  <2>4. /\ RP!SameCollected /\ UNCHANGED <<r_off, r_drain, r_fin_off, r_got>>
        /\ r_error' # "none"
    BY <1>1, <1>4, <2>1, RP!E_RecvStreamError, ReceiverConstants
  <2>5. Ends'
    BY <1>1, <1>7, <2>4 DEF Ends
  <2>6. \A i \in Ids : r_got[i] \subseteq r_got'[i] /\ r_got'[i] \subseteq 0..(off[i] - 1)
    BY <1>1, <2>4 DEF Arrived
  <2>7. TInv'
    BY <1>1, <1>3, <1>6, <1>8, <1>9, <2>2, <2>3, <2>4, <2>5, <2>6, ReceiverKept
  <2>8. \A i \in Ids : r_st'[i] = "collected" <=> r_st[i] = "collected"
    BY <2>4 DEF RP!SameCollected
  <2>9. Promise
    BY <1>7, <2>4, <2>8, SamePromise
  <2> QED BY <2>7, <2>9
<1> QED BY <1>3, <1>10, <1>11, <1>12

-----------------------------------------------------------------------------
(* The receiver alone: the loop of push, the application, credit *)

LEMMA Tr_OnlyReceiver ==
    ASSUME TInv, PushGoesOn \/ Reads \/ Advertises
    PROVE  TInv' /\ Promise
<1> USE DEF rVars
<1>1. /\ OnlyReceiver /\ RP!IInv /\ RP!Delivered /\ Ends /\ Arrived /\ Sound(arriving) /\ Inv1
      /\ RP!PushStep \/ RP!ReadStep \/ RP!CreditStep
  BY SameReceiver DEF PushGoesOn, Reads, Advertises, TInv, PacketsSound
<1>2. PICK q : q = arriving
  OBVIOUS
<1>3. /\ RP!IInv' /\ RP!Delivered' /\ UNCHANGED <<r_fin_off, r_drain, r_got, r_error, now>>
      /\ \/ UNCHANGED <<r_off, r_st>>
         \/ /\ r_cur \in Ids /\ r_st[r_cur] = "live" /\ ~r_drain[r_cur] /\ UNCHANGED r_st
            /\ \E n \in Nat : n >= r_off[r_cur] /\ r_off' = [r_off EXCEPT ![r_cur] = n]
         \/ /\ r_cur \in Ids /\ r_st[r_cur] = "live" /\ ~r_drain[r_cur] /\ UNCHANGED r_off
            /\ r_fin_off[r_cur] = r_off[r_cur] /\ r_st' = [r_st EXCEPT ![r_cur] = "collected"]
  <2>1. RP!IInv'
    BY <1>1, RP!IInvStep, ReceiverConstants DEF RP!Next
  <2>2. CASE RP!PushStep
    <3>1. RP!Delivered'
      BY <1>1, <2>2, RP!V_Push, ReceiverConstants
    <3>2. UNCHANGED <<r_st, r_off, r_fin_off, r_drain, r_got, r_error, now>>
      BY <2>2, RP!E_Push, ReceiverConstants
    <3> QED BY <2>1, <3>1, <3>2
  <2>3. CASE RP!ReadStep
    <3>1. UNCHANGED <<r_fin_off, r_error, now>>
      BY <2>3, RP!E_ReadCredit, ReceiverConstants
    <3> QED BY <1>1, <2>1, <2>3, <3>1, RP!V_Read, ReceiverConstants DEF RP!Live
  <2>4. CASE RP!CreditStep
    <3>1. UNCHANGED <<r_fin_off, r_error, now>>
      BY <2>4, RP!E_ReadCredit, ReceiverConstants
    <3>2. RP!Delivered' /\ UNCHANGED <<r_st, r_off, r_fin_off, r_drain, r_got>>
      BY <1>1, <2>4, RP!V_Credit, ReceiverConstants
    <3> QED BY <2>1, <3>1, <3>2
  <2> QED BY <1>1, <2>2, <2>3, <2>4
<1>4. UNCHANGED <<vars, net>> /\ arriving' = q /\ accepted' = accepted
  BY <1>1, <1>2, <1>3, SenderWaits DEF OnlyReceiver, netVars
<1>5. UNCHANGED <<off, fin_off, shutdown, st>>
  BY <1>4 DEF vars, streamVars
<1>6. Ends'
  BY <1>1, <1>3, <1>5 DEF Ends
<1>7. \A i \in Ids : r_got[i] \subseteq r_got'[i] /\ r_got'[i] \subseteq 0..(off[i] - 1)
  BY <1>1, <1>3 DEF Arrived
<1>8. Sound(q) /\ q.pn = arriving.pn /\ q.sid = arriving.sid /\ q.bytes = arriving.bytes
  BY <1>1, <1>2
<1>9. TInv'
  BY <1>3, <1>4, <1>6, <1>7, <1>8, ReceiverKept
<1>10. Promise
  <2>1. /\ r_off \in [Ids -> Nat] /\ r_st \in [Ids -> {"none", "live", "collected"}]
        /\ off \in [Ids -> Nat] /\ \A i \in Ids : r_fin_off[i] \in {RP!NoFin, BlockLen}
    BY <1>1 DEF RP!IInv, RP!TypeOK, RP!Streams, RP!StreamOK, Inv1, TypeOK
  <2>2. CASE UNCHANGED <<r_off, r_st>>
    BY <1>3, <1>5, <2>2, SamePromise
  <2>3. CASE /\ r_cur \in Ids /\ r_st[r_cur] = "live" /\ ~r_drain[r_cur] /\ UNCHANGED r_st
             /\ \E n \in Nat : n >= r_off[r_cur] /\ r_off' = [r_off EXCEPT ![r_cur] = n]
    <3>1. PICK n \in Nat : n >= r_off[r_cur] /\ r_off' = [r_off EXCEPT ![r_cur] = n]
      BY <2>3
    <3>2. r_off'[r_cur] = n
      BY <2>1, <2>3, <3>1
    <3>3. \A m \in Nat : m < n => m \in r_got[r_cur]
      BY <1>3, <2>3, <3>2 DEF RP!Delivered
    <3>4. 0..(n - 1) \subseteq r_got[r_cur]
      BY <3>1, <3>3
    <3>5. n <= off[r_cur]
      <4>1. n = 0 \/ n - 1 \in r_got[r_cur]
        BY <3>1, <3>4
      <4>2. r_got[r_cur] \subseteq 0..(off[r_cur] - 1) /\ off[r_cur] \in Nat
        BY <1>1, <2>1, <2>3 DEF Arrived
      <4> QED BY <3>1, <4>1, <4>2
    <3>6. n \in r_off[r_cur]..off[r_cur]
      BY <2>1, <2>3, <3>1, <3>5
    <3>7. ~[i \in Ids |-> r_st[i] = "collected"][r_cur]
      BY <2>3
    <3>8. D!Read(r_cur)
      BY <1>3, <1>5, <2>3, <3>1, <3>4, <3>6, <3>7 DEF D!Read
    <3> QED BY <2>3, <3>8 DEF Promise, D!Next
  <2>4. CASE /\ r_cur \in Ids /\ r_st[r_cur] = "live" /\ ~r_drain[r_cur] /\ UNCHANGED r_off
             /\ r_fin_off[r_cur] = r_off[r_cur] /\ r_st' = [r_st EXCEPT ![r_cur] = "collected"]
    <3>1. PICK c \in Ids : c = r_cur
      BY <2>4
    <3>2. /\ r_st[c] = "live" /\ ~r_drain[c] /\ r_fin_off[c] = r_off[c]
          /\ r_st' = [r_st EXCEPT ![c] = "collected"] /\ UNCHANGED r_off
      BY <2>4, <3>1
    <3>3. r_fin_off[c] # RP!NoFin /\ r_off[c] = BlockLen
      BY <2>1, <3>2 DEF RP!NoFin
    <3>4. fin_off[c] # NoFin /\ off[c] = BlockLen
      BY <1>1, <3>2, <3>3 DEF Ends
    <3>5. [i \in Ids |-> r_st'[i] = "collected"]
             = [[i \in Ids |-> r_st[i] = "collected"] EXCEPT ![c] = TRUE]
      BY <2>1, <3>2
    <3>6. [i \in Ids |-> fin_off[i] # NoFin][c] /\ r_off[c] = off[c]
      BY <3>3, <3>4
    <3>7. D!Close(c)
      BY <1>3, <1>5, <3>2, <3>5, <3>6 DEF D!Close
    <3> QED BY ONLY <3>7 DEF Promise, D!Next
  <2> QED BY <1>3, <2>2, <2>3, <2>4
<1> QED BY <1>9, <1>10
-----------------------------------------------------------------------------
(* The specification *)

LEMMA TransferInitial == TransferInit => TInv /\ D!Init
<1> SUFFICES ASSUME TransferInit PROVE TInv /\ D!Init
  OBVIOUS
<1>1. /\ Init /\ RP!Init /\ net = {} /\ arriving = EmptyPkt /\ accepted = {}
  BY SameReceiver DEF TransferInit
<1>2. Inv1
  BY <1>1, Inv1Init
<1>3. RP!IInv
  BY <1>1, RP!IInvInit, ReceiverConstants
<1>4. RP!Delivered
  BY <1>1 DEF RP!Init, RP!Delivered, RP!Live
<1>5. WholeBlocks
  BY <1>1, Lengths DEF Init, WholeBlocks
<1>6. PacketsSound
  BY <1>1, EmptyPktSound DEF Init, PacketsSound
<1>7. Numbered
  BY <1>1 DEF Init, Numbered, Composing, EmptyPkt
<1>8. Arrived
  BY <1>1 DEF Init, RP!Init, Arrived
<1>9. Ends
  BY <1>1 DEF RP!Init, Ends
<1>10. D!Init
  <2>1. /\ off = [id \in Ids |-> 0] /\ fin_off = [id \in Ids |-> NoFin]
        /\ shutdown = [id \in Ids |-> FALSE] /\ st = [id \in Ids |-> "none"]
    BY <1>1 DEF Init
  <2>2. /\ r_off = [id \in Ids |-> 0] /\ r_got = [id \in Ids |-> {}]
        /\ r_drain = [id \in Ids |-> FALSE] /\ r_st = [id \in Ids |-> "none"]
    BY <1>1 DEF RP!Init
  <2>3. /\ [id \in Ids |-> fin_off[id] # NoFin] = [id \in Ids |-> FALSE]
        /\ [id \in Ids |-> st[id] = "collected"] = [id \in Ids |-> FALSE]
        /\ [id \in Ids |-> r_st[id] = "collected"] = [id \in Ids |-> FALSE]
    BY <2>1, <2>2
  <2> QED BY <2>1, <2>2, <2>3 DEF D!Init
<1> QED BY <1>2, <1>3, <1>4, <1>5, <1>6, <1>7, <1>8, <1>9, <1>10 DEF TInv

LEMMA TransferRests ==
    ASSUME TInv, UNCHANGED transferVars
    PROVE  TInv' /\ Promise
<1>1. UNCHANGED <<vars, rVars, net, arriving, accepted>>
  BY DEF transferVars, netVars
<1> USE DEF rVars, vars, streamVars, mapVars, flowVars, recVars, callVars, histVars
<1>2. Inv1 /\ WholeBlocks /\ PacketsSound /\ Numbered /\ Arrived /\ Ends
  BY DEF TInv
<1>3. Inv1' /\ WholeBlocks' /\ Stable /\ Sound(pkt)'
  BY <1>1, <1>2, SenderRests DEF PacketsSound
<1>4. PacketsSound'
  BY <1>1, <1>2, <1>3, NetSound
<1>5. RP!IInv' /\ RP!Delivered'
  BY <1>1, ReceiverRests DEF TInv
<1>6. Numbered' /\ Arrived' /\ Ends'
  BY <1>1, <1>2 DEF Numbered, Arrived, Ends
<1>7. Promise
  BY <1>1, SamePromise
<1> QED BY <1>3, <1>4, <1>5, <1>6, <1>7 DEF TInv

LEMMA TransferStep == TInv /\ [TransferNext]_transferVars => TInv' /\ Promise
<1> SUFFICES ASSUME TInv, [TransferNext]_transferVars PROVE TInv' /\ Promise
  OBVIOUS
<1>1. CASE SenderStep
  BY <1>1, Tr_SenderStep
<1>2. CASE Wait
  BY <1>2, Tr_Wait
<1>3. CASE AckArrives
  BY <1>3, Tr_AckArrives
<1>4. CASE LossDetected
  BY <1>4, Tr_LossDetected
<1>5. CASE SpuriousLoss
  BY <1>5, Tr_SpuriousLoss
<1>6. CASE CreditArrives \/ LateCreditArrives
  BY <1>6, Tr_CreditArrives
<1>7. CASE DropPacket
  BY <1>7, Tr_DropPacket
<1>8. CASE PacketArrives
  BY <1>8, Tr_PacketArrives
<1>9. CASE ResetFrame
  BY <1>9, Tr_ResetFrame
<1>10. CASE InfoFrame
  BY <1>10, Tr_InfoFrame
<1>11. CASE StreamFrame
  BY <1>11, Tr_StreamFrame
<1>12. CASE Record
  BY <1>12, Tr_Record
<1>13. CASE PushGoesOn \/ Reads \/ Advertises
  BY <1>13, Tr_OnlyReceiver
<1>14. CASE UNCHANGED transferVars
  BY <1>14, TransferRests
<1> QED
  BY <1>1, <1>2, <1>3, <1>4, <1>5, <1>6, <1>7, <1>8, <1>9, <1>10, <1>11, <1>12, <1>13, <1>14
  DEF TransferNext, Receive

\* BlockTransfer implements BlockDelivery: whatever the network drops, delays
\* or reorders, and whatever the loss timer takes for lost, stream_recv hands
\* the application a prefix of what stream_send was given, a block is reported
\* finished only when it was read to its end, and ack_and_drop's collection
\* forgets a block only when every byte of it has arrived.
THEOREM DeliveryCorrect == TransferSpec => Delivery
<1>1. TransferInit => TInv /\ D!Init
  BY TransferInitial
<1>2. TInv /\ [TransferNext]_transferVars => TInv' /\ [D!Next]_(D!vars)
  BY TransferStep DEF Promise
<1> QED BY <1>1, <1>2, PTL DEF TransferSpec, Delivery, D!Spec

-----------------------------------------------------------------------------
(* What follows for the applications *)

\* The values of BlockDelivery's variables
LEMMA DeliveryTypes ==
    ASSUME TInv
    PROVE  /\ off \in [Ids -> Nat] /\ r_off \in [Ids -> Nat]
           /\ fin_off \in [Ids -> Nat \cup {NoFin}] /\ shutdown \in [Ids -> BOOLEAN]
           /\ r_drain \in [Ids -> BOOLEAN] /\ r_got \in [Ids -> SUBSET Nat]
           /\ st \in [Ids -> {"none", "live", "collected"}]
           /\ r_st \in [Ids -> {"none", "live", "collected"}]
BY DEF TInv, Inv1, TypeOK, RP!IInv, RP!TypeOK

LEMMA FaithfulKept ==
    ASSUME NEW w, NEW f, NEW c, NEW a, NEW r, NEW l, NEW d, NEW t,
           w \in [Ids -> Nat], r \in [Ids -> Nat], a \in [Ids -> SUBSET Nat],
           f \in [Ids -> BOOLEAN], c \in [Ids -> BOOLEAN], l \in [Ids -> BOOLEAN],
           d \in [Ids -> BOOLEAN], t \in [Ids -> BOOLEAN],
           w = off, f = [id \in Ids |-> fin_off[id] # NoFin], c = shutdown, a = r_got,
           r = r_off, l = [id \in Ids |-> r_st[id] = "collected"], d = r_drain,
           t = [id \in Ids |-> st[id] = "collected"],
           NEW i \in Ids,
           D!Write(i) \/ D!Cancel(i) \/ D!Arrive(i) \/ D!Read(i) \/ D!Close(i)
             \/ D!Stop(i) \/ D!Settle(i),
           D!Faithful
    PROVE  D!Faithful'
<1>1. \A id \in Ids :
        /\ a[id] \subseteq 0..(w[id] - 1)
        /\ 0..(r[id] - 1) \subseteq a[id]
        /\ l[id] => f[id] /\ r[id] = w[id] /\ ~d[id]
        /\ d[id] => c[id]
        /\ t[id] => f[id] /\ a[id] = 0..(w[id] - 1)
  BY DEF D!Faithful
<1>2. CASE D!Write(i)
  BY <1>1, <1>2 DEF D!Write, D!Faithful
<1>3. CASE D!Cancel(i)
  BY <1>1, <1>3 DEF D!Cancel, D!Faithful
<1>4. CASE D!Arrive(i)
  <2>1. PICK bytes \in SUBSET (0..(w[i] - 1)) : r_got' = [r_got EXCEPT ![i] = @ \cup bytes]
    BY <1>4 DEF D!Arrive
  <2>2. \A id \in Ids : /\ a[id] \subseteq r_got'[id]
                        /\ r_got'[id] \subseteq 0..(w[id] - 1)
    BY <1>1, <2>1
  <2>3. \A id \in Ids : a[id] = 0..(w[id] - 1) => r_got'[id] = 0..(w[id] - 1)
    BY <2>2
  <2>4. /\ off' = w /\ [id \in Ids |-> fin_off'[id] # NoFin] = f /\ shutdown' = c
        /\ r_off' = r /\ [id \in Ids |-> r_st'[id] = "collected"] = l /\ r_drain' = d
        /\ [id \in Ids |-> st'[id] = "collected"] = t
    BY <1>4 DEF D!Arrive
  <2> QED BY <1>1, <2>2, <2>3, <2>4 DEF D!Faithful
<1>5. CASE D!Read(i)
  BY <1>1, <1>5 DEF D!Read, D!Faithful
<1>6. CASE D!Close(i)
  BY <1>1, <1>6 DEF D!Close, D!Faithful
<1>7. CASE D!Stop(i)
  BY <1>1, <1>7 DEF D!Stop, D!Faithful
<1>8. CASE D!Settle(i)
  BY <1>1, <1>8 DEF D!Settle, D!Faithful
<1> QED BY <1>2, <1>3, <1>4, <1>5, <1>6, <1>7, <1>8

LEMMA FaithfulStep == TInv /\ D!Faithful /\ Promise => D!Faithful'
<1> SUFFICES ASSUME TInv, D!Faithful, Promise PROVE D!Faithful'
  OBVIOUS
<1>1. CASE UNCHANGED D!vars
  BY <1>1 DEF D!vars, D!Faithful
<1>2. CASE D!Next
  <2>1. PICK i \in Ids :
          D!Write(i) \/ D!Cancel(i) \/ D!Arrive(i) \/ D!Read(i) \/ D!Close(i)
            \/ D!Stop(i) \/ D!Settle(i)
    BY <1>2 DEF D!Next
  <2>2. PICK w, f, c, a, r, l, d, t :
          /\ w = off /\ f = [id \in Ids |-> fin_off[id] # NoFin] /\ c = shutdown
          /\ a = r_got /\ r = r_off /\ l = [id \in Ids |-> r_st[id] = "collected"]
          /\ d = r_drain /\ t = [id \in Ids |-> st[id] = "collected"]
    OBVIOUS
  <2>3. /\ w \in [Ids -> Nat] /\ r \in [Ids -> Nat] /\ a \in [Ids -> SUBSET Nat]
        /\ f \in [Ids -> BOOLEAN] /\ c \in [Ids -> BOOLEAN] /\ l \in [Ids -> BOOLEAN]
        /\ d \in [Ids -> BOOLEAN] /\ t \in [Ids -> BOOLEAN]
    BY <2>2, DeliveryTypes
  <2> QED BY <2>1, <2>2, <2>3, FaithfulKept
<1> QED BY <1>1, <1>2 DEF Promise

\* What stream_recv has returned of a block is a prefix of the bytes that were
\* written and have arrived; a block it reported finished was finished by the
\* sender and read to its end; the receiver drains only canceled blocks; and a
\* stream that the sender collected needs nothing more from it.
THEOREM FaithfulCorrect == TransferSpec => []D!Faithful
<1>1. TransferInit => TInv /\ D!Faithful
  <2>1. ASSUME D!Init PROVE D!Faithful
    <3>1. PICK w, f, c, a, r, l, d, t :
            /\ w = off /\ f = [id \in Ids |-> fin_off[id] # NoFin] /\ c = shutdown
            /\ a = r_got /\ r = r_off /\ l = [id \in Ids |-> r_st[id] = "collected"]
            /\ d = r_drain /\ t = [id \in Ids |-> st[id] = "collected"]
      OBVIOUS
    <3>2. \A id \in Ids : /\ w[id] = 0 /\ a[id] = {} /\ r[id] = 0
                          /\ ~l[id] /\ ~d[id] /\ ~t[id]
      BY <2>1, <3>1 DEF D!Init
    <3> QED BY <3>1, <3>2 DEF D!Faithful
  <2> QED BY <2>1, TransferInitial
<1>2. TInv /\ D!Faithful /\ [TransferNext]_transferVars => TInv' /\ D!Faithful'
  BY TransferStep, FaithfulStep
<1> QED BY <1>1, <1>2, PTL DEF TransferSpec

-----------------------------------------------------------------------------
(* The sender stays inside the connection's window *)

\* How the receiver's variables change in a step of the transfer
LEMMA ReceiverSteps ==
    ASSUME TInv, [TransferNext]_transferVars
    PROVE  \/ UNCHANGED rVars
           \/ \E id \in Ids : \E f : \/ RP!RecvStream(id, f) \/ RP!RecvStreamError(id, f)
                                     \/ RP!RecvInfo(id) \/ RP!RecvReset(id)
           \/ RP!PushStep \/ RP!ReadStep \/ RP!CreditStep
<1>1. Sound(arriving)
  BY DEF TInv, PacketsSound
<1>2. /\ \A r \in arriving.resets : r[1] \in Ids
      /\ \A id \in arriving.infos : id \in Ids
      /\ arriving.sid # NoId => arriving.sid \in Ids
  BY <1>1, PacketParts
<1>3. SenderStep \/ AckArrives \/ LossDetected \/ SpuriousLoss \/ CreditArrives \/ LateCreditArrives
        => UNCHANGED rVars
  BY DEF SenderStep, AckArrives, AckOf, LossDetected, FoundMissing, SpuriousLoss, CreditArrives,
         LateCreditArrives, SenderMoves
<1>4. Wait \/ DropPacket \/ PacketArrives \/ Record => UNCHANGED rVars
  BY DEF Wait, DropPacket, PacketArrives, Arrives, Record
<1>5. CASE ResetFrame
  <2>1. \/ UNCHANGED rVars
        \/ \E r \in arriving.resets : R!RecvReset(r[1])
    BY <1>5 DEF ResetFrame, Refuse
  <2> QED BY <1>2, <2>1, SameReceiver
<1>6. CASE InfoFrame
  <2>1. \/ UNCHANGED rVars
        \/ \E id \in arriving.infos : R!RecvInfo(id)
    BY <1>6 DEF InfoFrame, Refuse
  <2> QED BY <1>2, <2>1, SameReceiver
<1>7. CASE StreamFrame
  <2>1. arriving.sid # NoId
    BY <1>7 DEF StreamFrame
  <2>2. \/ UNCHANGED rVars
        \/ \E f : R!RecvStream(arriving.sid, f) \/ R!RecvStreamError(arriving.sid, f)
    BY <1>7 DEF StreamFrame
  <2> QED BY <1>2, <2>1, <2>2, SameReceiver
<1>8. PushGoesOn \/ Reads \/ Advertises => RP!PushStep \/ RP!ReadStep \/ RP!CreditStep
  BY SameReceiver DEF PushGoesOn, Reads, Advertises
<1>9. UNCHANGED transferVars => UNCHANGED rVars
  BY DEF transferVars
<1> QED BY <1>3, <1>4, <1>5, <1>6, <1>7, <1>8, <1>9 DEF TransferNext, Receive

\* A frame that ends a finished block says so
EndTold(p) == p.sid # NoId /\ p.end = BlockLen => (p.fin <=> fin_off[p.sid] # NoFin)

\* The counter is what the window is charged for, and within the window
Books ==
    /\ OnePlace /\ TxOK /\ ~failed
    /\ \A p \in Outstanding : EndTold(p)
    /\ tx_data <= max_tx_data
    /\ max_tx_data <= r_peer_max_data
    /\ RP!Told

\* The receiver takes back nothing it told
LEMMA CreditRaised ==
    ASSUME TInv, RP!Told, [TransferNext]_transferVars
    PROVE  RP!Raised
<1>1. RP!IInv
  BY DEF TInv
<1>2. CASE UNCHANGED rVars
  BY <1>1, <1>2, RP!L_Same, ReceiverConstants DEF rVars
<1>3. CASE \E id \in Ids : \E f : \/ RP!RecvStream(id, f) \/ RP!RecvStreamError(id, f)
                                  \/ RP!RecvInfo(id) \/ RP!RecvReset(id)
  BY <1>1, <1>3, RP!L_Handlers, ReceiverConstants
<1>4. CASE RP!PushStep
  BY <1>1, <1>4, RP!L_Push, ReceiverConstants
<1>5. CASE RP!ReadStep
  BY <1>1, <1>5, RP!L_Read, ReceiverConstants
<1>6. CASE RP!CreditStep
  BY <1>1, <1>6, RP!L_Credit, ReceiverConstants
<1> QED BY <1>2, <1>3, <1>4, <1>5, <1>6, ReceiverSteps

\* A written block is finished in the same call or never
FinKept == \A id \in Ids : off[id] = BlockLen => fin_off'[id] = fin_off[id]

\* What a step of the transfer is to the sender: a step of its own, MAX_DATA,
\* or a loss that was found
SenderKinds ==
    \/ [Next]_vars /\ UNCHANGED max_tx_data
    \/ /\ UNCHANGED <<acked, sent, lost, pkt, queued, tx_data, failed>>
       /\ max_tx_data' \in {max_tx_data, r_peer_max_data}
    \/ /\ UNCHANGED <<acked, pkt, queued, tx_data, max_tx_data, failed>>
       /\ \E p \in sent : sent' = sent \ {p} /\ lost' = lost \cup {p}

LEMMA KindsOfStep ==
    ASSUME TInv, [TransferNext]_transferVars
    PROVE  SenderKinds /\ FinKept
<1> USE DEF streamVars, mapVars, flowVars, recVars, callVars, histVars
<1>1. Inv1 /\ WholeBlocks
  BY DEF TInv
<1>2. ASSUME UNCHANGED vars PROVE SenderKinds /\ FinKept
  BY <1>2 DEF SenderKinds, FinKept, vars
<1>3. CASE SenderStep
  <2>1. AppStep \/ SendStep
    BY <1>3 DEF SenderStep
  <2>2. FinKept
    <3>1. CASE \E id \in Ids : Written(id)
      <4>1. PICK id \in Ids : Written(id)
        BY <3>1
      <4>2. PICK f : fin_off' = [fin_off EXCEPT ![id] = f]
        BY <4>1 DEF Written
      <4>3. off[id] # BlockLen /\ fin_off \in [Ids -> Nat \cup {NoFin}]
        BY <1>1, <4>1, Lengths DEF Written, Inv1, TypeOK
      <4> QED BY <4>2, <4>3 DEF FinKept
    <3>2. CASE ~(\E id \in Ids : Written(id))
      BY <1>1, <2>1, <3>2, CallCases DEF FinKept, Canceled
    <3> QED BY <3>1, <3>2
  <2>3. AppStep => UNCHANGED max_tx_data
    <3>1. \A id, n, fin, d : StreamSend(id, n, fin, d) => UNCHANGED max_tx_data
      BY DEF StreamSend
    <3>2. \A id : StreamShutdown(id) => UNCHANGED max_tx_data
      BY DEF StreamShutdown
    <3> QED BY <3>1, <3>2 DEF AppStep
  <2>4. SendStep => UNCHANGED max_tx_data
    <3>1. \A p : ProcessLost(p) => UNCHANGED max_tx_data
      BY DEF ProcessLost
    <3>2. \A id : ResetCanceled(id) => UNCHANGED max_tx_data
      BY DEF ResetCanceled
    <3> QED BY <3>1, <3>2 DEF SendStep, BeginSend, NoRoom, StartPacket, ResetDone,
         EnterStreamLoop, Peek, PeekGone, DropBlock, DropFails, KeepBlock, DropDone, SelectBlock,
         SelectNone, FillPacket, FillGone, FinishPacket, Panic
  <2>5. [Next]_vars
    BY <2>1 DEF Next
  <2> QED BY <2>1, <2>2, <2>3, <2>4, <2>5 DEF SenderKinds
<1>4. CASE Wait
  BY <1>4 DEF Wait, Tick, Next, SenderKinds, FinKept
<1>5. CASE AckArrives
  <2>1. PICK p \in sent : AckPacket(p)
    BY <1>5 DEF AckArrives, AckOf
  <2> QED BY <2>1 DEF AckPacket, Acknowledge, Next, SenderKinds, FinKept
<1>6. CASE LossDetected
  <2>1. PICK p \in sent : FoundMissing(p)
    BY <1>6 DEF LossDetected
  <2> QED BY <2>1 DEF FoundMissing, SenderKinds, FinKept
<1>7. CASE SpuriousLoss
  <2>1. PICK p \in sent : LosePacket(p)
    BY <1>7 DEF SpuriousLoss
  <2> QED BY <2>1 DEF LosePacket, Lose, Next, SenderKinds, FinKept
<1>8. CASE CreditArrives
  <2>1. \A m : RecvMaxData(m) =>
           /\ UNCHANGED <<acked, sent, lost, pkt, queued, tx_data, failed, fin_off>>
           /\ max_tx_data' = m
    BY DEF RecvMaxData
  <2>2. \A id, m : RecvMaxStreamData(id, m) =>
           UNCHANGED <<acked, sent, lost, pkt, queued, tx_data, max_tx_data, failed, fin_off>>
    BY DEF RecvMaxStreamData
  <2> QED BY <1>8, <2>1, <2>2 DEF CreditArrives, SenderKinds, FinKept
<1>9. CASE LateCreditArrives
  <2>1. PICK id \in Ids : RecvLateMaxStreamData(id)
    BY <1>9 DEF LateCreditArrives
  <2> QED BY <2>1 DEF RecvLateMaxStreamData, PeerStep, Next, SenderKinds, FinKept
<1>10. CASE DropPacket \/ PacketArrives \/ Record
  BY <1>2, <1>10 DEF DropPacket, PacketArrives, Arrives, Record
<1>11. ASSUME ReceiverMoves \/ OnlyReceiver, now' = now PROVE SenderKinds /\ FinKept
  BY <1>2, <1>11, SenderWaits
<1>12. CASE ResetFrame \/ InfoFrame \/ StreamFrame \/ PushGoesOn \/ Reads \/ Advertises
  <2>1. ReceiverMoves \/ OnlyReceiver
    BY <1>12 DEF ResetFrame, InfoFrame, StreamFrame, PushGoesOn, Reads, Advertises
  <2>2. now' = now
    <3>1. CASE ResetFrame \/ InfoFrame \/ StreamFrame
      BY <3>1 DEF ResetFrame, InfoFrame, StreamFrame, Refuse, Processed
    <3>2. CASE PushGoesOn \/ Reads \/ Advertises
      <4>1. RP!PushStep \/ RP!ReadStep \/ RP!CreditStep
        BY <3>2, SameReceiver DEF PushGoesOn, Reads, Advertises
      <4> QED BY <4>1, RP!E_Push, RP!E_ReadCredit, ReceiverConstants
    <3> QED BY <1>12, <3>1, <3>2
  <2> QED BY <1>11, <2>1, <2>2
<1>13. CASE UNCHANGED transferVars
  BY <1>2, <1>13 DEF transferVars
<1> QED BY <1>3, <1>4, <1>5, <1>6, <1>7, <1>8, <1>9, <1>10, <1>12, <1>13 DEF TransferNext, Receive

\* SendBuf::push does not refuse what is sent again
LEMMA PushSucceeds ==
    ASSUME Inv1, WholeBlocks, NEW p \in lost, EndTold(p), p.sid # NoId, Live(p.sid)
    PROVE  ~PushFails(p)
<1>1. p \in Packet /\ FrameOK(p)
  BY DEF Inv1, TypeOK, Shape, PacketShape
<1>2. p.sid \in Ids /\ p.end \in Nat /\ p.end <= off[p.sid]
  BY <1>1 DEF Packet, FrameOK
<1>3. off[p.sid] = BlockLen /\ fin_off[p.sid] \in {NoFin, BlockLen}
  BY <1>2 DEF WholeBlocks, Live, Inv1, Shape, StreamShape, StreamOK
<1> QED BY <1>2, <1>3, Lengths DEF PushFails, EndTold

\* send() does not fail half-way through the lost frames of a sound peer
LEMMA NeverFails ==
    ASSUME TInv, Books, [Next]_vars
    PROVE  failed' = failed
<1> USE DEF histVars
<1>1. Inv1 /\ WholeBlocks
  BY DEF TInv
<1>2. ASSUME NEW p \in lost, ProcessLost(p) PROVE failed' = failed
  <2>1. p.sid # NoId /\ Live(p.sid) => ~PushFails(p)
    BY <1>1, PushSucceeds DEF Books, Outstanding
  <2> QED BY <1>2, <2>1, Zenon DEF ProcessLost
<1>3. \A id, n, fin, d : StreamSend(id, n, fin, d) => failed' = failed
  BY DEF StreamSend
<1>4. \A id : StreamShutdown(id) => failed' = failed
  BY DEF StreamShutdown
<1>5. \A id, m : RecvMaxStreamData(id, m) => failed' = failed
  BY DEF RecvMaxStreamData
<1>6. \A p : AckPacket(p) \/ LosePacket(p) => failed' = failed
  BY DEF AckPacket, LosePacket
<1>7. DropBlock \/ FillPacket \/ FinishPacket \/ MovesNoBytes => failed' = failed
  BY DEF DropBlock, FillPacket, FinishPacket, MovesNoBytes
<1> QED BY <1>1, <1>2, <1>3, <1>4, <1>5, <1>6, <1>7, StepCases

\* pop takes no more bytes than it is asked for
LEMMA PoppedSize ==
    ASSUME Inv1, NEW id \in Ids, NEW n \in Nat, NEW e \in Nat, EndsAt(id, Popped(id, n), e)
    PROVE  Cardinality(Popped(id, n)) \in Nat /\ Cardinality(Popped(id, n)) <= n
<1> DEFINE B == Popped(id, n)
<1>1. CASE B = {}
  BY <1>1, FS_EmptySet
<1>2. CASE B # {}
  <2>1. B \subseteq Data(id) /\ Data(id) \subseteq Nat
    BY DEF Popped, Data, Inv1, TypeOK
  <2>2. e - 1 \in B /\ \A b \in B : b < e
    BY <1>2 DEF EndsAt
  <2>3. \A b, c \in B : c <= b => c..b \subseteq B
    BY PoppedRun
  <2>4. \A c \in B : c <= e - 1 => e - 1 < c + n
    BY <2>1, <2>2 DEF Popped
  <2>5. PICK S : S = B
    OBVIOUS
  <2>6. /\ S \subseteq Nat /\ e - 1 \in S /\ \A b \in S : b < e
        /\ \A b, c \in S : c <= b => c..b \subseteq S
        /\ \A c \in S : c <= e - 1 => e - 1 < c + n
    BY <2>1, <2>2, <2>3, <2>4, <2>5
  <2>7. /\ e - Cardinality(S) \in Nat /\ e - Cardinality(S) < e
        /\ S = (e - Cardinality(S))..(e - 1)
    BY <2>6, RunOfBytes
  <2>8. PICK m \in Nat : m = e - Cardinality(S)
    BY <2>7
  <2>9. IsFiniteSet(S)
    <3>1. IsFiniteSet(m..(e - 1))
      BY <2>8, FS_Interval
    <3> QED BY <2>7, <2>8, <3>1
  <2>10. Cardinality(S) \in Nat
    BY <2>9, FS_CardinalityType
  <2>11. m \in S /\ m <= e - 1
    BY <2>7, <2>8
  <2>12. e - 1 < m + n
    BY <2>6, <2>11
  <2> QED BY <2>5, <2>8, <2>10, <2>12
<1> QED BY <1>1, <1>2

\* The frame of FillPacket fits what is left of the window
LEMMA FilledWindow ==
    ASSUME Inv1, FillPacket
    PROVE  tx_data' = tx_data \/ tx_data' <= max_tx_data
<1>1. cur \in Ids /\ off[cur] \in Nat /\ tx_data \in Int /\ max_tx_data \in Nat /\ left \in Nat
  BY DEF FillPacket, Inv1, TypeOK, Shape, CallShape
<1>2. /\ InfoLen \in Nat /\ StreamHdr \in Nat
  BY ConstantsAssumption
<1>3. CASE /\ StreamRoom >= 0 /\ tx_data' = tx_data + Cardinality(Popped(cur, StreamRoom))
           /\ \E e \in 0..off[cur] : EndsAt(cur, Popped(cur, StreamRoom), e)
  <2>1. PICK n : n = StreamRoom
    OBVIOUS
  <2>2. Room \in Int
    BY <1>1, <1>2 DEF Room
  <2>3. n \in Int /\ n <= max_tx_data - tx_data
    BY <1>1, <1>2, <2>1, <2>2 DEF StreamRoom
  <2>4. n \in Nat /\ tx_data' = tx_data + Cardinality(Popped(cur, n))
    BY <1>3, <2>1, <2>3
  <2>5. PICK e \in 0..off[cur] : EndsAt(cur, Popped(cur, n), e)
    BY <1>3, <2>1
  <2>6. Cardinality(Popped(cur, n)) \in Nat /\ Cardinality(Popped(cur, n)) <= n
    BY <1>1, <2>4, <2>5, PoppedSize
  <2> QED BY <1>1, <2>3, <2>4, <2>6
<1> QED BY <1>3 DEF FillPacket

\* No step of the sender exceeds the window it knows
LEMMA WindowKept ==
    ASSUME Inv1, tx_data <= max_tx_data, [Next]_vars, UNCHANGED max_tx_data
    PROVE  tx_data' <= max_tx_data'
<1>1. tx_data \in Int /\ max_tx_data \in Nat
  BY DEF Inv1, TypeOK
<1>2. CASE FillPacket
  BY <1>1, <1>2, FilledWindow
<1>3. ASSUME NEW p \in lost, ProcessLost(p) PROVE tx_data' <= max_tx_data'
  <2>1. p \in Packet /\ FrameOK(p)
    BY DEF Inv1, TypeOK, Shape, PacketShape
  <2>2. PICK n \in Nat : n = Cardinality(p.bytes)
    BY <2>1, PacketFinite DEF Inv1
  <2>3. tx_data' = tx_data \/ tx_data' = TxAfterLoss(n)
    BY <1>3, <2>2, Zenon DEF ProcessLost
  <2> QED BY <1>1, <2>2, <2>3 DEF TxAfterLoss
<1> QED BY <1>1, <1>2, <1>3, TxMoves

\* Every frame that ends a block tells what the application said of its end
LEMMA EndsTold ==
    ASSUME Inv1, WholeBlocks, [Next]_vars, FinKept, \A p \in Outstanding : EndTold(p)
    PROVE  \A p \in Outstanding' : EndTold(p)'
<1> SUFFICES ASSUME NEW q \in Outstanding', q.sid # NoId, q.end = BlockLen
             PROVE  q.fin <=> fin_off'[q.sid] # NoFin
  BY DEF EndTold
<1>1. CASE q \in Outstanding
  <2>1. q \in Packet /\ FrameOK(q)
    BY <1>1 DEF Outstanding, Inv1, TypeOK, Shape, PacketShape
  <2>2. q.sid \in Ids /\ BlockLen <= off[q.sid] /\ off[q.sid] \in {0, BlockLen}
    BY <2>1 DEF Packet, FrameOK, WholeBlocks
  <2>3. off[q.sid] = BlockLen
    BY <2>2, Lengths
  <2> QED BY <1>1, <2>2, <2>3 DEF EndTold, FinKept
<1>2. CASE q \notin Outstanding
  <2>1. FillPacket /\ q = pkt'
    BY <1>2, NewFrame
  <2>2. /\ cur \in Ids /\ Live(cur) /\ fin_off' = fin_off /\ InfoPkt \in Packet /\ InfoPkt.sid = NoId
        /\ pkt' = InfoPkt \/ \E e \in 0..off[cur] :
             pkt' = [InfoPkt EXCEPT !.sid = cur, !.bytes = Popped(cur, StreamRoom),
                                    !.end = e, !.fin = (fin_off[cur] = e)]
    BY <2>1, FillEffect DEF FillPacket
  <2>3. PICK e \in 0..off[cur] :
             pkt' = [InfoPkt EXCEPT !.sid = cur, !.bytes = Popped(cur, StreamRoom),
                                    !.end = e, !.fin = (fin_off[cur] = e)]
    BY <2>1, <2>2
  <2>4. q.sid = cur /\ q.end = e /\ q.fin = (fin_off[cur] = e)
    BY <2>1, <2>2, <2>3 DEF Packet
  <2>5. fin_off[cur] \in {NoFin, off[cur]} /\ off[cur] = BlockLen
    BY <2>2 DEF Inv1, Shape, StreamShape, StreamOK, WholeBlocks, Live
  <2>6. BlockLen # NoFin
    BY Lengths DEF NoFin
  <2>7. q.fin <=> fin_off[cur] = BlockLen
    BY ONLY <2>4, q.end = BlockLen
  <2>8. fin_off'[q.sid] = fin_off[cur]
    BY <2>2, <2>4
  <2> QED BY ONLY <2>5, <2>6, <2>7, <2>8
<1> QED BY <1>1, <1>2

LEMMA BooksKept ==
    ASSUME TInv, TInv', Books, [TransferNext]_transferVars
    PROVE  Books'
<1>1. /\ SenderKinds /\ FinKept /\ RP!Raised /\ Inv1 /\ Inv1' /\ TypeOK' /\ WholeBlocks
      /\ OnePlace /\ TxOK /\ ~failed /\ tx_data <= max_tx_data /\ max_tx_data <= r_peer_max_data
      /\ \A p \in Outstanding : EndTold(p)
  BY KindsOfStep, CreditRaised DEF Books, TInv, Inv1
<1>2. /\ tx_data \in Int /\ max_tx_data \in Nat /\ r_peer_max_data \in Nat /\ r_peer_max_data' \in Nat
      /\ r_peer_max_data <= r_peer_max_data'
  BY <1>1 DEF TInv, Inv1, TypeOK, RP!IInv, RP!TypeOK, RP!Raised
<1>3. RP!Told'
  BY <1>1 DEF RP!Raised
<1>4. CASE [Next]_vars /\ UNCHANGED max_tx_data
  <2>1. OnePlace' /\ TxOK'
    BY <1>1, <1>4, OnePlaceStep, TxStep
  <2>2. ~failed'
    BY <1>1, <1>4, NeverFails
  <2>3. \A p \in Outstanding' : EndTold(p)'
    BY <1>1, <1>4, EndsTold
  <2>4. tx_data' <= max_tx_data' /\ max_tx_data' <= r_peer_max_data'
    BY <1>1, <1>2, <1>4, WindowKept
  <2> QED BY <1>3, <2>1, <2>2, <2>3, <2>4 DEF Books
<1>5. ASSUME UNCHANGED <<acked, pkt, queued, tx_data, failed>>, Outstanding' = Outstanding,
             sent' \cap lost' = {}, max_tx_data' \in {max_tx_data, r_peer_max_data}
      PROVE  Books'
  <2>1. OnePlace'
    BY <1>1, <1>5 DEF OnePlace
  <2>2. Held' = Held
    BY <1>5 DEF Held, InPackets
  <2>3. TxOK'
    BY <1>1, <1>5, <2>2 DEF TxOK
  <2>4. \A p \in Outstanding' : EndTold(p)'
    <3> SUFFICES ASSUME NEW p \in Outstanding, p.sid # NoId, p.end = BlockLen
                 PROVE  p.fin <=> fin_off'[p.sid] # NoFin
      BY <1>5 DEF EndTold
    <3>1. p \in Packet /\ FrameOK(p)
      BY DEF Outstanding, Inv1, TypeOK, Shape, PacketShape, TInv
    <3>2. p.sid \in Ids /\ BlockLen <= off[p.sid] /\ off[p.sid] \in {0, BlockLen}
      BY <1>1, <3>1 DEF Packet, FrameOK, WholeBlocks
    <3>3. off[p.sid] = BlockLen
      BY <3>2, Lengths
    <3> QED BY <1>1, <3>2, <3>3 DEF EndTold, FinKept
  <2>5. tx_data' <= max_tx_data' /\ max_tx_data' <= r_peer_max_data'
    BY <1>1, <1>2, <1>5
  <2> QED BY <1>1, <1>3, <1>5, <2>1, <2>3, <2>4, <2>5 DEF Books
<1>6. CASE /\ UNCHANGED <<acked, sent, lost, pkt, queued, tx_data, failed>>
           /\ max_tx_data' \in {max_tx_data, r_peer_max_data}
  BY <1>1, <1>5, <1>6 DEF Outstanding, OnePlace
<1>7. CASE /\ UNCHANGED <<acked, pkt, queued, tx_data, max_tx_data, failed>>
           /\ \E p \in sent : sent' = sent \ {p} /\ lost' = lost \cup {p}
  <2>1. Outstanding' = Outstanding /\ sent' \cap lost' = {}
    BY <1>1, <1>7 DEF Outstanding, OnePlace
  <2> QED BY <1>5, <1>7, <2>1
<1> QED BY <1>1, <1>4, <1>6, <1>7 DEF SenderKinds

-----------------------------------------------------------------------------
(* What has arrived was charged *)

\* The receiver has taken every frame of the packet numbered n
Taken(n) == n \in accepted \/ (n = arriving.pn /\ arriving = [EmptyPkt EXCEPT !.pn = arriving.pn])

\* What has arrived or is about to is acknowledged or in a packet the sender
\* remembers, as long as it gave up only packets that were missing
Known ==
    /\ \A q \in net : q.pn # 0
    /\ arriving.sid # NoId =>
         /\ arriving.pn # 0
         /\ \A p \in sent : p.pn = arriving.pn => p.sid = arriving.sid /\ p.bytes = arriving.bytes

Accounted ==
    \A id \in Ids : \A b \in r_got[id] :
        b \in acked[id] \/ \E p \in sent : p.sid = id /\ b \in p.bytes /\ Taken(p.pn)

AccountsOK == ~guessed /\ r_error = "none" => Known /\ Accounted

\* Steps after which the sender remembers what it did
LEMMA AccountsKept ==
    ASSUME Known, Accounted, UNCHANGED <<r_got, arriving, accepted, acked>>,
           sent \subseteq sent', \A q \in net' : q.pn # 0,
           \A p \in sent' : p \in sent \/ p.pn # arriving.pn
    PROVE  Known' /\ Accounted'
<1>1. Known'
  BY DEF Known
<1>2. Accounted'
  BY DEF Accounted, Taken
<1> QED BY <1>1, <1>2

LEMMA A_SenderStep ==
    ASSUME TInv, Known, Accounted, SenderStep
    PROVE  Known' /\ Accounted'
<1>1. /\ AppStep \/ SendStep
      /\ Inv1 /\ WholeBlocks /\ Numbered
      /\ UNCHANGED <<r_got, arriving, accepted>> /\ arriving = EmptyPkt
      /\ net' = net \cup (sent' \ sent)
  BY DEF SenderStep, SenderMoves, TInv, rVars
<1>2. TypeOK'
  BY <1>1, Inv1Step DEF Next, Inv1
<1>3. UNCHANGED acked
  BY <1>1, CallCases DEF Written, Canceled
<1>4. \/ sent' = sent
      \/ pc = "finish" /\ sent' = sent \cup {pkt}
  BY <1>1, <1>2, PktNumber
<1>5. pc = "finish" => pkt.pn # 0
  BY <1>1 DEF Numbered, Composing
<1>6. arriving.pn = 0
  BY <1>1 DEF EmptyPkt
<1>7. \A q \in net' : q.pn # 0
  BY <1>1, <1>4, <1>5 DEF Known
<1> QED BY <1>1, <1>3, <1>4, <1>5, <1>6, <1>7, AccountsKept

\* A packet is acknowledged: its bytes are, unless its stream is gone and it
\* held none
LEMMA A_AckArrives ==
    ASSUME TInv, OnePlace, Known, Accounted, AckArrives
    PROVE  Known' /\ Accounted'
<1>1. PICK n \in PktNums : AckOf(n)
  BY DEF AckArrives
<1>2. PICK p \in sent : p.pn = n /\ n \in accepted /\ AckPacket(p) /\ accepted' = accepted \ {p.pn}
  BY <1>1 DEF AckOf
<1>3. /\ UNCHANGED <<r_got, net, arriving>> /\ arriving = EmptyPkt /\ sent' = sent \ {p}
      /\ Inv1 /\ Numbered
  BY <1>1, <1>2 DEF AckOf, SenderMoves, rVars, AckPacket, TInv
<1>4. EmptyPkt.pn = 0 /\ EmptyPkt.sid = NoId
  BY DEF EmptyPkt
<1>5. Known'
  BY <1>3, <1>4 DEF Known
<1>6. acked \in [Ids -> SUBSET Nat] /\ p \in Packet
  BY <1>3 DEF Inv1, TypeOK
<1>7. \A id \in Ids : acked[id] \subseteq acked'[id]
  BY <1>2, <1>6 DEF AckPacket
<1>8. ASSUME NEW id \in Ids, p.sid = id, NEW b \in p.bytes PROVE b \in acked'[id]
  <2>1. p \in Outstanding
    BY DEF Outstanding
  <2>2. id # NoId /\ Live(id)
    BY <1>3, <1>8, <2>1, DeadFrame, ConstantsAssumption
  <2>3. acked' = [acked EXCEPT ![id] = acked[id] \cup p.bytes]
    BY <1>2, <1>8, <2>2 DEF AckPacket
  <2> QED BY <1>6, <1>8, <2>3
<1>9. ASSUME NEW q \in sent, q # p, Taken(q.pn) PROVE q \in sent' /\ Taken(q.pn)'
  <2>1. q.pn # p.pn /\ q.pn # 0
    BY <1>3, <1>9 DEF Numbered
  <2> QED BY <1>2, <1>3, <1>4, <1>9, <2>1 DEF Taken
<1>10. Accounted'
  BY <1>3, <1>7, <1>8, <1>9 DEF Accounted
<1> QED BY <1>5, <1>10

\* What is found missing was not taken
LEMMA A_LossDetected ==
    ASSUME TInv, Known, Accounted, LossDetected
    PROVE  Known' /\ Accounted'
<1>1. PICK p \in sent : /\ p.pn \notin accepted /\ sent' = sent \ {p}
                        /\ UNCHANGED <<r_got, net, arriving, accepted, acked>> /\ arriving = EmptyPkt
  BY DEF LossDetected, FoundMissing, Missing, SenderMoves, netVars, rVars, streamVars
<1>2. EmptyPkt.pn = 0 /\ EmptyPkt.sid = NoId /\ p.pn # 0
  BY DEF EmptyPkt, TInv, Numbered
<1>3. ~Taken(p.pn)
  BY <1>1, <1>2 DEF Taken
<1>4. Known'
  BY <1>1, <1>2 DEF Known
<1>5. \A q \in sent : Taken(q.pn) => q \in sent' /\ Taken(q.pn)'
  BY <1>1, <1>3 DEF Taken
<1>6. Accounted'
  BY <1>1, <1>5 DEF Accounted
<1> QED BY <1>4, <1>6

LEMMA A_PacketArrives ==
    ASSUME TInv, Known, Accounted, PacketArrives
    PROVE  Known' /\ Accounted'
<1>1. PICK q \in net : /\ net' = net \ {q} /\ arriving' = q
                       /\ arriving = EmptyPkt /\ UNCHANGED <<r_got, accepted, acked, sent>>
  BY DEF PacketArrives, Arrives, Quiet, rVars, vars, streamVars, recVars
<1>2. q.pn # 0 /\ q \in sent /\ \A p \in sent : p.pn # 0 /\ (p.pn = q.pn => p = q)
  BY <1>1 DEF Known, TInv, Numbered
<1>3. Known'
  BY <1>1, <1>2 DEF Known
<1>4. EmptyPkt.pn = 0
  BY DEF EmptyPkt
<1>5. \A p \in sent : Taken(p.pn) => Taken(p.pn)'
  BY <1>1, <1>2, <1>4 DEF Taken
<1>6. Accounted'
  BY <1>1, <1>5 DEF Accounted
<1> QED BY <1>3, <1>6

LEMMA A_Record ==
    ASSUME TInv, Known, Accounted, Record, r_error = "none"
    PROVE  Known' /\ Accounted'
<1>1. /\ arriving' = EmptyPkt /\ accepted' = accepted \cup {arriving.pn}
      /\ UNCHANGED <<r_got, net, acked, sent>>
  BY DEF Record, rVars, vars, streamVars, recVars
<1>2. EmptyPkt.sid = NoId
  BY DEF EmptyPkt
<1>3. Known'
  BY <1>1, <1>2 DEF Known
<1>4. \A p \in sent : Taken(p.pn) => Taken(p.pn)'
  BY <1>1 DEF Taken
<1>5. Accounted'
  BY <1>1, <1>4 DEF Accounted
<1> QED BY <1>3, <1>5

\* A packet that is not at its end is not yet taken
LEMMA A_Frames ==
    ASSUME TInv, Known, Accounted, UNCHANGED <<vars, net, accepted, r_got>>,
           arriving.resets # {} \/ arriving.infos # {} \/ arriving' = arriving,
           \/ arriving' = EmptyPkt
           \/ /\ arriving'.pn = arriving.pn /\ arriving'.sid = arriving.sid
              /\ arriving'.bytes = arriving.bytes
    PROVE  Known' /\ Accounted'
<1>1. UNCHANGED <<acked, sent>>
  BY DEF vars, streamVars, recVars
<1>2. EmptyPkt.sid = NoId
  BY DEF EmptyPkt
<1>3. Known'
  BY <1>1, <1>2 DEF Known
<1>4. ASSUME NEW p \in sent, Taken(p.pn) PROVE Taken(p.pn)'
  <2>1. CASE p.pn \in accepted
    BY <2>1 DEF Taken
  <2>2. CASE arriving' = arriving
    BY <1>4, <2>2 DEF Taken
  <2>3. CASE arriving.resets # {} \/ arriving.infos # {}
    <3>1. arriving # [EmptyPkt EXCEPT !.pn = arriving.pn]
      BY <2>3 DEF EmptyPkt
    <3> QED BY <1>4, <2>1, <3>1 DEF Taken
  <2> QED BY <2>1, <2>2, <2>3
<1>5. Accounted'
  BY <1>1, <1>4 DEF Accounted
<1> QED BY <1>3, <1>5

LEMMA A_ResetFrame ==
    ASSUME TInv, Known, Accounted, ResetFrame
    PROVE  Known' /\ Accounted'
<1>1. Sound(arriving) /\ RP!IInv
  BY DEF TInv, PacketsSound
<1>2. PICK r \in arriving.resets :
         \/ Refuse
         \/ /\ arriving' = [arriving EXCEPT !.resets = @ \ {r}] /\ UNCHANGED <<now, accepted>>
            /\ UNCHANGED rVars \/ R!RecvReset(r[1])
  BY DEF ResetFrame, Processed
<1>3. r[1] \in Ids /\ arriving \in Packet
  BY <1>1, PacketParts
<1>4. now' = now /\ accepted' = accepted
  BY <1>2 DEF Refuse
<1>5. UNCHANGED <<vars, net>>
  BY <1>4, SenderWaits DEF ResetFrame
<1>6. UNCHANGED r_got
  BY <1>1, <1>2, <1>3, SameReceiver, RP!E_RecvReset, ReceiverConstants DEF Refuse, rVars
<1>7. \/ arriving' = EmptyPkt
      \/ /\ arriving'.pn = arriving.pn /\ arriving'.sid = arriving.sid
         /\ arriving'.bytes = arriving.bytes
  BY <1>2, <1>3 DEF Refuse, Packet
<1> QED BY <1>2, <1>4, <1>5, <1>6, <1>7, A_Frames

LEMMA A_InfoFrame ==
    ASSUME TInv, Known, Accounted, InfoFrame
    PROVE  Known' /\ Accounted'
<1>1. Sound(arriving) /\ RP!IInv
  BY DEF TInv, PacketsSound
<1>2. PICK id \in arriving.infos :
         \/ Refuse
         \/ /\ arriving' = [arriving EXCEPT !.infos = @ \ {id}] /\ UNCHANGED <<now, accepted>>
            /\ UNCHANGED rVars \/ R!RecvInfo(id)
  BY DEF InfoFrame, Processed
<1>3. id \in Ids /\ arriving \in Packet
  BY <1>1, PacketParts
<1>4. now' = now /\ accepted' = accepted
  BY <1>2 DEF Refuse
<1>5. UNCHANGED <<vars, net>>
  BY <1>4, SenderWaits DEF InfoFrame
<1>6. UNCHANGED r_got
  BY <1>1, <1>2, <1>3, SameReceiver, RP!E_RecvInfo, ReceiverConstants DEF Refuse, rVars
<1>7. \/ arriving' = EmptyPkt
      \/ /\ arriving'.pn = arriving.pn /\ arriving'.sid = arriving.sid
         /\ arriving'.bytes = arriving.bytes
  BY <1>2, <1>3 DEF Refuse, Packet
<1> QED BY <1>2, <1>4, <1>5, <1>6, <1>7, A_Frames

\* The bytes of the STREAM frame arrive; the sender remembers their packet
LEMMA A_StreamFrame ==
    ASSUME TInv, Known, Accounted, StreamFrame, r_error' = "none"
    PROVE  Known' /\ Accounted'
<1>1. Sound(arriving) /\ RP!IInv /\ Numbered /\ arriving.sid # NoId
  BY DEF TInv, PacketsSound, StreamFrame
<1>2. PICK id, f, bytes : id = arriving.sid /\ f = Frame(arriving) /\ bytes = arriving.bytes
  OBVIOUS
<1>3. /\ arriving' = [EmptyPkt EXCEPT !.pn = arriving.pn] /\ UNCHANGED <<now, accepted>>
      /\ \/ UNCHANGED rVars
         \/ R!RecvStream(id, f) \/ R!RecvStreamError(id, f)
  BY <1>2 DEF StreamFrame, Processed
<1>4. id \in Ids /\ RP!Fits(f) /\ RP!Bytes(f) = bytes
  BY <1>1, <1>2, PacketParts DEF Sound, FrameTells
<1>5. UNCHANGED <<vars, net>>
  BY <1>3, SenderWaits DEF StreamFrame
<1>6. UNCHANGED <<acked, sent>>
  BY <1>5 DEF vars, streamVars, recVars
<1>7. arriving'.pn = arriving.pn /\ arriving'.sid = NoId
  BY <1>3 DEF EmptyPkt
<1>8. Known'
  BY <1>5, <1>6, <1>7 DEF Known
<1>9. UNCHANGED r_got \/ r_got' = [r_got EXCEPT ![id] = @ \cup bytes]
  <2>1. CASE UNCHANGED rVars
    BY <2>1 DEF rVars
  <2>2. CASE RP!RecvStream(id, f)
    BY <1>1, <1>4, <2>2, RP!E_RecvStream, ReceiverConstants
  <2>3. ~RP!RecvStreamError(id, f)
    <3> SUFFICES ASSUME RP!RecvStreamError(id, f) PROVE FALSE
      OBVIOUS
    <3> QED BY <1>1, <1>4, RP!E_RecvStreamError, ReceiverConstants
  <2> QED BY <1>3, <2>1, <2>2, <2>3, SameReceiver
<1>10. Taken(arriving.pn)'
  BY <1>3, <1>7 DEF Taken
<1>11. \A p \in sent : Taken(p.pn) => Taken(p.pn)'
  BY <1>3, <1>10 DEF Taken
<1>12. PICK p \in sent : p.sid = id /\ p.bytes = bytes /\ Taken(p.pn)'
  <2>1. PICK p \in sent : p.pn = arriving.pn
    BY <1>1 DEF Known, Numbered
  <2>2. p.sid = id /\ p.bytes = bytes
    BY <1>1, <1>2, <2>1 DEF Known
  <2>3. p.pn = arriving'.pn
    BY <1>7, <2>1
  <2> QED BY <1>10, <2>2, <2>3
<1>13. r_got \in [Ids -> SUBSET Nat]
  BY <1>1 DEF RP!IInv, RP!TypeOK
<1>14. ASSUME NEW i \in Ids, NEW b \in r_got'[i]
       PROVE  b \in acked'[i] \/ \E q \in sent' : q.sid = i /\ b \in q.bytes /\ Taken(q.pn)'
  <2>1. b \in r_got[i] \/ (i = id /\ b \in bytes)
    BY <1>4, <1>9, <1>13, <1>14
  <2>2. CASE b \in r_got[i]
    BY <1>6, <1>11, <2>2 DEF Accounted
  <2>3. CASE i = id /\ b \in bytes
    BY <1>6, <1>12, <2>3
  <2> QED BY <2>1, <2>2, <2>3
<1>15. Accounted'
  BY <1>14 DEF Accounted
<1> QED BY <1>8, <1>15

LEMMA A_OnlyReceiver ==
    ASSUME TInv, Known, Accounted, PushGoesOn \/ Reads \/ Advertises
    PROVE  Known' /\ Accounted' /\ r_error' = r_error
<1>1. /\ OnlyReceiver /\ RP!IInv /\ RP!Delivered
      /\ RP!PushStep \/ RP!ReadStep \/ RP!CreditStep
  BY SameReceiver DEF PushGoesOn, Reads, Advertises, TInv
<1>2. UNCHANGED <<r_got, r_error, now>>
  <2>1. CASE RP!PushStep
    BY <2>1, RP!E_Push, ReceiverConstants
  <2>2. CASE RP!ReadStep
    BY <1>1, <2>2, RP!V_Read, RP!E_ReadCredit, ReceiverConstants
  <2>3. CASE RP!CreditStep
    BY <1>1, <2>3, RP!V_Credit, RP!E_ReadCredit, ReceiverConstants
  <2> QED BY <1>1, <2>1, <2>2, <2>3
<1>3. UNCHANGED <<vars, net, arriving, accepted>>
  BY <1>1, <1>2, SenderWaits DEF OnlyReceiver, netVars
<1>4. Known' /\ Accounted'
  <2>1. UNCHANGED <<sent, acked>>
    BY <1>3 DEF vars, streamVars, recVars
  <2> QED BY <1>2, <1>3, <2>1 DEF Known, Accounted, Taken
<1> QED BY <1>2, <1>4

LEMMA AccountsStep ==
    ASSUME TInv, OnePlace, AccountsOK, [TransferNext]_transferVars
    PROVE  AccountsOK'
<1> SUFFICES ASSUME ~guessed', r_error' = "none" PROVE Known' /\ Accounted'
  BY DEF AccountsOK
<1> USE DEF netVars, rVars
<1>1. ~guessed
  <2>1. guessed' = guessed \/ guessed'
    BY DEF TransferNext, SenderStep, Wait, AckArrives, AckOf, LossDetected, FoundMissing,
           SpuriousLoss, CreditArrives, LateCreditArrives, DropPacket, PacketArrives, Arrives,
           Receive, ResetFrame, InfoFrame, StreamFrame, Record, PushGoesOn, Reads, Advertises,
           ReceiverMoves, OnlyReceiver, transferVars
  <2> QED BY <2>1
<1>2. ASSUME r_error = "none" PROVE Known /\ Accounted
  BY <1>1, <1>2 DEF AccountsOK
<1>3. CASE SenderStep
  <2>1. r_error = "none"
    BY <1>3 DEF SenderStep, SenderMoves
  <2> QED BY <1>2, <1>3, <2>1, A_SenderStep
<1>4. CASE AckArrives
  <2>1. r_error = "none"
    BY <1>4 DEF AckArrives, AckOf, SenderMoves
  <2> QED BY <1>2, <1>4, <2>1, A_AckArrives
<1>5. CASE LossDetected
  <2>1. r_error = "none"
    BY <1>5 DEF LossDetected, FoundMissing, SenderMoves
  <2> QED BY <1>2, <1>5, <2>1, A_LossDetected
<1>6. ~SpuriousLoss
  BY DEF SpuriousLoss
<1>7. CASE CreditArrives \/ LateCreditArrives
  <2>1. UNCHANGED <<r_error, r_got, net, arriving, accepted>>
    BY <1>7 DEF CreditArrives, LateCreditArrives, SenderMoves
  <2>2. UNCHANGED <<acked, sent>>
    BY <1>7 DEF CreditArrives, LateCreditArrives, RecvMaxData, RecvMaxStreamData,
         RecvLateMaxStreamData, streamVars, recVars
  <2> QED BY <1>2, <2>1, <2>2 DEF Known, Accounted, Taken
<1>8. CASE Wait \/ DropPacket \/ UNCHANGED transferVars
  <2>1. UNCHANGED <<r_error, r_got, arriving, accepted, acked, sent>> /\ net' \subseteq net
    BY <1>8 DEF Wait, Tick, DropPacket, transferVars, vars, streamVars, recVars
  <2> QED BY <1>2, <2>1 DEF Known, Accounted, Taken
<1>9. CASE PacketArrives
  <2>1. r_error = "none"
    BY <1>9 DEF PacketArrives, Arrives
  <2> QED BY <1>2, <1>9, <2>1, A_PacketArrives
<1>10. CASE Record
  <2>1. r_error = "none"
    BY <1>10 DEF Record
  <2> QED BY <1>2, <1>10, <2>1, A_Record
<1>11. CASE ResetFrame \/ InfoFrame \/ StreamFrame
  <2>1. r_error = "none"
    BY <1>11 DEF ResetFrame, InfoFrame, StreamFrame, ReceiverMoves
  <2> QED BY <1>2, <1>11, <2>1, A_ResetFrame, A_InfoFrame, A_StreamFrame
<1>12. CASE PushGoesOn \/ Reads \/ Advertises
  <2>1. r_error = "none"
    <3>1. RP!PushStep \/ RP!ReadStep \/ RP!CreditStep
      BY <1>12, SameReceiver DEF PushGoesOn, Reads, Advertises
    <3> QED BY <3>1, RP!E_Push, RP!E_ReadCredit, ReceiverConstants
  <2> QED BY <1>2, <1>12, <2>1, A_OnlyReceiver
<1> QED BY <1>3, <1>4, <1>5, <1>6, <1>7, <1>8, <1>9, <1>10, <1>11, <1>12 DEF TransferNext, Receive

\* What arrived or is under way was charged
LEMMA SpentCharged ==
    ASSUME TInv, Known, Accounted
    PROVE  UNION {{id} \X Spent(id) : id \in Ids} \subseteq Held
<1>1. ASSUME NEW id \in Ids, NEW b \in Spent(id)
      PROVE  b \in acked[id] \cup InPackets(id)
  <2>1. \A p \in sent : p.sid = id /\ b \in p.bytes => b \in InPackets(id)
    BY DEF InPackets, Outstanding
  <2>2. CASE b \in r_got[id]
    BY <2>1, <2>2 DEF Accounted
  <2>3. CASE \E p \in net : p.sid = id /\ b \in p.bytes
    BY <2>1, <2>3 DEF Known, TInv, Numbered
  <2>4. CASE arriving.sid = id /\ b \in arriving.bytes
    <3>1. id # NoId
      BY ConstantsAssumption
    <3>2. \E p \in sent : p.pn = arriving.pn
      BY <2>4, <3>1 DEF Known, TInv, Numbered
    <3> QED BY <2>1, <2>4, <3>1, <3>2 DEF Known
  <2> QED BY <1>1, <2>2, <2>3, <2>4 DEF Spent, InFlight
<1>2. \A id \in Ids : {id} \X Spent(id) \subseteq {id} \X (acked[id] \cup InPackets(id))
  BY <1>1
<1> QED BY <1>2 DEF Held

LEMMA WindowRespected ==
    ASSUME TInv, Books, AccountsOK
    PROVE  MaxDataKept
<1> SUFFICES ASSUME ~guessed, r_error = "none"
             PROVE  Cardinality(UNION {{id} \X Spent(id) : id \in Ids}) <= r_peer_max_data
  BY DEF MaxDataKept
<1> DEFINE S == UNION {{id} \X Spent(id) : id \in Ids}
<1>1. S \subseteq Held
  BY SpentCharged DEF AccountsOK
<1>2. IsFiniteSet(Held) /\ Cardinality(Held) = tx_data /\ tx_data <= max_tx_data /\ max_tx_data <= r_peer_max_data
  BY DEF Books, TxOK
<1>3. tx_data \in Int /\ max_tx_data \in Nat /\ r_peer_max_data \in Nat
  BY DEF TInv, Inv1, TypeOK, RP!IInv, RP!TypeOK
<1> HIDE DEF S
<1>4. IsFiniteSet(S) /\ Cardinality(S) <= Cardinality(Held)
  BY <1>1, <1>2, FS_Subset
<1>5. Cardinality(S) \in Nat
  BY <1>4, FS_CardinalityType
<1>6. Cardinality(S) <= r_peer_max_data
  BY <1>2, <1>3, <1>4, <1>5
<1> QED BY <1>6 DEF S

LEMMA WindowInitial == TransferInit => Books /\ AccountsOK
<1> SUFFICES ASSUME TransferInit PROVE Books /\ AccountsOK
  OBVIOUS
<1>1. Init /\ RP!Init /\ net = {} /\ arriving = EmptyPkt
  BY SameReceiver DEF TransferInit
<1>2. OnePlace
  BY <1>1 DEF Init, OnePlace, Outstanding, EmptyPkt
<1>3. TypeOK /\ \A id \in Ids, b \in Nat : ~Charged(id, b)
  BY <1>1, Inv1Init DEF Init, Inv1, Charged, Outstanding, EmptyPkt
<1>4. /\ Held \in SUBSET (Ids \X Nat) /\ {} \in SUBSET (Ids \X Nat)
      /\ \A id \in Ids, b \in Nat : <<id, b>> \in Held <=> <<id, b>> \in {}
  BY <1>3, HeldIs DEF HeldExact
<1>5. Held = {}
  BY ONLY <1>4, SamePairs
<1>6. TxOK /\ ~failed
  BY <1>1, <1>5, FS_EmptySet DEF Init, TxOK
<1>7. \A p \in Outstanding : EndTold(p)
  BY <1>1 DEF Init, Outstanding, EndTold, EmptyPkt
<1>8. tx_data <= max_tx_data /\ max_tx_data <= r_peer_max_data
  BY <1>1, ConstantsAssumption DEF Init, RP!Init
<1>9. RP!Told
  BY <1>1, RP!ToldInit, ReceiverConstants
<1>10. AccountsOK
  BY <1>1 DEF AccountsOK, Known, Accounted, RP!Init, Init, EmptyPkt
<1> QED BY <1>2, <1>6, <1>7, <1>8, <1>9, <1>10 DEF Books

\* However late MAX_DATA comes and whatever is dropped, retransmitted or refused,
\* the bytes of all blocks that have arrived or are under way are no more than
\* the receiver has advertised: they are among those tx_data counts (lib.rs:2372
\* charges them, lib.rs:1865 gives back only those of packets that were missing),
\* and FillPacket's StreamRoom keeps tx_data within the MAX_DATA that arrived.
THEOREM MaxDataCorrect == TransferSpec => []MaxDataKept
<1>1. TransferInit => TInv /\ Books /\ AccountsOK
  BY TransferInitial, WindowInitial
<1>2. TInv /\ Books /\ AccountsOK /\ [TransferNext]_transferVars => TInv' /\ Books' /\ AccountsOK'
  BY TransferStep, BooksKept, AccountsStep DEF Books
<1>3. TInv /\ Books /\ AccountsOK => MaxDataKept
  BY WindowRespected
<1> QED BY <1>1, <1>2, <1>3, PTL DEF TransferSpec
=============================================================================
