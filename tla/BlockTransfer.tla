--------------------------- MODULE BlockTransfer ---------------------------
(***************************************************************************)
(* Blocks from one DTP endpoint to the other: BlockSender, BlockReceiver   *)
(* and the network between them, which drops, delays and reorders packets. *)
(* recv_single and process_frame (src/src/lib.rs) take the frames of a     *)
(* packet one by one, in the order send() writes them; a packet is         *)
(* recorded, and so acknowledged, only when all were processed.            *)
(*                                                                         *)
(* The two endpoints share nothing but the network, so a call of one runs  *)
(* to its end before the other moves.                                      *)
(***************************************************************************)
EXTENDS BlockSender

CONSTANTS
    BlockLen,   \* the application writes whole blocks of this length
    Caps,       \* lengths of the buffers given to stream_recv
    RLefts,     \* space a packet of the receiver offers, in control frames
    MaxDrops    \* bound: packets the network drops

ASSUME TransferAssumption ==
    /\ Sizes = {BlockLen} /\ ~EmptyFin
    /\ MaxOff = BlockLen /\ InitStreamMax >= BlockLen
    /\ IsFiniteSet(Ids) /\ 0 \notin PktNums /\ MaxDrops \in Nat
    /\ Caps \subseteq Nat /\ RLefts \subseteq 0..63

VARIABLES
    \* the receiver: BlockReceiver's variables; the clock is shared
    r_st, r_data, r_off, r_len, r_max_data, r_max_data_next, r_fin_off, r_drain,
    r_info, r_good_recv, r_readable, r_almost_full, r_opened, r_max_streams,
    r_max_streams_next, r_rx_data, r_max_rx_data, r_max_rx_data_next, r_error,
    r_pc, r_cur, r_buf, r_tmp, r_todo, r_cap, r_reaches,
    r_peer_max_data, r_peer_max_streams, r_peer_max_stream, r_got,
    \* the network
    net,        \* packets under way; a packet the sender gave up has number 0
    arriving,   \* frames of the packet recv() is processing
    accepted,   \* recv_pkt_need_ack: numbers whose ACK has not reached the sender
    drops,
    s_error,    \* why the sender's side of the connection was closed
    guessed     \* history: a packet was declared lost that was not missing

R == INSTANCE BlockReceiver WITH
    st <- r_st, data <- r_data, off <- r_off, len <- r_len, max_data <- r_max_data,
    max_data_next <- r_max_data_next, fin_off <- r_fin_off, drain <- r_drain,
    info <- r_info, good_recv <- r_good_recv, readable <- r_readable,
    almost_full <- r_almost_full, opened <- r_opened, max_streams <- r_max_streams,
    max_streams_next <- r_max_streams_next, rx_data <- r_rx_data,
    max_rx_data <- r_max_rx_data, max_rx_data_next <- r_max_rx_data_next,
    error <- r_error, pc <- r_pc, cur <- r_cur, buf <- r_buf, tmp <- r_tmp,
    todo <- r_todo, cap <- r_cap, reaches <- r_reaches,
    peer_max_data <- r_peer_max_data, peer_max_streams <- r_peer_max_streams,
    peer_max_stream <- r_peer_max_stream, got <- r_got,
    Frames <- {}, Retransmit <- TRUE, Resets <- TRUE, Infos <- TRUE,
    AppShutdown <- FALSE, InitMaxData <- InitMaxTx,
    InitMaxStreams <- Cardinality(Ids), Lefts <- RLefts, LossyControl <- FALSE,
    UsizeMod <- 64, EvalLimit <- 0

netVars == <<net, arriving, accepted, drops, s_error, guessed>>
rVars == <<r_st, r_data, r_off, r_len, r_max_data, r_max_data_next, r_fin_off, r_drain,
           r_info, r_good_recv, r_readable, r_almost_full, r_opened, r_max_streams,
           r_max_streams_next, r_rx_data, r_max_rx_data, r_max_rx_data_next, r_error,
           r_pc, r_cur, r_buf, r_tmp, r_todo, r_cap, r_reaches,
           r_peer_max_data, r_peer_max_streams, r_peer_max_stream, r_got>>
transferVars == <<vars, rVars, netVars>>

-----------------------------------------------------------------------------
TransferInit ==
    /\ Init /\ R!Init
    /\ net = {} /\ arriving = EmptyPkt /\ accepted = {} /\ drops = 0
    /\ s_error = "none" /\ guessed = FALSE

Quiet == pc = "idle" /\ r_pc = "idle" /\ arriving = EmptyPkt
SenderMoves ==
    r_pc = "idle" /\ arriving = EmptyPkt /\ s_error = "none" /\ UNCHANGED rVars

-----------------------------------------------------------------------------
(* The sender *)

\* The calls of the application and of send(); a packet that was composed
\* leaves for the network
SenderStep ==
    /\ SenderMoves
    /\ AppStep \/ SendStep
    /\ net' = net \cup (sent' \ sent)
    /\ UNCHANGED <<arriving, accepted, drops, s_error, guessed>>

Wait ==
    /\ Quiet /\ Tick /\ UNCHANGED <<rVars, netVars>>

\* An ACK of an accepted packet arrives
AckOf(n) ==
    /\ SenderMoves
    /\ \E p \in sent : p.pn = n /\ n \in accepted /\ AckPacket(p)
    /\ accepted' = accepted \ {n}
    /\ UNCHANGED <<net, arriving, drops, s_error, guessed>>
AckArrives == \E n \in PktNums : AckOf(n)

\* A packet is declared lost.  The loss timer finds every packet that was
\* dropped or refused, and may give up one that is late or was accepted: an ACK
\* that arrives afterwards finds no packet to acknowledge.
Missing(p) == p \notin net /\ p.pn \notin accepted
Forgotten(p) == [p EXCEPT !.pn = 0]

FoundMissing(p) ==
    /\ SenderMoves /\ pc = "idle"
    /\ Missing(p)
    /\ sent' = sent \ {p} /\ lost' = lost \cup {p}
    /\ result' = "none"
    /\ UNCHANGED <<streamVars, mapVars, flowVars, losses, now, callVars, histVars, netVars>>
LossDetected == \E p \in sent : FoundMissing(p)

\* Fault: the ACK is taken for one of the packet sent next
AcceptedWithout_Kept(p) == accepted
AcceptedWithout(p) == accepted \ {p.pn}
SpuriousLoss ==
    /\ SenderMoves
    /\ \E p \in sent :
         /\ ~Missing(p) /\ LosePacket(p)
         /\ net' = IF p \in net THEN (net \ {p}) \cup {Forgotten(p)} ELSE net
         /\ accepted' = AcceptedWithout(p)
    /\ guessed' = TRUE
    /\ UNCHANGED <<arriving, drops, s_error>>

\* The receiver's MAX_DATA and MAX_STREAM_DATA frames reach the sender, late
\* or not
CreditArrives ==
    /\ SenderMoves
    /\ \/ RecvMaxData(r_peer_max_data)
       \/ \E id \in Ids : RecvMaxStreamData(id, r_peer_max_stream[id])
    /\ UNCHANGED netVars

\* MAX_STREAM_DATA for a collected stream: recv() closes the connection
LateCreditArrives ==
    /\ SenderMoves
    /\ \E id \in Ids : r_peer_max_stream[id] > max_data[id] /\ RecvLateMaxStreamData(id)
    /\ s_error' = "invalid_stream_state"
    /\ UNCHANGED <<net, arriving, accepted, drops, guessed>>

-----------------------------------------------------------------------------
(* The network *)

DropPacket ==
    /\ Quiet /\ drops < MaxDrops
    /\ \E p \in net : net' = net \ {p}
    /\ drops' = drops + 1
    /\ UNCHANGED <<vars, rVars, arriving, accepted, s_error, guessed>>

\* recv_single takes a packet it has not seen
Arrives(p) ==
    /\ Quiet /\ r_error = "none"
    /\ net' = net \ {p} /\ arriving' = p
    /\ UNCHANGED <<vars, rVars, accepted, drops, s_error, guessed>>
PacketArrives == \E p \in net : Arrives(p)

-----------------------------------------------------------------------------
(* The receiver: the frames of the arriving packet, in the order they were   *)
(* written                                                                   *)

Frame(p) == [off |-> p.end - Cardinality(p.bytes), end |-> p.end, fin |-> p.fin]

ReceiverMoves ==
    /\ pc = "idle" /\ r_pc = "idle" /\ r_error = "none"
    /\ UNCHANGED <<streamVars, mapVars, flowVars, recVars, callVars, result, histVars>>
    /\ UNCHANGED <<net, drops, s_error, guessed>>

\* process_frame returned Done: recv() reports nothing, records nothing
Refuse == arriving' = EmptyPkt /\ UNCHANGED <<now, rVars, accepted>>

Processed(fields) == arriving' = fields /\ UNCHANGED <<now, accepted>>

\* RESET_STREAM with error code 1; the shutdown() of a stream already drained
\* returns Done, a collected stream is ignored
ResetFrame ==
    /\ ReceiverMoves
    /\ \E r \in arriving.resets :
         \/ /\ r_st[r[1]] # "collected" /\ r_drain[r[1]]
            /\ Refuse
         \/ /\ Processed([arriving EXCEPT !.resets = @ \ {r}])
            /\ \/ r_st[r[1]] = "collected" /\ UNCHANGED rVars
               \/ r_st[r[1]] # "collected" /\ r[2] = BlockLen /\ R!RecvReset(r[1])

\* BLOCK_INFO; get_or_create_stream(..)? returns Done for a collected stream
InfoFrame ==
    /\ ReceiverMoves /\ arriving.resets = {}
    /\ \E id \in arriving.infos :
         \/ r_st[id] = "collected" /\ Refuse
         \/ /\ r_st[id] # "collected"
            /\ Processed([arriving EXCEPT !.infos = @ \ {id}])
            /\ IF r_info[id] THEN UNCHANGED rVars ELSE R!RecvInfo(id)

\* STREAM; a collected stream is ignored
StreamFrame ==
    LET id == arriving.sid
        f == Frame(arriving)
    IN
    /\ ReceiverMoves /\ arriving.resets = {} /\ arriving.infos = {} /\ id # NoId
    /\ Processed([EmptyPkt EXCEPT !.pn = arriving.pn])
    /\ IF r_st[id] = "collected" /\ ~R!OverLimit(f)
       THEN UNCHANGED rVars
       ELSE R!RecvStream(id, f) \/ R!RecvStreamError(id, f)

\* recv_pkt_num.insert, recv_pkt_need_ack.push_item.  The packet of a given-up
\* number is recorded too, but its ACK is of no use to the sender.
Record ==
    /\ pc = "idle" /\ r_pc = "idle"
    /\ arriving # EmptyPkt /\ arriving = [EmptyPkt EXCEPT !.pn = arriving.pn]
    /\ arriving' = EmptyPkt
    /\ accepted' = IF r_error = "none" THEN accepted \cup {arriving.pn} ELSE accepted
    /\ UNCHANGED <<vars, rVars, net, drops, s_error, guessed>>

\* The loop of RecvBuf::push goes on; the application reads; send() advertises
OnlyReceiver ==
    /\ pc = "idle"
    /\ UNCHANGED <<streamVars, mapVars, flowVars, recVars, callVars, result, histVars, netVars>>
PushGoesOn == OnlyReceiver /\ R!PushStep
Reads == OnlyReceiver /\ arriving = EmptyPkt /\ R!ReadStep
Advertises == OnlyReceiver /\ arriving = EmptyPkt /\ R!CreditStep

-----------------------------------------------------------------------------
Receive == ResetFrame \/ InfoFrame \/ StreamFrame \/ Record \/ PushGoesOn

TransferNext ==
    \/ SenderStep \/ Wait \/ AckArrives \/ LossDetected \/ SpuriousLoss
    \/ CreditArrives \/ LateCreditArrives \/ DropPacket \/ PacketArrives
    \/ Receive \/ Reads \/ Advertises

TransferSpec == TransferInit /\ [][TransferNext]_transferVars

\* What becomes of the packet numbered n: it arrives, its ACK arrives, or the
\* loss timer finds it missing
Fate(n) ==
    \/ \E p \in net : p.pn = n /\ Arrives(p)
    \/ AckOf(n)
    \/ \E p \in sent : p.pn = n /\ FoundMissing(p)

\* send() and recv() run to their ends and are called again; every packet that is
\* not dropped arrives, and so do its ACK and the receiver's credit; the loss
\* timer finds the others; the application reads.  Strong fairness where a call
\* of send() in between disables the step.
FairTransferSpec ==
    /\ TransferSpec
    /\ WF_transferVars(SenderStep /\ SendStep) /\ WF_transferVars(Receive)
    /\ \A n \in PktNums : SF_transferVars(Fate(n))
    /\ SF_transferVars(Reads \/ Advertises \/ CreditArrives)

-----------------------------------------------------------------------------
(* What the two endpoints promise together *)

InFlight == net \cup {arriving}

\* The bytes of a block that have arrived or are under way
Spent(id) == r_got[id] \cup UNION {p.bytes : p \in {q \in InFlight : q.sid = id}}

\* The sender stays inside the connection's window: however late MAX_DATA comes,
\* whatever is dropped and retransmitted, the bytes that have arrived or are
\* under way, each counted once, are no more than the receiver has advertised.
\* send() gives tx_data back for every packet declared lost, so one that was not
\* lost lets it exceed the limit: the promise ends with the first wrong guess.
MaxDataKept ==
    ~guessed /\ r_error = "none" =>
        Cardinality(UNION {{id} \X Spent(id) : id \in Ids}) <= r_peer_max_data

\* The blocks are delivered as BlockDelivery says.
D == INSTANCE BlockDelivery WITH
    written <- off, final <- [id \in Ids |-> fin_off[id] # NoFin],
    canceled <- shutdown, arrived <- r_got, read <- r_off,
    closed <- [id \in Ids |-> r_st[id] = "collected"], stopped <- r_drain,
    settled <- [id \in Ids |-> st[id] = "collected"]
Delivery == D!Spec

Closed == r_error # "none" \/ s_error # "none" \/ pc = "panic"

\* A finished block is read to its end or canceled, whatever is lost, unless
\* an endpoint closes the connection (the receiver counts retransmitted bytes
\* again, the sender does not expect credit for a collected stream) or panics (a
\* full window makes empty frames, and their loss queues a stream twice).
BlockDelivered ==
    \A id \in Ids :
        (fin_off[id] # NoFin) ~> (r_st[id] = "collected" \/ shutdown[id] \/ Closed)

-----------------------------------------------------------------------------
(* What the documentation says and the code does not do *)

\* "if the stream has already been closed and collected, ignore the frame":
\* a block that was read to its end is not sent for ever.
BlockSettled ==
    \A id \in Ids :
        (r_st[id] = "collected") ~> (st[id] = "collected" \/ shutdown[id] \/ Closed)

\* The same words, of MAX_STREAM_DATA: a late one does not close the connection.
LateCreditIgnored == s_error = "none"
=============================================================================
