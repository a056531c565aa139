--------------------------- MODULE PacketExchange ---------------------------
(***************************************************************************)
(* 1-RTT packets between two endpoints, below the streams: packet numbers, *)
(* duplicate suppression, ACK frames and the acknowledgment of ACK frames  *)
(* (packet.rs, ranges.rs, recv_single and send in lib.rs), and the FEC     *)
(* groups that let the receiver restore a lost packet and the sender stop  *)
(* caring about it (fec.rs, recovery.rs).                                  *)
(*                                                                         *)
(* One side, A, sends data; the other, B, sends packets that carry only an *)
(* ACK frame.  A unit of data is what one packet carries; a unit in Infos  *)
(* carries a BLOCK_INFO frame, which process_frame refuses (Done) once the *)
(* block was read to its end and collected.  Reed-Solomon coding restores  *)
(* the data shards of a group from any m of its m + n shards.              *)
(***************************************************************************)
EXTENDS RangeSet, Sequences

CONSTANTS
    Units, Infos,
    Shapes,      \* the (m, n) a new FEC group may get
    AckRatio,    \* data_ack_ratio
    WindowSize,  \* bits of a PktNumWindow
    MaxPn,       \* bound: packets A sends
    MaxAcks,     \* bound: packets B sends
    MaxLosses, \* bound: packets A gives up
    MaxCopies    \* bound: packets the network delivers again

NoUnit == "none"

ASSUME ExchangeConstants ==
    /\ NoUnit \notin Units /\ Infos \subseteq Units
    /\ Shapes \subseteq (Nat \ {0}) \X (Nat \ {0})
    /\ AckRatio \in Nat \ {0} /\ WindowSize \in Nat \ {0}
    /\ MaxPn \in Nat /\ MaxAcks \in Nat /\ MaxLosses \in Nat /\ MaxCopies \in Nat

VARIABLES
    \* A
    work,       \* units queued, or lost and to be sent again
    a_next,     \* next_pkt_num
    group,      \* the FEC group being filled: fec.get(0)
    encoded,    \* fec_encoded: repair packets not yet sent
    made,       \* the groups so far: m, n and the frames in the data shards
    sent,       \* Recovery.sent: packets neither acked nor lost
    group_acked,\* FecPacketNumbers.packet_number_acked, per group
    settled,    \* units whose frames went to Recovery.acked
    a_need_ack, a_window,
    \* B
    b_need_ack, b_window, b_elicited,
    b_next, b_sent,
    b_acked,    \* Recovery.acked: the largest numbers of acked ACK frames
    shards,     \* fec_decoders: the shards present, per group
    processed,  \* how often the frames of each unit were processed
    collected,  \* units of Infos whose block was read and collected
    refusals,   \* history: groups in which process_frame returned Done
    \* the network, in both directions
    to_b, to_a, copies, losses,
    \* histories: numbers B recorded; times B processed all of a packet; numbers A was
    \* told; the largest number A knows to be acknowledged by an ACK it acked
    recorded, handled, told, until

aVars == <<work, a_next, group, encoded, made, sent, group_acked, settled, a_need_ack,
           a_window>>
bVars == <<b_need_ack, b_window, b_elicited, b_next, b_sent, b_acked, shards, processed,
           collected, refusals>>
netVars == <<to_b, to_a, copies, losses>>
histVars == <<recorded, handled, told, until>>
vars == <<aVars, bVars, netVars, histVars>>

-----------------------------------------------------------------------------
NoGroup == [gid |-> 0, m |-> 0, n |-> 0, next |-> 0]

\* The frames of a packet of A are a unit (none in a repair packet) and the
\* numbers its ACK frame names.  The packet also has its number and its place
\* in an FEC group (FecStatus).
Frames(p) == [unit |-> p.unit, acks |-> p.acks]
IsRepair(p) == p.gid # 0 /\ p.index >= made[p.gid].m

Init ==
    /\ work = Units /\ a_next = 0
    /\ group = NoGroup /\ encoded = <<>> /\ made = <<>>
    /\ sent = {} /\ group_acked = <<>> /\ settled = {}
    /\ a_need_ack = {} /\ a_window = EmptyWindow
    /\ b_need_ack = {} /\ b_window = EmptyWindow /\ b_elicited = FALSE
    /\ b_next = 0 /\ b_sent = {} /\ b_acked = {}
    /\ shards = <<>> /\ processed = [u \in Units |-> 0] /\ collected = {}
    /\ refusals = {}
    /\ to_b = {} /\ to_a = {} /\ copies = 0 /\ losses = 0
    /\ recorded = {} /\ handled = [n \in 0..(MaxPn - 1) |-> 0] /\ told = {} /\ until = -1

-----------------------------------------------------------------------------
(* A sends *)

Transmit(p) ==
    /\ sent' = sent \cup {p}
    /\ to_b' = to_b \cup {p}
    /\ a_next' = a_next + 1

\* send() with repair packets waiting: one of them, and nothing else
SendRepair ==
    /\ a_next < MaxPn /\ work # {}
    /\ encoded # <<>>
    /\ Transmit([pn |-> a_next, unit |-> NoUnit, acks |-> {}, gid |-> Head(encoded)[1],
                 index |-> Head(encoded)[2]])
    /\ encoded' = Tail(encoded)
    /\ UNCHANGED <<work, group, made, group_acked, settled, a_need_ack, a_window, bVars,
                   to_a, copies, losses, histVars>>

\* FecGroup::feed_fec_frame and full
Full(g) == g.next >= g.m

\* FecGroup::encode: the redundancy shards, which follow the data shards
Encoded(g) == [i \in 1..g.n |-> <<g.gid, g.m + i - 1>>]

\* get_redundancy_rate, and the m and n that send() computes from it: the
\* application's solution, or a rule on deadline, RTT and pacing rate, may ask
\* for any shape or for none; the group that is open keeps its own.
Redundancies(open) == IF open THEN {<<0, 0>>} ELSE Shapes \cup {<<0, 0>>}

\* send() with a STREAM frame: write_epoch finds work, the redundancy of a
\* new group is chosen by the application's solution, an ACK frame is added
\* every data_ack_ratio packets
SendData ==
    /\ a_next < MaxPn
    /\ encoded = <<>>
    /\ \E u \in work, s \in Redundancies(group # NoGroup) :
         LET open == group # NoGroup
             acks == IF a_next % AckRatio = 0 THEN Flat(a_need_ack) ELSE {}
             frames == [unit |-> u, acks |-> acks]
             gid == Len(made) + 1
             g == IF open THEN [group EXCEPT !.next = @ + 1]
                  ELSE [gid |-> gid, m |-> s[1], n |-> s[2], next |-> 1]
             grouped == open \/ s # <<0, 0>>
         IN
         /\ work' = work \ {u}
         /\ Transmit([pn |-> a_next, unit |-> u, acks |-> acks,
                      gid |-> IF grouped THEN g.gid ELSE 0,
                      index |-> IF grouped THEN g.next - 1 ELSE 0])
         /\ made' = IF ~grouped THEN made
                    ELSE IF open THEN [made EXCEPT ![g.gid].data = Append(@, frames)]
                    ELSE Append(made, [m |-> g.m, n |-> g.n, data |-> <<frames>>])
         /\ group_acked' = IF grouped /\ ~open THEN Append(group_acked, {}) ELSE group_acked
         /\ group' = IF ~grouped \/ Full(g) THEN NoGroup ELSE g
         /\ encoded' = IF grouped /\ Full(g) THEN Encoded(g) ELSE <<>>
    /\ UNCHANGED <<settled, a_need_ack, a_window, bVars, to_a, copies, losses, histVars>>

\* on_packets_lost, and "Process lost frames" of the next send().  A packet
\* that never arrives is a lost one; this one may also be late, or its ACK.
GiveUp ==
    /\ losses < MaxLosses /\ losses' = losses + 1
    /\ \E p \in sent :
         /\ sent' = sent \ {p}
         /\ work' = IF p.unit \in Units \ settled THEN work \cup {p.unit} ELSE work
    /\ UNCHANGED <<a_next, group, encoded, made, group_acked, settled, a_need_ack,
                   a_window, bVars, to_b, to_a, copies, histVars>>

-----------------------------------------------------------------------------
(* B receives a packet of A *)

\* FecGroup::reconstruct: the missing data shards, if enough others are there
Enough(gid, present) == Cardinality(present) >= made[gid].m

Present(gid) == IF gid \in DOMAIN shards THEN shards[gid] ELSE {}
Missing(gid, present) == {i \in 0..(made[gid].m - 1) : i \notin present}

\* What recv_single processes, in this order: the frames it restored, then the
\* packet's own unless it is a repair packet
Restored(gid, present) ==
    IF Missing(gid, present) # {} /\ Enough(gid, present)
    THEN [i \in 1..Cardinality(Missing(gid, present)) |->
            LET k == CHOOSE j \in Missing(gid, present) :
                        Cardinality({l \in Missing(gid, present) : l < j}) = i - 1
            IN made[gid].data[k + 1]]
    ELSE <<>>
ToProcess(p) ==
    (IF p.gid = 0 THEN <<>> ELSE Restored(p.gid, Present(p.gid) \cup {p.index}))
        \o (IF IsRepair(p) THEN <<>> ELSE <<Frames(p)>>)

\* process_frame refuses the BLOCK_INFO of a collected block; the first refusal
\* ends recv_single, after the ACK frame of the same shard
Refused(f) == f.unit \in collected
Accepted(fs) == {i \in DOMAIN fs : \A j \in 1..i : ~Refused(fs[j])}
Reached(fs) == {i \in DOMAIN fs : \A j \in 1..(i - 1) : ~Refused(fs[j])}

Count(fs, u) == Cardinality({i \in Accepted(fs) : fs[i].unit = u})

\* reconstruct_data leaves the restored shards in the group
ShardsAfter(p) ==
    LET present == Present(p.gid) \cup {p.index}
        all == IF Restored(p.gid, present) = <<>> THEN present
               ELSE present \cup Missing(p.gid, present)
    IN [g \in DOMAIN shards \cup {p.gid} |-> IF g = p.gid THEN all ELSE shards[g]]

\* Recovery::on_ack_received at B: its packets that are newly acknowledged
AckedByPeer(fs) == {a \in b_sent : \E i \in Reached(fs) : a.pn \in fs[i].acks}

\* "Process acked frames", then push_item: what an ACK frame told the peer, once
\* that frame was acknowledged, need not be told again
NeedAckAfter(rs, n, largest) ==
    PushItem(IF largest = {} THEN rs ELSE RemoveUntil(rs, Max(largest)), n)

ReceiveData(p) ==
    LET fs == ToProcess(p)
        complete == Accepted(fs) = DOMAIN fs
        largest == b_acked \cup {Max(a.acks) : a \in AckedByPeer(fs)}
    IN
    /\ p \in to_b
    /\ \/ to_b' = to_b \ {p} /\ UNCHANGED copies
       \/ copies < MaxCopies /\ copies' = copies + 1 /\ UNCHANGED to_b
    /\ IF WindowContains(b_window, WindowSize, p.pn)
       THEN UNCHANGED <<bVars, recorded, handled, until>>
       ELSE /\ processed' = [u \in Units |-> processed[u] + Count(fs, u)]
            /\ shards' = IF p.gid = 0 THEN shards ELSE ShardsAfter(p)
            /\ b_sent' = b_sent \ AckedByPeer(fs)
            /\ IF complete
               THEN /\ handled' = [handled EXCEPT ![p.pn] = @ + 1]
                    /\ b_acked' = {}
                    /\ b_need_ack' = NeedAckAfter(b_need_ack, p.pn, largest)
                    /\ b_window' = WindowInsert(b_window, WindowSize, p.pn)
                    /\ b_elicited' = TRUE
                    /\ recorded' = recorded \cup {p.pn}
                    /\ until' = Max({until} \cup largest)
                    /\ UNCHANGED refusals
               ELSE /\ b_acked' = largest
                    /\ refusals' = refusals \cup {p.gid}
                    /\ UNCHANGED <<b_need_ack, b_window, b_elicited, recorded, handled, until>>
            /\ UNCHANGED <<b_next, collected>>
    /\ UNCHANGED <<aVars, to_a, losses, told>>

\* B's application reads a block to its end
CollectBlock(u) ==
    /\ u \in Infos \ collected /\ processed[u] > 0
    /\ collected' = collected \cup {u}
    /\ UNCHANGED <<aVars, b_need_ack, b_window, b_elicited, b_next, b_sent, b_acked,
                   shards, processed, refusals, netVars, histVars>>

\* send() at B: an ACK frame with every number still to be acknowledged
SendAck ==
    LET a == [pn |-> b_next, acks |-> Flat(b_need_ack)] IN
    /\ b_elicited /\ b_next < MaxAcks
    /\ b_elicited' = FALSE
    /\ b_next' = b_next + 1
    /\ b_sent' = b_sent \cup {a}
    /\ to_a' = to_a \cup {a}
    /\ UNCHANGED <<aVars, b_need_ack, b_window, b_acked, shards, processed, collected,
                   refusals, to_b, copies, losses, histVars>>

-----------------------------------------------------------------------------
(* A receives an ACK *)

\* FecPacketNumbers::get_recovered_pns: m packets of a group were acked, so the
\* receiver has restored the others.  Fault: one less is enough
RecoveredBy_Less(g, acked) == Cardinality(acked) >= made[g].m - 1
RecoveredBy(g, acked) == Cardinality(acked) >= made[g].m

ReceiveAck(a) ==
    LET newly == {p \in sent : p.pn \in a.acks}
        ackedIn(g) == group_acked[g] \cup {p.pn : p \in {q \in newly : q.gid = g}}
        recovered == {p \in sent : p.gid # 0 /\ RecoveredBy(p.gid, ackedIn(p.gid))
                                   /\ \E q \in newly : q.gid = p.gid}
    IN
    /\ a \in to_a /\ to_a' = to_a \ {a}
    /\ IF WindowContains(a_window, WindowSize, a.pn)
       THEN UNCHANGED <<aVars, told>>
       ELSE /\ sent' = sent \ newly
            /\ group_acked' = [g \in DOMAIN group_acked |-> ackedIn(g)]
            /\ settled' = settled \cup ({p.unit : p \in newly \cup recovered} \cap Units)
            /\ a_need_ack' = NeedAckAfter(a_need_ack, a.pn,
                   {Max(p.acks) : p \in {q \in newly \cup recovered : q.acks # {}}})
            /\ a_window' = WindowInsert(a_window, WindowSize, a.pn)
            /\ told' = told \cup a.acks
            /\ UNCHANGED <<work, a_next, group, encoded, made>>
    /\ UNCHANGED <<bVars, to_b, copies, losses, recorded, handled, until>>

-----------------------------------------------------------------------------
ReceiveDataStep == \E p \in to_b : ReceiveData(p)
ReceiveAckStep == \E a \in to_a : ReceiveAck(a)

Next ==
    \/ SendRepair \/ SendData \/ GiveUp
    \/ ReceiveDataStep \/ (\E u \in Units : CollectBlock(u)) \/ SendAck
    \/ ReceiveAckStep

Spec == Init /\ [][Next]_vars

-----------------------------------------------------------------------------
(* What the exchange promises *)

\* A acts only on acknowledgments of packets B has processed completely.
AckedWasRecorded == told \subseteq recorded

\* The frames of a packet are processed to the last once at most, however often
\* it arrives and however old it is then.
HandledOnce == \A n \in DOMAIN handled : handled[n] <= 1

\* RangeSet keeps disjoint ranges with gaps between them, and none of the numbers
\* B recorded is forgotten before A acknowledged an ACK frame at or beyond it.
RangesExact ==
    /\ \A r \in b_need_ack : r[1] < r[2]
    /\ \A r, q \in b_need_ack : r # q => r[2] < q[1] \/ q[2] < r[1]
    /\ \A n \in recorded : n > until => n \in Flat(b_need_ack)

\* When A takes the frames of a packet for delivered, because it was acked or
\* because enough of its FEC group was, B has processed them.  The exception is
\* a group in which restored frames were refused.
SettledWasProcessed ==
    \A u \in settled :
        \/ processed[u] > 0
        \/ \E g \in refusals \ {0} : \E i \in DOMAIN made[g].data : made[g].data[i].unit = u
=============================================================================
