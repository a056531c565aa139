----------------------------- MODULE Lifecycle -----------------------------
(***************************************************************************)
(* A connection from its first Initial packet to its last timeout: the     *)
(* handshake over the three packet number spaces, the keys each needs, the *)
(* anti-amplification limit, the confirmation of the handshake, the loss   *)
(* timer as far as the handshake depends on it, and closing (lib.rs recv,  *)
(* recv_single, send, write_epoch, on_timeout, close; recovery.rs).        *)
(*                                                                         *)
(* TLS is external: a side has units of handshake data to send in each     *)
(* epoch and knows when it has all of the peer's.  Sizes are in units of   *)
(* handshake data, of which a packet holds Cap; ACK frames have no size.   *)
(* The datagrams carry one packet each.                                    *)
(***************************************************************************)
EXTENDS Integers, FiniteSets, Sequences, SequencesExt, FiniteSetsExt

CONSTANTS
    Cap,          \* units in a full packet: the 1200 bytes of MIN_CLIENT_INITIAL_LEN
    Flight,       \* units the server sends in Handshake packets
    AckRatio,     \* data_ack_ratio
    Talkers,      \* sides whose application may send 1-RTT data
    TlsFails,     \* sides whose TLS may reject the peer's handshake
    Closers,      \* sides whose application closes the connection
    Retries,      \* whether the server's front end asks for a Retry: FALSE, TRUE or either
    Version,      \* the version the client starts with
    MaxPn,        \* bound: packets of a side in one epoch
    MaxFaults,    \* bound: packets that are lost, come twice or overtake others
    MaxSpurious   \* bound: loss timeouts while packets are on their way

Sides == {"client", "server"}
Peer(e) == IF e = "client" THEN "server" ELSE "client"
Initial == 0
Handshake == 1
Application == 2
Epochs == {Initial, Handshake, Application}

\* version_is_supported
Versions == {"greased", "draft"}
VersionIsSupported(v) == v = "draft"

ASSUME LifecycleConstants ==
    /\ Cap \in Nat \ {0} /\ Flight \in Nat \ {0} /\ AckRatio \in Nat \ {0}
    /\ Talkers \subseteq Sides /\ TlsFails \subseteq Sides /\ Closers \subseteq Sides
    /\ Retries \subseteq BOOLEAN /\ Version \in Versions
    /\ MaxPn \in Nat /\ MaxFaults \in Nat /\ MaxSpurious \in Nat

VARIABLES
    conn,       \* the Connection of each side
    net,        \* datagrams on their way to each side, in the order sent
    faults, spurious,
    received, written,  \* history: bytes that reached the server, bytes it sent
    disturbed   \* history: an Initial or Handshake packet was lost or overtaken

vars == <<conn, net, faults, spurious, received, written, disturbed>>

-----------------------------------------------------------------------------
NoLost == [any |-> FALSE, units |-> {}, ack |-> FALSE, done |-> FALSE]

\* `rejects': TLS will reject the peer's handshake (external).  `odcid': accept()
\* gets the original connection ID out of the token the client returned; the
\* client's address is then taken as proved from the start.
NewConn(e, rejects, odcid) ==
    [rejects |-> rejects, odcid |-> odcid,
     keys |-> IF e = "client" THEN {Initial} ELSE {},
     derived |-> e = "client",        \* derived_initial_secrets
     version |-> IF e = "client" THEN Version ELSE "none", negotiated |-> FALSE,
     dcid |-> "random", token |-> FALSE,
     secret |-> "random",             \* the connection ID behind the Initial keys
     got_peer |-> FALSE, retried |-> FALSE,
     queue |-> [p \in Epochs |-> IF e = "client" /\ p = Initial THEN {1} ELSE {}],
     got |-> [p \in Epochs |-> {}],
     need_ack |-> [p \in Epochs |-> {}], elicited |-> [p \in Epochs |-> FALSE],
     seen |-> [p \in Epochs |-> {}], next |-> [p \in Epochs |-> 0],
     sent |-> [p \in Epochs |-> {}], lost |-> [p \in Epochs |-> NoLost],
     acked |-> [p \in Epochs |-> -1],           \* largest_acked_pkt
     loss_time |-> [p \in Epochs |-> FALSE], probes |-> [p \in Epochs |-> 0],
     recent |-> <<>>,   \* epochs by time_of_last_sent_ack_eliciting_pkt
     timer |-> FALSE, established |-> FALSE, confirmed |-> FALSE,
     verified |-> odcid, credit |-> 0, done_sent |-> FALSE,
     error |-> "none", draining |-> FALSE, idle |-> FALSE, closed |-> FALSE]

Init ==
    /\ \E fails \in SUBSET TlsFails, retry \in Retries :
         conn = [e \in Sides |-> NewConn(e, e \in fails, e = "server" /\ retry)]
    /\ net = [e \in Sides |-> <<>>]
    /\ faults = 0 /\ spurious = 0
    /\ received = 0 /\ written = 0 /\ disturbed = FALSE

Closing(c) == c.error # "none"

-----------------------------------------------------------------------------
(* Recovery, as far as the handshake depends on it *)

\* The epochs earliest_loss_time looks at
Timed(c) == IF c.established THEN Epochs ELSE {Initial, Handshake}

\* Only 1-RTT packets count as bytes in flight, and only those that elicit an ACK
InFlight(c) == \E p \in c.sent[Application] : p.eliciting

\* set_loss_detection_timer
SetTimer(c) ==
    LET times == SelectSeq(c.recent, LAMBDA p : p \in Timed(c)) IN
    IF \E p \in Timed(c) : c.loss_time[p] THEN [c EXCEPT !.timer = TRUE]
    ELSE IF ~InFlight(c) THEN [c EXCEPT !.timer = FALSE]
    ELSE [c EXCEPT !.timer = @ \/ times # <<>>]

\* on_packets_lost: the frames of packets in flight are to be sent again
Requeued(l, ps) ==
    LET flown == {p \in ps : p.in_flight} IN
    [any |-> l.any \/ flown # {}, units |-> l.units \cup UNION {p.units : p \in flown},
     ack |-> l.ack \/ (\E p \in flown : p.acks # {}),
     done |-> l.done \/ (\E p \in flown : p.done)]

\* detect_lost_packets: those three behind the largest acknowledged, and with
\* the time threshold passed (`late') all the others behind it
DetectLost(c, ep, late) ==
    LET behind == {p \in c.sent[ep] : p.pn <= c.acked[ep]}
        gone == {p \in behind : late \/ p.pn + 3 <= c.acked[ep]}
    IN [c EXCEPT !.sent[ep] = @ \ gone, !.lost[ep] = Requeued(@, gone),
                 !.loss_time[ep] = behind \ gone # {}]

\* on_ack_received
OnAck(c, ep, acks) ==
    LET newly == {p \in c.sent[ep] : p.pn \in acks}
        c1 == [c EXCEPT !.acked[ep] = Max({@} \cup acks), !.sent[ep] = @ \ newly]
    IN IF acks = {} THEN c
       ELSE IF newly = {} THEN c1
       ELSE SetTimer(DetectLost(c1, ep, FALSE))

\* PktNumSpace::clear; then Recovery::drop_unacked_data, which leaves the timer
ClearSpace(c, ep) == [c EXCEPT !.queue[ep] = {}, !.elicited[ep] = FALSE]
Clear(c, ep) ==
    [ClearSpace(c, ep) EXCEPT
              !.sent[ep] = {}, !.lost[ep] = NoLost, !.loss_time[ep] = FALSE,
              !.probes[ep] = 0, !.recent = SelectSeq(@, LAMBDA p : p # ep)]

\* drop_epoch_state
DropEpoch(c, ep) ==
    IF ep \notin c.keys THEN c ELSE [Clear(c, ep) EXCEPT !.keys = @ \ {ep}]

\* on_loss_detection_timeout
OnTimer(c) ==
    LET times == SelectSeq(c.recent, LAMBDA p : p \in Timed(c))
        late == {p \in Timed(c) : c.loss_time[p]}
        epoch == IF times = <<>> THEN Initial ELSE Head(times)
    IN IF late # {}
       THEN {SetTimer(DetectLost(c, ep, TRUE)) : ep \in late}
       ELSE {SetTimer([c EXCEPT !.probes[epoch] = 2])}

-----------------------------------------------------------------------------
(* Sending *)

\* write_epoch: the epoch of the next packet, 3 for none
Level(e, c) == IF Handshake \in c.keys \/ c.established THEN Handshake ELSE Initial
WriteEpoch(e, c) ==
    LET ready == {p \in Epochs :
                    /\ p = Application => c.established
                    /\ \/ c.queue[p] # {} \/ c.elicited[p]
                       \/ c.lost[p].any \/ c.probes[p] > 0}
    IN IF c.error = "error"
       THEN IF c.established THEN Application ELSE Level(e, c)
       ELSE Min(ready \cup {3})

\* "Process lost frames"
TakeLost(c, ep) ==
    LET l == c.lost[ep] IN
    [c EXCEPT !.lost[ep] = NoLost, !.queue[ep] = @ \cup l.units,
              !.elicited[ep] = @ \/ l.ack, !.done_sent = @ /\ ~l.done]

\* The room the peer's address leaves the packet; fault: it is not limited
Left_Dropped(e, c) == Cap
Left(e, c) == IF e = "server" /\ ~c.verified THEN Min({c.credit, Cap}) ELSE Cap

Lowest(S, k) == {i \in S : Cardinality({j \in S : j <= i}) <= k}

\* The packet send() builds; `none' if it would have no frames.  An unpadded
\* HANDSHAKE_DONE makes a packet neither ack-eliciting nor in flight.
Packet(e, c, ep) ==
    LET left == Left(e, c)
        acks == IF ~Closing(c) /\ (c.elicited[ep] \/ c.next[ep] % AckRatio = 0)
                THEN c.need_ack[ep] ELSE {}
        done == /\ ep = Application /\ ~Closing(c) /\ e = "server"
                /\ c.established /\ ~c.done_sent
        close == c.error = "error" \/ (c.error = "app" /\ ep = Application)
        units == IF Closing(c) THEN {} ELSE Lowest(c.queue[ep], left)
        ping == c.probes[ep] > 0 /\ ~Closing(c) /\ units = {}
        eliciting == close \/ units # {} \/ ping
        padded == e = "client" /\ ep = Initial
    IN [ty |-> "packet", ep |-> ep, version |-> c.version, dcid |-> c.dcid, token |-> c.token,
        secret |-> IF ep = Initial THEN c.secret ELSE "tls",
        pn |-> c.next[ep], acks |-> acks, done |-> done,
        close |-> close, units |-> units, eliciting |-> eliciting,
        in_flight |-> eliciting \/ padded \/ (done /\ acks = {}),
        size |-> IF padded THEN Cap ELSE Cardinality(units),
        none |-> acks = {} /\ ~done /\ ~eliciting]

\* What send() does once the packet is built
Transmitted(e, c, p) ==
    LET ep == p.ep
        c1 == [c EXCEPT
                 !.elicited[ep] = @ /\ p.acks = {},
                 !.done_sent = @ \/ p.done,
                 !.queue[ep] = @ \ p.units,
                 !.draining = p.close,
                 !.probes[ep] = IF p.eliciting THEN Max({@ - 1, 0}) ELSE @,
                 !.next[ep] = @ + 1,
                 !.sent[ep] = @ \cup {p},
                 !.recent = IF p.eliciting
                            THEN Append(SelectSeq(@, LAMBDA q : q # ep), ep) ELSE @,
                 !.credit = Max({@ - p.size, 0}),
                 !.idle = @ \/ p.eliciting]
        c2 == IF p.in_flight THEN SetTimer(c1) ELSE c1
    IN IF e = "client" /\ ep = Handshake THEN DropEpoch(c2, Initial) ELSE c2

\* send() has a packet to write; it returns Done without keys, room or frames
HasPacket(e, c, ep) ==
    ep \in c.keys /\ Left(e, c) > 0 /\ ~Packet(e, c, ep).none /\ c.next[ep] < MaxPn

CanSend(e) ==
    LET c == conn[e]
        ep == WriteEpoch(e, c)
    IN /\ ~c.closed /\ ~c.draining /\ c.derived
       /\ ep \in Epochs
       /\ c.lost[ep].any \/ HasPacket(e, c, ep)

\* The lost frames are taken even if there is no packet then
Send(e) ==
    LET ep == WriteEpoch(e, conn[e])
        c == TakeLost(conn[e], ep)
        p == Packet(e, c, ep)
    IN
    /\ CanSend(e)
    /\ IF HasPacket(e, c, ep)
       THEN /\ conn' = [conn EXCEPT ![e] = Transmitted(e, c, p)]
            /\ net' = [net EXCEPT ![Peer(e)] = Append(@, p)]
            /\ written' = IF e = "server" THEN written + p.size ELSE written
       ELSE conn' = [conn EXCEPT ![e] = c] /\ UNCHANGED <<net, written>>
    /\ UNCHANGED <<faults, spurious, received, disturbed>>

-----------------------------------------------------------------------------
(* Receiving *)

\* The handshake data of the peer in each epoch
Whole(e, ep) == CASE ep = Handshake /\ e = "client" -> 1..Flight [] OTHER -> {1}

\* TLS (external), once it has all of the peer's data of an epoch.  The server
\* sends a session ticket when the handshake is complete.
Tls(e, c) ==
    LET all(ep) == c.got[ep] = Whole(e, ep) IN
    IF c.established THEN c
    ELSE IF e = "client"
    THEN IF ~all(Initial) THEN c
         ELSE IF ~all(Handshake) THEN [c EXCEPT !.keys = @ \cup {Handshake}]
         ELSE IF c.rejects THEN [c EXCEPT !.error = "error"]
         ELSE [c EXCEPT !.keys = @ \cup {Application}, !.established = TRUE,
                        !.queue[Handshake] = {1}]
    ELSE IF all(Handshake)
         THEN [c EXCEPT !.established = TRUE, !.queue[Application] = {1}]
         ELSE IF c.rejects THEN [c EXCEPT !.error = "error"]
         ELSE IF Handshake \in c.keys THEN c
         ELSE [c EXCEPT !.keys = @ \cup {Handshake, Application},
                        !.queue[Initial] = {1}, !.queue[Handshake] = 1..Flight]

\* An ACK of a 1-RTT packet confirms the handshake; fault: any ACK does
Confirms_Any(c, p) == p.acks # {} /\ c.established
Confirms(c, p) == p.acks # {} /\ p.ep = Application /\ c.established

\* process_frame, in the order the frames are written
ProcessAck(c, p) ==
    LET c1 == OnAck(c, p.ep, p.acks) IN
    IF Confirms(c1, p) THEN DropEpoch([c1 EXCEPT !.confirmed = TRUE], Handshake) ELSE c1
ProcessDone(c, p) ==
    IF p.done THEN DropEpoch([c EXCEPT !.confirmed = TRUE], Handshake) ELSE c
ProcessClose(c, p) == [c EXCEPT !.draining = @ \/ p.close]

\* The CRYPTO stream's receive buffer puts the data back in order: once nothing
\* is missing, TLS has read it all.
Reordered(c, ep, units) == [c EXCEPT !.got[ep] = @ \cup units]
ProcessCrypto(e, c, p) ==
    IF p.units = {} THEN c ELSE Tls(e, Reordered(c, p.ep, p.units))

\* What the acknowledged ACK frames told the peer is forgotten, the packet is
\* recorded, and a Handshake packet proves the client's address.
Proves(e, p) == e = "server" /\ p.ep = Handshake
Record(e, c0, c, p) ==
    LET told == {Max(q.acks) : q \in {r \in c0.sent[p.ep] : r.pn \in p.acks /\ r.acks # {}}}
        c1 == [c EXCEPT !.need_ack[p.ep] =
                            {n \in @ : \A t \in told : n > t} \cup {p.pn},
                        !.seen[p.ep] = @ \cup {p.pn},
                        !.elicited[p.ep] = @ \/ p.eliciting \/ p.done,
                        !.idle = TRUE]
    IN IF Proves(e, p) THEN [DropEpoch(c1, Initial) EXCEPT !.verified = TRUE] ELSE c1

\* recv() raises the limit last, unless recv_single failed
Credited(e, c, p) ==
    IF e = "server" /\ ~c.verified THEN [c EXCEPT !.credit = @ + 3 * p.size] ELSE c

\* The connection ID of the peer and, on the server, the Initial keys and the
\* version come from its first packet, even from one that is not decrypted.
Meet(e, c, p) ==
    [c EXCEPT !.got_peer = TRUE, !.derived = TRUE,
              !.dcid = IF c.got_peer THEN @ ELSE "peer",
              !.version = IF c.derived THEN @ ELSE p.version,
              !.secret = IF c.derived THEN @ ELSE p.dcid,
              !.keys = IF c.derived THEN @ ELSE @ \cup {Initial}]

\* recv_count is positive once a packet was processed to its end
Junk(c) == \A ep \in Epochs : c.seen[ep] = {}
Fail(c) == [c EXCEPT !.error = IF @ = "none" THEN "error" ELSE @]

\* recv() of a datagram; any error but Done closes the connection
Accept(e, c, p) ==
    LET c1 == Meet(e, c, p)
        c2 == ProcessCrypto(e, ProcessClose(ProcessDone(ProcessAck(c1, p), p), p), p)
    IN IF c.draining \/ Closing(c) \/ c.closed THEN c
       ELSE IF p.ep = Application /\ ~c.established THEN Credited(e, c, p)
       ELSE IF p.ep # Application /\ c.derived /\ p.version # c.version THEN Fail(c)
       ELSE IF p.ep \notin c1.keys THEN Credited(e, c1, p)
       ELSE IF p.ep = Initial /\ p.secret # c1.secret
            THEN IF Junk(c1) THEN Fail(c1) ELSE c1
       ELSE IF p.pn \in c1.seen[p.ep] THEN c1
       ELSE IF Closing(c2) THEN c2
       ELSE Credited(e, Record(e, c1, c2, p), p)

\* The client starts over with a new Initial packet; fault: with nothing in it
StartOver_Empty(c) == [Clear(c, Initial) EXCEPT !.got_peer = FALSE]
StartOver(c) == [Clear(c, Initial) EXCEPT !.got_peer = FALSE, !.queue[Initial] = {1}]

\* The integrity tag of a Retry packet depends on the connection ID of the
\* Initial packet it answers.
RetryTag(odcid) == odcid
RetryVerified(c, q) == q.tag = RetryTag(c.dcid)

Deaf(c) == c.draining \/ Closing(c) \/ c.closed

\* A Version Negotiation packet names the client's own connection IDs; a second
\* one is ignored.
AcceptVersion(c, q) ==
    IF Deaf(c) \/ c.negotiated \/ q.scid # c.dcid THEN c
    ELSE [StartOver(c) EXCEPT !.version = "draft", !.negotiated = TRUE]

\* A Retry packet: new connection ID, new Initial keys; a second one, or one
\* after a packet of the server, is ignored
AcceptRetry(c, q) ==
    IF Deaf(c) \/ c.retried \/ ~RetryVerified(c, q) THEN c
    ELSE [StartOver(c) EXCEPT !.retried = TRUE, !.token = TRUE, !.dcid = q.scid,
                              !.secret = q.scid]

\* negotiate_version() and retry(), called by the application before accept();
\* one that asks for a Retry (c.odcid) accepts only an Initial with a token
NegotiateVersion(p) == [ty |-> "version", ep |-> Initial, scid |-> p.dcid]
Retry(p) == [ty |-> "retry", ep |-> Initial, scid |-> "retry", tag |-> RetryTag(p.dcid)]
FrontEnd(c, p) ==
    IF ~VersionIsSupported(p.version) THEN <<NegotiateVersion(p)>>
    ELSE IF c.odcid /\ ~p.token THEN <<Retry(p)>> ELSE <<>>

Receive(e, i) ==
    LET p == net[e][i]
        rest == [net EXCEPT ![e] = RemoveAt(@, i)]
        c == conn[e]
        answer == IF e = "server" /\ ~c.derived THEN FrontEnd(c, p) ELSE <<>>
    IN
    /\ i > 1 => faults < MaxFaults
    /\ faults' = IF i > 1 THEN faults + 1 ELSE faults
    /\ disturbed' = (disturbed \/ (i > 1 /\ \E j \in 1..i : net[e][j].ep # Application))
    /\ net' = [rest EXCEPT !["client"] = @ \o answer]
    /\ IF answer # <<>> THEN UNCHANGED <<conn, received>>
       ELSE /\ conn' = [conn EXCEPT ![e] = CASE p.ty = "version" -> AcceptVersion(c, p)
                                             [] p.ty = "retry" -> AcceptRetry(c, p)
                                             [] OTHER -> Accept(e, c, p)]
            /\ received' = IF e = "server" THEN received + p.size ELSE received
    /\ UNCHANGED <<spurious, written>>

Lose(e, i) ==
    /\ faults < MaxFaults /\ faults' = faults + 1
    /\ net' = [net EXCEPT ![e] = RemoveAt(@, i)]
    /\ disturbed' = (disturbed \/ net[e][i].ep # Application)
    /\ UNCHANGED <<conn, spurious, received, written>>

Copy(e, i) ==
    /\ faults < MaxFaults /\ faults' = faults + 1
    /\ net' = [net EXCEPT ![e] = Append(@, @[i])]
    /\ UNCHANGED <<conn, spurious, received, written, disturbed>>

-----------------------------------------------------------------------------
(* Timers and closing *)

Quiet == \A e \in Sides : net[e] = <<>> /\ ~CanSend(e)

\* on_timeout with the loss timer expired.  PTOs exceed round trips: a
\* timeout with packets still on their way is a spurious one.
LossTimeout(e) ==
    /\ conn[e].timer /\ ~conn[e].draining /\ ~conn[e].closed
    /\ \/ Quiet /\ UNCHANGED spurious
       \/ ~Quiet /\ spurious < MaxSpurious /\ spurious' = spurious + 1
    /\ \E c \in OnTimer(conn[e]) : conn' = [conn EXCEPT ![e] = c]
    /\ UNCHANGED <<net, faults, received, written, disturbed>>

\* The idle timeout is at least three PTOs, longer than any packet takes
IdleTimeout(e) ==
    /\ Quiet
    /\ conn[e].idle /\ ~conn[e].draining /\ ~conn[e].closed
    /\ conn' = [conn EXCEPT ![e].closed = TRUE]
    /\ UNCHANGED <<net, faults, spurious, received, written, disturbed>>

DrainTimeout(e) ==
    /\ conn[e].draining /\ ~conn[e].closed
    /\ conn' = [conn EXCEPT ![e].closed = TRUE]
    /\ UNCHANGED <<net, faults, spurious, received, written, disturbed>>

\* close() by the application; app: with an application error
Close(e, app) ==
    /\ e \in Closers /\ ~conn[e].closed
    /\ ~conn[e].draining /\ ~Closing(conn[e])
    /\ conn' = [conn EXCEPT ![e].error = IF app THEN "app" ELSE "error"]
    /\ UNCHANGED <<net, faults, spurious, received, written, disturbed>>

\* The application has data to send, as one unit of 1-RTT data
Talk(e) ==
    /\ e \in Talkers /\ conn[e].established /\ ~conn[e].closed
    /\ 2 \notin conn[e].queue[Application]
    /\ conn[e].next[Application] = 0
    /\ conn' = [conn EXCEPT ![e].queue[Application] = @ \cup {2}]
    /\ UNCHANGED <<net, faults, spurious, received, written, disturbed>>

-----------------------------------------------------------------------------
ReceiveStep(e) == \E i \in DOMAIN net[e] : Receive(e, i)
LoseStep(e) == \E i \in DOMAIN net[e] : Lose(e, i)
CopyStep(e) == \E i \in DOMAIN net[e] : Copy(e, i)
CloseStep(e) == \E app \in BOOLEAN : Close(e, app)

Next ==
    \E e \in Sides :
        \/ Send(e) \/ ReceiveStep(e) \/ LoseStep(e) \/ CopyStep(e)
        \/ LossTimeout(e) \/ IdleTimeout(e) \/ DrainTimeout(e) \/ CloseStep(e) \/ Talk(e)

Spec == Init /\ [][Next]_vars

\* The application calls send() and recv() whenever they have something to do
\* and on_timeout() when the loss and draining timers expire; the network
\* delivers what it does not lose.  Weak fairness, with ENABLED spelled out
\* for the long actions.
CanTimeout(e) ==
    /\ conn[e].timer /\ ~conn[e].draining /\ ~conn[e].closed
    /\ Quiet \/ spurious < MaxSpurious
    /\ \E c \in OnTimer(conn[e]) : c # conn[e]
Fairness ==
    \A e \in Sides :
        /\ []<>~CanSend(e) \/ []<><<Send(e)>>_vars
        /\ []<>(net[e] = <<>>) \/ []<><<ReceiveStep(e)>>_vars
        /\ []<>~CanTimeout(e) \/ []<><<LossTimeout(e)>>_vars
        /\ WF_vars(DrainTimeout(e))
FairSpec == Spec /\ Fairness

-----------------------------------------------------------------------------
(* What a connection promises *)

Client == conn["client"]
Server == conn["server"]

Dropped(c) == {p \in {Initial, Handshake} :
                 p \notin c.keys /\ (IF p = Initial THEN c.derived ELSE c.confirmed)}

\* The keys and the unacknowledged data of an epoch are dropped only when the
\* peer has all the handshake data sent in it.
DropIsSafe ==
    \A e \in Sides : \A p \in Dropped(conn[e]) :
        conn[Peer(e)].got[p] = Whole(Peer(e), p)

\* Until the server has processed a Handshake packet of the client it sends at
\* most three times what it received.  The code has one exception: a connection
\* accepted with the token of a Retry is not limited at all, but then the server
\* has sent nothing before the client had that token.
AmplificationLimit ==
    \/ written <= 3 * received
    \/ Server.seen[Handshake] # {}
    \/ Server.odcid /\ Client.token

\* If the handshake's packets arrive, in order, and nobody closes the
\* connection, both sides confirm it, whatever 1-RTT packets are lost.
HandshakeCompletes ==
    <>(\/ Client.confirmed /\ Server.confirmed
       \/ disturbed \/ \E e \in Sides : Closing(conn[e]) \/ conn[e].closed)

\* Nothing the network does to the packets makes an endpoint close the connection.
NeverSelfInflicted ==
    \A e \in Sides : Closing(conn[e]) => conn[e].rejects \/ e \in Closers

-----------------------------------------------------------------------------
(* What comments say, and the code does not do *)

\* lib.rs, recv(): the limit "needs to be increased early on, so that if there is
\* an error there is enough credit to send a CONNECTION_CLOSE".
CloseHasCredit ==
    Server.error = "error" /\ ~Server.verified /\ received > 0 => Server.credit > 0

\* lib.rs, send(): Done is returned "if there was nothing to write"; a probe in
\* an epoch without keys makes it return Done for ever.
ProbesHaveKeys ==
    \A e \in Sides : \A p \in Epochs : conn[e].probes[p] > 0 => p \in conn[e].keys
=============================================================================
