-------------------------- MODULE Lifecycle_proofs --------------------------
(***************************************************************************)
(* Theorems about Lifecycle: keys and handshake data are dropped only when *)
(* the peer no longer needs them, and the server's answers to an unproved  *)
(* address stay below three times what came from it, for every size of     *)
(* flight and packet, every ratio of ACKs, every fault, and every bound.   *)
(***************************************************************************)
EXTENDS Lifecycle, FiniteFacts

-----------------------------------------------------------------------------
(* The inductive invariant *)

\* A Connection has the fields of a new one
Fields ==
    {"rejects", "odcid", "keys", "derived", "version", "negotiated", "dcid", "token", "secret", "got_peer", "retried",
     "queue", "got", "need_ack", "elicited", "seen", "next", "sent", "lost", "acked", "loss_time", "probes",
     "recent", "timer", "established", "confirmed", "verified", "credit", "done_sent", "error", "draining",
     "idle", "closed"}
PerEpoch(f) == f = [p \in Epochs |-> f[p]]
Typed(c) ==
    /\ c = [k \in Fields |-> c[k]]
    /\ PerEpoch(c.queue) /\ PerEpoch(c.got) /\ PerEpoch(c.sent) /\ PerEpoch(c.lost)
    /\ PerEpoch(c.seen) /\ c.keys \subseteq Epochs /\ c.credit \in Nat

\* Handshake data a side still holds: to be sent, lost, or waiting for an ACK
Units(c, ep) == c.queue[ep] \cup c.lost[ep].units \cup UNION {p.units : p \in c.sent[ep]}

\* One side, by itself: what it has in an epoch is handshake data of that epoch;
\* the server has none for Initial packets before it has read the client's;
\* Handshake keys and completion wait for the peer's data.
ConnOK(e, c) ==
    /\ Typed(c)
    /\ \A ep \in {Initial, Handshake} :
         Units(c, ep) \subseteq Whole(Peer(e), ep) /\ c.got[ep] \subseteq Whole(e, ep)
    /\ Units(c, Application) \subseteq {1, 2}
    /\ e = "server" /\ Units(c, Initial) # {} => c.got[Initial] = {1}
    /\ e = "client" => c.derived
    /\ e = "client" /\ Handshake \in c.keys => c.got[Initial] = {1}
    /\ c.established => c.got[Handshake] = Whole(e, Handshake)
    /\ c.established /\ e = "client" => c.got[Initial] = {1}
    /\ e = "server" /\ c.verified => c.odcid \/ c.seen[Handshake] # {}

\* What a side's state says of its peer
PairOK(e, c, d) ==
    /\ c.confirmed => d.got[Handshake] = Whole(Peer(e), Handshake)
    /\ c.derived /\ Initial \notin c.keys => d.got[Initial] = {1}
    /\ e = "client" /\ c.got[Initial] # {} => d.got[Initial] = {1}
    /\ e = "server" /\ c.odcid /\ c.derived => d.token

\* What a packet on its way to side e says of its sender d
PacketOK(e, p, d) ==
    /\ p.ty \in {"packet", "version", "retry"} /\ (e = "server" => p.ty = "packet")
    /\ p.ty = "packet" =>
         /\ p.ep \in Epochs /\ p.size \in Nat
         /\ p.ep # Application => p.units \subseteq Whole(e, p.ep)
         /\ p.ep = Application => d.established
         /\ p.done => p.ep = Application /\ e = "client" /\ d.established
         /\ p.token => d.token
         /\ e = "server" /\ p.ep = Handshake => d.got[Initial] = {1}
         /\ e = "client" /\ p.ep = Initial /\ p.units # {} => d.got[Initial] = {1}

\* The limit, while the address is unproved; before the first packet of the client
\* there are no keys to send with
CreditOK ==
    /\ ~conn["server"].verified => written + conn["server"].credit <= 3 * received
    /\ ~conn["server"].derived => written = 0

\* The datagrams on their way to side e
NetOK(e) == \E T : net[e] \in Seq(T) /\ \A p \in T : PacketOK(e, p, conn[Peer(e)])

Inv ==
    /\ conn = [e \in Sides |-> conn[e]] /\ DOMAIN net = Sides
    /\ received \in Nat /\ written \in Nat
    /\ \A e \in Sides : ConnOK(e, conn[e]) /\ PairOK(e, conn[e], conn[Peer(e)]) /\ NetOK(e)
    /\ CreditOK

-----------------------------------------------------------------------------
(* Recovery's operators *)

\* What recovery leaves alone: keys, handshake and credit; data is only forgotten
\* or moved
Same(c, d) ==
    /\ Typed(d)
    /\ \A f \in {"keys", "derived", "got", "established", "confirmed", "verified", "odcid", "token", "seen", "credit"} :
         d[f] = c[f]
    /\ \A ep \in Epochs : Units(d, ep) \subseteq Units(c, ep)

\* Same, but for keys
Dropping(c, d) ==
    /\ Typed(d) /\ d.keys \subseteq c.keys
    /\ \A f \in {"derived", "got", "established", "verified", "odcid", "token", "seen", "credit"} : d[f] = c[f]
    /\ \A ep \in Epochs : Units(d, ep) \subseteq Units(c, ep)

LEMMA SameTrans ==
    ASSUME NEW a, NEW b, NEW c, Same(a, b), Same(b, c)
    PROVE  Same(a, c)
BY DEF Same

\* set_loss_detection_timer sets the timer
LEMMA SetTimerIs ==
    ASSUME NEW c, Typed(c)
    PROVE  Same(c, SetTimer(c))
<1>1. \A b : Same(c, [c EXCEPT !.timer = b])
  BY DEF Same, Typed, Fields, Units
<1> QED BY <1>1, <1>1 DEF SetTimer

\* detect_lost_packets moves frames from the packets sent to those lost
LEMMA DetectLostIs ==
    ASSUME NEW c, Typed(c), NEW ep \in Epochs, NEW late
    PROVE  Same(c, DetectLost(c, ep, late))
<1> DEFINE behind == {p \in c.sent[ep] : p.pn <= c.acked[ep]}
           gone == {p \in behind : late \/ p.pn + 3 <= c.acked[ep]}
<1>1. PICK s : s = c.sent[ep] \ gone
  OBVIOUS
<1>2. PICK l : l = Requeued(c.lost[ep], gone)
  OBVIOUS
<1>3. PICK b : b = (behind \ gone # {})
  OBVIOUS
<1>4. PICK d : d = DetectLost(c, ep, late)
  OBVIOUS
<1>5. d = [c EXCEPT !.sent[ep] = s, !.lost[ep] = l, !.loss_time[ep] = b]
  BY <1>1, <1>2, <1>3, <1>4 DEF DetectLost
<1>6. l.units = c.lost[ep].units \cup UNION {p.units : p \in {q \in gone : q.in_flight}}
  BY <1>2 DEF Requeued
<1>7. s \subseteq c.sent[ep] /\ gone \subseteq c.sent[ep]
  BY <1>1
<1>8. l.units \subseteq c.lost[ep].units \cup UNION {p.units : p \in c.sent[ep]}
  BY <1>6, <1>7
<1> HIDE DEF gone, behind
<1>9. /\ Typed(d)
      /\ \A f \in {"keys", "derived", "got", "established", "confirmed", "verified", "odcid", "token", "seen", "credit"} :
           d[f] = c[f]
      /\ d.queue = c.queue
      /\ d.sent = [c.sent EXCEPT ![ep] = s] /\ d.lost = [c.lost EXCEPT ![ep] = l]
  BY <1>5 DEF Typed, Fields, PerEpoch
<1>10. ASSUME NEW q \in Epochs PROVE Units(d, q) \subseteq Units(c, q)
  <2>1. CASE q = ep
    <3>1. d.sent[q] = s /\ d.lost[q] = l /\ d.queue[q] = c.queue[q]
      BY <1>9, <2>1 DEF Typed, PerEpoch
    <3> QED BY <3>1, <1>7, <1>8, <2>1 DEF Units
  <2>2. CASE q # ep
    <3>1. d.sent[q] = c.sent[q] /\ d.lost[q] = c.lost[q] /\ d.queue[q] = c.queue[q]
      BY <1>9, <2>2 DEF Typed, PerEpoch
    <3> QED BY <3>1 DEF Units
  <2> QED BY <2>1, <2>2
<1> QED BY <1>4, <1>9, <1>10 DEF Same

\* on_ack_received forgets the packets acknowledged and looks for lost ones
LEMMA OnAckIs ==
    ASSUME NEW c, Typed(c), NEW ep \in Epochs, NEW acks
    PROVE  Same(c, OnAck(c, ep, acks))
<1> DEFINE newly == {p \in c.sent[ep] : p.pn \in acks}
<1>1. PICK m : m = Max({c.acked[ep]} \cup acks)
  OBVIOUS
<1>2. PICK s : s = c.sent[ep] \ newly
  OBVIOUS
<1>3. PICK d : d = [c EXCEPT !.acked[ep] = m, !.sent[ep] = s]
  OBVIOUS
<1>4. \/ OnAck(c, ep, acks) = c
      \/ OnAck(c, ep, acks) = d
      \/ OnAck(c, ep, acks) = SetTimer(DetectLost(d, ep, FALSE))
  <2>1. d = [c EXCEPT !.acked[ep] = Max({@} \cup acks), !.sent[ep] = @ \ newly]
    BY <1>1, <1>2, <1>3
  <2> QED BY <2>1 DEF OnAck
<1>5. /\ Typed(d)
      /\ \A f \in {"keys", "derived", "got", "established", "confirmed", "verified", "odcid", "token", "seen", "credit"} :
           d[f] = c[f]
      /\ d.queue = c.queue /\ d.lost = c.lost /\ d.sent = [c.sent EXCEPT ![ep] = s]
  BY <1>3 DEF Typed, Fields, PerEpoch
<1>6. \A q \in Epochs : d.sent[q] \subseteq c.sent[q]
  BY <1>2, <1>5 DEF Typed, PerEpoch
<1>7. Same(c, d)
  BY <1>5, <1>6 DEF Same, Units
<1>8. Same(c, c)
  BY DEF Same
<1>9. Same(c, SetTimer(DetectLost(d, ep, FALSE)))
  <2>1. PICK x : x = DetectLost(d, ep, FALSE)
    OBVIOUS
  <2>2. PICK y : y = SetTimer(x)
    OBVIOUS
  <2>3. Same(d, x)
    BY <1>5, <2>1, DetectLostIs
  <2>4. Typed(x)
    BY <2>3 DEF Same
  <2>5. Same(x, y)
    BY <2>2, <2>4, SetTimerIs
  <2>6. Same(c, y)
    BY ONLY <1>7, <2>3, <2>5, SameTrans
  <2> QED BY <2>1, <2>2, <2>6
<1> QED BY <1>4, <1>7, <1>8, <1>9

\* on_loss_detection_timeout
LEMMA OnTimerIs ==
    ASSUME NEW c, Typed(c), NEW d \in OnTimer(c)
    PROVE  Same(c, d)
<1>1. \A x : Same(c, [c EXCEPT !.probes = x])
  BY DEF Same, Typed, Fields, Units
<1>2. \A x : [c EXCEPT !.probes[x] = 2] = [c EXCEPT !.probes = [c.probes EXCEPT ![x] = 2]]
  BY DEF Typed, Fields
<1>3. PICK p : d = SetTimer([c EXCEPT !.probes[p] = 2]) \/ (p \in Epochs /\ d = SetTimer(DetectLost(c, p, TRUE)))
  BY DEF OnTimer, Timed, Epochs
<1>4. PICK y : /\ \/ \E x : y = [c EXCEPT !.probes[x] = 2]
                  \/ \E x \in Epochs : y = DetectLost(c, x, TRUE)
               /\ d = SetTimer(y)
  BY <1>3
<1>5. Same(c, y)
  BY <1>1, <1>2, <1>4, DetectLostIs
<1>6. Same(y, SetTimer(y))
  BY <1>5, SetTimerIs DEF Same
<1> QED BY ONLY <1>4, <1>5, <1>6, SameTrans

\* PktNumSpace::clear and drop_unacked_data
LEMMA ClearIs ==
    ASSUME NEW c, Typed(c), NEW ep \in Epochs
    PROVE  Same(c, Clear(c, ep)) /\ Units(Clear(c, ep), ep) = {}
<1>1. PICK d : d = Clear(c, ep)
  OBVIOUS
<1> DEFINE b == [c EXCEPT !.queue = [c.queue EXCEPT ![ep] = {}], !.elicited[ep] = FALSE]
<1>2. Typed(b) /\ ClearSpace(c, ep) = b
  BY DEF ClearSpace, Typed, Fields, PerEpoch
<1>3. /\ \A f \in {"keys", "derived", "got", "established", "confirmed", "verified", "odcid", "token", "seen", "credit", "sent", "lost"} :
           b[f] = c[f]
      /\ b.queue = [c.queue EXCEPT ![ep] = {}]
  BY DEF Typed, Fields, PerEpoch
<1>4. d = [ClearSpace(c, ep) EXCEPT !.sent[ep] = {}, !.lost[ep] = NoLost, !.loss_time[ep] = FALSE,
                                    !.probes[ep] = 0, !.recent = SelectSeq(@, LAMBDA p : p # ep)]
  BY <1>1 DEF Clear
<1> HIDE DEF b
<1>5. \E x, y, r : d = [b EXCEPT !.sent = [b.sent EXCEPT ![ep] = {}], !.lost = [b.lost EXCEPT ![ep] = NoLost],
                               !.loss_time = x, !.probes = y, !.recent = r]
  BY <1>2, <1>4 DEF Typed, Fields
<1>6. /\ Typed(d)
      /\ \A f \in {"keys", "derived", "got", "established", "confirmed", "verified", "odcid", "token", "seen", "credit"} :
           d[f] = c[f]
      /\ d.queue = [c.queue EXCEPT ![ep] = {}] /\ d.sent = [c.sent EXCEPT ![ep] = {}]
      /\ d.lost = [c.lost EXCEPT ![ep] = NoLost]
  <2>1. PICK S : S = [b.sent EXCEPT ![ep] = {}]
    OBVIOUS
  <2>2. PICK L : L = [b.lost EXCEPT ![ep] = NoLost]
    OBVIOUS
  <2>3. PICK x, y, r :
           d = [b EXCEPT !.sent = [b.sent EXCEPT ![ep] = {}], !.lost = [b.lost EXCEPT ![ep] = NoLost],
                         !.loss_time = x, !.probes = y, !.recent = r]
    BY ONLY <1>5
  <2>4. PerEpoch(S) /\ PerEpoch(L)
    BY <2>1, <2>2, <1>2 DEF Typed, PerEpoch
  <2>5. PICK a : a = [b EXCEPT !.sent = S, !.lost = L]
    OBVIOUS
  <2>6. d = [[[a EXCEPT !.loss_time = x] EXCEPT !.probes = y] EXCEPT !.recent = r]
    BY ONLY <2>1, <2>2, <2>3, <2>5, Zenon
  <2>7. /\ Typed(a) /\ a.sent = S /\ a.lost = L
        /\ \A f \in {"keys", "derived", "got", "established", "confirmed", "verified", "odcid", "token", "seen", "credit", "queue"} :
             a[f] = b[f]
    BY ONLY <2>5, <2>4, <1>2 DEF Typed, Fields
  <2>8. /\ Typed(d)
        /\ \A f \in {"keys", "derived", "got", "established", "confirmed", "verified", "odcid", "token", "seen", "credit", "queue",
                      "sent", "lost"} : d[f] = a[f]
    BY ONLY <2>6, <2>7 DEF Typed, Fields
  <2> QED BY <2>1, <2>2, <2>7, <2>8, <1>3
<1>7. Units(d, ep) = {}
  BY <1>6 DEF Typed, PerEpoch, Units, NoLost
<1>8. \A q \in Epochs : q # ep => d.queue[q] = c.queue[q] /\ d.sent[q] = c.sent[q] /\ d.lost[q] = c.lost[q]
  BY <1>6 DEF Typed, PerEpoch
<1>9. \A q \in Epochs : Units(d, q) \subseteq Units(c, q)
  BY <1>7, <1>8 DEF Units
<1> QED BY <1>1, <1>6, <1>7, <1>9 DEF Same

\* drop_epoch_state takes the keys of one epoch
LEMMA DropEpochIs ==
    ASSUME NEW c, Typed(c), NEW ep \in Epochs
    PROVE  /\ Dropping(c, DropEpoch(c, ep))
           /\ DropEpoch(c, ep).keys = c.keys \ {ep}
           /\ DropEpoch(c, ep).confirmed = c.confirmed
<1>1. CASE ep \notin c.keys
  BY <1>1 DEF DropEpoch, Dropping
<1>2. CASE ep \in c.keys
  <2>1. PICK a : a = Clear(c, ep)
    OBVIOUS
  <2>2. PICK d : d = [a EXCEPT !.keys = c.keys \ {ep}]
    OBVIOUS
  <2>3. Same(c, a)
    BY <2>1, ClearIs
  <2>4. DropEpoch(c, ep) = d
    BY <1>2, <2>1, <2>2, <2>3 DEF DropEpoch, Same
  <2>5. /\ Typed(d) /\ d.keys = c.keys \ {ep}
        /\ \A f \in {"derived", "got", "established", "confirmed", "verified", "odcid", "token", "seen", "credit",
                     "queue", "sent", "lost"} : d[f] = a[f]
    BY <2>2, <2>3 DEF Same, Typed, Fields, PerEpoch
  <2>6. \A q \in Epochs : Units(d, q) = Units(a, q)
    BY <2>5 DEF Units
  <2> QED BY <2>3, <2>4, <2>5, <2>6 DEF Same, Dropping
<1> QED BY <1>1, <1>2

\* "Process lost frames" moves them to what is to be sent
LEMMA TakeLostIs ==
    ASSUME NEW c, Typed(c), NEW ep \in Epochs
    PROVE  Same(c, TakeLost(c, ep))
<1> DEFINE l == c.lost[ep]
<1>1. PICK d : d = TakeLost(c, ep)
  OBVIOUS
<1>2. PICK Q : Q = [c.queue EXCEPT ![ep] = @ \cup l.units]
  OBVIOUS
<1>3. PICK L : L = [c.lost EXCEPT ![ep] = NoLost]
  OBVIOUS
<1>4. d = [c EXCEPT !.lost[ep] = NoLost, !.queue[ep] = @ \cup l.units,
                    !.elicited[ep] = @ \/ l.ack, !.done_sent = @ /\ ~l.done]
  BY <1>1, Zenon DEF TakeLost
<1>5. \E x, y : d = [c EXCEPT !.lost = L, !.queue = Q, !.elicited = x, !.done_sent = y]
  BY <1>2, <1>3, <1>4 DEF Typed, Fields
<1>6. PerEpoch(Q) /\ PerEpoch(L)
  BY <1>2, <1>3 DEF Typed, PerEpoch
<1>7. /\ Typed(d) /\ d.queue = Q /\ d.lost = L
      /\ \A f \in {"keys", "derived", "got", "established", "confirmed", "verified", "odcid", "token", "seen", "credit", "sent"} :
           d[f] = c[f]
  <2>1. PICK x, y : d = [c EXCEPT !.lost = L, !.queue = Q, !.elicited = x, !.done_sent = y]
    BY ONLY <1>5
  <2>2. PICK a : a = [c EXCEPT !.lost = L, !.queue = Q]
    OBVIOUS
  <2>3. d = [[a EXCEPT !.elicited = x] EXCEPT !.done_sent = y]
    BY ONLY <2>1, <2>2, Zenon
  <2>4. /\ Typed(a) /\ a.queue = Q /\ a.lost = L
        /\ \A f \in {"keys", "derived", "got", "established", "confirmed", "verified", "odcid", "token", "seen", "credit", "sent"} :
             a[f] = c[f]
    BY ONLY <2>2, <1>6, Typed(c) DEF Typed, Fields
  <2>5. /\ Typed(d)
        /\ \A f \in {"keys", "derived", "got", "established", "confirmed", "verified", "odcid", "token", "seen", "credit", "sent",
                      "queue", "lost"} : d[f] = a[f]
    BY ONLY <2>3, <2>4 DEF Typed, Fields
  <2> QED BY ONLY <2>4, <2>5
<1>8. Q[ep] = c.queue[ep] \cup l.units /\ L[ep].units = {}
  BY <1>2, <1>3 DEF Typed, PerEpoch, NoLost
<1>9. \A q \in Epochs : q # ep => Q[q] = c.queue[q] /\ L[q] = c.lost[q]
  BY <1>2, <1>3 DEF Typed, PerEpoch
<1>10. \A q \in Epochs : Units(d, q) \subseteq Units(c, q)
  BY <1>7, <1>8, <1>9 DEF Units
<1> QED BY <1>1, <1>7, <1>10 DEF Same

-----------------------------------------------------------------------------
(* Packets *)

LEMMA WholeIs ==
    /\ \A e : Whole(e, Initial) = {1}
    /\ Whole("server", Handshake) = {1} /\ Whole("client", Handshake) = 1..Flight
BY DEF Whole, Initial, Handshake

LEMMA MaxOfTwo ==
    ASSUME NEW a \in Int, NEW b \in Int
    PROVE  Max({a, b}) = IF a >= b THEN a ELSE b
<1>1. CASE a >= b
  BY <1>1, MaxIs
<1>2. CASE ~(a >= b)
  BY <1>2, MaxIs
<1> QED BY <1>1, <1>2

LEMMA MinOfTwo ==
    ASSUME NEW a \in Nat, NEW b \in Nat
    PROVE  Min({a, b}) \in Nat /\ Min({a, b}) <= a /\ Min({a, b}) <= b
BY MinOfNaturals

\* Lowest keeps at most k members
LEMMA LowestIs ==
    ASSUME NEW S, S \subseteq Nat, IsFiniteSet(S), NEW k \in Nat
    PROVE  /\ Lowest(S, k) \subseteq S
           /\ Cardinality(Lowest(S, k)) \in Nat /\ Cardinality(Lowest(S, k)) <= k
<1> DEFINE T == Lowest(S, k)
<1>1. T \subseteq S /\ \A i \in T : Cardinality({j \in S : j <= i}) <= k
  BY DEF Lowest
<1>2. IsFiniteSet(T) /\ Cardinality(T) \in Nat
  BY <1>1, FS_Subset, FS_CardinalityType
<1>3. CASE T = {}
  BY <1>2, <1>3, FS_EmptySet, 0 <= k
<1>4. CASE T # {}
  <2> HIDE DEF T
  <2>1. T \subseteq Int
    BY <1>1
  <2>2. PICK m \in T : \A y \in T : m >= y
    BY <1>2, <1>4, <2>1, MaxOfFinite
  <2> DEFINE B == {j \in S : j <= m}
  <2>3. T \subseteq B /\ B \subseteq S
    BY <1>1, <2>1, <2>2
  <2>4. IsFiniteSet(B) /\ Cardinality(B) \in Nat /\ Cardinality(B) <= k
    BY <1>1, <2>2, <2>3, FS_Subset, FS_CardinalityType
  <2>5. Cardinality(T) <= Cardinality(B)
    BY <2>3, <2>4, FS_Subset
  <2> QED BY <1>1, <1>2, <2>4, <2>5 DEF T
<1> QED BY <1>1, <1>2, <1>3, <1>4

\* The packet of epoch ep carries data that was to be sent, and no more than the
\* credit of an unproved address
LEMMA PacketIs ==
    ASSUME NEW e \in Sides, NEW c, ConnOK(e, c), NEW ep \in Epochs, NEW p, p = Packet(e, c, ep)
    PROVE  /\ p.ty = "packet" /\ p.ep = ep /\ p.size \in Nat /\ p.units \subseteq c.queue[ep]
           /\ p.done => ep = Application /\ e = "server" /\ c.established
           /\ e = "server" /\ ~c.verified => p.size <= c.credit
           /\ p.token = c.token
<1>1. Cap \in Nat /\ Flight \in Nat
  BY LifecycleConstants
<1>2. c.queue[ep] \subseteq Nat /\ IsFiniteSet(c.queue[ep])
  <2>1. c.queue[ep] \subseteq {1} \cup {1, 2} \cup 1..Flight
    BY WholeIs DEF ConnOK, Units, Epochs, Sides, Peer
  <2>2. IsFiniteSet({1, 2} \cup 1..Flight)
    <3>1. 1 \in Int /\ 2 \in Int /\ Flight \in Int /\ {1, 2} = 1..2
      BY <1>1
    <3>2. IsFiniteSet(1..2) /\ IsFiniteSet(1..Flight)
      BY ONLY <3>1, FS_Interval
    <3> QED BY ONLY <3>1, <3>2, FS_Union
  <2> QED BY <2>1, <2>2, <1>1, FS_Subset
<1>3. Left(e, c) \in Nat /\ (e = "server" /\ ~c.verified => Left(e, c) <= c.credit)
  BY <1>1, MinOfTwo DEF Left, ConnOK, Typed
<1>4. PICK u : u = IF Closing(c) THEN {} ELSE Lowest(c.queue[ep], Left(e, c))
  OBVIOUS
<1>5. u \subseteq c.queue[ep] /\ Cardinality(u) \in Nat /\ Cardinality(u) <= Left(e, c)
  BY <1>2, <1>3, <1>4, LowestIs, FS_EmptySet
<1>6. /\ p.ty = "packet" /\ p.ep = ep /\ p.units = u /\ p.token = c.token
      /\ p.size = IF e = "client" /\ ep = Initial THEN Cap ELSE Cardinality(u)
      /\ p.done = (ep = Application /\ ~Closing(c) /\ e = "server" /\ c.established /\ ~c.done_sent)
  BY <1>4 DEF Packet
<1>7. p.size \in Nat /\ (e = "server" => p.size = Cardinality(u))
  BY <1>1, <1>5, <1>6
<1>8. c.credit \in Nat
  BY DEF ConnOK, Typed
<1>9. e = "server" /\ ~c.verified => p.size <= c.credit
  BY ONLY <1>3, <1>5, <1>7, <1>8
<1> QED BY <1>5, <1>6, <1>7, <1>9

\* What send() does with the packet it built: its data moves to the packets sent,
\* the credit shrinks by its size, and the client's first Handshake packet drops
\* the Initial keys.
SentPacket(e, c, p, d) ==
    /\ Typed(d)
    /\ \A f \in {"derived", "got", "established", "confirmed", "verified", "odcid", "token", "seen"} : d[f] = c[f]
    /\ d.keys = IF e = "client" /\ p.ep = Handshake THEN c.keys \ {Initial} ELSE c.keys
    /\ d.credit = IF c.credit >= p.size THEN c.credit - p.size ELSE 0
    /\ \A ep \in Epochs : Units(d, ep) \subseteq Units(c, ep)
LEMMA TransmittedIs ==
    ASSUME NEW e \in Sides, NEW c, Typed(c), NEW p, p.ep \in Epochs, p.size \in Nat,
           p.units \subseteq c.queue[p.ep], NEW d, d = Transmitted(e, c, p)
    PROVE  SentPacket(e, c, p, d)
<1> DEFINE ep == p.ep
           Kept == {"derived", "got", "established", "confirmed", "verified", "odcid", "token", "seen", "keys"}
<1>1. PICK Q : Q = [c.queue EXCEPT ![ep] = @ \ p.units]
  OBVIOUS
<1>2. PICK S : S = [c.sent EXCEPT ![ep] = @ \cup {p}]
  OBVIOUS
<1>3. PICK m : m = Max({c.credit - p.size, 0})
  OBVIOUS
<1>4. m \in Nat /\ m = IF c.credit >= p.size THEN c.credit - p.size ELSE 0
  <2>1. c.credit - p.size \in Int /\ 0 \in Int /\ c.credit \in Nat
    BY DEF Typed
  <2>2. m = IF c.credit - p.size >= 0 THEN c.credit - p.size ELSE 0
    BY ONLY <1>3, <2>1, MaxOfTwo
  <2> QED BY <2>1, <2>2
<1>5. PICK c1 : c1 = [c EXCEPT
                 !.elicited[ep] = @ /\ p.acks = {},
                 !.done_sent = @ \/ p.done,
                 !.queue[ep] = @ \ p.units,
                 !.draining = p.close,
                 !.probes[ep] = IF p.eliciting THEN Max({@ - 1, 0}) ELSE @,
                 !.next[ep] = @ + 1,
                 !.sent[ep] = @ \cup {p},
                 !.recent = IF p.eliciting
                            THEN Append(SelectSeq(@, LAMBDA q : q # ep), ep) ELSE @,
                 !.credit = Max({@ - p.size, 0}),
                 !.idle = @ \/ p.eliciting]
  OBVIOUS
<1>6. PICK c2 : c2 = IF p.in_flight THEN SetTimer(c1) ELSE c1
  OBVIOUS
<1>7. d = IF e = "client" /\ ep = Handshake THEN DropEpoch(c2, Initial) ELSE c2
  BY <1>5, <1>6 DEF Transmitted
<1>8. PICK x1, x2, x3, x4, x5, x6, x7 :
         c1 = [c EXCEPT !.elicited = x1, !.done_sent = x2, !.queue = Q, !.draining = x3, !.probes = x4,
                        !.next = x5, !.sent = S, !.recent = x6, !.credit = m, !.idle = x7]
  <2>1. PICK y1 : y1 = [c.elicited EXCEPT ![ep] = @ /\ p.acks = {}]
    OBVIOUS
  <2>2. PICK y4 : y4 = [c.probes EXCEPT ![ep] = IF p.eliciting THEN Max({@ - 1, 0}) ELSE @]
    OBVIOUS
  <2>3. PICK y5 : y5 = [c.next EXCEPT ![ep] = @ + 1]
    OBVIOUS
  <2>4. PICK y6 : y6 = IF p.eliciting THEN Append(SelectSeq(c.recent, LAMBDA q : q # ep), ep)
                                      ELSE c.recent
    OBVIOUS
  <2>5. PICK y2 : y2 = (c.done_sent \/ p.done)
    OBVIOUS
  <2>6. PICK y7 : y7 = (c.idle \/ p.eliciting)
    OBVIOUS
  <2>7. c1 = [c EXCEPT !.elicited = y1, !.done_sent = y2, !.queue = Q, !.draining = p.close, !.probes = y4,
                       !.next = y5, !.sent = S, !.recent = y6, !.credit = m, !.idle = y7]
    BY ONLY <1>1, <1>2, <1>3, <1>5, <2>1, <2>2, <2>3, <2>4, <2>5, <2>6
  <2> QED BY ONLY <2>7
<1>9. PerEpoch(Q) /\ PerEpoch(S)
  BY <1>1, <1>2 DEF Typed, PerEpoch
<1>10. PICK a : a = [c EXCEPT !.queue = Q, !.sent = S, !.credit = m]
  OBVIOUS
<1>11. PICK b : b = [a EXCEPT !.elicited = x1, !.done_sent = x2, !.draining = x3]
  OBVIOUS
<1>12. PICK b2 : b2 = [b EXCEPT !.probes = x4, !.next = x5]
  OBVIOUS
<1>13. c1 = [b2 EXCEPT !.recent = x6, !.idle = x7]
  BY ONLY <1>8, <1>10, <1>11, <1>12, Zenon
<1>14. /\ Typed(a) /\ a.queue = Q /\ a.sent = S /\ a.credit = m /\ a.lost = c.lost
       /\ \A f \in Kept : a[f] = c[f]
  BY ONLY <1>10, <1>9, <1>4, Typed(c) DEF Typed, Fields
<1>15. Typed(b) /\ \A f \in Kept \cup {"queue", "sent", "lost", "credit"} : b[f] = a[f]
  BY ONLY <1>11, <1>14 DEF Typed, Fields
<1>16. Typed(b2) /\ \A f \in Kept \cup {"queue", "sent", "lost", "credit"} : b2[f] = b[f]
  BY ONLY <1>12, <1>15 DEF Typed, Fields
<1>17. Typed(c1) /\ \A f \in Kept \cup {"queue", "sent", "lost", "credit"} : c1[f] = b2[f]
  BY ONLY <1>13, <1>16 DEF Typed, Fields
<1>18. /\ c1.queue = Q /\ c1.sent = S /\ c1.credit = m /\ c1.lost = c.lost
       /\ \A f \in Kept : c1[f] = c[f]
  BY ONLY <1>14, <1>15, <1>16, <1>17
<1>19. \A q \in Epochs : Units(c1, q) \subseteq Units(c, q)
  <2>1. Q[ep] = c.queue[ep] \ p.units /\ S[ep] = c.sent[ep] \cup {p}
    BY <1>1, <1>2 DEF Typed, PerEpoch
  <2>2. \A q \in Epochs : q # ep => Q[q] = c.queue[q] /\ S[q] = c.sent[q]
    BY <1>1, <1>2 DEF Typed, PerEpoch
  <2>3. ASSUME NEW q \in Epochs, NEW u \in Units(c1, q) PROVE u \in Units(c, q)
    BY <1>18, <2>1, <2>2, <2>3 DEF Units
  <2> QED BY <2>3
<1>20. Typed(c2) /\ c2.credit = m /\ \A f \in Kept : c2[f] = c[f]
  BY <1>6, <1>17, <1>18, SetTimerIs DEF Same
<1>21. \A q \in Epochs : Units(c2, q) \subseteq Units(c, q)
  BY <1>6, <1>17, <1>19, SetTimerIs DEF Same
<1>22. CASE e = "client" /\ ep = Handshake
  <2>1. PICK g : g = DropEpoch(c2, Initial)
    OBVIOUS
  <2>2. Dropping(c2, g) /\ g.keys = c2.keys \ {Initial} /\ g.confirmed = c2.confirmed
    BY <1>20, <2>1, DropEpochIs DEF Epochs
  <2>3. d = g
    BY <1>7, <1>22, <2>1
  <2> QED BY <1>4, <1>20, <1>21, <1>22, <2>2, <2>3 DEF Dropping, SentPacket
<1>23. CASE ~(e = "client" /\ ep = Handshake)
  BY <1>4, <1>7, <1>20, <1>21, <1>23 DEF SentPacket
<1> QED BY <1>22, <1>23

-----------------------------------------------------------------------------
(* Steps of one side *)

\* What holds of a side holds after data was forgotten or moved, and keys dropped
LEMMA DroppingOK ==
    ASSUME NEW e \in Sides, NEW c, ConnOK(e, c), NEW d, Dropping(c, d)
    PROVE  ConnOK(e, d)
<1>1. \A ep \in {Initial, Handshake, Application} : Units(d, ep) \subseteq Units(c, ep)
  BY DEF Dropping, Epochs
<1>2. /\ Typed(d) /\ d.keys \subseteq c.keys /\ d.got = c.got /\ d.derived = c.derived
      /\ d.established = c.established /\ d.verified = c.verified /\ d.odcid = c.odcid /\ d.seen = c.seen
  BY DEF Dropping
<1> QED BY ONLY <1>1, <1>2, ConnOK(e, c) DEF ConnOK

LEMMA SameOK ==
    ASSUME NEW e \in Sides, NEW c, ConnOK(e, c), NEW d, Same(c, d)
    PROVE  /\ ConnOK(e, d) /\ Dropping(c, d)
           /\ \A o : PairOK(e, c, o) => PairOK(e, d, o)
<1>1. Dropping(c, d)
  BY DEF Same, Dropping
<1>2. d.keys = c.keys /\ d.derived = c.derived /\ d.got = c.got /\ d.confirmed = c.confirmed
      /\ d.verified = c.verified /\ d.odcid = c.odcid
  BY DEF Same
<1>3. \A o : PairOK(e, c, o) => PairOK(e, d, o)
  BY ONLY <1>2 DEF PairOK
<1> QED BY <1>1, <1>3, DroppingOK

\* What the other side and the packets on their way say of a side stays true when
\* it has more data and may be established
LEMMA SideStep ==
    ASSUME Inv, NEW e \in Sides, NEW d, conn' = [conn EXCEPT ![e] = d],
           ConnOK(e, d), PairOK(e, d, conn[Peer(e)]),
           conn[e].got[Initial] \subseteq d.got[Initial],
           conn[e].got[Handshake] \subseteq d.got[Handshake],
           conn[e].established => d.established, conn[e].token => d.token
    PROVE  /\ conn' = [x \in Sides |-> conn'[x]] /\ conn'[e] = d /\ conn'[Peer(e)] = conn[Peer(e)]
           /\ \A x \in Sides : ConnOK(x, conn'[x]) /\ PairOK(x, conn'[x], conn'[Peer(x)])
           /\ \A x \in Sides : \A p :
                PacketOK(x, p, conn[Peer(x)]) => PacketOK(x, p, conn'[Peer(x)])
<1>1. Peer(e) \in Sides /\ Peer(e) # e /\ Peer(Peer(e)) = e /\ \A x \in Sides : x = e \/ x = Peer(e)
  BY DEF Sides, Peer
<1>2. conn = [x \in Sides |-> conn[x]]
  BY DEF Inv
<1>3. conn' = [x \in Sides |-> conn'[x]] /\ conn'[e] = d /\ conn'[Peer(e)] = conn[Peer(e)]
  BY <1>1, <1>2
<1>4. ConnOK(e, conn[e]) /\ ConnOK(Peer(e), conn[Peer(e)]) /\ PairOK(Peer(e), conn[Peer(e)], conn[e])
  BY <1>1 DEF Inv
<1>5. /\ conn[e].got[Initial] = {1} => d.got[Initial] = {1}
      /\ conn[e].got[Handshake] = Whole(e, Handshake) => d.got[Handshake] = Whole(e, Handshake)
  <2>1. d.got[Initial] \subseteq {1} /\ d.got[Handshake] \subseteq Whole(e, Handshake)
    BY WholeIs DEF ConnOK
  <2> QED BY <2>1
<1>6. PairOK(Peer(e), conn[Peer(e)], d)
  BY ONLY <1>1, <1>4, <1>5, conn[e].token => d.token DEF PairOK
<1>7. \A x \in Sides : ConnOK(x, conn'[x]) /\ PairOK(x, conn'[x], conn'[Peer(x)])
  BY <1>1, <1>3, <1>4, <1>6
<1>8. \A p : PacketOK(Peer(e), p, conn[e]) => PacketOK(Peer(e), p, d)
  BY ONLY <1>5, conn[e].established => d.established, conn[e].token => d.token DEF PacketOK
<1> QED BY <1>1, <1>3, <1>7, <1>8

\* Packets keep their place when they are sent
LEMMA NetKept ==
    ASSUME NEW e \in Sides, NetOK(e), net'[e] = net[e],
           \A p : PacketOK(e, p, conn[Peer(e)]) => PacketOK(e, p, conn'[Peer(e)])
    PROVE  NetOK(e)'
<1>1. PICK T : net[e] \in Seq(T) /\ \A p \in T : PacketOK(e, p, conn[Peer(e)])
  BY DEF NetOK
<1>2. net'[e] \in Seq(T) /\ \A p \in T : PacketOK(e, p, conn'[Peer(e)])
  BY <1>1
<1>3. \A p : PacketOK(e, p, conn'[Peer(e)]) <=> PacketOK(e, p, conn[Peer(e)])'
  BY DEF PacketOK, Peer, Whole
<1> QED BY <1>2, <1>3 DEF NetOK

LEMMA NetSent ==
    ASSUME NEW e \in Sides, NetOK(e), NEW q, net'[e] = Append(net[e], q),
           \A p : PacketOK(e, p, conn[Peer(e)]) => PacketOK(e, p, conn'[Peer(e)]),
           PacketOK(e, q, conn'[Peer(e)])
    PROVE  NetOK(e)'
<1>1. PICK T : net[e] \in Seq(T) /\ \A p \in T : PacketOK(e, p, conn[Peer(e)])
  BY DEF NetOK
<1>2. PICK U : U = T \cup {q}
  OBVIOUS
<1>3. net[e] \in Seq(U) /\ q \in U
  BY <1>1, <1>2
<1>4. net'[e] \in Seq(U)
  BY <1>3
<1>5. \A p \in U : PacketOK(e, p, conn'[Peer(e)])
  BY <1>1, <1>2
<1>6. \A p : PacketOK(e, p, conn'[Peer(e)]) <=> PacketOK(e, p, conn[Peer(e)])'
  BY DEF PacketOK, Peer, Whole
<1> QED BY <1>4, <1>5, <1>6 DEF NetOK

\* The next packet is one of the epochs; 1-RTT packets wait for the handshake
LEMMA WriteEpochIs ==
    ASSUME NEW e, NEW c, WriteEpoch(e, c) = Application
    PROVE  c.established
<1>1. CASE c.error = "error"
  BY <1>1 DEF WriteEpoch, Level, Application, Handshake, Initial
<1>2. CASE c.error # "error"
  <2> DEFINE ready == {p \in Epochs :
                    /\ p = Application => c.established
                    /\ \/ c.queue[p] # {} \/ c.elicited[p]
                       \/ c.lost[p].any \/ c.probes[p] > 0}
  <2>1. Application = Min(ready \cup {3})
    BY <1>2 DEF WriteEpoch
  <2>2. ready \cup {3} \subseteq Nat /\ ready \cup {3} # {}
    BY DEF Epochs, Application, Handshake, Initial
  <2>3. Application \in ready \cup {3}
    BY <2>1, <2>2, MinOfNaturals
  <2> QED BY <2>3 DEF Application
<1> QED BY <1>1, <1>2

LEMMA PeersAre ==
    /\ \A e \in Sides : Peer(e) \in Sides /\ Peer(e) # e /\ Peer(Peer(e)) = e
    /\ \A e, x \in Sides : x = e \/ x = Peer(e)
    /\ Sides = {"client", "server"} /\ Peer("client") = "server" /\ Peer("server") = "client"
BY DEF Sides, Peer

\* Everything Inv says, for a step that gives side e the Connection d and leaves
\* the packets to e alone
LEMMA InvAfter ==
    ASSUME Inv, NEW e \in Sides, NEW d, conn' = [conn EXCEPT ![e] = d],
           ConnOK(e, d), PairOK(e, d, conn[Peer(e)]),
           conn[e].got[Initial] \subseteq d.got[Initial],
           conn[e].got[Handshake] \subseteq d.got[Handshake],
           conn[e].established => d.established, conn[e].token => d.token,
           DOMAIN net' = Sides, NetOK(e)', NetOK(Peer(e))',
           received' \in Nat, written' \in Nat, CreditOK'
    PROVE  Inv'
<1>1. /\ conn' = [x \in Sides |-> conn'[x]]
      /\ \A x \in Sides : ConnOK(x, conn'[x]) /\ PairOK(x, conn'[x], conn'[Peer(x)])
  BY SideStep
<1>2. \A x \in Sides : NetOK(x)'
  <2>1. ASSUME NEW x \in Sides PROVE NetOK(x)'
    <3>1. CASE x = e
      BY <3>1
    <3>2. CASE x = Peer(e)
      BY <3>2
    <3> QED BY <3>1, <3>2, PeersAre
  <2> QED BY <2>1
<1>3. \A x \in Sides : ConnOK(x, conn[x])' /\ PairOK(x, conn[x], conn[Peer(x)])'
  <2>1. \A x \in Sides : Peer(x)' = Peer(x)
    BY DEF Peer
  <2>2. \A x : ConnOK(x, conn'[x]) <=> ConnOK(x, conn[x])'
    BY DEF ConnOK, Typed, PerEpoch, Units, Whole, Peer, Fields
  <2>3. \A x : PairOK(x, conn'[x], conn'[Peer(x)]) <=> PairOK(x, conn[x], conn[Peer(x)])'
    BY DEF PairOK, Whole, Peer
  <2> QED BY <1>1, <2>2, <2>3
<1> QED BY <1>1, <1>2, <1>3 DEF Inv

LEMMA SendStep ==
    ASSUME Inv, NEW e \in Sides, Send(e)
    PROVE  Inv'
<1>1. PICK ep : ep = WriteEpoch(e, conn[e])
  OBVIOUS
<1>2. PICK c : c = TakeLost(conn[e], ep)
  OBVIOUS
<1>3. PICK p : p = Packet(e, c, ep)
  OBVIOUS
<1>4. ep \in Epochs /\ (ep = Application => conn[e].established)
  BY <1>1, WriteEpochIs DEF Send, CanSend
<1>5. ConnOK(e, conn[e]) /\ Typed(conn[e]) /\ PairOK(e, conn[e], conn[Peer(e)])
      /\ NetOK(e) /\ NetOK(Peer(e)) /\ DOMAIN net = Sides
      /\ received \in Nat /\ written \in Nat /\ CreditOK
  BY PeersAre DEF Inv, ConnOK
<1>6. Same(conn[e], c)
  BY <1>2, <1>4, <1>5, TakeLostIs
<1>7. ConnOK(e, c) /\ PairOK(e, c, conn[Peer(e)])
  BY <1>5, <1>6, SameOK
<1>8. c.got = conn[e].got /\ c.established = conn[e].established /\ c.credit = conn[e].credit
      /\ c.verified = conn[e].verified /\ c.keys = conn[e].keys
      /\ c.token = conn[e].token /\ c.derived = conn[e].derived
  BY <1>6 DEF Same
<1>9. CASE ~HasPacket(e, c, ep)
  <2>1. conn' = [conn EXCEPT ![e] = c] /\ net' = net /\ written' = written /\ received' = received
    BY <1>1, <1>2, <1>9 DEF Send
  <2>2. /\ conn'[e] = c /\ conn'[Peer(e)] = conn[Peer(e)]
        /\ \A x \in Sides : \A q : PacketOK(x, q, conn[Peer(x)]) => PacketOK(x, q, conn'[Peer(x)])
    BY <1>7, <1>8, <2>1, SideStep
  <2>3. NetOK(e)' /\ NetOK(Peer(e))'
    BY <1>5, <2>1, <2>2, PeersAre, NetKept
  <2>4. CreditOK'
    BY <1>5, <1>8, <2>1, <2>2, PeersAre DEF CreditOK
  <2> QED BY <1>5, <1>7, <1>8, <2>1, <2>3, <2>4, InvAfter
<1>10. CASE HasPacket(e, c, ep)
  <2>1. PICK d : d = Transmitted(e, c, p)
    OBVIOUS
  <2>2. /\ conn' = [conn EXCEPT ![e] = d] /\ net' = [net EXCEPT ![Peer(e)] = Append(@, p)]
        /\ written' = IF e = "server" THEN written + p.size ELSE written
        /\ received' = received
    BY <1>1, <1>2, <1>3, <1>10, <2>1 DEF Send
  <2>3. ep \in c.keys
    BY <1>10 DEF HasPacket
  <2>4. /\ p.ty = "packet" /\ p.ep = ep /\ p.size \in Nat /\ p.units \subseteq c.queue[ep]
        /\ p.done => ep = Application /\ e = "server" /\ c.established
        /\ e = "server" /\ ~c.verified => p.size <= c.credit
        /\ p.token = c.token
    BY <1>3, <1>4, <1>7, PacketIs
  <2>5. Typed(c)
    BY <1>7 DEF ConnOK
  <2>6. /\ Typed(d)
        /\ d.derived = c.derived /\ d.got = c.got /\ d.established = c.established
        /\ d.confirmed = c.confirmed /\ d.verified = c.verified
        /\ d.odcid = c.odcid /\ d.token = c.token /\ d.seen = c.seen
        /\ d.keys = IF e = "client" /\ ep = Handshake THEN c.keys \ {Initial} ELSE c.keys
        /\ d.credit = IF c.credit >= p.size THEN c.credit - p.size ELSE 0
        /\ \A q \in Epochs : Units(d, q) \subseteq Units(c, q)
    <3>1. p.ep \in Epochs /\ p.size \in Nat /\ p.units \subseteq c.queue[p.ep]
      BY <1>4, <2>4
    <3>2. SentPacket(e, c, p, d)
      BY ONLY <2>1, <2>5, <3>1, e \in Sides, TransmittedIs
    <3> QED BY ONLY <2>4, <3>2 DEF SentPacket
  <2>7. ConnOK(e, d)
    <3>1. d.keys \subseteq c.keys
      BY <2>6
    <3>2. \A q \in {Initial, Handshake, Application} : Units(d, q) \subseteq Units(c, q)
      BY <2>6 DEF Epochs
    <3> QED BY ONLY <1>7, <2>6, <3>1, <3>2 DEF ConnOK
  <2>8. e = "client" /\ ep = Handshake => c.got[Initial] = {1}
    BY <1>7, <2>3 DEF ConnOK
  <2>9. PairOK(e, d, conn[Peer(e)])
    BY ONLY <1>7, <2>6, <2>8 DEF PairOK
  <2>10. /\ conn'[e] = d /\ conn'[Peer(e)] = conn[Peer(e)]
         /\ \A x \in Sides : \A q : PacketOK(x, q, conn[Peer(x)]) => PacketOK(x, q, conn'[Peer(x)])
    BY <1>8, <2>2, <2>6, <2>7, <2>9, SideStep
  <2>11. PacketOK(Peer(e), p, d)
    <3>1. p.units \subseteq Units(c, ep)
      BY <2>4 DEF Units
    <3>2. ep # Application => p.units \subseteq Whole(Peer(e), ep)
      BY <1>4, <1>7, <3>1 DEF ConnOK, Epochs
    <3>3. e = "server" /\ ep = Initial /\ p.units # {} => d.got[Initial] = {1}
      BY <1>7, <2>6, <3>1 DEF ConnOK
    <3>4. ep = Application => d.established
      BY <1>4, <1>8, <2>6
    <3> QED BY <1>4, <2>4, <2>6, <2>8, <3>2, <3>3, <3>4, PeersAre DEF PacketOK
  <2>12. NetOK(e)'
    <3>1. net'[e] = net[e]
      BY <1>5, <2>2, PeersAre
    <3> QED BY <1>5, <3>1, <2>10, NetKept
  <2>13. NetOK(Peer(e))'
    <3>1. Peer(e) \in Sides /\ conn'[Peer(Peer(e))] = d
      BY <2>10, PeersAre
    <3>2. net'[Peer(e)] = Append(net[Peer(e)], p)
      BY <1>5, <2>2, <3>1
    <3> QED BY <1>5, <2>10, <2>11, <3>1, <3>2, NetSent
  <2>14. received' \in Nat /\ written' \in Nat /\ DOMAIN net' = Sides
    BY <1>5, <2>2, <2>4
  <2>15. CreditOK'
    <3>1. CASE e = "server"
      <4>1. conn'["server"] = d /\ conn["server"].credit \in Nat /\ conn["server"].derived
        BY <2>10, <3>1, <1>5 DEF Typed, Send, CanSend
      <4>2. conn'["server"].derived
        BY <1>8, <2>6, <3>1, <4>1
      <4>3. ~d.verified => written' + d.credit <= 3 * received'
        <5>1. d.verified = c.verified /\ c.verified = conn["server"].verified /\ c.credit = conn["server"].credit
          BY <1>8, <2>6, <3>1
        <5>2. ~c.verified => p.size <= c.credit /\ d.credit = c.credit - p.size
          BY <2>4, <2>6, <3>1
        <5>3. written' = written + p.size /\ received' = received
          BY <2>2, <3>1
        <5>4. ~conn["server"].verified => written + conn["server"].credit <= 3 * received
          BY <1>5 DEF CreditOK
        <5>5. p.size \in Nat /\ written \in Nat /\ received \in Nat
          BY <1>5, <2>4
        <5> QED BY ONLY <4>1, <5>1, <5>2, <5>3, <5>4, <5>5
      <4> QED BY <4>1, <4>2, <4>3 DEF CreditOK
    <3>2. CASE e = "client"
      <4>1. conn'["server"] = conn["server"]
        BY <2>10, <3>2, PeersAre
      <4> QED BY <1>5, <2>2, <3>2, <4>1 DEF CreditOK
    <3> QED BY <3>1, <3>2, PeersAre
  <2> QED BY <1>8, <2>2, <2>6, <2>7, <2>9, <2>12, <2>13, <2>14, <2>15, InvAfter
<1> QED BY <1>9, <1>10

-----------------------------------------------------------------------------
(* Receiving *)

\* What processing a packet of o does to side e: it keeps what the invariant says,
\* and handshake data, completion and proofs of the address only accumulate
Grows(e, c, d, o) ==
    /\ ConnOK(e, d) /\ PairOK(e, d, o)
    /\ c.got[Initial] \subseteq d.got[Initial] /\ c.got[Handshake] \subseteq d.got[Handshake]
    /\ c.established => d.established
    /\ c.verified => d.verified
    /\ c.derived => d.derived
    /\ c.token => d.token
    /\ Handshake \in c.keys => Handshake \in d.keys \/ d.established
    /\ d.credit = c.credit

\* Everything else may change
Alike(c, d) ==
    /\ Typed(d)
    /\ \A f \in {"keys", "derived", "got", "established", "confirmed", "verified", "odcid", "token", "seen", "credit",
                 "queue", "sent", "lost"} : d[f] = c[f]

LEMMA AlikeOK ==
    ASSUME NEW e \in Sides, NEW c, NEW o, ConnOK(e, c), PairOK(e, c, o), NEW d, Alike(c, d)
    PROVE  Grows(e, c, d, o)
<1>1. Same(c, d)
  BY DEF Alike, Same, Units
<1> QED BY <1>1, SameOK DEF Grows, Same

LEMMA GrowsTrans ==
    ASSUME NEW e, NEW a, NEW b, NEW c, NEW o, Grows(e, a, b, o), Grows(e, b, c, o)
    PROVE  Grows(e, a, c, o)
BY DEF Grows

LEMMA MeetOK ==
    ASSUME NEW e \in Sides, NEW c, NEW o, ConnOK(e, c), PairOK(e, c, o), NEW p, NEW d, d = Meet(e, c, p),
           e = "server" /\ c.odcid /\ ~c.derived => o.token
    PROVE  Grows(e, c, d, o) /\ (c.derived => d.keys = c.keys)
<1>1. PICK K : K = IF c.derived THEN c.keys ELSE c.keys \cup {Initial}
  OBVIOUS
<1>2. Typed(c) /\ K \subseteq Epochs
  BY <1>1 DEF ConnOK, Typed, Epochs
<1>3. PICK x, y, z : d = [c EXCEPT !.got_peer = TRUE, !.derived = TRUE, !.dcid = x, !.version = y, !.secret = z,
                                   !.keys = K]
  BY <1>1 DEF Meet
<1>4. PICK a : a = [c EXCEPT !.derived = TRUE, !.keys = K]
  OBVIOUS
<1>5. d = [[a EXCEPT !.got_peer = TRUE, !.dcid = x] EXCEPT !.version = y, !.secret = z]
  BY ONLY <1>3, <1>4, Zenon
<1>6. /\ Typed(a) /\ a.derived = TRUE /\ a.keys = K
      /\ \A f \in {"got", "established", "confirmed", "verified", "odcid", "token", "seen", "credit", "queue", "sent", "lost"} :
           a[f] = c[f]
  BY ONLY <1>2, <1>4 DEF Typed, Fields
<1>7. Typed([a EXCEPT !.got_peer = TRUE, !.dcid = x]) /\ Alike(a, [a EXCEPT !.got_peer = TRUE, !.dcid = x])
  BY ONLY <1>6 DEF Typed, Fields, Alike
<1>8. Alike([a EXCEPT !.got_peer = TRUE, !.dcid = x], d)
  <2>1. PICK b : b = [a EXCEPT !.got_peer = TRUE, !.dcid = x]
    OBVIOUS
  <2>2. d = [b EXCEPT !.version = y, !.secret = z]
    BY ONLY <1>5, <2>1
  <2>3. Typed(b)
    BY ONLY <1>7, <2>1
  <2>4. Alike(b, d)
    BY ONLY <2>2, <2>3 DEF Typed, Fields, Alike
  <2> QED BY ONLY <2>1, <2>4
<1>9. Alike(a, d)
  BY <1>7, <1>8 DEF Alike
<1>10. ConnOK(e, a)
  <2>1. \A ep : Units(a, ep) = Units(c, ep)
    BY <1>6 DEF Units
  <2>2. Handshake \in K <=> Handshake \in c.keys
    BY <1>1 DEF Handshake, Initial
  <2> QED BY ONLY <1>6, <2>1, <2>2, ConnOK(e, c) DEF ConnOK
<1>11. PairOK(e, a, o)
  BY ONLY <1>1, <1>6, PairOK(e, c, o), e = "server" /\ c.odcid /\ ~c.derived => o.token DEF PairOK
<1>12. Grows(e, a, d, o)
  BY <1>9, <1>10, <1>11, AlikeOK
<1>13. Handshake \in c.keys => Handshake \in K
  BY <1>1
<1> QED BY <1>1, <1>6, <1>9, <1>12, <1>13 DEF Grows, Alike

\* Handshake keys are dropped when the handshake is confirmed, which the peer's
\* completion allows
LEMMA ConfirmOK ==
    ASSUME NEW e \in Sides, NEW c, NEW o, ConnOK(e, c), PairOK(e, c, o), ConnOK(Peer(e), o),
           c.established, o.established, NEW d, d = DropEpoch([c EXCEPT !.confirmed = TRUE], Handshake)
    PROVE  Grows(e, c, d, o)
<1>1. PICK a : a = [c EXCEPT !.confirmed = TRUE]
  OBVIOUS
<1>2. Typed(c) /\ o.got[Handshake] = Whole(Peer(e), Handshake)
  BY DEF ConnOK
<1>3. /\ Typed(a) /\ a.confirmed = TRUE
      /\ \A f \in {"keys", "derived", "got", "established", "verified", "odcid", "token", "seen", "credit", "queue", "sent", "lost"} :
           a[f] = c[f]
  BY ONLY <1>1, <1>2 DEF Typed, Fields
<1>4. Dropping(a, d) /\ d.keys = a.keys \ {Handshake} /\ d.confirmed = TRUE
  BY <1>1, <1>3, DropEpochIs DEF Epochs
<1>5. Dropping(c, d)
  <2>1. \A ep : Units(a, ep) = Units(c, ep)
    BY <1>3 DEF Units
  <2> QED BY ONLY <1>3, <1>4, <2>1 DEF Dropping
<1>6. ConnOK(e, d)
  BY <1>5, DroppingOK
<1>7. d.keys = c.keys \ {Handshake} /\ Initial # Handshake /\ d.derived = c.derived /\ d.got = c.got
      /\ d.verified = c.verified /\ d.established = c.established /\ d.credit = c.credit
      /\ d.odcid = c.odcid /\ d.token = c.token
  <2>1. a.keys = c.keys
    BY ONLY <1>3
  <2>2. Initial # Handshake
    BY DEF Initial, Handshake
  <2>3. d.derived = c.derived /\ d.got = c.got /\ d.verified = c.verified
        /\ d.established = c.established /\ d.credit = c.credit
        /\ d.odcid = c.odcid /\ d.token = c.token
    BY ONLY <1>5 DEF Dropping
  <2> QED BY ONLY <1>4, <2>1, <2>2, <2>3
<1>8. PairOK(e, d, o)
  BY ONLY <1>2, <1>4, <1>7, PairOK(e, c, o) DEF PairOK
<1> QED BY <1>6, <1>7, <1>8 DEF Grows

LEMMA ProcessAckOK ==
    ASSUME NEW e \in Sides, NEW c, NEW o, ConnOK(e, c), PairOK(e, c, o), ConnOK(Peer(e), o),
           NEW p, PacketOK(e, p, o), p.ty = "packet", NEW d, d = ProcessAck(c, p)
    PROVE  Grows(e, c, d, o)
<1>1. PICK a : a = OnAck(c, p.ep, p.acks)
  OBVIOUS
<1>2. Same(c, a)
  BY <1>1, OnAckIs DEF ConnOK, PacketOK
<1>3. Grows(e, c, a, o)
  BY <1>2, SameOK DEF Same, Grows
<1>4. d = IF Confirms(a, p) THEN DropEpoch([a EXCEPT !.confirmed = TRUE], Handshake) ELSE a
  BY <1>1, Zenon DEF ProcessAck
<1>5. Confirms(a, p) => a.established /\ o.established
  BY DEF Confirms, PacketOK
<1>6. CASE Confirms(a, p)
  <2>1. Grows(e, a, d, o)
    BY <1>3, <1>4, <1>5, <1>6, ConfirmOK DEF Grows
  <2> QED BY <1>3, <2>1, GrowsTrans
<1> QED BY <1>3, <1>4, <1>6

LEMMA ProcessCloseOK ==
    ASSUME NEW e \in Sides, NEW c, NEW o, ConnOK(e, c), PairOK(e, c, o), NEW p
    PROVE  Grows(e, c, ProcessClose(c, p), o)
<1>1. Typed(c)
  BY DEF ConnOK
<1>2. PICK x : x = (c.draining \/ p.close)
  OBVIOUS
<1>3. ProcessClose(c, p) = [c EXCEPT !.draining = x]
  BY <1>2 DEF ProcessClose
<1>4. Alike(c, [c EXCEPT !.draining = x])
  BY ONLY <1>1 DEF Typed, Fields, Alike
<1> QED BY <1>3, <1>4, AlikeOK

LEMMA FailOK ==
    ASSUME NEW e \in Sides, NEW c, NEW o, ConnOK(e, c), PairOK(e, c, o)
    PROVE  Grows(e, c, Fail(c), o)
<1>1. Typed(c)
  BY DEF ConnOK
<1>2. \E x : Fail(c) = [c EXCEPT !.error = x]
  BY DEF Fail
<1>3. \A x : Alike(c, [c EXCEPT !.error = x])
  BY ONLY <1>1 DEF Typed, Fields, Alike
<1> QED BY <1>2, <1>3, AlikeOK

LEMMA ProcessDoneOK ==
    ASSUME NEW e \in Sides, NEW c, NEW o, ConnOK(e, c), PairOK(e, c, o), ConnOK(Peer(e), o),
           NEW p, PacketOK(e, p, o), p.ty = "packet", p.done => c.established
    PROVE  Grows(e, c, ProcessDone(c, p), o)
<1>1. p.done => o.established
  BY DEF PacketOK
<1>2. CASE p.done
  BY <1>1, <1>2, ConfirmOK DEF ProcessDone
<1>3. CASE ~p.done
  <2>1. Grows(e, c, c, o)
    BY DEF Grows
  <2> QED BY <1>3, <2>1 DEF ProcessDone
<1> QED BY <1>2, <1>3

\* What TLS does with the data: keys and data to send when the peer's first flight
\* is there, completion when the second is
LEMMA TlsOK ==
    ASSUME NEW e \in Sides, NEW c, NEW o, ConnOK(e, c), PairOK(e, c, o),
           e = "server" /\ ~c.established => c.got[Initial] = {1} \/ Handshake \in c.keys,
           NEW d, d = Tls(e, c)
    PROVE  Grows(e, c, d, o)
<1>1. Typed(c) /\ Flight \in Nat
  BY LifecycleConstants DEF ConnOK
<1>2. Grows(e, c, c, o)
  BY DEF Grows
<1>3. \A x : Alike(c, [c EXCEPT !.error = x])
  BY ONLY <1>1 DEF Typed, Fields, Alike
<1>4. \A x : Grows(e, c, [c EXCEPT !.error = x], o)
  BY <1>3, AlikeOK
<1>5. CASE c.established
  BY <1>2, <1>5 DEF Tls
<1>6. CASE ~c.established /\ e = "client"
  <2>1. PICK a : a = [c EXCEPT !.keys = @ \cup {Handshake}]
    OBVIOUS
  <2>2. PICK b : b = [c EXCEPT !.keys = @ \cup {Application}, !.established = TRUE, !.queue[Handshake] = {1}]
    OBVIOUS
  <2>3. \/ d = c \/ d = [c EXCEPT !.error = "error"]
        \/ d = a /\ c.got[Initial] = {1}
        \/ d = b /\ c.got[Initial] = {1} /\ c.got[Handshake] = Whole(e, Handshake)
    BY <1>6, <2>1, <2>2, WholeIs DEF Tls
  <2>4. CASE d = a /\ c.got[Initial] = {1}
    <3>1. /\ Typed(d) /\ d.keys = c.keys \cup {Handshake}
          /\ \A f \in {"got", "derived", "established", "confirmed", "verified", "odcid", "token", "seen", "credit", "queue", "sent", "lost"} :
               d[f] = c[f]
      BY <1>1, <2>1, <2>4 DEF Typed, Fields, Epochs
    <3>2. \A ep : Units(d, ep) = Units(c, ep)
      BY <3>1 DEF Units
    <3>3. ConnOK(e, d)
      BY ONLY <2>4, <3>1, <3>2, ConnOK(e, c) DEF ConnOK
    <3>4. Initial \in d.keys <=> Initial \in c.keys
      BY <3>1 DEF Initial, Handshake
    <3>5. PairOK(e, d, o)
      BY ONLY <3>1, <3>4, PairOK(e, c, o) DEF PairOK
    <3> QED BY <3>1, <3>3, <3>5 DEF Grows
  <2>5. CASE d = b /\ c.got[Initial] = {1} /\ c.got[Handshake] = Whole(e, Handshake)
    <3>1. /\ Typed(d) /\ d.keys = c.keys \cup {Application} /\ d.established = TRUE
          /\ d.queue = [c.queue EXCEPT ![Handshake] = {1}]
          /\ \A f \in {"got", "derived", "confirmed", "verified", "odcid", "token", "seen", "credit", "sent", "lost"} : d[f] = c[f]
      <4>1. PICK Q : Q = [c.queue EXCEPT ![Handshake] = {1}]
        OBVIOUS
      <4>2. d = [c EXCEPT !.keys = c.keys \cup {Application}, !.established = TRUE, !.queue = Q]
        BY <1>1, <2>2, <2>5, <4>1 DEF Typed, Fields
      <4>3. PerEpoch(Q)
        BY <1>1, <4>1 DEF Typed, PerEpoch
      <4> QED BY ONLY <1>1, <4>1, <4>2, <4>3 DEF Typed, Fields, Epochs
    <3>2. d.queue[Handshake] = {1} /\ \A ep \in {Initial, Application} : d.queue[ep] = c.queue[ep]
      BY <1>1, <3>1 DEF Typed, PerEpoch, Epochs, Initial, Handshake, Application
    <3>3. \A ep \in {Initial, Application} : Units(d, ep) = Units(c, ep)
      BY <3>1, <3>2 DEF Units
    <3>4. Units(d, Handshake) \subseteq Units(c, Handshake) \cup {1}
      BY <3>1, <3>2 DEF Units
    <3>5. Units(d, Handshake) \subseteq Whole(Peer(e), Handshake)
      BY <1>6, <3>4, WholeIs, PeersAre DEF ConnOK
    <3>6. (Initial \in d.keys <=> Initial \in c.keys) /\ (Handshake \in d.keys <=> Handshake \in c.keys)
      BY <3>1 DEF Initial, Handshake, Application
    <3>7. ConnOK(e, d)
      BY ONLY <1>6, <2>5, <3>1, <3>3, <3>5, <3>6, ConnOK(e, c) DEF ConnOK
    <3>8. PairOK(e, d, o)
      BY ONLY <3>1, <3>6, PairOK(e, c, o) DEF PairOK
    <3> QED BY <3>1, <3>6, <3>7, <3>8 DEF Grows
  <2> QED BY <1>2, <1>4, <2>3, <2>4, <2>5
<1>7. CASE ~c.established /\ e = "server"
  <2>1. PICK a : a = [c EXCEPT !.established = TRUE, !.queue[Application] = {1}]
    OBVIOUS
  <2>2. PICK b : b = [c EXCEPT !.keys = @ \cup {Handshake, Application},
                               !.queue[Initial] = {1}, !.queue[Handshake] = 1..Flight]
    OBVIOUS
  <2>3. \/ d = c \/ d = [c EXCEPT !.error = "error"]
        \/ d = a /\ c.got[Handshake] = Whole(e, Handshake)
        \/ d = b /\ Handshake \notin c.keys
    BY <1>7, <2>1, <2>2 DEF Tls
  <2>4. CASE d = a /\ c.got[Handshake] = Whole(e, Handshake)
    <3>1. /\ Typed(d) /\ d.established = TRUE /\ d.queue = [c.queue EXCEPT ![Application] = {1}]
          /\ \A f \in {"got", "keys", "derived", "confirmed", "verified", "odcid", "token", "seen", "credit", "sent", "lost"} : d[f] = c[f]
      <4>1. PICK Q : Q = [c.queue EXCEPT ![Application] = {1}]
        OBVIOUS
      <4>2. d = [c EXCEPT !.established = TRUE, !.queue = Q]
        BY <1>1, <2>1, <2>4, <4>1 DEF Typed, Fields
      <4>3. PerEpoch(Q)
        BY <1>1, <4>1 DEF Typed, PerEpoch
      <4> QED BY ONLY <1>1, <4>1, <4>2, <4>3 DEF Typed, Fields
    <3>2. d.queue[Application] = {1} /\ \A ep \in {Initial, Handshake} : d.queue[ep] = c.queue[ep]
      BY <1>1, <3>1 DEF Typed, PerEpoch, Epochs, Initial, Handshake, Application
    <3>3. \A ep \in {Initial, Handshake} : Units(d, ep) = Units(c, ep)
      BY <3>1, <3>2 DEF Units
    <3>4. Units(d, Application) \subseteq Units(c, Application) \cup {1}
      BY <3>1, <3>2 DEF Units
    <3>5. Units(d, Application) \subseteq {1, 2}
      BY <3>4 DEF ConnOK
    <3>6. ConnOK(e, d)
      BY ONLY <1>7, <2>4, <3>1, <3>3, <3>5, ConnOK(e, c) DEF ConnOK
    <3>7. PairOK(e, d, o)
      BY ONLY <3>1, PairOK(e, c, o) DEF PairOK
    <3> QED BY <3>1, <3>6, <3>7 DEF Grows
  <2>5. CASE d = b /\ Handshake \notin c.keys
    <3>1. /\ Typed(d) /\ d.keys = c.keys \cup {Handshake, Application}
          /\ d.queue = [[c.queue EXCEPT ![Initial] = {1}] EXCEPT ![Handshake] = 1..Flight]
          /\ \A f \in {"got", "derived", "established", "confirmed", "verified", "odcid", "token", "seen", "credit", "sent", "lost"} :
               d[f] = c[f]
      <4>1. PICK Q : Q = [[c.queue EXCEPT ![Initial] = {1}] EXCEPT ![Handshake] = 1..Flight]
        OBVIOUS
      <4>2. d = [c EXCEPT !.keys = c.keys \cup {Handshake, Application}, !.queue = Q]
        BY <1>1, <2>2, <2>5, <4>1 DEF Typed, Fields
      <4>3. PerEpoch(Q)
        BY <1>1, <4>1 DEF Typed, PerEpoch
      <4> QED BY ONLY <1>1, <4>1, <4>2, <4>3 DEF Typed, Fields, Epochs
    <3>2. d.queue[Initial] = {1} /\ d.queue[Handshake] = 1..Flight
          /\ d.queue[Application] = c.queue[Application]
      <4>1. PerEpoch(c.queue)
        BY <1>1 DEF Typed
      <4> QED BY ONLY <3>1, <4>1 DEF PerEpoch, Epochs, Initial, Handshake, Application
    <3>3. /\ Units(d, Initial) \subseteq Units(c, Initial) \cup {1}
          /\ Units(d, Handshake) \subseteq Units(c, Handshake) \cup 1..Flight
          /\ Units(d, Application) = Units(c, Application)
      BY <3>1, <3>2 DEF Units
    <3>4. \A ep \in {Initial, Handshake} : Units(d, ep) \subseteq Whole(Peer(e), ep)
      BY <1>7, <3>3, WholeIs, PeersAre DEF ConnOK
    <3>5. c.got[Initial] = {1}
      BY <1>7, <2>5
    <3>6. Initial \in d.keys <=> Initial \in c.keys
      BY <3>1 DEF Initial, Handshake, Application
    <3>7. ConnOK(e, d)
      BY ONLY <1>7, <3>1, <3>3, <3>4, <3>5, ConnOK(e, c) DEF ConnOK
    <3>8. PairOK(e, d, o)
      BY ONLY <3>1, <3>6, PairOK(e, c, o) DEF PairOK
    <3> QED BY <3>1, <3>7, <3>8 DEF Grows
  <2> QED BY <1>2, <1>4, <2>3, <2>4, <2>5
<1> QED BY <1>5, <1>6, <1>7, PeersAre

\* The CRYPTO stream and TLS: the data is of the packet's epoch, whose keys were
\* there when the packet was decrypted
LEMMA ProcessCryptoOK ==
    ASSUME NEW e \in Sides, NEW c, NEW o, ConnOK(e, c), PairOK(e, c, o),
           NEW p, PacketOK(e, p, o), p.ty = "packet",
           p.ep = Application => c.established,
           p.ep = Handshake => Handshake \in c.keys \/ c.established
    PROVE  Grows(e, c, ProcessCrypto(e, c, p), o)
<1>1. CASE p.units = {}
  <2>1. Grows(e, c, c, o)
    BY DEF Grows
  <2> QED BY <1>1, <2>1 DEF ProcessCrypto
<1>2. CASE p.units # {}
  <2>1. PICK a : a = Reordered(c, p.ep, p.units)
    OBVIOUS
  <2>2. PICK G : G = [c.got EXCEPT ![p.ep] = @ \cup p.units]
    OBVIOUS
  <2>3. Typed(c) /\ p.ep \in Epochs
    BY DEF ConnOK, PacketOK
  <2>4. a = [c EXCEPT !.got = G]
    BY <2>1, <2>2, <2>3 DEF Reordered, Typed, Fields
  <2>5. PerEpoch(G) /\ G[p.ep] = c.got[p.ep] \cup p.units
        /\ \A q \in Epochs : q # p.ep => G[q] = c.got[q]
    BY <2>2, <2>3 DEF Typed, PerEpoch
  <2>6. /\ Typed(a) /\ a.got = G
        /\ \A f \in {"keys", "derived", "established", "confirmed", "verified", "odcid", "token", "seen", "credit", "queue", "sent", "lost"} :
             a[f] = c[f]
    BY ONLY <2>3, <2>4, <2>5 DEF Typed, Fields
  <2>7. Initial \in Epochs /\ Handshake \in Epochs /\ Application \in Epochs
        /\ Epochs = {Initial, Handshake, Application}
        /\ Initial # Handshake /\ Initial # Application /\ Handshake # Application
    BY DEF Epochs, Initial, Handshake, Application
  <2>8. /\ c.got[Initial] \subseteq G[Initial] /\ c.got[Handshake] \subseteq G[Handshake]
        /\ G[Initial] \subseteq {1} /\ G[Handshake] \subseteq Whole(e, Handshake)
    <3>1. p.ep # Application => p.units \subseteq Whole(e, p.ep)
      BY DEF PacketOK
    <3>2. c.got[Initial] \subseteq {1} /\ c.got[Handshake] \subseteq Whole(e, Handshake)
      BY WholeIs DEF ConnOK
    <3>3. Whole(e, Initial) = {1}
      BY WholeIs
    <3> QED BY ONLY <2>3, <2>5, <2>7, <3>1, <3>2, <3>3
  <2>9. ConnOK(e, a)
    <3>1. \A ep : Units(a, ep) = Units(c, ep)
      BY <2>6 DEF Units
    <3>2. \A ep \in {Initial, Handshake} : a.got[ep] \subseteq Whole(e, ep)
      BY <2>6, <2>8, WholeIs
    <3>3. c.got[Initial] = {1} => a.got[Initial] = {1}
      BY <2>6, <2>8
    <3>4. c.got[Handshake] = Whole(e, Handshake) => a.got[Handshake] = Whole(e, Handshake)
      BY <2>6, <2>8
    <3> QED BY ONLY <2>6, <3>1, <3>2, <3>3, <3>4, ConnOK(e, c) DEF ConnOK
  <2>10. PairOK(e, a, o)
    <3>1. e = "client" /\ a.got[Initial] # {} => o.got[Initial] = {1}
      <4>1. CASE p.ep = Initial
        BY <1>2, <4>1 DEF PacketOK
      <4>2. CASE p.ep # Initial
        BY <2>5, <2>6, <2>7, <4>2 DEF PairOK
      <4> QED BY <4>1, <4>2
    <3> QED BY ONLY <2>6, <3>1, PairOK(e, c, o) DEF PairOK
  <2>11. Grows(e, c, a, o)
    BY <2>6, <2>8, <2>9, <2>10 DEF Grows
  <2>12. e = "server" /\ ~a.established => a.got[Initial] = {1} \/ Handshake \in a.keys
    <3>1. CASE p.ep = Initial
      <4>1. p.units \subseteq {1} /\ G[Initial] = c.got[Initial] \cup p.units
        BY <2>5, <2>7, <3>1, WholeIs DEF PacketOK
      <4>2. G[Initial] = {1}
        BY ONLY <1>2, <2>8, <4>1
      <4> QED BY <2>6, <4>2
    <3>2. CASE p.ep # Initial
      BY <2>3, <2>6, <2>7, <3>2
    <3> QED BY <3>1, <3>2
  <2>13. PICK d : d = Tls(e, a)
    OBVIOUS
  <2>14. Grows(e, a, d, o)
    BY <2>9, <2>10, <2>12, <2>13, TlsOK
  <2>15. Grows(e, c, d, o)
    BY ONLY <2>11, <2>14, GrowsTrans
  <2> QED BY <1>2, <2>1, <2>13, <2>15 DEF ProcessCrypto
<1> QED BY <1>1, <1>2

\* A Handshake packet proves the client's address, and that it has the Initial data
LEMMA RecordOK ==
    ASSUME NEW e \in Sides, NEW c0, NEW c, NEW o, ConnOK(e, c), PairOK(e, c, o),
           NEW p, PacketOK(e, p, o), p.ty = "packet", NEW d, d = Record(e, c0, c, p)
    PROVE  Grows(e, c, d, o)
<1>1. PICK N, a :
         /\ a = [c EXCEPT !.need_ack[p.ep] = N, !.seen[p.ep] = @ \cup {p.pn},
                          !.elicited[p.ep] = @ \/ p.eliciting \/ p.done, !.idle = TRUE]
         /\ d = IF Proves(e, p) THEN [DropEpoch(a, Initial) EXCEPT !.verified = TRUE] ELSE a
  <2> DEFINE told == {Max(q.acks) : q \in {r \in c0.sent[p.ep] : r.pn \in p.acks /\ r.acks # {}}}
             n0 == {n \in c.need_ack[p.ep] : \A t \in told : n > t} \cup {p.pn}
             a0 == [c EXCEPT !.need_ack[p.ep] = n0, !.seen[p.ep] = @ \cup {p.pn},
                          !.elicited[p.ep] = @ \/ p.eliciting \/ p.done, !.idle = TRUE]
  <2>1. d = IF Proves(e, p) THEN [DropEpoch(a0, Initial) EXCEPT !.verified = TRUE] ELSE a0
    BY DEF Record
  <2> HIDE DEF n0, told
  <2> QED BY <2>1
<1>2. d = IF Proves(e, p) THEN [DropEpoch(a, Initial) EXCEPT !.verified = TRUE] ELSE a
  BY <1>1
<1>3. Typed(c)
  BY DEF ConnOK
<1>4. PICK y : y = [c.seen EXCEPT ![p.ep] = @ \cup {p.pn}]
  OBVIOUS
<1>5. Grows(e, c, a, o) /\ (p.ep = Handshake => a.seen[Handshake] # {})
  <2>1. PICK x : x = [c.need_ack EXCEPT ![p.ep] = N]
    OBVIOUS
  <2>2. PICK z : z = [c.elicited EXCEPT ![p.ep] = @ \/ p.eliciting \/ p.done]
    OBVIOUS
  <2>3. a = [c EXCEPT !.need_ack[p.ep] = N, !.seen[p.ep] = @ \cup {p.pn},
                       !.elicited[p.ep] = @ \/ p.eliciting \/ p.done, !.idle = TRUE]
    BY <1>1
  <2>4. a = [c EXCEPT !.need_ack = x, !.seen = y, !.elicited = z, !.idle = TRUE]
    BY ONLY <1>4, <2>1, <2>2, <2>3
  <2>5. PICK b : b = [c EXCEPT !.need_ack = x, !.elicited = z]
    OBVIOUS
  <2>6. PICK g : g = [b EXCEPT !.idle = TRUE]
    OBVIOUS
  <2>7. a = [g EXCEPT !.seen = y]
    BY ONLY <2>4, <2>5, <2>6, <1>3, Zenon
  <2>8. Alike(c, b)
    BY ONLY <1>3, <2>5 DEF Typed, Fields, Alike
  <2>9. Typed(b)
    BY <2>8 DEF Alike
  <2>10. Alike(b, g)
    BY ONLY <2>6, <2>9 DEF Typed, Fields, Alike
  <2>11. Alike(c, g)
    BY ONLY <2>8, <2>10 DEF Alike
  <2>12. Grows(e, c, g, o)
    BY <2>11, AlikeOK
  <2>13. p.ep \in Epochs /\ PerEpoch(c.seen) /\ g.seen = c.seen /\ Typed(g)
    BY <1>3, <2>11 DEF PacketOK, Typed, Alike
  <2>14. /\ PerEpoch(y) /\ (c.seen[Handshake] # {} => y[Handshake] # {})
         /\ p.ep = Handshake => y[Handshake] # {}
    BY ONLY <1>4, <2>13 DEF PerEpoch, Epochs
  <2>15. /\ Typed(a) /\ a.seen = y
         /\ \A f \in {"keys", "derived", "got", "established", "confirmed", "verified", "odcid", "token", "credit",
                      "queue", "sent", "lost"} : a[f] = g[f]
    BY ONLY <2>7, <2>13, <2>14 DEF Typed, Fields
  <2>16. \A ep : Units(a, ep) = Units(g, ep)
    BY <2>15 DEF Units
  <2>17. ConnOK(e, g) /\ PairOK(e, g, o)
    BY <2>12 DEF Grows
  <2>18. ConnOK(e, a)
    BY ONLY <2>13, <2>14, <2>15, <2>16, <2>17 DEF ConnOK
  <2>19. PairOK(e, a, o)
    BY ONLY <2>15, <2>17 DEF PairOK
  <2>20. Grows(e, g, a, o)
    BY <2>15, <2>18, <2>19 DEF Grows
  <2> QED BY <2>12, <2>14, <2>15, <2>20, GrowsTrans
<1>6. CASE Proves(e, p)
  <2>1. e = "server" /\ p.ep = Handshake /\ o.got[Initial] = {1} /\ a.seen[Handshake] # {}
    BY <1>5, <1>6 DEF Proves, PacketOK
  <2>2. PICK g : g = DropEpoch(a, Initial)
    OBVIOUS
  <2>3. ConnOK(e, a) /\ PairOK(e, a, o) /\ Typed(a)
    BY <1>5 DEF Grows, ConnOK
  <2>4. Dropping(a, g) /\ g.keys = a.keys \ {Initial} /\ g.confirmed = a.confirmed
    BY <2>2, <2>3, DropEpochIs DEF Epochs
  <2>5. ConnOK(e, g)
    BY <2>3, <2>4, DroppingOK
  <2>6. d = [g EXCEPT !.verified = TRUE]
    BY <1>2, <1>6, <2>2
  <2>7. Typed(g)
    BY <2>4 DEF Dropping
  <2>8. /\ Typed(d) /\ d.verified = TRUE
        /\ \A f \in {"keys", "derived", "got", "established", "confirmed", "odcid", "token", "seen", "credit",
                     "queue", "sent", "lost"} : d[f] = g[f]
    BY ONLY <2>6, <2>7 DEF Typed, Fields
  <2>9. ConnOK(e, d)
    <3>1. \A ep : Units(d, ep) = Units(g, ep)
      BY <2>8 DEF Units
    <3>2. d.seen[Handshake] # {}
      BY <2>1, <2>4, <2>8 DEF Dropping
    <3> QED BY ONLY <2>5, <2>8, <3>1, <3>2 DEF ConnOK
  <2>10. d.confirmed = a.confirmed /\ d.got = a.got /\ d.established = a.established
         /\ d.credit = a.credit /\ d.derived = a.derived /\ d.keys = a.keys \ {Initial}
         /\ d.odcid = a.odcid /\ d.token = a.token
    BY <2>4, <2>8 DEF Dropping
  <2>11. PairOK(e, d, o)
    BY ONLY <2>1, <2>3, <2>10 DEF PairOK
  <2>12. Handshake \in a.keys => Handshake \in d.keys
    BY <2>10 DEF Handshake, Initial
  <2>13. Grows(e, a, d, o)
    BY <2>8, <2>9, <2>10, <2>11, <2>12 DEF Grows
  <2> QED BY ONLY <1>5, <2>13, GrowsTrans
<1> QED BY <1>2, <1>5, <1>6

\* What recv() of a packet of size n does to side e
Received(e, c, d, o, n) ==
    /\ ConnOK(e, d) /\ PairOK(e, d, o)
    /\ c.got[Initial] \subseteq d.got[Initial] /\ c.got[Handshake] \subseteq d.got[Handshake]
    /\ c.established => d.established
    /\ c.derived => d.derived
    /\ c.token => d.token
    /\ ~d.verified => ~c.verified /\ d.credit <= c.credit + 3 * n

\* recv() raises the limit by three times the size, or leaves it
LEMMA CreditedOK ==
    ASSUME NEW e \in Sides, NEW c, NEW b, NEW o, Typed(c), Grows(e, c, b, o), NEW p, p.size \in Nat
    PROVE  Received(e, c, b, o, p.size) /\ Received(e, c, Credited(e, b, p), o, p.size)
<1>1. Typed(b) /\ b.credit = c.credit /\ b.credit \in Nat
  BY DEF Grows, ConnOK, Typed
<1>2. Received(e, c, b, o, p.size)
  BY <1>1 DEF Received, Grows
<1>3. PICK d : d = [b EXCEPT !.credit = b.credit + 3 * p.size]
  OBVIOUS
<1>4. Credited(e, b, p) = b \/ Credited(e, b, p) = d
  BY <1>3 DEF Credited
<1>5. PICK m : m = b.credit + 3 * p.size /\ m \in Nat
  BY <1>1
<1>6. /\ Typed(d) /\ d.credit = m
      /\ \A f \in {"keys", "derived", "got", "established", "confirmed", "verified", "odcid", "token", "seen", "queue", "sent", "lost"} :
           d[f] = b[f]
  <2>1. d = [b EXCEPT !.credit = m]
    BY <1>3, <1>5
  <2> QED BY ONLY <1>1, <1>5, <2>1 DEF Typed, Fields
<1>8. ConnOK(e, d)
  <2>1. \A ep : Units(d, ep) = Units(b, ep)
    BY <1>6 DEF Units
  <2>2. ConnOK(e, b)
    BY DEF Grows
  <2> QED BY ONLY <1>6, <2>1, <2>2 DEF ConnOK
<1>9. PairOK(e, d, o)
  <2>1. PairOK(e, b, o)
    BY DEF Grows
  <2> QED BY ONLY <1>6, <2>1 DEF PairOK
<1>10. Received(e, c, d, o, p.size)
  BY <1>1, <1>5, <1>6, <1>8, <1>9 DEF Received, Grows
<1> QED BY <1>2, <1>4, <1>10

LEMMA AcceptOK ==
    ASSUME NEW e \in Sides, NEW c, NEW o, ConnOK(e, c), PairOK(e, c, o), ConnOK(Peer(e), o),
           NEW p, PacketOK(e, p, o), p.ty = "packet",
           e = "server" /\ c.odcid /\ ~c.derived => p.token
    PROVE  Received(e, c, Accept(e, c, p), o, p.size)
<1>1. Typed(c) /\ p.size \in Nat /\ p.ep \in Epochs
  BY DEF ConnOK, PacketOK
<1>2. Grows(e, c, c, o)
  BY DEF Grows
<1>3. PICK c1 : c1 = Meet(e, c, p)
  OBVIOUS
<1>4. Grows(e, c, c1, o) /\ (c.derived => c1.keys = c.keys)
  <2>1. p.token => o.token
    BY DEF PacketOK
  <2> QED BY <1>3, <2>1, MeetOK
<1>5. ConnOK(e, c1) /\ PairOK(e, c1, o)
  BY <1>4 DEF Grows
<1>6. PICK c2 : c2 = ProcessCrypto(e, ProcessClose(ProcessDone(ProcessAck(c1, p), p), p), p)
  OBVIOUS
<1>7. \/ Accept(e, c, p) = c
      \/ Accept(e, c, p) = Credited(e, c, p)
      \/ Accept(e, c, p) = Fail(c)
      \/ Accept(e, c, p) = Credited(e, c1, p)
      \/ Accept(e, c, p) = Fail(c1)
      \/ Accept(e, c, p) = c1
      \/ /\ p.ep \in c1.keys /\ (p.ep = Application => c.established)
         /\ Accept(e, c, p) = c2 \/ Accept(e, c, p) = Credited(e, Record(e, c1, c2, p), p)
  BY <1>3, <1>6, Zenon DEF Accept
<1>8. ASSUME NEW b, Grows(e, c, b, o)
      PROVE  Received(e, c, b, o, p.size) /\ Received(e, c, Credited(e, b, p), o, p.size)
  BY <1>1, <1>8, CreditedOK
<1>9. Grows(e, c, Fail(c), o)
  BY FailOK
<1>10. Grows(e, c, Fail(c1), o)
  BY <1>4, <1>5, FailOK, GrowsTrans
<1>11. CASE p.ep \in c1.keys /\ (p.ep = Application => c.established)
  <2>1. PICK c3 : c3 = ProcessAck(c1, p)
    OBVIOUS
  <2>2. PICK c4 : c4 = ProcessDone(c3, p)
    OBVIOUS
  <2>3. PICK c5 : c5 = ProcessClose(c4, p)
    OBVIOUS
  <2>4. Grows(e, c1, c3, o)
    BY <1>5, <2>1, ProcessAckOK
  <2>5. ConnOK(e, c3) /\ PairOK(e, c3, o)
    BY <2>4 DEF Grows
  <2>6. p.ep = Application => c3.established
    BY <1>4, <1>11, <2>4 DEF Grows
  <2>7. p.done => c3.established
    BY <2>6 DEF PacketOK
  <2>8. Grows(e, c3, c4, o)
    BY <2>2, <2>5, <2>7, ProcessDoneOK
  <2>9. ConnOK(e, c4) /\ PairOK(e, c4, o)
    BY <2>8 DEF Grows
  <2>10. Grows(e, c4, c5, o)
    BY <2>3, <2>9, ProcessCloseOK
  <2>11. ConnOK(e, c5) /\ PairOK(e, c5, o)
    BY <2>10 DEF Grows
  <2>12. Grows(e, c1, c5, o)
    BY <2>4, <2>8, <2>10, GrowsTrans
  <2>13. /\ p.ep = Application => c5.established
         /\ p.ep = Handshake => Handshake \in c5.keys \/ c5.established
    BY <1>4, <1>11, <2>12 DEF Grows
  <2>14. c2 = ProcessCrypto(e, c5, p)
    BY <1>6, <2>1, <2>2, <2>3
  <2>15. Grows(e, c5, c2, o)
    BY <2>11, <2>13, <2>14, ProcessCryptoOK
  <2>16. Grows(e, c, c2, o)
    BY <1>4, <2>12, <2>15, GrowsTrans
  <2>17. ConnOK(e, c2) /\ PairOK(e, c2, o)
    BY <2>16 DEF Grows
  <2>18. PICK c6 : c6 = Record(e, c1, c2, p)
    OBVIOUS
  <2>19. Grows(e, c2, c6, o)
    BY <2>17, <2>18, RecordOK
  <2>20. Grows(e, c, c6, o)
    BY <2>16, <2>19, GrowsTrans
  <2>21. Received(e, c, c2, o, p.size) /\ Received(e, c, Credited(e, c6, p), o, p.size)
    BY <1>8, <2>16, <2>20
  <2> QED BY <1>2, <1>4, <1>7, <1>8, <1>9, <1>10, <2>18, <2>21
<1> QED BY <1>2, <1>4, <1>7, <1>8, <1>9, <1>10, <1>11

\* The client starts over: the Initial data is to be sent again, and nothing else
LEMMA StartOverOK ==
    ASSUME NEW c, NEW o, ConnOK("client", c), PairOK("client", c, o)
    PROVE  Grows("client", c, StartOver(c), o)
<1>1. PICK a : a = Clear(c, Initial)
  OBVIOUS
<1>2. Typed(c) /\ Initial \in Epochs
  BY DEF ConnOK, Epochs
<1>3. Same(c, a) /\ Units(a, Initial) = {}
  BY <1>1, <1>2, ClearIs
<1>4. PICK Q : Q = [a.queue EXCEPT ![Initial] = {1}]
  OBVIOUS
<1>5. PICK d : d = [a EXCEPT !.got_peer = FALSE, !.queue = Q]
  OBVIOUS
<1>6. Typed(a)
  BY <1>3 DEF Same
<1>7. StartOver(c) = d
  BY <1>1, <1>4, <1>5, <1>6 DEF StartOver, Typed, Fields
<1>8. PerEpoch(Q) /\ Q[Initial] = {1} /\ \A q \in Epochs : q # Initial => Q[q] = a.queue[q]
  BY <1>2, <1>4, <1>6 DEF Typed, PerEpoch
<1>9. /\ Typed(d) /\ d.queue = Q
      /\ \A f \in {"keys", "derived", "got", "established", "confirmed", "verified", "odcid", "token", "seen", "credit", "sent", "lost"} :
           d[f] = a[f]
  BY ONLY <1>5, <1>6, <1>8 DEF Typed, Fields
<1>10. Units(d, Initial) \subseteq {1}
  BY <1>3, <1>8, <1>9 DEF Units
<1>11. \A ep \in {Handshake, Application} : Units(d, ep) = Units(a, ep)
  BY <1>8, <1>9 DEF Units, Epochs, Initial, Handshake, Application
<1>12. ConnOK("client", a) /\ PairOK("client", a, o)
  BY <1>3, SameOK, PeersAre
<1>13. ConnOK("client", d)
  <2>1. Whole(Peer("client"), Initial) = {1}
    BY WholeIs
  <2> QED BY ONLY <1>9, <1>10, <1>11, <1>12, <2>1 DEF ConnOK
<1>14. PairOK("client", d, o)
  BY ONLY <1>9, <1>12 DEF PairOK
<1>15. d.got = c.got /\ d.established = c.established /\ d.verified = c.verified
       /\ d.token = c.token /\ d.derived = c.derived
       /\ d.keys = c.keys /\ d.credit = c.credit
  BY <1>3, <1>9 DEF Same
<1> QED BY <1>7, <1>13, <1>14, <1>15 DEF Grows

LEMMA AcceptVersionOK ==
    ASSUME NEW c, NEW o, ConnOK("client", c), PairOK("client", c, o), NEW q
    PROVE  Grows("client", c, AcceptVersion(c, q), o)
<1>1. PICK a : a = StartOver(c)
  OBVIOUS
<1>2. Grows("client", c, a, o) /\ Grows("client", c, c, o)
  BY <1>1, StartOverOK DEF Grows
<1>3. PICK d : d = [a EXCEPT !.version = "draft", !.negotiated = TRUE]
  OBVIOUS
<1>4. Typed(a) /\ ConnOK("client", a) /\ PairOK("client", a, o)
  BY <1>2 DEF Grows, ConnOK
<1>5. Alike(a, d)
  BY ONLY <1>3, <1>4 DEF Typed, Fields, Alike
<1>6. Grows("client", c, d, o)
  BY <1>2, <1>4, <1>5, AlikeOK, GrowsTrans, PeersAre
<1> QED BY <1>1, <1>2, <1>3, <1>6 DEF AcceptVersion

LEMMA AcceptRetryOK ==
    ASSUME NEW c, NEW o, ConnOK("client", c), PairOK("client", c, o), NEW q
    PROVE  Grows("client", c, AcceptRetry(c, q), o)
<1>1. PICK a : a = StartOver(c)
  OBVIOUS
<1>2. Grows("client", c, a, o) /\ Grows("client", c, c, o)
  BY <1>1, StartOverOK DEF Grows
<1>3. PICK b : b = [a EXCEPT !.retried = TRUE, !.dcid = q.scid, !.secret = q.scid]
  OBVIOUS
<1>4. PICK d : d = [b EXCEPT !.token = TRUE]
  OBVIOUS
<1>5. Typed(a) /\ ConnOK("client", a) /\ PairOK("client", a, o)
  BY <1>2 DEF Grows, ConnOK
<1>6. Alike(a, b)
  BY ONLY <1>3, <1>5 DEF Typed, Fields, Alike
<1>7. Grows("client", c, b, o) /\ Typed(b)
  BY <1>2, <1>5, <1>6, AlikeOK, GrowsTrans, PeersAre DEF Alike
<1>8. /\ Typed(d) /\ d.token = TRUE
      /\ \A f \in {"keys", "derived", "got", "established", "confirmed", "verified", "odcid", "seen", "credit",
                   "queue", "sent", "lost"} : d[f] = b[f]
  BY ONLY <1>4, <1>7 DEF Typed, Fields
<1>9. ConnOK("client", d) /\ PairOK("client", d, o)
  <2>1. \A ep : Units(d, ep) = Units(b, ep)
    BY <1>8 DEF Units
  <2>2. ConnOK("client", b) /\ PairOK("client", b, o)
    BY <1>7 DEF Grows
  <2> QED BY ONLY <1>8, <2>1, <2>2 DEF ConnOK, PairOK
<1>10. Grows("client", c, d, o)
  <2>1. Grows("client", b, d, o)
    BY <1>8, <1>9 DEF Grows
  <2> QED BY ONLY <1>7, <2>1, GrowsTrans
<1>11. AcceptRetry(c, q) = c \/ AcceptRetry(c, q) = d
  BY <1>1, <1>3, <1>4, Zenon DEF AcceptRetry
<1> QED BY <1>2, <1>10, <1>11

\* Sequences of packets
LEMMA NetBecomes ==
    ASSUME NEW e \in Sides, NEW T, net'[e] \in Seq(T), \A p \in T : PacketOK(e, p, conn'[Peer(e)])
    PROVE  NetOK(e)'
<1>1. \A p : PacketOK(e, p, conn'[Peer(e)]) <=> PacketOK(e, p, conn[Peer(e)])'
  BY DEF PacketOK, Peer, Whole
<1> QED BY <1>1 DEF NetOK

LEMMA RemoveAtIs ==
    ASSUME NEW T, NEW s \in Seq(T), NEW i \in DOMAIN s
    PROVE  s[i] \in T /\ RemoveAt(s, i) \in Seq(T)
<1>1. Len(s) \in Nat /\ i \in 1..Len(s) /\ DOMAIN s = 1..Len(s)
  OBVIOUS
<1>2. PICK a : a = SubSeq(s, 1, i - 1)
  OBVIOUS
<1>3. PICK b : b = SubSeq(s, i + 1, Len(s))
  OBVIOUS
<1>4. a \in Seq(T) /\ b \in Seq(T)
  BY <1>1, <1>2, <1>3
<1>5. a \o b \in Seq(T)
  BY ONLY <1>4
<1>6. s[i] \in T
  BY <1>1
<1> QED BY <1>2, <1>3, <1>5, <1>6 DEF RemoveAt

\* The front end answers with at most one packet, a Version Negotiation or a Retry
LEMMA FrontEndIs ==
    ASSUME NEW c, NEW p, NEW o
    PROVE  \E U : FrontEnd(c, p) \in Seq(U) /\ \A q \in U : PacketOK("client", q, o)
<1>1. PacketOK("client", NegotiateVersion(p), o) /\ PacketOK("client", Retry(p), o)
  BY DEF PacketOK, NegotiateVersion, Retry
<1>2. PICK U : U = {NegotiateVersion(p), Retry(p)}
  OBVIOUS
<1>3. FrontEnd(c, p) = <<>> \/ FrontEnd(c, p) = <<NegotiateVersion(p)>> \/ FrontEnd(c, p) = <<Retry(p)>>
  BY DEF FrontEnd
<1>4. NegotiateVersion(p) \in U /\ Retry(p) \in U
  BY <1>2
<1>5. FrontEnd(c, p) \in Seq(U)
  <2>1. ASSUME NEW a \in U PROVE <<a>> \in Seq(U)
    OBVIOUS
  <2>2. <<>> \in Seq(U)
    OBVIOUS
  <2> QED BY ONLY <1>3, <1>4, <2>1, <2>2
<1> QED BY <1>1, <1>2, <1>5

\* A step that gives side e the Connection d and counts what the server received
Taken(e, c, d, o) ==
    /\ conn' = [conn EXCEPT ![e] = d] /\ ConnOK(e, d) /\ PairOK(e, d, o)
    /\ c.got[Initial] \subseteq d.got[Initial] /\ c.got[Handshake] \subseteq d.got[Handshake]
    /\ c.established => d.established
    /\ c.derived => d.derived
    /\ c.token => d.token
    /\ received' \in Nat /\ received' >= received
    /\ e = "server" /\ ~d.verified =>
         ~c.verified /\ d.credit <= c.credit + 3 * (received' - received)

LEMMA ReceiveStepOK ==
    ASSUME Inv, NEW e \in Sides, NEW i \in DOMAIN net[e], Receive(e, i)
    PROVE  Inv'
<1>1. PICK p : p = net[e][i]
  OBVIOUS
<1>2. PICK c : c = conn[e]
  OBVIOUS
<1>3. PICK o : o = conn[Peer(e)]
  OBVIOUS
<1>4. PICK answer : answer = IF e = "server" /\ ~c.derived THEN FrontEnd(c, p) ELSE <<>>
  OBVIOUS
<1>5. /\ ConnOK(e, c) /\ PairOK(e, c, o) /\ ConnOK(Peer(e), o) /\ NetOK(e) /\ NetOK(Peer(e))
      /\ DOMAIN net = Sides /\ conn = [x \in Sides |-> conn[x]] /\ received \in Nat /\ written \in Nat /\ CreditOK
  BY <1>2, <1>3, PeersAre DEF Inv
<1>6. PICK T : net[e] \in Seq(T) /\ \A q \in T : PacketOK(e, q, o)
  BY <1>3, <1>5 DEF NetOK
<1>7. PICK V : net[Peer(e)] \in Seq(V) /\ \A q \in V : PacketOK(Peer(e), q, c)
  <2>1. Peer(Peer(e)) = e
    BY PeersAre
  <2> QED BY <1>2, <1>5, <2>1 DEF NetOK
<1>8. PICK r : r = RemoveAt(net[e], i)
  OBVIOUS
<1>9. PacketOK(e, p, o) /\ r \in Seq(T)
  BY <1>1, <1>6, <1>8, RemoveAtIs
<1>10. /\ net' = [[net EXCEPT ![e] = r] EXCEPT !["client"] = @ \o answer]
       /\ written' = written
       /\ answer # <<>> => conn' = conn /\ received' = received
       /\ answer = <<>> =>
            /\ conn' = [conn EXCEPT ![e] = CASE p.ty = "version" -> AcceptVersion(c, p)
                                             [] p.ty = "retry" -> AcceptRetry(c, p)
                                             [] OTHER -> Accept(e, c, p)]
            /\ received' = IF e = "server" THEN received + p.size ELSE received
  BY <1>1, <1>2, <1>4, <1>8 DEF Receive
<1>11. \E U : answer \in Seq(U) /\ \A q \in U : PacketOK("client", q, c)
  <2>1. CASE e = "server" /\ ~c.derived
    BY ONLY <1>4, <2>1, FrontEndIs
  <2>2. CASE ~(e = "server" /\ ~c.derived)
    <3>1. answer = <<>>
      BY ONLY <1>4, <2>2
    <3>2. answer \in Seq({})
      BY <3>1
    <3> QED BY <3>2
  <2> QED BY <2>1, <2>2
<1>12. PICK d : Taken(e, c, d, o)
  <2>1. CASE answer # <<>>
    <3>1. conn' = [conn EXCEPT ![e] = c] /\ received' = received
      BY <1>2, <1>5, <1>10, <2>1
    <3>2. c.credit \in Nat
      BY <1>5 DEF ConnOK, Typed
    <3>3. Taken(e, c, c, o)
      BY <1>5, <3>1, <3>2 DEF Taken
    <3> QED BY <3>3
  <2>2. CASE answer = <<>> /\ p.ty = "packet"
    <3>1. p.ty # "version" /\ p.ty # "retry"
      BY <2>2
    <3>2. PICK d : d = Accept(e, c, p)
      OBVIOUS
    <3>3. conn' = [conn EXCEPT ![e] = d] /\ received' = IF e = "server" THEN received + p.size ELSE received
      BY <1>10, <2>2, <3>1, <3>2
    <3>4. e = "server" /\ c.odcid /\ ~c.derived => p.token
      BY <1>4, <2>2 DEF FrontEnd
    <3>5. Received(e, c, d, o, p.size) /\ p.size \in Nat
      BY <1>5, <1>9, <2>2, <3>2, <3>4, AcceptOK DEF PacketOK
    <3>6. received' \in Nat /\ received' >= received /\ (e = "server" => received' - received = p.size)
      BY <1>5, <3>3, <3>5
    <3>7. Taken(e, c, d, o)
      BY <3>3, <3>5, <3>6 DEF Received, Taken
    <3> QED BY <3>7
  <2>3. CASE answer = <<>> /\ p.ty # "packet"
    <3>1. e = "client" /\ p.ty \in {"version", "retry"}
      BY <1>9, <2>3, PeersAre DEF PacketOK
    <3>2. PICK d : d = IF p.ty = "version" THEN AcceptVersion(c, p) ELSE AcceptRetry(c, p)
      OBVIOUS
    <3>3. conn' = [conn EXCEPT ![e] = d] /\ received' = received
      BY <1>10, <2>3, <3>1, <3>2
    <3>4. Grows(e, c, d, o)
      BY <1>5, <3>1, <3>2, AcceptVersionOK, AcceptRetryOK
    <3>5. e # "server"
      BY <3>1
    <3>6. Taken(e, c, d, o)
      BY <1>5, <3>3, <3>4, <3>5 DEF Grows, Taken
    <3> QED BY <3>6
  <2> QED BY <2>1, <2>2, <2>3
<1>13. /\ conn'[e] = d /\ conn'[Peer(e)] = o
       /\ \A x \in Sides : \A q : PacketOK(x, q, conn[Peer(x)]) => PacketOK(x, q, conn'[Peer(x)])
  BY <1>2, <1>3, <1>12, SideStep DEF Taken
<1>14. DOMAIN net' = Sides
  BY <1>5, <1>10
<1>15. NetOK(e)' /\ NetOK(Peer(e))'
  <2>1. \A q : PacketOK(Peer(e), q, c) => PacketOK(Peer(e), q, d)
    BY <1>2, <1>13, PeersAre
  <2>2. PICK U : answer \in Seq(U) /\ \A q \in U : PacketOK("client", q, c)
    BY <1>11
  <2>3. CASE e = "client"
    <3>1. answer = <<>> /\ Peer(e) = "server" /\ e # Peer(e) /\ Peer(e) \in Sides /\ Peer(Peer(e)) = e
      BY <1>4, <2>3, PeersAre
    <3>2. net'[e] = r \o answer /\ net'[Peer(e)] = net[Peer(e)]
      BY <1>5, <1>10, <2>3, <3>1
    <3>3. net'[e] \in Seq(T) /\ net'[Peer(e)] \in Seq(V)
      BY <1>7, <1>9, <3>1, <3>2
    <3> QED BY <1>6, <1>7, <1>13, <2>1, <3>1, <3>3, NetBecomes
  <2>4. CASE e = "server"
    <3>1. Peer(e) = "client" /\ e # Peer(e) /\ Peer(e) \in Sides /\ Peer(Peer(e)) = e
      BY <2>4, PeersAre
    <3>2. net'[e] = r /\ net'[Peer(e)] = net[Peer(e)] \o answer
      BY <1>5, <1>10, <2>4, <3>1
    <3>3. PICK W : W = U \cup V
      OBVIOUS
    <3>4. answer \in Seq(W) /\ net[Peer(e)] \in Seq(W)
      BY <1>7, <2>2, <3>3
    <3>5. net'[Peer(e)] \in Seq(W) /\ net'[e] \in Seq(T)
      BY <1>9, <3>2, <3>4
    <3>6. \A q \in W : PacketOK(Peer(e), q, d)
      BY <1>7, <2>1, <2>2, <3>1, <3>3
    <3>7. NetOK(e)'
      BY <1>6, <1>13, <3>5, NetBecomes
    <3>8. NetOK(Peer(e))'
      BY <1>13, <3>1, <3>5, <3>6, NetBecomes
    <3> QED BY <3>7, <3>8
  <2> QED BY <2>3, <2>4, PeersAre
<1>16. CreditOK'
  <2>1. CASE e = "server"
    <3>1. conn'["server"] = d /\ c = conn["server"] /\ d.credit \in Nat /\ c.credit \in Nat
      BY <1>2, <1>5, <1>12, <1>13, <2>1 DEF ConnOK, Typed, Taken
    <3> QED BY <1>5, <1>10, <1>12, <2>1, <3>1 DEF CreditOK, Taken
  <2>2. CASE e = "client"
    <3>1. conn'["server"] = conn["server"] /\ conn["server"].credit \in Nat
      BY <1>3, <1>5, <1>13, <2>2, PeersAre DEF ConnOK, Typed, Taken
    <3> QED BY <1>5, <1>10, <1>12, <2>2, <3>1 DEF CreditOK, Taken
  <2> QED BY <2>1, <2>2, PeersAre
<1> QED BY <1>2, <1>3, <1>5, <1>10, <1>12, <1>14, <1>15, <1>16, InvAfter DEF Taken

-----------------------------------------------------------------------------
(* Faults of the network, timers, and the application *)

LEMMA FaultStep ==
    ASSUME Inv, NEW e \in Sides, NEW i \in DOMAIN net[e], Lose(e, i) \/ Copy(e, i)
    PROVE  Inv'
<1>1. conn' = conn /\ received' = received /\ written' = written
  BY DEF Lose, Copy
<1>2. PICK T : net[e] \in Seq(T) /\ \A p \in T : PacketOK(e, p, conn[Peer(e)])
  BY DEF Inv, NetOK
<1>3. RemoveAt(net[e], i) \in Seq(T) /\ Append(net[e], net[e][i]) \in Seq(T)
  BY <1>2, RemoveAtIs
<1>4. DOMAIN net = Sides /\ conn = [x \in Sides |-> conn[x]]
  BY DEF Inv
<1>5. net'[e] \in Seq(T) /\ net'[Peer(e)] = net[Peer(e)] /\ DOMAIN net' = Sides
  BY <1>3, <1>4, PeersAre DEF Lose, Copy
<1>6. NetOK(e)'
  BY <1>1, <1>2, <1>5, NetBecomes
<1>7. NetOK(Peer(e))'
  BY <1>1, <1>5, PeersAre, NetKept DEF Inv
<1>8. conn' = [conn EXCEPT ![e] = conn[e]]
  BY <1>1, <1>4
<1>9. CreditOK'
  BY <1>1 DEF Inv, CreditOK
<1> QED BY <1>1, <1>5, <1>6, <1>7, <1>8, <1>9, InvAfter, PeersAre DEF Inv

\* A step that leaves the network and the handshake alone
LEMMA LocalStep ==
    ASSUME Inv, NEW e \in Sides, NEW d, conn' = [conn EXCEPT ![e] = d],
           Grows(e, conn[e], d, conn[Peer(e)]), d.verified = conn[e].verified,
           net' = net, received' = received, written' = written
    PROVE  Inv'
<1>1. /\ ConnOK(e, d) /\ PairOK(e, d, conn[Peer(e)])
      /\ conn[e].got[Initial] \subseteq d.got[Initial]
      /\ conn[e].got[Handshake] \subseteq d.got[Handshake]
      /\ conn[e].established => d.established
      /\ d.credit = conn[e].credit
      /\ conn[e].derived => d.derived
      /\ conn[e].token => d.token
  BY DEF Grows
<1>2. /\ conn'[e] = d /\ conn'[Peer(e)] = conn[Peer(e)]
      /\ \A x \in Sides : \A q : PacketOK(x, q, conn[Peer(x)]) => PacketOK(x, q, conn'[Peer(x)])
  BY <1>1, SideStep
<1>3. NetOK(e)' /\ NetOK(Peer(e))' /\ DOMAIN net' = Sides
  BY <1>2, PeersAre, NetKept DEF Inv
<1>4. /\ conn'["server"].verified = conn["server"].verified /\ conn'["server"].credit = conn["server"].credit
      /\ conn["server"].derived => conn'["server"].derived
  BY <1>1, <1>2, PeersAre
<1>5. CreditOK'
  BY <1>4 DEF Inv, CreditOK
<1> QED BY <1>1, <1>3, <1>5, InvAfter DEF Inv

\* What does not touch the handshake's state
LEMMA AlikeStep ==
    ASSUME Inv, NEW e \in Sides, NEW d, conn' = [conn EXCEPT ![e] = d], Alike(conn[e], d),
           net' = net, received' = received, written' = written
    PROVE  Inv'
<1>1. Grows(e, conn[e], d, conn[Peer(e)]) /\ d.verified = conn[e].verified
  BY AlikeOK DEF Inv, Alike
<1> QED BY <1>1, LocalStep

LEMMA LossTimeoutStep ==
    ASSUME Inv, NEW e \in Sides, LossTimeout(e)
    PROVE  Inv'
<1>1. PICK d \in OnTimer(conn[e]) : conn' = [conn EXCEPT ![e] = d]
  BY DEF LossTimeout
<1>2. ConnOK(e, conn[e]) /\ PairOK(e, conn[e], conn[Peer(e)])
  BY DEF Inv
<1>3. Same(conn[e], d)
  BY <1>2, OnTimerIs DEF ConnOK
<1>4. Grows(e, conn[e], d, conn[Peer(e)]) /\ d.verified = conn[e].verified
  BY <1>2, <1>3, SameOK DEF Same, Grows
<1>5. net' = net /\ received' = received /\ written' = written
  BY DEF LossTimeout
<1> QED BY <1>1, <1>4, <1>5, LocalStep

LEMMA FieldStep ==
    ASSUME Inv, NEW e \in Sides,
           IdleTimeout(e) \/ DrainTimeout(e) \/ \E app \in BOOLEAN : Close(e, app)
    PROVE  Inv'
<1>1. PICK c : c = conn[e]
  OBVIOUS
<1>2. Typed(c) /\ conn = [x \in Sides |-> conn[x]]
  BY <1>1 DEF Inv, ConnOK
<1>3. net' = net /\ received' = received /\ written' = written
  BY DEF IdleTimeout, DrainTimeout, Close
<1>4. PICK d : /\ conn' = [conn EXCEPT ![e] = d]
               /\ d = [c EXCEPT !.closed = TRUE] \/ \E x : d = [c EXCEPT !.error = x]
  BY <1>1, <1>2 DEF IdleTimeout, DrainTimeout, Close
<1>5. Alike(c, d)
  BY ONLY <1>2, <1>4 DEF Typed, Fields, Alike
<1> QED BY <1>1, <1>3, <1>4, <1>5, AlikeStep

LEMMA TalkStep ==
    ASSUME Inv, NEW e \in Sides, Talk(e)
    PROVE  Inv'
<1>1. PICK c : c = conn[e]
  OBVIOUS
<1>2. Typed(c) /\ conn = [x \in Sides |-> conn[x]] /\ ConnOK(e, c) /\ PairOK(e, c, conn[Peer(e)])
  BY <1>1 DEF Inv, ConnOK
<1>3. net' = net /\ received' = received /\ written' = written
  BY DEF Talk
<1>4. PICK Q : Q = [c.queue EXCEPT ![Application] = @ \cup {2}]
  OBVIOUS
<1>5. PICK d : d = [c EXCEPT !.queue = Q]
  OBVIOUS
<1>6. conn' = [conn EXCEPT ![e] = d]
  <2>1. conn' = [conn EXCEPT ![e] = [conn[e] EXCEPT !.queue = [conn[e].queue EXCEPT ![Application] = @ \cup {2}]]]
    BY <1>1, <1>2 DEF Talk, Typed, Fields
  <2> QED BY <1>1, <1>4, <1>5, <2>1
<1>7. PerEpoch(Q) /\ Q[Application] = c.queue[Application] \cup {2}
      /\ \A ep \in {Initial, Handshake} : Q[ep] = c.queue[ep]
  <2>1. /\ Application \in Epochs /\ Initial \in Epochs /\ Handshake \in Epochs
        /\ Initial # Application /\ Handshake # Application
    BY DEF Epochs, Initial, Handshake, Application
  <2>2. c.queue = [p \in Epochs |-> c.queue[p]]
    BY <1>2 DEF Typed, PerEpoch
  <2>3. Q = [p \in Epochs |-> Q[p]] /\ Q[Application] = c.queue[Application] \cup {2}
        /\ \A ep \in Epochs : ep # Application => Q[ep] = c.queue[ep]
    BY ONLY <1>4, <2>1, <2>2
  <2> QED BY ONLY <2>1, <2>3 DEF PerEpoch
<1>8. /\ Typed(d) /\ d.queue = Q
      /\ \A f \in {"keys", "derived", "got", "established", "confirmed", "verified", "odcid", "token", "seen", "credit", "sent", "lost"} :
           d[f] = c[f]
  BY ONLY <1>2, <1>5, <1>7 DEF Typed, Fields
<1>9. /\ \A ep \in {Initial, Handshake} : Units(d, ep) = Units(c, ep)
      /\ Units(d, Application) \subseteq Units(c, Application) \cup {2}
  BY <1>7, <1>8 DEF Units
<1>10. Units(d, Application) \subseteq {1, 2}
  BY <1>2, <1>9 DEF ConnOK
<1>11. ConnOK(e, d)
  BY ONLY <1>2, <1>8, <1>9, <1>10 DEF ConnOK
<1>12. PairOK(e, d, conn[Peer(e)])
  BY ONLY <1>2, <1>8 DEF PairOK
<1>13. Grows(e, c, d, conn[Peer(e)]) /\ d.verified = c.verified
  BY <1>8, <1>11, <1>12 DEF Grows
<1> QED BY <1>1, <1>3, <1>6, <1>13, LocalStep

-----------------------------------------------------------------------------
(* The theorems *)

LEMMA InvInit == Init => Inv
<1> SUFFICES ASSUME Init PROVE Inv
  OBVIOUS
<1>1. PICK fails \in SUBSET TlsFails, retry \in Retries :
        conn = [e \in Sides |-> NewConn(e, e \in fails, e = "server" /\ retry)]
  BY DEF Init
<1>2. conn = [e \in Sides |-> conn[e]] /\ DOMAIN net = Sides /\ received = 0 /\ written = 0
  BY <1>1 DEF Init
<1>3. ASSUME NEW e \in Sides
      PROVE  ConnOK(e, conn[e]) /\ PairOK(e, conn[e], conn[Peer(e)]) /\ NetOK(e)
  <2>1. PICK c : c = conn[e]
    OBVIOUS
  <2>2. /\ c.keys = IF e = "client" THEN {Initial} ELSE {}
        /\ c.derived = (e = "client") /\ c.established = FALSE /\ c.confirmed = FALSE /\ c.verified = c.odcid
        /\ c.credit = 0 /\ c.got = [p \in Epochs |-> {}] /\ c.sent = [p \in Epochs |-> {}]
        /\ c.lost = [p \in Epochs |-> NoLost] /\ c.seen = [p \in Epochs |-> {}]
        /\ c.queue = [p \in Epochs |-> IF e = "client" /\ p = Initial THEN {1} ELSE {}]
    BY <1>1, <2>1 DEF NewConn
  <2>3. c = [k \in Fields |-> c[k]]
    BY <1>1, <2>1 DEF NewConn, Fields
  <2>4. Typed(c)
    BY ONLY <2>2, <2>3 DEF Typed, PerEpoch, Epochs
  <2>5. \A ep \in Epochs : Units(c, ep) = IF e = "client" /\ ep = Initial THEN {1} ELSE {}
    BY ONLY <2>2 DEF Units, NoLost
  <2>6. ConnOK(e, c)
    <3>1. Handshake \notin c.keys
      BY <2>2 DEF Initial, Handshake
    <3>2. \A ep \in {Initial, Handshake} : Units(c, ep) \subseteq Whole(Peer(e), ep) /\ c.got[ep] = {}
      BY <2>2, <2>5, WholeIs DEF Epochs
    <3>3. Units(c, Application) = {} /\ (e = "server" => Units(c, Initial) = {})
      BY <2>5 DEF Epochs, Initial, Application
    <3> QED BY ONLY <2>2, <2>4, <3>1, <3>2, <3>3 DEF ConnOK
  <2>7. PairOK(e, c, conn[Peer(e)])
    <3>1. c.got[Initial] = {}
      BY <2>2 DEF Epochs
    <3> QED BY ONLY <2>2, <3>1 DEF PairOK
  <2>8. NetOK(e)
    <3>1. net[e] = <<>>
      BY DEF Init
    <3>2. net[e] \in Seq({})
      BY <3>1
    <3> QED BY <3>2 DEF NetOK
  <2> QED BY <2>1, <2>6, <2>7, <2>8
<1>4. CreditOK
  <2>1. conn["server"].credit = 0
    BY <1>1, PeersAre DEF NewConn
  <2> QED BY <1>2, <2>1 DEF CreditOK
<1> QED BY <1>2, <1>3, <1>4 DEF Inv

LEMMA InvStep == Inv /\ [Next]_vars => Inv'
<1> SUFFICES ASSUME Inv, [Next]_vars PROVE Inv'
  OBVIOUS
<1>1. CASE UNCHANGED vars
  <2>1. conn' = conn /\ net' = net /\ received' = received /\ written' = written
    BY <1>1 DEF vars
  <2>2. PICK e \in Sides : e = "client"
    BY DEF Sides
  <2>3. conn' = [conn EXCEPT ![e] = conn[e]]
    BY <2>1 DEF Inv
  <2>4. Alike(conn[e], conn[e])
    BY DEF Inv, ConnOK, Alike
  <2> QED BY <2>1, <2>3, <2>4, AlikeStep
<1>2. ASSUME NEW e \in Sides, Send(e) PROVE Inv'
  BY <1>2, SendStep
<1>3. ASSUME NEW e \in Sides, ReceiveStep(e) PROVE Inv'
  BY <1>3, ReceiveStepOK DEF ReceiveStep
<1>4. ASSUME NEW e \in Sides, LoseStep(e) \/ CopyStep(e) PROVE Inv'
  BY <1>4, FaultStep DEF LoseStep, CopyStep
<1>5. ASSUME NEW e \in Sides, LossTimeout(e) PROVE Inv'
  BY <1>5, LossTimeoutStep
<1>6. ASSUME NEW e \in Sides, IdleTimeout(e) \/ DrainTimeout(e) \/ CloseStep(e) PROVE Inv'
  BY <1>6, FieldStep DEF CloseStep
<1>7. ASSUME NEW e \in Sides, Talk(e) PROVE Inv'
  BY <1>7, TalkStep
<1> QED BY <1>1, <1>2, <1>3, <1>4, <1>5, <1>6, <1>7 DEF Next

\* drop_epoch_state takes the keys of an epoch, and the data not acknowledged in
\* it, only when the peer has all of that data.
THEOREM DropCorrect == Spec => []DropIsSafe
<1>1. Inv => DropIsSafe
  <2> SUFFICES ASSUME Inv, NEW e \in Sides, NEW p \in Dropped(conn[e])
               PROVE  conn[Peer(e)].got[p] = Whole(Peer(e), p)
    BY DEF DropIsSafe
  <2>1. PairOK(e, conn[e], conn[Peer(e)])
    BY DEF Inv
  <2>2. CASE p = Initial
    BY <2>1, <2>2, WholeIs DEF Dropped, PairOK
  <2>3. CASE p = Handshake
    BY <2>1, <2>3 DEF Dropped, PairOK, Initial, Handshake
  <2> QED BY <2>2, <2>3 DEF Dropped
<1> QED BY <1>1, InvInit, InvStep, PTL DEF Spec

\* send() limits a server to what max_send_bytes holds until the client's address
\* is proved, by a Handshake packet the server has processed or by the token of a
\* Retry, without which the server of that deployment sends nothing.
THEOREM AmplificationCorrect == Spec => []AmplificationLimit
<1>1. Inv => AmplificationLimit
  <2> SUFFICES ASSUME Inv, Server.seen[Handshake] = {}, ~(Server.odcid /\ Client.token)
               PROVE  written <= 3 * received
    BY DEF AmplificationLimit
  <2>1. PICK c : c = conn["server"]
    OBVIOUS
  <2>2. "server" \in Sides /\ ConnOK("server", c) /\ PairOK("server", c, conn["client"])
    BY <2>1, PeersAre DEF Inv
  <2>3. c.verified => c.odcid
    BY <2>1, <2>2 DEF ConnOK, Server
  <2>4. c.odcid => ~c.derived
    BY <2>1, <2>2 DEF PairOK, Server, Client
  <2>5. c.credit \in Nat /\ written \in Nat /\ received \in Nat
    BY <2>2 DEF ConnOK, Typed, Inv
  <2>6. CASE c.verified
    <3>1. written = 0
      BY <2>1, <2>3, <2>4, <2>6 DEF Inv, CreditOK
    <3> QED BY <2>5, <3>1
  <2>7. CASE ~c.verified
    BY <2>1, <2>5, <2>7 DEF Inv, CreditOK
  <2> QED BY <2>6, <2>7
<1> QED BY <1>1, InvInit, InvStep, PTL DEF Spec
=============================================================================
