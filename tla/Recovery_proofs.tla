--------------------------- MODULE Recovery_proofs ---------------------------
(***************************************************************************)
(* Theorems about Recovery: the types of its variables, that               *)
(* bytes_in_flight is exact, that the loss detection timer covers every    *)
(* packet that waits for it, and that the window is cut once per flight,   *)
(* for every window, threshold, delay, FEC shape and bound.                *)
(***************************************************************************)
EXTENDS Recovery, FiniteFacts

-----------------------------------------------------------------------------
(* The inductive invariant *)

\* The packets of sent: numbered below the next number, once each; what counts
\* against the window is exactly what asks for an ACK; groups are of App.
SentOK ==
  \A e \in Epochs :
    /\ IsFiniteSet(sent[e])
    /\ \A p \in sent[e] :
         /\ p.pn < next_pkt_num[e]
         /\ p.ack_eliciting <=> p.size > 0
         /\ p.ack_eliciting => p.in_flight
         /\ p.group => e = App /\ p.pn \in fec.sent
    /\ \A p, q \in sent[e] : p.pn = q.pn => p = q

\* What on_ack_received has still to look at waits in sent.
CallOK ==
  /\ \A n \in call.todo : n \in Pns(sent[call.e]) /\ n <= largest_acked_pkt[call.e]
  /\ ~call.busy => call.todo = {}

\* Application packets exist once the handshake is complete.
KeysOK ==
  /\ keys[App] = "live" => established
  /\ sent[App] # {} => established

\* The time of the last packet that asks for an ACK is known while one waits.
LastSentOK ==
  (\E p \in sent[App] : p.ack_eliciting) => last_sent[App] # None

\* The windows stay above the floor.
WindowOK == cc.cwnd >= MinimumWindow

\* A number that was sent and waits no longer is below the largest acked one or
\* older than all that wait.
GoneIsOlder ==
  \A e \in Epochs :
    /\ largest_acked_pkt[e] < next_pkt_num[e]
    /\ \A n \in Nat :
         n < next_pkt_num[e] /\ n \notin Pns(sent[e])
           => n <= largest_acked_pkt[e] \/ \A p \in sent[e] : n < p.pn

\* The loss time of space e is set, and the timer to no later.
Armed(e) == loss_time[e] # None /\ timer # None /\ timer <= loss_time[e]

\* on_ack_received will look at the loss times of space e.
Settling(e) == call.busy /\ call.e = e /\ (call.newly \/ call.todo # {})

\* NoLimbo, during the call as well.
LimboOK ==
  \A e \in Epochs : \A p \in sent[e] :
    p.pn <= largest_acked_pkt[e] => Armed(e) \/ Settling(e)

IInv == /\ TypeOK /\ SentOK /\ CallOK /\ KeysOK /\ LastSentOK /\ WindowOK
        /\ GoneIsOlder /\ LimboOK /\ InFlightExact /\ TimerArmed

-----------------------------------------------------------------------------
(* The bytes of packets *)

\* Packets that can be told apart by their numbers.
Distinct(ps) ==
  /\ ps \subseteq Packet /\ IsFiniteSet(ps)
  /\ \A p, q \in ps : p.pn = q.pn => p = q

\* A packet has as many bytes as its size says.
LEMMA BytesOfOne ==
  ASSUME NEW p \in Packet
  PROVE  /\ Bytes({p}) = {p.pn} \X (1 .. p.size)
         /\ IsFiniteSet(Bytes({p})) /\ SizeOf({p}) = p.size
BY SizeOfOne DEF Packet

\* Finitely many packets have finitely many bytes.
LEMMA BytesFinite ==
  ASSUME NEW ps, ps \subseteq Packet, IsFiniteSet(ps)
  PROVE  IsFiniteSet(Bytes(ps)) /\ SizeOf(ps) \in Nat
<1>1. Sized(ps)
  BY DEF Sized, Packet
<1> QED BY <1>1, SizeOfFinite

\* The bytes of a new packet add to those of the others.
LEMMA BytesOfNew ==
  ASSUME NEW ps, ps \subseteq Packet, IsFiniteSet(ps),
         NEW p \in Packet, p.pn \notin Pns(ps)
  PROVE  SizeOf(ps \cup {p}) = SizeOf(ps) + p.size
<1>1. Sized(ps) /\ p.size \in Nat
  BY DEF Sized, Packet
<1>2. \A q \in ps : q.pn # p.pn
  BY DEF Pns
<1> QED BY <1>1, <1>2, SizeOfNew

\* Taking packets away takes their bytes away.
LEMMA BytesOfPart ==
  ASSUME NEW ps, Distinct(ps), NEW qs, qs \subseteq ps
  PROVE  /\ SizeOf(ps \ qs) = SizeOf(ps) - SizeOf(qs)
         /\ SizeOf(ps \ qs) \in Nat /\ SizeOf(qs) \in Nat /\ SizeOf(ps) \in Nat
<1>1. Sized(ps) /\ \A p, q \in ps : p.pn = q.pn => p = q
  BY DEF Distinct, Sized, Packet
<1> QED BY <1>1, SizeOfPart

\* No packets, no bytes.
LEMMA NoBytes == SizeOf({}) = 0
BY SizeOfNone

\* p is q, with or without its frames.
Like(p, q) ==
  /\ p \in Packet /\ p.pn = q.pn /\ p.time = q.time /\ p.size = q.size
  /\ p.ack_eliciting = q.ack_eliciting /\ p.in_flight = q.in_flight /\ p.group = q.group

\* Taking the frames out of packets leaves all else as it was.
LEMMA EmptiedLike ==
  ASSUME NEW snt, Distinct(snt), NEW rec, rec \subseteq snt
  PROVE  /\ Distinct(Emptied(snt, rec))
         /\ \A p \in Emptied(snt, rec) : \E q \in snt : Like(p, q)
         /\ \A q \in snt : \E p \in Emptied(snt, rec) : Like(p, q)
         /\ Pns(Emptied(snt, rec)) = Pns(snt)
         /\ SizeOf(InFlight(Emptied(snt, rec))) = SizeOf(InFlight(snt))
<1> DEFINE E == Emptied(snt, rec)
           g == [q \in rec |-> [q EXCEPT !.frames = FALSE]]
           T == {[q EXCEPT !.frames = FALSE] : q \in rec}
<1>1. \A q \in snt : q \in Packet
  BY DEF Distinct
<1>2. \A q \in rec : Like([q EXCEPT !.frames = FALSE], q)
  BY <1>1 DEF Like, Packet
<1>3. \A q \in snt : Like(q, q)
  BY <1>1 DEF Like
<1>4. ASSUME NEW p \in E  PROVE \E q \in snt : Like(p, q)
  <2>1. CASE p \in snt \ rec
    BY <2>1, <1>3
  <2>2. CASE p \in T
    BY <2>2, <1>2
  <2> QED BY <2>1, <2>2 DEF Emptied
<1>5. ASSUME NEW q \in snt  PROVE \E p \in E : Like(p, q)
  <2>1. CASE q \in rec
    BY <2>1, <1>2 DEF Emptied
  <2>2. CASE q \notin rec
    BY <2>2, <1>3 DEF Emptied
  <2> QED BY <2>1, <2>2
<1>6. IsFiniteSet(E)
  <2>1. IsFiniteSet(rec) /\ IsFiniteSet(snt \ rec)
    BY FS_Subset, FS_Difference DEF Distinct
  <2>2. g \in Surjection(rec, T)
    BY DEF Surjection
  <2>3. IsFiniteSet(T)
    <3> HIDE DEF g, T
    <3> QED BY <2>1, <2>2, FS_Surjection
  <2> QED BY <2>1, <2>3, FS_Union DEF Emptied
<1>7. E \subseteq Packet
  BY <1>4 DEF Like
<1>8. ASSUME NEW p \in E, NEW q \in E, p.pn = q.pn  PROVE p = q
  <2>1. \A x, y \in snt : x.pn = y.pn => x = y
    BY DEF Distinct
  <2>2. CASE p \in snt \ rec /\ q \in snt \ rec
    BY <2>1, <2>2, <1>8
  <2>3. CASE p \in snt \ rec /\ q \in T
    <3>1. PICK y \in rec : q = [y EXCEPT !.frames = FALSE]
      BY <2>3
    <3>2. p.pn = y.pn
      BY <3>1, <1>2, <1>8 DEF Like
    <3> QED BY <3>2, <2>1, <2>3
  <2>4. CASE p \in T /\ q \in snt \ rec
    <3>1. PICK y \in rec : p = [y EXCEPT !.frames = FALSE]
      BY <2>4
    <3>2. q.pn = y.pn
      BY <3>1, <1>2, <1>8 DEF Like
    <3> QED BY <3>2, <2>1, <2>4
  <2>5. CASE p \in T /\ q \in T
    <3>1. PICK x \in rec : p = [x EXCEPT !.frames = FALSE]
      BY <2>5
    <3>2. PICK y \in rec : q = [y EXCEPT !.frames = FALSE]
      BY <2>5
    <3>3. x.pn = y.pn
      BY <3>1, <3>2, <1>2, <1>8 DEF Like
    <3> QED BY <3>1, <3>2, <3>3, <2>1
  <2> QED BY <2>2, <2>3, <2>4, <2>5 DEF Emptied
<1>9. Distinct(E)
  BY <1>6, <1>7, <1>8 DEF Distinct
<1>10. Pns(E) = Pns(snt)
  <2>1. ASSUME NEW n \in Pns(E)  PROVE n \in Pns(snt)
    BY <1>4 DEF Pns, Like
  <2>2. ASSUME NEW n \in Pns(snt)  PROVE n \in Pns(E)
    BY <1>5 DEF Pns, Like
  <2> QED BY <2>1, <2>2
<1>11. Bytes(InFlight(E)) = Bytes(InFlight(snt))
  <2>1. ASSUME NEW b \in Bytes(InFlight(E))  PROVE b \in Bytes(InFlight(snt))
    <3>1. PICK p \in E : p.in_flight /\ b \in {p.pn} \X (1 .. p.size)
      BY DEF Bytes, InFlight
    <3>2. PICK q \in snt : Like(p, q)
      BY <1>4
    <3>3. q.in_flight /\ b \in {q.pn} \X (1 .. q.size)
      BY <3>1, <3>2 DEF Like
    <3> QED BY <3>3 DEF Bytes, InFlight
  <2>2. ASSUME NEW b \in Bytes(InFlight(snt))  PROVE b \in Bytes(InFlight(E))
    <3>1. PICK q \in snt : q.in_flight /\ b \in {q.pn} \X (1 .. q.size)
      BY DEF Bytes, InFlight
    <3>2. PICK p \in E : Like(p, q)
      BY <1>5
    <3>3. p.in_flight /\ b \in {p.pn} \X (1 .. p.size)
      BY <3>1, <3>2 DEF Like
    <3> QED BY <3>3 DEF Bytes, InFlight
  <2> QED BY <2>1, <2>2
<1> QED BY <1>4, <1>5, <1>9, <1>10, <1>11 DEF SizeOf

-----------------------------------------------------------------------------
(* The timer *)

LEMMA EpochsDef == Epochs = {0, 1, 2} /\ App = 2 /\ Handshake = 1 /\ Initial = 0
BY DEF Epochs, App, Handshake, Initial

\* The earliest time is none only if there is none.
LEMMA EarliestTimeIs ==
  ASSUME NEW times \in PerEpoch(Time)
  PROVE  /\ EarliestTime(times) \in Time
         /\ \A e \in Considered : times[e] # None =>
              EarliestTime(times) # None /\ EarliestTime(times) <= times[e]
         /\ EarliestTime(times) # None =>
              \E e \in Considered : times[e] = EarliestTime(times)
<1> DEFINE set == {times[e] : e \in Considered} \ {None}
<1>1. set \subseteq Nat
  BY DEF PerEpoch, Time, Considered
<1>2. \A n \in Nat : n # None
  BY DEF None
<1>3. CASE set = {}
  <2>1. EarliestTime(times) = None
    BY <1>3 DEF EarliestTime
  <2> QED BY <1>3, <2>1 DEF Time
<1>4. CASE set # {}
  <2>1. EarliestTime(times) = Min(set)
    BY <1>4 DEF EarliestTime
  <2>2. Min(set) \in set /\ \A y \in set : Min(set) <= y
    <3> HIDE DEF set
    <3> QED BY <1>1, <1>4, MinOfNaturals
  <2>3. EarliestTime(times) \in set /\ \A y \in set : EarliestTime(times) <= y
    BY <2>1, <2>2
  <2> QED BY <1>1, <1>2, <2>3 DEF Time
<1> QED BY <1>3, <1>4

\* ... and its space is one of the three.
LEMMA EarliestEpochIs ==
  ASSUME NEW times \in PerEpoch(Time)
  PROVE  EarliestEpoch(times) \in Epochs
<1> DEFINE set == {e \in Considered : times[e] = EarliestTime(times)}
<1>1. CASE EarliestTime(times) = None
  BY <1>1 DEF EarliestEpoch, Epochs
<1>2. CASE EarliestTime(times) # None
  <2>1. set \subseteq Nat /\ set # {} /\ set \subseteq Epochs
    BY <1>2, EarliestTimeIs, EpochsDef DEF Considered
  <2>2. Min(set) \in set
    <3> HIDE DEF set
    <3> QED BY <2>1, MinOfNaturals
  <2> QED BY <1>2, <2>1, <2>2 DEF EarliestEpoch
<1> QED BY <1>1, <1>2

\* What set_loss_detection_timer leaves: no later than the loss time of a space
\* that counts, and something while bytes are in flight that a probe can follow.
LEMMA TimerIs ==
  ASSUME timer \in Time, NEW lt \in PerEpoch(Time), NEW ls \in PerEpoch(Time),
         NEW c \in RenoState, NEW t \in TimerValues(lt, c, ls)
  PROVE  /\ t \in Time
         /\ \A e \in Considered : lt[e] # None => t # None /\ t <= lt[e]
         /\ c.bytes_in_flight # 0 /\ (\E e \in Considered : ls[e] # None) => t # None
<1>1. \A n \in Nat : n # None
  BY DEF None
<1>2. CASE EarliestTime(lt) # None
  <2>1. t = EarliestTime(lt)
    BY <1>2 DEF TimerValues
  <2> QED BY <1>2, <2>1, EarliestTimeIs
<1>3. CASE EarliestTime(lt) = None
  <2>1. \A e \in Considered : lt[e] = None
    BY <1>3, EarliestTimeIs
  <2>2. CASE c.bytes_in_flight = 0
    <3>1. t = None
      BY <1>3, <2>2 DEF TimerValues
    <3> QED BY <2>1, <2>2, <3>1 DEF Time
  <2>3. CASE c.bytes_in_flight # 0 /\ EarliestTime(ls) = None
    <3>1. t = timer
      BY <1>3, <2>3 DEF TimerValues
    <3>2. \A e \in Considered : ls[e] = None
      BY <2>3, EarliestTimeIs
    <3> QED BY <2>1, <3>1, <3>2
  <2>4. CASE c.bytes_in_flight # 0 /\ EarliestTime(ls) # None
    <3>1. PICK p \in Ptos : t = EarliestTime(ls) + p
      BY <1>3, <2>4 DEF TimerValues, ProbeTimes
    <3>2. EarliestTime(ls) \in Nat /\ p \in Nat
      BY <2>4, EarliestTimeIs, RecoveryAssumption DEF Time
    <3>3. t \in Nat
      BY <3>1, <3>2
    <3> QED BY <1>1, <2>1, <3>3 DEF Time
  <2> QED BY <2>2, <2>3, <2>4
<1> QED BY <1>2, <1>3

\* A packet left behind an acknowledged one has a time at which it is lost.
LEMMA NextLossTimeIs ==
  ASSUME NEW d \in Nat, NEW left, left \subseteq Packet, NEW largest \in Int
  PROVE  /\ NextLossTime(d, left, largest) \in Time
         /\ (\E q \in left : q.pn <= largest) => NextLossTime(d, left, largest) # None
<1> DEFINE waiting == {p.time + d : p \in {q \in left : q.pn <= largest}}
<1>1. waiting \subseteq Nat
  BY DEF Packet
<1>2. \A n \in Nat : n # None
  BY DEF None
<1>3. CASE waiting = {}
  <2>1. NextLossTime(d, left, largest) = None
    BY <1>3 DEF NextLossTime
  <2> QED BY <1>3, <2>1 DEF Time
<1>4. CASE waiting # {}
  <2>1. Min(waiting) \in waiting
    <3> HIDE DEF waiting
    <3> QED BY <1>1, <1>4, MinOfNaturals
  <2>2. NextLossTime(d, left, largest) = Min(waiting)
    BY <1>4 DEF NextLossTime
  <2> QED BY <1>1, <1>2, <2>1, <2>2 DEF Time
<1> QED BY <1>3, <1>4

-----------------------------------------------------------------------------
(* The congestion controller *)

\* The window grows with what is acknowledged.
LEMMA GrownIs ==
  ASSUME NEW c \in RenoState, c.cwnd >= MinimumWindow, NEW size \in Nat
  PROVE  Grown(c, size) \in Nat /\ Grown(c, size) >= c.cwnd
<1>1. c.cwnd \in Nat /\ c.cwnd > 0
  BY WindowAssumption DEF RenoState
<1>2. CASE c.ssthresh = Unlimited \/ c.cwnd < c.ssthresh
  BY <1>1, <1>2 DEF Grown
<1>3. CASE ~(c.ssthresh = Unlimited \/ c.cwnd < c.ssthresh)
  <2> DEFINE prod == MaxDatagram * size
  <2>1. prod \in Nat
    BY WindowAssumption
  <2>2. prod \div c.cwnd \in Nat
    <3> HIDE DEF prod
    <3> QED BY <1>1, <2>1
  <2>3. Grown(c, size) = c.cwnd + prod \div c.cwnd
    BY <1>3 DEF Grown
  <2> HIDE DEF prod
  <2> QED BY <1>1, <2>2, <2>3
<1> QED BY <1>2, <1>3

\* An acknowledgement takes its packet out of flight and never cuts the window.
LEMMA AckedIs ==
  ASSUME NEW c \in RenoState, c.cwnd >= MinimumWindow, NEW size \in Nat,
         c.bytes_in_flight >= size, NEW time \in Nat, NEW limited \in BOOLEAN,
         NEW n, n = OnPacketAckedCC(c, size, time, limited)
  PROVE  /\ n \in RenoState /\ n.cwnd >= MinimumWindow /\ n.cwnd >= c.cwnd
         /\ n.bytes_in_flight = c.bytes_in_flight - size
<1>1. Grown(c, size) \in Nat /\ Grown(c, size) >= c.cwnd
  BY GrownIs
<1>2. MinimumWindow \in Nat /\ c.cwnd \in Nat /\ c.bytes_in_flight \in Nat
  BY WindowAssumption DEF RenoState
<1> DEFINE w == IF InCongestionRecovery(c, time) \/ limited THEN c.cwnd ELSE Grown(c, size)
<1>3. w \in Nat /\ w >= MinimumWindow /\ w >= c.cwnd
  BY <1>1, <1>2
<1>4. OnPacketAckedCC(c, size, time, limited)
        = [c EXCEPT !.bytes_in_flight = c.bytes_in_flight - size, !.cwnd = w]
  BY DEF OnPacketAckedCC
<1>5. c.bytes_in_flight - size \in Nat
  BY <1>2
<1> HIDE DEF w
<1> QED BY <1>3, <1>4, <1>5 DEF RenoState

\* A loss halves the window, not below its floor, unless the packet was sent
\* before the last cut.
LEMMA CongestionIs ==
  ASSUME NEW c \in RenoState, c.cwnd >= MinimumWindow, NEW time \in Nat, NEW t \in Nat
  PROVE  /\ CongestionEvent(c, time, t) \in RenoState
         /\ CongestionEvent(c, time, t).cwnd >= MinimumWindow
         /\ CongestionEvent(c, time, t).bytes_in_flight = c.bytes_in_flight
         /\ CongestionEvent(c, time, t).cwnd < c.cwnd => c.recovery_start = None \/ time > c.recovery_start
<1>1. MinimumWindow \in Nat /\ c.cwnd \in Nat
  BY WindowAssumption DEF RenoState
<1>2. Reduced(c) \in Nat /\ Reduced(c) >= MinimumWindow
  BY <1>1 DEF Reduced
<1>3. CASE InCongestionRecovery(c, time)
  BY <1>1, <1>3 DEF CongestionEvent
<1>4. CASE ~InCongestionRecovery(c, time)
  <2>1. c.recovery_start = None \/ time > c.recovery_start
    BY <1>4 DEF InCongestionRecovery, RenoState, None
  <2> QED BY <1>2, <1>4, <2>1 DEF CongestionEvent, RenoState
<1> QED BY <1>3, <1>4

\* Losing packets takes exactly their bytes out of flight, and cuts the window
\* for the last of them only if it was sent after the last cut.
LEMMA AfterLossIs ==
  ASSUME cc \in RenoState, WindowOK, now \in Nat, NEW e \in Epochs,
         NEW snt, Distinct(snt), NEW gone, gone \subseteq snt,
         e = App => cc.bytes_in_flight = SizeOf(InFlight(snt)),
         NEW n, n = CCAfterLoss(e, gone)
  PROVE  /\ n \in RenoState /\ n.cwnd >= MinimumWindow
         /\ n.bytes_in_flight = IF e = App THEN SizeOf(InFlight(snt \ gone))
                                ELSE cc.bytes_in_flight
         /\ n.cwnd < cc.cwnd =>
              \E p \in gone : cc.recovery_start = None \/ p.time > cc.recovery_start
<1> DEFINE flying == InFlight(gone)
           last == CHOOSE p \in flying : \A q \in flying : q.pn <= p.pn
           c == IF e = App THEN DecreaseBytesInFlight(cc, SizeOf(flying)) ELSE cc
<1>1. InFlight(snt \ gone) = InFlight(snt) \ flying /\ flying \subseteq InFlight(snt)
  BY DEF InFlight
<1>2. Distinct(InFlight(snt))
  <2>1. IsFiniteSet(InFlight(snt))
    BY FS_Subset DEF InFlight, Distinct
  <2> QED BY <2>1 DEF InFlight, Distinct
<1>3. /\ SizeOf(InFlight(snt) \ flying) = SizeOf(InFlight(snt)) - SizeOf(flying)
      /\ SizeOf(InFlight(snt) \ flying) \in Nat
      /\ SizeOf(flying) \in Nat /\ SizeOf(InFlight(snt)) \in Nat
  <2> HIDE DEF flying
  <2> QED BY <1>1, <1>2, BytesOfPart
<1>4. cc.cwnd >= MinimumWindow
  BY DEF WindowOK
<1>5. CASE flying = {}
  <2>1. CCAfterLoss(e, gone) = cc
    BY <1>5 DEF CCAfterLoss
  <2>2. SizeOf(InFlight(snt \ gone)) = SizeOf(InFlight(snt))
    BY <1>1, <1>5
  <2>3. cc.cwnd \in Nat
    BY DEF RenoState
  <2> QED BY <1>4, <2>1, <2>2, <2>3
<1>6. CASE flying # {}
  <2>1. IsFiniteSet(Pns(flying)) /\ Pns(flying) \subseteq Int /\ Pns(flying) # {}
    <3>1. IsFiniteSet(flying) /\ flying \subseteq Packet
      BY <1>1, <1>2, FS_Subset DEF Distinct
    <3>2. IsFiniteSet(Pns(flying))
      <4> DEFINE f == [p \in flying |-> p.pn]
      <4>1. f \in Surjection(flying, Pns(flying))
        BY DEF Surjection, Pns
      <4> HIDE DEF f, flying
      <4> QED BY <3>1, <4>1, FS_Surjection
    <3> QED BY <1>6, <3>1, <3>2 DEF Pns, Packet
  <2>2. Max(Pns(flying)) \in Pns(flying) /\ \A k \in Pns(flying) : Max(Pns(flying)) >= k
    <3> HIDE DEF flying
    <3> QED BY <2>1, MaxOfFinite
  <2>3. \E p \in flying : \A q \in flying : q.pn <= p.pn
    BY <2>2 DEF Pns
  <2>4. last \in flying
    BY <2>3
  <2>5. last \in gone /\ last \in Packet
    BY <2>4, <1>1, <1>2 DEF InFlight, Distinct
  <2>6. last.time \in Nat
    BY <2>5 DEF Packet
  <2>7. c \in RenoState /\ c.cwnd = cc.cwnd /\ c.recovery_start = cc.recovery_start
    BY <1>3 DEF DecreaseBytesInFlight, RenoState
  <2>8. c.bytes_in_flight = IF e = App THEN SizeOf(InFlight(snt)) - SizeOf(flying)
                            ELSE cc.bytes_in_flight
    BY <1>3 DEF DecreaseBytesInFlight, RenoState
  <2>9. CCAfterLoss(e, gone) = CongestionEvent(c, last.time, now)
    BY <1>6 DEF CCAfterLoss
  <2>10. /\ CongestionEvent(c, last.time, now) \in RenoState
         /\ CongestionEvent(c, last.time, now).cwnd >= MinimumWindow
         /\ CongestionEvent(c, last.time, now).bytes_in_flight = c.bytes_in_flight
         /\ CongestionEvent(c, last.time, now).cwnd < c.cwnd
              => c.recovery_start = None \/ last.time > c.recovery_start
    <3> HIDE DEF c, last
    <3> QED BY <1>4, <2>6, <2>7, CongestionIs
  <2> HIDE DEF c, last
  <2> QED BY <1>1, <1>3, <2>5, <2>7, <2>8, <2>9, <2>10
<1> QED BY <1>5, <1>6

-----------------------------------------------------------------------------
(* What the steps do to sent *)

LEMMA DistinctSent ==
  ASSUME TypeOK, SentOK, NEW e \in Epochs
  PROVE  Distinct(sent[e])
BY DEF TypeOK, SentOK, PerEpoch, Distinct

LEMMA DistinctPart ==
  ASSUME NEW ps, Distinct(ps), NEW qs, qs \subseteq ps
  PROVE  Distinct(qs) /\ \A p \in qs : p \in Packet /\ Like(p, p)
BY FS_Subset DEF Distinct, Like

\* A packet with a size in a set gives the set a size.
LEMMA SizePositive ==
  ASSUME NEW ps, Distinct(ps), NEW p \in ps, p.size > 0
  PROVE  SizeOf(ps) # 0
<1>1. p \in Packet /\ {p} \subseteq ps
  BY DEF Distinct
<1>2. SizeOf(ps \ {p}) = SizeOf(ps) - SizeOf({p}) /\ SizeOf(ps \ {p}) \in Nat /\ SizeOf(ps) \in Nat
  BY <1>1, BytesOfPart
<1>3. SizeOf({p}) = p.size /\ p.size \in Nat
  BY <1>1, BytesOfOne DEF Packet
<1> QED BY <1>2, <1>3

LEMMA ResetIs ==
  ASSUME NEW S, NEW f \in PerEpoch(S), NEW D, NEW v \in S
  PROVE  /\ Reset(f, D, v) \in PerEpoch(S)
         /\ \A e \in Epochs : Reset(f, D, v)[e] = IF e \in D THEN v ELSE f[e]
BY DEF Reset, PerEpoch

\* What Settle leaves.
LEMMA SettleIs ==
  ASSUME NEW e \in Epochs, NEW snt \in PerEpoch(SUBSET Packet),
         NEW gone, gone \subseteq snt[e], NEW D, D \subseteq Epochs,
         NEW lt \in PerEpoch(Time), NEW ls \in PerEpoch(Time),
         lost \in PerEpoch(SUBSET Nat), discarded \in PerEpoch(SUBSET Nat),
         Settle(e, gone, D, snt, lt, ls)
  PROVE  /\ sent' \in PerEpoch(SUBSET Packet)
         /\ \A f \in Epochs : sent'[f] = IF f \in D THEN {} ELSE IF f = e THEN snt[f] \ gone ELSE snt[f]
         /\ loss_time' \in PerEpoch(Time)
         /\ \A f \in Epochs : loss_time'[f] = IF f \in D THEN None ELSE lt[f]
         /\ last_sent' \in PerEpoch(Time)
         /\ \A f \in Epochs : last_sent'[f] = IF f \in D THEN None ELSE ls[f]
         /\ lost' \in PerEpoch(SUBSET Nat) /\ discarded' \in PerEpoch(SUBSET Nat)
<1>1. None \in Time
  BY DEF Time
<1>2. \A ps \in SUBSET Packet : Carrying(ps) \subseteq Nat
  BY DEF Carrying, Packet
<1>3. \A f \in Epochs : snt[f] \in SUBSET Packet
  BY DEF PerEpoch
<1> DEFINE left == [snt EXCEPT ![e] = @ \ gone]
<1>4. left \in PerEpoch(SUBSET Packet) /\ \A f \in Epochs : left[f] = IF f = e THEN snt[f] \ gone ELSE snt[f]
  BY <1>3 DEF PerEpoch
<1>5. sent' = Reset(left, D, {})
  BY DEF Settle
<1>6. /\ sent' \in PerEpoch(SUBSET Packet)
      /\ \A f \in Epochs : sent'[f] = IF f \in D THEN {} ELSE left[f]
  <2>1. {} \in SUBSET Packet
    OBVIOUS
  <2> HIDE DEF left
  <2> QED BY <1>4, <1>5, <2>1, ResetIs
<1>7. /\ loss_time' \in PerEpoch(Time)
      /\ \A f \in Epochs : loss_time'[f] = IF f \in D THEN None ELSE lt[f]
      /\ last_sent' \in PerEpoch(Time)
      /\ \A f \in Epochs : last_sent'[f] = IF f \in D THEN None ELSE ls[f]
  BY <1>1, ResetIs DEF Settle
<1>8. InFlight(gone) \in SUBSET Packet /\ gone \ InFlight(gone) \in SUBSET Packet
  BY <1>3 DEF InFlight
<1>9. lost' \in PerEpoch(SUBSET Nat)
  BY <1>2, <1>8 DEF Settle, PerEpoch
<1>10. discarded' \in PerEpoch(SUBSET Nat)
  <2>1. \A f \in Epochs : Carrying(snt[f]) \subseteq Nat /\ discarded[f] \subseteq Nat
    BY <1>2, <1>3 DEF PerEpoch
  <2>2. Carrying(gone \ InFlight(gone)) \subseteq Nat
    BY <1>2, <1>8
  <2> QED BY <2>1, <2>2 DEF Settle, PerEpoch
<1> HIDE DEF left
<1> QED BY <1>4, <1>6, <1>7, <1>9, <1>10

\* Packets of sent, perhaps without their frames.
Kept(snt, new) == Distinct(new) /\ \A p \in new : \E q \in snt : Like(p, q)

LEMMA SentKept ==
  ASSUME TypeOK, SentOK, next_pkt_num' = next_pkt_num, fec.sent \subseteq fec'.sent,
         \A e \in Epochs : Kept(sent[e], sent'[e])
  PROVE  SentOK'
<1> SUFFICES ASSUME NEW e \in Epochs
             PROVE  /\ IsFiniteSet(sent'[e])
                    /\ \A p \in sent'[e] :
                         /\ p.pn < next_pkt_num'[e]
                         /\ p.ack_eliciting <=> p.size > 0
                         /\ p.ack_eliciting => p.in_flight
                         /\ p.group => e = App /\ p.pn \in fec'.sent
                    /\ \A p, q \in sent'[e] : p.pn = q.pn => p = q
  BY DEF SentOK
<1>1. Distinct(sent'[e]) /\ \A p \in sent'[e] : \E q \in sent[e] : Like(p, q)
  BY DEF Kept
<1>2. ASSUME NEW p \in sent'[e]
      PROVE  /\ p.pn < next_pkt_num'[e]
             /\ p.ack_eliciting <=> p.size > 0
             /\ p.ack_eliciting => p.in_flight
             /\ p.group => e = App /\ p.pn \in fec'.sent
  <2>1. PICK q \in sent[e] : Like(p, q)
    BY <1>1
  <2>2. /\ q.pn < next_pkt_num[e]
        /\ q.ack_eliciting <=> q.size > 0
        /\ q.ack_eliciting => q.in_flight
        /\ q.group => e = App /\ q.pn \in fec.sent
    BY DEF SentOK
  <2> QED BY <2>1, <2>2 DEF Like
<1> QED BY <1>1, <1>2 DEF Distinct

\* Numbers leave sent when they are acknowledged or overtaken, or all at once.
LEMMA OlderKept ==
  ASSUME TypeOK, SentOK, GoneIsOlder,
         next_pkt_num' = next_pkt_num, largest_acked_pkt' = largest_acked_pkt,
         \A e \in Epochs :
           \/ sent'[e] = {}
           \/ /\ Pns(sent'[e]) \subseteq Pns(sent[e])
              /\ \A n \in Pns(sent[e]) \ Pns(sent'[e]) : n <= largest_acked_pkt[e]
  PROVE  GoneIsOlder'
<1> SUFFICES ASSUME NEW e \in Epochs, NEW n \in Nat, n < next_pkt_num[e], n \notin Pns(sent'[e])
             PROVE  n <= largest_acked_pkt[e] \/ \A p \in sent'[e] : n < p.pn
  BY DEF GoneIsOlder
<1>1. CASE n \in Pns(sent[e])
  BY <1>1
<1>2. CASE n \notin Pns(sent[e])
  <2>1. n <= largest_acked_pkt[e] \/ \A p \in sent[e] : n < p.pn
    BY <1>2 DEF GoneIsOlder
  <2> QED BY <2>1 DEF Pns
<1> QED BY <1>1, <1>2

\* The times f but for the spaces D.
Without(new, D, f) == \A e \in Epochs : new[e] = IF e \in D THEN None ELSE f[e]

\* Setting the timer covers what waits for it.
LEMMA TimerCovers ==
  ASSUME timer \in Time, NEW lt \in PerEpoch(Time), NEW ls \in PerEpoch(Time),
         timer' \in TimerValues(lt, cc', ls), cc' \in RenoState,
         NEW D, D \subseteq {Initial, Handshake},
         Without(loss_time', D, lt), Without(last_sent', D, ls),
         established' = established, sent' \in PerEpoch(SUBSET Packet),
         SentOK', KeysOK', LastSentOK', InFlightExact'
  PROVE  /\ timer' \in Time /\ TimerArmed'
         /\ \A f \in Epochs : sent'[f] # {} /\ loss_time'[f] # None
              => timer' # None /\ timer' <= loss_time'[f]
<1>1. /\ timer' \in Time
      /\ \A e \in Considered : lt[e] # None => timer' # None /\ timer' <= lt[e]
      /\ cc'.bytes_in_flight # 0 /\ (\E e \in Considered : ls[e] # None) => timer' # None
  BY TimerIs
<1>2. ASSUME NEW f \in Epochs, sent'[f] # {}  PROVE f \in Considered
  BY <1>2 DEF KeysOK, Considered
<1>3. ASSUME NEW p \in sent'[App], p.ack_eliciting  PROVE timer' # None
  <2>1. App \in Considered /\ App \in Epochs /\ App \notin D
    BY <1>2, EpochsDef
  <2>2. ls[App] # None
    BY <1>3, <2>1 DEF LastSentOK, Without
  <2>3. p.size > 0 /\ p.in_flight
    BY <1>3, <2>1 DEF SentOK
  <2>4. Distinct(sent'[App])
    BY <2>1 DEF SentOK, Distinct, PerEpoch
  <2>5. Distinct(InFlight(sent'[App])) /\ p \in InFlight(sent'[App])
    <3>1. InFlight(sent'[App]) \subseteq sent'[App]
      BY DEF InFlight
    <3> QED BY <2>3, <2>4, <3>1, DistinctPart DEF InFlight
  <2>6. cc'.bytes_in_flight # 0
    BY <2>3, <2>5, SizePositive DEF InFlightExact
  <2> QED BY <1>1, <2>1, <2>2, <2>6
<1> QED BY <1>1, <1>2, <1>3 DEF TimerArmed, Without

-----------------------------------------------------------------------------
(* The steps *)

\* Calls that end in Settle: what they take from space e is not above the
\* largest acknowledged number, and only the handshake's spaces are cleared.
LEMMA Settled ==
  ASSUME IInv, NEW e \in Epochs, NEW gone, gone \subseteq sent[e],
         \A p \in gone : p.pn <= largest_acked_pkt[e],
         NEW D, D \subseteq {Initial, Handshake}, NEW lt \in PerEpoch(Time),
         Settle(e, gone, D, sent, lt, last_sent),
         UNCHANGED <<established, next_pkt_num, largest_acked_pkt, fec>>,
         keys'[App] = keys[App]
  PROVE  /\ sent' \in PerEpoch(SUBSET Packet)
         /\ \A f \in Epochs : sent'[f] = IF f \in D THEN {} ELSE IF f = e THEN sent[f] \ gone ELSE sent[f]
         /\ loss_time' \in PerEpoch(Time)
         /\ \A f \in Epochs : loss_time'[f] = IF f \in D THEN None ELSE lt[f]
         /\ last_sent' \in PerEpoch(Time)
         /\ \A f \in Epochs : last_sent'[f] = IF f \in D THEN None ELSE last_sent[f]
         /\ lost' \in PerEpoch(SUBSET Nat) /\ discarded' \in PerEpoch(SUBSET Nat)
         /\ SentOK' /\ KeysOK' /\ LastSentOK' /\ GoneIsOlder'
<1> USE EpochsDef
<1>1. /\ sent \in PerEpoch(SUBSET Packet) /\ last_sent \in PerEpoch(Time)
      /\ lost \in PerEpoch(SUBSET Nat) /\ discarded \in PerEpoch(SUBSET Nat)
      /\ D \subseteq Epochs
  BY DEF IInv, TypeOK
<1>2. /\ sent' \in PerEpoch(SUBSET Packet)
      /\ \A f \in Epochs : sent'[f] = IF f \in D THEN {} ELSE IF f = e THEN sent[f] \ gone ELSE sent[f]
      /\ loss_time' \in PerEpoch(Time)
      /\ \A f \in Epochs : loss_time'[f] = IF f \in D THEN None ELSE lt[f]
      /\ last_sent' \in PerEpoch(Time)
      /\ \A f \in Epochs : last_sent'[f] = IF f \in D THEN None ELSE last_sent[f]
      /\ lost' \in PerEpoch(SUBSET Nat) /\ discarded' \in PerEpoch(SUBSET Nat)
  BY <1>1, SettleIs
<1>3. \A f \in Epochs : sent'[f] \subseteq sent[f]
  BY <1>2
<1>4. \A f \in Epochs : Distinct(sent[f])
  BY DistinctSent DEF IInv
<1>5. \A f \in Epochs : Kept(sent[f], sent'[f])
  BY <1>3, <1>4, DistinctPart DEF Kept
<1>6. SentOK'
  BY <1>5, SentKept DEF IInv
<1>7. KeysOK'
  BY <1>3 DEF IInv, KeysOK
<1>8. LastSentOK'
  BY <1>2, <1>3 DEF IInv, LastSentOK
<1>9. ASSUME NEW f \in Epochs
      PROVE  \/ sent'[f] = {}
             \/ /\ Pns(sent'[f]) \subseteq Pns(sent[f])
                /\ \A n \in Pns(sent[f]) \ Pns(sent'[f]) : n <= largest_acked_pkt[f]
  <2>1. CASE f \in D
    BY <1>2, <2>1
  <2>2. CASE f \notin D
    BY <1>2, <2>2 DEF Pns
  <2> QED BY <2>1, <2>2
<1>10. GoneIsOlder'
  BY <1>9, OlderKept DEF IInv
<1> QED BY <1>2, <1>6, <1>7, <1>8, <1>10

\* detect_lost_packets takes gone out of space e and leaves the loss times lt.
Looked(e, d, gone, lt) ==
  /\ gone = LostPackets(e, d, sent[e], largest_acked_pkt[e])
  /\ lt = [loss_time EXCEPT ![e] = NextLossTime(d, sent[e] \ gone, largest_acked_pkt[e])]

\* detect_lost_packets takes no packet above the largest acknowledged one, and
\* sets a loss time if it leaves one below it.
LEMMA Detected ==
  ASSUME IInv, NEW e \in Epochs, NEW d \in LossDelays,
         NEW gone, NEW lt, Looked(e, d, gone, lt)
  PROVE  /\ gone \subseteq sent[e] /\ \A p \in gone : p.pn <= largest_acked_pkt[e]
         /\ lt \in PerEpoch(Time)
         /\ \A f \in Epochs : f # e => lt[f] = loss_time[f]
         /\ \A p \in sent[e] \ gone : p.pn <= largest_acked_pkt[e] => lt[e] # None
<1> DEFINE left == sent[e] \ gone
           next == NextLossTime(d, left, largest_acked_pkt[e])
<1>1. gone \subseteq sent[e] /\ \A p \in gone : p.pn <= largest_acked_pkt[e]
  BY DEF Looked, LostPackets
<1>2. left \subseteq Packet /\ largest_acked_pkt[e] \in Int /\ d \in Nat
  BY RecoveryAssumption DEF IInv, TypeOK, PerEpoch, Time, None
<1>3. /\ next \in Time
      /\ (\E q \in left : q.pn <= largest_acked_pkt[e]) => next # None
  <2> HIDE DEF left
  <2> QED BY <1>2, NextLossTimeIs
<1>4. loss_time \in PerEpoch(Time)
  BY DEF IInv, TypeOK
<1> HIDE DEF next
<1>5. lt = [loss_time EXCEPT ![e] = next]
  BY DEF Looked, next
<1> QED BY <1>1, <1>3, <1>4, <1>5 DEF PerEpoch

\* A call that detected losses in space e and set the timer leaves no packet in
\* limbo.
LEMMA SettledLimbo ==
  ASSUME IInv, NEW e \in Epochs, NEW d \in LossDelays,
         NEW D, D \subseteq {Initial, Handshake},
         NEW gone, NEW lt, Looked(e, d, gone, lt),
         Settle(e, gone, D, sent, lt, last_sent),
         cc' = CCAfterLoss(e, gone), timer' \in TimerValues(lt, cc', last_sent),
         UNCHANGED <<established, next_pkt_num, largest_acked_pkt, fec>>,
         keys'[App] = keys[App],
         \A f \in Epochs : f # e => ~Settling(f), ~call'.busy
  PROVE  /\ sent' \in PerEpoch(SUBSET Packet)
         /\ loss_time' \in PerEpoch(Time) /\ last_sent' \in PerEpoch(Time)
         /\ lost' \in PerEpoch(SUBSET Nat) /\ discarded' \in PerEpoch(SUBSET Nat)
         /\ timer' \in Time /\ cc' \in RenoState
         /\ SentOK' /\ KeysOK' /\ LastSentOK' /\ WindowOK' /\ GoneIsOlder'
         /\ LimboOK' /\ InFlightExact' /\ TimerArmed'
         /\ cc'.cwnd < cc.cwnd => \E p \in gone : cc.recovery_start = None \/ p.time > cc.recovery_start
<1> USE EpochsDef
<1>1. /\ gone \subseteq sent[e] /\ \A p \in gone : p.pn <= largest_acked_pkt[e]
      /\ lt \in PerEpoch(Time)
      /\ \A f \in Epochs : f # e => lt[f] = loss_time[f]
      /\ \A p \in sent[e] \ gone : p.pn <= largest_acked_pkt[e] => lt[e] # None
  BY Detected
<1>2. /\ sent' \in PerEpoch(SUBSET Packet)
      /\ \A f \in Epochs : sent'[f] = IF f \in D THEN {} ELSE IF f = e THEN sent[f] \ gone ELSE sent[f]
      /\ loss_time' \in PerEpoch(Time)
      /\ \A f \in Epochs : loss_time'[f] = IF f \in D THEN None ELSE lt[f]
      /\ last_sent' \in PerEpoch(Time)
      /\ \A f \in Epochs : last_sent'[f] = IF f \in D THEN None ELSE last_sent[f]
      /\ lost' \in PerEpoch(SUBSET Nat) /\ discarded' \in PerEpoch(SUBSET Nat)
      /\ SentOK' /\ KeysOK' /\ LastSentOK' /\ GoneIsOlder'
  BY <1>1, Settled
<1>3. cc \in RenoState /\ WindowOK /\ now \in Nat /\ Distinct(sent[e])
  BY DistinctSent DEF IInv, TypeOK
<1>4. cc.bytes_in_flight = SizeOf(InFlight(sent[App]))
  BY DEF IInv, InFlightExact
<1>5. /\ cc' \in RenoState /\ cc'.cwnd >= MinimumWindow
      /\ cc'.bytes_in_flight = IF e = App THEN SizeOf(InFlight(sent[e] \ gone)) ELSE cc.bytes_in_flight
      /\ cc'.cwnd < cc.cwnd => \E p \in gone : cc.recovery_start = None \/ p.time > cc.recovery_start
  <2>1. cc' = CCAfterLoss(e, gone) /\ e \in Epochs /\ gone \subseteq sent[e]
    BY <1>1
  <2>2. e = App => cc.bytes_in_flight = SizeOf(InFlight(sent[e]))
    BY <1>4
  <2> QED BY ONLY <1>3, <2>1, <2>2, AfterLossIs
<1>6. InFlightExact'
  <2>1. sent'[App] = IF e = App THEN sent[e] \ gone ELSE sent[App]
    <3>1. App \in Epochs /\ App \notin D
      OBVIOUS
    <3> QED BY ONLY <1>2, <3>1
  <2> QED BY <1>4, <1>5, <2>1 DEF InFlightExact
<1>7. timer \in Time /\ last_sent \in PerEpoch(Time)
  BY DEF IInv, TypeOK
<1>8. /\ timer' \in Time /\ TimerArmed'
      /\ \A f \in Epochs : sent'[f] # {} /\ loss_time'[f] # None
           => timer' # None /\ timer' <= loss_time'[f]
  <2>1. /\ timer' \in TimerValues(lt, cc', last_sent) /\ D \subseteq {Initial, Handshake}
        /\ established' = established
    OBVIOUS
  <2>2. Without(loss_time', D, lt) /\ Without(last_sent', D, last_sent)
    BY <1>2 DEF Without
  <2> QED BY ONLY <1>1, <1>2, <1>5, <1>6, <1>7, <2>1, <2>2, TimerCovers
<1>9. LimboOK'
  <2> SUFFICES ASSUME NEW f \in Epochs, NEW p \in sent'[f], p.pn <= largest_acked_pkt[f]
               PROVE  loss_time'[f] # None
    BY <1>8 DEF LimboOK, Armed
  <2>1. p \in sent[f] /\ f \notin D
    BY <1>2
  <2>2. CASE f = e
    BY <1>1, <1>2, <2>1, <2>2
  <2>3. CASE f # e
    <3>1. Armed(f)
      BY <2>1, <2>3 DEF IInv, LimboOK
    <3> QED BY <1>1, <1>2, <2>1, <2>3, <3>1 DEF Armed
  <2> QED BY <2>2, <2>3
<1> QED BY <1>2, <1>5, <1>6, <1>8, <1>9 DEF WindowOK

\* A cut of the window takes away a packet sent after the one before.
CutOnce ==
  cc'.cwnd < cc.cwnd =>
    \E e \in Epochs : \E p \in sent[e] :
      /\ p \notin sent'[e]
      /\ cc.recovery_start = None \/ p.time > cc.recovery_start

\* What is dropped with the keys of the spaces D.
LEMMA DroppedTypes ==
  ASSUME IInv, NEW D, D \subseteq {Initial, Handshake}, NEW e \in Epochs, NEW gone
  PROVE  /\ Reset(keys, D, "dropped") \in PerEpoch({"none", "live", "dropped"})
         /\ Reset(keys, D, "dropped")[App] = keys[App]
         /\ Reset(loss_probes, D, 0) \in PerEpoch(0 .. 2)
         /\ PendingAfterLoss(e, gone) \in PerEpoch(BOOLEAN)
         /\ Reset(PendingAfterLoss(e, gone), D, FALSE) \in PerEpoch(BOOLEAN)
         /\ Reset(pending, D, FALSE) \in PerEpoch(BOOLEAN)
<1>1. /\ keys \in PerEpoch({"none", "live", "dropped"}) /\ loss_probes \in PerEpoch(0 .. 2)
      /\ pending \in PerEpoch(BOOLEAN)
  BY DEF IInv, TypeOK
<1>2. 0 \in 0 .. 2 /\ "dropped" \in {"none", "live", "dropped"} /\ FALSE \in BOOLEAN
  OBVIOUS
<1>3. PendingAfterLoss(e, gone) \in PerEpoch(BOOLEAN)
  BY <1>1 DEF PendingAfterLoss, PerEpoch
<1>4. App \notin D /\ App \in Epochs
  BY EpochsDef
<1>5. /\ Reset(keys, D, "dropped") \in PerEpoch({"none", "live", "dropped"})
      /\ Reset(keys, D, "dropped")[App] = keys[App]
  BY ONLY <1>1, <1>2, <1>4, ResetIs
<1>6. Reset(loss_probes, D, 0) \in PerEpoch(0 .. 2)
  BY ONLY <1>1, <1>2, ResetIs
<1>7. Reset(PendingAfterLoss(e, gone), D, FALSE) \in PerEpoch(BOOLEAN)
  BY ONLY <1>2, <1>3, ResetIs
<1>8. Reset(pending, D, FALSE) \in PerEpoch(BOOLEAN)
  BY ONLY <1>1, <1>2, ResetIs
<1> QED BY <1>3, <1>5, <1>6, <1>7, <1>8

LEMMA DroppableIs ==
  Droppable(Initial) \subseteq {Initial, Handshake} /\ Droppable(Handshake) \subseteq {Initial, Handshake}
BY DEF Droppable

LEMMA IdleIs == Idle \in [e : Epochs, todo : SUBSET Nat, newly : BOOLEAN, busy : BOOLEAN]
                /\ Idle.todo = {} /\ Idle.busy = FALSE
BY EpochsDef DEF Idle

LEMMA StepAckDone ==
  ASSUME IInv, NEW d \in LossDelays, AckDone(d)
  PROVE  IInv' /\ CutOnce
<1> DEFINE e == call.e
           drop == IF e = App THEN Droppable(Handshake) ELSE {}
           gone == IF call.newly THEN LostPackets(e, d, sent[e], largest_acked_pkt[e]) ELSE {}
           lt == IF call.newly
                 THEN [loss_time EXCEPT ![e] = NextLossTime(d, sent[e] \ gone, largest_acked_pkt[e])]
                 ELSE loss_time
<1>1. e \in Epochs /\ drop \subseteq {Initial, Handshake} /\ call.newly \in BOOLEAN
  BY DroppableIs DEF IInv, TypeOK
<1>2. /\ call.busy /\ call.todo = {} /\ call' = Idle
      /\ cc' = CCAfterLoss(e, gone)
      /\ timer' \in IF call.newly THEN TimerValues(lt, cc', last_sent) ELSE {timer}
      /\ Settle(e, gone, drop, sent, lt, last_sent)
      /\ pending' = Reset(PendingAfterLoss(e, gone), drop, FALSE)
      /\ loss_probes' = Reset(loss_probes, drop, 0)
      /\ keys' = Reset(keys, drop, "dropped")
      /\ UNCHANGED <<is_server, established, did_retry, now, next_pkt_num,
                     largest_acked_pkt, app_limited, fec, acked>>
  BY DEF AckDone
<1> HIDE DEF drop, gone, lt
<1>3. /\ keys' \in PerEpoch({"none", "live", "dropped"}) /\ keys'[App] = keys[App]
      /\ loss_probes' \in PerEpoch(0 .. 2) /\ pending' \in PerEpoch(BOOLEAN)
  BY <1>1, <1>2, DroppedTypes
<1>4. /\ sent' \in PerEpoch(SUBSET Packet)
      /\ loss_time' \in PerEpoch(Time) /\ last_sent' \in PerEpoch(Time)
      /\ lost' \in PerEpoch(SUBSET Nat) /\ discarded' \in PerEpoch(SUBSET Nat)
      /\ timer' \in Time /\ cc' \in RenoState
      /\ SentOK' /\ KeysOK' /\ LastSentOK' /\ WindowOK' /\ GoneIsOlder'
      /\ LimboOK' /\ InFlightExact' /\ TimerArmed'
      /\ cc'.cwnd < cc.cwnd => \E p \in gone : cc.recovery_start = None \/ p.time > cc.recovery_start
      /\ gone \subseteq sent[e] /\ \A p \in gone : p \notin sent'[e]
  <2>1. CASE call.newly
    <3>1. Looked(e, d, gone, lt)
      BY <2>1 DEF Looked, gone, lt
    <3>2. timer' \in TimerValues(lt, cc', last_sent)
      BY <1>2, <2>1
    <3>3. \A f \in Epochs : f # e => ~Settling(f)
      BY DEF Settling
    <3>4. ~call'.busy
      BY <1>2, IdleIs
    <3>5. UNCHANGED <<established, next_pkt_num, largest_acked_pkt, fec>>
      BY <1>2
    <3>6. /\ sent' \in PerEpoch(SUBSET Packet)
          /\ loss_time' \in PerEpoch(Time) /\ last_sent' \in PerEpoch(Time)
          /\ lost' \in PerEpoch(SUBSET Nat) /\ discarded' \in PerEpoch(SUBSET Nat)
          /\ timer' \in Time /\ cc' \in RenoState
          /\ SentOK' /\ KeysOK' /\ LastSentOK' /\ WindowOK' /\ GoneIsOlder'
          /\ LimboOK' /\ InFlightExact' /\ TimerArmed'
          /\ cc'.cwnd < cc.cwnd => \E p \in gone : cc.recovery_start = None \/ p.time > cc.recovery_start
      BY ONLY <1>1, <1>2, <1>3, <3>1, <3>2, <3>3, <3>4, <3>5, SettledLimbo, IInv, d \in LossDelays
    <3>7. gone \subseteq sent[e] /\ \A p \in gone : p.pn <= largest_acked_pkt[e]
      BY ONLY <3>1, <1>1, Detected, IInv, d \in LossDelays
    <3>8. \A p \in gone : p \notin sent'[e]
      <4>1. sent \in PerEpoch(SUBSET Packet) /\ sent[e] \in SUBSET Packet
        BY <1>1 DEF IInv, TypeOK, PerEpoch
      <4> QED BY <1>1, <1>2, <4>1 DEF Settle, Reset, PerEpoch
    <3> QED BY <3>6, <3>7, <3>8
  <2>2. CASE ~call.newly
    <3>1. gone = {} /\ lt = loss_time /\ timer' = timer
      BY <1>2, <2>2 DEF gone, lt
    <3>2. cc' = cc
      <4>1. InFlight(gone) = {}
        BY <3>1 DEF InFlight
      <4> QED BY <1>2, <4>1 DEF CCAfterLoss
    <3>3. loss_time \in PerEpoch(Time) /\ gone \subseteq sent[e] /\ \A p \in gone : p.pn <= largest_acked_pkt[e]
      BY <3>1 DEF IInv, TypeOK
    <3>4. UNCHANGED <<established, next_pkt_num, largest_acked_pkt, fec>>
      BY <1>2
    <3>5. Settle(e, gone, drop, sent, loss_time, last_sent)
      BY <1>2, <3>1
    <3>6. /\ sent' \in PerEpoch(SUBSET Packet)
          /\ \A f \in Epochs : sent'[f] = IF f \in drop THEN {} ELSE IF f = e THEN sent[f] \ gone ELSE sent[f]
          /\ loss_time' \in PerEpoch(Time)
          /\ \A f \in Epochs : loss_time'[f] = IF f \in drop THEN None ELSE loss_time[f]
          /\ last_sent' \in PerEpoch(Time)
          /\ \A f \in Epochs : last_sent'[f] = IF f \in drop THEN None ELSE last_sent[f]
          /\ lost' \in PerEpoch(SUBSET Nat) /\ discarded' \in PerEpoch(SUBSET Nat)
          /\ SentOK' /\ KeysOK' /\ LastSentOK' /\ GoneIsOlder'
      BY ONLY <1>1, <1>3, <3>3, <3>4, <3>5, Settled, IInv
    <3>7. \A f \in Epochs : sent'[f] = IF f \in drop THEN {} ELSE sent[f]
      BY <3>1, <3>6
    <3>8. App \in Epochs /\ App \notin drop
      BY <1>1, EpochsDef
    <3>9. InFlightExact' /\ TimerArmed'
      BY <3>1, <3>2, <3>7, <3>8 DEF IInv, InFlightExact, TimerArmed
    <3>10. LimboOK'
      <4> SUFFICES ASSUME NEW f \in Epochs, NEW p \in sent'[f], p.pn <= largest_acked_pkt[f]
                   PROVE  Armed(f)'
        BY <1>2 DEF LimboOK
      <4>1. p \in sent[f] /\ f \notin drop
        BY <3>7
      <4>2. Armed(f)
        BY <1>2, <2>2, <4>1 DEF IInv, LimboOK, Settling
      <4> QED BY <3>1, <3>6, <4>1, <4>2 DEF Armed
    <3>11. timer' \in Time /\ cc' \in RenoState /\ WindowOK'
      BY <3>1, <3>2 DEF IInv, TypeOK, WindowOK
    <3>12. ~(cc'.cwnd < cc.cwnd)
      BY <3>2 DEF IInv, TypeOK, RenoState
    <3> QED BY <3>1, <3>6, <3>9, <3>10, <3>11, <3>12
  <2> QED BY <1>1, <2>1, <2>2
<1>5. TypeOK'
  BY <1>2, <1>3, <1>4, IdleIs DEF IInv, TypeOK
<1>6. CallOK'
  BY <1>2, IdleIs DEF CallOK
<1>7. CutOnce
  BY <1>1, <1>4 DEF CutOnce
<1> QED BY <1>4, <1>5, <1>6, <1>7 DEF IInv

LEMMA StepLossTimeout ==
  ASSUME IInv, NEW d \in LossDelays, LossTimeout(d)
  PROVE  IInv' /\ CutOnce
<1> DEFINE e == EarliestEpoch(loss_time)
           gone == LostPackets(e, d, sent[e], largest_acked_pkt[e])
           lt == [loss_time EXCEPT ![e] = NextLossTime(d, sent[e] \ gone, largest_acked_pkt[e])]
<1>1. e \in Epochs /\ Looked(e, d, gone, lt)
  BY EarliestEpochIs DEF IInv, TypeOK, Looked
<1>2. /\ ~call.busy
      /\ cc' = CCAfterLoss(e, gone)
      /\ timer' \in TimerValues(lt, cc', last_sent)
      /\ Settle(e, gone, {}, sent, lt, last_sent)
      /\ pending' = PendingAfterLoss(e, gone)
      /\ UNCHANGED <<conn, now, next_pkt_num, largest_acked_pkt, loss_probes,
                     app_limited, fec, acked, call>>
  BY DEF LossTimeout, Expired
<1> HIDE DEF e, gone, lt
<1>3. pending' \in PerEpoch(BOOLEAN)
  BY <1>1, <1>2, DroppedTypes
<1>4. UNCHANGED <<established, next_pkt_num, largest_acked_pkt, fec>> /\ keys'[App] = keys[App]
      /\ ~call'.busy
  BY <1>2 DEF conn
<1>5. \A f \in Epochs : f # e => ~Settling(f)
  BY <1>2 DEF Settling
<1>6. /\ sent' \in PerEpoch(SUBSET Packet)
      /\ loss_time' \in PerEpoch(Time) /\ last_sent' \in PerEpoch(Time)
      /\ lost' \in PerEpoch(SUBSET Nat) /\ discarded' \in PerEpoch(SUBSET Nat)
      /\ timer' \in Time /\ cc' \in RenoState
      /\ SentOK' /\ KeysOK' /\ LastSentOK' /\ WindowOK' /\ GoneIsOlder'
      /\ LimboOK' /\ InFlightExact' /\ TimerArmed'
      /\ cc'.cwnd < cc.cwnd => \E p \in gone : cc.recovery_start = None \/ p.time > cc.recovery_start
  <2>1. {} \subseteq {Initial, Handshake}
    OBVIOUS
  <2> QED BY ONLY <1>1, <1>2, <1>4, <1>5, <2>1, SettledLimbo, IInv, d \in LossDelays
<1>7. gone \subseteq sent[e]
  BY ONLY <1>1, Detected, IInv, d \in LossDelays
<1>8. \A p \in gone : p \notin sent'[e]
  <2>1. sent \in PerEpoch(SUBSET Packet) /\ sent[e] \in SUBSET Packet
    BY <1>1 DEF IInv, TypeOK, PerEpoch
  <2> QED BY <1>1, <1>2, <2>1 DEF Settle, Reset, PerEpoch
<1>9. TypeOK'
  BY <1>2, <1>3, <1>6 DEF IInv, TypeOK, conn
<1>10. CallOK'
  BY <1>2 DEF IInv, CallOK
<1>11. CutOnce
  BY <1>1, <1>6, <1>7, <1>8 DEF CutOnce
<1> QED BY <1>6, <1>9, <1>10, <1>11 DEF IInv

\* Steps that leave the packets, the times and the window alone.
Quiet ==
  /\ UNCHANGED <<next_pkt_num, sent, largest_acked_pkt, loss_time, last_sent, timer, cc, fec, call>>
  /\ established => established'
  /\ keys'[App] = "live" => established'

LEMMA QuietKeeps ==
  ASSUME IInv, TypeOK', Quiet
  PROVE  IInv' /\ CutOnce
<1>1. SentOK' /\ CallOK' /\ LastSentOK' /\ WindowOK' /\ GoneIsOlder'
  BY DEF Quiet, IInv, SentOK, CallOK, LastSentOK, WindowOK, GoneIsOlder
<1>2. KeysOK'
  BY DEF Quiet, IInv, KeysOK
<1>3. LimboOK' /\ InFlightExact' /\ TimerArmed'
  BY DEF Quiet, IInv, LimboOK, Armed, Settling, InFlightExact, TimerArmed
<1>4. ~(cc'.cwnd < cc.cwnd)
  BY DEF Quiet, IInv, TypeOK, RenoState
<1> QED BY <1>1, <1>2, <1>3, <1>4 DEF IInv, CutOnce

LEMMA StepSendNothing ==
  ASSUME IInv, NEW e \in Epochs, SendNothing(e)
  PROVE  IInv' /\ CutOnce
<1>1. TypeOK'
  BY DEF SendNothing, IInv, TypeOK, conn, timers, PerEpoch
<1>2. Quiet
  BY DEF SendNothing, Quiet, conn, timers, IInv, KeysOK
<1> QED BY <1>1, <1>2, QuietKeeps

LEMMA StepDoHandshake ==
  ASSUME IInv, DoHandshake
  PROVE  IInv' /\ CutOnce
<1> USE EpochsDef
<1>1. keys' \in PerEpoch({"none", "live", "dropped"}) /\ established' \in BOOLEAN
  BY DEF DoHandshake, IInv, TypeOK, PerEpoch
<1>2. TypeOK'
  BY <1>1 DEF DoHandshake, IInv, TypeOK, timers, frames
<1>3. keys'[App] = "live" => established'
  BY DEF DoHandshake, IInv, TypeOK, KeysOK, PerEpoch
<1>4. Quiet
  BY <1>3 DEF DoHandshake, Quiet, timers
<1> QED BY <1>2, <1>4, QuietKeeps

LEMMA StepTick ==
  ASSUME IInv, Tick
  PROVE  IInv' /\ CutOnce
<1>1. TypeOK'
  BY DEF Tick, IInv, TypeOK, conn, timers, frames
<1>2. Quiet
  BY DEF Tick, Quiet, conn, timers, IInv, KeysOK
<1> QED BY <1>1, <1>2, QuietKeeps

LEMMA StepStutter ==
  ASSUME IInv, UNCHANGED vars
  PROVE  IInv' /\ CutOnce
<1>1. TypeOK'
  BY DEF vars, conn, frames, timers, IInv, TypeOK
<1>2. Quiet
  BY DEF vars, conn, frames, timers, Quiet, IInv, KeysOK
<1> QED BY <1>1, <1>2, QuietKeeps

LEMMA StepProbeTimeout ==
  ASSUME IInv, ProbeTimeout
  PROVE  IInv' /\ CutOnce
<1> USE EpochsDef
<1>1. loss_time \in PerEpoch(Time) /\ last_sent \in PerEpoch(Time) /\ timer \in Time
      /\ cc \in RenoState /\ sent \in PerEpoch(SUBSET Packet)
  BY DEF IInv, TypeOK
<1>2. EarliestEpoch(last_sent) \in Epochs
  BY <1>1, EarliestEpochIs
<1>3. /\ ~call.busy /\ EarliestTime(loss_time) = None
      /\ loss_probes' = [loss_probes EXCEPT ![EarliestEpoch(last_sent)] = 2]
      /\ timer' \in TimerValues(loss_time, cc, last_sent)
      /\ UNCHANGED <<conn, now, next_pkt_num, sent, largest_acked_pkt,
                     loss_time, last_sent, cc, app_limited, fec, frames, call>>
  BY DEF ProbeTimeout, Expired
<1>4. loss_probes' \in PerEpoch(0 .. 2)
  <2>1. loss_probes \in [Epochs -> 0 .. 2] /\ 2 \in 0 .. 2
    BY DEF IInv, TypeOK, PerEpoch
  <2>2. loss_probes' \in [Epochs -> 0 .. 2]
    BY ONLY <1>3, <2>1
  <2> QED BY <2>2 DEF PerEpoch
<1>5. SentOK' /\ CallOK' /\ LastSentOK' /\ WindowOK' /\ GoneIsOlder' /\ InFlightExact' /\ KeysOK'
  BY <1>3 DEF conn, IInv, SentOK, CallOK, LastSentOK, WindowOK, GoneIsOlder, InFlightExact, KeysOK
<1>6. /\ timer' \in Time /\ TimerArmed'
      /\ \A f \in Epochs : sent'[f] # {} /\ loss_time'[f] # None
           => timer' # None /\ timer' <= loss_time'[f]
  <2>1. {} \subseteq {Initial, Handshake}
    OBVIOUS
  <2>2. Without(loss_time', {}, loss_time) /\ Without(last_sent', {}, last_sent)
    BY <1>3 DEF Without
  <2>3. /\ timer' \in TimerValues(loss_time, cc', last_sent) /\ established' = established
        /\ cc' \in RenoState /\ sent' \in PerEpoch(SUBSET Packet)
    BY <1>1, <1>3 DEF conn
  <2> QED BY ONLY <1>1, <1>5, <2>1, <2>2, <2>3, TimerCovers
<1>7. LimboOK'
  <2> SUFFICES ASSUME NEW f \in Epochs, NEW p \in sent[f], p.pn <= largest_acked_pkt[f]
               PROVE  FALSE
    BY <1>3 DEF LimboOK
  <2>1. loss_time[f] # None
    BY <1>3 DEF IInv, LimboOK, Armed, Settling
  <2>2. f \in Considered
    BY DEF IInv, KeysOK, Considered
  <2> QED BY <1>1, <1>3, <2>1, <2>2, EarliestTimeIs
<1>8. TypeOK'
  BY <1>3, <1>4, <1>6 DEF conn, frames, IInv, TypeOK
<1>9. ~(cc'.cwnd < cc.cwnd)
  BY <1>1, <1>3 DEF RenoState
<1> QED BY <1>5, <1>6, <1>7, <1>8, <1>9 DEF IInv, CutOnce

\* Dropping the recovery state of the handshake's spaces.
LEMMA DropKeeps ==
  ASSUME IInv, NEW D, D \subseteq {Initial, Handshake}, DropUnackedData(D),
         keys' \in PerEpoch({"none", "live", "dropped"}), keys'[App] = keys[App],
         did_retry' \in BOOLEAN
  PROVE  IInv' /\ CutOnce
<1> USE EpochsDef
<1>1. /\ ~call.busy /\ Settle(App, {}, D, sent, loss_time, last_sent)
      /\ pending' = Reset(pending, D, FALSE) /\ loss_probes' = Reset(loss_probes, D, 0)
      /\ UNCHANGED <<is_server, established, now, next_pkt_num, largest_acked_pkt,
                     timer, cc, app_limited, fec, acked, call>>
  BY DEF DropUnackedData
<1>2. pending' \in PerEpoch(BOOLEAN) /\ loss_probes' \in PerEpoch(0 .. 2)
  BY <1>1, DroppedTypes
<1>3. loss_time \in PerEpoch(Time) /\ {} \subseteq sent[App] /\ App \in Epochs
      /\ \A p \in {} : p.pn <= largest_acked_pkt[App]
  BY DEF IInv, TypeOK
<1>4. UNCHANGED <<established, next_pkt_num, largest_acked_pkt, fec>>
  BY <1>1
<1>5. /\ sent' \in PerEpoch(SUBSET Packet)
      /\ \A f \in Epochs : sent'[f] = IF f \in D THEN {} ELSE IF f = App THEN sent[f] \ {} ELSE sent[f]
      /\ loss_time' \in PerEpoch(Time)
      /\ \A f \in Epochs : loss_time'[f] = IF f \in D THEN None ELSE loss_time[f]
      /\ last_sent' \in PerEpoch(Time)
      /\ \A f \in Epochs : last_sent'[f] = IF f \in D THEN None ELSE last_sent[f]
      /\ lost' \in PerEpoch(SUBSET Nat) /\ discarded' \in PerEpoch(SUBSET Nat)
      /\ SentOK' /\ KeysOK' /\ LastSentOK' /\ GoneIsOlder'
  BY ONLY <1>1, <1>3, <1>4, Settled, IInv, D \subseteq {Initial, Handshake}, keys'[App] = keys[App]
<1>6. \A f \in Epochs : sent'[f] = IF f \in D THEN {} ELSE sent[f]
  BY <1>5
<1>7. App \notin D
  OBVIOUS
<1>8. InFlightExact' /\ TimerArmed' /\ WindowOK' /\ CallOK'
  BY <1>1, <1>3, <1>6, <1>7 DEF IInv, InFlightExact, TimerArmed, WindowOK, CallOK
<1>9. LimboOK'
  <2> SUFFICES ASSUME NEW f \in Epochs, NEW p \in sent'[f], p.pn <= largest_acked_pkt[f]
               PROVE  Armed(f)'
    BY <1>1 DEF LimboOK
  <2>1. p \in sent[f] /\ f \notin D
    BY <1>6
  <2>2. Armed(f)
    BY <1>1, <2>1 DEF IInv, LimboOK, Settling
  <2> QED BY <1>1, <1>5, <2>1, <2>2 DEF Armed
<1>10. TypeOK'
  BY <1>1, <1>2, <1>5 DEF IInv, TypeOK
<1>11. ~(cc'.cwnd < cc.cwnd)
  BY <1>1 DEF IInv, TypeOK, RenoState
<1> QED BY <1>5, <1>8, <1>9, <1>10, <1>11 DEF IInv, CutOnce

LEMMA StepRecvHandshakePacket ==
  ASSUME IInv, RecvHandshakePacket
  PROVE  IInv' /\ CutOnce
<1>1. /\ DropUnackedData(Droppable(Initial)) /\ keys' = Reset(keys, Droppable(Initial), "dropped")
      /\ did_retry' = did_retry /\ did_retry \in BOOLEAN
  BY DEF RecvHandshakePacket, IInv, TypeOK
<1>2. keys' \in PerEpoch({"none", "live", "dropped"}) /\ keys'[App] = keys[App]
  BY <1>1, DroppableIs, DroppedTypes, EpochsDef
<1> QED BY ONLY <1>1, <1>2, DroppableIs, DropKeeps, IInv

LEMMA StepRecvHandshakeDone ==
  ASSUME IInv, RecvHandshakeDone
  PROVE  IInv' /\ CutOnce
<1>1. /\ DropUnackedData(Droppable(Handshake)) /\ keys' = Reset(keys, Droppable(Handshake), "dropped")
      /\ did_retry' = did_retry /\ did_retry \in BOOLEAN
  BY DEF RecvHandshakeDone, IInv, TypeOK
<1>2. keys' \in PerEpoch({"none", "live", "dropped"}) /\ keys'[App] = keys[App]
  BY <1>1, DroppableIs, DroppedTypes, EpochsDef
<1> QED BY ONLY <1>1, <1>2, DroppableIs, DropKeeps, IInv

LEMMA StepRecvRetry ==
  ASSUME IInv, RecvRetry
  PROVE  IInv' /\ CutOnce
<1>1. /\ DropUnackedData({Initial}) /\ keys' = keys /\ did_retry' \in BOOLEAN
      /\ {Initial} \subseteq {Initial, Handshake}
  BY DEF RecvRetry
<1>2. keys' \in PerEpoch({"none", "live", "dropped"}) /\ keys'[App] = keys[App]
  BY <1>1 DEF IInv, TypeOK
<1> QED BY ONLY <1>1, <1>2, DropKeeps, IInv

\* An ACK: what it newly reaches either waits in sent, and will be looked at,
\* or was settled before what waits behind it.
LEMMA StepRecvAck ==
  ASSUME IInv, NEW e \in Epochs, NEW pns \in SUBSET (0 .. next_pkt_num[e] - 1), RecvAck(e, pns)
  PROVE  IInv' /\ CutOnce
<1> USE EpochsDef
<1>1. /\ ~call.busy /\ pns # {}
      /\ largest_acked_pkt' = [largest_acked_pkt EXCEPT ![e] = Max({@, Max(pns)})]
      /\ call' = [e |-> e, todo |-> pns \cap Pns(sent[e]), newly |-> FALSE, busy |-> TRUE]
      /\ UNCHANGED <<conn, now, next_pkt_num, sent, timers, cc, app_limited, fec, frames>>
  BY DEF RecvAck
<1>2. /\ next_pkt_num[e] \in Nat /\ largest_acked_pkt \in PerEpoch(Time) /\ largest_acked_pkt[e] \in Int
      /\ sent[e] \subseteq Packet
  BY DEF IInv, TypeOK, PerEpoch, Time, None
<1>3. Max(pns) \in pns /\ \A n \in pns : Max(pns) >= n
  <2>1. IsFiniteSet(0 .. next_pkt_num[e] - 1)
    BY <1>2, FS_Interval
  <2>2. pns \subseteq 0 .. next_pkt_num[e] - 1
    OBVIOUS
  <2>3. IsFiniteSet(pns)
    BY ONLY <2>1, <2>2, FS_Subset
  <2>4. pns \subseteq Int
    BY ONLY <1>2, <2>2
  <2> QED BY <1>1, <2>3, <2>4, MaxOfFinite
<1>4. Max(pns) \in Nat /\ Max(pns) < next_pkt_num[e] /\ pns \subseteq Nat
  <2>1. pns \subseteq 0 .. next_pkt_num[e] - 1
    OBVIOUS
  <2>2. \A n \in pns : n \in Nat /\ n < next_pkt_num[e]
    BY ONLY <1>2, <2>1
  <2> QED BY ONLY <1>3, <2>2
<1> DEFINE m == Max(pns)
           largest == Max({largest_acked_pkt[e], m})
<1>5. largest = IF largest_acked_pkt[e] >= m THEN largest_acked_pkt[e] ELSE m
  <2>1. {largest_acked_pkt[e], m} \subseteq Int
    BY <1>2, <1>4
  <2> DEFINE x == IF largest_acked_pkt[e] >= m THEN largest_acked_pkt[e] ELSE m
  <2>2. x \in {largest_acked_pkt[e], m} /\ \A y \in {largest_acked_pkt[e], m} : y <= x
    BY <1>2, <1>4
  <2> HIDE DEF x, m
  <2>3. largest = x
    BY <2>1, <2>2, MaxIs
  <2> QED BY <2>3 DEF x
<1>6. /\ largest \in Time /\ largest >= m /\ largest >= largest_acked_pkt[e] /\ largest \in Nat
      /\ largest = largest_acked_pkt[e] \/ largest = m
  BY <1>2, <1>4, <1>5 DEF PerEpoch, Time
<1>7. /\ largest_acked_pkt' \in PerEpoch(Time) /\ largest_acked_pkt'[e] = largest
      /\ \A f \in Epochs : f # e => largest_acked_pkt'[f] = largest_acked_pkt[f]
  <2> HIDE DEF m, largest
  <2>1. largest_acked_pkt' = [largest_acked_pkt EXCEPT ![e] = largest]
    BY <1>1 DEF m, largest
  <2> QED BY <1>2, <1>6, <2>1 DEF PerEpoch
<1>8. call' \in [e : Epochs, todo : SUBSET Nat, newly : BOOLEAN, busy : BOOLEAN]
  BY <1>1, <1>4
<1> HIDE DEF m, largest
<1>9. TypeOK'
  BY <1>1, <1>7, <1>8 DEF IInv, TypeOK, conn, timers, frames
<1>10. SentOK' /\ KeysOK' /\ LastSentOK' /\ WindowOK' /\ InFlightExact' /\ TimerArmed'
  BY <1>1 DEF conn, timers, IInv, SentOK, KeysOK, LastSentOK, WindowOK, InFlightExact, TimerArmed
<1>11. CallOK'
  <2>1. \A n \in pns : n <= m
    BY <1>3, <1>4 DEF m
  <2>2. \A n \in pns : n <= largest
    BY <1>4, <1>6, <2>1 DEF m
  <2> QED BY <1>1, <1>7, <2>2 DEF CallOK
<1>12. GoneIsOlder'
  <2> SUFFICES ASSUME NEW f \in Epochs
               PROVE  /\ largest_acked_pkt'[f] < next_pkt_num[f]
                      /\ \A n \in Nat : n < next_pkt_num[f] /\ n \notin Pns(sent[f])
                           => n <= largest_acked_pkt'[f] \/ \A p \in sent[f] : n < p.pn
    BY <1>1 DEF GoneIsOlder
  <2>1. /\ largest_acked_pkt[f] < next_pkt_num[f]
        /\ \A n \in Nat : n < next_pkt_num[f] /\ n \notin Pns(sent[f])
             => n <= largest_acked_pkt[f] \/ \A p \in sent[f] : n < p.pn
    BY DEF IInv, GoneIsOlder
  <2>2. CASE f # e
    BY <1>7, <2>1, <2>2
  <2>3. CASE f = e
    BY <1>2, <1>4, <1>6, <1>7, <2>1, <2>3 DEF m
  <2> QED BY <2>2, <2>3
<1>13. LimboOK'
  <2> SUFFICES ASSUME NEW f \in Epochs, NEW p \in sent[f], p.pn <= largest_acked_pkt'[f]
               PROVE  Armed(f) \/ Settling(f)'
    BY <1>1 DEF LimboOK, Armed, timers
  <2>1. CASE p.pn <= largest_acked_pkt[f]
    BY <1>1, <2>1 DEF IInv, LimboOK, Settling
  <2>2. CASE ~(p.pn <= largest_acked_pkt[f])
    <3>1. f = e
      BY <1>7, <2>2
    <3>2. p.pn \in Nat
      BY <1>2, <3>1 DEF Packet
    <3>3. largest = m /\ p.pn <= m /\ m \in Nat /\ m < next_pkt_num[e] /\ largest_acked_pkt[e] < m
      BY <1>2, <1>4, <1>6, <1>7, <2>2, <3>1, <3>2 DEF m
    <3>4. m \in Pns(sent[e])
      <4>1. m \notin Pns(sent[e]) => m <= largest_acked_pkt[e] \/ \A q \in sent[e] : m < q.pn
        BY <3>3 DEF IInv, GoneIsOlder
      <4> QED BY <1>2, <3>1, <3>2, <3>3, <4>1
    <3>5. m \in call'.todo /\ call'.busy /\ call'.e = e
      BY <1>1, <1>3, <3>4 DEF m
    <3> QED BY <3>1, <3>5 DEF Settling
  <2> QED BY <2>1, <2>2
<1>14. ~(cc'.cwnd < cc.cwnd)
  BY <1>1 DEF IInv, TypeOK, RenoState
<1> QED BY <1>9, <1>10, <1>11, <1>12, <1>13, <1>14 DEF IInv, CutOnce

\* The largest number of an ACK still to be looked at: its packet leaves sent,
\* and with it, once the FEC group can be decoded, the frames of the others.
LEMMA StepOnPacketAcked ==
  ASSUME IInv, OnPacketAcked
  PROVE  IInv' /\ CutOnce
<1> USE EpochsDef
<1> DEFINE e == call.e
           p == CHOOSE q \in sent[e] : q.pn = Max(call.todo)
           rest == [sent EXCEPT ![e] = @ \ {p}]
           rec == Recovered(p, rest[App])
<1>1. /\ call.todo # {}
      /\ call' = [call EXCEPT !.todo = @ \ {p.pn}, !.newly = TRUE]
      /\ sent' = [rest EXCEPT ![App] = Emptied(@, rec)]
      /\ acked' = [f \in Epochs |->
                     acked[f] \cup (IF f = e THEN Carrying({p}) ELSE {})
                              \cup (IF f = App THEN Pns(rec) ELSE {})]
      /\ fec' = IF p.group THEN [fec EXCEPT !.acked = @ \cup {p.pn}] ELSE fec
      /\ cc' = CCAfterAck(e, p)
      /\ UNCHANGED <<conn, now, next_pkt_num, largest_acked_pkt, timers,
                     app_limited, lost, discarded, pending>>
  BY DEF OnPacketAcked
<1>2. /\ e \in Epochs /\ call.todo \subseteq Nat /\ call.busy
      /\ sent \in PerEpoch(SUBSET Packet) /\ largest_acked_pkt \in PerEpoch(Time)
      /\ \A n \in call.todo : n \in Pns(sent[e]) /\ n <= largest_acked_pkt[e]
  BY <1>1 DEF IInv, TypeOK, CallOK
<1>3. \A f \in Epochs : Distinct(sent[f])
  BY DistinctSent DEF IInv
<1>4. Max(call.todo) \in call.todo
  <2>1. IsFiniteSet(call.todo)
    <3> DEFINE g == [q \in sent[e] |-> q.pn]
    <3>1. g \in Surjection(sent[e], Pns(sent[e]))
      BY DEF Surjection, Pns
    <3>2. IsFiniteSet(sent[e])
      BY <1>2, <1>3 DEF Distinct
    <3>3. IsFiniteSet(Pns(sent[e]))
      <4> HIDE DEF g
      <4> QED BY <3>1, <3>2, FS_Surjection
    <3> QED BY <1>2, <3>3, FS_Subset
  <2>2. call.todo \subseteq Int
    BY <1>2
  <2> QED BY <1>1, <2>1, <2>2, MaxOfFinite
<1>5. p \in sent[e] /\ p.pn = Max(call.todo)
  BY <1>2, <1>4 DEF Pns
<1>6. p \in Packet /\ p.pn \in call.todo /\ p.pn <= largest_acked_pkt[e] /\ p.pn \in Nat
      /\ p.size \in Nat /\ p.time \in Nat
  BY <1>2, <1>4, <1>5 DEF PerEpoch, Packet
<1> HIDE DEF p
<1>7. /\ rest \in PerEpoch(SUBSET Packet)
      /\ \A f \in Epochs : rest[f] = IF f = e THEN sent[f] \ {p} ELSE sent[f]
  BY <1>2 DEF PerEpoch
<1> HIDE DEF rest
<1>8. \A f \in Epochs : Distinct(rest[f]) /\ rest[f] \subseteq sent[f]
  <2>1. \A f \in Epochs : rest[f] \subseteq sent[f]
    BY <1>7
  <2> QED BY <1>3, <2>1, DistinctPart
<1>9. rec \subseteq rest[App] /\ Pns(rec) \subseteq Nat
  BY <1>7 DEF Recovered, Pns, PerEpoch, Packet
<1> HIDE DEF rec
<1>10. /\ Distinct(Emptied(rest[App], rec))
       /\ \A x \in Emptied(rest[App], rec) : \E q \in rest[App] : Like(x, q)
       /\ \A q \in rest[App] : \E x \in Emptied(rest[App], rec) : Like(x, q)
       /\ Pns(Emptied(rest[App], rec)) = Pns(rest[App])
       /\ SizeOf(InFlight(Emptied(rest[App], rec))) = SizeOf(InFlight(rest[App]))
  <2>1. Distinct(rest[App])
    BY <1>8
  <2> QED BY ONLY <1>9, <2>1, EmptiedLike
<1>11. \A f \in Epochs : sent'[f] = IF f = App THEN Emptied(rest[App], rec) ELSE rest[f]
  BY <1>1, <1>7 DEF PerEpoch
<1>12. \A f \in Epochs :
         /\ Distinct(sent'[f])
         /\ \A x \in sent'[f] : \E q \in rest[f] : Like(x, q)
         /\ Pns(sent'[f]) = Pns(rest[f])
  <2> TAKE f \in Epochs
  <2>1. CASE f = App
    BY <1>10, <1>11, <2>1
  <2>2. CASE f # App
    <3>1. sent'[f] = rest[f] /\ Distinct(rest[f])
      BY <1>8, <1>11, <2>2
    <3>2. \A x \in rest[f] : Like(x, x)
      BY <3>1, DistinctPart
    <3> QED BY <3>1, <3>2
  <2> QED BY <2>1, <2>2
<1>13. sent' \in PerEpoch(SUBSET Packet)
  <2>1. \A f \in Epochs : sent'[f] \subseteq Packet
    BY <1>12 DEF Distinct
  <2>2. DOMAIN sent' = Epochs /\ sent' = [f \in Epochs |-> sent'[f]]
    BY <1>1, <1>7 DEF PerEpoch
  <2> QED BY <2>1, <2>2 DEF PerEpoch
<1>14. Pns(rest[e]) = Pns(sent[e]) \ {p.pn} /\ \A f \in Epochs : f # e => rest[f] = sent[f]
  <2>1. \A q \in sent[e] : q.pn = p.pn => q = p
    BY <1>2, <1>3, <1>5 DEF Distinct
  <2>2. rest[e] = sent[e] \ {p}
    BY <1>2, <1>7
  <2> QED BY <1>7, <2>1, <2>2 DEF Pns
<1>15. /\ fec.sent \subseteq fec'.sent /\ fec'.acked \subseteq fec'.sent
       /\ fec' \in [sent : SUBSET Nat, acked : SUBSET Nat]
  <2>1. p.group => p.pn \in fec.sent
    BY <1>2, <1>5 DEF IInv, SentOK
  <2>2. fec \in [sent : SUBSET Nat, acked : SUBSET Nat] /\ fec.acked \subseteq fec.sent
    BY DEF IInv, TypeOK
  <2> QED BY <1>1, <1>6, <2>1, <2>2
<1>16. SentOK'
  <2>1. \A f \in Epochs : Kept(sent[f], sent'[f])
    BY <1>8, <1>12 DEF Kept
  <2> QED BY <1>1, <1>15, <2>1, SentKept DEF IInv
<1>17. GoneIsOlder'
  <2>1. ASSUME NEW f \in Epochs
        PROVE  /\ Pns(sent'[f]) \subseteq Pns(sent[f])
               /\ \A n \in Pns(sent[f]) \ Pns(sent'[f]) : n <= largest_acked_pkt[f]
    BY <1>6, <1>12, <1>14
  <2> QED BY <1>1, <2>1, OlderKept DEF IInv
<1>18. CallOK'
  <2>1. /\ call'.todo = call.todo \ {p.pn} /\ call'.e = e /\ call'.busy
    BY <1>1, <1>2 DEF IInv, TypeOK
  <2>2. \A n \in call'.todo : n \in Pns(sent'[e])
    BY <1>2, <1>12, <1>14, <2>1
  <2> QED BY <1>1, <1>2, <2>1, <2>2 DEF CallOK
<1>19. KeysOK' /\ LastSentOK' /\ TimerArmed'
  <2>1. \A x \in sent'[App] : \E q \in sent[App] : q.ack_eliciting = x.ack_eliciting
    BY <1>8, <1>12 DEF Like
  <2> QED BY <1>1, <2>1 DEF conn, timers, IInv, KeysOK, LastSentOK, TimerArmed
<1>20. LimboOK'
  <2> SUFFICES ASSUME NEW f \in Epochs, NEW x \in sent'[f], x.pn <= largest_acked_pkt[f]
               PROVE  Armed(f)' \/ Settling(f)'
    BY <1>1 DEF LimboOK
  <2>1. CASE f = e
    <3>1. call'.busy /\ call'.e = e /\ call'.newly
      BY <1>1, <1>2 DEF IInv, TypeOK
    <3> QED BY <2>1, <3>1 DEF Settling
  <2>2. CASE f # e
    <3>1. PICK q \in sent[f] : q.pn = x.pn
      BY <1>8, <1>12 DEF Like
    <3>2. Armed(f)
      BY <2>2, <3>1 DEF IInv, LimboOK, Settling
    <3> QED BY <1>1, <3>2 DEF Armed, timers
  <2> QED BY <2>1, <2>2
<1>21. cc \in RenoState /\ cc.cwnd >= MinimumWindow /\ app_limited \in BOOLEAN
       /\ cc.bytes_in_flight = SizeOf(InFlight(sent[App])) /\ cc.cwnd \in Nat
  BY DEF IInv, TypeOK, WindowOK, InFlightExact, RenoState
<1>22. /\ cc' \in RenoState /\ cc'.cwnd >= MinimumWindow /\ ~(cc'.cwnd < cc.cwnd)
       /\ cc'.bytes_in_flight = SizeOf(InFlight(rest[App]))
  <2>1. CASE p.in_flight /\ e = App
    <3>1. Distinct(InFlight(sent[App])) /\ {p} \subseteq InFlight(sent[App])
      <4>1. InFlight(sent[App]) \subseteq sent[App] /\ p \in InFlight(sent[App])
        BY <1>5, <2>1 DEF InFlight
      <4> QED BY <1>3, <4>1, DistinctPart
    <3>2. /\ SizeOf(InFlight(sent[App]) \ {p}) = SizeOf(InFlight(sent[App])) - SizeOf({p})
          /\ SizeOf(InFlight(sent[App]) \ {p}) \in Nat /\ SizeOf({p}) \in Nat
          /\ SizeOf(InFlight(sent[App])) \in Nat
      BY ONLY <3>1, BytesOfPart
    <3>3. SizeOf({p}) = p.size
      BY <1>6, BytesOfOne
    <3>4. InFlight(rest[App]) = InFlight(sent[App]) \ {p}
      BY <1>7, <2>1 DEF InFlight
    <3>5. cc' = OnPacketAckedCC(cc, p.size, p.time, app_limited)
      BY <1>1, <2>1 DEF CCAfterAck
    <3>6. cc.bytes_in_flight >= p.size
      BY <1>21, <3>2, <3>3
    <3>7. /\ cc' \in RenoState /\ cc'.cwnd >= MinimumWindow /\ cc'.cwnd >= cc.cwnd
          /\ cc'.bytes_in_flight = cc.bytes_in_flight - p.size
      BY ONLY <1>6, <1>21, <3>5, <3>6, AckedIs
    <3>8. cc'.cwnd \in Nat
      BY <3>7 DEF RenoState
    <3> QED BY ONLY <1>21, <3>2, <3>3, <3>4, <3>7, <3>8
  <2>2. CASE ~(p.in_flight /\ e = App)
    <3>1. InFlight(rest[App]) = InFlight(sent[App])
      BY <1>7, <2>2 DEF InFlight
    <3>2. cc' = cc
      BY <1>1, <2>2 DEF CCAfterAck
    <3> QED BY <1>21, <3>1, <3>2
  <2> QED BY <2>1, <2>2
<1>23. InFlightExact' /\ WindowOK' /\ CutOnce
  BY <1>10, <1>11, <1>22 DEF InFlightExact, WindowOK, CutOnce
<1>24. acked' \in PerEpoch(SUBSET Nat)
  <2>1. Carrying({p}) \subseteq Nat /\ \A f \in Epochs : acked[f] \subseteq Nat
    BY <1>6 DEF Carrying, IInv, TypeOK, PerEpoch
  <2> QED BY <1>1, <1>9, <2>1 DEF PerEpoch
<1>25. call' \in [e : Epochs, todo : SUBSET Nat, newly : BOOLEAN, busy : BOOLEAN]
  BY <1>1 DEF IInv, TypeOK
<1>26. TypeOK'
  BY <1>1, <1>13, <1>15, <1>22, <1>24, <1>25 DEF IInv, TypeOK, conn, timers
<1> QED BY <1>16, <1>17, <1>18, <1>19, <1>20, <1>23, <1>26 DEF IInv

\* A packet sent gets the next number; the client's first Handshake packet ends
\* the Initial space.
LEMMA StepSendPacket ==
  ASSUME IInv, NEW e \in Epochs, NEW p \in NewPackets(e), SendPacket(e, p)
  PROVE  IInv' /\ CutOnce
<1> USE EpochsDef
<1> DEFINE ls == IF p.ack_eliciting THEN [last_sent EXCEPT ![e] = now] ELSE last_sent
           drop == IF ~is_server /\ e = Handshake THEN Droppable(Initial) ELSE {}
           snt == [sent EXCEPT ![e] = @ \cup {p}]
           probes == [loss_probes EXCEPT ![e] = IF p.ack_eliciting /\ @ > 0 THEN @ - 1 ELSE @]
<1>1. /\ ~call.busy /\ keys[e] = "live"
      /\ next_pkt_num' = [next_pkt_num EXCEPT ![e] = @ + 1]
      /\ fec' = IF p.group THEN [fec EXCEPT !.sent = @ \cup {p.pn}] ELSE fec
      /\ app_limited' = IF p.in_flight
                        THEN cc.bytes_in_flight + p.size + AppSlack < cc.cwnd
                        ELSE app_limited
      /\ cc' = CCAfterSend(e, p)
      /\ timer' \in TimerAfterSend(e, p, ls)
      /\ Settle(e, {}, drop, snt, loss_time, ls)
      /\ keys' = Reset(keys, drop, "dropped")
      /\ loss_probes' = Reset(probes, drop, 0)
      /\ pending' = Reset(pending, drop \cup {e}, FALSE)
      /\ UNCHANGED <<is_server, established, did_retry, now,
                     largest_acked_pkt, acked, call>>
  BY DEF SendPacket, MaySend
<1>2. /\ next_pkt_num \in PerEpoch(Nat) /\ sent \in PerEpoch(SUBSET Packet)
      /\ largest_acked_pkt \in PerEpoch(Time) /\ loss_time \in PerEpoch(Time)
      /\ last_sent \in PerEpoch(Time) /\ timer \in Time /\ cc \in RenoState /\ now \in Nat
      /\ lost \in PerEpoch(SUBSET Nat) /\ discarded \in PerEpoch(SUBSET Nat)
      /\ loss_probes \in PerEpoch(0 .. 2) /\ pending \in PerEpoch(BOOLEAN)
      /\ fec \in [sent : SUBSET Nat, acked : SUBSET Nat] /\ fec.acked \subseteq fec.sent
      /\ next_pkt_num[e] \in Nat
  BY DEF IInv, TypeOK, PerEpoch
<1>3. /\ p.pn = next_pkt_num[e] /\ p.time = now
      /\ p.ack_eliciting <=> p.size > 0
      /\ p.ack_eliciting \/ p.group => p.in_flight
      /\ p.group => e = App
      /\ p.size \in Sizes \cup {0}
      /\ p \in [pn : {next_pkt_num[e]}, time : {now}, size : Sizes \cup {0},
                ack_eliciting : BOOLEAN, in_flight : BOOLEAN, group : BOOLEAN, frames : {TRUE}]
  BY DEF NewPackets
<1>4. p \in Packet /\ p.size \in Nat /\ p.pn \in Nat
  <2>1. p.size \in Nat
    <3>1. Sizes \subseteq Nat
      BY RecoveryAssumption
    <3>2. p.size \in Sizes \cup {0}
      BY <1>3
    <3>3. 0 \in Nat
      OBVIOUS
    <3> QED BY ONLY <3>1, <3>2, <3>3, Zenon
  <2> QED BY <1>2, <1>3, <2>1 DEF Packet
<1>5. drop \subseteq {Initial, Handshake} /\ e \notin drop /\ App \notin drop /\ drop \subseteq Epochs
  BY DEF Droppable
<1>6. /\ ls \in PerEpoch(Time)
      /\ \A f \in Epochs : ls[f] = IF f = e /\ p.ack_eliciting THEN now ELSE last_sent[f]
  BY <1>2, <1>4 DEF PerEpoch, Time, Packet
<1>7. snt \in PerEpoch(SUBSET Packet) /\ \A f \in Epochs : snt[f] = IF f = e THEN sent[f] \cup {p} ELSE sent[f]
  BY <1>2, <1>4 DEF PerEpoch
<1>8. probes \in PerEpoch(0 .. 2)
  <2>1. loss_probes[e] \in 0 .. 2
    BY <1>2 DEF PerEpoch
  <2>2. (IF p.ack_eliciting /\ loss_probes[e] > 0 THEN loss_probes[e] - 1 ELSE loss_probes[e]) \in 0 .. 2
    BY <2>1
  <2> QED BY <1>2, <2>2 DEF PerEpoch
<1> HIDE DEF ls, drop, snt, probes
<1>9. /\ sent' \in PerEpoch(SUBSET Packet)
      /\ \A f \in Epochs : sent'[f] = IF f \in drop THEN {} ELSE IF f = e THEN snt[f] \ {} ELSE snt[f]
      /\ loss_time' \in PerEpoch(Time)
      /\ \A f \in Epochs : loss_time'[f] = IF f \in drop THEN None ELSE loss_time[f]
      /\ last_sent' \in PerEpoch(Time)
      /\ \A f \in Epochs : last_sent'[f] = IF f \in drop THEN None ELSE ls[f]
      /\ lost' \in PerEpoch(SUBSET Nat) /\ discarded' \in PerEpoch(SUBSET Nat)
  <2>1. {} \subseteq snt[e] /\ e \in Epochs
    OBVIOUS
  <2> QED BY ONLY <1>1, <1>2, <1>5, <1>6, <1>7, <2>1, SettleIs
<1>10. \A f \in Epochs : sent'[f] = IF f \in drop THEN {} ELSE IF f = e THEN sent[f] \cup {p} ELSE sent[f]
  BY <1>7, <1>9
<1>11. /\ keys' \in PerEpoch({"none", "live", "dropped"}) /\ keys'[App] = keys[App]
       /\ loss_probes' \in PerEpoch(0 .. 2) /\ pending' \in PerEpoch(BOOLEAN)
  <2>1. keys' \in PerEpoch({"none", "live", "dropped"}) /\ keys'[App] = keys[App]
    BY <1>1, <1>5, DroppedTypes
  <2>2. 0 \in 0 .. 2 /\ FALSE \in BOOLEAN
    OBVIOUS
  <2>3. loss_probes' \in PerEpoch(0 .. 2)
    BY ONLY <1>1, <1>8, <2>2, ResetIs
  <2>4. pending' \in PerEpoch(BOOLEAN)
    <3>1. pending' = Reset(pending, drop \cup {e}, FALSE) /\ pending \in PerEpoch(BOOLEAN)
      BY <1>1, <1>2
    <3> QED BY ONLY <2>2, <3>1, ResetIs
  <2> QED BY <2>1, <2>3, <2>4
<1>12. next_pkt_num' \in PerEpoch(Nat)
       /\ \A f \in Epochs : next_pkt_num'[f] = IF f = e THEN next_pkt_num[f] + 1 ELSE next_pkt_num[f]
  BY <1>1, <1>2 DEF PerEpoch
<1>13. /\ fec.sent \subseteq fec'.sent /\ fec'.acked \subseteq fec'.sent
       /\ fec' \in [sent : SUBSET Nat, acked : SUBSET Nat]
       /\ p.group => p.pn \in fec'.sent
  BY <1>1, <1>2, <1>4
<1>14. SentOK'
  <2> SUFFICES ASSUME NEW f \in Epochs
               PROVE  /\ IsFiniteSet(sent'[f])
                      /\ \A q \in sent'[f] :
                           /\ q.pn < next_pkt_num'[f]
                           /\ q.ack_eliciting <=> q.size > 0
                           /\ q.ack_eliciting => q.in_flight
                           /\ q.group => f = App /\ q.pn \in fec'.sent
                      /\ \A q, r \in sent'[f] : q.pn = r.pn => q = r
    BY DEF SentOK
  <2>1. /\ IsFiniteSet(sent[f])
        /\ \A q \in sent[f] :
             /\ q.pn < next_pkt_num[f]
             /\ q.ack_eliciting <=> q.size > 0
             /\ q.ack_eliciting => q.in_flight
             /\ q.group => f = App /\ q.pn \in fec.sent
        /\ \A q, r \in sent[f] : q.pn = r.pn => q = r
    BY DEF IInv, SentOK
  <2>2. CASE f \in drop
    BY <1>10, <2>2, FS_EmptySet
  <2>3. CASE f \notin drop /\ f # e
    BY <1>10, <1>12, <1>13, <2>1, <2>3
  <2>4. CASE f = e
    <3>1. sent'[f] = sent[f] \cup {p}
      BY <1>5, <1>10, <2>4
    <3>2. IsFiniteSet(sent'[f])
      BY ONLY <2>1, <3>1, FS_AddElement
    <3>3. \A q \in sent[f] : q.pn \in Nat /\ q.pn < p.pn
      BY <1>2, <1>3, <2>1, <2>4 DEF PerEpoch, Packet
    <3>4. \A q, r \in sent'[f] : q.pn = r.pn => q = r
      BY <1>4, <2>1, <3>1, <3>3
    <3>5. \A q \in sent[f] : q.pn < next_pkt_num'[f]
      BY <1>2, <1>3, <1>12, <2>4, <3>3
    <3>6. p.pn < next_pkt_num'[f]
      BY <1>2, <1>3, <1>12, <2>4
    <3>7. ASSUME NEW q \in sent'[f]
          PROVE  /\ q.pn < next_pkt_num'[f]
                 /\ q.ack_eliciting <=> q.size > 0
                 /\ q.ack_eliciting => q.in_flight
                 /\ q.group => f = App /\ q.pn \in fec'.sent
      <4>1. CASE q = p
        <5>1. /\ p.ack_eliciting <=> p.size > 0
              /\ p.ack_eliciting \/ p.group => p.in_flight
              /\ p.group => e = App
              /\ p.group => p.pn \in fec'.sent
          BY <1>3, <1>13
        <5> QED BY ONLY <2>4, <3>6, <4>1, <5>1
      <4>2. CASE q \in sent[f]
        BY <1>13, <2>1, <3>5, <4>2
      <4> QED BY <3>1, <4>1, <4>2
    <3> QED BY <3>2, <3>4, <3>7
  <2> QED BY <2>2, <2>3, <2>4
<1>15. KeysOK' /\ LastSentOK'
  <2>1. e = App => established
    BY <1>1 DEF IInv, KeysOK
  <2>2. KeysOK'
    BY <1>1, <1>5, <1>10, <1>11, <2>1 DEF IInv, KeysOK
  <2>3. now # None
    BY <1>2 DEF None
  <2>4. last_sent'[App] = IF App = e /\ p.ack_eliciting THEN now ELSE last_sent[App]
    BY <1>5, <1>6, <1>9
  <2>5. sent'[App] = IF App = e THEN sent[App] \cup {p} ELSE sent[App]
    BY <1>5, <1>10
  <2>6. LastSentOK'
    BY <2>3, <2>4, <2>5 DEF IInv, LastSentOK
  <2> QED BY <2>2, <2>6
<1>16. GoneIsOlder'
  <2> SUFFICES ASSUME NEW f \in Epochs
               PROVE  /\ largest_acked_pkt[f] < next_pkt_num'[f]
                      /\ \A n \in Nat : n < next_pkt_num'[f] /\ n \notin Pns(sent'[f])
                           => n <= largest_acked_pkt[f] \/ \A q \in sent'[f] : n < q.pn
    BY <1>1 DEF GoneIsOlder
  <2>1. /\ largest_acked_pkt[f] < next_pkt_num[f]
        /\ \A n \in Nat : n < next_pkt_num[f] /\ n \notin Pns(sent[f])
             => n <= largest_acked_pkt[f] \/ \A q \in sent[f] : n < q.pn
    BY DEF IInv, GoneIsOlder
  <2>2. next_pkt_num[f] \in Nat /\ largest_acked_pkt[f] \in Int
    BY <1>2 DEF PerEpoch, Time, None
  <2>3. CASE f \in drop
    BY <1>5, <1>10, <1>12, <2>1, <2>2, <2>3
  <2>4. CASE f \notin drop /\ f # e
    BY <1>10, <1>12, <2>1, <2>4
  <2>5. CASE f = e
    <3>1. sent'[f] = sent[f] \cup {p}
      BY <1>5, <1>10, <2>5
    <3>2. largest_acked_pkt[f] < next_pkt_num'[f]
      BY <1>12, <2>1, <2>2, <2>5
    <3>3. ASSUME NEW n \in Nat, n < next_pkt_num'[f], n \notin Pns(sent'[f])
          PROVE  n <= largest_acked_pkt[f] \/ \A q \in sent'[f] : n < q.pn
      <4>1. n # p.pn /\ n \notin Pns(sent[f])
        BY <3>1, <3>3 DEF Pns
      <4>2. n < next_pkt_num[f] /\ n < p.pn
        BY <1>3, <1>12, <2>2, <2>5, <3>3, <4>1
      <4> QED BY <2>1, <3>1, <4>1, <4>2
    <3> QED BY <3>2, <3>3
  <2> QED BY <2>3, <2>4, <2>5
<1>17. cc.cwnd >= MinimumWindow /\ cc.bytes_in_flight = SizeOf(InFlight(sent[App]))
       /\ cc.cwnd \in Nat /\ cc.bytes_in_flight \in Nat
  BY <1>2 DEF IInv, WindowOK, InFlightExact, RenoState
<1>18. /\ cc' \in RenoState /\ cc'.cwnd = cc.cwnd
       /\ cc'.bytes_in_flight = IF p.in_flight /\ e = App THEN cc.bytes_in_flight + p.size ELSE cc.bytes_in_flight
  BY <1>1, <1>2, <1>4, <1>17 DEF CCAfterSend, OnPacketSentCC, RenoState
<1>19. InFlightExact'
  <2>1. CASE e # App
    <3>1. sent'[App] = sent[App]
      BY <1>5, <1>10, <2>1
    <3> QED BY <1>17, <1>18, <2>1, <3>1 DEF InFlightExact
  <2>2. CASE e = App
    <3>1. sent'[App] = sent[App] \cup {p}
      BY <1>5, <1>10, <2>2
    <3>2. CASE ~p.in_flight
      <4>1. InFlight(sent'[App]) = InFlight(sent[App])
        BY <3>1, <3>2 DEF InFlight
      <4> QED BY <1>17, <1>18, <3>2, <4>1 DEF InFlightExact
    <3>3. CASE p.in_flight
      <4>1. InFlight(sent'[App]) = InFlight(sent[App]) \cup {p}
        BY <3>1, <3>3 DEF InFlight
      <4>2. Distinct(sent[App]) /\ InFlight(sent[App]) \subseteq sent[App]
        BY DistinctSent DEF IInv, InFlight
      <4>3. Distinct(InFlight(sent[App]))
        BY <4>2, DistinctPart
      <4>4. p.pn \notin Pns(sent[App])
        <5>1. \A q \in sent[App] : q.pn < next_pkt_num[App]
          BY DEF IInv, SentOK
        <5> QED BY <1>2, <1>3, <2>2, <5>1 DEF Pns, PerEpoch, Packet
      <4>5. p.pn \notin Pns(InFlight(sent[App])) /\ InFlight(sent[App]) \subseteq Packet
            /\ IsFiniteSet(InFlight(sent[App]))
        BY <4>2, <4>3, <4>4 DEF Pns, Distinct
      <4>6. SizeOf(InFlight(sent[App]) \cup {p}) = SizeOf(InFlight(sent[App])) + p.size
        BY <1>4, <4>5, BytesOfNew
      <4> QED BY <1>17, <1>18, <2>2, <3>3, <4>1, <4>6 DEF InFlightExact
    <3> QED BY <3>2, <3>3
  <2> QED BY <2>1, <2>2
<1>20. /\ timer' \in Time /\ TimerArmed'
       /\ \A f \in Epochs : f \notin drop /\ Armed(f) /\ sent'[f] # {}
            => timer' # None /\ timer' <= loss_time[f]
  <2>1. CASE p.in_flight
    <3>1. timer' \in TimerValues(loss_time, cc', ls) /\ established' = established
      BY <1>1, <2>1 DEF TimerAfterSend
    <3>2. Without(loss_time', drop, loss_time) /\ Without(last_sent', drop, ls)
      BY <1>9 DEF Without
    <3>3. /\ timer' \in Time /\ TimerArmed'
          /\ \A f \in Epochs : sent'[f] # {} /\ loss_time'[f] # None
               => timer' # None /\ timer' <= loss_time'[f]
      BY ONLY <1>2, <1>5, <1>6, <1>9, <1>14, <1>15, <1>18, <1>19, <3>1, <3>2, TimerCovers
    <3> QED BY <1>9, <3>3 DEF Armed
  <2>2. CASE ~p.in_flight
    <3>1. timer' = timer
      BY <1>1, <2>2 DEF TimerAfterSend
    <3>2. ~p.ack_eliciting
      BY <1>3, <2>2
    <3>3. TimerArmed'
      BY <1>5, <1>10, <3>1, <3>2 DEF IInv, TimerArmed
    <3> QED BY <1>2, <3>1, <3>3 DEF Armed
  <2> QED BY <2>1, <2>2
<1>21. LimboOK'
  <2> SUFFICES ASSUME NEW f \in Epochs, NEW q \in sent'[f], q.pn <= largest_acked_pkt[f]
               PROVE  Armed(f)'
    BY <1>1 DEF LimboOK
  <2>1. f \notin drop
    BY <1>10
  <2>2. q \in sent[f]
    <3>1. largest_acked_pkt[e] < next_pkt_num[e] /\ largest_acked_pkt[e] \in Int
      BY <1>2 DEF IInv, GoneIsOlder, PerEpoch, Time, None
    <3>2. ~(p.pn <= largest_acked_pkt[e])
      BY <1>2, <1>3, <3>1
    <3> QED BY <1>10, <2>1, <3>2
  <2>3. Armed(f)
    BY <1>1, <2>2 DEF IInv, LimboOK, Settling
  <2> QED BY <1>9, <1>20, <2>1, <2>3 DEF Armed
<1>22. CallOK'
  BY <1>1 DEF IInv, CallOK
<1>23. app_limited' \in BOOLEAN
  <2>1. app_limited \in BOOLEAN
    BY DEF IInv, TypeOK
  <2>2. CASE p.in_flight
    BY <1>1, <2>2
  <2>3. CASE ~p.in_flight
    BY <1>1, <2>1, <2>3
  <2> QED BY <2>2, <2>3
<1>24. TypeOK'
  <2>1. /\ is_server' \in BOOLEAN /\ established' \in BOOLEAN /\ did_retry' \in BOOLEAN
        /\ now' \in Nat /\ largest_acked_pkt' \in PerEpoch(Time)
        /\ acked' \in PerEpoch(SUBSET Nat)
        /\ call' \in [e : Epochs, todo : SUBSET Nat, newly : BOOLEAN, busy : BOOLEAN]
    BY <1>1 DEF IInv, TypeOK
  <2> QED BY ONLY <1>9, <1>11, <1>12, <1>13, <1>18, <1>20, <1>23, <2>1 DEF TypeOK
<1>25. WindowOK' /\ CutOnce
  BY <1>17, <1>18 DEF WindowOK, CutOnce
<1> QED BY <1>14, <1>15, <1>16, <1>19, <1>20, <1>21, <1>22, <1>24, <1>25 DEF IInv

-----------------------------------------------------------------------------
(* The theorems *)

LEMMA Initially == Init => IInv
<1> SUFFICES ASSUME Init PROVE IInv
  OBVIOUS
<1> USE EpochsDef
<1>1. cc = RenoInit /\ cc \in RenoState /\ cc.cwnd >= MinimumWindow /\ cc.bytes_in_flight = 0
  BY WindowAssumption DEF Init, RenoInit, RenoState, None, Unlimited
<1>2. \A f \in Epochs : sent[f] = {} /\ largest_acked_pkt[f] = None /\ next_pkt_num[f] = 0
  BY DEF Init
<1>3. TypeOK
  <2>1. None \in Time
    BY DEF Time
  <2>2. /\ is_server \in BOOLEAN /\ established \in BOOLEAN /\ did_retry \in BOOLEAN
        /\ now \in Nat /\ timer \in Time /\ app_limited \in BOOLEAN
        /\ fec \in [sent : SUBSET Nat, acked : SUBSET Nat] /\ fec.acked \subseteq fec.sent
        /\ call \in [e : Epochs, todo : SUBSET Nat, newly : BOOLEAN, busy : BOOLEAN]
    BY <2>1, IdleIs DEF Init
  <2>3. /\ keys \in PerEpoch({"none", "live", "dropped"}) /\ next_pkt_num \in PerEpoch(Nat)
        /\ sent \in PerEpoch(SUBSET Packet) /\ largest_acked_pkt \in PerEpoch(Time)
        /\ loss_time \in PerEpoch(Time) /\ last_sent \in PerEpoch(Time)
    BY <2>1 DEF Init, PerEpoch
  <2>4. loss_probes \in PerEpoch(0 .. 2)
    BY DEF Init, PerEpoch
  <2>5. /\ pending \in PerEpoch(BOOLEAN)
        /\ acked \in PerEpoch(SUBSET Nat) /\ lost \in PerEpoch(SUBSET Nat)
        /\ discarded \in PerEpoch(SUBSET Nat)
    BY DEF Init, PerEpoch
  <2> QED BY <1>1, <2>2, <2>3, <2>4, <2>5 DEF TypeOK
<1>4. SentOK
  BY <1>2, FS_EmptySet DEF SentOK
<1>5. CallOK
  BY IdleIs DEF Init, CallOK
<1>6. KeysOK /\ LastSentOK /\ WindowOK /\ LimboOK /\ TimerArmed
  BY <1>1, <1>2 DEF Init, KeysOK, LastSentOK, WindowOK, LimboOK, TimerArmed
<1>7. GoneIsOlder
  BY <1>2 DEF GoneIsOlder, None
<1>8. InFlightExact
  <2>1. InFlight(sent[App]) = {}
    BY <1>2 DEF InFlight
  <2> QED BY <1>1, <2>1, NoBytes DEF InFlightExact
<1> QED BY <1>3, <1>4, <1>5, <1>6, <1>7, <1>8 DEF IInv

LEMMA Step == IInv /\ [Next]_vars => IInv' /\ CutOnce
<1> SUFFICES ASSUME IInv, [Next]_vars PROVE IInv' /\ CutOnce
  OBVIOUS
<1>1. ASSUME NEW e \in Epochs, NEW p \in NewPackets(e), SendPacket(e, p)  PROVE IInv' /\ CutOnce
  BY <1>1, StepSendPacket
<1>2. ASSUME NEW e \in Epochs, SendNothing(e)  PROVE IInv' /\ CutOnce
  BY <1>2, StepSendNothing
<1>3. ASSUME NEW e \in Epochs, NEW pns \in SUBSET (0 .. next_pkt_num[e] - 1), RecvAck(e, pns)
      PROVE  IInv' /\ CutOnce
  BY <1>3, StepRecvAck
<1>4. CASE OnPacketAcked
  BY <1>4, StepOnPacketAcked
<1>5. ASSUME NEW d \in LossDelays, AckDone(d)  PROVE IInv' /\ CutOnce
  BY <1>5, StepAckDone
<1>6. ASSUME NEW d \in LossDelays, LossTimeout(d)  PROVE IInv' /\ CutOnce
  BY <1>6, StepLossTimeout
<1>7. CASE ProbeTimeout
  BY <1>7, StepProbeTimeout
<1>8. CASE RecvHandshakePacket
  BY <1>8, StepRecvHandshakePacket
<1>9. CASE RecvHandshakeDone
  BY <1>9, StepRecvHandshakeDone
<1>10. CASE RecvRetry
  BY <1>10, StepRecvRetry
<1>11. CASE DoHandshake
  BY <1>11, StepDoHandshake
<1>12. CASE Tick
  BY <1>12, StepTick
<1>13. CASE UNCHANGED vars
  BY <1>13, StepStutter
<1> QED BY <1>1, <1>2, <1>3, <1>4, <1>5, <1>6, <1>7, <1>8, <1>9, <1>10, <1>11, <1>12, <1>13 DEF Next

\* IInv is inductive.
LEMMA Invariant == Spec => []IInv
BY Initially, Step, PTL DEF Spec

\* Every variable keeps the type of the field it stands for: the windows and
\* bytes_in_flight, which Reno decreases unchecked, never go below zero.
THEOREM TypeCorrect == Spec => []TypeOK
<1>1. IInv => TypeOK
  BY DEF IInv
<1> QED BY <1>1, Invariant, PTL

\* bytes_in_flight is the size of the application packets in flight, whatever
\* acknowledgements, losses, FEC recoveries and dropped keys cross.
THEOREM InFlightCorrect == Spec => []InFlightExact
<1>1. IInv => InFlightExact
  BY DEF IInv
<1> QED BY <1>1, Invariant, PTL

\* The loss detection timer is set while an application packet awaits its ACK.
THEOREM TimerCorrect == Spec => []TimerArmed
<1>1. IInv => TimerArmed
  BY DEF IInv
<1> QED BY <1>1, Invariant, PTL

\* Between calls, a packet older than an acknowledged one has a loss time, and
\* the timer goes off no later.
THEOREM LimboCorrect == Spec => []NoLimbo
<1>1. ASSUME IInv PROVE NoLimbo
  <2> SUFFICES ASSUME ~call.busy, NEW e \in Epochs, NEW p \in sent[e], p.pn <= largest_acked_pkt[e]
               PROVE  loss_time[e] # None /\ timer # None /\ timer <= loss_time[e]
    BY DEF NoLimbo
  <2> QED BY <1>1 DEF IInv, LimboOK, Armed, Settling
<1> QED BY <1>1, Invariant, PTL

\* The window is cut only for the loss of a packet sent after the last cut.
THEOREM CutCorrect == Spec => CutOncePerFlight
<1>1. IInv /\ [Next]_vars =>
        [cc'.cwnd < cc.cwnd =>
           \E e \in Epochs : \E p \in sent[e] :
             /\ p \notin sent'[e]
             /\ cc.recovery_start = None \/ p.time > cc.recovery_start]_vars
  BY Step DEF CutOnce
<1> QED BY <1>1, Invariant, PTL DEF Spec, CutOncePerFlight

=============================================================================
