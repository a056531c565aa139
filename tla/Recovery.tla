------------------------------ MODULE Recovery ------------------------------
(***************************************************************************)
(* Loss recovery (src/src/recovery.rs) driven by the calls the connection  *)
(* (src/src/lib.rs) makes of it: packets of three packet number spaces are *)
(* sent, acknowledged, recovered by FEC, declared lost by the packet or    *)
(* the time threshold, probed for after a timeout, and thrown away when    *)
(* the keys of a space are dropped.                                        *)
(*                                                                         *)
(* Durations are data here: the RTT estimator only yields the delay after  *)
(* which a packet is lost and the one after which it is probed, so both    *)
(* are drawn from LossDelays and Ptos whenever the code computes them.     *)
(* Frames are data too: the frames of packet pn move together, and pn      *)
(* names them.  on_ack_received takes one step per packet it acknowledges, *)
(* during which nothing else runs; every other call is one step.           *)
(***************************************************************************)
EXTENDS Reno, FiniteSets, FiniteSetsExt, PacketBytes

CONSTANTS PacketThreshold,  \* recovery.rs PACKET_THRESHOLD
          LossDelays,       \* possible values of loss_delay
          Ptos,             \* possible values of the probe timeout
          Sizes,            \* sizes of ack-eliciting packets
          AppSlack,         \* room that makes the sender application limited
          FecM, FecN,       \* data and repair packets of the FEC group
          MaxInitialPn, MaxHandshakePn, MaxAppPn,  \* packets sent per space
          MaxNow            \* bound of the clock

Initial   == 0   \* packet::EPOCH_INITIAL
Handshake == 1   \* packet::EPOCH_HANDSHAKE
App       == 2   \* packet::EPOCH_APPLICATION
Epochs    == {Initial, Handshake, App}

\* Delays are positive, packets have a size, a group has data packets.
ASSUME RecoveryAssumption ==
  /\ PacketThreshold \in Nat \ {0} /\ MaxNow \in Nat
  /\ LossDelays \subseteq Nat \ {0} /\ Ptos \subseteq Nat \ {0}
  /\ Sizes \subseteq Nat \ {0} /\ AppSlack \in Nat
  /\ FecM \in Nat \ {0} /\ FecN \in Nat
  /\ {MaxInitialPn, MaxHandshakePn, MaxAppPn} \subseteq Nat

VARIABLES
  is_server, established,
  keys,          \* keys[e]: "none" yet, "live", or "dropped"
  did_retry,     \* a Retry or Version Negotiation was processed
  now,
  next_pkt_num,  \* [epoch -> next packet number]
  sent,          \* [epoch -> set of the packets in Recovery.sent]
  largest_acked_pkt, loss_time,
  last_sent,     \* time_of_last_sent_ack_eliciting_pkt
  timer,         \* loss_detection_timer
  loss_probes,
  cc, app_limited,
  fec,           \* the packet numbers of the FEC group: sent and acked
  pending,       \* pending[e]: lost[e] holds frames send() has not drained
  acked, lost,   \* [epoch -> packets whose frames were ever put there]
  discarded,     \* [epoch -> packets whose frames were thrown away]
  call           \* on_ack_received under way: [e, todo, newly], or Idle

conn == <<is_server, established, keys, did_retry>>
frames == <<acked, lost, discarded, pending>>
timers == <<loss_time, last_sent, timer, loss_probes>>
vars == <<conn, now, next_pkt_num, sent, largest_acked_pkt, timers, cc,
          app_limited, fec, frames, call>>

Idle == [e |-> App, todo |-> {}, newly |-> FALSE, busy |-> FALSE]

Time == Nat \cup {None}

Packet == [pn : Nat, time : Nat, size : Nat, ack_eliciting : BOOLEAN,
           in_flight : BOOLEAN, group : BOOLEAN, frames : BOOLEAN]

-----------------------------------------------------------------------------
\* earliest_loss_time: the application space counts once the handshake is
\* complete; ties go to the earlier space, and no time at all to INITIAL.
Considered == {e \in Epochs : e # App \/ established}

EarliestTime(times) ==
  LET set == {times[e] : e \in Considered} \ {None}
  IN  IF set = {} THEN None ELSE Min(set)

EarliestEpoch(times) ==
  IF EarliestTime(times) = None
  THEN Initial
  ELSE Min({e \in Considered : times[e] = EarliestTime(times)})

\* pto(), of whatever RTT update_rtt has estimated: the times at which a packet
\* sent at t may be probed for.
ProbeTimes(t) == {t + p : p \in Ptos}

\* Mutant: bytes_in_flight is looked at before the loss times.
TimerValues_FlightFirst(lt, c, ls) ==
  IF c.bytes_in_flight = 0 THEN {None}
  ELSE IF EarliestTime(lt) # None THEN {EarliestTime(lt)}
  ELSE IF EarliestTime(ls) = None THEN {timer}
  ELSE ProbeTimes(EarliestTime(ls))

\* set_loss_detection_timer: the values it may leave the timer with.
TimerValues(lt, c, ls) ==
  IF EarliestTime(lt) # None THEN {EarliestTime(lt)}
  ELSE IF c.bytes_in_flight = 0 THEN {None}
  ELSE IF EarliestTime(ls) = None THEN {timer}
  ELSE ProbeTimes(EarliestTime(ls))

InFlight(ps) == {p \in ps : p.in_flight}

Pns(ps) == {p.pn : p \in ps}

MaxPn(e) == CASE e = Initial -> MaxInitialPn [] e = Handshake -> MaxHandshakePn
              [] e = App -> MaxAppPn

\* cwnd_available: probes ignore the window.
Fits(size) == size <= CwndLeft(cc) \/ \E e \in Epochs : loss_probes[e] > 0

\* write_epoch: retransmissions and probes of an earlier space go first.
Urgent(e) == pending[e] \/ loss_probes[e] > 0

MayWrite(e) == \A f \in Epochs : f < e => ~Urgent(f)

\* f with the value of every epoch in D replaced.
Reset(f, D, value) == [e \in Epochs |-> IF e \in D THEN value ELSE f[e]]

\* The packets of ps whose frames have not been handed on.
Carrying(ps) == {p.pn : p \in {q \in ps : q.frames}}

\* The end of a call: on_packets_lost takes the packets gone out of space e,
\* retransmits the frames of those in flight and forgets the others (ACKs);
\* drop_unacked_data then clears the spaces D.
Settle(e, gone, D, snt, lt, ls) ==
  /\ sent' = Reset([snt EXCEPT ![e] = @ \ gone], D, {})
  /\ loss_time' = Reset(lt, D, None)
  /\ last_sent' = Reset(ls, D, None)
  /\ lost' = [lost EXCEPT ![e] = @ \cup Carrying(InFlight(gone))]
  /\ discarded' = [f \in Epochs |->
       discarded[f]
         \cup (IF f = e THEN Carrying(gone \ InFlight(gone)) ELSE {})
         \cup (IF f \in D THEN Carrying(snt[f]) ELSE {})]

\* drop_epoch_state does nothing once the keys are gone.
Droppable(e) == IF keys[e] = "live" THEN {e} ELSE {}

-----------------------------------------------------------------------------
Init ==
  /\ is_server \in BOOLEAN /\ established = FALSE /\ did_retry = FALSE
  /\ keys = [e \in Epochs |-> IF e = Initial THEN "live" ELSE "none"]
  /\ now = 0
  /\ next_pkt_num = [e \in Epochs |-> 0]
  /\ sent = [e \in Epochs |-> {}]
  /\ largest_acked_pkt = [e \in Epochs |-> None]
  /\ loss_time = [e \in Epochs |-> None]
  /\ last_sent = [e \in Epochs |-> None]
  /\ timer = None
  /\ loss_probes = [e \in Epochs |-> 0]
  /\ cc = RenoInit /\ app_limited = FALSE
  /\ fec = [sent |-> {}, acked |-> {}]
  /\ pending = [e \in Epochs |-> FALSE]
  /\ acked = [e \in Epochs |-> {}]
  /\ lost = [e \in Epochs |-> {}]
  /\ discarded = [e \in Epochs |-> {}]
  /\ call = Idle

\* The packets send() can build in space e: an ACK alone weighs nothing and is
\* in flight only when padded, as the client's Initial packets always are.
NewPackets(e) ==
  {p \in [pn : {next_pkt_num[e]}, time : {now}, size : Sizes \cup {0},
          ack_eliciting : BOOLEAN, in_flight : BOOLEAN, group : BOOLEAN,
          frames : {TRUE}] :
     /\ p.ack_eliciting <=> p.size > 0
     /\ p.ack_eliciting \/ p.group => p.in_flight
     /\ e = Initial /\ ~is_server => p.in_flight
     /\ p.group => e = App /\ Cardinality(fec.sent) < FecM + FecN
     /\ loss_probes[e] > 0 => p.ack_eliciting}

\* The congestion controller is told of application packets only.
CCAfterSend(e, p) ==
  IF p.in_flight /\ e = App THEN OnPacketSentCC(cc, p.size) ELSE cc

\* Mutant: the timer is set before the congestion controller is told.
TimerAfterSend_Early(e, p, ls) ==
  IF p.in_flight THEN TimerValues(loss_time, cc, ls) ELSE {timer}

\* set_loss_detection_timer, called by on_packet_sent for in-flight packets.
TimerAfterSend(e, p, ls) ==
  IF p.in_flight THEN TimerValues(loss_time, CCAfterSend(e, p), ls)
  ELSE {timer}

\* A packet of space e may be built: it has keys, and no earlier space needs one.
MaySend(e) ==
  ~call.busy /\ keys[e] = "live" /\ MayWrite(e) /\ next_pkt_num[e] < MaxPn(e)

\* send(): one packet of space e, from the lost frames it drains first to
\* on_packet_sent and, on the client, the end of the Initial keys.
SendPacket(e, p) ==
  LET ls == IF p.ack_eliciting THEN [last_sent EXCEPT ![e] = now] ELSE last_sent
      drop == IF ~is_server /\ e = Handshake THEN Droppable(Initial) ELSE {}
  IN  /\ MaySend(e) /\ Fits(p.size + 1)
      /\ next_pkt_num' = [next_pkt_num EXCEPT ![e] = @ + 1]
      /\ fec' = IF p.group THEN [fec EXCEPT !.sent = @ \cup {p.pn}] ELSE fec
      /\ app_limited' = IF p.in_flight
                        THEN cc.bytes_in_flight + p.size + AppSlack < cc.cwnd
                        ELSE app_limited
      /\ cc' = CCAfterSend(e, p)
      /\ timer' \in TimerAfterSend(e, p, ls)
      /\ Settle(e, {}, drop, [sent EXCEPT ![e] = @ \cup {p}], loss_time, ls)
      /\ keys' = Reset(keys, drop, "dropped")
      /\ loss_probes' =
           Reset([loss_probes EXCEPT
                    ![e] = IF p.ack_eliciting /\ @ > 0 THEN @ - 1 ELSE @],
                 drop, 0)
      /\ pending' = Reset(pending, drop \cup {e}, FALSE)
      /\ UNCHANGED <<is_server, established, did_retry, now,
                     largest_acked_pkt, acked, call>>

\* send() drains the lost frames before it finds that there is no packet to
\* build: no room, no keys, or nothing left to retransmit.
SendNothing(e) ==
  /\ ~call.busy /\ MayWrite(e) /\ pending[e]
  /\ pending' = [pending EXCEPT ![e] = FALSE]
  /\ UNCHANGED <<conn, now, next_pkt_num, sent, largest_acked_pkt, timers, cc,
                 app_limited, fec, acked, lost, discarded, call>>

-----------------------------------------------------------------------------
\* detect_lost_packets: the packets of snt it takes away.
LostPackets(e, d, snt, largest) ==
  {p \in snt : /\ p.pn <= largest
               /\ \/ p.time <= now - d
                  \/ largest >= p.pn + PacketThreshold}

\* ... and the time at which it will have to look again.
NextLossTime(d, left, largest) ==
  LET waiting == {p.time + d : p \in {q \in left : q.pn <= largest}}
  IN  IF waiting = {} THEN None ELSE Min(waiting)

\* Mutant: lost packets stay in bytes_in_flight.
CCAfterLoss_Kept(e, gone) ==
  LET flying == InFlight(gone)
      last == CHOOSE p \in flying : \A q \in flying : q.pn <= p.pn
  IN  IF flying = {} THEN cc ELSE CongestionEvent(cc, last.time, now)

\* on_packets_lost: what the congestion controller is told.
CCAfterLoss(e, gone) ==
  LET flying == InFlight(gone)
      last == CHOOSE p \in flying : \A q \in flying : q.pn <= p.pn
      c == IF e = App THEN DecreaseBytesInFlight(cc, SizeOf(flying)) ELSE cc
  IN  IF flying = {} THEN cc ELSE CongestionEvent(c, last.time, now)

\* lost[e] after it.
PendingAfterLoss(e, gone) ==
  [pending EXCEPT ![e] = @ \/ Carrying(InFlight(gone)) # {}]

\* An ACK frame arrives for packets the peer received; on_ack_received starts.
RecvAck(e, pns) ==
  /\ ~call.busy /\ keys[e] = "live" /\ pns # {}
  /\ largest_acked_pkt' = [largest_acked_pkt EXCEPT ![e] = Max({@, Max(pns)})]
  /\ call' = [e |-> e, todo |-> pns \cap Pns(sent[e]), newly |-> FALSE,
              busy |-> TRUE]
  /\ UNCHANGED <<conn, now, next_pkt_num, sent, timers, cc, app_limited, fec,
                 frames>>

\* get_recovered_pns and on_packet_recovered: with FecM packets of the group
\* acknowledged, the frames of its other packets count as delivered.
Recovered(p, snt) ==
  LET all == fec.acked \cup {p.pn}
  IN  IF p.group /\ Cardinality(all) >= FecM
      THEN {q \in snt : q.pn \in fec.sent \ all /\ q.frames}
      ELSE {}

\* Mutant: the frames are copied, not taken.
Emptied_Copied(snt, rec) == snt

\* on_packet_recovered takes the frames out of the packet.
Emptied(snt, rec) ==
  (snt \ rec) \cup {[q EXCEPT !.frames = FALSE] : q \in rec}

\* Mutant: every space is told to the congestion controller.
CCAfterAck_All(e, p) ==
  IF p.in_flight THEN OnPacketAckedCC(cc, p.size, p.time, app_limited) ELSE cc

CCAfterAck(e, p) ==
  IF p.in_flight /\ e = App
  THEN OnPacketAckedCC(cc, p.size, p.time, app_limited) ELSE cc

\* on_packet_acked, for the largest packet number not yet looked at.
OnPacketAcked ==
  LET e == call.e
      p == CHOOSE q \in sent[e] : q.pn = Max(call.todo)
      rest == [sent EXCEPT ![e] = @ \ {p}]
      rec == Recovered(p, rest[App])
  IN  /\ call.todo # {}
      /\ call' = [call EXCEPT !.todo = @ \ {p.pn}, !.newly = TRUE]
      /\ sent' = [rest EXCEPT ![App] = Emptied(@, rec)]
      /\ acked' = [f \in Epochs |->
                     acked[f] \cup (IF f = e THEN Carrying({p}) ELSE {})
                              \cup (IF f = App THEN Pns(rec) ELSE {})]
      /\ fec' = IF p.group THEN [fec EXCEPT !.acked = @ \cup {p.pn}] ELSE fec
      /\ cc' = CCAfterAck(e, p)
      /\ UNCHANGED <<conn, now, next_pkt_num, largest_acked_pkt, timers,
                     app_limited, lost, discarded, pending>>

\* The rest of on_ack_received, and of process_frame: an ACK of an application
\* packet confirms the handshake, whose keys are dropped.
AckDone(d) ==
  LET e == call.e
      largest == largest_acked_pkt[e]
      drop == IF e = App THEN Droppable(Handshake) ELSE {}
      gone == IF call.newly THEN LostPackets(e, d, sent[e], largest) ELSE {}
      lt == IF call.newly
            THEN [loss_time EXCEPT
                    ![e] = NextLossTime(d, sent[e] \ gone, largest)]
            ELSE loss_time
      c == CCAfterLoss(e, gone)
  IN  /\ call.busy /\ call.todo = {}
      /\ call' = Idle
      /\ cc' = c
      /\ timer' \in IF call.newly THEN TimerValues(lt, c, last_sent) ELSE {timer}
      /\ Settle(e, gone, drop, sent, lt, last_sent)
      /\ pending' = Reset(PendingAfterLoss(e, gone), drop, FALSE)
      /\ loss_probes' = Reset(loss_probes, drop, 0)
      /\ keys' = Reset(keys, drop, "dropped")
      /\ UNCHANGED <<is_server, established, did_retry, now, next_pkt_num,
                     largest_acked_pkt, app_limited, fec, acked>>

-----------------------------------------------------------------------------
Expired == ~call.busy /\ timer # None /\ timer <= now

\* on_loss_detection_timeout, when a packet waits for its time threshold.
LossTimeout(d) ==
  LET e == EarliestEpoch(loss_time)
      largest == largest_acked_pkt[e]
      gone == LostPackets(e, d, sent[e], largest)
      lt == [loss_time EXCEPT ![e] = NextLossTime(d, sent[e] \ gone, largest)]
      c == CCAfterLoss(e, gone)
  IN  /\ Expired /\ EarliestTime(loss_time) # None
      /\ cc' = c
      /\ timer' \in TimerValues(lt, c, last_sent)
      /\ Settle(e, gone, {}, sent, lt, last_sent)
      /\ pending' = PendingAfterLoss(e, gone)
      /\ UNCHANGED <<conn, now, next_pkt_num, largest_acked_pkt, loss_probes,
                     app_limited, fec, acked, call>>

\* on_loss_detection_timeout, when none does: two probes.
ProbeTimeout ==
  LET e == EarliestEpoch(last_sent)
  IN  /\ Expired /\ EarliestTime(loss_time) = None
      /\ loss_probes' = [loss_probes EXCEPT ![e] = 2]
      /\ timer' \in TimerValues(loss_time, cc, last_sent)
      /\ UNCHANGED <<conn, now, next_pkt_num, sent, largest_acked_pkt,
                     loss_time, last_sent, cc, app_limited, fec, frames, call>>

-----------------------------------------------------------------------------
\* drop_unacked_data of the spaces D, which leaves the timer alone.
DropUnackedData(D) ==
  /\ ~call.busy
  /\ Settle(App, {}, D, sent, loss_time, last_sent)
  /\ pending' = Reset(pending, D, FALSE)
  /\ loss_probes' = Reset(loss_probes, D, 0)
  /\ UNCHANGED <<is_server, established, now, next_pkt_num, largest_acked_pkt,
                 timer, cc, app_limited, fec, acked, call>>

\* The server processed a Handshake packet of the client.
RecvHandshakePacket ==
  /\ is_server /\ keys[Handshake] = "live"
  /\ DropUnackedData(Droppable(Initial))
  /\ keys' = Reset(keys, Droppable(Initial), "dropped")
  /\ UNCHANGED did_retry

\* The client received HANDSHAKE_DONE.
RecvHandshakeDone ==
  /\ ~is_server /\ established
  /\ DropUnackedData(Droppable(Handshake))
  /\ keys' = Reset(keys, Droppable(Handshake), "dropped")
  /\ UNCHANGED did_retry

\* The client received Retry or Version Negotiation, which a server sends
\* before it has taken part in the handshake: it starts again.
RecvRetry ==
  /\ ~is_server /\ ~did_retry /\ keys[Handshake] = "none"
  /\ DropUnackedData({Initial})
  /\ did_retry' = TRUE
  /\ UNCHANGED keys

\* TLS makes Handshake keys available, then completes the handshake.
DoHandshake ==
  /\ ~call.busy /\ ~established
  /\ IF keys[Handshake] = "none"
     THEN /\ keys' = [keys EXCEPT ![Handshake] = "live"]
          /\ UNCHANGED established
     ELSE /\ keys' = [keys EXCEPT ![App] = "live"]
          /\ established' = TRUE
  /\ UNCHANGED <<is_server, did_retry, now, next_pkt_num, sent,
                 largest_acked_pkt, timers, cc, app_limited, fec, frames, call>>

Tick ==
  /\ ~call.busy /\ now < MaxNow
  /\ now' = now + 1
  /\ UNCHANGED <<conn, next_pkt_num, sent, largest_acked_pkt, timers, cc,
                 app_limited, fec, frames, call>>

Next ==
  \/ \E e \in {f \in Epochs : MaySend(f)} : \E p \in NewPackets(e) : SendPacket(e, p)
  \/ \E e \in Epochs : SendNothing(e)
  \/ \E e \in Epochs : \E pns \in SUBSET (0 .. next_pkt_num[e] - 1) : RecvAck(e, pns)
  \/ OnPacketAcked
  \/ \E d \in LossDelays : AckDone(d)
  \/ \E d \in LossDelays : LossTimeout(d)
  \/ ProbeTimeout
  \/ RecvHandshakePacket
  \/ RecvHandshakeDone
  \/ RecvRetry
  \/ DoHandshake
  \/ Tick

Spec == Init /\ [][Next]_vars

-----------------------------------------------------------------------------
PerEpoch(S) == [Epochs -> S]

\* Every variable has the type of the field it stands for; bytes_in_flight,
\* which Reno decreases unchecked on ACK, never goes below zero.
TypeOK ==
  /\ is_server \in BOOLEAN /\ established \in BOOLEAN /\ did_retry \in BOOLEAN
  /\ keys \in PerEpoch({"none", "live", "dropped"})
  /\ now \in Nat /\ next_pkt_num \in PerEpoch(Nat)
  /\ sent \in PerEpoch(SUBSET Packet)
  /\ largest_acked_pkt \in PerEpoch(Time)
  /\ loss_time \in PerEpoch(Time) /\ last_sent \in PerEpoch(Time)
  /\ timer \in Time /\ loss_probes \in PerEpoch(0 .. 2)
  /\ cc \in RenoState /\ app_limited \in BOOLEAN
  /\ fec \in [sent : SUBSET Nat, acked : SUBSET Nat] /\ fec.acked \subseteq fec.sent
  /\ pending \in PerEpoch(BOOLEAN)
  /\ acked \in PerEpoch(SUBSET Nat) /\ lost \in PerEpoch(SUBSET Nat)
  /\ discarded \in PerEpoch(SUBSET Nat)
  /\ call \in [e : Epochs, todo : SUBSET Nat, newly : BOOLEAN, busy : BOOLEAN]

\* bytes_in_flight is the size of the application packets in flight: it neither
\* wraps (Reno subtracts unchecked on ACK) nor drifts (it saturates on loss),
\* whatever ACKs, losses and FEC recoveries cross.
InFlightExact == cc.bytes_in_flight = SizeOf(InFlight(sent[App]))

\* The frames of every packet sent are in one place: waiting in sent, delivered
\* (acked or recovered by FEC), queued for retransmission, or forgotten with an
\* ACK-only packet or the keys of their space.
FramesOnce ==
  \A e \in Epochs :
    LET flying == Carrying(sent[e])
    IN  /\ flying \cup acked[e] \cup lost[e] \cup discarded[e]
             = 0 .. next_pkt_num[e] - 1
        /\ Cardinality(flying) + Cardinality(acked[e]) + Cardinality(lost[e])
             + Cardinality(discarded[e]) = next_pkt_num[e]

\* While an application packet awaits its ACK the loss detection timer is set,
\* so a tail loss is always probed for.
TimerArmed ==
  (\E p \in sent[App] : p.ack_eliciting) => timer # None

\* A packet older than an acknowledged one is not left in limbo: a loss time
\* is set for its space and the timer goes off no later than that.
NoLimbo ==
  ~call.busy =>
    \A e \in Epochs : \A p \in sent[e] :
      p.pn <= largest_acked_pkt[e] =>
        /\ loss_time[e] # None
        /\ timer # None /\ timer <= loss_time[e]

\* The window is cut once per round trip: only the loss of a packet sent after
\* the last cut cuts it again.
CutOncePerFlight ==
  [][cc'.cwnd < cc.cwnd =>
       \E e \in Epochs : \E p \in sent[e] :
         /\ p \notin sent'[e]
         /\ cc.recovery_start = None \/ p.time > cc.recovery_start]_vars

\* lib.rs:4642, "Drops the keys and recovery state for the given epoch.": a
\* space without keys has no recovery state and asks for no packet.
DroppedEpochSilent ==
  \A e \in Epochs :
    keys[e] = "dropped" =>
      sent[e] = {} /\ loss_time[e] = None /\ ~Urgent(e)

=============================================================================
