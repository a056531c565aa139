------------------------------ MODULE Congestion ------------------------------
(***************************************************************************)
(* Loss recovery (src/src/recovery.rs) driving CUBIC, BBR or the external  *)
(* solution through the trait CongestionControl.  Recovery models recovery *)
(* itself, with Reno; here only what the controllers see of it is kept: the *)
(* packets in flight of the application space, one step per acknowledged   *)
(* packet between begin_ack and end_ack, and the losses found afterwards.  *)
(* The network acknowledges any packets; it is slower than the clock, so   *)
(* every round trip takes at least one tick.                               *)
(***************************************************************************)
EXTENDS Cubic, BBR, CcTrigger, PacketBytes, FiniteSetsExt

CONSTANTS Algorithms,   \* of "cubic", "bbr" and "cc_trigger"
          Sizes,        \* sizes of packets, for each algorithm
          AppSlack,     \* 1350 in on_packet_sent
          Answers,      \* windows the external solution may choose
          MaxPn,        \* bound: packets sent
          MaxNow        \* bound: ticks

\* Packets have sizes, and the solution answers with a window.
ASSUME CongestionAssumption ==
  /\ Algorithms \subseteq {"cubic", "bbr", "cc_trigger"}
  /\ \A a \in Algorithms : Sizes[a] \subseteq Nat \ {0} /\ IsFiniteSet(Sizes[a])
  /\ {AppSlack, MaxPn, MaxNow} \cup Answers \subseteq Nat

VARIABLES
  alg,          \* the algorithm of this connection
  now,
  cc,           \* the controller's state
  sent,         \* Recovery.sent[EPOCH_APPLICATION]
  next_pn,
  acking,       \* packets of the ACK that on_packet_acked has not seen yet
  any_acked,    \* has_newly_acked
  in_call,      \* on_ack_received runs
  largest,      \* largest_acked_pkt
  lost_count,
  app_limited,
  events,       \* what the controller was told, in order (ghost)
  last_cut      \* when the window was last cut and not restored (ghost)

vars == <<alg, now, cc, sent, next_pn, acking, any_acked, in_call, largest,
          lost_count, app_limited, events, last_cut>>

Window ==
  IF alg = "bbr" THEN BBRCwnd(cc) ELSE cc.cwnd

\* new_congestion_control
Fresh ==
  CASE alg = "cubic" -> CubicInit
    [] alg = "bbr" -> BBRInit
    [] alg = "cc_trigger" -> TriggerInit

Init ==
  /\ alg \in Algorithms
  /\ now = 0 /\ cc = Fresh /\ sent = {} /\ next_pn = 1
  /\ acking = {} /\ any_acked = FALSE /\ in_call = FALSE
  /\ largest = 0 /\ lost_count = 0 /\ app_limited = FALSE /\ events = <<>>
  /\ last_cut = None

-----------------------------------------------------------------------------
\* on_packet_sent: probes and ACK-only packets are not held back by the
\* window, so nothing is assumed of it.
SendPacket(size) ==
  LET p == [pn |-> next_pn, time |-> now, size |-> size]
  IN  /\ ~in_call /\ next_pn <= MaxPn
      /\ next_pn' = next_pn + 1 /\ sent' = sent \cup {p}
      /\ app_limited' = (cc.bytes_in_flight + size + AppSlack < Window)
      /\ cc' = CASE alg = "cubic" -> CubicSent(cc, size, now)
                 [] alg = "bbr" -> BBRSent(cc, p.pn, size, now)
                 [] alg = "cc_trigger" -> TriggerSent(cc, size)
      /\ UNCHANGED <<alg, now, acking, any_acked, in_call, largest, lost_count, events, last_cut>>

\* on_ack_received: begin_ack, and the packets newly acknowledged.  With
\* none the ACK repeats old numbers.
RecvAck(pkts) ==
  /\ ~in_call
  /\ \A p \in pkts : p.time < now
  /\ pkts = {} => largest > 0
  /\ in_call' = TRUE /\ any_acked' = FALSE
  /\ acking' = pkts
  /\ largest' = Max({p.pn : p \in pkts} \cup {largest})
  /\ cc' = IF alg = "bbr" THEN BBRBeginAck(cc, now) ELSE cc
  /\ UNCHANGED <<alg, now, sent, next_pn, lost_count, app_limited, events, last_cut>>

\* CUBIC takes back the window it had before the last cut.
Restored ==
  /\ alg = "cubic"
  /\ cc.cwnd < cc.prior.cwnd /\ cc'.cwnd = cc.prior.cwnd
  /\ cc'.ssthresh = cc.prior.ssthresh

\* The packet with the largest number
Newest(packets) == CHOOSE p \in packets : \A q \in packets : q.pn <= p.pn

\* on_packet_acked for the next packet, largest first.  inc is the step along
\* CUBIC's curve and early says that the thread just started has answered already.
AckPacket(inc, early) ==
  LET p == Newest(acking)
  IN  /\ in_call /\ acking # {}
      /\ acking' = acking \ {p} /\ any_acked' = TRUE
      /\ sent' = sent \ {p}
      /\ cc' = CASE alg = "cubic" ->
                      CubicAcked(cc, p.size, p.time, app_limited, lost_count, inc, now)
                 [] alg = "bbr" -> BBRAcked(cc, p.pn)
                 [] alg = "cc_trigger" -> TriggerAcked(cc, p.size, p.pn, early)
      /\ events' = Append(events, p.pn)
      /\ last_cut' = IF Restored THEN None ELSE last_cut
      /\ UNCHANGED <<alg, now, next_pn, in_call, largest, lost_count, app_limited>>

\* decrease_bytes_in_flight: BBR's does not saturate.
Decreased(c, size) ==
  [c EXCEPT !.bytes_in_flight = IF alg # "bbr" /\ @ < size THEN 0 ELSE @ - size]

\* congestion_event for the last of the lost packets p; BBR ignores it.
Event(c, p, lost, early) ==
  CASE alg = "cubic" -> CubicEvent(c, p.time, lost, now)
    [] alg = "bbr" -> c
    [] alg = "cc_trigger" -> CcTriggerCall(c, p.pn, early)

\* detect_lost_packets and on_packets_lost: sending times grow with packet
\* numbers, so a prefix of what is outstanding is lost.
Overtaken(bound) == {p \in sent : p.pn < largest /\ p.pn <= bound}

LosePackets(c, lost, early) ==
  LET last == Newest(lost)
      fewer == Decreased(c, SizeOf(lost))
  IN  IF lost = {}
      THEN /\ cc' = c /\ UNCHANGED <<sent, lost_count, events, last_cut>>
      ELSE /\ sent' = sent \ lost
           /\ lost_count' = lost_count + Cardinality(lost)
           /\ cc' = Event(fewer, last, lost_count', early)
           /\ events' = Append(events, last.pn)
           /\ last_cut' = IF alg = "cubic" /\ cc'.cwnd < c.cwnd THEN now ELSE last_cut

\* The end of on_ack_received: end_ack, and losses if anything was new.
EndAck(offset, bound, early) ==
  LET c == IF alg = "bbr" THEN BBREndAck(cc, offset) ELSE cc
  IN  /\ in_call /\ acking = {}
      /\ in_call' = FALSE
      /\ LosePackets(c, IF any_acked THEN Overtaken(bound) ELSE {}, early)
      /\ UNCHANGED <<alg, now, next_pn, acking, any_acked, largest, app_limited>>

\* on_loss_detection_timeout, when loss_time has passed.
LossTimeout(bound, early) ==
  /\ ~in_call /\ Overtaken(bound) # {}
  /\ LosePackets(cc, Overtaken(bound), early)
  /\ UNCHANGED <<alg, now, next_pn, acking, any_acked, in_call, largest, app_limited>>

\* A thread of the pool ends, at any moment.
ThreadEnds(window) ==
  /\ alg = "cc_trigger"
  /\ \E i \in DOMAIN cc.jobs : cc' = JobDone(cc, i, window)
  /\ UNCHANGED <<alg, now, sent, next_pn, acking, any_acked, in_call, largest,
                 lost_count, app_limited, events, last_cut>>

Tick ==
  /\ ~in_call /\ now < MaxNow
  /\ now' = now + 1
  /\ UNCHANGED <<alg, cc, sent, next_pn, acking, any_acked, in_call, largest,
                 lost_count, app_limited, events, last_cut>>

\* The choices of one algorithm are fixed for the others.
Incs == IF alg = "cubic" THEN 0 .. MaxIncrement ELSE {0}
Offsets == IF alg = "bbr" THEN ProbeOffsets ELSE {0}
Earlies == IF alg = "cc_trigger" THEN {None} \cup Answers ELSE {None}

Next ==
  \/ \E size \in Sizes[alg] : SendPacket(size)
  \/ \E pkts \in SUBSET sent : RecvAck(pkts)
  \/ \E inc \in Incs, early \in Earlies : AckPacket(inc, early)
  \/ \E offset \in Offsets, bound \in 0 .. MaxPn, early \in Earlies :
       EndAck(offset, bound, early)
  \/ \E bound \in 1 .. MaxPn, early \in Earlies : LossTimeout(bound, early)
  \/ \E window \in Answers : ThreadEnds(window)
  \/ Tick

Spec == Init /\ [][Next]_vars
-----------------------------------------------------------------------------
\* Every controller counts exactly the bytes recovery holds in sent, whatever
\* packets are acknowledged or lost in which order: recovery.rs decides how
\* much may be sent by cwnd() - bytes_in_flight(), and the counters of BBR and
\* cc_trigger do not saturate.
InFlightExact == cc.bytes_in_flight = SizeOf(sent)

\* No run of losses, restorations and estimates takes the window (or CUBIC's
\* threshold) below the floor, where nothing could be sent, nor BBR's above
\* its maximum (calculate_cwnd, congestion_event, rollback).
WindowInBounds ==
  /\ alg = "cubic" => /\ cc.cwnd >= MinimumWindow
                      /\ cc.ssthresh # Unlimited => cc.ssthresh >= MinimumWindow
  /\ alg = "bbr" => MinCwnd <= Window /\ Window <= MaxCwnd

\* CUBIC's window falls only for a loss, and for one sent after the last cut
\* that was not taken back; it rises by at most a packet or a datagram, or to
\* where it was before a cut after which few packets were lost.
CubicCuts ==
  [][alg = "cubic" =>
       /\ cc'.cwnd < cc.cwnd =>
            /\ lost_count' > lost_count
            /\ \E p \in sent \ sent' : last_cut = None \/ p.time > last_cut
       /\ cc'.cwnd > cc.cwnd + Max(Sizes[alg] \cup {MaxDatagram}) =>
            /\ last_cut # None /\ Restored
            /\ lost_count - cc.prior.lost_count < RestoreThreshold]_vars

Ordered(f) ==
  \A i \in 1 .. 2 : f[i].value >= f[i + 1].value /\ f[i].time <= f[i + 1].time

\* No assertion of bbr.rs fails; the filters hold their three best samples in
\* order; and mode, gains and the full bandwidth mark agree, through any
\* sequence of STARTUP, DRAIN, PROBE_BW and PROBE_RTT.
BBRConsistent ==
  alg = "bbr" =>
    /\ ~cc.failed /\ cc.in_ack = in_call
    /\ Ordered(cc.max_bandwidth) /\ Ordered(cc.max_ack_height)
    /\ cc.mode = "StartUp" => ~cc.full_bandwidth /\ cc.pacing_gain = HighGain
    /\ cc.mode \in {"Drain", "ProbeBw"} => cc.full_bandwidth
    /\ cc.mode = "ProbeBw" => cc.pacing_gain = PacingGain(cc.cycle)

\* The external solution never runs twice at once, and is told every
\* acknowledgement and loss once, in order (cc_trigger.rs: the channel holds
\* at most the answer of the one job).
OneSolutionCall ==
  alg = "cc_trigger" =>
    /\ Len(cc.jobs) + Len(cc.results) <= 1
    /\ cc.handed \o cc.infos = events

\* What cc_trigger.rs says of itself, "if there are no thread are running,
\* spawn a new thread": events never wait while no thread runs and no answer
\* is on its way.
SolutionConsulted ==
  alg = "cc_trigger" /\ cc.infos # <<>> => cc.jobs # <<>> \/ cc.results # <<>>
=============================================================================
