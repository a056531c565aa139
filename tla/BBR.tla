--------------------------------- MODULE BBR ---------------------------------
(***************************************************************************)
(* The BBR congestion controller (src/src/cc/bbr.rs) as operators on its   *)
(* state, the record b.                                                    *)
(*                                                                         *)
(* A bandwidth is a size times BwUnit over a duration, as the code's bits  *)
(* per second are bytes times 8000000 over microseconds; gains are in      *)
(* percent.  Left out, because nothing in the library can reach it:        *)
(*   - bbr_lost is called nowhere, so has_losses stays false and the       *)
(*     recovery state stays NOT_IN_RECOVERY;                               *)
(*   - bbr_begin_ack sets max_packno to u64::MAX, so that every ACK of a   *)
(*     new packet starts a round;                                          *)
(*   - on_packet_sent_cc passes app_limit = false, and the flags for       *)
(*     experiments (FLEXIBLE_APP_LIMITED, SLOWER_STARTUP, ...) are not set.*)
(***************************************************************************)
EXTENDS Minmax, SequencesExt

CONSTANTS BwUnit,          \* 8 * 1000_000
          BwWindow,        \* rounds the filters cover: 10
          InitCwnd, MinCwnd, MaxCwnd,
          MinRttExpiry,    \* kMinRttExpiry
          ProbeRttTime,    \* kProbeRttTime
          ProbeRttSlack,   \* kMaxOutgoingPacketSize
          DefaultRtt,      \* 25 ms
          ProbeOffsets,    \* phases enter_probe_bw_mode may draw
          StartupRounds    \* kRoundTripsWithoutGrowthBeforeExitingStartup

\* The windows are ordered and the phase of reduced gain is never drawn.
ASSUME BBRAssumption ==
  /\ {MinCwnd, InitCwnd, MaxCwnd, BwUnit, BwWindow, DefaultRtt, StartupRounds}
       \subseteq Nat \ {0}
  /\ MinCwnd <= InitCwnd /\ InitCwnd <= MaxCwnd
  /\ {MinRttExpiry, ProbeRttTime, ProbeRttSlack} \subseteq Nat
  /\ ProbeOffsets \subseteq (0 .. 7) \ {1}

Times(v, gain) == (v * gain) \div 100

HighGain == 288      \* kDefaultHighGain = 2.885
DrainGain == 34      \* 1.0 / kDefaultHighGain
ProbeBwGain == 200   \* kCwndGain

\* kPacingGain
PacingGain(offset) ==
  CASE offset = 0 -> 125 [] offset = 1 -> 75 [] OTHER -> 100

\* An instant before every other.
Never == -1

Infinite == 1000000  \* Bandwidth::bw_infinite

Bandwidth(size, delta) == (size * BwUnit) \div delta

NoAck == [time |-> 0, bytes |-> 0, in_flight |-> 0, acked_before |-> 0, samples |-> <<>>]

BBRInit ==
  [mode |-> "StartUp", bytes_in_flight |-> 0, round_count |-> 0,
   max_bandwidth |-> FilterReset(0, 0), max_ack_height |-> FilterReset(0, 0),
   epoch_bytes |-> 0, epoch_start |-> 0,
   min_rtt |-> 0, min_rtt_at |-> 0,
   cwnd |-> InitCwnd, cwnd_gain |-> HighGain,
   pacing_rate |-> 0, pacing_gain |-> HighGain,
   cycle |-> 0, cycle_start |-> 0,
   rounds_wo_gain |-> 0, bw_at_last_round |-> 0,
   exit_probe_rtt_at |-> Never, probe_rtt_round_passed |-> FALSE,
   in_ack |-> FALSE, last_app_limited |-> FALSE, has_non_app_limited |-> FALSE,
   full_bandwidth |-> FALSE,
   total_sent |-> 0, total_acked |-> 0,
   last_acked_total_sent |-> 0, last_acked_sent_time |-> 0, last_acked_time |-> 0,
   last_sent |-> 0, app_limited |-> FALSE, end_of_app_limited |-> 0,
   queue |-> {}, ack |-> NoAck, failed |-> FALSE]

MaxBandwidth(b) == b.max_bandwidth[1].value

MinRtt(b) == IF b.min_rtt > 0 THEN b.min_rtt ELSE DefaultRtt

\* get_target_cwnd
TargetCwnd(b, gain) ==
  LET bdp == Times(MaxBandwidth(b) * MinRtt(b), gain) \div BwUnit
      cwnd == IF bdp = 0 THEN Times(InitCwnd, gain) ELSE bdp
  IN  IF cwnd >= MinCwnd THEN cwnd ELSE MinCwnd

\* bbr_get_cwnd
BBRCwnd(b) == IF b.mode = "ProbeRtt" THEN MinCwnd ELSE b.cwnd

\* An assert! of the code.
Check(b, condition) == IF condition THEN b ELSE [b EXCEPT !.failed = TRUE]

\* lsquic_bw_sampler_app_limited
AppLimited(b) == [b EXCEPT !.app_limited = TRUE, !.end_of_app_limited = b.last_sent]

-----------------------------------------------------------------------------
\* on_packet_sent_cc, bbr_sent and lsquic_bw_sampler_packet_sent: the packet
\* remembers how much had been sent and acknowledged.
BBRSent(b, pn, size, now) ==
  LET total == b.total_sent + size
      first == b.bytes_in_flight = 0
      c == [b EXCEPT
              !.total_sent = total, !.last_sent = pn,
              !.bytes_in_flight = @ + size,
              !.last_acked_time = IF first THEN now ELSE @,
              !.last_acked_total_sent = IF first THEN total ELSE @,
              !.last_acked_sent_time = IF first THEN now ELSE @]
  IN  [c EXCEPT !.queue = @ \cup
        {[pn |-> pn, sent |-> now, size |-> size,
          total_sent |-> total, total_acked |-> c.total_acked,
          app_limited |-> c.app_limited,
          sent_at_last_ack |-> c.last_acked_total_sent,
          last_ack_sent_time |-> c.last_acked_sent_time,
          last_ack_time |-> c.last_acked_time]}]

\* bbr_begin_ack
BBRBeginAck(b, now) ==
  [Check(b, ~b.in_ack) EXCEPT
     !.in_ack = TRUE,
     !.ack = [NoAck EXCEPT !.time = now, !.in_flight = b.bytes_in_flight,
                           !.acked_before = b.total_acked]]

\* The sample lsquic_bw_sampler_packet_acked takes of packet p, if any: the
\* slower of the rates at which it was sent and acknowledged.
Samples(b, p) ==
  LET sent == p.sent - p.last_ack_sent_time
      send_rate == IF sent > 0 THEN Bandwidth(p.total_sent - p.sent_at_last_ack, sent)
                   ELSE Infinite
      acked == b.ack.time - p.last_ack_time
      ack_rate == Bandwidth(b.total_acked + p.size - p.total_acked, acked)
  IN  IF acked <= 0 THEN <<>>
      ELSE <<[bandwidth |-> IF send_rate < ack_rate THEN send_rate ELSE ack_rate,
              rtt |-> b.ack.time - p.sent, app_limited |-> p.app_limited]>>

\* on_packet_acked_cc, bbr_ack and lsquic_bw_sampler_packet_acked.
BBRAcked(b, pn) ==
  LET p == CHOOSE q \in b.queue : q.pn = pn
  IN  [Check(b, b.in_ack) EXCEPT
         !.bytes_in_flight = @ - p.size, !.queue = @ \ {p},
         !.total_acked = @ + p.size, !.last_acked_total_sent = p.total_sent,
         !.last_acked_sent_time = p.sent, !.last_acked_time = b.ack.time,
         !.app_limited = @ /\ pn <= b.end_of_app_limited,
         !.ack.samples = @ \o Samples(b, p), !.ack.bytes = @ + p.size]

-----------------------------------------------------------------------------
\* update_bandwidth_and_min_rtt, for one sample.
TakeSample(b, s) ==
  [b EXCEPT
     !.last_app_limited = s.app_limited,
     !.has_non_app_limited = @ \/ ~s.app_limited,
     !.max_bandwidth = IF ~s.app_limited \/ s.bandwidth > MaxBandwidth(b)
                       THEN RunningMax(@, BwWindow, b.round_count, s.bandwidth)
                       ELSE @]

SampleRtt(b) == Min({s.rtt : s \in Range(b.ack.samples)})

MinRttExpired(b) ==
  /\ b.ack.samples # <<>> /\ b.min_rtt # 0
  /\ b.ack.time > b.min_rtt_at + MinRttExpiry

UpdateMinRtt(b) ==
  IF /\ b.ack.samples # <<>>
     /\ MinRttExpired(b) \/ b.min_rtt = 0 \/ SampleRtt(b) < b.min_rtt
  THEN [b EXCEPT !.min_rtt = SampleRtt(b), !.min_rtt_at = b.ack.time]
  ELSE b

UpdateBandwidthAndMinRtt(b) ==
  UpdateMinRtt(FoldLeft(TakeSample, b, b.ack.samples))

\* update_ack_aggregation_bytes: the expectation is the estimate, per second,
\* times microseconds.
UpdateAckAggregation(b, bytes) ==
  LET expected == MaxBandwidth(b) * (b.ack.time - b.epoch_start)
  IN  IF b.epoch_bytes <= expected
      THEN [b EXCEPT !.epoch_bytes = bytes, !.epoch_start = b.ack.time]
      ELSE [b EXCEPT !.epoch_bytes = @ + bytes,
                     !.max_ack_height =
                        RunningMax(@, BwWindow, b.round_count,
                                   b.epoch_bytes + bytes - expected)]

\* update_gain_cycle_phase
UpdateGainCyclePhase(b) ==
  LET probing == b.pacing_gain > 100 /\ b.ack.in_flight < TargetCwnd(b, b.pacing_gain)
      drained == b.pacing_gain < 100 /\ b.bytes_in_flight <= TargetCwnd(b, 100)
      advance == drained \/ (b.ack.time - b.cycle_start > MinRtt(b) /\ ~probing)
      next == (b.cycle + 1) % 8
  IN  IF b.mode = "ProbeBw" /\ advance
      THEN [b EXCEPT !.cycle = next, !.cycle_start = b.ack.time,
                     !.pacing_gain = PacingGain(next)]
      ELSE b

\* check_if_full_bw_reached: a round that gained counts as well.
CheckIfFullBwReached(b) ==
  LET gained == MaxBandwidth(b) >= Times(b.bw_at_last_round, 125)
      rounds == IF gained THEN 1 ELSE b.rounds_wo_gain + 1
      c == [b EXCEPT !.rounds_wo_gain = rounds,
                     !.bw_at_last_round = IF gained THEN MaxBandwidth(b) ELSE @]
  IN  IF b.full_bandwidth \/ b.last_app_limited THEN b
      ELSE IF rounds >= StartupRounds
      THEN [Check(c, c.has_non_app_limited) EXCEPT !.full_bandwidth = TRUE]
      ELSE c

EnterProbeBw(b, offset, now) ==
  [b EXCEPT !.mode = "ProbeBw", !.cwnd_gain = ProbeBwGain, !.cycle = offset,
            !.cycle_start = now, !.pacing_gain = PacingGain(offset)]

EnterStartup(b) ==
  [b EXCEPT !.mode = "StartUp", !.pacing_gain = HighGain, !.cwnd_gain = HighGain]

\* maybe_exit_startup_or_drain
ExitStartupOrDrain(b, offset) ==
  LET c == IF b.mode = "StartUp" /\ b.full_bandwidth
           THEN [b EXCEPT !.mode = "Drain", !.pacing_gain = DrainGain,
                          !.cwnd_gain = HighGain]
           ELSE b
  IN  IF c.mode = "Drain" /\ c.bytes_in_flight <= TargetCwnd(c, 100)
      THEN EnterProbeBw(c, offset, c.ack.time)
      ELSE c

\* maybe_enter_or_exit_probe_rtt: PROBE_RTT lasts from when few enough bytes
\* are in flight for ProbeRttTime and one more round.
ProbeRtt(b, round_start, expired, offset) ==
  LET enter == expired /\ b.mode # "ProbeRtt"
      c == IF enter
           THEN [b EXCEPT !.mode = "ProbeRtt", !.pacing_gain = 100,
                          !.exit_probe_rtt_at = Never]
           ELSE b
      d == AppLimited(c)
      passed == d.probe_rtt_round_passed \/ round_start
      e == [d EXCEPT !.probe_rtt_round_passed = passed]
      now == b.ack.time
  IN  IF c.mode # "ProbeRtt" THEN c
      ELSE IF d.exit_probe_rtt_at = Never
      THEN IF d.bytes_in_flight < MinCwnd + ProbeRttSlack
           THEN [d EXCEPT !.exit_probe_rtt_at = now + ProbeRttTime,
                          !.probe_rtt_round_passed = FALSE]
           ELSE d
      ELSE IF now >= d.exit_probe_rtt_at /\ passed
      THEN LET f == [e EXCEPT !.min_rtt_at = now]
           IN  IF f.full_bandwidth THEN EnterProbeBw(f, offset, now) ELSE EnterStartup(f)
      ELSE e

\* calculate_pacing_rate: the rate does not fall before full bandwidth.
CalculatePacingRate(b) ==
  LET target == Times(MaxBandwidth(b), b.pacing_gain)
  IN  IF MaxBandwidth(b) # 0 /\ (b.full_bandwidth \/ b.pacing_rate < target)
      THEN [b EXCEPT !.pacing_rate = target]
      ELSE b

\* Mutant: the window is only kept above its minimum.
Clamped_NoCeiling(w) == IF w < MinCwnd THEN MinCwnd ELSE w

Clamped(w) == IF w < MinCwnd THEN MinCwnd ELSE IF w > MaxCwnd THEN MaxCwnd ELSE w

\* calculate_cwnd
CalculateCwnd(b, acked) ==
  LET target == TargetCwnd(b, b.cwnd_gain) + b.max_ack_height[1].value
      grown == b.cwnd + acked
  IN  IF b.mode = "ProbeRtt" THEN b
      ELSE [b EXCEPT !.cwnd = Clamped(IF b.full_bandwidth /\ target < grown
                                      THEN target ELSE grown)]

\* Mutant: the flag is not cleared when no packet was newly acknowledged.
BBREndAck_Open(b, offset) ==
  LET acked == b.total_acked - b.ack.acked_before
      round == b.ack.bytes > 0
      b1 == [Check(b, b.in_ack) EXCEPT !.in_ack = ~round,
                                        !.round_count = @ + (IF round THEN 1 ELSE 0)]
      b2 == IF round THEN UpdateAckAggregation(UpdateBandwidthAndMinRtt(b1), acked)
            ELSE b1
      b3 == UpdateGainCyclePhase(b2)
      b4 == IF round THEN CheckIfFullBwReached(b3) ELSE b3
      b5 == ProbeRtt(ExitStartupOrDrain(b4, offset), round,
                     round /\ MinRttExpired(b1), offset)
  IN  [CalculateCwnd(CalculatePacingRate(b5), acked) EXCEPT !.ack = NoAck]

\* bbr_end_ack, whether or not the ACK acknowledged anything new.
BBREndAck(b, offset) ==
  LET acked == b.total_acked - b.ack.acked_before
      round == b.ack.bytes > 0
      b1 == [Check(b, b.in_ack) EXCEPT !.in_ack = FALSE,
                                        !.round_count = @ + (IF round THEN 1 ELSE 0)]
      b2 == IF round THEN UpdateAckAggregation(UpdateBandwidthAndMinRtt(b1), acked)
            ELSE b1
      b3 == UpdateGainCyclePhase(b2)
      b4 == IF round THEN CheckIfFullBwReached(b3) ELSE b3
      b5 == ProbeRtt(ExitStartupOrDrain(b4, offset), round,
                     round /\ MinRttExpired(b1), offset)
  IN  [CalculateCwnd(CalculatePacingRate(b5), acked) EXCEPT !.ack = NoAck]

=============================================================================
