-------------------------------- MODULE Cubic --------------------------------
(***************************************************************************)
(* The CUBIC congestion controller (src/src/cc/cubic.rs) as operators on   *)
(* its state, a record.                                                    *)
(*                                                                         *)
(* The curve is data: k, w_max and w_last_max only decide by how much the  *)
(* window may grow, so cubic_cwnd is any window not below the current one, *)
(* at most MaxIncrement above it.  Hystart::start_round is called nowhere, *)
(* so there is no last round to compare with and Limited Slow Start never  *)
(* begins: its branches are left out.                                      *)
(***************************************************************************)
EXTENDS Reno

CONSTANTS MaxIncrement,      \* bound of one step along the curve
          RestoreThreshold   \* RESTORE_COUNT_THRESHOLD

ASSUME CubicAssumption == MaxIncrement \in Nat /\ RestoreThreshold \in Nat

\* BETA_CUBIC = 0.7
Beta(w) == (7 * w) \div 10

NoPrior == [cwnd |-> 0, ssthresh |-> 0, recovery_start |-> None, lost_count |-> 0]

CubicInit ==
  [cwnd |-> InitialWindow, bytes_in_flight |-> 0, recovery_start |-> None,
   ssthresh |-> Unlimited, last_sent |-> None, cwnd_inc |-> 0, prior |-> NoPrior]

\* on_packet_sent_cc: the idle time before the packet is added to the start of
\* the recovery period, from which the curve is drawn.
CubicSent(c, size, now) ==
  LET idle == c.last_sent # None /\ c.bytes_in_flight = 0 /\ c.recovery_start # None
  IN  [c EXCEPT !.bytes_in_flight = @ + size, !.last_sent = now,
                !.recovery_start = IF idle THEN @ + (now - c.last_sent) ELSE @]

\* checkpoint and rollback
Checkpoint(c, lost_count) ==
  [cwnd |-> c.cwnd, ssthresh |-> c.ssthresh, recovery_start |-> c.recovery_start,
   lost_count |-> lost_count]

Rollback(c) ==
  [c EXCEPT !.cwnd = c.prior.cwnd, !.ssthresh = c.prior.ssthresh,
            !.recovery_start = c.prior.recovery_start]

\* Few packets were lost since the window was last cut.
Spurious(c, lost_count) ==
  /\ c.recovery_start # None
  /\ c.cwnd < c.prior.cwnd
  /\ lost_count - c.prior.lost_count < RestoreThreshold

\* Congestion avoidance: one datagram once the increments amount to one.
Avoidance(c, inc, now) ==
  LET sum == c.cwnd_inc + inc
  IN  [c EXCEPT !.recovery_start = IF @ = None THEN now ELSE @,
                !.cwnd = IF sum >= MaxDatagram THEN @ + MaxDatagram ELSE @,
                !.cwnd_inc = IF sum >= MaxDatagram THEN 0 ELSE sum]

\* on_packet_acked_cc of a packet of the given size and sent time.
CubicAcked(c, size, time_sent, app_limited, lost_count, inc, now) ==
  LET left == [c EXCEPT !.bytes_in_flight = IF @ >= size THEN @ - size ELSE 0]
  IN  IF InCongestionRecovery(c, time_sent) \/ app_limited THEN left
      ELSE IF Spurious(c, lost_count) THEN Rollback(left)
      ELSE IF c.ssthresh = Unlimited \/ c.cwnd < c.ssthresh
      THEN [left EXCEPT !.cwnd = @ + size]
      ELSE Avoidance(left, inc, now)

CubicCut(w) == IF Beta(w) >= MinimumWindow THEN Beta(w) ELSE MinimumWindow

\* Mutant: every loss starts a congestion event.
CubicEvent_Again(c, time_sent, lost_count, now) ==
  [c EXCEPT !.prior = Checkpoint(c, lost_count), !.recovery_start = now,
            !.ssthresh = CubicCut(c.cwnd), !.cwnd = CubicCut(c.cwnd),
            !.cwnd_inc = Beta(@)]

\* congestion_event
CubicEvent(c, time_sent, lost_count, now) ==
  IF InCongestionRecovery(c, time_sent)
  THEN c
  ELSE [c EXCEPT !.prior = Checkpoint(c, lost_count), !.recovery_start = now,
                 !.ssthresh = CubicCut(c.cwnd), !.cwnd = CubicCut(c.cwnd),
                 !.cwnd_inc = Beta(@)]

=============================================================================
