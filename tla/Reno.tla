-------------------------------- MODULE Reno --------------------------------
(***************************************************************************)
(* The Reno congestion controller (src/src/cc/reno.rs) as operators on its *)
(* state, the record cc.  Sizes are counted in the units of the packets'   *)
(* sizes and times are ticks of the clock Recovery keeps; None is an unset *)
(* Option<Instant>.                                                        *)
(***************************************************************************)
EXTENDS Integers

CONSTANTS InitialWindow,  \* cc::INITIAL_WINDOW
          MinimumWindow,  \* cc::MINIMUM_WINDOW
          MaxDatagram     \* cc::MAX_DATAGRAM_SIZE

\* Windows are positive and the controller starts above its floor.
ASSUME WindowAssumption ==
  /\ MinimumWindow \in Nat \ {0} /\ MaxDatagram \in Nat \ {0}
  /\ InitialWindow \in Nat /\ InitialWindow >= MinimumWindow

None == -1

\* ssthresh starts at usize::MAX: Unlimited stands for it.
Unlimited == -1

RenoState == [cwnd : Nat, bytes_in_flight : Nat,
              recovery_start : Nat \cup {None}, ssthresh : Nat \cup {Unlimited}]

RenoInit == [cwnd |-> InitialWindow, bytes_in_flight |-> 0,
             recovery_start |-> None, ssthresh |-> Unlimited]

CwndLeft(cc) ==
  IF cc.bytes_in_flight >= cc.cwnd THEN 0 ELSE cc.cwnd - cc.bytes_in_flight

OnPacketSentCC(cc, size) == [cc EXCEPT !.bytes_in_flight = @ + size]

\* decrease_bytes_in_flight saturates.
DecreaseBytesInFlight(cc, size) ==
  [cc EXCEPT !.bytes_in_flight = IF @ >= size THEN @ - size ELSE 0]

\* Mutant: packets of the tick of the cut count as sent after it.
InCongestionRecovery_Strict(cc, time_sent) ==
  cc.recovery_start # None /\ time_sent < cc.recovery_start

InCongestionRecovery(cc, time_sent) ==
  cc.recovery_start # None /\ time_sent <= cc.recovery_start

Grown(cc, size) ==
  IF cc.ssthresh = Unlimited \/ cc.cwnd < cc.ssthresh
  THEN cc.cwnd + size
  ELSE cc.cwnd + (MaxDatagram * size) \div cc.cwnd

\* on_packet_acked_cc: this subtraction does not saturate.
OnPacketAckedCC(cc, size, time_sent, app_limited) ==
  [cc EXCEPT
     !.bytes_in_flight = @ - size,
     !.cwnd = IF InCongestionRecovery(cc, time_sent) \/ app_limited
              THEN @ ELSE Grown(cc, size)]

Reduced(cc) ==
  IF cc.cwnd \div 2 >= MinimumWindow THEN cc.cwnd \div 2 ELSE MinimumWindow

CongestionEvent(cc, time_sent, now) ==
  IF InCongestionRecovery(cc, time_sent)
  THEN cc
  ELSE [cc EXCEPT !.recovery_start = now, !.cwnd = Reduced(cc),
                  !.ssthresh = Reduced(cc)]

=============================================================================
