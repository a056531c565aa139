--------------------------- MODULE Congestion_proofs ---------------------------
(***************************************************************************)
(* Theorems about Congestion: whatever packets are acknowledged or lost in *)
(* which order, the windows of CUBIC and BBR keep their bounds, CUBIC cuts *)
(* for a new loss only and takes back only a cut, BBR's assertions hold    *)
(* and its modes agree with its gains, and the external solution never     *)
(* runs twice at once.  They hold for every size of packet, every window,  *)
(* every curve and every clock.                                            *)
(***************************************************************************)
EXTENDS Congestion, FiniteFacts, SequenceTheorems

-----------------------------------------------------------------------------
(* Recovery's side *)

Packets == [pn : Nat, time : Nat, size : Nat \ {0}]

\* Packets in flight have numbers of their own; those of the ACK being processed
\* were sent before it came.
SentOK ==
  /\ alg \in Algorithms
  /\ now \in Nat /\ next_pn \in Nat /\ lost_count \in Nat
  /\ last_cut \in Nat \cup {None} /\ last_cut <= now
  /\ sent \subseteq Packets /\ IsFiniteSet(sent)
  /\ \A p \in sent : p.pn < next_pn /\ p.time <= now /\ p.size \in Sizes[alg]
  /\ \A p, q \in sent : p.pn = q.pn => p = q
  /\ acking \subseteq sent
  /\ \A p \in acking : in_call /\ p.time < now

\* The packet with the largest number is one of them.
LEMMA NewestIs ==
  ASSUME NEW ps, ps \subseteq Packets, IsFiniteSet(ps), ps # {}
  PROVE  Newest(ps) \in ps
<1> DEFINE S == {p.pn : p \in ps}
<1>1. S \subseteq Int /\ S # {}
  BY DEF Packets
<1>2. IsFiniteSet(S)
  <2> DEFINE f == [p \in ps |-> p.pn]
  <2>1. f \in Surjection(ps, S)
    BY DEF Surjection
  <2> HIDE DEF f, S
  <2> QED BY <2>1, FS_Surjection
<1>3. Max(S) \in S /\ \A y \in S : Max(S) >= y
  <2> HIDE DEF S
  <2> QED BY <1>1, <1>2, MaxOfFinite
<1>4. PICK p \in ps : p.pn = Max(S)
  BY <1>3
<1>5. \A q \in ps : q.pn \in S /\ q.pn \in Int
  BY DEF Packets
<1>6. \A q \in ps : q.pn <= p.pn
  BY <1>1, <1>3, <1>4, <1>5
<1> QED BY <1>6 DEF Newest

-----------------------------------------------------------------------------
(* CUBIC *)

CubicState ==
  [cwnd : Nat, bytes_in_flight : Int, recovery_start : Nat \cup {None}, ssthresh : Int,
   last_sent : Nat \cup {None}, cwnd_inc : Int,
   prior : [cwnd : Nat, ssthresh : Int, recovery_start : Nat \cup {None}, lost_count : Nat]]

AboveFloor(cwnd, ssthresh) ==
  /\ cwnd >= MinimumWindow
  /\ ssthresh # Unlimited => ssthresh >= MinimumWindow

\* The checkpoint holds windows above the floor too, once there is one.  A cut
\* started a recovery period, which has not been set back since; without a cut
\* to take back, the window is not below the one before the last cut.
CubicOK(c, t, cut) ==
  /\ c \in CubicState
  /\ AboveFloor(c.cwnd, c.ssthresh)
  /\ c.prior.cwnd # 0 => AboveFloor(c.prior.cwnd, c.prior.ssthresh)
  /\ c.last_sent <= t
  /\ cut # None => c.recovery_start >= cut
  /\ cut = None => c.cwnd >= c.prior.cwnd

LEMMA CubicStarts ==
  ASSUME NEW t \in Nat
  PROVE  CubicOK(CubicInit, t, None)
BY WindowAssumption
   DEF CubicOK, CubicState, CubicInit, AboveFloor, NoPrior, Unlimited, None

LEMMA CubicSentOK ==
  ASSUME NEW t \in Nat, NEW cut \in Nat \cup {None}, NEW c, CubicOK(c, t, cut), NEW size \in Nat
  PROVE  /\ CubicOK(CubicSent(c, size, t), t, cut) /\ CubicSent(c, size, t).cwnd = c.cwnd
         /\ CubicSent(c, size, t).bytes_in_flight = c.bytes_in_flight + size
<1>1. c \in CubicState
  BY DEF CubicOK
<1>2. c.last_sent # None /\ c.recovery_start # None => c.recovery_start + (t - c.last_sent) \in Nat
  BY DEF CubicOK, CubicState, None
<1>3. PICK r : r = IF c.last_sent # None /\ c.bytes_in_flight = 0 /\ c.recovery_start # None
                   THEN c.recovery_start + (t - c.last_sent) ELSE c.recovery_start
  OBVIOUS
<1>4. r \in Nat \cup {None} /\ (cut # None => r >= cut)
  BY <1>1, <1>2, <1>3 DEF CubicOK, CubicState, None
<1>5. CubicSent(c, size, t)
        = [c EXCEPT !.bytes_in_flight = @ + size, !.last_sent = t, !.recovery_start = r]
  BY <1>3 DEF CubicSent
<1>6. PICK d : d = CubicSent(c, size, t)
  OBVIOUS
<1>7. PICK n \in Int : n = c.bytes_in_flight + size
  BY <1>1 DEF CubicState
<1>8. d = [c EXCEPT !.bytes_in_flight = n, !.last_sent = t, !.recovery_start = r]
  BY <1>5, <1>6, <1>7
<1>9. d \in CubicState
  BY <1>1, <1>4, <1>8 DEF CubicState
<1>10. /\ d.cwnd = c.cwnd /\ d.ssthresh = c.ssthresh /\ d.prior = c.prior
       /\ d.last_sent = t /\ d.recovery_start = r /\ d.bytes_in_flight = n
  BY <1>1, <1>8 DEF CubicState
<1>11. CubicOK(d, t, cut)
  BY <1>4, <1>9, <1>10 DEF CubicOK
<1> QED BY <1>6, <1>7, <1>10, <1>11

\* What an acknowledged packet does to the window: it takes back a cut, or adds a
\* packet or a datagram, or nothing.
LEMMA CubicAckedOK ==
  ASSUME NEW t \in Nat, NEW cut \in Nat \cup {None}, cut <= t, NEW c, CubicOK(c, t, cut),
         NEW size \in Nat, NEW time \in Nat, NEW limited, NEW lost \in Nat, NEW inc \in Int,
         NEW d, d = CubicAcked(c, size, time, limited, lost, inc, t),
         NEW back, back <=> c.cwnd < c.prior.cwnd /\ d.cwnd = c.prior.cwnd
                              /\ d.ssthresh = c.prior.ssthresh
  PROVE  /\ CubicOK(d, t, IF back THEN None ELSE cut)
         /\ d.prior = c.prior
         /\ c.bytes_in_flight >= size => d.bytes_in_flight = c.bytes_in_flight - size
         /\ d.cwnd >= c.cwnd
         /\ \/ d.cwnd <= c.cwnd + size \/ d.cwnd <= c.cwnd + MaxDatagram
            \/ cut # None /\ back /\ lost - c.prior.lost_count < RestoreThreshold
<1>1. PICK n \in Int : n = IF c.bytes_in_flight >= size THEN c.bytes_in_flight - size ELSE 0
  BY DEF CubicOK, CubicState
<1>2. PICK e : e = [c EXCEPT !.bytes_in_flight = n]
  OBVIOUS
<1>3. e = [c EXCEPT !.bytes_in_flight = IF @ >= size THEN @ - size ELSE 0]
  BY <1>1, <1>2
<1>4. CubicOK(e, t, cut) /\ e.prior = c.prior /\ e.cwnd = c.cwnd /\ e.ssthresh = c.ssthresh
      /\ e.recovery_start = c.recovery_start
  BY <1>1, <1>2 DEF CubicOK, CubicState
<1>5. e.cwnd \in Nat /\ e.prior.cwnd \in Nat /\ e.prior.lost_count \in Nat
  BY <1>4 DEF CubicOK, CubicState
<1> DEFINE stay == InCongestionRecovery(c, time) \/ limited
           grow == c.ssthresh = Unlimited \/ c.cwnd < c.ssthresh
<1>6. d = IF stay THEN e ELSE IF Spurious(c, lost) THEN Rollback(e)
          ELSE IF grow THEN [e EXCEPT !.cwnd = @ + size] ELSE Avoidance(e, inc, t)
  BY <1>3, Zenon DEF CubicAcked
<1>7. d.bytes_in_flight = n
  <2>1. e.bytes_in_flight = n /\ e \in CubicState
    BY <1>1, <1>2, <1>4 DEF CubicOK, CubicState
  <2>2. Rollback(e).bytes_in_flight = n
    BY <2>1 DEF Rollback, CubicState
  <2>3. [e EXCEPT !.cwnd = @ + size].bytes_in_flight = n
    BY <2>1 DEF CubicState
  <2>4. Avoidance(e, inc, t).bytes_in_flight = n
    BY <2>1 DEF Avoidance, CubicState
  <2> HIDE DEF stay, grow
  <2> QED BY <1>6, <2>1, <2>2, <2>3, <2>4, Zenon
<1>8. c.bytes_in_flight >= size => d.bytes_in_flight = c.bytes_in_flight - size
  BY <1>1, <1>7
<1>9. ASSUME CubicOK(d, t, cut), d.prior = c.prior, d.cwnd >= c.cwnd, d.cwnd \in Nat,
             d.cwnd <= c.cwnd + size \/ d.cwnd <= c.cwnd + MaxDatagram
      PROVE  CubicOK(d, t, IF back THEN None ELSE cut)
  <2>1. CASE back
    <3>1. d.cwnd >= d.prior.cwnd
      BY <1>9, <1>4, <1>5, <2>1
    <3>2. CubicOK(d, t, None)
      BY <1>9, <3>1 DEF CubicOK
    <3> QED BY <2>1, <3>2
  <2>2. CASE ~back
    BY <1>9, <2>2
  <2> QED BY <2>1, <2>2
<1>10. CASE d = e
  <2>1. /\ d.cwnd >= c.cwnd /\ d.cwnd <= c.cwnd + size /\ d.prior = c.prior /\ CubicOK(d, t, cut)
        /\ d.cwnd \in Nat
    BY <1>4, <1>5, <1>10
  <2> QED BY <2>1, <1>5, <1>9, <1>8
<1>11. CASE ~stay /\ Spurious(c, lost) /\ d = Rollback(e)
  <2>1. c.cwnd < c.prior.cwnd /\ lost - c.prior.lost_count < RestoreThreshold
    BY <1>11 DEF Spurious
  <2>2. /\ d = [e EXCEPT !.cwnd = e.prior.cwnd, !.ssthresh = e.prior.ssthresh,
                         !.recovery_start = e.prior.recovery_start]
    BY <1>11 DEF Rollback
  <2>3. d.cwnd = c.prior.cwnd /\ d.ssthresh = c.prior.ssthresh /\ d.prior = c.prior
    BY <1>4, <2>2 DEF CubicOK, CubicState
  <2>4. back
    BY <2>1, <2>3
  <2>5. cut # None
    BY <1>4, <1>5, <2>1 DEF CubicOK
  <2>6. c.prior.cwnd # 0
    BY <1>4, <1>5, <2>1
  <2>7. CubicOK(d, t, None)
    <3>1. /\ e \in CubicState /\ e.prior.cwnd \in Nat /\ e.prior.ssthresh \in Int
          /\ e.prior.recovery_start \in Nat \cup {None}
      BY <1>4 DEF CubicOK, CubicState
    <3>2. PICK w \in Nat, h \in Int, r \in Nat \cup {None} :
             w = e.prior.cwnd /\ h = e.prior.ssthresh /\ r = e.prior.recovery_start
      BY <3>1
    <3>3. d = [e EXCEPT !.cwnd = w, !.ssthresh = h, !.recovery_start = r]
      BY <2>2, <3>2
    <3>4. d \in CubicState
      BY <3>1, <3>3 DEF CubicState
    <3>5. d.cwnd = w /\ d.ssthresh = h /\ d.prior = e.prior /\ d.last_sent = e.last_sent
      BY <3>1, <3>3 DEF CubicState
    <3>6. AboveFloor(w, h)
      BY <1>4, <2>6, <3>2 DEF CubicOK
    <3> QED BY <1>4, <3>2, <3>4, <3>5, <3>6 DEF CubicOK
  <2> QED BY <1>4, <1>5, <1>8, <2>1, <2>3, <2>4, <2>5, <2>7
<1>12. CASE d = [e EXCEPT !.cwnd = @ + size]
  <2>1. d.cwnd = e.cwnd + size /\ d.prior = c.prior /\ CubicOK(d, t, cut)
    BY <1>4, <1>5, <1>12, WindowAssumption DEF CubicOK, CubicState, AboveFloor
  <2>2. d.cwnd >= c.cwnd /\ d.cwnd <= c.cwnd + size /\ d.cwnd \in Nat
    BY <1>4, <1>5, <2>1
  <2> QED BY <2>1, <2>2, <1>9, <1>8
<1>13. CASE d = Avoidance(e, inc, t)
  <2>1. PICK sum \in Int : sum = e.cwnd_inc + inc
    BY <1>4 DEF CubicOK, CubicState
  <2>2. PICK r : r = IF e.recovery_start = None THEN t ELSE e.recovery_start
    OBVIOUS
  <2>3. PICK w : w = IF sum >= MaxDatagram THEN e.cwnd + MaxDatagram ELSE e.cwnd
    OBVIOUS
  <2>4. PICK i : i = IF sum >= MaxDatagram THEN 0 ELSE sum
    OBVIOUS
  <2>5. d = [e EXCEPT !.recovery_start = r, !.cwnd = w, !.cwnd_inc = i]
    BY <1>13, <2>1, <2>2, <2>3, <2>4 DEF Avoidance
  <2>6. r \in Nat \cup {None} /\ (cut # None => r >= cut)
    BY <1>4, <2>2 DEF CubicOK, CubicState, None
  <2>7. w \in Nat /\ i \in Int /\ w >= e.cwnd /\ w <= e.cwnd + MaxDatagram
    BY <1>5, <2>1, <2>3, <2>4, WindowAssumption
  <2>8. d.cwnd = w /\ d.prior = c.prior /\ CubicOK(d, t, cut)
    <3>1. e \in CubicState
      BY <1>4 DEF CubicOK
    <3>2. d \in CubicState
      BY <2>5, <2>6, <2>7, <3>1 DEF CubicState
    <3>3. /\ d.cwnd = w /\ d.ssthresh = e.ssthresh /\ d.prior = e.prior
          /\ d.last_sent = e.last_sent /\ d.recovery_start = r
      BY <2>5, <3>1 DEF CubicState
    <3>4. AboveFloor(w, e.ssthresh) /\ w >= e.cwnd /\ (cut = None => w >= e.prior.cwnd)
      BY <1>4, <1>5, <2>7, WindowAssumption DEF CubicOK, AboveFloor
    <3> QED BY <1>4, <2>6, <3>2, <3>3, <3>4 DEF CubicOK
  <2> QED BY <2>7, <2>8, <1>4, <1>5, <1>9, <1>8
<1> QED
  <2>1. d = e \/ (~stay /\ Spurious(c, lost) /\ d = Rollback(e))
        \/ d = [e EXCEPT !.cwnd = @ + size] \/ d = Avoidance(e, inc, t)
    <3> HIDE DEF stay, grow
    <3> QED BY <1>6, Zenon
  <2> HIDE DEF stay, grow
  <2> QED BY <2>1, <1>10, <1>11, <1>12, <1>13, Zenon

\* A loss cuts the window once per recovery period, and not below the floor.
LEMMA CubicEventOK ==
  ASSUME NEW t \in Nat, NEW cut \in Nat \cup {None}, cut <= t, NEW c, CubicOK(c, t, cut),
         NEW time \in Nat, NEW lost \in Nat,
         NEW d, d = CubicEvent(c, time, lost, t),
         NEW next, next = IF d.cwnd < c.cwnd THEN t ELSE cut
  PROVE  /\ CubicOK(d, t, next)
         /\ d.cwnd <= c.cwnd /\ d.bytes_in_flight = c.bytes_in_flight
         /\ d.cwnd < c.cwnd => cut = None \/ time > cut
<1>1. CASE InCongestionRecovery(c, time)
  <2>1. d = c
    BY <1>1 DEF CubicEvent
  <2>2. next = cut
    BY <2>1 DEF CubicOK, CubicState
  <2> QED BY <2>1, <2>2 DEF CubicOK, CubicState
<1>2. CASE ~InCongestionRecovery(c, time)
  <2>1. PICK w : w = CubicCut(c.cwnd)
    OBVIOUS
  <2>2. c.cwnd \in Nat /\ c.cwnd >= MinimumWindow /\ c.cwnd # 0
    BY WindowAssumption DEF CubicOK, CubicState, AboveFloor
  <2>3. w \in Nat /\ w >= MinimumWindow /\ w <= c.cwnd
    BY <2>1, <2>2, WindowAssumption DEF CubicCut, Beta
  <2>4. PICK k : k = Checkpoint(c, lost)
    OBVIOUS
  <2>5. PICK i : i = Beta(c.cwnd_inc)
    OBVIOUS
  <2>6. i \in Int
    BY <2>5 DEF Beta, CubicOK, CubicState
  <2>7. d = [c EXCEPT !.prior = k, !.recovery_start = t, !.ssthresh = w, !.cwnd = w, !.cwnd_inc = i]
    BY <1>2, <2>1, <2>4, <2>5 DEF CubicEvent
  <2>8. /\ k \in [cwnd : Nat, ssthresh : Int, recovery_start : Nat \cup {None}, lost_count : Nat]
        /\ k.cwnd = c.cwnd /\ k.ssthresh = c.ssthresh
    BY <2>4 DEF Checkpoint, CubicOK, CubicState
  <2>9. /\ d \in CubicState /\ d.cwnd = w /\ d.ssthresh = w /\ d.prior = k /\ d.recovery_start = t
        /\ d.last_sent = c.last_sent /\ d.bytes_in_flight = c.bytes_in_flight
    <3>1. c \in CubicState
      BY DEF CubicOK
    <3>2. PICK e : e = [c EXCEPT !.prior = k, !.recovery_start = t]
      OBVIOUS
    <3>3. /\ e \in CubicState /\ e.prior = k /\ e.recovery_start = t /\ e.last_sent = c.last_sent
          /\ e.bytes_in_flight = c.bytes_in_flight
      BY <2>8, <3>1, <3>2 DEF CubicState
    <3>4. d = [e EXCEPT !.ssthresh = w, !.cwnd = w, !.cwnd_inc = i]
      BY <2>7, <3>1, <3>2 DEF CubicState
    <3>5. d \in CubicState
      <4>1. PICK f : f = [e EXCEPT !.ssthresh = w]
        OBVIOUS
      <4>2. f \in CubicState
        BY <2>3, <3>3, <4>1 DEF CubicState
      <4>3. PICK g : g = [f EXCEPT !.cwnd = w]
        OBVIOUS
      <4>4. g \in CubicState
        BY <2>3, <4>2, <4>3 DEF CubicState
      <4>5. d = [g EXCEPT !.cwnd_inc = i]
        BY <3>3, <3>4, <4>1, <4>3 DEF CubicState
      <4> QED BY <2>6, <4>4, <4>5 DEF CubicState
    <3>6. /\ d.cwnd = w /\ d.ssthresh = w /\ d.prior = e.prior
          /\ d.recovery_start = e.recovery_start /\ d.last_sent = e.last_sent
          /\ d.bytes_in_flight = e.bytes_in_flight
      BY <3>3, <3>4 DEF CubicState
    <3> QED BY <3>3, <3>5, <3>6
  <2>10. cut # None => time > c.recovery_start /\ c.recovery_start \in Nat
    BY <1>2 DEF InCongestionRecovery, CubicOK, CubicState, None
  <2>11. cut # None => time > cut
    BY <2>10 DEF CubicOK, None
  <2>12. CubicOK(d, t, next)
    BY <2>2, <2>3, <2>8, <2>9 DEF CubicOK, AboveFloor, None
  <2> QED BY <2>3, <2>9, <2>11, <2>12
<1> QED BY <1>1, <1>2

-----------------------------------------------------------------------------
(* BBR *)

\* A bandwidth sample
Sample == [bandwidth : Int, rtt : Int, app_limited : BOOLEAN]
\* The loop over the samples of an ACK
SamplesTaken(b, s) == FoldLeft(TakeSample, b, s)

\* FoldLeft takes the samples one after the other.
LEMMA FoldOfSamples ==
  ASSUME NEW b, NEW s \in Seq(Sample)
  PROVE  \E f : /\ f[0] = b /\ f[Len(s)] = SamplesTaken(b, s)
                /\ \A i \in 0 .. Len(s) - 1 : f[i + 1] = TakeSample(f[i], s[i + 1])
<1> DEFINE St(g, S) == IF S = {} THEN b ELSE TakeSample(g[S \ {Max(S)}], s[Max(S)])
           D == {k \in Nat : \E g : g = [S \in SUBSET (1 .. k) |-> St(g, S)]}
<1>1. Len(s) \in Nat /\ DOMAIN s = 1 .. Len(s)
  OBVIOUS
<1>2. 0 \in D
  <2>1. PICK g : g = [S \in SUBSET (1 .. 0) |-> b]
    OBVIOUS
  <2>2. \A S \in SUBSET (1 .. 0) : St(g, S) = b
    OBVIOUS
  <2>3. g = [S \in SUBSET (1 .. 0) |-> St(g, S)]
    <3> HIDE DEF St
    <3> QED BY <2>1, <2>2
  <2> QED BY <2>3
<1>3. ASSUME NEW k \in Nat, k \in D  PROVE k + 1 \in D
  <2>1. PICK g : g = [S \in SUBSET (1 .. k) |-> St(g, S)]
    BY <1>3
  <2>2. PICK h : h = [S \in SUBSET (1 .. k + 1) |-> IF k + 1 \in S THEN TakeSample(g[S \ {k + 1}], s[k + 1]) ELSE g[S]]
    OBVIOUS
  <2>3. ASSUME NEW S \in SUBSET (1 .. k + 1)  PROVE h[S] = St(h, S)
    <3>1. CASE k + 1 \in S
      <4>1. Max(S) = k + 1
        <5>1. S \subseteq Int /\ k + 1 \in S /\ \A y \in S : y <= k + 1
          BY <3>1
        <5> QED BY ONLY <5>1, MaxIs
      <4>2. S \ {k + 1} \in SUBSET (1 .. k + 1) /\ k + 1 \notin S \ {k + 1}
        OBVIOUS
      <4>3. h[S \ {k + 1}] = g[S \ {k + 1}]
        BY <2>2, <4>2
      <4>4. h[S] = TakeSample(g[S \ {k + 1}], s[k + 1])
        BY <2>2, <3>1
      <4> QED BY <3>1, <4>1, <4>3, <4>4
    <3>2. CASE k + 1 \notin S
      <4>1. S \in SUBSET (1 .. k)
        BY <3>2
      <4>2. h[S] = St(g, S)
        <5> HIDE DEF St
        <5> QED BY <2>1, <2>2, <3>2, <4>1
      <4>3. S \ {Max(S)} \in SUBSET (1 .. k + 1) /\ k + 1 \notin S \ {Max(S)}
        BY <3>2
      <4>4. h[S \ {Max(S)}] = g[S \ {Max(S)}]
        BY <2>2, <4>3
      <4> QED BY <4>2, <4>4
    <3> QED BY <3>1, <3>2
  <2>4. h = [S \in SUBSET (1 .. k + 1) |-> St(h, S)]
    <3> HIDE DEF St
    <3> QED BY <2>2, <2>3
  <2>5. \E g_1 : g_1 = [S \in SUBSET (1 .. k + 1) |-> St(g_1, S)]
    <3> HIDE DEF St
    <3> QED BY <2>4, Zenon
  <2>6. k + 1 \in Nat
    OBVIOUS
  <2> HIDE DEF St
  <2> QED BY <2>5, <2>6, Zenon
<1>4. Len(s) \in D
  <2> HIDE DEF D
  <2> QED BY <1>1, <1>2, <1>3, Counting
<1>5. PICK it : it = CHOOSE g : g = [S \in SUBSET DOMAIN s |-> St(g, S)]
  OBVIOUS
<1>6. it = [S \in SUBSET DOMAIN s |-> St(it, S)]
  <2> HIDE DEF St
  <2>1. \E g : g = [S \in SUBSET DOMAIN s |-> St(g, S)]
    BY <1>1, <1>4
  <2> QED BY <1>5, <2>1, Zenon
<1>7. SamplesTaken(b, s) = it[DOMAIN s]
  BY <1>5, Zenon DEF SamplesTaken, FoldLeft, MapThenFoldSet
<1>8. PICK f : f = [i \in 0 .. Len(s) |-> it[1 .. i]]
  OBVIOUS
<1>9. f[0] = b
  <2>1. f[0] = it[1 .. 0] /\ 1 .. 0 = {}
    BY <1>1, <1>8
  <2>2. it[{}] = b
    BY <1>6
  <2> QED BY <2>1, <2>2
<1>10. ASSUME NEW i \in 0 .. Len(s) - 1  PROVE f[i + 1] = TakeSample(f[i], s[i + 1])
  <2>1. i + 1 \in 1 .. i + 1 /\ 1 .. i + 1 \in SUBSET DOMAIN s /\ 1 .. i + 1 # {}
    <3>1. i \in Nat /\ i + 1 <= Len(s) /\ i + 1 \in Nat
      BY <1>1
    <3>2. i + 1 \in 1 .. i + 1
      BY <3>1
    <3>3. \A j \in 1 .. i + 1 : j \in DOMAIN s
      BY <1>1, <3>1
    <3> QED BY <3>2, <3>3
  <2>2. Max(1 .. i + 1) = i + 1
    <3>1. 1 .. i + 1 \subseteq Int /\ i + 1 \in 1 .. i + 1 /\ \A y \in 1 .. i + 1 : y <= i + 1
      BY <2>1
    <3> QED BY ONLY <3>1, MaxIs
  <2>3. (1 .. i + 1) \ {i + 1} = 1 .. i
    OBVIOUS
  <2>4. it[1 .. i + 1] = TakeSample(it[1 .. i], s[i + 1])
    BY <1>6, <2>1, <2>2, <2>3
  <2> QED BY <1>1, <1>8, <2>4
<1>11. f[Len(s)] = SamplesTaken(b, s)
  <2> HIDE DEF St, D
  <2>1. Len(s) \in 0 .. Len(s)
    BY <1>1
  <2> QED BY <1>1, <1>7, <1>8, <2>1
<1>12. \A i \in 0 .. Len(s) - 1 : f[i + 1] = TakeSample(f[i], s[i + 1])
  BY <1>10
<1> HIDE DEF St, D
<1> QED BY <1>9, <1>11, <1>12, Zenon

\* The three samples of a filter: the best first, and the oldest first.
FilterOK(f, round) ==
  /\ \A i \in 1 .. 3 : f[i].value \in Int /\ f[i].time \in Int
  /\ Ordered(f) /\ f[3].time <= round

\* The filter stays in order, whatever it forgets.
LEMMA RunningMaxOK ==
  ASSUME NEW f, NEW round \in Int, FilterOK(f, round), NEW value \in Int, NEW win \in Int
  PROVE  FilterOK(RunningMax(f, win, round, value), round)
<1> DEFINE s == [time |-> round, value |-> value]
<1>1. \A a, b, c : /\ {a.time, b.time, c.time, a.value, b.value, c.value} \subseteq Int
                   /\ a.time <= b.time /\ b.time <= c.time /\ c.time <= round
                   /\ a.value >= b.value /\ b.value >= c.value
                   => FilterOK(<<a, b, c>>, round)
  BY DEF FilterOK, Ordered
<1>2. /\ {f[1].time, f[2].time, f[3].time, f[1].value, f[2].value, f[3].value} \subseteq Int
      /\ f[1].time <= f[2].time /\ f[2].time <= f[3].time /\ f[3].time <= round
      /\ f[1].value >= f[2].value /\ f[2].value >= f[3].value
  BY DEF FilterOK, Ordered
<1>3. FilterOK(FilterReset(round, value), round)
  BY DEF FilterOK, Ordered, FilterReset
<1>4. ASSUME value < f[1].value  PROVE FilterOK(SubwinUpdate(Kept(f, s, LAMBDA a, b : a >= b), win, s), round)
  <2>1. PICK g : g = Kept(f, s, LAMBDA a, b : a >= b)
    OBVIOUS
  <2>2. g = IF value >= f[2].value THEN <<f[1], s, s>>
            ELSE IF value >= f[3].value THEN <<f[1], f[2], s>> ELSE f
    BY <2>1 DEF Kept
  <2>3. /\ {g[1].time, g[2].time, g[3].time, g[1].value, g[2].value, g[3].value} \subseteq Int
        /\ g[1].time <= g[2].time /\ g[2].time <= g[3].time /\ g[3].time <= round
        /\ g[1].value >= g[2].value /\ g[2].value >= g[3].value /\ g[3].value >= value
    <3>1. CASE value >= f[2].value
      <4>1. g[1] = f[1] /\ g[2] = s /\ g[3] = s
        BY <2>2, <3>1
      <4> QED BY <1>2, <1>4, <4>1
    <3>2. CASE ~(value >= f[2].value) /\ value >= f[3].value
      <4>1. g[1] = f[1] /\ g[2] = f[2] /\ g[3] = s
        BY <2>2, <3>2
      <4> QED BY <1>2, <3>2, <4>1
    <3>3. CASE ~(value >= f[2].value) /\ ~(value >= f[3].value)
      <4>1. g = f
        BY <2>2, <3>3
      <4> QED BY <1>2, <3>3, <4>1
    <3> QED BY <3>1, <3>2, <3>3
  <2>4. FilterOK(g, round)
    BY <2>3 DEF FilterOK, Ordered
  <2>5. PICK h : h = SubwinUpdate(g, win, s)
    OBVIOUS
  <2>6. h = g \/ h = <<g[2], g[3], s>> \/ h = <<g[3], s, s>> \/ h = <<g[1], s, s>> \/ h = <<g[1], g[2], s>>
    BY <2>5, Zenon DEF SubwinUpdate
  <2>7. FilterOK(<<g[2], g[3], s>>, round)
    BY <1>1, <2>3
  <2>8. FilterOK(<<g[3], s, s>>, round)
    BY <1>1, <2>3
  <2>9. FilterOK(<<g[1], s, s>>, round)
    BY <1>1, <2>3
  <2>10. FilterOK(<<g[1], g[2], s>>, round)
    BY <1>1, <2>3
  <2> QED BY <2>1, <2>4, <2>5, <2>6, <2>7, <2>8, <2>9, <2>10
<1>5. RunningMax(f, win, round, value)
        = IF f[1].value = 0 \/ value >= f[1].value \/ round - f[3].time > win
          THEN FilterReset(round, value)
          ELSE SubwinUpdate(Kept(f, s, LAMBDA a, b : a >= b), win, s)
  BY DEF RunningMax
<1>6. CASE f[1].value = 0 \/ value >= f[1].value \/ round - f[3].time > win
  BY <1>3, <1>5, <1>6, Zenon
<1>7. CASE ~(f[1].value = 0 \/ value >= f[1].value \/ round - f[3].time > win)
  <2>1. value < f[1].value
    BY <1>2, <1>7
  <2> HIDE DEF s
  <2> QED BY <1>4, <1>5, <1>7, <2>1, Zenon
<1> QED BY <1>6, <1>7

BBRFields ==
  {"mode", "bytes_in_flight", "round_count", "max_bandwidth", "max_ack_height", "epoch_bytes",
   "epoch_start", "min_rtt", "min_rtt_at", "cwnd", "cwnd_gain", "pacing_rate", "pacing_gain",
   "cycle", "cycle_start", "rounds_wo_gain", "bw_at_last_round", "exit_probe_rtt_at",
   "probe_rtt_round_passed", "in_ack", "last_app_limited", "has_non_app_limited",
   "full_bandwidth", "total_sent", "total_acked", "last_acked_total_sent",
   "last_acked_sent_time", "last_acked_time", "last_sent", "app_limited",
   "end_of_app_limited", "queue", "ack", "failed"}

\* d has the fields of b, and other values in F only.
Changes(b, d, F) ==
  /\ d = [k \in BBRFields |-> d[k]]
  /\ \A k \in BBRFields \ F : d[k] = b[k]

BBRRecord(b) == b = [k \in BBRFields |-> b[k]]

LEMMA TakeSampleIs ==
  ASSUME NEW b, BBRRecord(b), NEW s \in Sample, b.round_count \in Int,
         FilterOK(b.max_bandwidth, b.round_count),
         NEW d, d = TakeSample(b, s)
  PROVE  /\ Changes(b, d, {"last_app_limited", "has_non_app_limited", "max_bandwidth"})
         /\ FilterOK(d.max_bandwidth, b.round_count)
         /\ ~d.last_app_limited => d.has_non_app_limited
<1>1. PICK m : m = IF ~s.app_limited \/ s.bandwidth > MaxBandwidth(b)
                   THEN RunningMax(b.max_bandwidth, BwWindow, b.round_count, s.bandwidth)
                   ELSE b.max_bandwidth
  OBVIOUS
<1>2. PICK h : h = (b.has_non_app_limited \/ ~s.app_limited)
  OBVIOUS
<1>3. d = [b EXCEPT !.last_app_limited = s.app_limited, !.has_non_app_limited = h, !.max_bandwidth = m]
  BY <1>1, <1>2 DEF TakeSample
<1>4. FilterOK(m, b.round_count)
  <2>1. s.bandwidth \in Int /\ BwWindow \in Int
    BY BBRAssumption DEF Sample
  <2> QED BY <1>1, <2>1, RunningMaxOK
<1>5. d.last_app_limited = s.app_limited /\ d.has_non_app_limited = h /\ d.max_bandwidth = m
  BY ZenonT(60), <1>3 DEF BBRRecord, BBRFields
<1>6. Changes(b, d, {"last_app_limited", "has_non_app_limited", "max_bandwidth"})
  BY <1>3 DEF Changes, BBRRecord, BBRFields
<1> QED BY <1>2, <1>4, <1>5, <1>6

\* What the loop over the samples of an ACK leaves
LEMMA TakeSamplesIs ==
  ASSUME NEW b, BBRRecord(b), NEW s \in Seq(Sample), b.round_count \in Int,
         FilterOK(b.max_bandwidth, b.round_count),
         NEW d, d = SamplesTaken(b, s)
  PROVE  /\ Changes(b, d, {"last_app_limited", "has_non_app_limited", "max_bandwidth"})
         /\ FilterOK(d.max_bandwidth, b.round_count)
         /\ s # <<>> /\ ~d.last_app_limited => d.has_non_app_limited
<1> DEFINE F == {"last_app_limited", "has_non_app_limited", "max_bandwidth"}
           Good(e) == Changes(b, e, F) /\ FilterOK(e.max_bandwidth, b.round_count)
<1>1. PICK f : /\ f[0] = b /\ f[Len(s)] = d
               /\ \A i \in 0 .. Len(s) - 1 : f[i + 1] = TakeSample(f[i], s[i + 1])
  BY FoldOfSamples
<1>2. Good(b)
  BY DEF Changes, BBRRecord
<1>3. ASSUME NEW i \in 0 .. Len(s) - 1, Good(f[i])
      PROVE  Good(f[i + 1]) /\ (~f[i + 1].last_app_limited => f[i + 1].has_non_app_limited)
  <2>1. PICK e, g, x : e = f[i] /\ g = f[i + 1] /\ x = s[i + 1]
    OBVIOUS
  <2>2. x \in Sample /\ g = TakeSample(e, x)
    <3>1. i + 1 \in 1 .. Len(s)
      OBVIOUS
    <3> QED BY <1>1, <2>1, <3>1
  <2>3. BBRRecord(e) /\ e.round_count = b.round_count /\ FilterOK(e.max_bandwidth, e.round_count)
    BY <1>3, <2>1 DEF Changes, BBRRecord, BBRFields
  <2>4. /\ Changes(e, g, F) /\ FilterOK(g.max_bandwidth, e.round_count)
        /\ ~g.last_app_limited => g.has_non_app_limited
    BY <2>2, <2>3, TakeSampleIs
  <2>5. Changes(b, g, F)
    BY <1>3, <2>1, <2>4 DEF Changes
  <2> QED BY <2>1, <2>3, <2>4, <2>5
<1> HIDE DEF Good
<1>4. PICK D : D = {k \in Nat : k <= Len(s) => Good(f[k])}
  OBVIOUS
<1>5. 0 \in D
  BY <1>1, <1>2, <1>4
<1>6. ASSUME NEW k \in Nat, k \in D  PROVE k + 1 \in D
  <2>1. CASE k + 1 <= Len(s)
    <3>1. k \in 0 .. Len(s) - 1 /\ Good(f[k])
      BY <1>4, <1>6, <2>1
    <3> QED BY <1>3, <1>4, <3>1
  <2> QED BY <1>4, <2>1
<1>7. \A k \in Nat : k \in D
  BY <1>5, <1>6, Counting
<1>8. Len(s) \in Nat /\ Good(f[Len(s)])
  BY <1>4, <1>7
<1>9. s # <<>> /\ ~d.last_app_limited => d.has_non_app_limited
  <2>1. CASE s # <<>>
    <3>1. Len(s) - 1 \in 0 .. Len(s) - 1 /\ Len(s) - 1 \in Nat /\ Len(s) - 1 + 1 = Len(s)
      BY <2>1
    <3>2. Good(f[Len(s) - 1])
      BY <1>4, <1>7, <3>1
    <3> QED BY <1>1, <1>3, <3>1, <3>2
  <2> QED BY <2>1
<1> QED BY <1>1, <1>8, <1>9 DEF Good

NumFields ==
  {"round_count", "epoch_bytes", "epoch_start", "min_rtt", "cwnd", "cwnd_gain", "pacing_gain",
   "cycle", "total_sent", "total_acked", "last_acked_total_sent", "last_acked_sent_time",
   "last_acked_time"}

\* Numbers and filters
Measured(b) ==
  /\ BBRRecord(b)
  /\ \A k \in NumFields : b[k] \in Int
  /\ FilterOK(b.max_bandwidth, b.round_count) /\ FilterOK(b.max_ack_height, b.round_count)

\* Mode, gains and the full bandwidth mark agree, but for a mark just set.
Modes == {"StartUp", "Drain", "ProbeBw", "ProbeRtt"}
Agreeing(b) ==
  /\ ~b.failed /\ b.mode \in Modes
  /\ b.mode = "StartUp" => b.pacing_gain = HighGain
  /\ b.mode \in {"Drain", "ProbeBw"} => b.full_bandwidth
  /\ b.mode = "ProbeBw" => b.pacing_gain = PacingGain(b.cycle)

NotMarked(b) == b.mode = "StartUp" => ~b.full_bandwidth

WindowOK(b) == MinCwnd <= b.cwnd /\ b.cwnd <= MaxCwnd

\* What an ACK leaves to be used by end_ack
AckOK(b) ==
  /\ b.ack = [k \in {"time", "bytes", "in_flight", "acked_before", "samples"} |-> b.ack[k]]
  /\ {b.ack.time, b.ack.bytes, b.ack.acked_before} \subseteq Int
  /\ b.ack.samples \in Seq(Sample)
  /\ b.ack.bytes > 0 => b.ack.samples # <<>>

\* While an ACK that came at t is processed
Answering(b, t) == b.in_ack = TRUE /\ AckOK(b) /\ b.ack.time = t

LEMMA MaxBandwidthIs ==
  ASSUME NEW b, Measured(b)
  PROVE  MaxBandwidth(b) \in Int
BY DEF Measured, FilterOK, MaxBandwidth

LEMMA TargetCwndIs ==
  ASSUME NEW b, Measured(b), NEW gain \in Int
  PROVE  TargetCwnd(b, gain) \in Int
<1>1. MaxBandwidth(b) \in Int
  BY MaxBandwidthIs
<1>2. MinRtt(b) \in Int
  BY BBRAssumption DEF Measured, NumFields, MinRtt
<1>3. {MinCwnd, InitCwnd, BwUnit} \subseteq Nat \ {0}
  BY BBRAssumption
<1>4. PICK p \in Int : p = MaxBandwidth(b) * MinRtt(b)
  BY <1>1, <1>2
<1>5. PICK t \in Int : t = Times(p, gain)
  BY DEF Times
<1>6. t \div BwUnit \in Int
  BY <1>3
<1>7. Times(InitCwnd, gain) \in Int
  BY <1>3 DEF Times
<1> QED BY <1>3, <1>4, <1>5, <1>6, <1>7 DEF TargetCwnd

\* update_bandwidth_and_min_rtt
LEMMA UpdateMinRttIs ==
  ASSUME NEW b, Measured(b), AckOK(b), NEW d, d = UpdateMinRtt(b)
  PROVE  Measured(d) /\ Changes(b, d, {"min_rtt", "min_rtt_at"})
<1>1. CASE b.ack.samples = <<>>
  <2>1. d = b
    BY <1>1 DEF UpdateMinRtt
  <2> QED BY <2>1 DEF Changes, Measured, BBRRecord
<1>2. CASE b.ack.samples # <<>>
  <2> DEFINE S == {s.rtt : s \in Range(b.ack.samples)}
  <2>1. PICK q \in Seq(Sample) : q = b.ack.samples /\ q # <<>>
    BY <1>2 DEF AckOK
  <2>2. S \subseteq Int
    <3>1. Range(q) \subseteq Sample
      BY DEF Range
    <3> QED BY <2>1, <3>1 DEF Sample
  <2>3. S # {}
    <3>1. q[1] \in Range(q)
      BY <2>1 DEF Range
    <3> QED BY <2>1, <3>1
  <2>4. IsFiniteSet(S)
    <3>1. IsFiniteSet(1 .. Len(q)) /\ DOMAIN q = 1 .. Len(q)
      BY FS_Interval
    <3> DEFINE f == [i \in DOMAIN q |-> q[i].rtt]
    <3>2. f \in Surjection(DOMAIN q, S)
      BY <2>1 DEF Surjection, Range
    <3> HIDE DEF f, S
    <3> QED BY <3>1, <3>2, FS_Surjection
  <2>5. PICK r \in Int : r = SampleRtt(b)
    <3>1. Min(S) \in S
      <4> HIDE DEF S
      <4> QED BY <2>2, <2>3, <2>4, MinOfFinite
    <3>2. SampleRtt(b) = Min(S)
      BY DEF SampleRtt
    <3> HIDE DEF S
    <3> QED BY <2>2, <3>1, <3>2
  <2>6. PICK t : t = b.ack.time
    OBVIOUS
  <2>7. d = [b EXCEPT !.min_rtt = r, !.min_rtt_at = t] \/ d = b
    BY <2>5, <2>6, Zenon DEF UpdateMinRtt
  <2>8. Changes(b, d, {"min_rtt", "min_rtt_at"}) /\ (d.min_rtt = r \/ d.min_rtt = b.min_rtt)
    BY <2>7 DEF Changes, Measured, BBRRecord, BBRFields
  <2>9. \A k \in NumFields : d[k] \in Int
    <3>1. \A k \in NumFields \ {"min_rtt"} : d[k] = b[k]
      BY <2>8 DEF Changes, NumFields, BBRFields
    <3>2. \A k \in NumFields : b[k] \in Int
      BY DEF Measured
    <3>3. d.min_rtt \in Int
      BY <2>5, <2>8, <3>2 DEF NumFields
    <3> QED BY <3>1, <3>2, <3>3
  <2>10. /\ d.max_bandwidth = b.max_bandwidth /\ d.round_count = b.round_count
         /\ d.max_ack_height = b.max_ack_height
    BY <2>8 DEF Changes, BBRFields
  <2> QED BY <2>8, <2>9, <2>10 DEF Measured, Changes, BBRRecord
<1> QED BY <1>1, <1>2

\* update_ack_aggregation_bytes
LEMMA UpdateAckAggregationIs ==
  ASSUME NEW b, Measured(b), AckOK(b), NEW bytes \in Int, NEW d, d = UpdateAckAggregation(b, bytes)
  PROVE  Measured(d) /\ Changes(b, d, {"epoch_bytes", "epoch_start", "max_ack_height"})
<1>1. /\ b.ack.time \in Int /\ b.epoch_start \in Int /\ b.epoch_bytes \in Int /\ MaxBandwidth(b) \in Int
      /\ b.round_count \in Int
  BY MaxBandwidthIs DEF AckOK, Measured, NumFields
<1>2. PICK x \in Int : x = MaxBandwidth(b) * (b.ack.time - b.epoch_start)
  BY <1>1
<1>3. PICK v \in Int : v = b.epoch_bytes + bytes - x
  BY <1>1, <1>2
<1>4. PICK m : m = RunningMax(b.max_ack_height, BwWindow, b.round_count, v)
  OBVIOUS
<1>5. PICK n \in Int : n = b.epoch_bytes + bytes
  BY <1>1
<1>6. PICK t \in Int : t = b.ack.time
  BY <1>1
<1>7. FilterOK(m, b.round_count)
  BY <1>1, <1>4, RunningMaxOK, BBRAssumption DEF Measured
<1>8. \/ d = [b EXCEPT !.epoch_bytes = bytes, !.epoch_start = t]
      \/ d = [b EXCEPT !.epoch_bytes = n, !.max_ack_height = m]
  BY <1>2, <1>3, <1>4, <1>5, <1>6 DEF UpdateAckAggregation
<1>9. /\ Changes(b, d, {"epoch_bytes", "epoch_start", "max_ack_height"})
      /\ d.epoch_bytes \in Int /\ d.epoch_start \in Int
      /\ d.max_ack_height = m \/ d.max_ack_height = b.max_ack_height
  BY ZenonT(60), <1>1, <1>8 DEF Changes, Measured, BBRRecord, BBRFields
<1>10. \A k \in NumFields : d[k] \in Int
  BY <1>9 DEF Changes, Measured, NumFields, BBRFields
<1>11. d.max_bandwidth = b.max_bandwidth /\ d.round_count = b.round_count
  BY <1>9 DEF Changes, BBRFields
<1> QED BY <1>7, <1>9, <1>10, <1>11 DEF Measured, Changes, BBRRecord

\* update_gain_cycle_phase
LEMMA UpdateGainCyclePhaseIs ==
  ASSUME NEW b, Measured(b), Agreeing(b), NEW d, d = UpdateGainCyclePhase(b)
  PROVE  /\ Measured(d) /\ Agreeing(d)
         /\ Changes(b, d, {"cycle", "cycle_start", "pacing_gain"})
<1>1. PICK n : n = (b.cycle + 1) % 8
  OBVIOUS
<1>2. n \in Int /\ PacingGain(n) \in Int
  <2>1. b.cycle + 1 \in Int
    BY DEF Measured, NumFields
  <2> QED BY <1>1, <2>1 DEF PacingGain
<1>3. PICK g, t : g = PacingGain(n) /\ t = b.ack.time
  OBVIOUS
<1>4. CASE d = b
  BY <1>4 DEF Changes, Measured, BBRRecord
<1>5. CASE b.mode = "ProbeBw" /\ d = [b EXCEPT !.cycle = n, !.cycle_start = t, !.pacing_gain = g]
  <2>1. /\ Changes(b, d, {"cycle", "cycle_start", "pacing_gain"})
        /\ d.cycle = n /\ d.pacing_gain = g
    BY <1>5 DEF Changes, Measured, BBRRecord, BBRFields
  <2>2. \A k \in NumFields : d[k] \in Int
    BY <1>2, <1>3, <2>1 DEF Changes, Measured, NumFields, BBRFields
  <2>3. /\ d.max_bandwidth = b.max_bandwidth /\ d.round_count = b.round_count
        /\ d.max_ack_height = b.max_ack_height /\ d.mode = b.mode
        /\ d.failed = b.failed /\ d.full_bandwidth = b.full_bandwidth
    BY <2>1 DEF Changes, BBRFields
  <2>4. Measured(d)
    BY <2>1, <2>2, <2>3 DEF Measured, Changes, BBRRecord
  <2>5. Agreeing(d)
    BY <1>3, <1>5, <2>1, <2>3 DEF Agreeing
  <2> QED BY <2>1, <2>4, <2>5
<1>6. d = b \/ (b.mode = "ProbeBw" /\ d = [b EXCEPT !.cycle = n, !.cycle_start = t, !.pacing_gain = g])
  BY <1>1, <1>3, Zenon DEF UpdateGainCyclePhase
<1> QED BY <1>4, <1>5, <1>6

\* check_if_full_bw_reached: the assertion holds once a sample was taken.
LEMMA CheckIfFullBwReachedIs ==
  ASSUME NEW b, Measured(b), Agreeing(b), ~b.last_app_limited => b.has_non_app_limited,
         NEW d, d = CheckIfFullBwReached(b)
  PROVE  /\ Measured(d) /\ Agreeing(d)
         /\ Changes(b, d, {"rounds_wo_gain", "bw_at_last_round", "full_bandwidth"})
<1> DEFINE gained == MaxBandwidth(b) >= Times(b.bw_at_last_round, 125)
<1>1. PICK r : r = IF gained THEN 1 ELSE b.rounds_wo_gain + 1
  OBVIOUS
<1>2. PICK w : w = IF gained THEN MaxBandwidth(b) ELSE b.bw_at_last_round
  OBVIOUS
<1>3. PICK c : c = [b EXCEPT !.rounds_wo_gain = r, !.bw_at_last_round = w]
  OBVIOUS
<1>4. c = [b EXCEPT !.rounds_wo_gain = r, !.bw_at_last_round = IF gained THEN MaxBandwidth(b) ELSE @]
  BY <1>2, <1>3
<1>5. Changes(b, c, {"rounds_wo_gain", "bw_at_last_round"})
  BY <1>3 DEF Changes, Measured, BBRRecord, BBRFields
<1>6. \/ d = b
      \/ d = c
      \/ ~b.last_app_limited /\ d = [Check(c, c.has_non_app_limited) EXCEPT !.full_bandwidth = TRUE]
  BY <1>1, <1>4, Zenon DEF CheckIfFullBwReached
<1>7. \/ d = b \/ d = c \/ d = [c EXCEPT !.full_bandwidth = TRUE]
  <2>1. c.has_non_app_limited = b.has_non_app_limited
    BY <1>5 DEF Changes, BBRFields
  <2> QED BY <1>6, <2>1 DEF Check
<1>8. /\ Changes(b, d, {"rounds_wo_gain", "bw_at_last_round", "full_bandwidth"})
      /\ d.full_bandwidth = b.full_bandwidth \/ d.full_bandwidth = TRUE
  BY <1>5, <1>7 DEF Changes, Measured, BBRRecord, BBRFields
<1>9. \A k \in NumFields : d[k] \in Int
  BY <1>8 DEF Changes, Measured, NumFields, BBRFields
<1>10. /\ d.max_bandwidth = b.max_bandwidth /\ d.round_count = b.round_count
       /\ d.max_ack_height = b.max_ack_height /\ d.mode = b.mode
       /\ d.failed = b.failed /\ d.pacing_gain = b.pacing_gain /\ d.cycle = b.cycle
  BY <1>8 DEF Changes, BBRFields
<1>11. Measured(d)
  BY <1>8, <1>9, <1>10 DEF Measured, Changes, BBRRecord
<1>12. Agreeing(d)
  BY <1>8, <1>10 DEF Agreeing
<1> QED BY <1>8, <1>11, <1>12

ModeFields == {"mode", "pacing_gain", "cwnd_gain", "cycle", "cycle_start"}

\* A change of mode
LEMMA ModeChange ==
  ASSUME NEW b, Measured(b), ~b.failed, NEW d, Changes(b, d, ModeFields),
         {d.pacing_gain, d.cwnd_gain, d.cycle} \subseteq Int, d.mode \in Modes,
         d.mode = "StartUp" => d.pacing_gain = HighGain /\ ~d.full_bandwidth,
         d.mode \in {"Drain", "ProbeBw"} => d.full_bandwidth,
         d.mode = "ProbeBw" => d.pacing_gain = PacingGain(d.cycle)
  PROVE  Measured(d) /\ Agreeing(d) /\ NotMarked(d)
<1>1. \A k \in NumFields : d[k] \in Int
  BY DEF Changes, Measured, NumFields, BBRFields, ModeFields
<1>2. /\ d.max_bandwidth = b.max_bandwidth /\ d.round_count = b.round_count
      /\ d.max_ack_height = b.max_ack_height /\ d.failed = b.failed
  BY DEF Changes, BBRFields, ModeFields
<1>3. Measured(d)
  BY <1>1, <1>2 DEF Measured, Changes, BBRRecord
<1>4. Agreeing(d) /\ NotMarked(d)
  BY <1>2 DEF Agreeing, NotMarked
<1> QED BY <1>3, <1>4

LEMMA EnterProbeBwIs ==
  ASSUME NEW b, Measured(b), ~b.failed, b.full_bandwidth, NEW offset \in Int, NEW now_1,
         NEW d, d = EnterProbeBw(b, offset, now_1)
  PROVE  Measured(d) /\ Agreeing(d) /\ NotMarked(d) /\ Changes(b, d, ModeFields)
<1>1. PICK g : g = PacingGain(offset)
  OBVIOUS
<1>2. g \in Int
  BY <1>1 DEF PacingGain
<1>3. PICK e : e = [b EXCEPT !.mode = "ProbeBw", !.cwnd_gain = ProbeBwGain]
  OBVIOUS
<1>4. Changes(b, e, ModeFields) /\ e.mode = "ProbeBw" /\ e.cwnd_gain = ProbeBwGain
  BY <1>3 DEF Changes, Measured, BBRRecord, BBRFields, ModeFields
<1>5. d = [e EXCEPT !.cycle = offset, !.cycle_start = now_1, !.pacing_gain = g]
  BY <1>1, <1>3 DEF EnterProbeBw, Measured, BBRRecord, BBRFields
<1>6. /\ Changes(b, d, ModeFields) /\ d.mode = "ProbeBw" /\ d.cwnd_gain = ProbeBwGain
      /\ d.cycle = offset /\ d.pacing_gain = g
  BY ZenonT(60), <1>4, <1>5 DEF Changes, BBRFields, ModeFields
<1>7. d.full_bandwidth
  BY <1>6 DEF Changes, BBRFields, ModeFields
<1>8. /\ {d.pacing_gain, d.cwnd_gain, d.cycle} \subseteq Int /\ d.mode \in Modes
      /\ d.mode = "StartUp" => d.pacing_gain = HighGain /\ ~d.full_bandwidth
      /\ d.mode \in {"Drain", "ProbeBw"} => d.full_bandwidth
      /\ d.mode = "ProbeBw" => d.pacing_gain = PacingGain(d.cycle)
  BY <1>1, <1>2, <1>6, <1>7 DEF Modes, ProbeBwGain
<1> QED BY <1>6, <1>8, ModeChange

LEMMA EnterStartupIs ==
  ASSUME NEW b, Measured(b), ~b.failed, ~b.full_bandwidth, NEW d, d = EnterStartup(b)
  PROVE  Measured(d) /\ Agreeing(d) /\ NotMarked(d) /\ Changes(b, d, ModeFields)
<1>1. /\ Changes(b, d, ModeFields) /\ d.mode = "StartUp" /\ d.cwnd_gain = HighGain
      /\ d.pacing_gain = HighGain /\ d.cycle = b.cycle
  BY DEF EnterStartup, Changes, Measured, BBRRecord, BBRFields, ModeFields
<1>2. ~d.full_bandwidth
  BY <1>1 DEF Changes, BBRFields, ModeFields
<1>3. b.cycle \in Int
  BY DEF Measured, NumFields
<1>4. /\ {d.pacing_gain, d.cwnd_gain, d.cycle} \subseteq Int /\ d.mode \in Modes
      /\ d.mode = "StartUp" => d.pacing_gain = HighGain /\ ~d.full_bandwidth
      /\ d.mode \in {"Drain", "ProbeBw"} => d.full_bandwidth
      /\ d.mode = "ProbeBw" => d.pacing_gain = PacingGain(d.cycle)
  BY <1>1, <1>2, <1>3 DEF Modes, HighGain
<1> QED BY <1>1, <1>4, ModeChange

\* maybe_exit_startup_or_drain
LEMMA ExitStartupOrDrainIs ==
  ASSUME NEW b, Measured(b), Agreeing(b), NEW offset \in Int, NEW d, d = ExitStartupOrDrain(b, offset)
  PROVE  Measured(d) /\ Agreeing(d) /\ NotMarked(d) /\ Changes(b, d, ModeFields)
<1>1. PICK c : c = IF b.mode = "StartUp" /\ b.full_bandwidth
                   THEN [b EXCEPT !.mode = "Drain", !.pacing_gain = DrainGain, !.cwnd_gain = HighGain]
                   ELSE b
  OBVIOUS
<1>2. d = c \/ (c.mode = "Drain" /\ d = EnterProbeBw(c, offset, c.ack.time))
  BY <1>1, Zenon DEF ExitStartupOrDrain
<1>3. Measured(c) /\ Agreeing(c) /\ NotMarked(c) /\ Changes(b, c, ModeFields)
  <2>1. CASE ~(b.mode = "StartUp" /\ b.full_bandwidth)
    <3>1. c = b
      BY <1>1, <2>1
    <3> QED BY <2>1, <3>1 DEF NotMarked, Changes, Measured, BBRRecord
  <2>2. CASE b.mode = "StartUp" /\ b.full_bandwidth
    <3>1. c = [b EXCEPT !.mode = "Drain", !.pacing_gain = DrainGain, !.cwnd_gain = HighGain]
      BY <1>1, <2>2
    <3>2. /\ Changes(b, c, ModeFields) /\ c.mode = "Drain" /\ c.cwnd_gain = HighGain
          /\ c.pacing_gain = DrainGain /\ c.cycle = b.cycle /\ c.full_bandwidth
      BY <2>2, <3>1 DEF Changes, Measured, BBRRecord, BBRFields, ModeFields
    <3>3. b.cycle \in Int /\ ~b.failed
      BY DEF Measured, NumFields, Agreeing
    <3>4. /\ {c.pacing_gain, c.cwnd_gain, c.cycle} \subseteq Int /\ c.mode \in Modes
          /\ c.mode = "StartUp" => c.pacing_gain = HighGain /\ ~c.full_bandwidth
          /\ c.mode \in {"Drain", "ProbeBw"} => c.full_bandwidth
          /\ c.mode = "ProbeBw" => c.pacing_gain = PacingGain(c.cycle)
      BY <3>2, <3>3 DEF Modes, HighGain, DrainGain
    <3> QED BY <3>2, <3>3, <3>4, ModeChange
  <2> QED BY <2>1, <2>2
<1>4. CASE d = c
  BY <1>3, <1>4
<1>5. CASE c.mode = "Drain" /\ d = EnterProbeBw(c, offset, c.ack.time)
  <2>1. c.full_bandwidth /\ ~c.failed
    BY <1>3, <1>5 DEF Agreeing
  <2>2. Measured(d) /\ Agreeing(d) /\ NotMarked(d) /\ Changes(c, d, ModeFields)
    BY <1>3, <1>5, <2>1, EnterProbeBwIs
  <2>3. Changes(b, d, ModeFields)
    BY <1>3, <2>2 DEF Changes
  <2> QED BY <2>2, <2>3
<1> QED BY <1>2, <1>4, <1>5

\* maybe_enter_or_exit_probe_rtt
ProbeFields ==
  ModeFields \cup {"exit_probe_rtt_at", "probe_rtt_round_passed", "min_rtt_at", "app_limited", "end_of_app_limited"}

\* Fields that nothing else depends on
LEMMA SideChange ==
  ASSUME NEW b, Measured(b), Agreeing(b), NotMarked(b),
         NEW F, F \subseteq ProbeFields \ ModeFields, NEW d, Changes(b, d, F)
  PROVE  Measured(d) /\ Agreeing(d) /\ NotMarked(d) /\ d.mode = b.mode
<1>1. \A k \in NumFields : d[k] = b[k]
  BY DEF Changes, NumFields, BBRFields, ProbeFields, ModeFields
<1>2. /\ d.max_bandwidth = b.max_bandwidth /\ d.round_count = b.round_count
      /\ d.max_ack_height = b.max_ack_height /\ d.failed = b.failed /\ d.mode = b.mode
      /\ d.pacing_gain = b.pacing_gain /\ d.cycle = b.cycle /\ d.full_bandwidth = b.full_bandwidth
  BY DEF Changes, BBRFields, ProbeFields, ModeFields
<1>3. Measured(d)
  BY <1>1, <1>2 DEF Measured, Changes, BBRRecord
<1> QED BY <1>2, <1>3 DEF Agreeing, NotMarked

LEMMA ProbeRttIs ==
  ASSUME NEW b, Measured(b), Agreeing(b), NotMarked(b), NEW round, NEW expired, NEW offset \in Int,
         NEW d, d = ProbeRtt(b, round, expired, offset)
  PROVE  /\ Measured(d) /\ Agreeing(d) /\ NotMarked(d) /\ Changes(b, d, ProbeFields)
         /\ d.app_limited \in {TRUE, b.app_limited}
<1> DEFINE enter == expired /\ b.mode # "ProbeRtt"
           G == ProbeFields \ ModeFields
<1>1. PICK c : c = IF enter
                   THEN [b EXCEPT !.mode = "ProbeRtt", !.pacing_gain = 100, !.exit_probe_rtt_at = Never]
                   ELSE b
  OBVIOUS
<1>2. PICK a : a = AppLimited(c)
  OBVIOUS
<1>3. PICK passed : passed = (a.probe_rtt_round_passed \/ round)
  OBVIOUS
<1>4. PICK e : e = [a EXCEPT !.probe_rtt_round_passed = passed]
  OBVIOUS
<1>5. PICK f : f = [e EXCEPT !.min_rtt_at = b.ack.time]
  OBVIOUS
<1>6. PICK x : x = b.ack.time + ProbeRttTime
  OBVIOUS
<1>7. PICK h : h = [a EXCEPT !.exit_probe_rtt_at = x, !.probe_rtt_round_passed = FALSE]
  OBVIOUS
<1>8. \/ d = c \/ d = h \/ d = a \/ d = e
      \/ f.full_bandwidth /\ d = EnterProbeBw(f, offset, b.ack.time)
      \/ ~f.full_bandwidth /\ d = EnterStartup(f)
  <2> DEFINE C == IF enter
                  THEN [b EXCEPT !.mode = "ProbeRtt", !.pacing_gain = 100, !.exit_probe_rtt_at = Never]
                  ELSE b
             A == AppLimited(C)
             P == A.probe_rtt_round_passed \/ round
             E == [A EXCEPT !.probe_rtt_round_passed = P]
             M == [E EXCEPT !.min_rtt_at = b.ack.time]
             H == [A EXCEPT !.exit_probe_rtt_at = b.ack.time + ProbeRttTime,
                            !.probe_rtt_round_passed = FALSE]
  <2>1. d = IF C.mode # "ProbeRtt" THEN C
            ELSE IF A.exit_probe_rtt_at = Never
            THEN IF A.bytes_in_flight < MinCwnd + ProbeRttSlack THEN H ELSE A
            ELSE IF b.ack.time >= A.exit_probe_rtt_at /\ P
            THEN IF M.full_bandwidth THEN EnterProbeBw(M, offset, b.ack.time) ELSE EnterStartup(M)
            ELSE E
    BY Zenon DEF ProbeRtt
  <2>2. c = C
    BY <1>1
  <2>3. a = A
    <3> HIDE DEF C
    <3> QED BY <1>2, <2>2
  <2> HIDE DEF C, A
  <2>4. e = E /\ h = H
    BY <1>3, <1>4, <1>6, <1>7, <2>3
  <2>5. f = M
    <3> HIDE DEF E
    <3> QED BY <1>5, <2>4
  <2> HIDE DEF E, H, M, P
  <2> QED BY <2>1, <2>2, <2>3, <2>4, <2>5
<1>9. /\ Measured(c) /\ Agreeing(c) /\ NotMarked(c) /\ Changes(b, c, ProbeFields)
      /\ c.app_limited = b.app_limited
  <2>1. CASE ~enter
    <3>1. c = b
      BY <1>1, <2>1
    <3> QED BY <3>1 DEF Changes, Measured, BBRRecord
  <2>2. CASE enter
    <3>1. PICK z : z = [b EXCEPT !.exit_probe_rtt_at = Never]
      OBVIOUS
    <3>2. Changes(b, z, {"exit_probe_rtt_at"}) /\ z.app_limited = b.app_limited
      BY <3>1 DEF Changes, Measured, BBRRecord, BBRFields
    <3>3. Measured(z) /\ Agreeing(z)
      <4>1. {"exit_probe_rtt_at"} \subseteq ProbeFields \ ModeFields
        BY DEF ProbeFields, ModeFields
      <4> QED BY <3>2, <4>1, SideChange
    <3>4. c = [z EXCEPT !.mode = "ProbeRtt", !.pacing_gain = 100]
      BY ZenonT(60), <1>1, <2>2, <3>1 DEF Measured, BBRRecord, BBRFields
    <3>5. /\ Changes(z, c, ModeFields) /\ c.mode = "ProbeRtt" /\ c.pacing_gain = 100
          /\ c.cwnd_gain = z.cwnd_gain /\ c.cycle = z.cycle /\ c.app_limited = z.app_limited
      BY <3>3, <3>4 DEF Changes, Measured, BBRRecord, BBRFields, ModeFields
    <3>6. {z.cwnd_gain, z.cycle} \subseteq Int /\ ~z.failed
      BY <3>3 DEF Measured, NumFields, Agreeing
    <3>7. /\ {c.pacing_gain, c.cwnd_gain, c.cycle} \subseteq Int /\ c.mode \in Modes
          /\ c.mode = "StartUp" => c.pacing_gain = HighGain /\ ~c.full_bandwidth
          /\ c.mode \in {"Drain", "ProbeBw"} => c.full_bandwidth
          /\ c.mode = "ProbeBw" => c.pacing_gain = PacingGain(c.cycle)
      BY <3>5, <3>6 DEF Modes
    <3>8. Measured(c) /\ Agreeing(c) /\ NotMarked(c)
      BY <3>3, <3>5, <3>6, <3>7, ModeChange
    <3>9. Changes(b, c, ProbeFields)
      BY <3>2, <3>5 DEF Changes, ProbeFields
    <3> QED BY <3>2, <3>5, <3>8, <3>9
  <2> QED BY <2>1, <2>2
<1>10. BBRRecord(c)
  BY <1>9 DEF Measured
<1>11. Changes(c, a, G) /\ a.app_limited = TRUE
  BY <1>2, <1>10 DEF AppLimited, Changes, BBRRecord, BBRFields, ProbeFields, ModeFields
<1>12. Changes(a, e, G) /\ Changes(a, h, G) /\ e.app_limited = TRUE /\ h.app_limited = TRUE
  BY ZenonT(60), <1>4, <1>7, <1>11 DEF Changes, BBRFields, ProbeFields, ModeFields
<1>13. Changes(e, f, G) /\ f.app_limited = TRUE
  BY <1>5, <1>12 DEF Changes, BBRFields, ProbeFields, ModeFields
<1>14. Changes(c, h, G) /\ Changes(c, e, G) /\ Changes(c, f, G)
  BY <1>11, <1>12, <1>13 DEF Changes
<1>15. \A y : Changes(c, y, G) => Changes(b, y, ProbeFields) /\ Measured(y) /\ Agreeing(y) /\ NotMarked(y)
  <2> SUFFICES ASSUME NEW y, Changes(c, y, G)
               PROVE  Changes(b, y, ProbeFields) /\ Measured(y) /\ Agreeing(y) /\ NotMarked(y)
    OBVIOUS
  <2>1. Measured(y) /\ Agreeing(y) /\ NotMarked(y)
    BY <1>9, SideChange
  <2>2. Changes(b, y, ProbeFields)
    BY <1>9 DEF Changes
  <2> QED BY <2>1, <2>2
<1>16. CASE d = c
  BY <1>9, <1>16
<1>17. CASE d = h \/ d = a \/ d = e
  <2> HIDE DEF G
  <2> QED BY <1>11, <1>12, <1>14, <1>15, <1>17
<1>18. ASSUME Measured(d), Agreeing(d), NotMarked(d), Changes(f, d, ModeFields)
       PROVE  Changes(b, d, ProbeFields) /\ d.app_limited = TRUE
  <2>1. Changes(b, f, ProbeFields)
    <3> HIDE DEF G
    <3> QED BY <1>14, <1>15
  <2>2. Changes(b, d, ProbeFields)
    BY <1>18, <2>1 DEF Changes, ProbeFields
  <2>3. d.app_limited = f.app_limited
    BY <1>18 DEF Changes, BBRFields, ModeFields
  <2> QED BY <1>13, <2>2, <2>3
<1>19. Measured(f) /\ ~f.failed
  <2>1. Measured(f) /\ Agreeing(f)
    <3> HIDE DEF G
    <3> QED BY <1>14, <1>15
  <2> QED BY <2>1 DEF Agreeing
<1>20. CASE f.full_bandwidth /\ d = EnterProbeBw(f, offset, b.ack.time)
  BY <1>18, <1>19, <1>20, EnterProbeBwIs
<1>21. CASE ~f.full_bandwidth /\ d = EnterStartup(f)
  BY <1>18, <1>19, <1>21, EnterStartupIs
<1> QED BY <1>8, <1>16, <1>17, <1>20, <1>21

\* What holds of the state between calls
BBROK(b) == Measured(b) /\ Agreeing(b) /\ NotMarked(b) /\ WindowOK(b) /\ b.app_limited \in BOOLEAN

\* What an ACK's end leaves alone
SentFields ==
  {"queue", "total_sent", "total_acked", "last_acked_total_sent", "last_acked_sent_time",
   "last_acked_time", "last_sent", "bytes_in_flight"}

LEMMA CalculatePacingRateIs ==
  ASSUME NEW b, Measured(b), Agreeing(b), NotMarked(b), NEW d, d = CalculatePacingRate(b)
  PROVE  Measured(d) /\ Agreeing(d) /\ NotMarked(d) /\ Changes(b, d, {"pacing_rate"})
<1>1. PICK t : t = Times(MaxBandwidth(b), b.pacing_gain)
  OBVIOUS
<1>2. d = b \/ d = [b EXCEPT !.pacing_rate = t]
  BY <1>1, Zenon DEF CalculatePacingRate
<1>3. Changes(b, d, {"pacing_rate"})
  BY <1>2 DEF Changes, Measured, BBRRecord, BBRFields
<1>4. \A k \in NumFields : d[k] = b[k]
  BY <1>3 DEF Changes, NumFields, BBRFields
<1>5. /\ d.max_bandwidth = b.max_bandwidth /\ d.round_count = b.round_count
      /\ d.max_ack_height = b.max_ack_height /\ d.failed = b.failed /\ d.mode = b.mode
      /\ d.pacing_gain = b.pacing_gain /\ d.cycle = b.cycle /\ d.full_bandwidth = b.full_bandwidth
  BY <1>3 DEF Changes, BBRFields
<1>6. Measured(d)
  BY <1>3, <1>4, <1>5 DEF Measured, Changes, BBRRecord
<1> QED BY <1>3, <1>5, <1>6 DEF Agreeing, NotMarked

LEMMA CalculateCwndIs ==
  ASSUME NEW b, Measured(b), Agreeing(b), NotMarked(b), WindowOK(b), NEW acked \in Int,
         NEW d, d = CalculateCwnd(b, acked)
  PROVE  Measured(d) /\ Agreeing(d) /\ NotMarked(d) /\ WindowOK(d) /\ Changes(b, d, {"cwnd"})
<1>1. b.cwnd \in Int /\ b.cwnd_gain \in Int /\ b.max_ack_height[1].value \in Int
  BY DEF Measured, NumFields, FilterOK
<1>2. PICK target \in Int : target = TargetCwnd(b, b.cwnd_gain) + b.max_ack_height[1].value
  BY <1>1, TargetCwndIs
<1>3. PICK grown \in Int : grown = b.cwnd + acked
  BY <1>1
<1>4. PICK w \in Int : w = Clamped(IF b.full_bandwidth /\ target < grown THEN target ELSE grown)
  BY BBRAssumption DEF Clamped
<1>5. MinCwnd <= w /\ w <= MaxCwnd
  BY <1>4, BBRAssumption DEF Clamped
<1>6. d = b \/ d = [b EXCEPT !.cwnd = w]
  BY <1>2, <1>3, <1>4, Zenon DEF CalculateCwnd
<1>7. Changes(b, d, {"cwnd"}) /\ d.cwnd \in {w, b.cwnd}
  BY <1>6 DEF Changes, Measured, BBRRecord, BBRFields
<1>8. \A k \in NumFields : d[k] \in Int
  BY <1>1, <1>7 DEF Changes, Measured, NumFields, BBRFields
<1>9. /\ d.max_bandwidth = b.max_bandwidth /\ d.round_count = b.round_count
      /\ d.max_ack_height = b.max_ack_height /\ d.failed = b.failed /\ d.mode = b.mode
      /\ d.pacing_gain = b.pacing_gain /\ d.cycle = b.cycle /\ d.full_bandwidth = b.full_bandwidth
  BY <1>7 DEF Changes, BBRFields
<1>10. Measured(d)
  BY <1>7, <1>8, <1>9 DEF Measured, Changes, BBRRecord
<1>11. WindowOK(d)
  BY <1>5, <1>7 DEF WindowOK
<1> QED BY <1>7, <1>9, <1>10, <1>11 DEF Agreeing, NotMarked

\* bbr_end_ack
LEMMA BBREndAckIs ==
  ASSUME NEW b, BBROK(b), AckOK(b), b.in_ack = TRUE, NEW offset \in Int, NEW d, d = BBREndAck(b, offset)
  PROVE  /\ BBROK(d) /\ d.in_ack = FALSE /\ d.ack = NoAck
         /\ Changes(b, d, BBRFields \ SentFields)
<1> DEFINE F == BBRFields \ SentFields
<1>1. PICK acked \in Int : acked = b.total_acked - b.ack.acked_before
  BY DEF BBROK, Measured, NumFields, AckOK
<1>2. PICK round : round = (b.ack.bytes > 0)
  OBVIOUS
<1>3. PICK n \in Int : n = b.round_count + (IF round THEN 1 ELSE 0) /\ n >= b.round_count
  BY DEF BBROK, Measured, NumFields
<1>4. PICK b1 : b1 = [b EXCEPT !.in_ack = FALSE, !.round_count = n]
  OBVIOUS
<1>5. /\ Changes(b, b1, {"in_ack", "round_count"}) /\ b1.in_ack = FALSE /\ b1.round_count = n
  BY <1>4 DEF Changes, BBROK, Measured, BBRRecord, BBRFields
<1>6. /\ b1.max_bandwidth = b.max_bandwidth /\ b1.max_ack_height = b.max_ack_height
      /\ b1.failed = b.failed /\ b1.mode = b.mode /\ b1.cwnd = b.cwnd /\ b1.ack = b.ack
      /\ b1.pacing_gain = b.pacing_gain /\ b1.cycle = b.cycle /\ b1.full_bandwidth = b.full_bandwidth
      /\ b1.app_limited = b.app_limited
  BY <1>5 DEF Changes, BBRFields
<1>7. Measured(b1) /\ Agreeing(b1) /\ NotMarked(b1) /\ AckOK(b1)
  <2>1. \A k \in NumFields : b1[k] \in Int
    BY <1>5 DEF Changes, BBROK, Measured, NumFields, BBRFields
  <2>2. b.round_count \in Int
    BY DEF BBROK, Measured, NumFields
  <2>3. FilterOK(b1.max_bandwidth, n) /\ FilterOK(b1.max_ack_height, n)
    BY <1>3, <1>6, <2>2 DEF BBROK, Measured, FilterOK
  <2>4. Measured(b1)
    BY <1>5, <2>1, <2>3 DEF Measured, Changes, BBRRecord
  <2> QED BY <1>6, <2>4 DEF BBROK, Agreeing, NotMarked, AckOK
<1>8. PICK u : u = SamplesTaken(b1, b1.ack.samples)
  OBVIOUS
<1>9. PICK v : v = UpdateMinRtt(u)
  OBVIOUS
<1>10. PICK b2 : b2 = IF round THEN UpdateAckAggregation(v, acked) ELSE b1
  OBVIOUS
<1>11. PICK b3 : b3 = UpdateGainCyclePhase(b2)
  OBVIOUS
<1>12. PICK b4 : b4 = IF round THEN CheckIfFullBwReached(b3) ELSE b3
  OBVIOUS
<1>13. PICK x : x = ExitStartupOrDrain(b4, offset)
  OBVIOUS
<1>14. PICK b5 : b5 = ProbeRtt(x, round, round /\ MinRttExpired(b1), offset)
  OBVIOUS
<1>15. PICK y : y = CalculatePacingRate(b5)
  OBVIOUS
<1>16. PICK z : z = CalculateCwnd(y, acked)
  OBVIOUS
<1>17. d = [z EXCEPT !.ack = NoAck]
  <2> DEFINE N == b.total_acked - b.ack.acked_before
             R == b.ack.bytes > 0
             B1 == [Check(b, b.in_ack) EXCEPT !.in_ack = FALSE, !.round_count = @ + (IF R THEN 1 ELSE 0)]
             B2 == IF R THEN UpdateAckAggregation(UpdateBandwidthAndMinRtt(B1), N) ELSE B1
             B3 == UpdateGainCyclePhase(B2)
             B4 == IF R THEN CheckIfFullBwReached(B3) ELSE B3
             B5 == ProbeRtt(ExitStartupOrDrain(B4, offset), R, R /\ MinRttExpired(B1), offset)
  <2>1. d = [CalculateCwnd(CalculatePacingRate(B5), N) EXCEPT !.ack = NoAck]
    BY Zenon DEF BBREndAck
  <2>2. b1 = B1
    <3>1. Check(b, b.in_ack) = b
      BY DEF Check
    <3> QED BY <1>2, <1>3, <1>4, <3>1
  <2>3. round = R /\ acked = N
    BY <1>1, <1>2
  <2>4. UpdateBandwidthAndMinRtt(b1) = v
    BY <1>8, <1>9, Zenon DEF UpdateBandwidthAndMinRtt, SamplesTaken
  <2> HIDE DEF B1, R, N
  <2>5. b2 = B2
    BY <1>10, <2>2, <2>3, <2>4
  <2> HIDE DEF B2
  <2>6. b3 = B3
    BY <1>11, <2>5
  <2> HIDE DEF B3
  <2>7. b4 = B4
    BY <1>12, <2>3, <2>6
  <2> HIDE DEF B4
  <2>8. b5 = B5
    BY <1>13, <1>14, <2>2, <2>3, <2>7
  <2> HIDE DEF B5
  <2> QED BY <1>15, <1>16, <2>1, <2>3, <2>8
<1>18. /\ Measured(b2) /\ Agreeing(b2) /\ Changes(b1, b2, F) /\ WindowOK(b2)
       /\ b2.app_limited = b1.app_limited /\ b2.in_ack = b1.in_ack
       /\ round => (~b2.last_app_limited => b2.has_non_app_limited)
  <2>1. CASE ~round
    <3>1. b2 = b1
      BY <1>10, <2>1
    <3>2. WindowOK(b2)
      BY <1>6, <3>1 DEF WindowOK, BBROK
    <3> QED BY <1>7, <2>1, <3>1, <3>2 DEF Changes, Measured, BBRRecord
  <2>2. CASE round
    <3>1. b1.ack.samples # <<>> /\ b1.ack.samples \in Seq(Sample)
      BY <1>2, <1>6, <2>2 DEF AckOK
    <3>2. /\ BBRRecord(b1) /\ b1.round_count \in Int /\ FilterOK(b1.max_bandwidth, b1.round_count)
      BY <1>7 DEF Measured, NumFields
    <3>3. /\ Changes(b1, u, {"last_app_limited", "has_non_app_limited", "max_bandwidth"})
          /\ FilterOK(u.max_bandwidth, b1.round_count)
          /\ ~u.last_app_limited => u.has_non_app_limited
      <4>1. PICK s \in Seq(Sample) : s = b1.ack.samples /\ s # <<>>
        BY <3>1
      <4>2. u = SamplesTaken(b1, s)
        BY <1>8, <4>1
      <4> QED BY <3>2, <4>1, <4>2, TakeSamplesIs
    <3>4. Measured(u) /\ AckOK(u)
      <4>1. \A k \in NumFields : u[k] = b1[k]
        BY <3>3 DEF Changes, NumFields, BBRFields
      <4>2. u.round_count = b1.round_count /\ u.max_ack_height = b1.max_ack_height /\ u.ack = b1.ack
        BY <3>3 DEF Changes, BBRFields
      <4>3. Measured(u)
        BY <1>7, <3>3, <4>1, <4>2 DEF Measured, Changes, BBRRecord
      <4>4. AckOK(u)
        BY <1>7, <4>2 DEF AckOK
      <4> QED BY <4>3, <4>4
    <3>5. Measured(v) /\ Changes(u, v, {"min_rtt", "min_rtt_at"})
      BY <1>9, <3>4, UpdateMinRttIs
    <3>6. AckOK(v)
      <4>1. v.ack = u.ack
        BY <3>5 DEF Changes, BBRFields
      <4> QED BY <3>4, <4>1 DEF AckOK
    <3>7. Measured(b2) /\ Changes(v, b2, {"epoch_bytes", "epoch_start", "max_ack_height"})
      <4>1. b2 = UpdateAckAggregation(v, acked)
        BY <1>10, <2>2
      <4> QED BY <3>5, <3>6, <4>1, UpdateAckAggregationIs
    <3>8. Changes(b1, b2, {"last_app_limited", "has_non_app_limited", "max_bandwidth", "min_rtt",
                           "min_rtt_at", "epoch_bytes", "epoch_start", "max_ack_height"})
      BY <3>3, <3>5, <3>7 DEF Changes
    <3>9. /\ b2.last_app_limited = u.last_app_limited /\ b2.has_non_app_limited = u.has_non_app_limited
      BY <3>5, <3>7 DEF Changes, BBRFields
    <3>10. /\ b2.failed = b1.failed /\ b2.mode = b1.mode /\ b2.cwnd = b1.cwnd
           /\ b2.pacing_gain = b1.pacing_gain /\ b2.cycle = b1.cycle
           /\ b2.full_bandwidth = b1.full_bandwidth /\ b2.app_limited = b1.app_limited
           /\ b2.in_ack = b1.in_ack
      BY <3>8 DEF Changes, BBRFields
    <3>11. Agreeing(b2) /\ WindowOK(b2)
      BY <1>6, <1>7, <3>10 DEF Agreeing, WindowOK, BBROK
    <3>12. Changes(b1, b2, F)
      BY <3>8 DEF Changes, SentFields, BBRFields
    <3> QED BY <3>3, <3>7, <3>9, <3>10, <3>11, <3>12
  <2> QED BY <2>1, <2>2
<1>19. Measured(b3) /\ Agreeing(b3) /\ Changes(b2, b3, {"cycle", "cycle_start", "pacing_gain"})
  BY <1>11, <1>18, UpdateGainCyclePhaseIs
<1>20. /\ Measured(b4) /\ Agreeing(b4)
       /\ Changes(b3, b4, {"rounds_wo_gain", "bw_at_last_round", "full_bandwidth"})
  <2>1. CASE ~round
    BY <1>12, <1>19, <2>1 DEF Changes, Measured, BBRRecord
  <2>2. CASE round
    <3>1. b3.last_app_limited = b2.last_app_limited /\ b3.has_non_app_limited = b2.has_non_app_limited
      BY <1>19 DEF Changes, BBRFields
    <3> QED BY <1>12, <1>18, <1>19, <2>2, <3>1, CheckIfFullBwReachedIs
  <2> QED BY <2>1, <2>2
<1>21. Measured(x) /\ Agreeing(x) /\ NotMarked(x) /\ Changes(b4, x, ModeFields)
  BY <1>13, <1>20, ExitStartupOrDrainIs
<1>22. /\ Measured(b5) /\ Agreeing(b5) /\ NotMarked(b5) /\ Changes(x, b5, ProbeFields)
       /\ b5.app_limited \in {TRUE, x.app_limited}
  BY <1>14, <1>21, ProbeRttIs
<1>23. Measured(y) /\ Agreeing(y) /\ NotMarked(y) /\ Changes(b5, y, {"pacing_rate"})
  BY <1>15, <1>22, CalculatePacingRateIs
<1>24. Changes(b2, y, F) /\ y.cwnd = b2.cwnd /\ y.in_ack = b2.in_ack /\ y.app_limited \in BOOLEAN
  <2>1. Changes(b2, b4, {"cycle", "cycle_start", "pacing_gain", "rounds_wo_gain", "bw_at_last_round",
                         "full_bandwidth"})
    BY <1>19, <1>20 DEF Changes
  <2>2. Changes(b4, b5, ProbeFields)
    BY <1>21, <1>22 DEF Changes, ProbeFields
  <2>3. Changes(b2, y, ProbeFields \cup {"rounds_wo_gain", "bw_at_last_round", "full_bandwidth", "pacing_rate"})
    BY <1>23, <2>1, <2>2 DEF Changes, ProbeFields, ModeFields
  <2>4. y.cwnd = b2.cwnd /\ y.in_ack = b2.in_ack
    BY <2>3 DEF Changes, ProbeFields, ModeFields, BBRFields
  <2>5. Changes(b2, y, F)
    BY <2>3 DEF Changes, ProbeFields, ModeFields, BBRFields, SentFields
  <2>6. x.app_limited = b4.app_limited /\ b4.app_limited = b2.app_limited /\ y.app_limited = b5.app_limited
    BY <1>21, <1>23, <2>1 DEF Changes, ModeFields, BBRFields
  <2>7. b2.app_limited \in BOOLEAN
    BY <1>6, <1>18 DEF BBROK
  <2> QED BY <1>22, <2>4, <2>5, <2>6, <2>7
<1>25. WindowOK(y)
  BY <1>18, <1>24 DEF WindowOK
<1>26. Measured(z) /\ Agreeing(z) /\ NotMarked(z) /\ WindowOK(z) /\ Changes(y, z, {"cwnd"})
  BY <1>16, <1>23, <1>25, CalculateCwndIs
<1>27. Changes(z, d, {"ack"}) /\ d.ack = NoAck
  BY <1>17, <1>26 DEF Changes, Measured, BBRRecord, BBRFields
<1>28. BBROK(d)
  <2>1. \A k \in NumFields : d[k] = z[k]
    BY <1>27 DEF Changes, NumFields, BBRFields
  <2>2. /\ d.max_bandwidth = z.max_bandwidth /\ d.round_count = z.round_count
        /\ d.max_ack_height = z.max_ack_height /\ d.failed = z.failed /\ d.mode = z.mode
        /\ d.pacing_gain = z.pacing_gain /\ d.cycle = z.cycle /\ d.full_bandwidth = z.full_bandwidth
        /\ d.cwnd = z.cwnd /\ d.app_limited = z.app_limited
    BY <1>27 DEF Changes, BBRFields
  <2>3. z.app_limited = y.app_limited
    BY <1>26 DEF Changes, BBRFields
  <2>4. Measured(d)
    BY <1>26, <1>27, <2>1, <2>2 DEF Measured, Changes, BBRRecord
  <2> QED BY <1>24, <1>26, <2>2, <2>3, <2>4 DEF BBROK, Agreeing, NotMarked, WindowOK
<1>29. d.in_ack = FALSE
  BY <1>5, <1>18, <1>24, <1>26, <1>27 DEF Changes, BBRFields
<1>30. Changes(b, d, F)
  <2>1. Changes(b, b2, F)
    BY <1>5, <1>18 DEF Changes, BBRFields, SentFields
  <2>2. Changes(y, d, F)
    BY <1>26, <1>27 DEF Changes, BBRFields, SentFields
  <2> QED BY <1>24, <2>1, <2>2 DEF Changes
<1> QED BY <1>27, <1>28, <1>29, <1>30

Queued ==
  [pn : Nat, sent : Int, size : Int, total_sent : Int, total_acked : Int, app_limited : BOOLEAN,
   sent_at_last_ack : Int, last_ack_sent_time : Int, last_ack_time : Int]

\* BBR's own list holds every packet in flight, and none was sent before the
\* acknowledgement it remembers: so every acknowledged packet gives a sample.
QueueOK(b, ps, next, t) ==
  /\ b.queue \subseteq Queued
  /\ \A q \in b.queue : q.pn < next /\ q.last_ack_time <= q.sent
  /\ \A q, r \in b.queue : q.pn = r.pn => q = r
  /\ \A p \in ps : \E q \in b.queue : q.pn = p.pn /\ q.sent = p.time /\ q.size = p.size
  /\ b.last_acked_time <= t

\* Fields of the packets' bookkeeping
LEMMA BookChange ==
  ASSUME NEW b, BBROK(b), NEW F, F \subseteq SentFields \cup {"in_ack", "ack", "app_limited"},
         NEW d, Changes(b, d, F), \A k \in NumFields : d[k] \in Int, d.app_limited \in BOOLEAN
  PROVE  BBROK(d)
<1>1. /\ d.max_bandwidth = b.max_bandwidth /\ d.round_count = b.round_count
      /\ d.max_ack_height = b.max_ack_height /\ d.failed = b.failed /\ d.mode = b.mode
      /\ d.pacing_gain = b.pacing_gain /\ d.cycle = b.cycle /\ d.full_bandwidth = b.full_bandwidth
      /\ d.cwnd = b.cwnd
  BY DEF Changes, BBRFields, SentFields
<1>2. Measured(d)
  BY <1>1 DEF BBROK, Measured, Changes, BBRRecord
<1> QED BY <1>1, <1>2 DEF BBROK, Agreeing, NotMarked, WindowOK

LEMMA BBRStarts == BBROK(BBRInit) /\ BBRInit.in_ack = FALSE /\ BBRInit.queue = {} /\ BBRInit.last_acked_time = 0
<1>1. PICK b : b = BBRInit
  OBVIOUS
<1>2. BBRRecord(b)
  BY <1>1 DEF BBRInit, BBRRecord, BBRFields
<1>3. \A k \in NumFields : b[k] \in Int
  BY <1>1, BBRAssumption DEF BBRInit, NumFields, HighGain
<1>4. b.max_bandwidth = FilterReset(0, 0) /\ b.max_ack_height = FilterReset(0, 0) /\ b.round_count = 0
  BY <1>1 DEF BBRInit
<1>5. FilterOK(FilterReset(0, 0), 0)
  BY DEF FilterOK, FilterReset, Ordered
<1>6. /\ b.mode = "StartUp" /\ b.pacing_gain = HighGain /\ b.full_bandwidth = FALSE /\ b.failed = FALSE
      /\ b.cwnd = InitCwnd /\ b.app_limited = FALSE /\ b.in_ack = FALSE /\ b.queue = {}
      /\ b.last_acked_time = 0
  BY <1>1 DEF BBRInit
<1> QED BY <1>1, <1>2, <1>3, <1>4, <1>5, <1>6, BBRAssumption
        DEF BBROK, Measured, Agreeing, NotMarked, WindowOK, Modes

\* on_packet_sent_cc
LEMMA BBRSentIs ==
  ASSUME NEW b, BBROK(b), NEW ps, NEW next \in Nat, NEW t \in Nat, QueueOK(b, ps, next, t),
         NEW p \in Packets, p.pn = next, p.time = t,
         NEW d, d = BBRSent(b, next, p.size, t)
  PROVE  /\ BBROK(d) /\ d.in_ack = b.in_ack /\ d.ack = b.ack
         /\ d.bytes_in_flight = b.bytes_in_flight + p.size
         /\ QueueOK(d, ps \cup {p}, next + 1, t)
<1>1. /\ b.total_sent \in Int /\ b.total_acked \in Int /\ b.last_acked_time \in Int
      /\ b.last_acked_total_sent \in Int /\ b.last_acked_sent_time \in Int
      /\ p.size \in Nat /\ b.last_acked_time <= t
  BY DEF BBROK, Measured, NumFields, Packets, QueueOK
<1> DEFINE first == b.bytes_in_flight = 0
<1>2. PICK total \in Int : total = b.total_sent + p.size
  BY <1>1
<1>3. PICK n : n = b.bytes_in_flight + p.size
  OBVIOUS
<1>4. PICK lt \in Int : lt = IF first THEN t ELSE b.last_acked_time
  BY <1>1
<1>5. PICK ls \in Int : ls = IF first THEN total ELSE b.last_acked_total_sent
  BY <1>1
<1>6. PICK lst \in Int : lst = IF first THEN t ELSE b.last_acked_sent_time
  BY <1>1
<1>7. PICK c1 : c1 = [b EXCEPT !.total_sent = total, !.last_sent = next, !.bytes_in_flight = n]
  OBVIOUS
<1>8. PICK c : c = [c1 EXCEPT !.last_acked_time = lt, !.last_acked_total_sent = ls, !.last_acked_sent_time = lst]
  OBVIOUS
<1>9. /\ Changes(b, c1, SentFields) /\ c1.queue = b.queue /\ c1.total_acked = b.total_acked
      /\ c1.total_sent = total /\ c1.bytes_in_flight = n
  BY <1>7 DEF Changes, BBROK, Measured, BBRRecord, BBRFields, SentFields
<1>10. /\ Changes(b, c, SentFields) /\ c.queue = b.queue /\ c.total_acked = b.total_acked
       /\ c.last_acked_time = lt /\ c.last_acked_total_sent = ls /\ c.last_acked_sent_time = lst
       /\ c.total_sent = total /\ c.bytes_in_flight = n
  BY <1>8, <1>9 DEF Changes, BBRFields, SentFields
<1>11. PICK q : q = [pn |-> next, sent |-> t, size |-> p.size, total_sent |-> total,
                     total_acked |-> c.total_acked, app_limited |-> c.app_limited,
                     sent_at_last_ack |-> c.last_acked_total_sent,
                     last_ack_sent_time |-> c.last_acked_sent_time,
                     last_ack_time |-> c.last_acked_time]
  OBVIOUS
<1>12. d = [c EXCEPT !.queue = b.queue \cup {q}]
  <2> DEFINE T == b.total_sent + p.size
             C == [b EXCEPT
                    !.total_sent = T, !.last_sent = next,
                    !.bytes_in_flight = @ + p.size,
                    !.last_acked_time = IF first THEN t ELSE @,
                    !.last_acked_total_sent = IF first THEN T ELSE @,
                    !.last_acked_sent_time = IF first THEN t ELSE @]
             Q(y) == [pn |-> next, sent |-> t, size |-> p.size,
                      total_sent |-> T, total_acked |-> y.total_acked,
                      app_limited |-> y.app_limited,
                      sent_at_last_ack |-> y.last_acked_total_sent,
                      last_ack_sent_time |-> y.last_acked_sent_time,
                      last_ack_time |-> y.last_acked_time]
  <2>1. d = [C EXCEPT !.queue = @ \cup {Q(C)}]
    BY Zenon DEF BBRSent
  <2>2. total = T
    BY <1>2
  <2>3. C = [b EXCEPT !.total_sent = total, !.last_sent = next, !.bytes_in_flight = n,
               !.last_acked_time = lt, !.last_acked_total_sent = ls, !.last_acked_sent_time = lst]
    <3> HIDE DEF T
    <3> QED BY <1>3, <1>4, <1>5, <1>6, <2>2
  <2> HIDE DEF C
  <2>4. C = c
    BY <1>7, <1>8, <2>3 DEF BBROK, Measured, BBRRecord, BBRFields
  <2>5. Q(C) = q
    <3> HIDE DEF T
    <3> QED BY <1>11, <2>2, <2>4
  <2> HIDE DEF Q
  <2> QED BY <1>10, <2>1, <2>4, <2>5
<1>13. /\ Changes(b, d, SentFields) /\ d.queue = b.queue \cup {q} /\ d.last_acked_time = lt
       /\ d.total_acked = b.total_acked
       /\ d.last_acked_total_sent = ls /\ d.last_acked_sent_time = lst /\ d.total_sent = total
       /\ d.bytes_in_flight = n
  <2>1. Changes(c, d, {"queue"}) /\ d.queue = b.queue \cup {q}
    BY <1>10, <1>12 DEF Changes, BBRFields
  <2>2. Changes(b, d, SentFields)
    BY <1>10, <2>1 DEF Changes, SentFields
  <2>3. /\ d.last_acked_time = c.last_acked_time /\ d.total_acked = c.total_acked
        /\ d.last_acked_total_sent = c.last_acked_total_sent
        /\ d.last_acked_sent_time = c.last_acked_sent_time /\ d.total_sent = c.total_sent
        /\ d.bytes_in_flight = c.bytes_in_flight
    BY <2>1 DEF Changes, BBRFields
  <2> QED BY <1>10, <2>1, <2>2, <2>3
<1>14. /\ d.in_ack = b.in_ack /\ d.ack = b.ack /\ d.app_limited = b.app_limited
       /\ c.app_limited = b.app_limited
  BY <1>10, <1>13 DEF Changes, BBRFields, SentFields
<1>15. BBROK(d)
  <2>1. \A k \in NumFields : d[k] \in Int
    BY <1>1, <1>13 DEF BBROK, Measured, Changes, NumFields, BBRFields, SentFields
  <2>2. d.app_limited \in BOOLEAN
    BY <1>14 DEF BBROK
  <2> QED BY <1>13, <2>1, <2>2, BookChange
<1>16. q \in Queued /\ q.pn = next /\ q.sent = t /\ q.size = p.size /\ q.last_ack_time <= q.sent /\ lt <= t
  <2>1. c.app_limited \in BOOLEAN
    BY <1>14 DEF BBROK
  <2> QED BY <1>1, <1>4, <1>10, <1>11, <2>1 DEF Queued
<1>17. QueueOK(d, ps \cup {p}, next + 1, t)
  <2>1. d.queue \subseteq Queued
    BY <1>13, <1>16 DEF QueueOK
  <2>2. \A x \in b.queue : x.pn \in Nat /\ x.pn < next
    BY DEF QueueOK, Queued
  <2>3. \A x \in d.queue : x.pn < next + 1 /\ x.last_ack_time <= x.sent
    BY <1>13, <1>16, <2>2 DEF QueueOK
  <2>4. \A x, r \in d.queue : x.pn = r.pn => x = r
    BY <1>13, <1>16, <2>2 DEF QueueOK
  <2>5. \A x \in ps \cup {p} : \E r \in d.queue : r.pn = x.pn /\ r.sent = x.time /\ r.size = x.size
    BY <1>13, <1>16 DEF QueueOK
  <2> QED BY <1>13, <1>16, <2>1, <2>3, <2>4, <2>5 DEF QueueOK
<1> QED BY <1>3, <1>13, <1>14, <1>15, <1>17

\* bbr_begin_ack
LEMMA BBRBeginAckIs ==
  ASSUME NEW b, BBROK(b), b.in_ack = FALSE, NEW t \in Int, NEW d, d = BBRBeginAck(b, t)
  PROVE  /\ BBROK(d) /\ Answering(d, t)
         /\ d.queue = b.queue /\ d.last_acked_time = b.last_acked_time
         /\ d.bytes_in_flight = b.bytes_in_flight
<1>1. PICK a : a = [NoAck EXCEPT !.time = t, !.in_flight = b.bytes_in_flight, !.acked_before = b.total_acked]
  OBVIOUS
<1>2. d = [b EXCEPT !.in_ack = TRUE, !.ack = a]
  BY <1>1 DEF BBRBeginAck, Check
<1>3. Changes(b, d, {"in_ack", "ack"}) /\ d.in_ack = TRUE /\ d.ack = a
  BY <1>2 DEF Changes, BBROK, Measured, BBRRecord, BBRFields
<1>4. /\ a = [k \in {"time", "bytes", "in_flight", "acked_before", "samples"} |-> a[k]]
      /\ a.time = t /\ a.bytes = 0 /\ a.samples = <<>> /\ a.acked_before = b.total_acked
  BY <1>1 DEF NoAck
<1>5. b.total_acked \in Int
  BY DEF BBROK, Measured, NumFields
<1>6. AckOK(d)
  <2>1. <<>> \in Seq(Sample)
    OBVIOUS
  <2>2. {a.time, a.bytes, a.acked_before} \subseteq Int
    BY <1>4, <1>5
  <2>3. a.samples \in Seq(Sample) /\ ~(a.bytes > 0)
    <3>1. a.samples \in Seq(Sample)
      BY <1>4, <2>1
    <3>2. ~(0 > 0)
      OBVIOUS
    <3> QED BY <1>4, <3>1, <3>2
  <2> QED BY <1>3, <1>4, <2>2, <2>3 DEF AckOK
<1>7. d.queue = b.queue /\ d.last_acked_time = b.last_acked_time
      /\ d.bytes_in_flight = b.bytes_in_flight /\ d.app_limited = b.app_limited
  BY <1>3 DEF Changes, BBRFields
<1>8. BBROK(d)
  <2>1. \A k \in NumFields : d[k] \in Int
    BY <1>3 DEF BBROK, Measured, Changes, NumFields, BBRFields
  <2> QED BY <1>3, <1>7, <2>1, BookChange DEF BBROK
<1> QED BY <1>3, <1>4, <1>6, <1>7, <1>8 DEF Answering

\* on_packet_acked_cc: the packet is in BBR's list, and gives a sample.
LEMMA BBRAckedIs ==
  ASSUME NEW b, BBROK(b), NEW ps, ps \subseteq Packets, NEW next, NEW t \in Int,
         QueueOK(b, ps, next, t), Answering(b, t),
         \A x, y \in ps : x.pn = y.pn => x = y, NEW p \in ps, p.time < t, NEW d, d = BBRAcked(b, p.pn)
  PROVE  /\ BBROK(d) /\ Answering(d, t) /\ QueueOK(d, ps \ {p}, next, t)
         /\ d.bytes_in_flight = b.bytes_in_flight - p.size
<1>1. AckOK(b) /\ b.in_ack = TRUE /\ b.ack.time = t
  BY DEF Answering
<1>2. PICK q : q = CHOOSE r \in b.queue : r.pn = p.pn
  OBVIOUS
<1>3. q \in b.queue /\ q.pn = p.pn /\ q.sent = p.time /\ q.size = p.size
  <2>1. \E r \in b.queue : r.pn = p.pn /\ r.sent = p.time /\ r.size = p.size
    BY DEF QueueOK
  <2>2. q \in b.queue /\ q.pn = p.pn
    BY <1>2, <2>1
  <2> QED BY <2>1, <2>2 DEF QueueOK
<1>4. q \in Queued
  BY <1>3 DEF QueueOK
<1>5. PICK s : s = Samples(b, q)
  OBVIOUS
<1>6. s \in Seq(Sample) /\ s # <<>>
  <2>1. b.ack.time - q.last_ack_time > 0
    <3>1. q.last_ack_time <= q.sent
      BY <1>3 DEF QueueOK
    <3>2. q.last_ack_time \in Int /\ q.sent \in Int
      BY <1>4 DEF Queued
    <3> QED BY <1>1, <1>3, <3>1, <3>2
  <2>2. PICK acked \in Int : acked = b.ack.time - q.last_ack_time
    BY <1>1, <1>4 DEF Queued
  <2>3. acked > 0
    BY <2>1, <2>2
  <2>4. PICK sent_1 \in Int : sent_1 = q.sent - q.last_ack_sent_time
    BY <1>4 DEF Queued
  <2>5. PICK send_rate \in Int :
          send_rate = IF sent_1 > 0 THEN Bandwidth(q.total_sent - q.sent_at_last_ack, sent_1) ELSE Infinite
    <3>1. PICK size \in Int : size = q.total_sent - q.sent_at_last_ack
      BY <1>4 DEF Queued
    <3>2. size * BwUnit \in Int
      BY BBRAssumption
    <3>3. sent_1 > 0 => Bandwidth(size, sent_1) \in Int
      BY <3>2 DEF Bandwidth
    <3> QED BY <3>1, <3>3 DEF Infinite
  <2>6. PICK ack_rate \in Int : ack_rate = Bandwidth(b.total_acked + q.size - q.total_acked, acked)
    <3>1. b.total_acked \in Int
      BY DEF BBROK, Measured, NumFields
    <3>2. PICK size \in Int : size = b.total_acked + q.size - q.total_acked
      BY <1>4, <3>1 DEF Queued
    <3>3. size * BwUnit \in Int
      BY BBRAssumption
    <3>4. Bandwidth(size, acked) \in Int
      BY <2>3, <3>3 DEF Bandwidth
    <3> QED BY <3>2, <3>4
  <2>7. PICK e : e = [bandwidth |-> IF send_rate < ack_rate THEN send_rate ELSE ack_rate,
                      rtt |-> b.ack.time - q.sent, app_limited |-> q.app_limited]
    OBVIOUS
  <2>8. s = <<e>>
    <3>1. ~(acked <= 0)
      BY <2>3
    <3>2. s = IF acked <= 0 THEN <<>> ELSE <<e>>
      BY <1>5, <2>2, <2>4, <2>5, <2>6, <2>7, Zenon DEF Samples
    <3> QED BY <3>1, <3>2
  <2>9. e \in Sample
    BY <1>1, <1>4, <2>7 DEF Sample, Queued
  <2> QED BY <2>8, <2>9
<1>7. PICK a : a = [b.ack EXCEPT !.samples = @ \o s, !.bytes = @ + q.size]
  OBVIOUS
<1>8. PICK n, total, l : /\ n = b.bytes_in_flight - q.size /\ total = b.total_acked + q.size
                         /\ l = (b.app_limited /\ p.pn <= b.end_of_app_limited)
  OBVIOUS
<1>9. PICK c1 : c1 = [b EXCEPT !.bytes_in_flight = n, !.queue = b.queue \ {q}, !.total_acked = total]
  OBVIOUS
<1>10. PICK c2 : c2 = [c1 EXCEPT !.last_acked_total_sent = q.total_sent, !.last_acked_sent_time = q.sent,
                                !.last_acked_time = t]
  OBVIOUS
<1>11. Changes(b, c1, SentFields) /\ c1.queue = b.queue \ {q} /\ c1.total_acked = total
       /\ c1.bytes_in_flight = n
  BY <1>9 DEF Changes, BBROK, Measured, BBRRecord, BBRFields, SentFields
<1>12. d = [c2 EXCEPT !.app_limited = l, !.ack = a]
  <2>1. d = [Check(b, b.in_ack) EXCEPT
               !.bytes_in_flight = @ - q.size, !.queue = @ \ {q},
               !.total_acked = @ + q.size, !.last_acked_total_sent = q.total_sent,
               !.last_acked_sent_time = q.sent, !.last_acked_time = b.ack.time,
               !.app_limited = @ /\ p.pn <= b.end_of_app_limited,
               !.ack.samples = @ \o Samples(b, q), !.ack.bytes = @ + q.size]
    BY <1>2, Zenon DEF BBRAcked
  <2>2. Check(b, b.in_ack) = b
    BY <1>1 DEF Check
  <2>3. PICK c3 : c3 = [c2 EXCEPT !.app_limited = l]
    OBVIOUS
  <2>4. c3 = [b EXCEPT
               !.bytes_in_flight = @ - q.size, !.queue = @ \ {q},
               !.total_acked = @ + q.size, !.last_acked_total_sent = q.total_sent,
               !.last_acked_sent_time = q.sent, !.last_acked_time = b.ack.time,
               !.app_limited = @ /\ p.pn <= b.end_of_app_limited]
    BY <1>1, <1>8, <1>9, <1>10, <2>3 DEF BBROK, Measured, BBRRecord, BBRFields
  <2>5. d = [c3 EXCEPT !.ack.samples = @ \o s, !.ack.bytes = @ + q.size]
    BY <1>5, <2>1, <2>2, <2>4
  <2>6. c3.ack = b.ack /\ c3 = [k \in BBRFields |-> c3[k]]
    <3>1. Changes(c1, c2, SentFields)
      BY ZenonT(60), <1>10, <1>11 DEF Changes, BBRFields, SentFields
    <3>2. Changes(c2, c3, {"app_limited"})
      BY <2>3, <3>1 DEF Changes, BBRFields
    <3> QED BY <1>11, <3>1, <3>2 DEF Changes, BBRFields, SentFields
  <2>7. d = [c3 EXCEPT !.ack = a]
    BY <1>7, <2>5, <2>6 DEF BBRFields, AckOK
  <2> QED BY <2>3, <2>6, <2>7 DEF BBRFields
<1>13. /\ Changes(b, c2, SentFields) /\ c2.queue = b.queue \ {q} /\ c2.total_acked = total
       /\ c2.last_acked_total_sent = q.total_sent /\ c2.last_acked_sent_time = q.sent
       /\ c2.last_acked_time = t /\ c2.bytes_in_flight = n
  BY <1>10, <1>11 DEF Changes, BBRFields, SentFields
<1>14. /\ Changes(b, d, SentFields \cup {"app_limited", "ack"}) /\ d.queue = b.queue \ {q}
       /\ d.total_acked = total /\ d.last_acked_total_sent = q.total_sent
       /\ d.last_acked_sent_time = q.sent /\ d.last_acked_time = t
       /\ d.app_limited = l /\ d.ack = a /\ d.bytes_in_flight = n
  BY <1>12, <1>13 DEF Changes, BBRFields, SentFields
<1>15. total \in Int /\ q.total_sent \in Int /\ q.sent \in Int /\ l \in BOOLEAN
  <2>1. b.total_acked \in Int /\ b.app_limited \in BOOLEAN
    BY DEF BBROK, Measured, NumFields
  <2>2. total \in Int /\ q.total_sent \in Int /\ q.sent \in Int
    BY <1>4, <1>8, <2>1 DEF Queued
  <2>3. l \in BOOLEAN
    BY <1>8
  <2> QED BY <2>2, <2>3
<1>16. BBROK(d)
  <2>1. \A k \in NumFields : d[k] \in Int
    <3>1. \A k \in NumFields \ {"total_acked", "last_acked_total_sent", "last_acked_sent_time",
                               "last_acked_time", "total_sent"} : d[k] = b[k]
      BY <1>14 DEF Changes, NumFields, BBRFields, SentFields
    <3>2. c2.total_sent = b.total_sent /\ d.total_sent = c2.total_sent
      <4>1. c1.total_sent = b.total_sent
        BY <1>9 DEF BBROK, Measured, BBRRecord, BBRFields
      <4>2. c2.total_sent = c1.total_sent
        BY <1>10, <1>11 DEF Changes, BBRFields
      <4>3. d.total_sent = c2.total_sent
        BY <1>12, <1>13 DEF Changes, BBRFields
      <4> QED BY <4>1, <4>2, <4>3
    <3>3. \A k \in NumFields : b[k] \in Int
      BY DEF BBROK, Measured
    <3>4. {d.total_acked, d.last_acked_total_sent, d.last_acked_sent_time, d.last_acked_time} \subseteq Int
      BY <1>14, <1>15
    <3>5. d.total_sent \in Int
      BY <3>2, <3>3 DEF NumFields
    <3> QED BY <3>1, <3>3, <3>4, <3>5
  <2> QED BY <1>14, <1>15, <2>1, BookChange
<1>17. /\ a = [k \in {"time", "bytes", "in_flight", "acked_before", "samples"} |-> a[k]]
       /\ a.time = b.ack.time /\ a.acked_before = b.ack.acked_before
       /\ a.bytes = b.ack.bytes + q.size /\ a.samples = b.ack.samples \o s
  BY <1>1, <1>7 DEF AckOK
<1>18. AckOK(d)
  <2>1. a.bytes \in Int
    <3>1. b.ack.bytes \in Int /\ q.size \in Int
      BY <1>1, <1>4 DEF AckOK, Queued
    <3> QED BY <1>17, <3>1
  <2>2. a.samples \in Seq(Sample) /\ a.samples # <<>>
    <3>1. PICK u \in Seq(Sample) : u = b.ack.samples
      BY <1>1 DEF AckOK
    <3>2. Len(u \o s) = Len(u) + Len(s) /\ u \o s \in Seq(Sample) /\ Len(s) # 0
      BY <1>6
    <3>3. Len(u) \in Nat /\ Len(s) \in Nat /\ Len(<<>>) = 0
      BY <1>6
    <3>4. Len(u \o s) # 0
      BY <3>2, <3>3
    <3>5. u \o s # <<>>
      BY <3>3, <3>4
    <3> QED BY <1>17, <3>1, <3>2, <3>5
  <2>3. {a.time, a.acked_before} \subseteq Int
    BY <1>1, <1>17 DEF AckOK
  <2> QED BY <1>14, <1>17, <2>1, <2>2, <2>3 DEF AckOK
<1>19. QueueOK(d, ps \ {p}, next, t)
  <2>1. ASSUME NEW x \in ps \ {p}  PROVE \E r \in d.queue : r.pn = x.pn /\ r.sent = x.time /\ r.size = x.size
    <3>1. PICK r \in b.queue : r.pn = x.pn /\ r.sent = x.time /\ r.size = x.size
      BY DEF QueueOK
    <3>2. r # q
      BY <1>3, <3>1
    <3> QED BY <1>14, <3>1, <3>2
  <2> QED BY <1>14, <2>1 DEF QueueOK
<1>20. d.in_ack = TRUE
  BY <1>1, <1>14 DEF Changes, BBRFields, SentFields
<1> QED BY <1>1, <1>3, <1>8, <1>14, <1>16, <1>17, <1>18, <1>19, <1>20 DEF Answering

-----------------------------------------------------------------------------
(* The external solution *)

TriggerState ==
  [cwnd : Nat, bytes_in_flight : Int, started : BOOLEAN, infos : Seq(Nat),
   jobs : Seq(Seq(Nat)), results : Seq(Nat), handed : Seq(Nat)]

\* At most one call of the solution is under way or answered, and every event is
\* with the solution or waits.
TriggerOK(c, told) ==
  /\ c \in TriggerState
  /\ ~c.started => c.infos = <<>> /\ c.jobs = <<>> /\ c.results = <<>>
  /\ Len(c.jobs) + Len(c.results) <= 1
  /\ c.handed \o c.infos = told

LEMMA LengthIs ==
  ASSUME NEW T, NEW s \in Seq(T)
  PROVE  Len(s) \in Nat /\ (Len(s) = 0 <=> s = <<>>)
OBVIOUS

LEMMA LengthOfNone == Len(<<>>) = 0
OBVIOUS

LEMMA TriggerStarts == TriggerOK(TriggerInit, <<>>)
<1>1. InitialWindow \in Nat
  BY WindowAssumption
<1> QED BY <1>1 DEF TriggerOK, TriggerInit, TriggerState

\* Counting bytes does not touch the rest.
LEMMA TriggerCounts ==
  ASSUME NEW c, NEW told, TriggerOK(c, told), NEW n \in Int
  PROVE  TriggerOK([c EXCEPT !.bytes_in_flight = n], told)
<1>1. PICK d : d = [c EXCEPT !.bytes_in_flight = n]
  OBVIOUS
<1>2. /\ d \in TriggerState /\ d.started = c.started /\ d.infos = c.infos /\ d.jobs = c.jobs
      /\ d.results = c.results /\ d.handed = c.handed
  BY <1>1 DEF TriggerOK, TriggerState
<1> QED BY <1>1, <1>2 DEF TriggerOK

\* cc_trigger_async with nothing under way
LEMMA SpawnIs ==
  ASSUME NEW c, NEW told, TriggerOK(c, told), c.jobs = <<>>, c.results = <<>>, c.started = TRUE
  PROVE  /\ TriggerOK(Spawn(c), told) /\ Len(Spawn(c).jobs) = 1
         /\ Spawn(c).results = <<>> /\ Spawn(c).infos = <<>>
         /\ Spawn(c).bytes_in_flight = c.bytes_in_flight
<1>1. PICK d : d = Spawn(c)
  OBVIOUS
<1>2. PICK j, h : j = Append(c.jobs, c.infos) /\ h = c.handed \o c.infos
  OBVIOUS
<1>3. d = [c EXCEPT !.jobs = j, !.handed = h, !.infos = <<>>]
  BY <1>1, <1>2 DEF Spawn
<1>4. c \in TriggerState /\ c.infos \in Seq(Nat) /\ c.handed \in Seq(Nat) /\ h = told
  BY <1>2 DEF TriggerOK, TriggerState
<1>5. j \in Seq(Seq(Nat)) /\ Len(j) = 1
  <2>1. j = <<c.infos>>
    BY <1>2
  <2> QED BY <1>4, <2>1
<1>6. h \in Seq(Nat) /\ <<>> \in Seq(Nat)
  <2>1. PICK u \in Seq(Nat), v \in Seq(Nat) : u = c.handed /\ v = c.infos
    BY <1>4
  <2>2. u \o v \in Seq(Nat) /\ <<>> \in Seq(Nat)
    OBVIOUS
  <2> QED BY <1>2, <2>1, <2>2
<1>7. /\ d \in TriggerState /\ d.jobs = j /\ d.handed = h /\ d.infos = <<>> /\ d.started = c.started
      /\ d.results = c.results /\ d.bytes_in_flight = c.bytes_in_flight
  BY <1>3, <1>4, <1>5, <1>6 DEF TriggerState
<1>8. d.handed \o d.infos = told
  BY <1>4, <1>6, <1>7
<1>9. Len(d.jobs) + Len(d.results) <= 1
  <2>1. Len(d.jobs) = 1 /\ Len(d.results) = 0
    BY <1>5, <1>7, LengthOfNone
  <2> QED BY <2>1
<1> QED BY <1>1, <1>5, <1>7, <1>8, <1>9 DEF TriggerOK

\* The only job ends.
LEMMA JobDoneIs ==
  ASSUME NEW c, NEW told, TriggerOK(c, told), c.started = TRUE, NEW i \in DOMAIN c.jobs, NEW w \in Nat
  PROVE  /\ TriggerOK(JobDone(c, i, w), told) /\ JobDone(c, i, w).jobs = <<>>
         /\ JobDone(c, i, w).infos = c.infos /\ JobDone(c, i, w).started = TRUE
         /\ JobDone(c, i, w).bytes_in_flight = c.bytes_in_flight
<1>1. PICK js \in Seq(Seq(Nat)), rs \in Seq(Nat) : js = c.jobs /\ rs = c.results
  BY DEF TriggerOK, TriggerState
<1>2. Len(js) = 1 /\ i = 1 /\ Len(rs) = 0
  <2>1. i \in 1 .. Len(js)
    BY <1>1
  <2>2. PICK m \in Nat, n \in Nat : m = Len(js) /\ n = Len(rs)
    BY LengthIs
  <2>3. m + n <= 1
    BY <1>1, <2>2 DEF TriggerOK
  <2>4. i \in 1 .. m
    BY <2>1, <2>2
  <2>5. m = 1 /\ n = 0 /\ i = 1
    BY <2>3, <2>4
  <2> QED BY <2>2, <2>5
<1>3. RemoveAt(js, i) = <<>>
  BY <1>2 DEF RemoveAt
<1>4. rs = <<>> /\ Append(rs, w) = <<w>>
  BY <1>2
<1>5. PICK d : d = JobDone(c, i, w)
  OBVIOUS
<1>6. PICK r : r = <<w>>
  OBVIOUS
<1>7. d = [c EXCEPT !.jobs = <<>>, !.results = r]
  BY <1>1, <1>3, <1>4, <1>5, <1>6 DEF JobDone
<1>8. c \in TriggerState /\ r \in Seq(Nat) /\ Len(r) = 1 /\ <<>> \in Seq(Seq(Nat))
  BY <1>6 DEF TriggerOK
<1>9. /\ d \in TriggerState /\ d.jobs = <<>> /\ d.handed = c.handed /\ d.infos = c.infos
      /\ d.started = c.started /\ d.results = r /\ d.bytes_in_flight = c.bytes_in_flight
  BY <1>7, <1>8 DEF TriggerState
<1>10. Len(d.jobs) + Len(d.results) <= 1
  <2>1. Len(d.jobs) = 0 /\ Len(d.results) = 1
    BY <1>8, <1>9, LengthOfNone
  <2> QED BY <2>1
<1> QED BY <1>5, <1>9, <1>10 DEF TriggerOK

\* try_recv
LEMMA TakeAnswerIs ==
  ASSUME NEW c, NEW told, TriggerOK(c, told), c.started = TRUE
  PROVE  /\ TriggerOK(TakeAnswer(c), told) /\ TakeAnswer(c).started = TRUE
         /\ TakeAnswer(c).bytes_in_flight = c.bytes_in_flight
<1>1. CASE c.results = <<>>
  BY <1>1 DEF TakeAnswer
<1>2. CASE c.results # <<>>
  <2>1. PICK rs \in Seq(Nat) : rs = c.results /\ rs # <<>>
    BY <1>2 DEF TriggerOK, TriggerState
  <2>2. Len(rs) = 1 /\ c.jobs = <<>>
    <3>1. PICK js \in Seq(Seq(Nat)) : js = c.jobs
      BY DEF TriggerOK, TriggerState
    <3>2. PICK m \in Nat, n \in Nat : m = Len(js) /\ n = Len(rs)
      BY LengthIs
    <3>3. m + n <= 1
      BY <2>1, <3>1, <3>2 DEF TriggerOK
    <3>4. n # 0
      BY <2>1, <3>2, LengthIs
    <3>5. n = 1 /\ m = 0
      BY <3>3, <3>4
    <3>6. js = <<>>
      BY <3>2, <3>5, LengthIs
    <3> QED BY <3>1, <3>2, <3>5, <3>6
  <2>3. Head(rs) \in Nat /\ Tail(rs) = <<>>
    <3>1. Head(rs) \in Nat /\ Tail(rs) \in Seq(Nat) /\ Len(Tail(rs)) = Len(rs) - 1
      BY <2>1
    <3>2. Len(Tail(rs)) = 0
      BY <2>2, <3>1
    <3> QED BY <3>1, <3>2, LengthIs
  <2>4. PICK w \in Nat : w = Head(c.results)
    BY <2>1, <2>3
  <2>5. PICK c1 : c1 = [c EXCEPT !.cwnd = w, !.results = <<>>]
    OBVIOUS
  <2>6. c1 = [c EXCEPT !.cwnd = Head(c.results), !.results = Tail(@)]
    BY <2>1, <2>3, <2>4, <2>5
  <2>7. TakeAnswer(c) = IF c1.infos = <<>> THEN c1 ELSE Spawn(c1)
    BY <1>2, <2>6, Zenon DEF TakeAnswer
  <2>8. c \in TriggerState /\ <<>> \in Seq(Nat)
    BY DEF TriggerOK
  <2>9. /\ c1 \in TriggerState /\ c1.jobs = <<>> /\ c1.handed = c.handed /\ c1.infos = c.infos
        /\ c1.started = TRUE /\ c1.results = <<>> /\ c1.bytes_in_flight = c.bytes_in_flight
    BY <2>2, <2>5, <2>8 DEF TriggerState
  <2>10. TriggerOK(c1, told)
    <3>1. Len(c1.jobs) + Len(c1.results) <= 1
      <4>1. Len(c1.jobs) = 0 /\ Len(c1.results) = 0
        BY <2>9, LengthOfNone
      <4> QED BY <4>1
    <3>2. c1.handed \o c1.infos = told
      BY <2>9 DEF TriggerOK
    <3> QED BY <2>9, <3>1, <3>2 DEF TriggerOK
  <2>11. TriggerOK(Spawn(c1), told) /\ Spawn(c1).bytes_in_flight = c1.bytes_in_flight
    BY <2>9, <2>10, SpawnIs
  <2>12. Spawn(c1).started = TRUE
    BY <2>9 DEF Spawn, TriggerState
  <2> QED BY <2>7, <2>9, <2>10, <2>11, <2>12
<1> QED BY <1>1, <1>2

\* cc_trigger: the event is told once.
LEMMA CcTriggerCallIs ==
  ASSUME NEW c, NEW told, TriggerOK(c, told), NEW event \in Nat,
         NEW early, early = None \/ early \in Nat
  PROVE  /\ TriggerOK(CcTriggerCall(c, event, early), Append(told, event))
         /\ CcTriggerCall(c, event, early).bytes_in_flight = c.bytes_in_flight
<1>1. PICK is : is = Append(c.infos, event)
  OBVIOUS
<1>2. PICK c1 : c1 = [c EXCEPT !.infos = is]
  OBVIOUS
<1>3. CcTriggerCall(c, event, early)
        = TakeAnswer(IF c.started THEN c1 ELSE Raced(Spawn([c1 EXCEPT !.started = TRUE]), early))
  BY <1>1, <1>2 DEF CcTriggerCall
<1>4. c \in TriggerState /\ c.infos \in Seq(Nat) /\ c.handed \in Seq(Nat) /\ c.handed \o c.infos = told
  BY DEF TriggerOK, TriggerState
<1>5. is \in Seq(Nat) /\ c.handed \o is = Append(told, event)
  <2>1. PICK u \in Seq(Nat), v \in Seq(Nat) : u = c.handed /\ v = c.infos
    BY <1>4
  <2>2. u \o Append(v, event) = Append(u \o v, event)
    OBVIOUS
  <2> QED BY <1>1, <1>4, <2>1, <2>2
<1>6. PICK c2 : c2 = [c1 EXCEPT !.started = TRUE]
  OBVIOUS
<1>7. /\ c1 \in TriggerState /\ c1.infos = is /\ c1.handed = c.handed /\ c1.jobs = c.jobs
      /\ c1.results = c.results /\ c1.started = c.started
      /\ c1.bytes_in_flight = c.bytes_in_flight
  BY <1>2, <1>4, <1>5 DEF TriggerState
<1>8. /\ c2 \in TriggerState /\ c2.infos = is /\ c2.handed = c.handed /\ c2.jobs = c.jobs
      /\ c2.results = c.results /\ c2.started = TRUE
      /\ c2.bytes_in_flight = c.bytes_in_flight
  BY <1>6, <1>7 DEF TriggerState
<1>9. CASE c.started
  <2>1. TriggerOK(c1, Append(told, event)) /\ c1.started = TRUE
    BY <1>5, <1>7, <1>9 DEF TriggerOK, TriggerState
  <2> QED BY <1>3, <1>7, <1>9, <2>1, TakeAnswerIs
<1>10. CASE ~c.started
  <2>1. TriggerOK(c2, Append(told, event)) /\ c2.jobs = <<>> /\ c2.results = <<>>
    BY <1>5, <1>8, <1>10 DEF TriggerOK
  <2>2. PICK s : s = Spawn(c2)
    OBVIOUS
  <2>3. TriggerOK(s, Append(told, event)) /\ Len(s.jobs) = 1
        /\ s.bytes_in_flight = c.bytes_in_flight
    BY <1>8, <2>1, <2>2, SpawnIs
  <2>4. s.started = TRUE
    BY <1>8, <2>2 DEF Spawn, TriggerState
  <2>5. PICK r : r = Raced(s, early)
    OBVIOUS
  <2>6. TriggerOK(r, Append(told, event)) /\ r.started = TRUE
        /\ r.bytes_in_flight = c.bytes_in_flight
    <3>1. CASE early = None
      BY <2>3, <2>4, <2>5, <3>1 DEF Raced
    <3>2. CASE early # None
      <4>1. early \in Nat /\ r = JobDone(s, 1, early)
        BY <2>5, <3>2 DEF Raced
      <4>2. 1 \in DOMAIN s.jobs
        <5>1. s.jobs \in Seq(Seq(Nat))
          BY <2>3 DEF TriggerOK, TriggerState
        <5> QED BY <2>3, <5>1
      <4> QED BY <2>3, <2>4, <4>1, <4>2, JobDoneIs
    <3> QED BY <3>1, <3>2
  <2>7. CcTriggerCall(c, event, early) = TakeAnswer(r)
    BY <1>3, <1>6, <1>10, <2>2, <2>5
  <2> QED BY <2>6, <2>7, TakeAnswerIs
<1> QED BY <1>9, <1>10

-----------------------------------------------------------------------------
(* The inductive invariant *)

\* What each controller keeps, and how it agrees with what recovery holds.
CubicKept == alg = "cubic" => CubicOK(cc, now, last_cut)

BBRKept ==
  alg = "bbr" =>
    /\ BBROK(cc) /\ cc.in_ack = in_call /\ QueueOK(cc, sent, next_pn, now)
    /\ in_call => Answering(cc, now)

TriggerKept == alg = "cc_trigger" => TriggerOK(cc, events)

ControllersOK == CubicKept /\ BBRKept /\ TriggerKept

IInv == in_call \in BOOLEAN /\ SentOK /\ InFlightExact /\ ControllersOK

\* A step of CubicCuts
CutStep ==
  alg = "cubic" =>
    /\ cc'.cwnd < cc.cwnd =>
         /\ lost_count' > lost_count
         /\ \E p \in sent \ sent' : last_cut = None \/ p.time > last_cut
    /\ cc'.cwnd > cc.cwnd + Max(Sizes[alg] \cup {MaxDatagram}) =>
         /\ last_cut # None /\ Restored
         /\ lost_count - cc.prior.lost_count < RestoreThreshold

-----------------------------------------------------------------------------
(* Recovery's steps *)

LEMMA AlgIs ==
  ASSUME SentOK
  PROVE  /\ alg \in {"cubic", "bbr", "cc_trigger"}
         /\ Sizes[alg] \subseteq Nat \ {0} /\ IsFiniteSet(Sizes[alg])
BY CongestionAssumption DEF SentOK

\* What is in flight has finitely many bytes, and so has a part of it.
LEMMA SentIsSized ==
  ASSUME SentOK, NEW ps, ps \subseteq sent
  PROVE  /\ Sized(sent) /\ IsFiniteSet(ps)
         /\ \A p, q \in sent : p.pn = q.pn => p = q
         /\ SizeOf(sent \ ps) = SizeOf(sent) - SizeOf(ps)
         /\ SizeOf(sent \ ps) \in Nat /\ SizeOf(ps) \in Nat /\ SizeOf(sent) \in Nat
<1>1. IsFiniteSet(sent) /\ sent \subseteq Packets /\ \A p, q \in sent : p.pn = q.pn => p = q
  BY DEF SentOK
<1>2. Sized(sent)
  BY <1>1 DEF Sized, Packets
<1>3. IsFiniteSet(ps)
  BY <1>1, FS_Subset
<1> QED BY <1>1, <1>2, <1>3, SizeOfPart

\* Fewer packets in flight, of which those of the ACK are still some
LEMMA FewerSent ==
  ASSUME SentOK, NEW ps, ps \subseteq sent, sent' = sent \ ps, UNCHANGED <<alg, now, next_pn>>,
         acking' = {} \/ in_call', acking' \subseteq acking, acking' \cap ps = {}, lost_count' \in Nat,
         last_cut' \in Nat \cup {None}, last_cut' <= now
  PROVE  SentOK'
<1>1. IsFiniteSet(sent \ ps)
  BY FS_Difference DEF SentOK
<1>2. acking' \subseteq sent'
  BY DEF SentOK
<1> QED BY <1>1, <1>2 DEF SentOK

\* The largest step up that CUBIC may take for a packet
LEMMA StepUp ==
  ASSUME SentOK, NEW p \in sent
  PROVE  /\ Max(Sizes[alg] \cup {MaxDatagram}) \in Nat
         /\ p.size <= Max(Sizes[alg] \cup {MaxDatagram})
         /\ MaxDatagram <= Max(Sizes[alg] \cup {MaxDatagram})
<1> DEFINE S == Sizes[alg] \cup {MaxDatagram}
<1>1. Sizes[alg] \subseteq Nat /\ IsFiniteSet(Sizes[alg]) /\ MaxDatagram \in Nat
  BY AlgIs, WindowAssumption
<1>2. S \subseteq Nat /\ S # {} /\ p.size \in S /\ MaxDatagram \in S
  BY <1>1 DEF SentOK
<1>3. IsFiniteSet(S)
  BY <1>1, FS_AddElement
<1>4. Max(S) \in S /\ \A y \in S : Max(S) >= y
  <2> HIDE DEF S
  <2>1. S \subseteq Int
    BY <1>2
  <2> QED BY <1>2, <1>3, <2>1, MaxOfFinite
<1> HIDE DEF S
<1>5. \A y \in S : y \in Nat
  BY <1>2
<1>6. Max(S) \in Nat /\ p.size <= Max(S) /\ MaxDatagram <= Max(S)
  BY <1>2, <1>4, <1>5
<1> QED BY <1>6 DEF S

LEMMA Starts ==
  ASSUME Init
  PROVE  IInv
<1>1. SentOK
  BY FS_EmptySet DEF Init, SentOK, None
<1>2. CASE alg = "cubic"
  <2>1. cc = CubicInit
    BY <1>2 DEF Init, Fresh
  <2>2. cc.bytes_in_flight = 0
    BY <2>1 DEF CubicInit
  <2>3. CubicOK(cc, now, last_cut)
    BY <2>1, CubicStarts DEF Init
  <2> QED BY <1>1, <1>2, <2>2, <2>3, SizeOfNone
          DEF Init, IInv, InFlightExact, ControllersOK, CubicKept, BBRKept, TriggerKept
<1>3. CASE alg = "bbr"
  <2>1. cc = BBRInit
    BY <1>3 DEF Init, Fresh
  <2>2. cc.bytes_in_flight = 0
    BY <2>1 DEF BBRInit
  <2>3. BBROK(cc) /\ cc.in_ack = FALSE /\ cc.queue = {} /\ cc.last_acked_time = 0
    BY <2>1, BBRStarts
  <2>4. QueueOK(cc, sent, next_pn, now)
    BY <2>3 DEF Init, QueueOK
  <2> QED BY <1>1, <1>3, <2>2, <2>3, <2>4, SizeOfNone
          DEF Init, IInv, InFlightExact, ControllersOK, CubicKept, BBRKept, TriggerKept
<1>4. CASE alg = "cc_trigger"
  <2>1. cc = TriggerInit
    BY <1>4 DEF Init, Fresh
  <2>2. cc.bytes_in_flight = 0
    BY <2>1 DEF TriggerInit
  <2>3. TriggerOK(cc, events)
    BY <2>1, TriggerStarts DEF Init
  <2> QED BY <1>1, <1>4, <2>2, <2>3, SizeOfNone
          DEF Init, IInv, InFlightExact, ControllersOK, CubicKept, BBRKept, TriggerKept
<1> QED BY <1>1, <1>2, <1>3, <1>4, AlgIs

LEMMA SendStep ==
  ASSUME IInv, NEW size \in Sizes[alg], SendPacket(size)
  PROVE  IInv' /\ CutStep
<1>1. PICK p : p = [pn |-> next_pn, time |-> now, size |-> size]
  OBVIOUS
<1>2. /\ ~in_call /\ next_pn' = next_pn + 1 /\ sent' = sent \cup {p}
      /\ UNCHANGED <<alg, now, acking, any_acked, in_call, largest, lost_count, events, last_cut>>
  BY <1>1 DEF SendPacket
<1>3. size \in Nat \ {0} /\ now \in Nat /\ next_pn \in Nat
  BY AlgIs DEF IInv, SentOK
<1>4. p \in Packets /\ p.pn = next_pn /\ p.time = now /\ p.size = size
  BY <1>1, <1>3 DEF Packets
<1>5. \A q \in sent : q.pn \in Nat /\ q.pn < next_pn
  BY DEF IInv, SentOK, Packets
<1>6. \A q \in sent : q.pn # p.pn
  BY <1>3, <1>4, <1>5
<1>7. IsFiniteSet(sent')
  BY <1>2, FS_AddElement DEF IInv, SentOK
<1>8. SentOK'
  <2>1. \A q \in sent' : q.pn < next_pn' /\ q.time <= now' /\ q.size \in Sizes[alg']
    BY <1>2, <1>3, <1>4, <1>5 DEF IInv, SentOK
  <2>2. \A q, r \in sent' : q.pn = r.pn => q = r
    BY <1>2, <1>6 DEF IInv, SentOK
  <2>3. sent' \subseteq Packets /\ next_pn' \in Nat
    BY <1>2, <1>3, <1>4 DEF IInv, SentOK
  <2> QED BY <1>2, <1>7, <2>1, <2>2, <2>3 DEF IInv, SentOK
<1>9. SizeOf(sent') = cc.bytes_in_flight + size
  <2>1. Sized(sent)
    BY SentIsSized DEF IInv
  <2> QED BY <1>2, <1>3, <1>4, <1>6, <2>1, SizeOfNew DEF IInv, InFlightExact
<1>10. CASE alg = "cubic"
  <2>1. cc' = CubicSent(cc, size, now)
    BY <1>10 DEF SendPacket
  <2>2. CubicOK(cc, now, last_cut) /\ last_cut \in Nat \cup {None}
    BY <1>10 DEF IInv, ControllersOK, CubicKept, SentOK
  <2>3. /\ CubicOK(cc', now, last_cut) /\ cc'.cwnd = cc.cwnd
        /\ cc'.bytes_in_flight = cc.bytes_in_flight + size
    <3>1. size \in Nat /\ now \in Nat
      BY <1>3
    <3>2. CubicOK(cc', now, last_cut)
      BY <2>1, <2>2, <3>1, CubicSentOK
    <3>3. cc'.cwnd = cc.cwnd /\ cc'.bytes_in_flight = cc.bytes_in_flight + size
      BY <2>1, <2>2 DEF CubicSent, CubicOK, CubicState
    <3> QED BY <3>2, <3>3
  <2>4. CutStep
    <3>1. PICK m \in Nat : m = Max(Sizes[alg] \cup {MaxDatagram})
      <4>1. IsFiniteSet(Sizes[alg] \cup {MaxDatagram})
        BY AlgIs, FS_AddElement DEF IInv
      <4>2. Sizes[alg] \cup {MaxDatagram} \subseteq Nat
        BY AlgIs, WindowAssumption DEF IInv
      <4>3. Max(Sizes[alg] \cup {MaxDatagram}) \in Sizes[alg] \cup {MaxDatagram}
        BY <4>1, <4>2, MaxOfFinite
      <4> QED BY <4>2, <4>3
    <3>2. cc.cwnd \in Nat
      BY <2>2 DEF CubicOK, CubicState
    <3>3. ~(cc'.cwnd < cc.cwnd) /\ ~(cc'.cwnd > cc.cwnd + m)
      BY <2>3, <3>2
    <3> QED BY <3>1, <3>3 DEF CutStep
  <2> QED BY <1>2, <1>8, <1>9, <1>10, <2>3, <2>4
          DEF IInv, InFlightExact, ControllersOK, CubicKept, BBRKept, TriggerKept
<1>11. CASE alg = "bbr"
  <2>1. cc' = BBRSent(cc, next_pn, size, now)
    BY <1>1, <1>11 DEF SendPacket
  <2>2. BBROK(cc) /\ cc.in_ack = in_call /\ QueueOK(cc, sent, next_pn, now)
    BY <1>11 DEF IInv, ControllersOK, BBRKept
  <2>3. /\ BBROK(cc') /\ cc'.in_ack = cc.in_ack
        /\ cc'.bytes_in_flight = cc.bytes_in_flight + size
        /\ QueueOK(cc', sent \cup {p}, next_pn + 1, now)
    BY <1>3, <1>4, <2>1, <2>2, BBRSentIs
  <2> QED BY <1>2, <1>8, <1>9, <1>11, <2>2, <2>3
          DEF IInv, InFlightExact, ControllersOK, CubicKept, BBRKept, TriggerKept, CutStep
<1>12. CASE alg = "cc_trigger"
  <2>1. cc' = TriggerSent(cc, size)
    BY <1>12 DEF SendPacket
  <2>2. TriggerOK(cc, events)
    BY <1>12 DEF IInv, ControllersOK, TriggerKept
  <2>3. PICK n \in Int : n = cc.bytes_in_flight + size
    BY <1>3, <2>2 DEF TriggerOK, TriggerState
  <2>4. cc' = [cc EXCEPT !.bytes_in_flight = n]
    BY <2>1, <2>3 DEF TriggerSent
  <2>5. TriggerOK(cc', events)
    BY <2>2, <2>4, TriggerCounts
  <2>6. cc'.bytes_in_flight = n
    BY <2>2, <2>4 DEF TriggerOK, TriggerState
  <2> QED BY <1>2, <1>8, <1>9, <1>12, <2>3, <2>5, <2>6
          DEF IInv, InFlightExact, ControllersOK, CubicKept, BBRKept, TriggerKept, CutStep
<1> QED BY <1>10, <1>11, <1>12, AlgIs DEF IInv

\* A step that leaves CUBIC's window alone
LEMMA NoCut ==
  ASSUME IInv, cc'.cwnd = cc.cwnd
  PROVE  CutStep
<1>1. CASE alg # "cubic"
  BY <1>1 DEF CutStep
<1>2. CASE alg = "cubic"
  <2>1. cc.cwnd \in Nat
    BY <1>2 DEF IInv, ControllersOK, CubicKept, CubicOK, CubicState
  <2>2. PICK m \in Nat : m = Max(Sizes[alg] \cup {MaxDatagram})
    <3>1. IsFiniteSet(Sizes[alg] \cup {MaxDatagram})
      BY AlgIs, FS_AddElement DEF IInv
    <3>2. Sizes[alg] \cup {MaxDatagram} \subseteq Nat
      BY AlgIs, WindowAssumption DEF IInv
    <3>3. Max(Sizes[alg] \cup {MaxDatagram}) \in Sizes[alg] \cup {MaxDatagram}
      BY <3>1, <3>2, MaxOfFinite
    <3> QED BY <3>2, <3>3
  <2>3. ~(cc'.cwnd < cc.cwnd) /\ ~(cc'.cwnd > cc.cwnd + m)
    BY <2>1, <2>2
  <2> QED BY <2>2, <2>3 DEF CutStep
<1> QED BY <1>1, <1>2

LEMMA RecvAckStep ==
  ASSUME IInv, NEW pkts \in SUBSET sent, RecvAck(pkts)
  PROVE  IInv' /\ CutStep
<1>1. /\ ~in_call /\ in_call' = TRUE /\ acking' = pkts /\ \A p \in pkts : p.time < now
      /\ UNCHANGED <<alg, now, sent, next_pn, lost_count, app_limited, events, last_cut>>
      /\ cc' = IF alg = "bbr" THEN BBRBeginAck(cc, now) ELSE cc
  BY DEF RecvAck
<1>2. SentOK'
  BY <1>1 DEF IInv, SentOK
<1>3. CASE alg # "bbr"
  <2>1. cc' = cc
    BY <1>1, <1>3
  <2>2. CutStep
    BY <2>1, NoCut
  <2> QED BY <1>1, <1>2, <1>3, <2>1, <2>2
          DEF IInv, InFlightExact, ControllersOK, CubicKept, BBRKept, TriggerKept
<1>4. CASE alg = "bbr"
  <2>1. cc' = BBRBeginAck(cc, now)
    BY <1>1, <1>4
  <2>2. BBROK(cc) /\ cc.in_ack = FALSE /\ QueueOK(cc, sent, next_pn, now)
    BY <1>1, <1>4 DEF IInv, ControllersOK, BBRKept
  <2>3. /\ BBROK(cc') /\ Answering(cc', now)
        /\ cc'.queue = cc.queue /\ cc'.last_acked_time = cc.last_acked_time
        /\ cc'.bytes_in_flight = cc.bytes_in_flight
    <3>1. now \in Int
      BY DEF IInv, SentOK
    <3> QED BY <2>1, <2>2, <3>1, BBRBeginAckIs
  <2>4. QueueOK(cc', sent, next_pn, now)
    BY <2>2, <2>3 DEF QueueOK
  <2>5. cc'.in_ack = in_call'
    BY <1>1, <2>3 DEF Answering
  <2> QED BY <1>1, <1>2, <1>4, <2>3, <2>4, <2>5
          DEF IInv, InFlightExact, ControllersOK, CubicKept, BBRKept, TriggerKept, CutStep
<1> QED BY <1>3, <1>4

LEMMA AckPacketStep ==
  ASSUME IInv, NEW inc \in Incs, NEW early \in Earlies, AckPacket(inc, early)
  PROVE  IInv' /\ CutStep
<1>1. PICK p : p = Newest(acking)
  OBVIOUS
<1>2. /\ in_call /\ acking # {} /\ acking' = acking \ {p} /\ sent' = sent \ {p}
      /\ events' = Append(events, p.pn) /\ last_cut' = IF Restored THEN None ELSE last_cut
      /\ UNCHANGED <<alg, now, next_pn, in_call, largest, lost_count, app_limited>>
  BY <1>1 DEF AckPacket
<1>3. p \in acking /\ p \in sent /\ p.time < now /\ {p} \subseteq sent
  <2>1. acking \subseteq sent /\ sent \subseteq Packets
    BY DEF IInv, SentOK
  <2>2. IsFiniteSet(acking)
    BY <2>1, SentIsSized DEF IInv
  <2>3. p \in acking
    BY <1>1, <1>2, <2>1, <2>2, NewestIs
  <2> QED BY <2>1, <2>3 DEF IInv, SentOK
<1>4. p.pn \in Nat /\ p.time \in Nat /\ p.size \in Nat /\ now \in Nat /\ lost_count \in Nat
      /\ last_cut \in Nat \cup {None} /\ last_cut <= now
  BY <1>3 DEF IInv, SentOK, Packets
<1>5. SizeOf(sent') = cc.bytes_in_flight - p.size /\ SizeOf(sent') \in Nat
  <2>1. SizeOf({p}) = p.size
    BY <1>4, SizeOfOne
  <2> QED BY <1>2, <1>3, <2>1, SentIsSized DEF IInv, InFlightExact
<1>6. SentOK'
  <2>1. last_cut' \in Nat \cup {None} /\ last_cut' <= now
    BY <1>2, <1>4 DEF None
  <2> QED BY <1>2, <1>3, <1>4, <2>1, FewerSent DEF IInv
<1>7. cc.bytes_in_flight \in Nat /\ cc.bytes_in_flight >= p.size
  <2>1. cc.bytes_in_flight \in Nat
    BY <1>3, SentIsSized DEF IInv, InFlightExact
  <2> QED BY <1>4, <1>5, <2>1
<1>8. CASE alg = "cubic"
  <2>1. cc' = CubicAcked(cc, p.size, p.time, app_limited, lost_count, inc, now)
    BY <1>1, <1>8 DEF AckPacket
  <2>2. CubicOK(cc, now, last_cut)
    BY <1>8 DEF IInv, ControllersOK, CubicKept
  <2>3. inc \in Int
    BY <1>8, CubicAssumption DEF Incs
  <2>4. PICK back \in BOOLEAN : back = Restored
    BY DEF Restored
  <2>5. back <=> cc.cwnd < cc.prior.cwnd /\ cc'.cwnd = cc.prior.cwnd
                   /\ cc'.ssthresh = cc.prior.ssthresh
    BY <1>8, <2>4 DEF Restored
  <2>6. /\ CubicOK(cc', now, IF back THEN None ELSE last_cut)
        /\ cc'.bytes_in_flight = cc.bytes_in_flight - p.size
        /\ cc'.cwnd >= cc.cwnd
        /\ \/ cc'.cwnd <= cc.cwnd + p.size \/ cc'.cwnd <= cc.cwnd + MaxDatagram
           \/ last_cut # None /\ back /\ lost_count - cc.prior.lost_count < RestoreThreshold
    BY <1>4, <1>7, <2>1, <2>2, <2>3, <2>5, CubicAckedOK
  <2>7. CubicOK(cc', now, last_cut')
    BY <1>2, <2>4, <2>6
  <2>8. cc.cwnd \in Nat /\ cc'.cwnd \in Nat
    BY <2>2, <2>7 DEF CubicOK, CubicState
  <2>9. CutStep
    <3>1. PICK m \in Nat : m = Max(Sizes[alg] \cup {MaxDatagram}) /\ p.size <= m /\ MaxDatagram <= m
      BY <1>3, StepUp DEF IInv
    <3>2. ~(cc'.cwnd < cc.cwnd)
      BY <2>6, <2>8
    <3>3. MaxDatagram \in Nat
      BY WindowAssumption
    <3>4. cc'.cwnd > cc.cwnd + m
          => last_cut # None /\ back /\ lost_count - cc.prior.lost_count < RestoreThreshold
      BY <1>4, <2>6, <2>8, <3>1, <3>3
    <3> QED BY <2>4, <3>1, <3>2, <3>4 DEF CutStep
  <2> QED BY <1>2, <1>5, <1>6, <1>8, <2>6, <2>7, <2>9
          DEF IInv, InFlightExact, ControllersOK, CubicKept, BBRKept, TriggerKept
<1>9. CASE alg = "bbr"
  <2>1. cc' = BBRAcked(cc, p.pn)
    BY <1>1, <1>9 DEF AckPacket
  <2>2. BBROK(cc) /\ Answering(cc, now) /\ QueueOK(cc, sent, next_pn, now)
    BY <1>2, <1>9 DEF IInv, ControllersOK, BBRKept
  <2>3. sent \subseteq Packets /\ \A x, y \in sent : x.pn = y.pn => x = y
    BY DEF IInv, SentOK
  <2>4. /\ BBROK(cc') /\ Answering(cc', now) /\ QueueOK(cc', sent \ {p}, next_pn, now)
        /\ cc'.bytes_in_flight = cc.bytes_in_flight - p.size
    <3>1. now \in Int
      BY <1>4
    <3> QED BY ONLY <1>3, <2>1, <2>2, <2>3, <3>1, BBRAckedIs
  <2>5. cc'.in_ack = in_call'
    BY <1>2, <2>4 DEF IInv, Answering
  <2> QED BY <1>2, <1>5, <1>6, <1>9, <2>4, <2>5
          DEF IInv, InFlightExact, ControllersOK, CubicKept, BBRKept, TriggerKept, CutStep
<1>10. CASE alg = "cc_trigger"
  <2>1. cc' = TriggerAcked(cc, p.size, p.pn, early)
    BY <1>1, <1>10 DEF AckPacket
  <2>2. TriggerOK(cc, events)
    BY <1>10 DEF IInv, ControllersOK, TriggerKept
  <2>3. early = None \/ early \in Nat
    BY <1>10, CongestionAssumption DEF Earlies
  <2>4. PICK n \in Int : n = cc.bytes_in_flight - p.size
    BY <1>4, <1>7
  <2>5. PICK c : c = [cc EXCEPT !.bytes_in_flight = n]
    OBVIOUS
  <2>6. TriggerOK(c, events) /\ c.bytes_in_flight = n
    <3>1. TriggerOK(c, events)
      BY <2>2, <2>5, TriggerCounts
    <3> QED BY <2>2, <2>5, <3>1 DEF TriggerOK, TriggerState
  <2>7. cc' = CcTriggerCall(c, p.pn, early)
    BY <2>1, <2>4, <2>5 DEF TriggerAcked
  <2>8. TriggerOK(cc', events') /\ cc'.bytes_in_flight = n
    BY <1>2, <1>4, <2>3, <2>6, <2>7, CcTriggerCallIs
  <2> QED BY <1>2, <1>5, <1>6, <1>10, <2>4, <2>8
          DEF IInv, InFlightExact, ControllersOK, CubicKept, BBRKept, TriggerKept, CutStep
<1> QED BY <1>8, <1>9, <1>10, AlgIs DEF IInv

\* Losses: the bytes leave the controller as the packets leave sent, CUBIC may cut
\* its window, and the external solution is told.
LEMMA Losing ==
  ASSUME IInv, NEW c, NEW lost \in SUBSET sent, NEW early \in Earlies, LosePackets(c, lost, early),
         acking' = {}, in_call' = FALSE, UNCHANGED <<alg, now, next_pn>>,
         alg # "bbr" => c = cc, c.bytes_in_flight = cc.bytes_in_flight,
         alg = "bbr" => BBROK(c) /\ c.in_ack = FALSE /\ QueueOK(c, sent, next_pn, now)
  PROVE  IInv' /\ CutStep
<1>1. CASE lost = {}
  <2>1. cc' = c /\ UNCHANGED <<sent, lost_count, events, last_cut>>
    BY <1>1 DEF LosePackets
  <2>2. SentOK'
    BY <2>1 DEF IInv, SentOK
  <2>3. alg # "bbr" => CutStep
    BY <2>1, NoCut
  <2>4. alg = "bbr" => CutStep
    BY DEF CutStep
  <2> QED BY <2>1, <2>2, <2>3, <2>4
          DEF IInv, InFlightExact, ControllersOK, CubicKept, BBRKept, TriggerKept
<1>2. CASE lost # {}
  <2>1. PICK last : last = Newest(lost)
    OBVIOUS
  <2>2. PICK fewer : fewer = Decreased(c, SizeOf(lost))
    OBVIOUS
  <2>3. /\ sent' = sent \ lost /\ lost_count' = lost_count + Cardinality(lost)
        /\ cc' = Event(fewer, last, lost_count', early) /\ events' = Append(events, last.pn)
        /\ last_cut' = IF alg = "cubic" /\ cc'.cwnd < c.cwnd THEN now ELSE last_cut
    BY <1>2, <2>1, <2>2 DEF LosePackets
  <2>4. IsFiniteSet(lost) /\ lost \subseteq Packets
    BY SentIsSized DEF IInv, SentOK
  <2>5. last \in lost /\ last \in sent \ sent' /\ last.pn \in Nat /\ last.time \in Nat
    <3>1. last \in lost
      BY <1>2, <2>1, <2>4, NewestIs
    <3> QED BY <2>3, <2>4, <3>1 DEF Packets
  <2>6. lost_count \in Nat /\ lost_count' \in Nat /\ lost_count' > lost_count
    <3>1. Cardinality(lost) \in Nat /\ Cardinality(lost) # 0
      BY <1>2, <2>4, FS_CardinalityType, FS_EmptySet
    <3>2. lost_count \in Nat
      BY DEF IInv, SentOK
    <3> QED BY <2>3, <3>1, <3>2
  <2>7. now \in Nat /\ last_cut \in Nat \cup {None} /\ last_cut <= now
    BY DEF IInv, SentOK
  <2>8. SentOK'
    <3>1. last_cut' \in Nat \cup {None} /\ last_cut' <= now
      BY <2>3, <2>7
    <3> QED BY <2>3, <2>6, <3>1, FewerSent DEF IInv
  <2>9. PICK n \in Nat : n = c.bytes_in_flight - SizeOf(lost) /\ n = SizeOf(sent')
    BY <2>3, SentIsSized DEF IInv, InFlightExact
  <2>10. fewer = [c EXCEPT !.bytes_in_flight = n]
    <3>1. SizeOf(lost) \in Nat /\ c.bytes_in_flight \in Nat
      BY SentIsSized DEF IInv, InFlightExact
    <3>2. ~(c.bytes_in_flight < SizeOf(lost))
      BY <2>9, <3>1
    <3> QED BY <2>2, <2>9, <3>2 DEF Decreased
  <2>11. CASE alg = "cubic"
    <3>1. CubicOK(c, now, last_cut) /\ c = cc
      BY <2>11 DEF IInv, ControllersOK, CubicKept
    <3>2. CubicOK(fewer, now, last_cut) /\ fewer.cwnd = c.cwnd /\ fewer.bytes_in_flight = n
      BY <2>9, <2>10, <3>1 DEF CubicOK, CubicState
    <3>3. cc' = CubicEvent(fewer, last.time, lost_count', now)
      BY <2>3, <2>11 DEF Event
    <3>4. /\ CubicOK(cc', now, last_cut') /\ cc'.cwnd <= c.cwnd /\ cc'.bytes_in_flight = n
          /\ cc'.cwnd < c.cwnd => last_cut = None \/ last.time > last_cut
      <4>1. PICK d, k, t, cut : d = cc' /\ k = lost_count' /\ t = last.time /\ cut = last_cut'
        OBVIOUS
      <4>2. /\ d = CubicEvent(fewer, t, k, now) /\ k \in Nat /\ t \in Nat /\ now \in Nat
            /\ last_cut \in Nat \cup {None} /\ last_cut <= now
            /\ cut = IF d.cwnd < fewer.cwnd THEN now ELSE last_cut
        BY <2>3, <2>5, <2>6, <2>7, <2>11, <3>2, <3>3, <4>1
      <4>3. CubicOK(d, now, cut)
        BY ONLY <3>2, <4>2, CubicEventOK
      <4>4. d.cwnd <= fewer.cwnd
        BY ONLY <3>2, <4>2, CubicEventOK
      <4>5. d.bytes_in_flight = fewer.bytes_in_flight
        BY <3>2, <4>2 DEF CubicEvent, CubicOK, CubicState
      <4>6. d.cwnd < fewer.cwnd => last_cut = None \/ t > last_cut
        BY ONLY <3>2, <4>2, CubicEventOK
      <4> QED BY <3>2, <4>1, <4>3, <4>4, <4>5, <4>6
    <3>5. CutStep
      <4>1. cc.cwnd \in Nat /\ cc'.cwnd \in Nat
        BY <3>1, <3>4 DEF CubicOK, CubicState
      <4>2. PICK m \in Nat : m = Max(Sizes[alg] \cup {MaxDatagram})
        BY <2>5, StepUp DEF IInv
      <4>3. ~(cc'.cwnd > cc.cwnd + m)
        BY <3>1, <3>4, <4>1, <4>2
      <4> QED BY <2>5, <2>6, <3>1, <3>4, <4>2, <4>3 DEF CutStep
    <3> QED BY <2>8, <2>9, <2>11, <3>4, <3>5
            DEF IInv, InFlightExact, ControllersOK, CubicKept, BBRKept, TriggerKept
  <2>12. CASE alg = "bbr"
    <3>1. cc' = fewer
      BY <2>3, <2>12 DEF Event
    <3>2. BBROK(c) /\ c.in_ack = FALSE /\ QueueOK(c, sent, next_pn, now)
      BY <2>12
    <3>3. /\ Changes(c, fewer, {"bytes_in_flight"}) /\ fewer.bytes_in_flight = n
          /\ fewer.in_ack = c.in_ack /\ fewer.queue = c.queue
          /\ fewer.last_acked_time = c.last_acked_time /\ fewer.app_limited = c.app_limited
      BY <2>10, <3>2 DEF Changes, BBROK, Measured, BBRRecord, BBRFields
    <3>4. BBROK(fewer)
      <4>1. {"bytes_in_flight"} \subseteq SentFields \cup {"in_ack", "ack", "app_limited"}
        BY DEF SentFields
      <4>2. \A k \in NumFields : fewer[k] \in Int
        BY <3>2, <3>3 DEF Changes, BBROK, Measured, NumFields, BBRFields
      <4>3. fewer.app_limited \in BOOLEAN
        BY <3>2, <3>3 DEF BBROK
      <4> QED BY <3>2, <3>3, <4>1, <4>2, <4>3, BookChange
    <3>5. QueueOK(fewer, sent', next_pn, now)
      BY <2>3, <3>2, <3>3 DEF QueueOK
    <3> QED BY <2>8, <2>9, <2>12, <3>1, <3>2, <3>3, <3>4, <3>5
            DEF IInv, InFlightExact, ControllersOK, CubicKept, BBRKept, TriggerKept, CutStep
  <2>13. CASE alg = "cc_trigger"
    <3>1. TriggerOK(c, events)
      BY <2>13 DEF IInv, ControllersOK, TriggerKept
    <3>2. TriggerOK(fewer, events)
      BY <2>9, <2>10, <3>1, TriggerCounts
    <3>3. fewer.bytes_in_flight = n
      BY <2>10, <3>1 DEF TriggerOK, TriggerState
    <3>4. cc' = CcTriggerCall(fewer, last.pn, early)
      BY <2>3, <2>13 DEF Event
    <3>5. early = None \/ early \in Nat
      BY <2>13, CongestionAssumption DEF Earlies
    <3>6. TriggerOK(cc', events') /\ cc'.bytes_in_flight = n
      <4>1. /\ TriggerOK(CcTriggerCall(fewer, last.pn, early), Append(events, last.pn))
            /\ CcTriggerCall(fewer, last.pn, early).bytes_in_flight = fewer.bytes_in_flight
        BY <2>5, <3>2, <3>5, CcTriggerCallIs
      <4> QED BY <2>3, <3>3, <3>4, <4>1
    <3> QED BY <2>8, <2>9, <2>13, <3>6
            DEF IInv, InFlightExact, ControllersOK, CubicKept, BBRKept, TriggerKept, CutStep
  <2> QED BY <2>11, <2>12, <2>13, AlgIs DEF IInv
<1> QED BY <1>1, <1>2

LEMMA EndAckStep ==
  ASSUME IInv, NEW offset \in Offsets, NEW bound, NEW early \in Earlies, EndAck(offset, bound, early)
  PROVE  IInv' /\ CutStep
<1>1. PICK c : c = IF alg = "bbr" THEN BBREndAck(cc, offset) ELSE cc
  OBVIOUS
<1>2. PICK lost : lost = IF any_acked THEN Overtaken(bound) ELSE {}
  OBVIOUS
<1>3. /\ in_call /\ acking = {} /\ in_call' = FALSE /\ LosePackets(c, lost, early)
      /\ UNCHANGED <<alg, now, next_pn, acking, any_acked, largest, app_limited>>
  BY <1>1, <1>2 DEF EndAck
<1>4. lost \in SUBSET sent
  BY <1>2 DEF Overtaken
<1>5. alg = "bbr" => /\ BBROK(c) /\ c.in_ack = FALSE /\ QueueOK(c, sent, next_pn, now)
                     /\ c.bytes_in_flight = cc.bytes_in_flight
  <2> SUFFICES ASSUME alg = "bbr"
               PROVE  /\ BBROK(c) /\ c.in_ack = FALSE /\ QueueOK(c, sent, next_pn, now)
                      /\ c.bytes_in_flight = cc.bytes_in_flight
    OBVIOUS
  <2>1. BBROK(cc) /\ AckOK(cc) /\ cc.in_ack = TRUE /\ QueueOK(cc, sent, next_pn, now)
    BY <1>3 DEF IInv, ControllersOK, BBRKept, Answering
  <2>2. offset \in Int
    BY BBRAssumption DEF Offsets
  <2>3. BBROK(c) /\ c.in_ack = FALSE /\ Changes(cc, c, BBRFields \ SentFields)
    BY <1>1, <2>1, <2>2, BBREndAckIs
  <2>4. /\ c.queue = cc.queue /\ c.last_acked_time = cc.last_acked_time
        /\ c.bytes_in_flight = cc.bytes_in_flight
    BY <2>3 DEF Changes, BBRFields, SentFields
  <2>5. QueueOK(c, sent, next_pn, now)
    BY <2>1, <2>4 DEF QueueOK
  <2> QED BY <2>3, <2>4, <2>5
<1>6. alg # "bbr" => c = cc
  BY <1>1
<1>7. c.bytes_in_flight = cc.bytes_in_flight
  BY <1>5, <1>6
<1> QED BY <1>3, <1>4, <1>5, <1>6, <1>7, Losing

LEMMA LossTimeoutStep ==
  ASSUME IInv, NEW bound, NEW early \in Earlies, LossTimeout(bound, early)
  PROVE  IInv' /\ CutStep
<1>1. PICK lost : lost = Overtaken(bound)
  OBVIOUS
<1>2. /\ ~in_call /\ LosePackets(cc, lost, early)
      /\ UNCHANGED <<alg, now, next_pn, acking, any_acked, in_call, largest, app_limited>>
  BY <1>1 DEF LossTimeout
<1>3. lost \in SUBSET sent
  BY <1>1 DEF Overtaken
<1>4. acking' = {} /\ in_call' = FALSE
  BY <1>2 DEF IInv, SentOK
<1>5. alg = "bbr" => BBROK(cc) /\ cc.in_ack = FALSE /\ QueueOK(cc, sent, next_pn, now)
  BY <1>2 DEF IInv, ControllersOK, BBRKept
<1> QED BY <1>2, <1>3, <1>4, <1>5, Losing

LEMMA ThreadEndsStep ==
  ASSUME IInv, NEW window \in Answers, ThreadEnds(window)
  PROVE  IInv' /\ CutStep
<1>1. PICK i \in DOMAIN cc.jobs : cc' = JobDone(cc, i, window)
  BY DEF ThreadEnds
<1>2. /\ alg = "cc_trigger"
      /\ UNCHANGED <<alg, now, sent, next_pn, acking, any_acked, in_call, largest,
                     lost_count, app_limited, events, last_cut>>
  BY DEF ThreadEnds
<1>3. TriggerOK(cc, events) /\ window \in Nat
  BY <1>2, CongestionAssumption DEF IInv, ControllersOK, TriggerKept
<1>4. cc.started = TRUE
  <2>1. cc.started \in BOOLEAN /\ cc.jobs # <<>>
    BY <1>1, <1>3 DEF TriggerOK, TriggerState
  <2> QED BY <1>3, <2>1 DEF TriggerOK
<1>5. TriggerOK(cc', events) /\ cc'.bytes_in_flight = cc.bytes_in_flight
  BY <1>1, <1>3, <1>4, JobDoneIs
<1>6. SentOK'
  BY <1>2 DEF IInv, SentOK
<1> QED BY <1>2, <1>5, <1>6
        DEF IInv, InFlightExact, ControllersOK, CubicKept, BBRKept, TriggerKept, CutStep

LEMMA TickStep ==
  ASSUME IInv, Tick
  PROVE  IInv' /\ CutStep
<1>1. /\ ~in_call /\ now' = now + 1
      /\ UNCHANGED <<alg, cc, sent, next_pn, acking, any_acked, in_call, largest,
                     lost_count, app_limited, events, last_cut>>
  BY DEF Tick
<1>2. now \in Nat /\ last_cut \in Nat \cup {None}
  BY DEF IInv, SentOK
<1>3. SentOK'
  BY <1>1, <1>2 DEF IInv, SentOK, Packets, None
<1>4. CutStep
  BY <1>1, NoCut
<1>5. alg = "cubic" => CubicOK(cc, now + 1, last_cut)
  BY <1>2 DEF IInv, ControllersOK, CubicKept, CubicOK, CubicState, None
<1>6. alg = "bbr" => QueueOK(cc, sent, next_pn, now + 1)
  <2> SUFFICES ASSUME alg = "bbr"  PROVE QueueOK(cc, sent, next_pn, now + 1)
    OBVIOUS
  <2>1. QueueOK(cc, sent, next_pn, now) /\ cc.last_acked_time \in Int
    BY DEF IInv, ControllersOK, BBRKept, BBROK, Measured, NumFields
  <2>2. cc.last_acked_time <= now + 1
    BY <1>2, <2>1 DEF QueueOK
  <2> QED BY <2>1, <2>2 DEF QueueOK
<1> QED BY <1>1, <1>3, <1>4, <1>5, <1>6
        DEF IInv, InFlightExact, ControllersOK, CubicKept, BBRKept, TriggerKept

\* Every step
LEMMA StepKeeps ==
  ASSUME IInv, [Next]_vars
  PROVE  IInv' /\ [CutStep]_vars
<1>1. CASE UNCHANGED vars
  <2>1. IInv'
    BY <1>1 DEF vars, IInv, SentOK, InFlightExact, ControllersOK, CubicKept, BBRKept, TriggerKept
  <2> QED BY <1>1, <2>1
<1>2. ASSUME NEW size \in Sizes[alg], SendPacket(size)  PROVE IInv' /\ CutStep
  BY <1>2, SendStep
<1>3. ASSUME NEW pkts \in SUBSET sent, RecvAck(pkts)  PROVE IInv' /\ CutStep
  BY <1>3, RecvAckStep
<1>4. ASSUME NEW inc \in Incs, NEW early \in Earlies, AckPacket(inc, early)
      PROVE  IInv' /\ CutStep
  BY <1>4, AckPacketStep
<1>5. ASSUME NEW offset \in Offsets, NEW bound, NEW early \in Earlies, EndAck(offset, bound, early)
      PROVE  IInv' /\ CutStep
  BY <1>5, EndAckStep
<1>6. ASSUME NEW bound, NEW early \in Earlies, LossTimeout(bound, early)
      PROVE  IInv' /\ CutStep
  BY <1>6, LossTimeoutStep
<1>7. ASSUME NEW window \in Answers, ThreadEnds(window)  PROVE IInv' /\ CutStep
  BY <1>7, ThreadEndsStep
<1>8. CASE Tick
  BY <1>8, TickStep
<1> QED BY <1>1, <1>2, <1>3, <1>4, <1>5, <1>6, <1>7, <1>8 DEF Next

-----------------------------------------------------------------------------
(* Theorems *)

LEMMA InductiveCorrect == Spec => []IInv
<1>1. Init => IInv
  BY Starts
<1>2. IInv /\ [Next]_vars => IInv'
  BY StepKeeps
<1> QED BY <1>1, <1>2, PTL DEF Spec

\* Every controller counts exactly the bytes recovery holds in sent, so that
\* the subtractions of BBR and cc_trigger never go below zero.
THEOREM InFlightCorrect == Spec => []InFlightExact
<1>1. IInv => InFlightExact
  BY DEF IInv
<1> QED BY <1>1, InductiveCorrect, PTL

\* The windows of CUBIC and BBR stay within their bounds, through every loss,
\* rollback and estimate.
THEOREM WindowCorrect == Spec => []WindowInBounds
<1>1. IInv => WindowInBounds
  <2> SUFFICES ASSUME IInv  PROVE WindowInBounds
    OBVIOUS
  <2>1. alg = "cubic" => /\ cc.cwnd >= MinimumWindow
                         /\ cc.ssthresh # Unlimited => cc.ssthresh >= MinimumWindow
    BY DEF IInv, ControllersOK, CubicKept, CubicOK, AboveFloor
  <2>2. alg = "bbr" => MinCwnd <= Window /\ Window <= MaxCwnd
    <3>1. MinCwnd \in Nat /\ MaxCwnd \in Nat /\ MinCwnd <= MaxCwnd
      BY BBRAssumption
    <3> QED BY <3>1 DEF IInv, ControllersOK, BBRKept, BBROK, WindowOK, Window, BBRCwnd
  <2> QED BY <2>1, <2>2 DEF WindowInBounds
<1> QED BY <1>1, InductiveCorrect, PTL

\* No assertion of bbr.rs fails, its filters keep their best samples in order,
\* and its mode agrees with its gains and its mark of full bandwidth.
THEOREM BBRCorrect == Spec => []BBRConsistent
<1>1. IInv => BBRConsistent
  BY DEF IInv, ControllersOK, BBRKept, BBROK, Measured, FilterOK, Agreeing, NotMarked, BBRConsistent
<1> QED BY <1>1, InductiveCorrect, PTL

\* CUBIC cuts its window for a new loss only, and raises it by more than a
\* packet only to take back its last cut.
THEOREM CutsCorrect == Spec => CubicCuts
<1>1. IInv /\ [Next]_vars => [CutStep]_vars
  BY StepKeeps
<1> QED BY <1>1, InductiveCorrect, PTL DEF Spec, CubicCuts, CutStep

\* The external solution never runs twice at once, and is told every
\* acknowledgement and loss once, in order.
THEOREM CallsCorrect == Spec => []OneSolutionCall
<1>1. IInv => OneSolutionCall
  BY DEF IInv, ControllersOK, TriggerKept, TriggerOK, OneSolutionCall
<1> QED BY <1>1, InductiveCorrect, PTL

=============================================================================
