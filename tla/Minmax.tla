------------------------------- MODULE Minmax -------------------------------
(***************************************************************************)
(* The windowed extremum filter of src/src/minmax.rs (a minimum, for FEC)  *)
(* and of src/src/cc/bbr.rs (a maximum, for bandwidth): the best, second   *)
(* and third best measurements, f[1], f[2] and f[3].                       *)
(***************************************************************************)
EXTENDS Integers, Sequences

\* reset, minmax_reset
FilterReset(now, value) == [i \in 1 .. 3 |-> [time |-> now, value |-> value]]

\* subwin_update for the sample s: what has left the window is replaced, and
\* the second and third choices are spread over it.
SubwinUpdate(f, win, s) ==
  LET dt == s.time - f[1].time
      once == <<f[2], f[3], s>>
  IN  IF dt > win
      THEN IF s.time - once[1].time > win THEN <<f[3], s, s>> ELSE once
      ELSE IF f[2].time = f[1].time /\ 4 * dt > win THEN <<f[1], s, s>>
      ELSE IF f[3].time = f[2].time /\ 2 * dt > win THEN <<f[1], f[2], s>>
      ELSE f

\* The choices that s beats or equals are forgotten.
Kept(f, s, Beats(_, _)) ==
  IF Beats(s.value, f[2].value) THEN <<f[1], s, s>>
  ELSE IF Beats(s.value, f[3].value) THEN <<f[1], f[2], s>>
  ELSE f

\* minmax_upmax: a filter that holds 0 has no measurement yet.
RunningMax(f, win, now, value) ==
  LET s == [time |-> now, value |-> value]
  IN  IF f[1].value = 0 \/ value >= f[1].value \/ now - f[3].time > win
      THEN FilterReset(now, value)
      ELSE SubwinUpdate(Kept(f, s, LAMBDA a, b : a >= b), win, s)

\* running_min
RunningMin(f, win, now, value) ==
  LET s == [time |-> now, value |-> value]
  IN  IF value <= f[1].value \/ now - f[3].time > win
      THEN FilterReset(now, value)
      ELSE SubwinUpdate(Kept(f, s, LAMBDA a, b : a <= b), win, s)

=============================================================================
