----------------------------- MODULE CcTrigger -----------------------------
(***************************************************************************)
(* The controller that asks an external solution for the window            *)
(* (src/src/cc/cc_trigger.rs) as operators on its state, a record.  Events *)
(* wait in infos until a thread of the pool takes them all to the solution *)
(* (job), whose answer comes back through a channel (results).  An event   *)
(* is the packet it is about.  The pacing rate travels with the window and *)
(* is left out.                                                            *)
(***************************************************************************)
EXTENDS Reno, SequencesExt

TriggerInit ==
  [cwnd |-> InitialWindow, bytes_in_flight |-> 0, started |-> FALSE,
   infos |-> <<>>, jobs |-> <<>>, results |-> <<>>, handed |-> <<>>]

\* pool.execute of cc_trigger_async with everything that waits.
Spawn(c) ==
  [c EXCEPT !.jobs = Append(@, c.infos), !.handed = @ \o c.infos, !.infos = <<>>]

\* A thread of the pool ends: the solution answers job i with a window.
JobDone(c, i, cwnd) ==
  [c EXCEPT !.jobs = RemoveAt(@, i), !.results = Append(@, cwnd)]

\* try_recv: the window of the answer that waits, if any, and a new job for the
\* events that came since the last one.
TakeAnswer(c) ==
  LET c1 == [c EXCEPT !.cwnd = Head(c.results), !.results = Tail(@)]
  IN  IF c.results = <<>> THEN c
      ELSE IF c1.infos = <<>> THEN c1 ELSE Spawn(c1)

\* The thread just started answers with the window early before the channel is
\* looked at, or does not (None).
Raced(c, early) == IF early = None THEN c ELSE JobDone(c, 1, early)

\* cc_trigger: the first event starts a job at once; later ones wait for the
\* answer of the last job, which is looked for here and nowhere else.
CcTriggerCall(c, event, early) ==
  LET c1 == [c EXCEPT !.infos = Append(@, event)]
  IN  TakeAnswer(IF c.started THEN c1
                 ELSE Raced(Spawn([c1 EXCEPT !.started = TRUE]), early))

TriggerSent(c, size) == [c EXCEPT !.bytes_in_flight = @ + size]

TriggerAcked(c, size, pn, early) ==
  CcTriggerCall([c EXCEPT !.bytes_in_flight = @ - size], pn, early)

=============================================================================
