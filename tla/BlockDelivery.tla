--------------------------- MODULE BlockDelivery ---------------------------
(***************************************************************************)
(* What a DTP connection promises about the blocks one side sends, without *)
(* packets, acknowledgments, windows or timers: the receiving application  *)
(* reads a prefix of what was written, in order, unless the sender gave    *)
(* the block up; it is told the end of the block once, when it has all of  *)
(* it; and the sender forgets a block only when all of it has arrived.     *)
(***************************************************************************)
EXTENDS Integers

CONSTANTS
    Ids,
    MaxOff   \* bound: bytes written to one block

VARIABLES
    written,   \* bytes the sending application wrote
    final,     \* it finished the block
    canceled,  \* the sender gave the block up
    arrived,   \* the bytes that reached the receiver
    read,      \* bytes the receiving application has read
    closed,    \* it was told the end of the block
    stopped,   \* the receiver knows that the block is canceled
    settled    \* the sender forgot the block

vars == <<written, final, canceled, arrived, read, closed, stopped, settled>>

Init ==
    /\ written = [id \in Ids |-> 0] /\ read = [id \in Ids |-> 0]
    /\ arrived = [id \in Ids |-> {}]
    /\ final = [id \in Ids |-> FALSE] /\ canceled = [id \in Ids |-> FALSE]
    /\ closed = [id \in Ids |-> FALSE] /\ stopped = [id \in Ids |-> FALSE]
    /\ settled = [id \in Ids |-> FALSE]

Write(id) ==
    /\ ~final[id] /\ ~canceled[id]
    /\ \E n \in written[id]..MaxOff, fin \in BOOLEAN :
         /\ written' = [written EXCEPT ![id] = n]
         /\ final' = [final EXCEPT ![id] = fin]
    /\ UNCHANGED <<canceled, arrived, read, closed, stopped, settled>>

Cancel(id) ==
    /\ canceled' = [canceled EXCEPT ![id] = TRUE]
    /\ UNCHANGED <<written, final, arrived, read, closed, stopped, settled>>

Arrive(id) ==
    /\ \E bytes \in SUBSET (0..(written[id] - 1)) :
         arrived' = [arrived EXCEPT ![id] = @ \cup bytes]
    /\ UNCHANGED <<written, final, canceled, read, closed, stopped, settled>>

Read(id) ==
    /\ ~closed[id] /\ ~stopped[id]
    /\ \E n \in read[id]..written[id] :
         /\ 0..(n - 1) \subseteq arrived[id]
         /\ read' = [read EXCEPT ![id] = n]
    /\ UNCHANGED <<written, final, canceled, arrived, closed, stopped, settled>>

Close(id) ==
    /\ final[id] /\ read[id] = written[id] /\ ~stopped[id]
    /\ closed' = [closed EXCEPT ![id] = TRUE]
    /\ UNCHANGED <<written, final, canceled, arrived, read, stopped, settled>>

Stop(id) ==
    /\ canceled[id] /\ ~closed[id]
    /\ stopped' = [stopped EXCEPT ![id] = TRUE]
    /\ UNCHANGED <<written, final, canceled, arrived, read, closed, settled>>

Settle(id) ==
    /\ final[id] /\ arrived[id] = 0..(written[id] - 1)
    /\ settled' = [settled EXCEPT ![id] = TRUE]
    /\ UNCHANGED <<written, final, canceled, arrived, read, closed, stopped>>

Next ==
    \E id \in Ids :
        \/ Write(id) \/ Cancel(id) \/ Arrive(id) \/ Read(id) \/ Close(id)
        \/ Stop(id) \/ Settle(id)

Spec == Init /\ [][Next]_vars

-----------------------------------------------------------------------------
(* What follows from it *)

\* The application reads only what was written and has arrived, a closed block
\* was read to its end, and a forgotten one needs nothing more from the sender.
Faithful ==
    \A id \in Ids :
        /\ arrived[id] \subseteq 0..(written[id] - 1)
        /\ 0..(read[id] - 1) \subseteq arrived[id]
        /\ closed[id] => final[id] /\ read[id] = written[id] /\ ~stopped[id]
        /\ stopped[id] => canceled[id]
        /\ settled[id] => final[id] /\ arrived[id] = 0..(written[id] - 1)
=============================================================================
