----------------------------- MODULE MCDatagram -----------------------------
(* Work to send for Datagram: one kind per hazard, at the size of a packet  *)
(* of 120 bytes where the program has 1350.                                 *)
EXTENDS Datagram

Tag16 == 16
Sample16 == 16

None == [s \in {0, 4, 16384} |-> {}]
NoGroup == [size |-> 0, index |-> 0, m |-> 0, n |-> 0, id |-> 0]
Quiet ==
    [server |-> FALSE, established |-> TRUE, crypto |-> [e \in Epochs |-> {}], acks |-> [e \in Epochs |-> {}],
     elicited |-> {}, canceled |-> {}, done |-> FALSE, bidi |-> FALSE, uni |-> FALSE, max_data |-> FALSE,
     almost |-> {}, error |-> FALSE, app |-> -1, level |-> 2, challenge |-> FALSE, streams |-> None, new |-> {},
     credit |-> 1000, probes |-> [e \in Epochs |-> 0], repairs |-> <<>>, group |-> NoGroup, next_group |-> 1,
     lost |-> [e \in Epochs |-> <<>>], next |-> [e \in Epochs |-> 0], draining |-> FALSE]
Sizes == [s \in {0, 4, 16384} |-> IF s = 16384 THEN 20 ELSE 90]
Kind(conn, groups, windows, calls, skip) ==
    [conn |-> conn, size |-> Sizes, groups |-> groups \cup {<<0, 0>>}, windows |-> windows, sends |-> calls, skip |-> skip]

Ranges == {<<2, 3>>, <<6, 70>>, <<72, 73>>}
ClientHello == Kind([Quiet EXCEPT !.established = FALSE, !.crypto[0] = 0..69, !.crypto[1] = 0..9, !.level = 0], {}, {74, 200}, 3, 0)
ServerHello == Kind([Quiet EXCEPT !.server = TRUE, !.crypto = [e \in Epochs |-> 0..20], !.done = TRUE,
                        !.acks[0] = {<<0, 1>>}, !.elicited = {0}], {}, {40, 74, 200}, 4, 0)
Blocks == Kind([Quiet EXCEPT !.streams[4] = 0..89, !.streams[16384] = 0..19, !.new = {4, 16384},
                   !.acks[2] = Ranges, !.credit = 100], {}, {70, 200}, 3, 0)
Protected == Kind([Quiet EXCEPT !.streams[4] = 0..89, !.new = {4}, !.crypto[1] = 0..9], {<<1, 1>>, <<2, 1>>}, {60, 200}, 4, 0)
Credit == Kind([Quiet EXCEPT !.server = TRUE, !.done = TRUE, !.bidi = TRUE, !.uni = TRUE, !.max_data = TRUE,
                   !.almost = {0, 4}, !.canceled = {16384}, !.challenge = TRUE, !.probes[1] = 1, !.elicited = {2},
                   !.acks[2] = Ranges], {}, {45, 60, 200}, 3, 0)
Closes == Kind([Quiet EXCEPT !.app = 10, !.probes[2] = 2, !.streams[0] = 0..9], {}, {50, 200}, 3, 0)
LongReason == Kind([Quiet EXCEPT !.app = 90, !.probes[2] = 1], {}, {200}, 2, 0)
Fails == Kind([Quiet EXCEPT !.error = TRUE, !.established = FALSE, !.crypto[0] = 0..9, !.challenge = TRUE], {}, {40, 200}, 3, 0)
Overtaken == Kind([Quiet EXCEPT !.probes[2] = 4], {}, {40, 200}, 4, 254)

Nothing == Kind([Quiet EXCEPT !.draining = TRUE], {}, {200}, 0, 0)
AllWorks == {Nothing, ClientHello, ServerHello, Blocks, Protected, Credit, Closes, LongReason, Fails, Overtaken}
\* The client's Finished can be lost when an FEC group has just been filled
LostFinished == {[Protected EXCEPT !.groups = {<<1, 1>>}, !.windows = {200}]}
=============================================================================
