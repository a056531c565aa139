-------------------------------- MODULE MCH3 --------------------------------
(***************************************************************************)
(* H3 for TLC.                                                             *)
(***************************************************************************)
EXTENDS H3

Plan(c, s, e, late, rogue, lone) ==
    [client |-> c, server |-> s, split |-> e, late |-> late, rogue |-> rogue, lone |-> lone]
Honest == {Plan(1, 0, "server", {}, "nobody", FALSE), Plan(0, 1, "client", {}, "nobody", FALSE),
           Plan(0, 1, "server", {"server"}, "nobody", FALSE)}
Lone == {Plan(0, 1, "server", {}, "nobody", TRUE)}
SomePlans == Honest \cup Lone \cup {Plan(0, 0, "client", {}, e, FALSE) : e \in Sides}

F(ty, v, n) == [ty |-> ty, v |-> v, len |-> n, fin |-> FALSE]

\* Every type a rule tells apart, a limit that is raised and reduced, odd
\* lengths, and a last frame
SomeFrames ==
    {F(DATA, 50, 1), F(HEADERS, 40, 1), F(CANCEL_PUSH, 1, 1), F(SETTINGS, 7, 1), F(DUPLICATE_PUSH, 1, 1), F(GOAWAY, 5, 1),
     F(MAX_PUSH, 2, 1), F(MAX_PUSH, 1, 1), F(MAX_PUSH, 0, 0), F(GREASE, 0, 3), [F(GREASE, 0, 1) EXCEPT !.fin = TRUE]}
=============================================================================
