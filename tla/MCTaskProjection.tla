-------------------------- MODULE MCTaskProjection --------------------------
(* Instances of TaskProjection for TLC: one tab with every screen and      *)
(* transactions that fail, or two tabs that show the screens of Shared.    *)
EXTENDS TaskProjection

CONSTANTS a, b, Shared

OneOrTwo == {{a}, {a, b}}

MCView(n) == [type |-> "screen_view", screen |-> n]

(* Reaching "done" is a success, direct along <<"list", "done">>; reaching *)
(* "wrong" is a failure.                                                   *)
MCRule == [t \in Tasks |-> [version |-> "1", success |-> {MCView("done")},
                            failure |-> {MCView("wrong")}, expected |-> <<"list", "done">>]]

OnTime == {0}

(* Two tabs have their transactions committed, in any order.               *)
Bound == ~Alone => /\ failures' = 0
                   /\ \A c \in Tabs : pending'[c] # NoEvent => pending'[c].screen \in Shared

MCSpec == Init /\ [][Next /\ Bound]_vars /\ \A c \in Tabs : WF_vars(Serve(c))
=============================================================================
