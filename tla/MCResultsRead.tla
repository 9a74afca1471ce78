--------------------------- MODULE MCResultsRead ---------------------------
(* Instances of ResultsRead for TLC.                                       *)
EXTENDS ResultsRead, TLC

View(n) == [type |-> "screen_view", screen |-> n, point |-> None, handled |-> None]
Click(n, p, h) == [type |-> "pointer_interaction", screen |-> n, point |-> p, handled |-> h]
Reaches(n) == [type |-> "screen_view", screen |-> n]

MCRule == [t \in Tasks |-> [version |-> "2", success |-> {Reaches("done")},
                            failure |-> {Reaches("wrong")}, expected |-> <<"list", "done">>]]

MCFunnel == <<"list", "item", "done">>

CanPoint == [c \in {"pointer"} |-> "Available"]

Twins == Permutations(Sessions)

Scenario(people, signals, maxRaw, maxAt, what) ==
  [people |-> people, signals |-> signals, maxRaw |-> maxRaw, maxAt |-> maxAt,
   clocksStep |-> "clocksStep" \in what, purging |-> "purging" \in what,
   reading |-> "reading" \in what]

(* A task visited on after it is decided; two participants; a page read    *)
(* while two are recorded; a clock set back and a purge; a walk through    *)
(* the funnel and back; bursts of clicks.                                  *)
MCScenarios ==
  { Scenario(1, {View(n) : n \in Screens}, 5, 1, {}),
    Scenario(2, {View("done"), View("wrong")}, 5, 1, {}),
    Scenario(2, {View("done"), Click("list", "p", FALSE)}, 4, 1, {"reading"}),
    Scenario(1, {View("done"), View("wrong")}, 5, 1, {"clocksStep", "purging"}),
    Scenario(1, {View("list"), View("item"), View("done")}, 6, 0, {}),
    Scenario(1, {View("done"), Click("list", "p", FALSE)}, 5, 1, {}) }
=============================================================================
