\* Six versions: a decided task visited on, two participants, a page read
\* while two are recorded, a clock set back, the funnel, bursts of clicks.
SPECIFICATION ReadSpec
CONSTANTS
  None = None
  Sessions = {p, q}
  Tasks = {t}
  Screens = {"list", "item", "done", "wrong"}
  Points = {"p"}
  TaskRule <- MCRule
  Window = 0
  ScreenFunnel <- MCFunnel
  Capability <- CanPoint
  PageSize = 3
  Scenarios <- MCScenarios
SYMMETRY Twins
INVARIANTS
  ViewsAgree
  ResultsComputed
  NumbersTraced
  FunnelIsLongestPrefix
  NothingMissed
  RepeatsDoNotCount
CHECK_DEADLOCK FALSE
