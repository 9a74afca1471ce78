\* One tab or two, whose transactions interleave and may fail.
SPECIFICATION MCSpec
CONSTANTS
  None = None
  a = a
  b = b
  Sessions = {s}
  Tasks = {t}
  Screens = {"list", "done", "wrong"}
  Points = {}
  TaskRule <- MCRule
  Window = 1
  Shared = {None, "done"}
  Tabs = {a, b}
  Openings <- OneOrTwo
  Session = s
  Task = t
  Skews <- OnTime
  MaxEvents = 4
  MaxTime = 1
  MaxFailures = 1
INVARIANTS
  OutcomeHasEvidence
  OneOutcome
PROPERTIES
  OutcomeIsFinal
  EventuallyStored
CHECK_DEADLOCK FALSE
