\* Two tasks, at most one reload, a page that can be instrumented or not.  The
\* participant may stop on a page without buttons.
SPECIFICATION Spec
CONSTANTS
  NumTasks = 2
  Feedback = {1}
  Timed = {2}
  Targets = {"window", "embedded", "unavailable"}
  MaxEvents = 6
  MaxFlows = 2
  MaxReloads = 1
INVARIANTS
  NoEvidenceBeforeStart
  OutcomesReproducible
  ThankYouMeansCompleted
  EndIsClean
CHECK_DEADLOCK FALSE
