\* Two tabs with the same link, up to two sessions of two tasks, the feedback of
\* the second one optional.
SPECIFICATION Spec
CONSTANTS
  t1 = t1
  t2 = t2
  v1 = v1
  v2 = v2
  k1 = k1
  k2 = k2
  seq = seq
  Tabs = {t1, t2}
  Versions = {v1}
  LinkOf <- SameLink
  Sessions = {s1, s2}
  Tasks = {k1, k2}
  VersionOf <- TwoTasks
  Questions = {seq}
  Required <- SeqOnFirst
  InsertNamesTest = TRUE
  MaxEvents = 3
  MaxLoads = 2
  MaxReads = 3
  NULL = NULL
SYMMETRY SymmetricIds
INVARIANTS
  RepliesCoverTheirEvents
  ActsOnItsSession
  FeedbackSettled
CHECK_DEADLOCK FALSE
