\* The purge over two sessions; and findings of two versions, one of them with
\* a session that expires, and a report read meanwhile.
SPECIFICATION ReportsSpec
CONSTANTS
  s1 = s1
  s2 = s2
  e1 = e1
  e2 = e2
  a1 = a1
  v1 = v1
  t1 = t1
  Sessions = {s1, s2}
  Events = {e1, e2}
  Answers = {a1}
  SessionOf <- OneEach
  FindingIds = {f1}
  Researchers = {r1}
  Kinds = {"session", "event", "answer"}
  MaxBatch = 2
  MaxEvidence = 2
  MaxAborts = 1
  NULL = NULL
  Versions = {v1, v2}
  VersionOf <- TheVersion
  Targets = {t1, t2}
  Keys = {k1}
  Values = {}
  Aggregations = {g1}
  Statuses = {"open"}
  Legacy = {}
  ContextTakesIds = TRUE
  RetestsHaveUpdatedAt = TRUE
  MaxRetests = 1
  MaxReports = 1
INVARIANTS
  EvidenceResolves
  
PROPERTIES
  ExpiredArePurged
CHECK_DEADLOCK FALSE
