SPECIFICATION Spec
CONSTANTS
  Tabs = {t1}
  FirstTab = t1
  Tokens = {k1, k2}
  NoToken = NoToken
  Kinds = {started, touched, completed}
  Opening = started
  Closing = completed
  MaxBatch = 2
  MaxAttempts = 2
  MaxEvents = 4
SYMMETRY TokenSymmetry
INVARIANTS
  TypeOK
  NothingLost
  EvidenceHasNoGaps
  SequenceIncreases
PROPERTIES
  ImplementsEvidenceLog
