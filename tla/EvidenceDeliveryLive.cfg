SPECIFICATION FairSpec
CONSTANTS
  Tabs = {t1}
  FirstTab = t1
  Tokens = {k1, k2}
  NoToken = NoToken
  Kinds = {started, touched, completed}
  Opening = started
  Closing = completed
  MaxBatch = 2
  MaxAttempts = 1
  MaxEvents = 2
PROPERTIES
  EventuallyRecorded
  RecoveryEndsWhileActive
