\* Two researchers, every operation, on a draft that is being published, and the clone
\* of what was published.
SPECIFICATION Spec
CONSTANTS
  c1 = c1
  c2 = c2
  Clients <- TwoClients
  Operations <- AllOperations
  MaxVersions = 3
  MaxTasks = 2
  MaxEdits = 1
  RuleFunctionsGranted = TRUE
CONSTRAINT ThirdIsQuiet
SYMMETRY ClientSymmetry
INVARIANTS
  PublishedIsDecidable
PROPERTIES
  PublishedVersionFrozen
  CloneStaysPublishable
CHECK_DEADLOCK FALSE
