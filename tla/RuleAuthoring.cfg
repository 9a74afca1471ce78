\* Every pair of typed rules over five imported targets and four of before MT-03.  A published task stays as it is.
SPECIFICATION AuthoringSpec
CONSTANTS
  Cores = {"a", "b"}
  TypedRules <- AllRules
  Snapshots <- AllSnapshots
  Mappings <- AllMappings
INVARIANTS
  OneVerdict
  PreviewTellsPublishability
  WebRuleFires
CHECK_DEADLOCK FALSE
