SPECIFICATION GuardsSpec
CONSTANTS
  Keys = {a, b}
  Health = health
  Threads = {1, 2}
  Window = 2
  MaxCalls = 1
  MaxTrackedKeys = 1
  MaxTime = 3
  MaxStep = 1
  MaxRecorded = 2
  MaxRefused = 1
  Instances = {"home", "eu"}
  Models = {"partner", "invoice"}
  Fields = {"id", "name", "limit"}
  Methods <- MCMethods
  Traits <- MCTraits
  Files <- MCFiles
  EnvMethods <- MCEnvMethods
  Posts <- MCPosts
INVARIANT TypeOK
INVARIANT FieldsAreShownByTheRules
INVARIANT ApprovalsKeepTheirMeaning
INVARIANT BudgetHolds
PROPERTY TheFileDecides
PROPERTY RefusalsAreEarned
