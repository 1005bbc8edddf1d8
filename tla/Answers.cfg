SPECIFICATION AnswersSpec
CONSTANTS
  Calls = {call}
  ExtraAttempts = 1
  MaxRedirects = 5
  MaxLocations = 10
  MaxRepeats = 4
  Indexes = {partner, invoice}
  Docs = {1, 2}
  Terms = {"invoice", "late"}
  TextOf <- MCText
  Blank <- MCBlank
  Callers = {sync, task}
  MaxDocs = 3
  MaxVersion = 1
  AccessInputs <- MCAccessInputs
  WriteInputs <- MCWriteInputs
  MaxBatch = 2
  Conditions <- MCConditions
  DomainInputs <- MCDomainInputs
  BuildInputs <- MCBuildInputs
  FieldInputs <- MCFieldInputs
  Identifiers <- MCIdentifiers
  PositionalNames <- MCPositionalNames
  ErrorCategories <- MCErrorCategories
  LogCategories <- MCLogCategories
  MaxLogLines = 3
  MaxLogFindings = 3
  CallInputs <- MCCallInputs
  LogInputs <- MCLogInputs
  RiskInputs <- MCRiskInputs
  Lower <- MCLower
  Requirements <- MCRequirements
  ScanInputs <- MCScanInputs
  MaxFiles = 3
  StartInputs <- MCStartInputs
  BuiltinTools <- MCBuiltin
  SignTools <- MCSign
  SurfaceInputs <- MCSurfaceInputs
  WizardInputs <- MCWizardInputs
  AgingInputs <- MCAgingInputs
  QualityInputs <- MCQualityInputs
  Sampling = {"format", "orphans"}
  MaxReferenced = 2
  MaxFields <- MCMaxFields
SYMMETRY MCSymmetry
CHECK_DEADLOCK FALSE
INVARIANT TypeOK
INVARIANT PostsBounded
INVARIANT Json2MutatesOnce
INVARIANT IndexTypeOK
INVARIANT SearchIsComplete
INVARIANT AccessVerdictsAreRight
INVARIANT ApprovalsAreExact
INVARIANT RequestsAreFaithful
INVARIANT ReportsAreComplete
INVARIANT ServersStartAsConfigured
PROPERTY IndexesFollowOdoo
