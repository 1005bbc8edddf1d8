SPECIFICATION ToolsSpec
CONSTANTS
  AccessInputs <- MCAccessInputs
  WriteInputs <- MCWriteInputs
  MaxBatch = 2
  Conditions <- MCConditions
  DomainInputs <- MCDomainInputs
  BuildInputs <- MCBuildInputs
  FieldInputs <- MCFieldInputs
  Identifiers <- MCIdentifiers
  PositionalNames <- MCPositionalNames
  ErrorCategories <- MCErrorCategories
  LogCategories <- MCLogCategories
  MaxLogLines = 3
  MaxLogFindings = 3
  CallInputs <- MCCallInputs
  LogInputs <- MCLogInputs
  RiskInputs <- MCRiskInputs
  Lower <- MCLower
  Requirements <- MCRequirements
  ScanInputs <- MCScanInputs
  MaxFiles = 3
  StartInputs <- MCStartInputs
  BuiltinTools <- MCBuiltin
  SignTools <- MCSign
  SurfaceInputs <- MCSurfaceInputs
  WizardInputs <- MCWizardInputs
  AgingInputs <- MCAgingInputs
  QualityInputs <- MCQualityInputs
  Sampling = {"format", "orphans"}
  MaxReferenced = 2
  MaxFields <- MCMaxFields
INVARIANT ContainersServeGuarded
