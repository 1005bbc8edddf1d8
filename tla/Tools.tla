--------------------------------- MODULE Tools ---------------------------------
(***************************************************************************)
(* The calls that keep no state, as one system: a server that starts, is   *)
(* set up, or answers one call after another.                              *)
(***************************************************************************)
EXTENDS AccessDiagnosis, WriteReports, Domains, Diagnostics, SourceScan, Deployment, Reports

ToolsInit == call = NoCall
AnyCall ==
  \/ DiagnoseAccess \/ ValidateThenVerify
  \/ SearchRecords \/ BuildDomain \/ ChooseFields
  \/ DiagnoseOdooCall \/ AnalyzeUpgradeLog \/ UpgradeRisk \/ FitGap
  \/ ScanAddonsSource
  \/ StartServer \/ AssembleServer \/ RunSetup
  \/ Aging \/ DataQuality
ToolsNext == (Idle /\ AnyCall) \/ Return
ToolsSpec == ToolsInit /\ [][ToolsNext]_call

-----------------------------------------------------------------------------
\* What diagnose_access concludes, of a denial as of a clean bill, is so.
AccessVerdictsAreRight == DenialsAreJustified /\ CleanVerdictsAreClean

\* An approval stands for one sound call, and for no other.
ApprovalsAreExact == ApprovalsAreBinding /\ ValidatedCallsAreSound

\* Searches, built domains and default fields ask for what the caller means.
RequestsAreFaithful ==
  SearchesFindWhatWasAsked /\ BuiltDomainsAreFaithful /\ ChosenFieldsAreTheBest

\* A report that does not say it was cut short has lost nothing it was given:
\* no argument, line, risk, file, open item or problem.
ReportsAreComplete ==
  /\ Json2CallsLoseNothing /\ LogsAreWorkedThrough /\ WorklistsAreRight
  /\ ScansAreComplete
  /\ AgingAddsUp /\ CleanIsEarned

\* A server starts guarded, with the tools its configuration leaves it, and the
\* wizard writes a configuration only when it should.
ServersStartAsConfigured == HttpIsGuarded /\ SurfaceIsAsConfigured /\ SetupKeepsConfig
=============================================================================
