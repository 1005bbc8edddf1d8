------------------------------ MODULE Diagnostics ------------------------------
(***************************************************************************)
(* The analyses of diagnostics.py that work on what the caller passes in:  *)
(* the JSON-2 form of a positional call, the worklist of an upgrade log,   *)
(* and the reports that count what they classify.                          *)
(***************************************************************************)
EXTENDS ToolCalls, SequencesExt, Integers

CONSTANTS
  PositionalNames,  \* JSON2_POSITIONAL_ARG_MAP: [method -> names of its arguments]
  ErrorCategories,  \* the categories of _ACCESS_ERROR_MATCHERS, in their order
  LogCategories,    \* those of _UPGRADE_LOG_PATTERNS, in theirs
  MaxLogLines,      \* MAX_LOG_BYTES, counted in lines
  MaxLogFindings,
  CallInputs,       \* of [method, args, kwargs, transport, major, error]
  LogInputs,        \* sequences of [matches, text]
  RiskInputs,       \* of [source, major, safety, modules, findings]; a finding,
                    \* like a risk, is [code, severity]
  Lower,            \* [severity -> its lower-case spelling]
  Requirements      \* sequences of the classification a requirement gets

\* A method has no two parameters of one name; callers name codes and severities
\* of findings as they like.
ASSUME DiagnosticsAssumption ==
  /\ \A method \in DOMAIN PositionalNames :
       LET names == PositionalNames[method] IN
         names \in Seq(ToSet(names)) /\ \A i, j \in DOMAIN names : names[i] = names[j] => i = j
  /\ {MaxLogLines, MaxLogFindings} \subseteq Nat \ {0}
  /\ \A in \in CallInputs : in.args \in Seq(ToSet(in.args)) /\ IsFiniteSet(DOMAIN in.kwargs)
  /\ \A log \in LogInputs : log \in Seq(ToSet(log))
  /\ \A in \in RiskInputs :
       /\ in.safety \in Seq(ToSet(in.safety)) /\ in.modules \in Seq(ToSet(in.modules))
       /\ in.findings \in Seq(ToSet(in.findings)) /\ in.major \in Nat
  /\ \A severity \in {"error", "warning"} : Lower[severity] = severity

\* Matchers are tried in order and the first match wins.
FirstOf(order, matching, otherwise) ==
  LET hits == SelectSeq(order, LAMBDA c : c \in matching)
  IN IF hits = <<>> THEN otherwise ELSE hits[1]

-----------------------------------------------------------------------------
\* build_json2_body: positional arguments take the names of the method's
\* parameters, a keyword of that name wins, and what has no name is left out.
Mapped(in) ==
  IF in.method \in DOMAIN PositionalNames THEN PositionalNames[in.method] ELSE <<>>
Placed(in) == 1..Min({Len(in.args), Len(Mapped(in))})
Json2Body(in) ==
  [name \in DOMAIN in.kwargs \cup {Mapped(in)[i] : i \in Placed(in)} |->
     IF name \in DOMAIN in.kwargs THEN in.kwargs[name]
     ELSE in.args[CHOOSE i \in Placed(in) : Mapped(in)[i] = name]]
Json2Warnings(in) ==
  IF in.args = <<>> THEN {}
  ELSE IF in.method \notin DOMAIN PositionalNames THEN {"json2_positional_unsupported"}
  ELSE {w \in {"json2_too_many_positional_args", "json2_duplicate_argument"} :
          IF w = "json2_duplicate_argument"
            THEN \E i \in Placed(in) : Mapped(in)[i] \in DOMAIN in.kwargs
            ELSE Len(in.args) > Len(Mapped(in))}

\* _transport_compatibility, and the transport's end of life at the target.
Compatible(transport, ready) ==
  CASE transport = "xmlrpc" -> "xmlrpc"
    [] transport = "auto" -> IF ready THEN "both" ELSE "xmlrpc"
    [] transport = "json2" /\ ready -> "json2"
    [] OTHER -> "unknown"
TransportRemoved(in) == in.transport = "xmlrpc" /\ in.major >= 22

DiagnoseOdooCall ==
  \E in \in CallInputs :
    LET ready == Json2Warnings(in) = {} IN
      Call("diagnose_odoo_call", in,
        [success |-> "json2_positional_unsupported" \notin Json2Warnings(in) /\ ~TransportRemoved(in),
         compatible |-> Compatible(in.transport, ready), body |-> Json2Body(in),
         error |-> FirstOf(ErrorCategories, in.error, "unknown")])

-----------------------------------------------------------------------------
\* analyze_upgrade_log_report: line by line, each finding once, up to the cap.
LineFinding(line) ==
  [category |-> FirstOf(LogCategories, line.matches, "none"), text |-> line.text]
ReadLine(findings, line) ==
  IF Len(findings) >= MaxLogFindings \/ line.matches = {}
     \/ LineFinding(line) \in ToSet(findings)
  THEN findings ELSE Append(findings, LineFinding(line))
LogFindings(log) ==
  FoldLeft(ReadLine, <<>>, SubSeq(log, 1, Min({Len(log), MaxLogLines})))

AnalyzeUpgradeLog ==
  \E log \in LogInputs :
    LET found == LogFindings(log) IN
      Call("analyze_upgrade_log", log,
        [findings |-> found, clean |-> found = <<>>, truncated |-> Len(log) > MaxLogLines,
         full |-> Len(found) >= MaxLogFindings])

-----------------------------------------------------------------------------
\* upgrade_risk_report: the risks it raises, the methods' in no certain order, and
\* those it is given.
Risk(code, severity) == [code |-> code, severity |-> severity]
RpcRisk(in) ==
  IF in.major >= 22 THEN <<Risk("xmlrpc_jsonrpc_removal", "error")>>
  ELSE IF in.major >= 19 \/ in.source THEN <<Risk("json2_migration", "warning")>> ELSE <<>>
Warnings(seq, raising, code) ==
  [i \in 1..Cardinality({j \in DOMAIN seq : seq[j] = raising}) |-> Risk(code, "warning")]
Risks(in) ==
  RpcRisk(in)
  \o Warnings(in.safety, "destructive", "destructive_method_review")
  \o Warnings(in.safety, "unknown", "unknown_custom_method")
  \o Warnings(in.modules, "custom", "custom_module_upgrade")
  \o in.findings
IsError(risks) == \E i \in DOMAIN risks : risks[i].severity = "error"
MaxRisk(risks) ==
  IF IsError(risks) THEN "high"
  ELSE IF \E i \in DOMAIN risks : risks[i].severity = "warning" THEN "medium" ELSE "low"

\* _ACTION_OVERRIDES: the codes that imply an action whatever the severity.
ScriptCodes == {"crud_override_missing_super", "crud_override_super_not_returned",
  "computed_method_missing", "computed_method_missing_depends",
  "computed_depends_missing_fields", "xmlrpc_jsonrpc_removal"}
ReviewCodes == {"deprecated_rpc_transport", "sudo_usage", "destructive_operation",
  "destructive_method", "destructive_method_review", "automated_action",
  "custom_module_upgrade", "security_rule_file"}
InventoryCodes == {"custom_model_class", "custom_method", "custom_view", "non_installable_module"}

\* classify_finding_action
Action(risk) ==
  LET severity == Lower[risk.severity] IN
  CASE risk.code \in ScriptCodes -> "needs_script"
    [] risk.code \in ReviewCodes -> "needs_review"
    [] risk.code \in InventoryCodes -> "no_action"
    [] OTHER -> CASE severity = "error" -> "needs_script"
                  [] severity = "warning" -> "needs_review"
                  [] OTHER -> "no_action"
CountOf(seq, x) == Cardinality({i \in DOMAIN seq : seq[i] = x})
Worklist(risks) ==
  [a \in {"needs_script", "needs_review", "no_action"} |->
     CountOf([i \in DOMAIN risks |-> Action(risks[i])], a)]

UpgradeRisk ==
  \E in \in RiskInputs :
    Call("upgrade_risk", in,
      [risk |-> MaxRisk(Risks(in)), blocked |-> IsError(Risks(in)),
       actions |-> Worklist(Risks(in)), count |-> Len(Risks(in))])

\* _rollup_bucket
Bucket(class) ==
  CASE class \in {"standard", "configuration"} -> "fit"
    [] class = "studio" -> "partial"
    [] class \in {"custom_module", "avoid"} -> "gap"
    [] OTHER -> "unknown"
FitGap ==
  \E classes \in Requirements :
    Call("fit_gap", classes,
      [b \in {"fit", "partial", "gap", "unknown"} |->
         CountOf([i \in DOMAIN classes |-> Bucket(classes[i])], b)])

-----------------------------------------------------------------------------
\* A call reported to work over JSON-2 binds every argument as Python would:
\* each positional one to its parameter, each keyword to itself, nothing lost.
Json2CallsLoseNothing ==
  Answers("diagnose_odoo_call") /\ call.out.compatible \in {"both", "json2"} =>
    LET in == call.in IN
      /\ Cardinality(DOMAIN call.out.body) = Len(in.args) + Cardinality(DOMAIN in.kwargs)
      /\ \A i \in DOMAIN in.args : call.out.body[PositionalNames[in.method][i]] = in.args[i]
      /\ \A name \in DOMAIN in.kwargs : call.out.body[name] = in.kwargs[name]

\* An analysis that was not cut short names every line that matches a pattern,
\* by the first it matches, and names nothing twice; so a clean log has none.
LogsAreWorkedThrough ==
  Answers("analyze_upgrade_log") =>
    LET out == call.out IN
      /\ Cardinality(ToSet(out.findings)) = Len(out.findings)
      /\ ~out.full /\ ~out.truncated =>
           ToSet(out.findings) = {LineFinding(l) : l \in {m \in ToSet(call.in) : m.matches # {}}}
      /\ out.clean /\ ~out.truncated => \A l \in ToSet(call.in) : l.matches = {}

\* Every risk is an item of the worklist.  A script is needed for the transport
\* that the target has no more, for the findings whose code says that source must
\* change, whatever severity they came with, and for errors of a code that says
\* nothing, and for nothing else.  What blocks the upgrade is that transport or a
\* finding given as an error, and it puts the report at high risk.
WorklistsAreRight ==
  Answers("upgrade_risk") =>
    LET in == call.in
        out == call.out
        Removed == in.major >= 22
        Scripted == {i \in DOMAIN in.findings :
          \/ in.findings[i].code \in ScriptCodes
          \/ /\ in.findings[i].code \notin ReviewCodes \cup InventoryCodes
             /\ Lower[in.findings[i].severity] = "error"}
    IN /\ out.count = out.actions["needs_script"] + out.actions["needs_review"] + out.actions["no_action"]
       /\ out.actions["needs_script"] = Cardinality(Scripted) + (IF Removed THEN 1 ELSE 0)
       /\ out.blocked <=> Removed \/ \E i \in DOMAIN in.findings : in.findings[i].severity = "error"
       /\ out.blocked <=> out.risk = "high"
=============================================================================
