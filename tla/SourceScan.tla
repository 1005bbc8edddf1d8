------------------------------- MODULE SourceScan -------------------------------
(***************************************************************************)
(* scan_addons_source (agent_tools.py, server_core.py): which files of the *)
(* addon directories are read before the cap, and what is found in them.   *)
(*                                                                         *)
(* A root is [configured, exists, files]; a file is [kind, link, size,     *)
(* broken, computes, overrides], where computes holds the compute methods  *)
(* of its model classes as [method, defined, depends, reads, fields] and   *)
(* overrides the create, write and unlink methods as [method, super].      *)
(***************************************************************************)
EXTENDS ToolCalls, SequencesExt, Integers

CONSTANTS ScanInputs, MaxFiles

ASSUME ScanAssumption ==
  /\ MaxFiles \in Nat
  /\ \A roots \in ScanInputs :
       /\ roots \in Seq(ToSet(roots))
       /\ \A i \in DOMAIN roots :
            /\ roots[i].files \in Seq(ToSet(roots[i].files))
            /\ \A j \in DOMAIN roots[i].files :
                 \A o \in roots[i].files[j].overrides : o.super \in {"none", "dropped", "returned"}

Finding(code, of) == [code |-> code, of |-> of]

\* _scan_model_class: what is wrong with a compute method, or an override.
ComputeFindings(c) ==
  CASE ~c.defined -> {Finding("computed_method_missing", c.method)}
    [] c.defined /\ c.depends = {} -> {Finding("computed_method_missing_depends", c.method)}
    [] OTHER -> IF c.reads \subseteq c.depends \cup c.fields THEN {}
                ELSE {Finding("computed_depends_missing_fields", c.method)}
OverrideFindings(o) ==
  CASE o.super = "none" -> {Finding("crud_override_missing_super", o.method)}
    [] o.super = "dropped" -> {Finding("crud_override_super_not_returned", o.method)}
    [] OTHER -> {}

FileFindings(file) ==
  CASE file.kind \in {"py", "xml"} /\ file.broken -> {Finding("parse_error", file.kind)}
    [] file.kind = "py" /\ ~file.broken ->
         UNION ({ComputeFindings(c) : c \in file.computes}
                \cup {OverrideFindings(o) : o \in file.overrides})
    [] OTHER -> {}

Eligible(file) == ~file.link /\ file.kind \in {"py", "xml", "csv", "manifest"}

\* Mutant: a file too large to read ends the scan of the rest.
ScanFile_StopsAtLarge(s, file) ==
  IF s.scanned >= MaxFiles \/ s.skipped > 0 \/ ~Eligible(file) THEN s
  ELSE IF file.size # "small" THEN [s EXCEPT !.skipped = @ + 1]
  ELSE [s EXCEPT !.scanned = @ + 1, !.findings = @ \cup FileFindings(file)]

ScanFile(s, file) ==
  IF s.scanned >= MaxFiles \/ ~Eligible(file) THEN s
  ELSE IF file.size # "small" THEN [s EXCEPT !.skipped = @ + 1]
  ELSE [s EXCEPT !.scanned = @ + 1, !.findings = @ \cup FileFindings(file)]
ScanRoot(s, root) ==
  IF s.scanned >= MaxFiles THEN s
  ELSE IF ~root.exists THEN [s EXCEPT !.findings = @ \cup {Finding("addons_path_missing", "")}]
  ELSE FoldLeft(ScanFile, s, root.files)

\* restrict_addons_paths: one path outside the configured roots fails the call.
Refused(roots) == \E i \in DOMAIN roots : ~roots[i].configured

ScanAddonsSource ==
  \E roots \in ScanInputs :
    Call("scan_addons_source", roots,
      IF Refused(roots) THEN [success |-> FALSE]
      ELSE LET s == FoldLeft(ScanRoot, [scanned |-> 0, skipped |-> 0, findings |-> {}], roots)
           IN [success |-> TRUE, scan |-> s, full |-> s.scanned >= MaxFiles])

-----------------------------------------------------------------------------
\* What a scan of the roots names, and how far it went.
NamesAll(roots, out) ==
  LET scan == out.scan
      Files == UNION {{i} \X DOMAIN roots[i].files : i \in {j \in DOMAIN roots : roots[j].exists}}
      File(p) == roots[p[1]].files[p[2]]
      Codes(file) == {f.of : f \in scan.findings}
  IN /\ scan.scanned <= MaxFiles
     /\ \A i \in DOMAIN roots : roots[i].configured
     /\ ~out.full =>
          /\ scan.scanned + scan.skipped = Cardinality({p \in Files : Eligible(File(p))})
          /\ \A p \in Files :
               LET file == File(p) IN
                 Eligible(file) /\ file.kind = "py" /\ file.size = "small" =>
                   IF file.broken THEN "py" \in Codes(file)
                   ELSE /\ \A o \in file.overrides : o.super # "returned" => o.method \in Codes(file)
                        /\ \A c \in file.computes :
                             ~(c.reads \subseteq c.depends \cup c.fields) => c.method \in Codes(file)

\* A scan reads no more files than it may, and nothing outside the configured
\* roots; if it was not cut short, every file that can matter was read or
\* counted as skipped, and every override that loses the result of the ORM, and
\* every compute method that misses a dependency, has its finding, unless its
\* file is one that cannot be parsed, which is a finding itself.
ScansAreComplete ==
  Answers("scan_addons_source") /\ call.out.success => NamesAll(call.in, call.out)
=============================================================================
