---------------------------- MODULE AccessDiagnosis ----------------------------
(***************************************************************************)
(* diagnose_access (tools_diagnostics.py, access_helpers.py): what a       *)
(* credential may do with a model, deduced from the metadata the same      *)
(* credential can read.  Any of the reads may fail, may be cut off by the  *)
(* limit, and is shaped by the version of Odoo.                            *)
(*                                                                         *)
(* An input also holds the truth that Odoo decides by, which the tool only *)
(* sees through the reads:                                                 *)
(*   failing       the metadata reads that fail                            *)
(*   clientUid, contextUid  the uid is known to the client, or to Odoo     *)
(*   old           up to Odoo 18: groups_id holds the implied groups too   *)
(*   groups, direct         the user's groups, and those given directly    *)
(*   rows          ACL rows of the model, in the order they are read       *)
(*   rules         record rules of the model: [groups, applies]            *)
(*   limit, ids, expected   arguments of the call; expected -1 for none    *)
(*   visible       the records the user sees                               *)
(***************************************************************************)
EXTENDS ToolCalls, SequencesExt, Integers

CONSTANT AccessInputs

\* clamp_limit refuses a limit below one, and the groups given directly to
\* a user are among the user's groups.
ASSUME AccessAssumption ==
  \A in \in AccessInputs :
    /\ in.rows \in Seq(ToSet(in.rows)) /\ in.ids \in Seq(ToSet(in.ids))
    /\ in.limit \in Nat \ {0} /\ in.expected \in Int
    /\ IsFiniteSet(in.visible) /\ in.direct \subseteq in.groups

Everyone == "everyone"  \* the group of an ACL row without one
Reads == {"ir.model", "context_get", "fields_get", "users.read",
          "ir.model.access", "ir.rule", "search_count"}

UidKnown(in) == in.clientUid \/ (in.contextUid /\ "context_get" \notin in.failing)

\* Which reads the tool gets to: those about the user need the uid, those about
\* the model its id, and the count something to compare it with.
Reached(in, read) ==
  CASE read \in {"fields_get", "users.read"} -> UidKnown(in)
    [] read \in {"ir.model.access", "ir.rule"} -> "ir.model" \notin in.failing
    [] read = "search_count" -> in.ids # <<>> \/ in.expected >= 0
    [] OTHER -> TRUE

Succeeds(in, read) == Reached(in, read) /\ read \notin in.failing
MetadataErrors(in) == {read \in in.failing : Reached(in, read)}

\* Mutant: implied groups are not counted.
UserGroups_Direct(in) ==
  IF ~Succeeds(in, "users.read") \/ ~Succeeds(in, "fields_get") THEN {} ELSE in.direct

\* The groups as read: the fields asked for are those fields_get listed, and
\* without it none of the group fields.  No group is known when the read fails.
UserGroups(in) ==
  IF ~Succeeds(in, "users.read") \/ ~Succeeds(in, "fields_get") THEN {}
  ELSE IF in.old \/ in.groups # {} THEN in.groups ELSE in.direct

AclRows(in) ==
  IF Succeeds(in, "ir.model.access") THEN SubSeq(in.rows, 1, Min({in.limit, Len(in.rows)}))
  ELSE <<>>
RowGrants(row, groups) == row.grants /\ row.group \in groups \cup {Everyone}
Granting(in) ==
  {i \in DOMAIN AclRows(in) : RowGrants(AclRows(in)[i], UserGroups(in))}

ActiveRules(in) ==
  IF Succeeds(in, "ir.rule") THEN {rule \in in.rules : rule.applies} ELSE {}

ActualCount(in) ==
  IF in.ids # <<>> THEN Cardinality(ToSet(in.ids) \cap in.visible)
  ELSE Cardinality(in.visible)
CountMismatch(in) ==
  /\ Succeeds(in, "search_count")
  /\ \/ ActualCount(in) < in.expected
     \/ ActualCount(in) < Len(in.ids)

\* _access_diagnosis_codes
DiagnosisCodes(in) ==
  LET found == {code \in {"metadata_access_unavailable", "acl_denied_likely",
                          "record_rule_filter_likely", "domain_or_rule_filter_likely"} :
        CASE code = "metadata_access_unavailable" -> MetadataErrors(in) # {}
          [] code = "acl_denied_likely" -> AclRows(in) # <<>> /\ Granting(in) = {}
          [] code = "record_rule_filter_likely" -> CountMismatch(in) /\ ActiveRules(in) # {}
          [] OTHER -> CountMismatch(in) /\ ActiveRules(in) = {}}
  IN IF found = {} THEN {"no_access_issue_detected"} ELSE found

DiagnoseAccess == \E in \in AccessInputs : Call("diagnose_access", in, DiagnosisCodes(in))

-----------------------------------------------------------------------------
\* When everything could be read, completely and about a known user, a denial
\* is one Odoo would give: no row grants the operation to any of the user's
\* groups, those implied by others included.
DenialsAreJustified ==
  Answers("diagnose_access") =>
    LET in == call.in IN
      /\ "acl_denied_likely" \in call.out
      /\ "metadata_access_unavailable" \notin call.out
      /\ UidKnown(in) /\ Len(in.rows) <= in.limit
      => \A i \in DOMAIN in.rows : ~RowGrants(in.rows[i], in.groups)

\* A clean verdict on a model with ACL rows means that a row does grant the
\* operation, whatever was cut off, that every record asked for is visible,
\* and that no fewer records are than expected.
CleanVerdictsAreClean ==
  Answers("diagnose_access") /\ call.out = {"no_access_issue_detected"} =>
    LET in == call.in IN
      /\ in.rows = <<>> \/ \E i \in DOMAIN in.rows : RowGrants(in.rows[i], in.groups)
      /\ ToSet(in.ids) \subseteq in.visible
      /\ in.expected <= ActualCount(in)
=============================================================================
