------------------------------- MODULE MCGuards -------------------------------
(* The guards that a tool call meets before it reaches Odoo: the limiter, with *)
(* several threads at its lock, and the policies of PolicyGate.  The two share *)
(* no state, so a behaviour is one of the one or of the other, as its initial  *)
(* state chooses.                                                              *)
EXTENDS PolicyGate, RateLimit

VARIABLE part

GuardsInit ==
  /\ part \in {"limit", "policy"}
  /\ LimitInit /\ Init
  /\ part = "limit" => file = CHOOSE f \in Files : f.status = "absent"
  /\ part = "policy" => mode = "off"
GuardsNext ==
  \/ part = "limit" /\ LimitNext /\ UNCHANGED <<part, vars>>
  \/ part = "policy" /\ Next /\ UNCHANGED <<part, limitVars>>
GuardsSpec == GuardsInit /\ [][GuardsNext]_<<part, limitVars, vars>>

-----------------------------------------------------------------------------
\* Policy files of every kind, among them ones whose "*" rule and model rule
\* have different lists.
MCTraits == [write |-> {"destructive"}, search_read |-> {"read_only"},
             get_or_send |-> {"get_prefix", "pattern"}, action_confirm |-> {"pattern"},
             recompute |-> {}]
MCMethods == DOMAIN MCTraits

Rule(allow, deny) == [allow |-> allow, deny |-> deny]
Acl(star, model) ==
  [NoRules EXCEPT !["eu"][Star] = star, !["eu"]["partner"] = model]
File(status, methods, acl) == [status |-> status, methods |-> methods, acl |-> acl]

Allows == Rule({"id", "name"}, NoList)
Denies == Rule(NoList, {"id", "name"})
Confirm == {<<"partner", "action_confirm">>}

MCFiles ==
  {File(status, {}, NoRules) : status \in {"absent", "unreadable", "not_object"}}
  \cup {File("bad_entry", Confirm, NoRules), File("ok", {}, NoRules),
        File("ok", Confirm, Acl(Allows, Denies)), File("ok", {}, Acl(Denies, Rule({"name", "limit"}, NoList))),
        File("ok", {}, Acl(NoRule, Rule({}, NoList))),
        File("ok", Confirm, Acl(NoRule, Rule({"name"}, {"limit"})))}

MCEnvMethods == {<<"partner", "recompute">>}

MCPosts ==
  {[instance |-> t[1], record |-> 1, body |-> "hi", attached |-> t[2]] :
     t \in {<<None, FALSE>>, <<"eu", FALSE>>, <<"home", TRUE>>}}
===============================================================================
