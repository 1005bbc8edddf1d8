------------------------------ MODULE PolicyGate ------------------------------
(***************************************************************************)
(* The policy file and the tools that consult it: the field ACL of the     *)
(* read path (field_policy.py, tools_read.py), the reviewed methods of     *)
(* execute_method (write_policy.py, tools_write.py) and, gated by a token  *)
(* of its own, chatter_post.                                               *)
(*                                                                         *)
(* The file may be edited at any time.  The field ACL is read once, when   *)
(* the server starts, and the reviewed methods on every call.              *)
(*                                                                         *)
(* A file is written as what the two readers make of it: whether it can be *)
(* read, whether it holds an object, its methods, and its rules.           *)
(***************************************************************************)
EXTENDS FiniteSets, Integers

CONSTANTS Instances,           \* the configured instances
          Models, Fields,      \* "id" is a field
          Methods,             \* of Odoo models
          Traits,              \* Traits[m]: what the name of a method matches
          Files,               \* what the policy file may hold
          EnvMethods,          \* ODOO_MCP_ALLOWED_SIDE_EFFECT_METHODS
          Posts                \* the arguments agents pass to chatter_post

TraitNames == {"destructive", "read_only", "get_prefix", "message_post", "pattern"}
None == "none"
Star == "*"

ASSUME PolicyAssumption ==
  /\ None \notin Instances /\ "id" \in Fields /\ Star \notin Models
  /\ Traits \in [Methods -> SUBSET TraitNames]
  /\ EnvMethods \subseteq Models \X Methods

VARIABLES file,      \* the policy file now
          env,       \* what the process was started with, when it is up: two
                     \* flags, and the default instance it has resolved
          policy,    \* _policy of field_policy.py: the rules in force
          previewed, \* history: what chatter previews showed, and their tokens
          reply      \* the last answer of a tool

vars == <<file, env, policy, previewed, reply>>

\* A rule of the file may have neither list, one of the two, or both.
NoList == {None}
NoRule == [allow |-> NoList, deny |-> NoList]
NoRules == [i \in Instances |-> [m \in Models \cup {Star} |-> NoRule]]
Has(list) == list # NoList

Rulebooks == [Instances -> [Models \cup {Star} -> [allow : SUBSET (Fields \cup NoList),
                                                  deny : SUBSET (Fields \cup NoList)]]]
ASSUME FilesAssumption == \A f \in Files :
  /\ f.status \in {"absent", "unreadable", "not_object", "bad_entry", "ok"}
  /\ f.acl \in Rulebooks
ASSUME PostsAssumption == \A p \in Posts :
  p = [instance |-> p.instance, record |-> p.record, body |-> p.body, attached |-> p.attached]

Down == [up |-> FALSE, direct |-> FALSE, unknown |-> FALSE, default |-> None]
NoPost == [instance |-> None, record |-> 0, body |-> None, attached |-> FALSE]
NoReply == [tool |-> None, instance |-> None, model |-> None, asked |-> {},
            shown |-> {}, method |-> None, post |-> NoPost, token |-> NoPost]

TypeOK ==
  /\ file \in Files
  /\ env \in [up : BOOLEAN, direct : BOOLEAN, unknown : BOOLEAN,
               default : Instances \cup {None}]
  /\ policy \in Rulebooks
  /\ reply.shown \subseteq reply.asked /\ reply.asked \subseteq Fields

-----------------------------------------------------------------------------
(* The field ACL.                                                          *)

\* Mutant: a file that cannot be read is taken for an absent one.
LoadFails_Lenient(f) == f.status \in {"not_object", "bad_entry"}

\* load_field_policy and _parse_field_policy raise for a file that cannot be
\* read, is no object, or has a rule with both lists or, written as an entry
\* of the wrong type, with neither.
LoadFails(f) ==
  \/ f.status \in {"unreadable", "not_object", "bad_entry"}
  \/ f.status = "ok" /\ \E i \in Instances, m \in Models \cup {Star} :
       Has(f.acl[i][m].allow) /\ Has(f.acl[i][m].deny)

Rules(f) == IF f.status = "ok" THEN f.acl ELSE NoRules

\* Mutant: a rule of the model replaces the one for all models.
RulesFor_ModelOnly(i, m) ==
  {IF policy[i][m] # NoRule THEN policy[i][m] ELSE policy[i][Star]} \ {NoRule}

\* FieldPolicy._effective: what the merge of "*" and of the model allows, and
\* what it denies.
RulesFor(i, m) == {r \in {policy[i][Star], policy[i][m]} : r # NoRule}
Allowed(i, m) ==
  {f \in Fields : \A r \in RulesFor(i, m) : Has(r.allow) => f \in r.allow}
DeniedBy(i, m) ==
  UNION {r.deny : r \in {s \in RulesFor(i, m) : Has(s.deny)}}

\* Mutant: the id that is always kept is added where nobody asked for it.
Kept_AddsId(i, m, names) ==
  {f \in Fields : f = "id" \/ (f \in names \cap Allowed(i, m) /\ f \notin DeniedBy(i, m))}

\* FieldPolicy.filter_fields, redact_record(s): the fields that are kept.
Kept(i, m, names) ==
  {f \in names : f = "id" \/ (f \in Allowed(i, m) /\ f \notin DeniedBy(i, m))}

\* FieldPolicy.check_aggregate
AggregateBlocked(i, m, names) == names # Kept(i, m, names)

-----------------------------------------------------------------------------
(* The process.                                                            *)

Init ==
  /\ file \in Files /\ env = Down /\ policy = NoRules
  /\ previewed = {} /\ reply = NoReply

\* app_lifespan loads the field ACL: a malformed file aborts the start.  The
\* default instance is the one _resolve_odoo names, and keeps, on its first call.
Start(direct, unknown, default) ==
  /\ ~env.up /\ ~LoadFails(file)
  /\ env' = [up |-> TRUE, direct |-> direct, unknown |-> unknown, default |-> default]
  /\ policy' = Rules(file) /\ reply' = NoReply
  /\ UNCHANGED <<file, previewed>>

Stop ==
  /\ env.up /\ env' = Down /\ policy' = NoRules /\ reply' = NoReply
  /\ UNCHANGED <<file, previewed>>

EditFile(f) ==
  /\ file' = f /\ reply' = NoReply
  /\ UNCHANGED <<env, policy, previewed>>

Answer(r) == env.up /\ reply' = r /\ UNCHANGED <<file, env, policy>>

-----------------------------------------------------------------------------
(* The tools of the read path.  Each may be refused by the rate limit or   *)
(* fail, and then shows nothing.                                           *)

Shows(tool, i, m, asked, shown) ==
  /\ \/ Answer([NoReply EXCEPT !.tool = "error"])
     \/ Answer([NoReply EXCEPT !.tool = tool, !.instance = i, !.model = m,
                               !.asked = asked, !.shown = shown])
  /\ UNCHANGED previewed

\* search_records, read_record and the two record resources: the fields that
\* Odoo returned, without those the policy hides.
ReadRecords(i, m, asked) == Shows("read", i, m, asked, Kept(i, m, asked))

\* get_model_fields marks the fields the policy hides; shown are the others.
GetModelFields(i, m) == Shows("fields", i, m, Fields, Kept(i, m, Fields))

\* aggregate_records: grouping by a field or measuring it shows something of
\* it, whichever of the two read_group calls the server's version has.
Aggregate(i, m, asked) ==
  ~AggregateBlocked(i, m, asked) /\ Shows("aggregate", i, m, asked, asked)

-----------------------------------------------------------------------------
(* execute_method.                                                         *)

\* classify_method_safety
Safety(m) ==
  IF "destructive" \in Traits[m] THEN "destructive"
  ELSE IF Traits[m] \cap {"read_only", "get_prefix"} # {} THEN "read_only"
  ELSE IF Traits[m] \cap {"message_post", "pattern"} # {} THEN "side_effect"
  ELSE "unknown"

\* load_side_effect_policy: a file that cannot be parsed contributes nothing,
\* and of one that can the rules of the field ACL do not matter.
FileMethods(f) == IF f.status \in {"ok", "bad_entry"} THEN f.methods ELSE {}
Reviewed(model, m) == <<model, m>> \in EnvMethods \cup FileMethods(file)

\* A file with no object in it raises while the allowlist is built.
MayExecute(model, m) ==
  CASE Safety(m) = "destructive" -> FALSE
    [] Safety(m) = "read_only" -> TRUE
    [] OTHER -> file.status # "not_object" /\ (Reviewed(model, m) \/ env.unknown)

\* Odoo may run the call and fail to marshal its None: that is a success too.
ExecuteMethod(i, model, m) ==
  /\ MayExecute(model, m)
  /\ Answer([NoReply EXCEPT !.tool = "execute", !.instance = i, !.model = model, !.method = m])
  /\ UNCHANGED previewed

-----------------------------------------------------------------------------
(* chatter_post.                                                           *)

Resolved(instance) == IF instance = None THEN env.default ELSE instance

\* Mutant: the token binds the instance that was asked for, not the resolved one.
Payload_AsAsked(p) == p

\* _build_chatter_payload: what the token is made of.  A token is the digest of
\* it, without a secret, and is written as what it is the digest of.
Payload(p) == [p EXCEPT !.instance = Resolved(@)]

\* What message_post is called with, and on which instance.
Message(p) == [p EXCEPT !.instance = Resolved(@)]

\* Tokens an agent may present: of an earlier preview, of this process or of
\* the one before it, or computed by itself; the server keeps no record of them.
Tokens == {[p EXCEPT !.instance = i] : p \in Posts, i \in Instances \cup {None}}

\* Without an approval, and outside direct mode, a post is previewed.
PreviewPost(p) ==
  /\ ~env.direct
  /\ Answer([NoReply EXCEPT !.tool = "preview", !.post = Message(p), !.token = Payload(p)])
  /\ previewed' = previewed \cup {[token |-> Payload(p), of |-> Message(p)]}

\* In direct mode the approval is not looked at.  Otherwise its token must be
\* the one of these arguments, and the post confirmed.
DirectPost(p) ==
  /\ env.direct
  /\ Answer([NoReply EXCEPT !.tool = "direct", !.post = Message(p)])
  /\ UNCHANGED previewed

ChatterPost(p, token, confirm) ==
  /\ ~env.direct
  /\ Answer(IF token = Payload(p) /\ confirm
               THEN [NoReply EXCEPT !.tool = "post", !.post = Message(p), !.token = token]
               ELSE [NoReply EXCEPT !.tool = "error"])
  /\ UNCHANGED previewed

Next ==
  \/ \E direct, unknown \in BOOLEAN, default \in Instances : Start(direct, unknown, default)
  \/ Stop
  \/ \E f \in Files : EditFile(f)
  \/ \E i \in Instances, m \in Models :
       \/ \E asked \in (SUBSET Fields) \ {{}} : ReadRecords(i, m, asked) \/ Aggregate(i, m, asked)
       \/ GetModelFields(i, m)
       \/ \E method \in Methods : ExecuteMethod(i, m, method)
  \/ \E p \in Posts :
       \/ PreviewPost(p) \/ DirectPost(p)
       \/ \E token \in Tokens, confirm \in BOOLEAN : ChatterPost(p, token, confirm)

Spec == Init /\ [][Next]_vars

-----------------------------------------------------------------------------
\* A server that came up has the rules the file held at that moment: a file
\* that is malformed anywhere never turns into a server without rules.
ProtectedStart ==
  \/ file.status = "absent" /\ policy' = NoRules
  \/ /\ file.status = "ok" /\ policy' = file.acl
     /\ \A i \in Instances, m \in Models \cup {Star} :
          Has(file.acl[i][m].allow) => ~Has(file.acl[i][m].deny)

Permitted(r, f) == (Has(r.allow) => f \in r.allow) /\ (Has(r.deny) => f \notin r.deny)

\* A field is shown exactly when the "*" rule and the model's own both permit
\* it, in whatever combination of lists they are written; an aggregate is
\* answered only when that holds of all its fields.
FieldsAreShownByTheRules ==
  LET i == reply.instance
      visible == {f \in reply.asked : f = "id" \/
                    (Permitted(policy[i][Star], f) /\ Permitted(policy[i][reply.model], f))}
  IN reply.tool \in {"read", "fields", "aggregate"} => reply.shown = visible

\* A method not known to be a read runs only if somebody listed it, in the
\* environment or in the file as it is at the moment of the call, or lifted
\* the rule for the process; create, write and unlink never do.
ReviewedRun ==
  LET traits == Traits[reply'.method] IN
  /\ "destructive" \notin traits
  /\ \/ traits \cap {"read_only", "get_prefix"} # {}
     \/ <<reply'.model, reply'.method>> \in EnvMethods
     \/ env.unknown
     \/ /\ file.status \in {"ok", "bad_entry"}
        /\ <<reply'.model, reply'.method>> \in file.methods

\* The file as it is decides, at the start over the fields and at each call over
\* the methods, whatever it held before (app_lifespan, execute_method).
TheFileDecides ==
  [][/\ ~env.up /\ env'.up => ProtectedStart
     /\ reply'.tool = "execute" => ReviewedRun]_vars

\* An approval keeps its meaning: used in a later process, with another default
\* instance and with arguments that name no instance, the token of a preview
\* still posts what the preview showed, on the instance it showed, or nothing.
ApprovalsKeepTheirMeaning ==
  reply.tool = "post" => \A a \in previewed : a.token = reply.token => a.of = reply.post

\* A token is good for one message only.
TokensNameTheirPost == \A a \in previewed : a.of = a.token
PostsAreNamed == reply.tool = "post" => reply.post = reply.token

\* The inductive invariant of PolicyGateProofs.
PolicyInv == TypeOK /\ FieldsAreShownByTheRules /\ TokensNameTheirPost /\ PostsAreNamed
=============================================================================
