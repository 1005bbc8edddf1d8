-------------------------- MODULE PolicyGateProofs --------------------------
(* Proofs about PolicyGate: for any files, edits, methods and posts, what a  *)
(* reply shows, what may run and what an approval posts.                         *)
EXTENDS PolicyGate, TLAPS

USE PolicyAssumption, FilesAssumption, PostsAssumption

\* The merge of the two rules (FieldPolicy._effective) keeps what both permit.
LEMMA MergeKeepsWhatBothPermit ==
  ASSUME NEW i \in Instances, NEW m \in Models, NEW names \in SUBSET Fields
  PROVE  Kept(i, m, names) =
           {f \in names : f = "id" \/
              (Permitted(policy[i][Star], f) /\ Permitted(policy[i][m], f))}
<1> SUFFICES ASSUME NEW f \in names
             PROVE  (f \in Allowed(i, m) /\ f \notin DeniedBy(i, m))
                      <=> (Permitted(policy[i][Star], f) /\ Permitted(policy[i][m], f))
  BY DEF Kept
<1>1. RulesFor(i, m) \subseteq {policy[i][Star], policy[i][m]}
  BY DEF RulesFor
<1>2. \A r \in {policy[i][Star], policy[i][m]} : r \notin RulesFor(i, m) => r = NoRule
  BY DEF RulesFor
<1>3. ~Has(NoRule.allow) /\ ~Has(NoRule.deny)
  BY DEF Has, NoRule
<1>4. f \in Allowed(i, m) <=> \A r \in {policy[i][Star], policy[i][m]} : Has(r.allow) => f \in r.allow
  BY <1>1, <1>2, <1>3 DEF Allowed
<1>5. f \notin DeniedBy(i, m) <=> \A r \in {policy[i][Star], policy[i][m]} : Has(r.deny) => f \notin r.deny
  BY <1>1, <1>2, <1>3 DEF DeniedBy
<1> QED
  BY <1>4, <1>5 DEF Permitted

\* What the server's readers hand out, and a process without a file, is a rule
\* book (load_field_policy).
LEMMA RulesAreRulebooks == \A f \in Files : Rules(f) \in Rulebooks
<1>1. NoRule \in [allow : SUBSET (Fields \cup NoList), deny : SUBSET (Fields \cup NoList)]
  BY DEF NoRule
<1>2. NoRules \in Rulebooks
  BY <1>1 DEF NoRules, Rulebooks
<1> QED
  BY <1>2 DEF Rules

\* The token of a post names its message (_build_chatter_payload): a token
\* that is good for one post is good for no other.
LEMMA TokenIsTheMessage == \A p \in Posts : Message(p) = Payload(p)
  BY DEF Message, Payload, Resolved

\* An answer of a read tool follows the rules in force (_redact_records_by_policy,
\* get_model_fields, check_aggregate).
LEMMA ShowsByTheRules ==
  ASSUME NEW tool \in {"read", "fields", "aggregate"}, NEW i \in Instances, NEW m \in Models,
         NEW asked \in SUBSET Fields,
         PolicyInv, Shows(tool, i, m, asked, Kept(i, m, asked))
  PROVE  PolicyInv'
<1> USE DEF PolicyInv, Shows, Answer, NoReply, None
<1>1. UNCHANGED <<file, env, policy, previewed>>
  OBVIOUS
<1>2. CASE reply' = [NoReply EXCEPT !.tool = "error"]
  BY <1>1, <1>2 DEF TypeOK, FieldsAreShownByTheRules, TokensNameTheirPost, PostsAreNamed
<1>3. CASE reply' = [NoReply EXCEPT !.tool = tool, !.instance = i, !.model = m,
                                    !.asked = asked, !.shown = Kept(i, m, asked)]
  <2>1. TypeOK'
    BY <1>1, <1>3 DEF TypeOK, Kept
  <2>2. FieldsAreShownByTheRules'
    BY <1>1, <1>3, MergeKeepsWhatBothPermit DEF FieldsAreShownByTheRules, Permitted
  <2>3. (TokensNameTheirPost /\ PostsAreNamed)'
    BY <1>1, <1>3 DEF TokensNameTheirPost, PostsAreNamed
  <2> QED
    BY <2>1, <2>2, <2>3
<1> QED
  BY <1>2, <1>3

\* PolicyInv survives every step of the process, its operator and its agents.
LEMMA PolicyStep == PolicyInv /\ [Next]_vars => PolicyInv'
<1> SUFFICES ASSUME PolicyInv, [Next]_vars PROVE PolicyInv'
  OBVIOUS
<1> USE DEF PolicyInv
<1>1. ASSUME NEW direct \in BOOLEAN, NEW unknown \in BOOLEAN, NEW default \in Instances,
             Start(direct, unknown, default)
      PROVE  PolicyInv'
  BY <1>1, RulesAreRulebooks DEF Start, TypeOK, FieldsAreShownByTheRules,
     TokensNameTheirPost, PostsAreNamed, NoReply, None
<1>2. CASE Stop
  <2>1. NoRules \in Rulebooks
    BY DEF NoRules, NoRule, Rulebooks
  <2> QED
    BY <1>2, <2>1 DEF Stop, Down, TypeOK, FieldsAreShownByTheRules,
       TokensNameTheirPost, PostsAreNamed, NoReply, None
<1>3. ASSUME NEW f \in Files, EditFile(f)
      PROVE  PolicyInv'
  BY <1>3 DEF EditFile, TypeOK, FieldsAreShownByTheRules,
     TokensNameTheirPost, PostsAreNamed, NoReply, None
<1>4. ASSUME NEW i \in Instances, NEW m \in Models, NEW asked \in (SUBSET Fields) \ {{}},
             ReadRecords(i, m, asked)
      PROVE  PolicyInv'
  BY <1>4, ShowsByTheRules DEF ReadRecords
<1>5. ASSUME NEW i \in Instances, NEW m \in Models, NEW asked \in (SUBSET Fields) \ {{}},
             Aggregate(i, m, asked)
      PROVE  PolicyInv'
  <2>1. asked = Kept(i, m, asked)
    BY <1>5 DEF Aggregate, AggregateBlocked
  <2>2. Shows("aggregate", i, m, asked, Kept(i, m, asked))
    BY <1>5, <2>1 DEF Aggregate
  <2> QED
    BY <2>2, ShowsByTheRules
<1>6. ASSUME NEW i \in Instances, NEW m \in Models, GetModelFields(i, m)
      PROVE  PolicyInv'
  BY <1>6, ShowsByTheRules DEF GetModelFields
<1>7. ASSUME NEW i \in Instances, NEW m \in Models, NEW method \in Methods,
             ExecuteMethod(i, m, method)
      PROVE  PolicyInv'
  BY <1>7 DEF ExecuteMethod, Answer, TypeOK, FieldsAreShownByTheRules,
     TokensNameTheirPost, PostsAreNamed, NoReply, None
<1>8. ASSUME NEW p \in Posts, PreviewPost(p)
      PROVE  PolicyInv'
  <2>1. TypeOK' /\ FieldsAreShownByTheRules'
    BY <1>8 DEF PreviewPost, Answer, TypeOK, FieldsAreShownByTheRules, NoReply, None
  <2>2. TokensNameTheirPost' /\ PostsAreNamed'
    BY <1>8, TokenIsTheMessage DEF PreviewPost, Answer, TokensNameTheirPost,
       PostsAreNamed, NoReply, None
  <2> QED
    BY <2>1, <2>2
<1>9. ASSUME NEW p \in Posts, DirectPost(p)
      PROVE  PolicyInv'
  BY <1>9 DEF DirectPost, Answer, TypeOK, FieldsAreShownByTheRules,
     TokensNameTheirPost, PostsAreNamed, NoReply, None
<1>10. ASSUME NEW p \in Posts, NEW token \in Tokens, NEW confirm \in BOOLEAN,
              ChatterPost(p, token, confirm)
       PROVE  PolicyInv'
  <2>1. CASE token = Payload(p) /\ confirm
    <3>1. reply' = [NoReply EXCEPT !.tool = "post", !.post = Message(p), !.token = token]
      BY <1>10, <2>1 DEF ChatterPost, Answer
    <3>2. TypeOK' /\ FieldsAreShownByTheRules' /\ TokensNameTheirPost'
      BY <1>10, <3>1 DEF ChatterPost, Answer, TypeOK, FieldsAreShownByTheRules,
         TokensNameTheirPost, NoReply, None
    <3>3. PostsAreNamed'
      BY <2>1, <3>1, TokenIsTheMessage DEF PostsAreNamed, NoReply
    <3> QED
      BY <3>2, <3>3
  <2>2. CASE ~(token = Payload(p) /\ confirm)
    <3>1. reply' = [NoReply EXCEPT !.tool = "error"]
      BY <1>10, <2>2 DEF ChatterPost, Answer
    <3> QED
      BY <1>10, <3>1 DEF ChatterPost, Answer, TypeOK, FieldsAreShownByTheRules,
         TokensNameTheirPost, PostsAreNamed, NoReply, None
  <2> QED
    BY <2>1, <2>2
<1>11. CASE UNCHANGED vars
  BY <1>11 DEF vars, TypeOK, FieldsAreShownByTheRules, Permitted,
     TokensNameTheirPost, PostsAreNamed
<1> QED
  BY <1>1, <1>2, <1>3, <1>4, <1>5, <1>6, <1>7, <1>8, <1>9, <1>10, <1>11 DEF Next

\* The invariant of the policy file and its tools holds in every reachable state.
THEOREM PolicyInvariant == Spec => []PolicyInv
<1>1. Init => PolicyInv
  <2> SUFFICES ASSUME Init PROVE PolicyInv
    OBVIOUS
  <2>1. NoRules \in Rulebooks
    BY DEF NoRules, NoRule, Rulebooks
  <2> QED
    BY <2>1 DEF Init, Down, PolicyInv, TypeOK, FieldsAreShownByTheRules,
       TokensNameTheirPost, PostsAreNamed, NoReply, None
<1> QED
  BY <1>1, PolicyStep, PTL DEF Spec

\* Type correctness of the policy state and of every answer.
THEOREM TypeCorrect == Spec => []TypeOK
  BY PolicyInvariant, PTL DEF PolicyInv

\* No reply of a read tool shows a field that the "*" rule or the model's rule
\* forbids, nor hides one that both permit (field_policy.py), for every file.
THEOREM FieldsFollowTheRules == Spec => []FieldsAreShownByTheRules
  BY PolicyInvariant, PTL DEF PolicyInv

\* The token of a chatter preview posts what that preview showed or nothing, for
\* any default instance of the process that shows and of the one that posts.
THEOREM ApprovalsPostWhatTheyShowed == Spec => []ApprovalsKeepTheirMeaning
<1>1. PolicyInv => ApprovalsKeepTheirMeaning
  BY DEF PolicyInv, TokensNameTheirPost, PostsAreNamed, ApprovalsKeepTheirMeaning
<1> QED
  BY <1>1, PolicyInvariant, PTL

\* A start takes over the rules the file holds, or fails (app_lifespan).
LEMMA StartIsProtected ==
  ASSUME PolicyInv, NEW direct \in BOOLEAN, NEW unknown \in BOOLEAN, NEW default \in Instances,
             Start(direct, unknown, default)
  PROVE  ProtectedStart
  BY DEF Start, PolicyInv, TypeOK, LoadFails, Rules, ProtectedStart

\* execute_method runs no method that is destructive or that nobody reviewed.
LEMMA RunsAreReviewed ==
  ASSUME NEW i \in Instances, NEW m \in Models, NEW method \in Methods,
         ExecuteMethod(i, m, method)
  PROVE  ReviewedRun
<1>1. reply'.model = m /\ reply'.method = method
  BY DEF ExecuteMethod, Answer, NoReply, None
<1>2. MayExecute(m, method)
  BY DEF ExecuteMethod
<1>3. Safety(method) # "destructive"
  BY <1>2 DEF MayExecute
<1>4. "destructive" \notin Traits[method]
  BY <1>3 DEF Safety
<1>5. CASE Safety(method) = "read_only"
  BY <1>1, <1>4, <1>5 DEF Safety, ReviewedRun
<1>6. CASE Safety(method) # "read_only"
  <2>1. Reviewed(m, method) \/ env.unknown
    BY <1>2, <1>3, <1>6 DEF MayExecute
  <2> QED
    BY <1>1, <1>4, <2>1 DEF Reviewed, FileMethods, ReviewedRun
<1> QED
  BY <1>5, <1>6

\* A read answers as itself or as an error (the tools' except clauses).
LEMMA ShownByItsTool ==
  ASSUME NEW tool, NEW i, NEW m, NEW asked, NEW shown, Shows(tool, i, m, asked, shown)
  PROVE  reply'.tool \in {tool, "error"}
<1>1. CASE reply' = [NoReply EXCEPT !.tool = "error"]
  BY <1>1 DEF NoReply
<1>2. CASE reply' = [NoReply EXCEPT !.tool = tool, !.instance = i, !.model = m,
                                    !.asked = asked, !.shown = shown]
  BY <1>2 DEF NoReply
<1> QED
  BY <1>1, <1>2 DEF Shows, Answer

\* No step starts a server or runs a method that the file, as it is at that
\* step, does not allow.
THEOREM FileDecides == Spec => TheFileDecides
<1> DEFINE Decided == /\ ~env.up /\ env'.up => ProtectedStart
                      /\ reply'.tool = "execute" => ReviewedRun
<1>1. PolicyInv /\ [Next]_vars => [Decided]_vars
  <2> SUFFICES ASSUME PolicyInv, Next PROVE Decided
    OBVIOUS
  <2>1. ASSUME NEW direct \in BOOLEAN, NEW unknown \in BOOLEAN, NEW default \in Instances,
             Start(direct, unknown, default)
        PROVE  Decided
    BY <2>1, StartIsProtected DEF Start, NoReply, None
  <2>2. CASE Stop
    BY <2>2 DEF Stop, NoReply, None, Down
  <2>3. ASSUME NEW f \in Files, EditFile(f)
        PROVE  Decided
    BY <2>3 DEF EditFile, NoReply, None
  <2>4. ASSUME NEW i \in Instances, NEW m \in Models, NEW asked \in (SUBSET Fields) \ {{}},
               ReadRecords(i, m, asked) \/ Aggregate(i, m, asked)
        PROVE  Decided
    <3>1. env' = env
      BY <2>4 DEF ReadRecords, Aggregate, Shows, Answer
    <3>2. reply'.tool # "execute"
      BY <2>4, ShownByItsTool DEF ReadRecords, Aggregate
    <3> QED
      BY <3>1, <3>2
  <2>5. ASSUME NEW i \in Instances, NEW m \in Models, GetModelFields(i, m)
        PROVE  Decided
    <3>1. env' = env
      BY <2>5 DEF GetModelFields, Shows, Answer
    <3>2. reply'.tool # "execute"
      BY <2>5, ShownByItsTool DEF GetModelFields
    <3> QED
      BY <3>1, <3>2
  <2>6. ASSUME NEW i \in Instances, NEW m \in Models, NEW method \in Methods,
               ExecuteMethod(i, m, method)
        PROVE  Decided
    BY <2>6, RunsAreReviewed DEF ExecuteMethod, Answer
  <2>7. ASSUME NEW p \in Posts, PreviewPost(p) \/ DirectPost(p)
        PROVE  Decided
    <3>1. env' = env
      BY <2>7 DEF PreviewPost, DirectPost, Answer
    <3>2. \/ reply' = [NoReply EXCEPT !.tool = "preview", !.post = Message(p), !.token = Payload(p)]
          \/ reply' = [NoReply EXCEPT !.tool = "direct", !.post = Message(p)]
      BY <2>7 DEF PreviewPost, DirectPost, Answer
    <3>3. reply'.tool # "execute"
      BY <3>2 DEF NoReply
    <3> QED
      BY <3>1, <3>3
  <2>8. ASSUME NEW p \in Posts, NEW token \in Tokens, NEW confirm \in BOOLEAN,
               ChatterPost(p, token, confirm)
        PROVE  Decided
    BY <2>8 DEF ChatterPost, Answer, NoReply
  <2> QED
    BY <2>1, <2>2, <2>3, <2>4, <2>5, <2>6, <2>7, <2>8 DEF Next
<1> QED
  BY <1>1, PolicyInvariant, PTL DEF Spec, TheFileDecides
=============================================================================
