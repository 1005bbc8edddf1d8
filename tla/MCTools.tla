-------------------------------- MODULE MCTools --------------------------------
(* The calls that keep no state, one after another, over small sets of inputs *)
(* that combine the cases the tools tell apart.                               *)
EXTENDS Tools

Upto(S, n) == UNION {[1..k -> S] : k \in 0..n}

\* diagnose_access: every part of the metadata, and every count.
Rows == <<[group |-> "implied", grants |-> TRUE]>>
MCRows == {<<>>, Rows, <<[group |-> "direct", grants |-> FALSE]>> \o Rows,
           <<[group |-> "other", grants |-> TRUE], [group |-> Everyone, grants |-> TRUE]>>,
           <<[group |-> "other", grants |-> TRUE]>>}
AccessInput(failing, known, old, groups, rows, rules, limit, ids, expected, visible) ==
  [failing |-> failing, clientUid |-> known[1], contextUid |-> known[2], old |-> old,
   groups |-> groups, direct |-> groups \ {"implied"}, rows |-> rows, rules |-> rules,
   limit |-> limit, ids |-> ids, expected |-> expected, visible |-> visible]
MCAccessInputs ==
  {AccessInput(f, k, o, g, r, {}, l, <<>>, -1, {1}) :
     f \in SUBSET (Reads \ {"ir.rule", "search_count"}),
     k \in {<<TRUE, FALSE>>, <<FALSE, TRUE>>, <<FALSE, FALSE>>}, o \in BOOLEAN,
     g \in {{}, {"direct"}, {"direct", "implied"}}, r \in MCRows, l \in {1, 2}}
  \cup {AccessInput(f, <<TRUE, TRUE>>, FALSE, {"direct"}, <<>>, r, 2, ids, e, v) :
     f \in SUBSET {"ir.model", "ir.rule", "search_count"},
     r \in SUBSET [groups : {{"direct"}}, applies : BOOLEAN],
     ids \in {<<>>, <<1>>, <<1, 2>>}, e \in {-1, 0, 1, 2}, v \in SUBSET {1, 2}}

\* validate_write: payloads of every shape, and every edit of an approval.
Empty == [f \in {} |-> ""]
MCValues == {Empty, [name |-> "1"], [name |-> "1.0"], [name |-> "1", note |-> "2"], [odd |-> "1"]}
Entry(object, values) == [object |-> object, values |-> values]
MCLists == {<<>>, <<Entry(TRUE, [name |-> "1"])>>, <<Entry(TRUE, Empty)>>, <<Entry(FALSE, Empty)>>,
            <<Entry(TRUE, [name |-> "1"]), Entry(TRUE, [note |-> "1"])>>,
            [i \in 1..3 |-> Entry(TRUE, [name |-> "1"])]}
MCPayloads ==
  [op : {"create", "write", "unlink", "copy"}, ids : {<<>>, <<1>>}, values : MCValues,
   batch : {FALSE}, list : {<<>>}, context : {"none"}, instance : {"default", ""}]
  \cup [op : {"create", "write"}, ids : {<<>>, <<1>>}, values : {Empty, [name |-> "1"]},
        batch : {TRUE}, list : MCLists, context : {"none"}, instance : {"default"}]
Edit(entry, to) == [entry |-> entry, to |-> to]
MCEdits == {Edit("none", 0), Edit("floats", 0), Edit("ids", <<2>>), Edit("values", [name |-> "2"]),
            Edit("op", "unlink"), Edit("context", "admin"), Edit("instance", "eu"), Edit("instance", ""),
            Edit("batch", FALSE), Edit("batch", TRUE), Edit("list", <<Entry(TRUE, [name |-> "2"])>>)}
MCWriteInputs ==
  [payload : MCPayloads, edit : MCEdits,
   metadata : {[known |-> {"name", "note"}, readonly |-> ro] : ro \in {{}, {"note"}}}]

\* Searches and domains.
MCConditions == {"a", "b"}
MCItems == {"&", "|", "!", "a", "b", Junk}
MCDomainInputs ==
  [shape : {"list", "json", "tuples", "garbage"}, items : Upto(MCItems, 3), query : {<<>>, <<"n", "r">>}]
  \cup [shape : {"list", "wrapped", "python"}, items : Upto(MCItems \ {Junk}, 4), query : {<<"n">>}]
  \cup [shape : {"flat"}, items : {<<"a">>, <<"b">>, <<Junk>>}, query : {<<>>, <<"n", "r">>}]
  \cup [shape : {"conditions"}, items : Upto({"a", "b", "|", Junk}, 2), query : {<<>>, <<"n">>}]
MCBuildInputs ==
  [conditions : Upto([name : MCConditions, fault : {"none", "unknown_field"}], 3),
   operator : {"and", "or", "xor"}]
MCIdentifiers == <<3, 2>>
MCField(name, f) == [name |-> name, noise |-> f.noise, text |-> f.text, score |-> f.score]
MCFieldInputs ==
  {[fields |-> {MCField(0, [noise |-> FALSE, text |-> FALSE, score |-> 10])}
                 \cup {MCField(n, f[n]) : n \in DOMAIN f},
    max |-> max] :
     f \in UNION {[names -> [noise : BOOLEAN, text : BOOLEAN, score : {10, 45}]] :
                    names \in {{1, 2, 3}, {1, 4, 5}}},
     max \in 0..3}

\* Diagnostics.
MCPositionalNames == [read |-> <<"ids", "fields">>, unlink |-> <<"ids">>]
MCKwargs == {[k \in {} |-> 0], [ids |-> 7], [fields |-> 8], [limit |-> 9, fields |-> 8]}
MCCallInputs ==
  [method : {"read", "unlink", "action_confirm"}, args : Upto({1, 2}, 3), kwargs : MCKwargs,
   transport : {"auto", "json2", "xmlrpc", "soap"}, major : {16, 22},
   error : {{}, {"acl"}, {"acl", "record_rule"}}]
MCErrorCategories == <<"record_rule", "acl">>
MCLogCategories == <<"field_missing", "deprecation">>
MCLogInputs == Upto([matches : {{}, {"deprecation"}, {"field_missing", "deprecation"}}, text : {"l1", "l2"}], 4)
MCLower == [error |-> "error", Error |-> "error", warning |-> "warning", info |-> "info"]
MCFindings == [code : {"crud_override_missing_super", "security_rule_file", "custom_view", "parse_error"},
               severity : DOMAIN MCLower]
MCRiskInputs ==
  [source : BOOLEAN, major : {0, 19, 22}, safety : Upto({"destructive", "unknown", "read_only"}, 2),
   modules : Upto({"custom", "standard"}, 1), findings : Upto(MCFindings, 1)]
  \cup [source : {FALSE}, major : {19, 22}, safety : {<<"unknown">>}, modules : {<<>>},
        findings : Upto(MCFindings, 2)]
MCRequirements == Upto({"standard", "configuration", "studio", "custom_module", "avoid", "unknown"}, 3)

\* Source scans.
Computed(defined, depends, reads) ==
  [method |-> "_compute", defined |-> defined, depends |-> depends, reads |-> reads, fields |-> {"total"}]
PyFile(broken, computes, overrides) ==
  [kind |-> "py", link |-> FALSE, size |-> "small", broken |-> broken, computes |-> computes,
   overrides |-> overrides]
Plain(kind, link, size) == [PyFile(FALSE, {}, {}) EXCEPT !.kind = kind, !.link = link, !.size = size]
MCScanFiles ==
  {PyFile(TRUE, {}, {}), PyFile(FALSE, {Computed(FALSE, {}, {})}, {}),
   PyFile(FALSE, {Computed(TRUE, {}, {"qty"}), Computed(TRUE, {"qty"}, {"qty", "total"})}, {}),
   PyFile(FALSE, {Computed(TRUE, {"qty"}, {"price"})}, {[method |-> "write", super |-> "returned"]}),
   PyFile(FALSE, {}, {[method |-> "create", super |-> "none"], [method |-> "write", super |-> "dropped"]}),
   Plain("xml", FALSE, "small"), Plain("csv", FALSE, "big"), Plain("py", TRUE, "small"),
   Plain("manifest", FALSE, "unknown"), Plain("other", FALSE, "small")}
MCScanInputs ==
  {<<[configured |-> TRUE, exists |-> TRUE, files |-> files]>> : files \in Upto(MCScanFiles, 3)}
  \cup {<<[configured |-> TRUE, exists |-> e, files |-> f], [configured |-> c, exists |-> TRUE, files |-> g]>> :
          c \in BOOLEAN, e \in BOOLEAN, f \in Upto(MCScanFiles, 1), g \in Upto(MCScanFiles, 2)}

\* Start, assembly and setup.
Args(transport, host, allow) == [transport |-> transport, host |-> host, allow |-> allow]
MCStartInputs ==
  [docker : BOOLEAN, transport : {"stdio", "streamable-http"}, host : {"local", "remote"}, allow : BOOLEAN,
   args : {Args("none", "none", FALSE), Args("none", "remote", FALSE), Args("stdio", "none", FALSE),
           Args("sse", "local", FALSE), Args("streamable-http", "remote", TRUE)},
   external : SUBSET ExternalNames, github : SUBSET {"ID", "SECRET"}, url : {"", "http", "https"},
   users : {{}, {"ada"}}, token : {"", "digest", "other"}]
MCBuiltin == {"search_records", "execute_approved_write"}
MCSign == {"sign_model"}
Plugin(tools, installed, fails, sign) ==
  [tools |-> tools, installed |-> installed, fails |-> fails, sign |-> sign]
MCPlugins == {Plugin({"extra"}, TRUE, FALSE, FALSE), Plugin({"half"}, TRUE, TRUE, FALSE),
              Plugin({"gone"}, FALSE, FALSE, FALSE), Plugin(MCSign, TRUE, FALSE, TRUE)}
MCSurfaceInputs ==
  [plugins : Upto(MCPlugins, 3), include : {{}, {{"search_records", "extra"}}, {MCSign, {"half"}}},
   exclude : {{}, {{"execute_approved_write"}}}, profile : BOOLEAN]
MCWizardInputs ==
  {in \in [before : {"none", "old"}, connects : BOOLEAN, insists : BOOLEAN, cancelled : 0..3] :
     in.connects => in.cancelled # 2}

\* Reports.
Due(days) == [known |-> TRUE, days |-> days]
NoDate == [known |-> FALSE, days |-> 0]
MCAgingItems == [residual : {0, 100}, due : {Due(0), Due(30), Due(31)}, partner : {"ada"}]
                \cup [residual : {-50, 70}, due : {NoDate, Due(91)}, partner : {"ada", "bob"}]
MCAgingInputs ==
  [direction : {"receivable", "payable"}, items : Upto(MCAgingItems, 2), limit : {2, 3}, top : {1, 2},
   lost : BOOLEAN]
MCMaxFields == [required |-> 1, format |-> 2, orphans |-> 2]
Row1 == [row |-> 1, target |-> 1]
Dangling == {{}, {[row |-> 3, target |-> 2]}, {[row |-> 3, target |-> 3]}, {Row1, [row |-> 4, target |-> 2]}}
MCBad ==
  {[format |-> rows] : rows \in {{}, {Row1}, {[row |-> 4, target |-> 1]}}}
  \cup {[orphans |-> rows, required |-> {Row1}] : rows \in Dangling} \cup {[required |-> {}]}
MCQualityFields == [denied : {FALSE}, bad : MCBad] \cup [denied : {TRUE}, bad : {[format |-> {Row1}]}]
Numbered(f) == [i \in DOMAIN f |-> [name |-> i, denied |-> f[i].denied, bad |-> f[i].bad]]
MCQualityInputs ==
  [checks : {{"format"}, {"format", "required", "orphans"}}, raising : SUBSET {"orphans", "required"},
   lost : SUBSET {"format", "orphans"}, sample : {3}, fields : {Numbered(f) : f \in Upto(MCQualityFields, 3)}]
================================================================================
