-------------------------------- MODULE Domains --------------------------------
(***************************************************************************)
(* What a search asks Odoo for: the shapes of a domain a tool accepts      *)
(* (normalize_domain_input), the free-text query that is put in front of   *)
(* it (build_text_query_domain, search_records), the domains build_domain  *)
(* makes of structured conditions, and the fields a read without a list of *)
(* fields asks for (field_ranking.py).                                     *)
(*                                                                         *)
(* A domain is a sequence of the operators of Odoo's prefix notation and   *)
(* of conditions; a condition is named, and Junk is anything else: what is *)
(* malformed, but also Odoo's leaves for true and false, [1, "=", 1] and   *)
(* [0, "=", 1], which the code drops because their first member is no text.*)
(***************************************************************************)
EXTENDS ToolCalls, SequencesExt, FiniteSetsExt, Integers

CONSTANTS
  Conditions,    \* conditions a caller can ask for
  DomainInputs,  \* of [shape, items, query]: a domain and the fields matched by the query
  BuildInputs,   \* of [conditions, operator], the conditions of [name, fault]
  FieldInputs,   \* of [fields, max], the fields of [name, noise, text, score]
  Identifiers    \* _TEXT_QUERY_PRIORITY_FIELDS

Operators == {"&", "|", "!"}
Junk == "junk"
Shapes == {"list", "flat", "wrapped", "json", "python", "conditions", "tuples", "garbage"}

\* No condition is an operator, and no two fields of a model have one name.
ASSUME DomainAssumption ==
  /\ Conditions \cap (Operators \cup {Junk}) = {}
  /\ \A in \in DomainInputs :
       /\ in.items \in Seq(Operators \cup Conditions \cup {Junk}) /\ in.shape \in Shapes
       /\ in.shape = "flat" => Len(in.items) = 1  \* a condition in the place of a list
       /\ in.query \in Seq(ToSet(in.query)) /\ ToSet(in.query) \cap (Operators \cup {Junk}) = {}
  /\ \A in \in BuildInputs :
       /\ in.conditions \in Seq(ToSet(in.conditions))
       /\ \A i \in DOMAIN in.conditions : in.conditions[i].name \in Conditions
  /\ \A in \in FieldInputs :
       /\ IsFiniteSet(in.fields) /\ in.max \in Nat
       /\ \A f \in in.fields : f.name \in Nat /\ f.score \in Int
       /\ \A f, g \in in.fields : f.name = g.name => f = g
  /\ Identifiers \in Seq(Nat)
  /\ \A i, j \in DOMAIN Identifiers : Identifiers[i] = Identifiers[j] => i = j

\* The members of a sequence that are good, in their order.
Filtered(seq, good) == FoldLeft(LAMBDA kept, x : IF x \in good THEN Append(kept, x) ELSE kept, <<>>, seq)

\* The stacks on which a prefix domain is evaluated from its end, by the number
\* of items evaluated; what is left on the last holds together (the implicit "and").
Needs(item) == IF item = "!" THEN 1 ELSE IF item \in Operators THEN 2 ELSE 0
Apply(holds, item, stack) ==
  CASE item = "!" -> <<~stack[1]>> \o Tail(stack)
    [] item = "&" -> <<stack[1] /\ stack[2]>> \o Tail(Tail(stack))
    [] item = "|" -> <<stack[1] \/ stack[2]>> \o Tail(Tail(stack))
    [] OTHER -> <<item \in holds>> \o stack
Stacks(domain, holds) ==
  LET after[n \in 0..Len(domain)] ==
        IF n = 0 THEN <<>> ELSE Apply(holds, domain[Len(domain) - n + 1], after[n - 1])
  IN after
Matches(domain, holds) ==
  LET stack == Stacks(domain, holds)[Len(domain)] IN \A i \in DOMAIN stack : stack[i]

\* Every operator finds its operands on the stack.
Readable(domain) ==
  \A n \in 1..Len(domain) :
    LET item == domain[Len(domain) - n + 1] IN
      item # Junk /\ Len(Stacks(domain, {})[n - 1]) >= Needs(item)

\* normalize_domain_input: only lists and texts keep the operators, conditions
\* written as tuples are not lists, and what cannot be read is no restriction.
Accepted(shape) ==
  CASE shape \in {"list", "flat", "wrapped", "json", "python"} -> Operators \cup Conditions
    [] shape = "conditions" -> Conditions
    [] shape = "tuples" -> Operators
    [] OTHER -> {}
Normalize(in) == Filtered(in.items, Accepted(in.shape))

\* Mutant: one operator, however many conditions.
AnyOf_One(conditions) == (IF Len(conditions) > 1 THEN <<"|">> ELSE <<>>) \o conditions

\* The prefix notation of "any of these".
AnyOf(conditions) == [i \in 1..(Len(conditions) - 1) |-> "|"] \o conditions

\* search_records: the query in front of the domain.
Sought(in) == (IF in.query = <<>> THEN <<>> ELSE AnyOf(in.query)) \o Normalize(in)
SearchRecords == \E in \in DomainInputs : Call("search_records", in, Sought(in))

\* build_domain_report: a condition with a fault is reported and left out.
Sound(in) == Filtered(in.conditions, {c \in ToSet(in.conditions) : c.fault = "none"})
Names(conditions) == [i \in DOMAIN conditions |-> conditions[i].name]
BuildDomain ==
  \E in \in BuildInputs :
    Call("build_domain", in,
      [success |-> Len(Sound(in)) = Len(in.conditions) /\ in.operator \in {"and", "or"},
       domain |-> IF in.operator = "or" /\ Sound(in) # <<>> THEN AnyOf(Names(Sound(in)))
                  ELSE Names(Sound(in))])

\* select_smart_fields: id first, then by score and name what is not noise
\* (technical, automatic, binary or computed without being stored).
Better(f, g) == f.score > g.score \/ (f.score = g.score /\ f.name < g.name)
BestFirst(fields) ==
  CHOOSE s \in SetToSeqs(fields) : \A j, k \in DOMAIN s : j < k => Better(s[j], s[k])
SmartFields(in) ==
  LET candidates == BestFirst({f \in in.fields : f.name # 0 /\ ~f.noise})
  IN IF in.max <= 0 THEN <<>>
     ELSE <<0>> \o SubSeq(Names(candidates), 1, Min({Len(candidates), in.max - 1}))

\* select_text_query_fields: searchable text, the known identifiers if any.
TextFields(in) == {f \in in.fields : f.text}
QueryFields(in) ==
  LET known == Filtered(Identifiers, {f.name : f \in TextFields(in)})
      chosen == IF known = <<>> THEN Names(BestFirst(TextFields(in))) ELSE known
  IN SubSeq(chosen, 1, Min({Len(chosen), in.max}))

ChooseFields ==
  \E in \in FieldInputs :
    Call("choose_fields", in, [read |-> SmartFields(in), query |-> QueryFields(in)])

-----------------------------------------------------------------------------
\* A search for a domain that can be read, in any shape but the text of Python
\* tuples, finds the records that match it and, if there is a query, at least
\* one of the fields of the query: nothing more, and nothing less.  A dictionary
\* of conditions has no place for operators.
SearchesFindWhatWasAsked ==
  Answers("search_records") =>
    LET in == call.in
        Meant == /\ Readable(in.items) /\ in.shape \notin {"tuples", "garbage"}
                 /\ in.shape = "conditions" => ToSet(in.items) \cap Operators = {}
    IN Meant =>
         /\ Readable(call.out)
         /\ \A holds \in SUBSET (Conditions \cup ToSet(in.query)) :
              Matches(call.out, holds) <=>
                /\ Matches(in.items, holds)
                /\ in.query = <<>> \/ \E q \in ToSet(in.query) : q \in holds

\* A domain built with success restricts to all, or to any, of the conditions.
BuiltDomainsAreFaithful ==
  Answers("build_domain") /\ call.out.success /\ call.in.conditions # <<>> =>
    \A holds \in SUBSET Conditions :
      Matches(call.out.domain, holds) <=>
        LET given == ToSet(Names(call.in.conditions)) IN
          IF call.in.operator = "and" THEN given \subseteq holds ELSE given \cap holds # {}

\* The fields read by default include the id, no noise, and no more than asked
\* for; one that is left out is no better than any taken.  A text query is over
\* fields that hold text: the first identifiers of the model, if it has any,
\* and else the best.
ChosenFieldsAreTheBest ==
  Answers("choose_fields") =>
    LET in == call.in
        Taken(seq) == {f \in in.fields : f.name \in ToSet(seq)}
        Known == {f \in TextFields(in) : f.name \in ToSet(Identifiers)}
        Place(f) == CHOOSE i \in DOMAIN Identifiers : Identifiers[i] = f.name
    IN /\ Len(call.out.read) <= in.max /\ Len(call.out.query) <= in.max
       /\ in.max > 0 => 0 \in ToSet(call.out.read)
       /\ \A f \in Taken(call.out.read), g \in in.fields \ Taken(call.out.read) :
            f.name = 0 \/ (~f.noise /\ (g.noise \/ Better(f, g)))
       /\ IF Known # {}
            THEN /\ Taken(call.out.query) \subseteq Known
                 /\ \A f \in Taken(call.out.query), g \in Known \ Taken(call.out.query) : Place(f) < Place(g)
            ELSE /\ Taken(call.out.query) \subseteq TextFields(in)
                 /\ \A f \in Taken(call.out.query), g \in TextFields(in) \ Taken(call.out.query) : Better(f, g)
       /\ in.max > 0 /\ TextFields(in) # {} => Taken(call.out.query) # {}
=============================================================================
