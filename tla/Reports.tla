-------------------------------- MODULE Reports --------------------------------
(***************************************************************************)
(* Reports over records of Odoo: the aging of open items                   *)
(* (accounting_tools.py, tools_accounting.py) and the data-quality checks  *)
(* of a model (data_quality.py).  Amounts are integers: cents.             *)
(*                                                                         *)
(* Both read through search_read, which answers a failed request with no   *)
(* rows: lost says that this happened to an aging report, and lost names   *)
(* the sampling checks of data quality that it happened to.                *)
(***************************************************************************)
EXTENDS ToolCalls, SequencesExt, FiniteSetsExt, Functions, Integers

CONSTANTS
  AgingInputs,    \* of [direction, items, limit, top, lost]; an item is
                  \* [residual, due, partner], due counted in days before the
                  \* date of the report, or "none"
  QualityInputs,  \* of [checks, raising, lost, sample, fields]; a field is
                  \* [name, denied, bad], bad[check] the rows with a problem for
                  \* the checks it is for, each [row, target]: its place among the
                  \* rows of the search, and the place of the record it refers
                  \* to among all they refer to (1 when it is not about references)
  Sampling,       \* the checks that read records by search_read
  MaxFields,      \* [check -> how many fields it looks at]
  MaxReferenced   \* MAX_REFERENCED_IDS

\* A residual that is no number is skipped like a zero, and so is one here.  No
\* two fields of a model have one name.
ASSUME ReportsAssumption ==
  /\ \A in \in AgingInputs :
       /\ in.items \in Seq(ToSet(in.items)) /\ in.limit \in Nat \ {0} /\ in.top \in Nat
       /\ \A i \in DOMAIN in.items :
            in.items[i].residual \in Int /\ in.items[i].due.days \in Int
  /\ \A in \in QualityInputs :
       /\ in.fields \in Seq(ToSet(in.fields))
       /\ in.sample \in Nat \ {0} /\ in.lost \subseteq Sampling
       /\ \A i \in DOMAIN in.fields : \A check \in DOMAIN in.fields[i].bad :
            /\ IsFiniteSet(in.fields[i].bad[check])
            /\ \A b \in in.fields[i].bad[check] : b.row \in Nat /\ b.target \in 1..b.row
       /\ \A i, j \in DOMAIN in.fields : in.fields[i].name = in.fields[j].name => i = j
       /\ \A check \in in.checks : MaxFields[check] \in Nat
  /\ MaxReferenced \in Nat \ {0}

Buckets == {"not_due", "1-30", "31-60", "61-90", "90+"}
\* bucket_for_days; an item without a date counts as not due.
BucketFor(due) ==
  IF ~due.known THEN "not_due"
  ELSE CASE due.days <= 0 -> "not_due"
         [] due.days \in 1..30 -> "1-30"
         [] due.days \in 31..60 -> "31-60"
         [] due.days \in 61..90 -> "61-90"
         [] due.days >= 91 -> "90+"

\* fetch_aging_lines stops at the limit; the report skips what has no amount,
\* and turns the sign of what is payable.
Fetched(in) == IF in.lost THEN <<>> ELSE SubSeq(in.items, 1, Min({in.limit, Len(in.items)}))
Counted(in) == {i \in DOMAIN Fetched(in) : Fetched(in)[i].residual # 0}
Amounts(in) ==
  [i \in DOMAIN in.items |->
     IF in.direction = "payable" THEN -in.items[i].residual ELSE in.items[i].residual]
Total(in, lines) == SumFunctionOnSet(Amounts(in), lines)
InBucket(in, b) == {i \in Counted(in) : BucketFor(in.items[i].due) = b}
OfPartner(in, p) == {i \in Counted(in) : in.items[i].partner = p}
Owed(in, p) == Total(in, OfPartner(in, p))

\* The partners, those who owe most first.
Partners(in) == {in.items[i].partner : i \in Counted(in)}
Ranked(in) ==
  CHOOSE s \in SetToSeqs(Partners(in)) :
    \A j, k \in DOMAIN s : j < k => Owed(in, s[j]) >= Owed(in, s[k])
Aging ==
  \E in \in AgingInputs :
    Call("aging", in,
      [buckets |-> [b \in Buckets |-> Total(in, InBucket(in, b))],
       partners |-> [k \in 1..Min({Len(Ranked(in)), in.top}) |->
                       [total |-> Owed(in, Ranked(in)[k]),
                        by |-> [b \in Buckets |->
                                  Total(in, OfPartner(in, Ranked(in)[k]) \cap InBucket(in, b))]]],
       count |-> Len(Ranked(in)), truncated |-> Len(Fetched(in)) >= in.limit])

-----------------------------------------------------------------------------
\* build_data_quality_report: each check looks at the first fields it is for
\* that the field policy shows, and counts their problems unless a request of it
\* raises.  A sampling check sees the first rows, and of the records they refer
\* to the first, and of a search that was lost nothing.
Suitable(in, check) ==
  {i \in DOMAIN in.fields : ~in.fields[i].denied /\ check \in DOMAIN in.fields[i].bad}
Scanned(in, check) ==
  {i \in Suitable(in, check) :
     Cardinality({j \in Suitable(in, check) : j <= i}) <= MaxFields[check]}
Seen(in, check, i) ==
  {b \in in.fields[i].bad[check] :
     check \in Sampling => check \notin in.lost /\ b.row <= in.sample /\ b.target <= MaxReferenced}
Issues(in, check) ==
  SumFunctionOnSet([i \in Scanned(in, check) |-> Cardinality(Seen(in, check, i))], Scanned(in, check))
CheckResult(in, check) ==
  IF check \in in.raising
  THEN [check |-> check, error |-> TRUE, issues |-> 0, over |-> {}]
  ELSE [check |-> check, error |-> FALSE, issues |-> Issues(in, check),
        over |-> {in.fields[i].name : i \in Scanned(in, check)}]

DataQuality ==
  \E in \in QualityInputs :
    LET results == {CheckResult(in, check) : check \in in.checks} IN
      Call("data_quality", in,
        [results |-> results, clean |-> \A r \in results : ~r.error /\ r.issues = 0])

-----------------------------------------------------------------------------
\* Every open item is in one bucket of the totals and of its partner, so the
\* partners listed add up to the totals when all are listed; no partner left
\* out is owed more than one listed; and totals without a warning are those of
\* all the open items, when they could be read.
AgingAddsUp ==
  Answers("aging") =>
    LET in == call.in
        out == call.out
        All == {i \in DOMAIN in.items : in.items[i].residual # 0}
    IN /\ \A k \in DOMAIN out.partners :
            out.partners[k].total = SumFunction(out.partners[k].by)
       /\ Len(out.partners) = out.count =>
            \A b \in Buckets :
              SumFunction([k \in DOMAIN out.partners |-> out.partners[k].by[b]]) = out.buckets[b]
       /\ \A p \in Partners(in) :
            \/ \E k \in DOMAIN out.partners : out.partners[k].total = Owed(in, p)
            \/ \A k \in DOMAIN out.partners : out.partners[k].total >= Owed(in, p)
       /\ ~out.truncated /\ ~in.lost => SumFunction(out.buckets) = Total(in, All)
       /\ \A i \in Counted(in) : in.items[i].due.known /\ in.items[i].due.days > 0 =>
            BucketFor(in.items[i].due) # "not_due"

\* What the checks over a model's fields owe to its records.
JudgedAsSeen(in, out) ==
  LET Result(check) == CHOOSE r \in out.results : r.check = check
      Few(check) ==
        Cardinality({i \in DOMAIN in.fields : check \in DOMAIN in.fields[i].bad}) <= MaxFields[check]
      Problems(check) == {i \in DOMAIN in.fields :
        LET f == in.fields[i] IN
          /\ ~f.denied /\ check \in DOMAIN f.bad
          /\ \E b \in f.bad[check] :
               check \in Sampling => b.row <= in.sample /\ b.target <= MaxReferenced}
  IN \A check \in in.checks :
       /\ out.clean =>
            check \notin in.raising /\ (check \notin in.lost /\ Few(check) => Problems(check) = {})
       /\ check \notin in.raising \cup in.lost /\ Few(check) =>
            (Result(check).issues > 0 <=> Problems(check) # {})
       /\ \A i \in DOMAIN in.fields : in.fields[i].denied => in.fields[i].name \notin Result(check).over

\* A clean report had no check that failed, and no problem in a field that was
\* looked at, as far as the sample of a sampling check reaches, unless its search
\* was lost; a failing check leaves the other checks' results as they are; and no
\* check looks at a field the policy denies.
CleanIsEarned == Answers("data_quality") => JudgedAsSeen(call.in, call.out)
=============================================================================
