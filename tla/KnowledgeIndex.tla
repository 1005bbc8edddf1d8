---------------------------- MODULE KnowledgeIndex ----------------------------
(***************************************************************************)
(* The local BM25 indexes of index_knowledge and search_knowledge          *)
(* (knowledge_index.py, tools_knowledge.py).  A call fetches records from  *)
(* Odoo without the store's lock and feeds them to the store under it, so  *)
(* records may change, and other calls may store, in between.              *)
(*                                                                         *)
(* A record is written as the version its text is at; TextOf gives the     *)
(* terms of the text, each of which occurs once.  A blank text has none,   *)
(* and nor has one of punctuation only, which is a document all the same.  *)
(***************************************************************************)
EXTENDS Integers, Sequences, SequencesExt

CONSTANTS Indexes,    \* instance:model keys
          Docs,       \* record ids
          Terms,
          TextOf,     \* TextOf[d][v]: the terms of record d at version v
          Blank,      \* the <<d, v>> that have no text after markup and redaction
          Callers,    \* concurrent index_knowledge calls, background ones included
          MaxDocs,    \* ODOO_MCP_KNOWLEDGE_MAX_DOCS
          MaxVersion  \* bound on the changes of a record

Versions == 0..MaxVersion
Absent == -1

ASSUME IndexAssumption ==
  /\ MaxDocs \in Nat \ {0} /\ MaxVersion \in Nat
  /\ IsFiniteSet(Indexes) /\ "none" \notin Indexes
  /\ IsFiniteSet(Docs) /\ IsFiniteSet(Terms)
  /\ TextOf \in [Docs -> [Versions -> SUBSET Terms]]
  /\ Blank \subseteq {p \in Docs \X Versions : TextOf[p[1]][p[2]] = {}}

VARIABLES odoo,       \* the records in Odoo, by version
          documents,  \* BM25Index.documents: the version indexed, or Absent
          frequency,  \* BM25Index.document_frequency
          length,     \* BM25Index.total_length
          fetched     \* what each call has fetched and not stored

indexVars == <<odoo, documents, frequency, length, fetched>>
store == <<documents, frequency, length>>

Records == [id : Docs, version : Versions]
NothingFetched == [index |-> "none", replace |-> FALSE, records |-> <<>>, overtaken |-> FALSE]

Indexed(docs) == {d \in Docs : docs[d] # Absent}

\* The documents of a set of indexes.
Held(indexes) == {p \in indexes \X Docs : documents[p[1]][p[2]] # Absent}

\* All indexes together hold no more documents than the budget, too.
IndexTypeOK ==
  /\ odoo \in [Indexes -> [Docs -> Versions]]
  /\ documents \in [Indexes -> [Docs -> Versions \cup {Absent}]]
  /\ frequency \in [Indexes -> [Terms -> Nat]]
  /\ length \in [Indexes -> Nat]
  /\ Cardinality(Held(Indexes)) <= MaxDocs
  /\ fetched \in [Callers -> {NothingFetched} \cup
                    [index : Indexes, replace : BOOLEAN, records : Seq(Records), overtaken : BOOLEAN]]

IndexInit ==
  /\ odoo = [k \in Indexes |-> [d \in Docs |-> 0]]
  /\ documents = [k \in Indexes |-> [d \in Docs |-> Absent]]
  /\ frequency = [k \in Indexes |-> [t \in Terms |-> 0]]
  /\ length = [k \in Indexes |-> 0]
  /\ fetched = [c \in Callers |-> NothingFetched]

-----------------------------------------------------------------------------
(* One BM25Index: [documents, frequency, length].                          *)

Text(d, v) == IF v = Absent THEN {} ELSE TextOf[d][v]
HasText(record) == <<record.id, record.version>> \notin Blank
EmptyIndex == [documents |-> [d \in Docs |-> Absent],
               frequency |-> [t \in Terms |-> 0], length |-> 0]

\* BM25Index.remove
RemoveDoc(ix, d) ==
  LET text == Text(d, ix.documents[d]) IN
  [documents |-> [ix.documents EXCEPT ![d] = Absent],
   frequency |-> [t \in Terms |-> ix.frequency[t] - (IF t \in text THEN 1 ELSE 0)],
   length |-> ix.length - Cardinality(text)]

\* Mutant: the document replaced is not taken out of the counters.
AddDoc_NoRemove(ix, d, v) ==
  [documents |-> [ix.documents EXCEPT ![d] = v],
   frequency |-> [t \in Terms |-> ix.frequency[t] + (IF t \in Text(d, v) THEN 1 ELSE 0)],
   length |-> ix.length + Cardinality(Text(d, v))]

\* BM25Index.add
AddDoc(ix, d, v) ==
  LET old == RemoveDoc(ix, d) IN
  [documents |-> [old.documents EXCEPT ![d] = v],
   frequency |-> [t \in Terms |-> old.frequency[t] + (IF t \in Text(d, v) THEN 1 ELSE 0)],
   length |-> old.length + Cardinality(Text(d, v))]

\* The terms of a query that count for a document, the documents they give a
\* score, and when one scores higher whatever the lengths of the others come to:
\* it has every term of the other in a text that is no longer, and not just as it
\* has them.
Hits(ix, query, d) == {t \in query \cap Text(d, ix.documents[d]) : ix.frequency[t] > 0}
Scored(ix, query) == {d \in Indexed(ix.documents) : Hits(ix, query, d) # {}}
Outscores(ix, query, d, e) ==
  LET long(x) == Cardinality(Text(x, ix.documents[x])) IN
  /\ Hits(ix, query, e) \subseteq Hits(ix, query, d) /\ long(d) <= long(e)
  /\ Hits(ix, query, e) # Hits(ix, query, d) \/ long(d) < long(e)

\* BM25Index.search: what it may return, the documents with a score, ranked by it
\* and cut at the limit.
Search(ix, query, limit) ==
  LET scored == Scored(ix, query) IN
  {found \in SUBSET scored :
     /\ Cardinality(found) = Min({Max({1, limit}), Cardinality(scored)})
     /\ \A d \in scored \ found, e \in found : ~Outscores(ix, query, d, e)}

\* Mutant: the budget counts the documents of this index only.
IndexRecord_OwnBudget(ix, record, others) ==
  IF ix.documents[record.id] = Absent /\ Cardinality(Indexed(ix.documents)) >= MaxDocs
  THEN ix
  ELSE IF ~HasText(record) THEN ix
  ELSE AddDoc(ix, record.id, record.version)

\* The body of the loop of index_records: a document new to the index needs
\* room in the budget, and a record whose text is blank is passed over.
IndexRecord(ix, record, others) ==
  IF ix.documents[record.id] = Absent
     /\ others + Cardinality(Indexed(ix.documents)) >= MaxDocs
  THEN ix
  ELSE IF ~HasText(record) THEN ix
  ELSE AddDoc(ix, record.id, record.version)

-----------------------------------------------------------------------------
Index(k) == [documents |-> documents[k], frequency |-> frequency[k], length |-> length[k]]
OtherDocs(k) == Cardinality(Held(Indexes \ {k}))

\* The loop of index_records: what the index is after each of the records.
Stored(start, records, others) ==
  LET after[i \in 0..Len(records)] ==
        IF i = 0 THEN start ELSE IndexRecord(after[i - 1], records[i], others)
  IN after[Len(records)]

\* fetch_and_index up to the store: search_read of a slice of the records, in
\* whatever order Odoo has; a request that fails reads as the empty slice.
Slices == {ids \in SeqOf(Docs, Cardinality(Docs)) : IsInjective(ids)}
FetchRecords(c, k, replace, ids) ==
  /\ fetched[c] = NothingFetched
  /\ fetched' = [fetched EXCEPT ![c] =
       [index |-> k, replace |-> replace, overtaken |-> FALSE,
        records |-> [i \in DOMAIN ids |-> [id |-> ids[i], version |-> odoo[k][ids[i]]]]]]
  /\ UNCHANGED <<odoo, store>>

\* Mutant: a rebuild adds to the index it should replace.
IndexRecords_NoRebuild(c) ==
  /\ fetched[c] # NothingFetched
  /\ LET k == fetched[c].index
         new == Stored(Index(k), fetched[c].records, OtherDocs(k))
     IN /\ documents' = [documents EXCEPT ![k] = new.documents]
        /\ frequency' = [frequency EXCEPT ![k] = new.frequency]
        /\ length' = [length EXCEPT ![k] = new.length]
        /\ fetched' = [d \in Callers |->
             IF d = c THEN NothingFetched
             ELSE [fetched[d] EXCEPT !.overtaken = @ \/ fetched[d].index = k]]
  /\ odoo' = odoo

\* KnowledgeStore.index_records, under the lock.
IndexRecords(c) ==
  /\ fetched[c] # NothingFetched
  /\ LET k == fetched[c].index
         start == IF fetched[c].replace THEN EmptyIndex ELSE Index(k)
         new == Stored(start, fetched[c].records, OtherDocs(k))
     IN /\ documents' = [documents EXCEPT ![k] = new.documents]
        /\ frequency' = [frequency EXCEPT ![k] = new.frequency]
        /\ length' = [length EXCEPT ![k] = new.length]
        /\ fetched' = [d \in Callers |->
             IF d = c THEN NothingFetched
             ELSE [fetched[d] EXCEPT !.overtaken = @ \/ fetched[d].index = k]]
  /\ odoo' = odoo

\* Somebody changes a record in Odoo.
EditRecord(k, d) ==
  /\ odoo[k][d] < MaxVersion
  /\ odoo' = [odoo EXCEPT ![k][d] = @ + 1]
  /\ UNCHANGED <<store, fetched>>

IndexNext ==
  \/ \E c \in Callers, k \in Indexes, replace \in BOOLEAN, ids \in Slices :
       FetchRecords(c, k, replace, ids)
  \/ \E c \in Callers : IndexRecords(c)
  \/ \E k \in Indexes, d \in Docs : EditRecord(k, d)

IndexSpec == IndexInit /\ [][IndexNext]_indexVars

-----------------------------------------------------------------------------
\* The counters kept incrementally are those of the documents: after any
\* sequence of additions, replacements and rebuilds, a term's frequency is the
\* number of documents with it and the length is that of all of them.
Containing(docs, t) == {d \in Indexed(docs) : t \in Text(d, docs[d])}
Occurrences(docs) == {p \in Docs \X Terms : p[1] \in Containing(docs, p[2])}
CountsMatch(ix) ==
  /\ \A t \in Terms : ix.frequency[t] = Cardinality(Containing(ix.documents, t))
  /\ ix.length = Cardinality(Occurrences(ix.documents))
CountersMatchDocuments == \A k \in Indexes : CountsMatch(Index(k))

\* A search returns documents with a term of the query: all of them, or as many
\* as were asked for, and then leaves out none that has the terms of one returned in
\* no longer a text, and more of them or fewer other words.  It relies on the
\* counters, which are right (BM25Index.add, remove, search).
Matching(k, query) == {d \in Indexed(documents[k]) : Text(d, documents[k][d]) \cap query # {}}
BetterLeftOut(k, query, found) ==
  LET text(d) == Text(d, documents[k][d]) IN
  \E d \in Matching(k, query) \ found, e \in found :
    /\ text(e) \cap query \subseteq text(d) /\ Cardinality(text(d)) <= Cardinality(text(e))
    /\ \/ ~(text(d) \cap query \subseteq text(e))
       \/ Cardinality(text(d)) < Cardinality(text(e))
SearchIsComplete ==
  CountersMatchDocuments /\ \A k \in Indexes, query \in SUBSET Terms, limit \in 1..Cardinality(Docs) :
    LET answers == Search(Index(k), query, limit) IN
    /\ answers # {}
    /\ \A found \in answers :
         /\ found \subseteq Matching(k, query)
         /\ found = Matching(k, query) \/ Cardinality(found) = limit
         /\ ~BetterLeftOut(k, query, found)

\* What a call that stores leaves: after a rebuild nothing but what it fetched, and
\* each record it fetched that has text as it fetched it, if the index held the
\* record, be the budget full or not, or if there is room.
StoresWhatItFetched(c) ==
  LET k == fetched[c].index
      given == ToSet(fetched[c].records)
      isGiven(d) == [id |-> d, version |-> documents'[k][d]] \in given
      room == OtherDocs(k) + Cardinality(Indexed(documents'[k])) < MaxDocs
  IN /\ fetched[c].replace => \A d \in Indexed(documents'[k]) : isGiven(d)
     /\ \A r \in given :
          HasText(r) /\ (room \/ (~fetched[c].replace /\ documents[k][r.id] # Absent)) => isGiven(r.id)

\* Some call on index k stores what it fetched before another one stored.
Overlapped(k) ==
  \E c \in Callers : fetched[c].index = k /\ fetched[c].overtaken /\ fetched'[c] = NothingFetched

\* A call that stores leaves what it fetched, and an index goes back to an older
\* text of a record only when two calls on it overlapped
\* (KnowledgeStore.index_records, fetch_and_index).
IndexesFollowOdoo ==
  [][/\ \A c \in Callers :
          fetched[c] # NothingFetched /\ fetched'[c] = NothingFetched => StoresWhatItFetched(c)
     /\ \A k \in Indexes, d \in Docs :
          documents'[k][d] \in 0..(documents[k][d] - 1) => Overlapped(k)]_indexVars

-----------------------------------------------------------------------------
(* What makes the properties inductive.                                    *)

\* Nothing in the index or fetched is newer than the record is, and a call that
\* nobody overtook brings nothing older than what its index holds.
NothingFromTheFuture ==
  /\ \A k \in Indexes, d \in Docs : documents[k][d] <= odoo[k][d]
  /\ \A c \in Callers : fetched[c] # NothingFetched =>
       \A i \in DOMAIN fetched[c].records :
         LET r == fetched[c].records[i] IN
           /\ r.version <= odoo[fetched[c].index][r.id]
           /\ ~fetched[c].overtaken => documents[fetched[c].index][r.id] <= r.version

IndexInv == IndexTypeOK /\ CountersMatchDocuments /\ NothingFromTheFuture
=============================================================================
