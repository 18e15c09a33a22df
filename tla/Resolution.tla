------------------------------ MODULE Resolution ------------------------------
(***************************************************************************)
(* The exact-identifier resolution of construction/resolution.py, for the  *)
(* entities of one kind.  Each kind has one identifier field (line 6), so  *)
(* an identifier is a value and components never join two kinds.           *)
(*                                                                         *)
(* A row stands for an entity record and its attribute observation: the    *)
(* source entity it was parsed from, the canonical id it is stored under,  *)
(* and its identifier or NoValue.  A parsed batch has id = source; the     *)
(* resolved batch replaces ids only.  Ids are numbers: the code takes the  *)
(* least of a set of strings.                                              *)
(***************************************************************************)
EXTENDS Naturals, FiniteSets, FiniteSetsExt

CONSTANT NoValue   \* the observation carries no identifier

\* A parsed record of entity e with identifier v.
Record(e, v) == [source |-> e, id |-> e, value |-> v]

Ids(rows) == {r.id : r \in rows}

\* A finite set of rows with numbers for ids, as batches and exports are.
IsRows(rows) ==
  /\ IsFiniteSet(rows)
  /\ \A r \in rows : r.id \in Nat /\ r = [source |-> r.source, id |-> r.id, value |-> r.value]

\* index.values(): for every identifier, the ids that carry it.
Index(rows) ==
  LET values == {r.value : r \in rows} \ {NoValue}
  IN  {{r.id : r \in {x \in rows : x.value = v}} : v \in values}

\* Faulty variant of Candidates: no transitive expansion.
CandidatesOneHop(rows, e) == {e} \cup UNION {ids \in Index(rows) : e \in ids}

\* One pass over the index: every member that meets c is absorbed.
Widen(rows, c) == c \cup UNION {ids \in Index(rows) : ids \cap c # {}}

\* The candidates after n passes, from the members of the index that hold e.
Passes(rows, e) ==
  LET pass[n \in 0..Cardinality(Index(rows))] ==
        IF n = 0 THEN Widen(rows, {e}) ELSE Widen(rows, pass[n - 1])
  IN  pass

\* Transitive expansion: every pass that changes the set absorbs a further
\* member of the index, so Cardinality(Index) passes reach the fixpoint.
Candidates(rows, e) == Passes(rows, e)[Cardinality(Index(rows))]

\* Faulty variant of Conflicting: identifiers are not compared.
ConflictingNever(rows, ids) == FALSE

\* The candidates carry more than one identifier.
Conflicting(rows, ids) ==
  Cardinality({r.value : r \in {x \in rows : x.id \in ids}} \ {NoValue}) > 1

\* Faulty variant of Canonical: an established identity is not taken over.
CanonicalKeepsOwn(rows, old, e) ==
  LET ids == Candidates(rows, e)
      established == ids \cap old
  IN  IF Conflicting(rows, ids) \/ established # {} THEN e ELSE Min(ids)

\* The id an entity of the batch is stored under; old: the graph's entities.
Canonical(rows, old, e) ==
  LET ids == Candidates(rows, e)
      established == ids \cap old
  IN  CASE Conflicting(rows, ids) \/ Cardinality(established) > 1 -> e
        [] OTHER -> Min(IF established = {} THEN ids ELSE established)

\* resolve_identifiers(batch, existing).
Resolve(parsed, existing) ==
  {[r EXCEPT !.id = Canonical(existing \cup parsed, Ids(existing), r.id)] : r \in parsed}

-----------------------------------------------------------------------------
\* Reference definitions, for the checks.

\* Two ids are linked when they are in every set that holds one of them and
\* splits no identifier.
Component(rows, e) ==
  LET closed == {S \in SUBSET (Ids(rows) \cup {e}) :
                   e \in S /\ \A ids \in Index(rows) : ids \cap S = {} \/ ids \subseteq S}
  IN  {x \in Ids(rows) \cup {e} : \A S \in closed : x \in S}

\* Rows that were merged into one canonical id name one identifier.
MergedConsistent(rows) ==
  LET merged == {r \in rows : r.id # r.source /\ r.value # NoValue}
  IN  \A r, s \in merged : r.id = s.id => r.value = s.value
=============================================================================
