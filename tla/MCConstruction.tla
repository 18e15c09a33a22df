---------------------------- MODULE MCConstruction ----------------------------
(* Small instances of Construction: sources over a handful of entities. *)
EXTENDS Construction, TLC

CONSTANTS t1, t2, t3, o1, o2, o3

\* 1, 2 and 3 are one person, o1.  The sources disagree on 5: t1 says o2, t3
\* says o3; t2 omits its identifier and links 6 and 7 to both.
Mixed == (t1 :> {Record(2, o1), Record(3, o1), Record(5, o2)})
      @@ (t2 :> {Record(1, o1), Record(5, NoValue), Record(6, o2)})
      @@ (t3 :> {Record(3, o1), Record(5, o3), Record(7, o3)})

\* A seed batch about an unrelated entity.
Unrelated == {{Record(9, NoValue)}}

Empty == {}

TwoSources == (t1 :> {Record(2, o1)}) @@ (t2 :> {Record(1, o1)})

\* The seed is what the theorems on agreement assume of a namespace.
ASSUME StartsConsistent == SeedConsistent
=============================================================================
