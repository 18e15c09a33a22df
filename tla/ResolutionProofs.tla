--------------------------- MODULE ResolutionProofs ---------------------------
(***************************************************************************)
(* What the exact-identifier resolution computes, for every finite set of  *)
(* rows: the expansion loop ends with the connected component of the       *)
(* entity, a resolved batch is stable under its own commit, rows that are  *)
(* merged agree, and an identifier without contradiction keeps one id.     *)
(*                                                                         *)
(* Induction is used in the form of SetInduction: what holds of the passes *)
(* of the loop is proved of the set of numbers it holds for.               *)
(***************************************************************************)
EXTENDS Resolution, FiniteSetTheorems, WellFoundedInduction, TLAPS

\* A set of natural numbers that is not empty has a least element.
LEMMA LeastOf ==
  ASSUME NEW T, T \subseteq Nat, T # {}
  PROVE  \E n \in T : \A m \in T : n <= m
<1>1. \E x \in T : \A y \in T : ~ (<<y, x>> \in OpToRel(<, Nat))
  BY NatLessThanWellFounded, WFMin
<1>2. PICK x \in T : \A y \in T : ~ (<<y, x>> \in OpToRel(<, Nat))
  BY <1>1
<1>3. ASSUME NEW y \in T PROVE x <= y
  <2>1. ~ (<<y, x>> \in OpToRel(<, Nat))
    BY <1>2, <1>3
  <2>2. ~(y < x)
    BY <2>1, Zenon DEF OpToRel
  <2> QED
    BY <2>2
<1> QED
  BY <1>3
  
\* Induction over the natural numbers, for a set in place of a predicate: the
\* library's theorem takes an operator, which the provers cannot instantiate.
LEMMA SetInduction ==
  ASSUME NEW T, 0 \in T, \A n \in Nat : n \in T => n + 1 \in T
  PROVE  Nat \subseteq T
<1> SUFFICES ASSUME Nat \ T # {} PROVE FALSE
  OBVIOUS
<1>1. PICK n \in Nat \ T : \A m \in Nat \ T : n <= m
  BY LeastOf
<1>2. n # 0 /\ n - 1 \in Nat /\ n - 1 \notin Nat \ T
  BY <1>1
<1> QED
  BY <1>1, <1>2

\* The range of a function on a finite set is finite.
LEMMA FiniteImage ==
  ASSUME NEW S, IsFiniteSet(S), NEW f, DOMAIN f = S, f = [x \in S |-> f[x]]
  PROVE  IsFiniteSet({f[x] : x \in S})
<1> DEFINE T == {f[x] : x \in S}
<1>1. f \in Surjection(S, T)
  BY DEF Surjection
<1> QED
  BY <1>1, FS_Surjection

\* At most one element, said with and without Cardinality.
LEMMA AtMostOne ==
  ASSUME NEW S, IsFiniteSet(S)
  PROVE  Cardinality(S) <= 1 <=> \A x, y \in S : x = y
<1>1. Cardinality(S) \in Nat
  BY FS_CardinalityType
<1>2. CASE S = {}
  BY <1>2, FS_EmptySet
<1>3. ASSUME NEW x \in S PROVE Cardinality(S) <= 1 <=> \A y, z \in S : y = z
  <2>1. Cardinality(S) # 0
    BY <1>3, FS_EmptySet
  <2>2. Cardinality(S) = 1 <=> \E y : S = {y}
    BY FS_Singleton
  <2>3. (\E y : S = {y}) <=> \A y, z \in S : y = z
    BY <1>3
  <2> QED
    BY <1>1, <2>1, <2>2, <2>3
<1> QED
  BY <1>2, <1>3

\* Min of a set of numbers that is not empty is its least member.
LEMMA MinOf ==
  ASSUME NEW S, S \subseteq Nat, S # {}
  PROVE  /\ Min(S) \in S
         /\ \A x \in S : Min(S) <= x
<1>1. \E n \in S : \A m \in S : n <= m
  BY LeastOf
<1> QED
  BY <1>1 DEF Min

\* Finitely many rows carry finitely many identifiers.
LEMMA IndexFinite ==
  ASSUME NEW rows, IsFiniteSet(rows) PROVE IsFiniteSet(Index(rows))
<1> DEFINE values == {r.value : r \in rows}
           V == values \ {NoValue}
           ids(v) == {r.id : r \in {x \in rows : x.value = v}}
<1>1. IsFiniteSet(values)
  <2> DEFINE f == [r \in rows |-> r.value]
  <2>1. IsFiniteSet({f[r] : r \in rows})
    BY FiniteImage
  <2> QED
    BY <2>1
<1>2. IsFiniteSet(V)
  BY <1>1, FS_Subset
<1>3. IsFiniteSet({ids(v) : v \in V})
  <2> DEFINE g == [v \in V |-> ids(v)]
  <2>1. IsFiniteSet({g[v] : v \in V})
    <3>1. DOMAIN g = V /\ g = [v \in V |-> g[v]]
      OBVIOUS
    <3> HIDE DEF V, g
    <3> QED
      BY <1>2, <3>1, FiniteImage
  <2> QED
    BY <2>1
<1> QED
  BY <1>3 DEF Index

-----------------------------------------------------------------------------
\* pass is the sequence of the first k + 1 passes of the loop.
ArePasses(rows, e, k, pass) ==
  pass = [n \in 0..k |-> IF n = 0 THEN Widen(rows, {e}) ELSE Widen(rows, pass[n - 1])]

\* The passes of the loop exist, for any number of them.
LEMMA PassesExist ==
  ASSUME NEW rows, NEW e, NEW K \in Nat
  PROVE  \E pass : ArePasses(rows, e, K, pass)
<1> DEFINE T == {k \in Nat : \E pass : ArePasses(rows, e, k, pass)}
<1>1. 0 \in T
  <2> DEFINE p == [n \in 0..0 |-> Widen(rows, {e})]
  <2>1. ArePasses(rows, e, 0, p)
    BY DEF ArePasses
  <2> QED
    BY <2>1
<1>2. ASSUME NEW k \in Nat, k \in T PROVE k + 1 \in T
  <2>1. PICK p : ArePasses(rows, e, k, p)
    BY <1>2
  <2> DEFINE q == [n \in 0..(k + 1) |-> IF n = k + 1 THEN Widen(rows, p[k]) ELSE p[n]]
  <2>2. ASSUME NEW n \in 0..(k + 1)
        PROVE  q[n] = IF n = 0 THEN Widen(rows, {e}) ELSE Widen(rows, q[n - 1])
    <3>1. CASE n = k + 1
      <4>1. n # 0 /\ n - 1 = k /\ k \in 0..(k + 1) /\ k # k + 1
        BY <3>1
      <4> QED
        BY <3>1, <4>1
    <3>2. CASE n # k + 1
      <4>1. n \in 0..k /\ (n # 0 => n - 1 \in 0..k /\ n - 1 \in 0..(k + 1) /\ n - 1 # k + 1)
        BY <3>2
      <4>2. p[n] = IF n = 0 THEN Widen(rows, {e}) ELSE Widen(rows, p[n - 1])
        BY <2>1, <4>1 DEF ArePasses
      <4>3. q[n] = p[n] /\ (n # 0 => q[n - 1] = p[n - 1])
        BY <3>2, <4>1
      <4> QED
        BY <4>2, <4>3
    <3> QED
      BY <3>1, <3>2
  <2>3. q = [n \in 0..(k + 1) |-> q[n]]
    OBVIOUS
  <2>4. ArePasses(rows, e, k + 1, q)
    <3> HIDE DEF q
    <3> QED
      BY <2>2, <2>3 DEF ArePasses
  <2> QED
    <3> HIDE DEF q
    <3> QED
      BY <2>4
<1>3. Nat \subseteq T
  <2> HIDE DEF T
  <2> QED
    BY <1>1, <1>2, SetInduction
<1> QED
  BY <1>3

\* Passes does what its recursive definition says.
Passing(rows, e, K, pass) ==
  /\ K \in Nat
  /\ pass[0] = Widen(rows, {e})
  /\ \A n \in 1..K : pass[n] = Widen(rows, pass[n - 1])

LEMMA PassesIs ==
  ASSUME NEW rows, NEW e, IsFiniteSet(rows)
  PROVE  Passing(rows, e, Cardinality(Index(rows)), Passes(rows, e))
<1> DEFINE K == Cardinality(Index(rows))
           pass == Passes(rows, e)
<1>1. K \in Nat
  BY IndexFinite, FS_CardinalityType
<1>2. ArePasses(rows, e, K, pass)
  <2>1. pass = CHOOSE p : ArePasses(rows, e, K, p)
    BY Zenon DEF Passes, ArePasses
  <2>2. \E p : ArePasses(rows, e, K, p)
    BY <1>1, PassesExist
  <2> HIDE DEF pass, K
  <2> QED
    BY <2>1, <2>2, Zenon
<1> HIDE DEF pass, K
<1>3. 0 \in 0..K /\ \A n \in 1..K : n \in 0..K /\ n # 0
  BY <1>1
<1>4. pass[0] = Widen(rows, {e}) /\ \A n \in 1..K : pass[n] = Widen(rows, pass[n - 1])
  BY <1>2, <1>3 DEF ArePasses
<1> QED
  BY <1>1, <1>4 DEF pass, K, Passing

Closed(rows, S) == \A ids \in Index(rows) : ids \cap S = {} \/ ids \subseteq S

\* The members of the index a set has absorbed.
Absorbed(rows, c) == {ids \in Index(rows) : ids \subseteq c}

\* A pass adds to the set; a set it does not change is closed; it leaves no
\* closed set that holds its argument.
LEMMA WidenFacts ==
  ASSUME NEW rows, NEW c
  PROVE  /\ c \subseteq Widen(rows, c)
         /\ Widen(rows, c) = c => Closed(rows, c)
         /\ \A S : c \subseteq S /\ Closed(rows, S) => Widen(rows, c) \subseteq S
<1>1. ASSUME Widen(rows, c) = c, NEW ids \in Index(rows), ids \cap c # {} PROVE ids \subseteq c
  BY <1>1 DEF Widen
<1>2. ASSUME NEW S, c \subseteq S, Closed(rows, S) PROVE Widen(rows, c) \subseteq S
  <2>1. ASSUME NEW ids \in Index(rows), ids \cap c # {} PROVE ids \subseteq S
    BY <1>2, <2>1 DEF Closed
  <2> QED
    BY <1>2, <2>1 DEF Widen
<1> QED
  BY <1>1, <1>2 DEF Closed, Widen

\* A pass that changes the set absorbs a further member of the index.
LEMMA Progress ==
  ASSUME NEW rows, IsFiniteSet(rows), NEW c, Widen(rows, c) # c
  PROVE  Cardinality(Absorbed(rows, Widen(rows, c))) >= Cardinality(Absorbed(rows, c)) + 1
<1> DEFINE d == Widen(rows, c)
<1>1. IsFiniteSet(Absorbed(rows, d)) /\ IsFiniteSet(Absorbed(rows, c))
  BY IndexFinite, FS_Subset DEF Absorbed
<1>2. PICK ids \in Index(rows) : ids \cap c # {} /\ ~(ids \subseteq c)
  BY DEF Widen
<1>3. ids \subseteq d /\ c \subseteq d
  BY <1>2 DEF Widen
<1>4. ids \notin Absorbed(rows, c) /\ Absorbed(rows, c) \cup {ids} \subseteq Absorbed(rows, d)
  BY <1>2, <1>3 DEF Absorbed
<1>5. /\ Cardinality(Absorbed(rows, c) \cup {ids}) = Cardinality(Absorbed(rows, c)) + 1
      /\ Cardinality(Absorbed(rows, c) \cup {ids}) <= Cardinality(Absorbed(rows, d))
  BY <1>1, <1>4, FS_AddElement, FS_Subset
<1>6. /\ Cardinality(Absorbed(rows, c)) \in Nat
      /\ Cardinality(Absorbed(rows, d)) \in Nat
  BY <1>1, FS_CardinalityType
<1> QED
  BY <1>5, <1>6

\* After Cardinality(Index) passes a further pass changes nothing.
LEMMA Fixpoint ==
  ASSUME NEW rows, NEW e, IsFiniteSet(rows)
  PROVE  Widen(rows, Candidates(rows, e)) = Candidates(rows, e)
<1> DEFINE K == Cardinality(Index(rows))
           pass == Passes(rows, e)
           Stable(n) == Widen(rows, pass[n]) = pass[n]
           T == {n \in Nat : n <= K =>
                   Stable(n) \/ Cardinality(Absorbed(rows, pass[n])) >= n + 1}
<1>0. Passing(rows, e, K, pass)
  BY PassesIs
<1>1. \A c : IsFiniteSet(Absorbed(rows, c)) /\ Cardinality(Absorbed(rows, c)) \in 0..K
  <2>1. \A c : IsFiniteSet(Absorbed(rows, c)) /\ Cardinality(Absorbed(rows, c)) \in Nat
               /\ Cardinality(Absorbed(rows, c)) <= K
    BY IndexFinite, FS_Subset, FS_CardinalityType DEF Absorbed
  <2> QED
    BY <2>1, <1>0
<1> HIDE DEF K, pass
<1> USE DEF Passing
<1>2. 0 \in T
  <2>1. CASE Widen(rows, {e}) = {e}
    BY <1>0, <2>1
  <2>2. CASE Widen(rows, {e}) # {e}
    <3>1. Cardinality(Absorbed(rows, pass[0])) >= Cardinality(Absorbed(rows, {e})) + 1
      BY <2>2, <1>0, Progress
    <3> QED
      BY <1>1, <3>1
  <2> QED
    BY <2>1, <2>2
<1>3. ASSUME NEW n \in Nat, n \in T PROVE n + 1 \in T
  <2> SUFFICES ASSUME n + 1 <= K
               PROVE  Stable(n + 1) \/ Cardinality(Absorbed(rows, pass[n + 1])) >= n + 2
    OBVIOUS
  <2>1. n + 1 \in 1..K /\ (n + 1) - 1 = n /\ n <= K
    BY <1>0
  <2>2. pass[n + 1] = Widen(rows, pass[n])
    BY <1>0, <2>1
  <2>3. CASE Stable(n)
    BY <2>2, <2>3
  <2>4. CASE ~Stable(n)
    <3>1. Cardinality(Absorbed(rows, pass[n])) >= n + 1
      BY <1>3, <2>1, <2>4
    <3>2. Cardinality(Absorbed(rows, pass[n + 1])) >= Cardinality(Absorbed(rows, pass[n])) + 1
      BY <2>2, <2>4, Progress
    <3> QED
      BY <1>1, <3>1, <3>2
  <2> QED
    BY <2>3, <2>4
<1>4. K \in T
  <2> HIDE DEF T
  <2> QED
    BY <1>0, <1>2, <1>3, SetInduction
<1>5. Stable(K)
  BY <1>0, <1>1, <1>4
<1> QED
  BY <1>5 DEF Candidates, K, pass

\* Every pass stays inside each closed set that holds e.
LEMMA PassesWithin ==
  ASSUME NEW rows, NEW e, IsFiniteSet(rows), NEW S, e \in S, Closed(rows, S)
  PROVE  e \in Candidates(rows, e) /\ Candidates(rows, e) \subseteq S
<1> DEFINE K == Cardinality(Index(rows))
           pass == Passes(rows, e)
           T == {n \in Nat : n <= K => e \in pass[n] /\ pass[n] \subseteq S}
<1>0. Passing(rows, e, K, pass)
  BY PassesIs
<1> HIDE DEF K, pass
<1> USE DEF Passing
<1>1. 0 \in T
  BY <1>0, WidenFacts
<1>2. ASSUME NEW n \in Nat, n \in T PROVE n + 1 \in T
  <2> SUFFICES ASSUME n + 1 <= K PROVE e \in pass[n + 1] /\ pass[n + 1] \subseteq S
    OBVIOUS
  <2>1. n + 1 \in 1..K /\ (n + 1) - 1 = n /\ n <= K
    BY <1>0
  <2>2. pass[n + 1] = Widen(rows, pass[n]) /\ e \in pass[n] /\ pass[n] \subseteq S
    BY <1>0, <1>2, <2>1
  <2> QED
    BY <2>2, WidenFacts
<1>3. K \in T
  <2> HIDE DEF T
  <2> QED
    BY <1>0, <1>1, <1>2, SetInduction
<1> QED
  BY <1>0, <1>3 DEF Candidates, K, pass

\* The expansion loop of resolution.py:34-40 ends with the connected component
\* of the entity in the identifier index, for every finite set of rows.
THEOREM CandidatesAreComponent ==
  ASSUME NEW rows, NEW e, IsFiniteSet(rows)
  PROVE  Candidates(rows, e) = Component(rows, e)
<1> DEFINE c == Candidates(rows, e)
           all == Ids(rows) \cup {e}
<1>1. Closed(rows, all)
  BY DEF Closed, Index, Ids
<1>2. c \subseteq all /\ e \in c
  BY <1>1, PassesWithin
<1>3. Closed(rows, c)
  BY Fixpoint, WidenFacts
<1>4. \A S : e \in S /\ Closed(rows, S) => c \subseteq S
  BY PassesWithin
<1> HIDE DEF c
<1> QED
  BY <1>2, <1>3, <1>4 DEF Component, Closed, c

\* Closed, said of the rows.
LEMMA ClosedByRows ==
  ASSUME NEW rows, NEW S
  PROVE  Closed(rows, S) <=>
           \A r, s \in rows : r.value = s.value /\ r.value # NoValue /\ r.id \in S => s.id \in S
<1>1. ASSUME Closed(rows, S), NEW r \in rows, NEW s \in rows,
             r.value = s.value, r.value # NoValue, r.id \in S
      PROVE  s.id \in S
  <2> DEFINE ids == {t.id : t \in {x \in rows : x.value = r.value}}
  <2>1. ids \in Index(rows)
    BY <1>1 DEF Index
  <2>2. r.id \in ids /\ s.id \in ids
    BY <1>1
  <2> QED
    BY <1>1, <2>1, <2>2 DEF Closed
<1>2. ASSUME \A r, s \in rows : r.value = s.value /\ r.value # NoValue /\ r.id \in S => s.id \in S
      PROVE  Closed(rows, S)
  BY <1>2 DEF Closed, Index
<1> QED
  BY <1>1, <1>2

\* Candidates is the least closed set that holds the entity.
LEMMA CandidatesLeast ==
  ASSUME NEW rows, NEW e, IsFiniteSet(rows)
  PROVE  /\ e \in Candidates(rows, e)
         /\ Candidates(rows, e) \subseteq Ids(rows) \cup {e}
         /\ Closed(rows, Candidates(rows, e))
         /\ \A S : e \in S /\ Closed(rows, S) => Candidates(rows, e) \subseteq S
<1>1. Closed(rows, Ids(rows) \cup {e})
  BY DEF Closed, Index, Ids
<1> QED
  BY <1>1, PassesWithin, Fixpoint, WidenFacts

\* Candidates are the same for all entities among them.
LEMMA SameCandidates ==
  ASSUME NEW rows, NEW e, IsFiniteSet(rows), NEW x \in Candidates(rows, e)
  PROVE  Candidates(rows, x) = Candidates(rows, e)
<1> DEFINE c == Candidates(rows, e)
           d == Candidates(rows, x)
<1>1. e \in c /\ Closed(rows, c) /\ \A S : e \in S /\ Closed(rows, S) => c \subseteq S
  BY CandidatesLeast
<1>2. x \in d /\ Closed(rows, d) /\ \A S : x \in S /\ Closed(rows, S) => d \subseteq S
  BY CandidatesLeast
<1> HIDE DEF d
<1>3. d \subseteq c
  BY <1>1, <1>2
<1>4. Closed(rows, c \ d)
  <2> SUFFICES ASSUME NEW ids \in Index(rows), ids \cap (c \ d) # {}
               PROVE  ids \subseteq c \ d
    BY DEF Closed
  <2>1. ids \subseteq c
    BY <1>1 DEF Closed
  <2>2. ids \cap d = {} \/ ids \subseteq d
    BY <1>2 DEF Closed
  <2> QED
    BY <2>1, <2>2
<1>5. e \in d
  BY <1>1, <1>2, <1>4
<1> QED
  BY <1>1, <1>2, <1>3, <1>5 DEF d

\* Conflicting, said of two rows.
LEMMA ConflictingMeans ==
  ASSUME NEW rows, IsFiniteSet(rows), NEW ids
  PROVE  Conflicting(rows, ids) <=>
           \E r, s \in rows : /\ r.id \in ids /\ s.id \in ids
                              /\ r.value # NoValue /\ s.value # NoValue /\ r.value # s.value
<1> DEFINE V == {r.value : r \in {x \in rows : x.id \in ids}} \ {NoValue}
<1>1. IsFiniteSet(V)
  <2> DEFINE f == [r \in rows |-> r.value]
  <2>1. IsFiniteSet({f[r] : r \in rows})
    BY FiniteImage
  <2>2. V \subseteq {f[r] : r \in rows}
    OBVIOUS
  <2> QED
    BY <2>1, <2>2, FS_Subset
<1>2. Cardinality(V) \in Nat /\ (Cardinality(V) <= 1 <=> \A x, y \in V : x = y)
  <2> HIDE DEF V
  <2> QED
    BY <1>1, FS_CardinalityType, AtMostOne
<1>3. Conflicting(rows, ids) <=> ~(\A x, y \in V : x = y)
  <2>1. Conflicting(rows, ids) <=> Cardinality(V) > 1
    BY DEF Conflicting
  <2> HIDE DEF V
  <2> QED
    BY <1>2, <2>1
<1> QED
  BY <1>3

\* target is what an entity with the candidates c resolves to: itself on a conflict
\* or between two established ids, else the established id, else the least.
ResolvesTo(rows, old, c, e, target) ==
  /\ Conflicting(rows, c) => target = e
  /\ \A x, y \in c \cap old : x # y => target = e
  /\ ~Conflicting(rows, c) /\ c \cap old = {} => target = Min(c)
  /\ \A x \in c \cap old :
       ~Conflicting(rows, c) /\ (\A y \in c \cap old : x = y) => target = x

\* Canonical follows the rule of ResolvesTo.
LEMMA CanonicalCases ==
  ASSUME NEW rows, IsRows(rows), NEW old, NEW e \in Nat
  PROVE  ResolvesTo(rows, old, Candidates(rows, e), e, Canonical(rows, old, e))
<1> DEFINE c == Candidates(rows, e)
           est == c \cap old
<1>1. c \subseteq Nat /\ IsFiniteSet(c)
  <2>1. c \subseteq Ids(rows) \cup {e}
    BY CandidatesLeast DEF IsRows
  <2>2. IsFiniteSet(Ids(rows))
    <3> DEFINE f == [r \in rows |-> r.id]
    <3>1. IsFiniteSet(rows)
      BY DEF IsRows
    <3>2. IsFiniteSet({f[r] : r \in rows})
      BY <3>1, FiniteImage
    <3> QED
      BY <3>2 DEF Ids
  <2>3. IsFiniteSet(Ids(rows) \cup {e})
    BY <2>2, FS_AddElement
  <2> QED
    BY <2>1, <2>3, FS_Subset DEF IsRows, Ids
<1>2. IsFiniteSet(est)
  BY <1>1, FS_Subset
<1>3. /\ Cardinality(est) \in Nat
      /\ Cardinality(est) > 1 <=> ~(\A x, y \in est : x = y)
  <2> HIDE DEF est
  <2> QED
    BY <1>2, FS_CardinalityType, AtMostOne
<1>4. Canonical(rows, old, e) = CASE Conflicting(rows, c) \/ Cardinality(est) > 1 -> e
                                  [] OTHER -> Min(IF est = {} THEN c ELSE est)
  BY DEF Canonical
<1> HIDE DEF est, c
<1>5. Conflicting(rows, c) => Canonical(rows, old, e) = e
  BY <1>4, Zenon
<1>6. ASSUME NEW x \in est, NEW y \in est, x # y PROVE Canonical(rows, old, e) = e
  <2>1. Cardinality(est) > 1
    BY <1>3, <1>6
  <2> QED
    BY <1>4, <2>1, Zenon
<1>7. ASSUME ~Conflicting(rows, c), \A x, y \in est : x = y
      PROVE  Canonical(rows, old, e) = Min(IF est = {} THEN c ELSE est)
  <2>1. ~(Cardinality(est) > 1)
    BY <1>3, <1>7
  <2> QED
    BY <1>4, <1>7, <2>1, Zenon
<1>8. ASSUME NEW x \in est, est = {x} PROVE Min(est) = x
  BY <1>1, <1>8, MinOf DEF est
<1>9. ASSUME NEW x \in est, ~Conflicting(rows, c), \A y \in est : x = y
      PROVE  Canonical(rows, old, e) = x
  <2>1. est = {x} /\ est # {}
    BY <1>9
  <2> QED
    BY <1>7, <1>8, <1>9, <2>1
<1>10. ASSUME est = {}, ~Conflicting(rows, c) PROVE Canonical(rows, old, e) = Min(c)
  BY <1>7, <1>10
<1> QED
  BY <1>5, <1>6, <1>9, <1>10 DEF est, c, ResolvesTo

\* Candidates are ids.
LEMMA CandidatesNat ==
  ASSUME NEW rows, IsRows(rows), NEW e \in Nat PROVE Candidates(rows, e) \subseteq Nat
  BY CandidatesLeast DEF IsRows, Ids

\* An entity is stored under one of its candidates.
LEMMA CanonicalIn ==
  ASSUME NEW rows, IsRows(rows), NEW old, NEW e \in Nat
  PROVE  Canonical(rows, old, e) \in Candidates(rows, e)
<1> DEFINE c == Candidates(rows, e)
<1>1. e \in c /\ c \subseteq Nat
  BY CandidatesLeast, CandidatesNat DEF IsRows
<1>2. Min(c) \in c
  BY <1>1, MinOf
<1>3. ResolvesTo(rows, old, c, e, Canonical(rows, old, e))
  BY CanonicalCases
<1> HIDE DEF c
<1> QED
  BY <1>1, <1>2, <1>3 DEF c, ResolvesTo

\* Existing and parsed rows together are rows.
LEMMA RowsUnion ==
  ASSUME NEW A, IsRows(A), NEW B, IsRows(B) PROVE IsRows(A \cup B)
  BY FS_Union DEF IsRows

\* The row of p once its entity is stored under x.
Moved(p, x) == [source |-> p.source, id |-> x, value |-> p.value]

\* The rows of a resolved batch: the parsed rows under their canonical ids.
LEMMA ResolveRows ==
  ASSUME NEW P, IsRows(P), NEW E, IsRows(E)
  PROVE  /\ Resolve(P, E) = {Moved(p, Canonical(E \cup P, Ids(E), p.id)) : p \in P}
         /\ IsRows(Resolve(P, E))
<1>1. ASSUME NEW p \in P, NEW x PROVE [p EXCEPT !.id = x] = Moved(p, x)
  <2>1. p = [source |-> p.source, id |-> p.id, value |-> p.value]
    BY DEF IsRows
  <2> QED
    BY <2>1 DEF Moved
<1>2. Resolve(P, E) = {Moved(p, Canonical(E \cup P, Ids(E), p.id)) : p \in P}
  BY <1>1 DEF Resolve
<1>3. ASSUME NEW p \in P PROVE Canonical(E \cup P, Ids(E), p.id) \in Nat
  <2>1. p.id \in Nat /\ IsRows(E \cup P)
    BY RowsUnion DEF IsRows
  <2> QED
    BY <2>1, CanonicalIn, CandidatesNat
<1>4. ASSUME NEW q \in Resolve(P, E)
      PROVE  q.id \in Nat /\ q = [source |-> q.source, id |-> q.id, value |-> q.value]
  <2>1. PICK p \in P : q = Moved(p, Canonical(E \cup P, Ids(E), p.id))
    BY <1>2
  <2> QED
    BY <1>3, <2>1 DEF Moved
<1>5. IsFiniteSet(Resolve(P, E))
  <2> DEFINE f == [p \in P |-> Moved(p, Canonical(E \cup P, Ids(E), p.id))]
  <2>1. IsFiniteSet(P)
    BY DEF IsRows
  <2>2. IsFiniteSet({f[p] : p \in P})
    BY <2>1, FiniteImage
  <2> QED
    BY <1>2, <2>2
<1> QED
  BY <1>2, <1>4, <1>5 DEF IsRows

\* q is the resolved row of p, and lies with it: same identifier, same candidates.
ComesFrom(q, p, P, E) ==
  /\ q.source = p.source /\ q.value = p.value
  /\ q.id = Canonical(E \cup P, Ids(E), p.id)
  /\ q.id \in Candidates(E \cup P, p.id)
  /\ Candidates(E \cup P, q.id) = Candidates(E \cup P, p.id)

LEMMA ResolvedFrom ==
  ASSUME NEW P, IsRows(P), NEW E, IsRows(E), NEW q \in Resolve(P, E)
  PROVE  \E p \in P : ComesFrom(q, p, P, E)
<1>1. PICK p \in P : q = Moved(p, Canonical(E \cup P, Ids(E), p.id))
  <2>1. Resolve(P, E) = {Moved(p, Canonical(E \cup P, Ids(E), p.id)) : p \in P}
    BY ResolveRows
  <2> QED
    BY <2>1
<1>2. IsRows(E \cup P) /\ IsFiniteSet(E \cup P) /\ p.id \in Nat
  BY RowsUnion DEF IsRows
<1>3. Canonical(E \cup P, Ids(E), p.id) \in Candidates(E \cup P, p.id)
  BY <1>2, CanonicalIn
<1> QED
  BY <1>1, <1>2, <1>3, SameCandidates DEF Moved, ComesFrom

-----------------------------------------------------------------------------
\* The rows of the committed batch join no two components.
LEMMA RepeatCandidates ==
  ASSUME NEW P, IsRows(P), NEW E, IsRows(E), NEW e
  PROVE  Candidates((E \cup Resolve(P, E)) \cup P, e) = Candidates(E \cup P, e)
<1> DEFINE rows == E \cup P
           b == Resolve(P, E)
           more == (E \cup b) \cup P
           c == Candidates(rows, e)
           d == Candidates(more, e)
<1>1. IsRows(rows) /\ IsRows(more) /\ IsFiniteSet(rows) /\ IsFiniteSet(more)
  BY ResolveRows, RowsUnion DEF IsRows
<1>2. e \in c /\ Closed(rows, c) /\ \A S : e \in S /\ Closed(rows, S) => c \subseteq S
  BY <1>1, CandidatesLeast
<1>3. e \in d /\ Closed(more, d) /\ \A S : e \in S /\ Closed(more, S) => d \subseteq S
  BY <1>1, CandidatesLeast
<1>4. \A q \in b : \E p \in P : ComesFrom(q, p, P, E)
  BY ResolvedFrom
<1>5. Closed(rows, d)
  <2>1. \A r, s \in more : r.value = s.value /\ r.value # NoValue /\ r.id \in d => s.id \in d
    BY <1>3, ClosedByRows
  <2> QED
    BY <2>1, ClosedByRows
<1>6. Closed(more, c)
  <2> SUFFICES ASSUME NEW r \in more, NEW s \in more,
                      r.value = s.value, r.value # NoValue, r.id \in c
               PROVE  s.id \in c
    BY ClosedByRows
  <2>1. \A x \in c : Candidates(rows, x) = c
    BY <1>1, SameCandidates
  <2>2. \A x : x \in Candidates(rows, x)
    BY <1>1, CandidatesLeast
  <2>3. \A t \in more : \E u \in rows : /\ t.value = u.value
                                        /\ Candidates(rows, t.id) = Candidates(rows, u.id)
    BY <1>4 DEF ComesFrom
  <2>4. PICK u \in rows : u.value = r.value /\ Candidates(rows, r.id) = Candidates(rows, u.id)
    BY <2>3
  <2>5. PICK v \in rows : v.value = s.value /\ Candidates(rows, s.id) = Candidates(rows, v.id)
    BY <2>3
  <2>6. u.id \in c
    <3>1. Candidates(rows, r.id) = c
      BY <2>1
    <3> QED
      BY <2>2, <2>4, <3>1
  <2>7. v.id \in c
    <3>1. u.value = v.value /\ u.value # NoValue
      BY <2>4, <2>5
    <3> QED
      BY <1>2, <2>6, <3>1, ClosedByRows
  <2> QED
    <3>1. Candidates(rows, v.id) = c
      BY <2>1, <2>7
    <3> QED
      BY <2>2, <2>5, <3>1
<1> HIDE DEF rows, more, c, d
<1>7. c = d
  BY <1>2, <1>3, <1>5, <1>6
<1> QED
  BY <1>7 DEF rows, more, c, d

\* ... nor do they add an identifier to one.
LEMMA RepeatConflicting ==
  ASSUME NEW P, IsRows(P), NEW E, IsRows(E), NEW e
  PROVE  LET c == Candidates(E \cup P, e) IN
         Conflicting((E \cup Resolve(P, E)) \cup P, c) <=> Conflicting(E \cup P, c)
<1> DEFINE rows == E \cup P
           b == Resolve(P, E)
           more == (E \cup b) \cup P
           c == Candidates(rows, e)
<1>1. IsFiniteSet(rows) /\ IsFiniteSet(more)
  BY ResolveRows, RowsUnion DEF IsRows
<1>2. ASSUME NEW q \in more, q.id \in c
      PROVE  \E p \in rows : p.value = q.value /\ p.id \in c
  <2>1. CASE q \in rows
    BY <1>2, <2>1
  <2>2. CASE q \in b
    <3>1. PICK p \in P : ComesFrom(q, p, P, E)
      BY <2>2, ResolvedFrom
    <3>2. Candidates(rows, q.id) = c /\ p.id \in Candidates(rows, p.id)
      BY <1>1, <1>2, SameCandidates, CandidatesLeast
    <3> QED
      BY <3>1, <3>2 DEF ComesFrom
  <2> QED
    BY <2>1, <2>2
<1>3. rows \subseteq more
  OBVIOUS
<1> HIDE DEF rows, more, c
<1>4. Conflicting(more, c) <=> Conflicting(rows, c)
  BY <1>1, <1>2, <1>3, ConflictingMeans
<1> QED
  BY <1>4 DEF rows, more, c

\* Resolution is stable under its own commit, entity by entity.
LEMMA RepeatCanonical ==
  ASSUME NEW P, IsRows(P), NEW E, IsRows(E), NEW p \in P
  PROVE  LET b == Resolve(P, E) IN
         Canonical((E \cup b) \cup P, Ids(E \cup b), p.id) = Canonical(E \cup P, Ids(E), p.id)
<1> DEFINE rows == E \cup P
           b == Resolve(P, E)
           more == (E \cup b) \cup P
           e == p.id
           c == Candidates(rows, e)
           old == Ids(E)
           now == Ids(E \cup b)
<1>1. IsRows(rows) /\ IsRows(more) /\ IsFiniteSet(rows) /\ e \in Nat /\ e \in c /\ c \subseteq Nat
  BY ResolveRows, RowsUnion, CandidatesLeast, CandidatesNat DEF IsRows
<1>2. Candidates(more, e) = c /\ (Conflicting(more, c) <=> Conflicting(rows, c))
  BY RepeatCandidates, RepeatConflicting
<1>3. ResolvesTo(rows, old, c, e, Canonical(rows, old, e))
  BY <1>1, CanonicalCases
<1>4. ResolvesTo(more, now, c, e, Canonical(more, now, e))
  <2>1. ResolvesTo(more, now, Candidates(more, e), e, Canonical(more, now, e))
    BY <1>1, CanonicalCases
  <2> QED
    BY <1>2, <2>1
<1>5. old \subseteq now
  BY DEF Ids
<1>6. ASSUME ~Conflicting(rows, c), \A x, y \in c \cap old : x = y
      PROVE  \A q \in P : q.id \in c => Canonical(rows, old, q.id) = Canonical(rows, old, e)
  <2> SUFFICES ASSUME NEW q \in P, q.id \in c
               PROVE  Canonical(rows, old, q.id) = Canonical(rows, old, e)
    OBVIOUS
  <2>1. Candidates(rows, q.id) = c /\ q.id \in Nat
    BY <1>1, SameCandidates DEF IsRows
  <2>2. ResolvesTo(rows, old, c, q.id, Canonical(rows, old, q.id))
    <3>1. ResolvesTo(rows, old, Candidates(rows, q.id), q.id, Canonical(rows, old, q.id))
      BY <1>1, <2>1, CanonicalCases
    <3> QED
      BY <2>1, <3>1
  <2> HIDE DEF c, old, rows, e
  <2> QED
    BY <1>3, <1>6, <2>2 DEF ResolvesTo
<1>7. ASSUME ~Conflicting(rows, c), \A x, y \in c \cap old : x = y
      PROVE  c \cap now = {Canonical(rows, old, e)}
  <2> DEFINE t == Canonical(rows, old, e)
  <2>1. t \in c
    BY <1>1, CanonicalIn
  <2>2. t \in Ids(b)
    <3>1. Moved(p, t) \in b
      BY ResolveRows
    <3>2. Moved(p, t).id = t
      BY DEF Moved
    <3> HIDE DEF t, b
    <3> QED
      BY <3>1, <3>2 DEF Ids
  <2>3. ASSUME NEW x \in Ids(b), x \in c PROVE x = t
    <3>1. PICK r \in b : r.id = x
      BY <2>3 DEF Ids
    <3>2. PICK q \in P : ComesFrom(r, q, P, E)
      BY ResolvedFrom
    <3>3. q.id \in c
      BY <1>1, <2>3, <3>1, <3>2, SameCandidates, CandidatesLeast DEF ComesFrom
    <3> QED
      BY <1>6, <1>7, <3>1, <3>2, <3>3 DEF ComesFrom
  <2>4. \A x \in c \cap old : x = t
    <3> HIDE DEF c, old, rows, e
    <3> QED
      BY <1>3, <1>7 DEF ResolvesTo
  <2>5. now = old \cup Ids(b)
    BY DEF Ids
  <2> HIDE DEF t, now, old, c, b
  <2> QED
    BY <2>1, <2>2, <2>3, <2>4, <2>5 DEF t
<1>8. Canonical(more, now, e) = Canonical(rows, old, e)
  <2> HIDE DEF rows, more, c, e, old, now, b
  <2>1. CASE Conflicting(rows, c)
    BY <1>2, <1>3, <1>4, <2>1 DEF ResolvesTo
  <2>2. ASSUME NEW x \in c \cap old, NEW y \in c \cap old, x # y
        PROVE  Canonical(more, now, e) = Canonical(rows, old, e)
    BY <1>3, <1>4, <1>5, <2>2 DEF ResolvesTo
  <2>3. CASE ~Conflicting(rows, c) /\ \A x, y \in c \cap old : x = y
    BY <1>2, <1>4, <1>7, <2>3 DEF ResolvesTo
  <2> QED
    BY <2>1, <2>2, <2>3
<1> QED
  BY <1>8

\* A build repeated right after its own commit resolves to the same batch
\* (resolution.py:19-87 against the export that holds the batch).
THEOREM ResolveRepeated ==
  ASSUME NEW P, IsRows(P), NEW E, IsRows(E)
  PROVE  LET b == Resolve(P, E) IN Resolve(P, E \cup b) = b
<1> DEFINE b == Resolve(P, E)
<1>1. b = {Moved(p, Canonical(E \cup P, Ids(E), p.id)) : p \in P}
  BY ResolveRows
<1>2. Resolve(P, E \cup b) = {Moved(p, Canonical((E \cup b) \cup P, Ids(E \cup b), p.id)) : p \in P}
  BY ResolveRows, RowsUnion
<1>3. \A p \in P :
        Canonical((E \cup b) \cup P, Ids(E \cup b), p.id) = Canonical(E \cup P, Ids(E), p.id)
  BY RepeatCanonical
<1> HIDE DEF b
<1> QED
  BY <1>1, <1>2, <1>3 DEF b

\* A row that resolution moved agrees with every row it now shares its id with.
LEMMA MovedAgrees ==
  ASSUME NEW P, IsRows(P), NEW E, IsRows(E), \A p \in P : p.source = p.id,
         NEW r \in Resolve(P, E), r.id # r.source, r.value # NoValue,
         NEW s \in E \cup Resolve(P, E), s.id = r.id, s.value # NoValue
  PROVE  s.value = r.value
<1>1. PICK p \in P : ComesFrom(r, p, P, E)
  BY ResolvedFrom
<1> USE DEF ComesFrom
<1> DEFINE rows == E \cup P
           c == Candidates(rows, p.id)
<1>2. IsRows(rows) /\ IsFiniteSet(rows) /\ p.id \in Nat /\ r.id # p.id
  BY <1>1, RowsUnion DEF IsRows
<1>3. ResolvesTo(rows, Ids(E), c, p.id, r.id)
  BY <1>1, <1>2, CanonicalCases
<1>4. ~Conflicting(rows, c)
  BY <1>2, <1>3 DEF ResolvesTo
<1>5. p.id \in c /\ r.id \in c
  BY <1>1, <1>2, CandidatesLeast
<1>6. \E q \in rows : q.id \in c /\ q.value = s.value
  <2>1. CASE s \in E
    BY <1>5, <2>1
  <2>2. CASE s \in Resolve(P, E)
    <3>1. PICK q \in P : ComesFrom(s, q, P, E)
      BY <2>2, ResolvedFrom
    <3>2. q.id \in c
      BY <1>1, <1>2, <3>1, CandidatesLeast
    <3> QED
      BY <3>1, <3>2
  <2> QED
    BY <2>1, <2>2
<1> HIDE DEF c
<1> QED
  BY <1>1, <1>2, <1>4, <1>5, <1>6, ConflictingMeans

\* A commit of a resolved batch keeps merged rows in agreement.
LEMMA MergedStep ==
  ASSUME NEW P, IsRows(P), NEW E, IsRows(E), \A p \in P : p.source = p.id, MergedConsistent(E)
  PROVE  MergedConsistent(E \cup Resolve(P, E))
<1> SUFFICES ASSUME NEW r \in E \cup Resolve(P, E), r.id # r.source, r.value # NoValue,
                    NEW s \in E \cup Resolve(P, E), s.id # s.source, s.value # NoValue,
                    r.id = s.id
             PROVE  r.value = s.value
  BY DEF MergedConsistent
<1>1. CASE r \in E /\ s \in E
  BY <1>1 DEF MergedConsistent
<1>2. CASE r \in Resolve(P, E)
  BY <1>2, MovedAgrees
<1>3. CASE s \in Resolve(P, E)
  BY <1>3, MovedAgrees
<1> QED
  BY <1>1, <1>2, <1>3

-----------------------------------------------------------------------------
\* The rows with identifier v are the rows of A, and lie under one id.
Settled(rows, v, A) ==
  /\ \A r \in rows : r.value = v <=> r.id \in A
  /\ \A r, s \in rows : r.value = v /\ s.value = v => r.id = s.id

\* A commit of a resolved batch keeps an identifier of A under one id.
LEMMA SettledStep ==
  ASSUME NEW P, IsRows(P), NEW E, IsRows(E), NEW v, v # NoValue, NEW A,
         Settled(E, v, A), \A p \in P : p.value = v <=> p.id \in A
  PROVE  Settled(E \cup Resolve(P, E), v, A)
<1> DEFINE rows == E \cup P
           b == Resolve(P, E)
<1>1. IsRows(rows) /\ IsFiniteSet(rows) /\ \A r \in rows : r.id \in Nat
  BY RowsUnion DEF IsRows
<1>2. \A r \in rows : r.value = v <=> r.id \in A
  BY DEF Settled
<1>3. \A q \in b : \E p \in P : ComesFrom(q, p, P, E)
  BY ResolvedFrom
<1>4. ASSUME NEW e \in A PROVE Candidates(rows, e) \subseteq A
  <2>1. Closed(rows, A)
    BY <1>2, ClosedByRows
  <2> QED
    BY <1>1, <1>4, <2>1, CandidatesLeast
<1>5. ASSUME NEW e, e \notin A PROVE Candidates(rows, e) \cap A = {}
  <2> DEFINE c == Candidates(rows, e)
  <2>1. e \in c /\ Closed(rows, c) /\ \A S : e \in S /\ Closed(rows, S) => c \subseteq S
    BY <1>1, CandidatesLeast
  <2> HIDE DEF c
  <2>2. \A r, s \in rows : r.value = s.value /\ r.value # NoValue /\ r.id \in c => s.id \in c
    BY <2>1, ClosedByRows
  <2>3. Closed(rows, c \ A)
    <3>1. \A r, s \in rows :
            r.value = s.value /\ r.value # NoValue /\ r.id \in c \ A => s.id \in c \ A
      BY <1>2, <2>2
    <3> QED
      BY <3>1, ClosedByRows
  <2>4. c \subseteq c \ A
    BY <1>5, <2>1, <2>3
  <2> QED
    BY <2>4 DEF c
<1>6. \A q \in b : q.value = v <=> q.id \in A
  <2> SUFFICES ASSUME NEW q \in b PROVE q.value = v <=> q.id \in A
    OBVIOUS
  <2>1. PICK p \in P : q.value = p.value /\ q.id \in Candidates(rows, p.id)
    BY <1>3 DEF ComesFrom
  <2>2. p.value = v <=> p.id \in A
    OBVIOUS
  <2> QED
    BY <1>4, <1>5, <2>1, <2>2
\* All of A that the rows name is one component, under the id it has or its least.
<1>7. ASSUME NEW p \in P, p.value = v
      PROVE  /\ \A r \in E : r.value = v => Canonical(rows, Ids(E), p.id) = r.id
             /\ (\A r \in E : r.value # v) => 
                   Canonical(rows, Ids(E), p.id) = Min(Candidates(rows, p.id))
  <2> DEFINE c == Candidates(rows, p.id)
             t == Canonical(rows, Ids(E), p.id)
  <2>1. p \in rows /\ p.id \in A /\ p.id \in Nat
    BY <1>1, <1>2, <1>7
  <2>2. c \subseteq A /\ p.id \in c /\ Closed(rows, c)
    BY <1>1, <1>4, <2>1, CandidatesLeast
  <2>3. ResolvesTo(rows, Ids(E), c, p.id, t)
    BY <1>1, <2>1, CanonicalCases
  <2> HIDE DEF c, t
  <2>4. ~Conflicting(rows, c)
    BY <1>1, <1>2, <2>2, ConflictingMeans
  <2>5. \A x \in c \cap Ids(E) : \E r \in E : r.id = x /\ r.value = v
    BY <1>2, <2>2 DEF Ids
  <2>6. \A x, y \in c \cap Ids(E) : x = y
    BY <2>5 DEF Settled
  <2>7. ASSUME NEW r \in E, r.value = v PROVE t = r.id
    <3>1. r.id \in c
      BY <1>7, <2>1, <2>2, <2>7, ClosedByRows
    <3>2. r.id \in c \cap Ids(E)
      BY <3>1 DEF Ids
    <3> QED
      BY <2>3, <2>4, <2>6, <3>2 DEF ResolvesTo
  <2>8. ASSUME \A r \in E : r.value # v PROVE t = Min(c)
    <3>1. c \cap Ids(E) = {}
      BY <2>5, <2>8
    <3> QED
      BY <2>3, <2>4, <3>1 DEF ResolvesTo
  <2> QED
    BY <2>7, <2>8 DEF c, t
<1>8. ASSUME NEW q \in b, q.value = v, NEW s \in E \cup b, s.value = v PROVE q.id = s.id
  <2>1. PICK p \in P : p.value = v /\ q.id = Canonical(rows, Ids(E), p.id)
    BY <1>3, <1>8 DEF ComesFrom
  <2>2. CASE s \in E
    BY <1>7, <1>8, <2>1, <2>2
  <2>3. CASE s \in b
    <3>1. PICK o \in P : o.value = v /\ s.id = Canonical(rows, Ids(E), o.id)
      BY <1>3, <1>8, <2>3 DEF ComesFrom
    <3>2. o.id \in Candidates(rows, p.id)
      <4>1. p \in rows /\ o \in rows
        OBVIOUS
      <4>2. p.id \in Candidates(rows, p.id) /\ Closed(rows, Candidates(rows, p.id))
        BY <1>1, CandidatesLeast
      <4> QED
        BY <2>1, <3>1, <4>1, <4>2, ClosedByRows
    <3>3. Candidates(rows, o.id) = Candidates(rows, p.id)
      BY <1>1, <3>2, SameCandidates
    <3> QED
      BY <1>7, <2>1, <3>1, <3>3
  <2> QED
    BY <2>2, <2>3
<1> HIDE DEF b, rows
<1>9. \A r, s \in E \cup b : r.value = v /\ s.value = v => r.id = s.id
  BY <1>8 DEF Settled
<1> QED
  BY <1>6, <1>9 DEF Settled, b
=============================================================================
