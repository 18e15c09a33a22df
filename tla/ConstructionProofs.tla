-------------------------- MODULE ConstructionProofs --------------------------
(***************************************************************************)
(* Construction for every set of tasks, workers and sources.               *)
(*                                                                         *)
(* In a namespace that already holds a batch, every build commits the      *)
(* resolution of its records against the graph as it is at that moment;    *)
(* Resolve is not opened for that.  The graph therefore grows as in a      *)
(* serial run, one fresh resolution at a time, and what ResolutionProofs   *)
(* shows of one resolution holds of every graph that is reached.           *)
(***************************************************************************)
EXTENDS Construction, ResolutionProofs

\* at, job and batch are functions on the workers, and workers with a build
\* hold a task.
Shape == /\ at \in [Worker -> Places]
         /\ job \in [Worker -> Task \cup {NoTask}]
         /\ batch = [w \in Worker |-> batch[w]]

\* The host lock admits one build.
OneInside == \A v, w \in Inside : v = w

\* Once a build has resolved its batch, no commit is in flight: export has
\* waited for it, and only the build in the lock starts another.
NoneInflight ==
  \A w \in Worker : at[w] \in {"resolved", "prepared"} => inflight = {}

\* The inductive invariant.  Without NoneInflight a settling commit could
\* change the graph under a resolved batch; without OneInside another build
\* could; and only a graph that is not empty sends has_namespace to export.
IInv == /\ Shape
        /\ graph # {}
        /\ OneInside
        /\ NoneInflight
        /\ ResolutionCurrent

LEMMA CurrentInit == ASSUME Seed # {} PROVE Init => IInv
  BY DEF Init, IInv, Shape, Places, OneInside, Inside, NoneInflight, ResolutionCurrent

\* Steps that leave the graph and the batches alone and let no build in.
LEMMA QuietStep ==
  ASSUME IInv, Shape', UNCHANGED <<graph, inflight, batch>>,
         \A w \in Worker : /\ w \in Inside' => w \in Inside
                           /\ at'[w] \in {"resolved", "prepared"} =>
                                at[w] \in {"resolved", "prepared"} /\ job'[w] = job[w]
  PROVE  IInv'
<1>1. Inside' \subseteq Inside
  BY DEF Inside
<1>2. OneInside'
  BY <1>1 DEF IInv, OneInside
<1>3. NoneInflight'
  BY DEF IInv, NoneInflight
<1>4. ResolutionCurrent'
  BY DEF IInv, ResolutionCurrent, Stored
<1> QED
  BY <1>2, <1>3, <1>4 DEF IInv

LEMMA CurrentNext == ASSUME IInv, [Next]_vars PROVE IInv'
<1> USE DEF Shape, Places
<1>1. ASSUME NEW w \in Worker, NEW t \in Task, Claim(w, t) PROVE IInv'
  <2>1. Shape' /\ UNCHANGED <<graph, inflight, batch>>
    BY <1>1 DEF Claim, IInv, graphVars
  <2>2. \A v \in Worker : /\ v \in Inside' => v \in Inside
                          /\ at'[v] \in {"resolved", "prepared"} =>
                               at[v] \in {"resolved", "prepared"} /\ job'[v] = job[v]
    BY <1>1 DEF Claim, IInv, Inside
  <2> QED
    BY <2>1, <2>2, QuietStep
<1>2. ASSUME NEW w \in Worker, Enter(w) PROVE IInv'
  <2>1. Shape' /\ UNCHANGED <<graph, inflight, batch, job>>
    BY <1>2 DEF Enter, IInv, graphVars
  <2>2. Inside' = {w}
    BY <1>2 DEF Enter, IInv, Inside
  <2>3. \A v \in Worker : at'[v] \notin {"resolved", "prepared"}
    BY <1>2 DEF Enter, IInv, Inside
  <2> QED
    BY <2>1, <2>2, <2>3 DEF IInv, OneInside, NoneInflight, ResolutionCurrent
<1>3. ASSUME NEW w \in Worker, Look(w) PROVE IInv'
  <2>1. Shape' /\ UNCHANGED <<graph, inflight, batch, job>>
    BY <1>3 DEF Look, IInv, graphVars
  <2>2. \A v \in Worker : /\ v \in Inside' => v \in Inside
                          /\ at'[v] \in {"resolved", "prepared"} =>
                               at[v] \in {"resolved", "prepared"} /\ job'[v] = job[v]
    BY <1>3 DEF Look, IInv, Inside
  <2> QED
    BY <2>1, <2>2, QuietStep
<1>4. ASSUME NEW w \in Worker, Export(w) PROVE IInv'
  <2>1. Shape' /\ UNCHANGED <<graph, inflight, job>>
    BY <1>4 DEF Export, IInv, graphVars
  <2>2. Inside' = Inside /\ w \in Inside
    BY <1>4 DEF Export, IInv, Inside
  <2>3. \A v \in Worker : v # w => at'[v] \notin {"resolved", "prepared"}
    BY <2>2 DEF IInv, OneInside, Inside
  <2>4. inflight' = {} /\ batch'[w] = Resolve(Parsed[job'[w]], Stored')
    BY <1>4, <2>1 DEF Export, IInv, Stored
  <2> QED
    BY <2>1, <2>2, <2>3, <2>4 DEF IInv, OneInside, NoneInflight, ResolutionCurrent
<1>5. ASSUME NEW w \in Worker, Prepare(w) PROVE IInv'
  <2>1. Shape' /\ UNCHANGED <<graph, inflight, batch, job>>
    BY <1>5 DEF Prepare, IInv, graphVars
  <2>2. \A v \in Worker : /\ v \in Inside' => v \in Inside
                          /\ at'[v] \in {"resolved", "prepared"} =>
                               at[v] \in {"resolved", "prepared"} /\ job'[v] = job[v]
    BY <1>5 DEF Prepare, IInv, Inside
  <2> QED
    BY <2>1, <2>2, QuietStep
<1>6. ASSUME NEW w \in Worker, CommitGraph(w) PROVE IInv'
  <2>1. Shape' /\ graph' # {}
    BY <1>6 DEF CommitGraph, IInv
  <2>2. Inside' = Inside /\ w \in Inside
    BY <1>6 DEF CommitGraph, IInv, Inside
  <2>3. \A v \in Worker : at'[v] \notin {"resolved", "prepared"}
    BY <1>6, <2>2 DEF CommitGraph, IInv, OneInside, Inside
  <2> QED
    BY <2>1, <2>2, <2>3 DEF IInv, OneInside, NoneInflight, ResolutionCurrent
<1>7. ASSUME NEW w \in Worker, Leave(w), at[w] # "idle", UNCHANGED graph,
             inflight' = inflight \/ w \in Inside
      PROVE  IInv'
  <2>1. Shape'
    BY <1>7 DEF Leave, IInv
  <2>2. Inside' = Inside \ {w}
    BY <1>7 DEF Leave, IInv, Inside
  <2>3. \A v \in Worker : at'[v] \in {"resolved", "prepared"} =>
          /\ v # w /\ v \in Inside
          /\ at[v] = at'[v] /\ job'[v] = job[v] /\ batch'[v] = batch[v]
    BY <1>7 DEF Leave, IInv, Inside
  <2>4. NoneInflight'
    BY <1>7, <2>3 DEF IInv, NoneInflight, OneInside
  <2>5. ResolutionCurrent'
    BY <1>7, <2>3 DEF IInv, ResolutionCurrent, Stored
  <2> QED
    BY <1>7, <2>1, <2>2, <2>4, <2>5 DEF IInv, OneInside
<1>8. ASSUME NEW w \in Worker, CommitLedger(w) PROVE IInv'
  BY <1>7, <1>8 DEF CommitLedger, graphVars
<1>9. ASSUME NEW w \in Worker, Stop(w) PROVE IInv'
  BY <1>7, <1>9 DEF Stop, Inside
<1>10. ASSUME NEW t \in Task, GiveUp(t) PROVE IInv'
  BY <1>10, QuietStep DEF GiveUp, buildVars, graphVars, Inside, IInv
<1>11. CASE Settle
  <2>1. \A w \in Worker : at'[w] \notin {"resolved", "prepared"}
    BY <1>11 DEF Settle, buildVars, IInv, NoneInflight
  <2>2. Shape' /\ Inside' = Inside /\ graph' # {}
    BY <1>11 DEF Settle, buildVars, IInv, Inside
  <2> QED
    BY <2>1, <2>2 DEF IInv, OneInside, NoneInflight, ResolutionCurrent
<1>12. CASE UNCHANGED vars
  BY <1>12, QuietStep DEF vars, Inside, IInv
<1> QED
  BY <1>1, <1>2, <1>3, <1>4, <1>5, <1>6, <1>8, <1>9, <1>10, <1>11, <1>12
     DEF Next, Finished

\* ResolutionCurrent for every instance whose namespace is not empty: no commit,
\* of a live or of a dead client, comes between a build's export and its commit.
THEOREM ResolvedAgainstCurrentGraph ==
  ASSUME Seed # {} PROVE Spec => []ResolutionCurrent
<1>1. Init => IInv
  BY CurrentInit
<1>2. IInv /\ [Next]_vars => IInv'
  BY CurrentNext
<1>3. IInv => ResolutionCurrent
  BY DEF IInv
<1> QED
  BY <1>1, <1>2, <1>3, PTL DEF Spec
-----------------------------------------------------------------------------
\* What is committed, or on its way there, is rows: every build that has resolved
\* its task holds a batch of rows.
AllRows ==
  /\ Shape
  /\ \A w \in Worker : at[w] # "idle" => job[w] \in Task
  /\ \A w \in Worker : at[w] \in {"resolved", "prepared", "written"} => IsRows(batch[w])
  /\ IsFiniteSet(graph) /\ IsFiniteSet(inflight)
  /\ \A b \in graph \cup inflight : IsRows(b)

\* The rows of finitely many batches.
LEMMA StoredRows == ASSUME AllRows PROVE IsRows(Stored)
<1>1. \A b \in graph : IsFiniteSet(b)
  BY DEF AllRows, IsRows
<1>2. IsFiniteSet(UNION graph)
  BY <1>1, FS_UNION DEF AllRows
<1> QED
  BY <1>2 DEF AllRows, IsRows, Stored

\* At the start every worker is idle and the graph is the seed.
LEMMA RowsInit == Init => AllRows
  BY SeedAssumption, FS_EmptySet DEF Init, AllRows, Shape, Places

LEMMA RowsNext == ASSUME AllRows, [Next]_vars PROVE AllRows'
<1> USE DEF Shape, Places
<1>1. ASSUME NEW w \in Worker, NEW t \in Task, Claim(w, t) PROVE AllRows'
  BY <1>1 DEF Claim, AllRows, graphVars
<1>2. ASSUME NEW w \in Worker, Enter(w) PROVE AllRows'
  BY <1>2 DEF Enter, AllRows, graphVars
<1>3. ASSUME NEW w \in Worker, Look(w) PROVE AllRows'
  <2>1. IsRows(Resolve(Parsed[job[w]], {}))
    <3>1. IsRows({})
      BY FS_EmptySet DEF IsRows
    <3>2. IsRows(Parsed[job[w]])
      BY <1>3, ParsedAssumption DEF Look, AllRows
    <3> QED
      BY <3>1, <3>2, ResolveRows
  <2> QED
    BY <1>3, <2>1 DEF Look, AllRows, graphVars
<1>4. ASSUME NEW w \in Worker, Export(w) PROVE AllRows'
  <2>1. IsRows(Resolve(Parsed[job[w]], Stored))
    <3>1. IsRows(Parsed[job[w]])
      BY <1>4, ParsedAssumption DEF Export, AllRows
    <3> QED
      BY <3>1, StoredRows, ResolveRows
  <2> QED
    BY <1>4, <2>1 DEF Export, AllRows, graphVars
<1>5. ASSUME NEW w \in Worker, Prepare(w) PROVE AllRows'
  BY <1>5 DEF Prepare, AllRows, graphVars
<1>6. ASSUME NEW w \in Worker, CommitGraph(w) PROVE AllRows'
  <2>1. IsFiniteSet(graph')
    BY <1>6, FS_AddElement DEF CommitGraph, AllRows
  <2> QED
    BY <1>6, <2>1 DEF CommitGraph, AllRows
<1>7. ASSUME NEW w \in Worker, Leave(w), graph' = graph,
             inflight' = inflight \/ (at[w] = "prepared" /\ inflight' = {batch[w]})
      PROVE  AllRows'
  <2>1. Shape'
    BY <1>7 DEF Leave, AllRows
  <2>2. IsFiniteSet(inflight') /\ \A b \in inflight' : IsRows(b)
    BY <1>7, FS_Singleton DEF AllRows
  <2> QED
    BY <1>7, <2>1, <2>2 DEF Leave, AllRows
<1>8. ASSUME NEW w \in Worker, CommitLedger(w) PROVE AllRows'
  <2>1. Leave(w) /\ graph' = graph /\ inflight' = inflight
    BY <1>8 DEF CommitLedger, graphVars
  <2> QED
    BY <1>7, <2>1, Zenon
<1>9. ASSUME NEW w \in Worker, Stop(w) PROVE AllRows'
  <2>1. Leave(w) /\ graph' = graph
    BY <1>9 DEF Stop
  <2>2. inflight' = inflight \/ (at[w] = "prepared" /\ inflight' = {batch[w]})
    BY <1>9 DEF Stop
  <2> QED
    BY <1>7, <2>1, <2>2, Zenon
<1>10. ASSUME NEW t \in Task, GiveUp(t) PROVE AllRows'
  BY <1>10 DEF GiveUp, AllRows, buildVars, graphVars
<1>11. CASE Settle
  <2>1. IsFiniteSet(graph \cup inflight) /\ IsFiniteSet(graph)
    BY FS_Union DEF AllRows
  <2>2. IsFiniteSet(graph') /\ IsFiniteSet(inflight')
    BY <1>11, <2>1, FS_EmptySet DEF Settle
  <2> QED
    BY <1>11, <2>2 DEF Settle, AllRows, buildVars
<1>12. CASE UNCHANGED vars
  BY <1>12 DEF vars, AllRows
<1> QED
  BY <1>1, <1>2, <1>3, <1>4, <1>5, <1>6, <1>8, <1>9, <1>10, <1>11, <1>12
     DEF Next, Finished

LEMMA AlwaysRows == Spec => []AllRows
  BY RowsInit, RowsNext, PTL DEF Spec

\* ExpansionComplete for every instance: whatever graph construction reaches,
\* the loop of resolution.py:34-40 finds the whole component of an entity.
THEOREM ExpansionAlwaysComplete == Spec => []ExpansionComplete
<1>1. AllRows => ExpansionComplete
  <2> SUFFICES ASSUME AllRows, NEW t \in Task, NEW e \in Ids(Parsed[t])
               PROVE  Candidates(Stored \cup Parsed[t], e) = Component(Stored \cup Parsed[t], e)
    BY DEF ExpansionComplete
  <2>1. IsFiniteSet(Stored \cup Parsed[t])
    BY StoredRows, ParsedAssumption, RowsUnion DEF IsRows
  <2> QED
    BY <2>1, CandidatesAreComponent
<1> QED
  BY <1>1, AlwaysRows, PTL

\* RepeatIdempotent for every instance: a redelivered task whose batch is in the
\* graph resolves to that batch.
THEOREM RepeatAlwaysIdempotent == Spec => []RepeatIdempotent
<1>1. AllRows => RepeatIdempotent
  BY StoredRows, ParsedAssumption, ResolveRepeated DEF RepeatIdempotent
<1> QED
  BY <1>1, AlwaysRows, PTL

-----------------------------------------------------------------------------
\* A commit on its way is the resolution of a task against the graph as it is:
\* the KDStore lock it holds keeps every other commit out.
InflightCurrent ==
  inflight = {} \/ \E t \in Task : inflight = {Resolve(Parsed[t], Stored)}

\* A step leaves the graph or adds the resolution of one task against it.
GraphGrows ==
  graph' = graph \/ \E t \in Task : graph' = graph \cup {Resolve(Parsed[t], Stored)}

SerialInv == IInv /\ AllRows /\ InflightCurrent

LEMMA SerialInit == ASSUME Seed # {} PROVE Init => SerialInv
  BY CurrentInit, RowsInit DEF SerialInv, InflightCurrent, Init

LEMMA SerialNext ==
  ASSUME SerialInv, [Next]_vars PROVE GraphGrows /\ SerialInv'
<1>1. IInv' /\ AllRows'
  BY CurrentNext, RowsNext DEF SerialInv
<1>2. ASSUME UNCHANGED <<graph, inflight>> PROVE GraphGrows /\ InflightCurrent'
  BY <1>2 DEF SerialInv, InflightCurrent, GraphGrows, Stored
<1>3. ASSUME NEW w \in Worker, at[w] = "prepared"
      PROVE  job[w] \in Task /\ batch[w] = Resolve(Parsed[job[w]], Stored)
  BY <1>3 DEF SerialInv, AllRows, IInv, ResolutionCurrent
<1>4. ASSUME NEW w \in Worker, CommitGraph(w) PROVE GraphGrows /\ InflightCurrent'
  <2>1. GraphGrows
    BY <1>3, <1>4 DEF CommitGraph, GraphGrows
  <2>2. CASE batch[w] \in graph
    BY <1>2, <1>4, <2>2 DEF CommitGraph
  <2>3. CASE inflight = {}
    BY <1>4, <2>1, <2>3 DEF CommitGraph, InflightCurrent
  <2> QED
    BY <1>4, <2>2, <2>3 DEF CommitGraph
<1>5. ASSUME NEW w \in Worker, Stop(w) PROVE GraphGrows /\ InflightCurrent'
  <2>1. graph' = graph
    BY <1>5 DEF Stop
  <2>2. CASE inflight' = inflight
    BY <1>2, <2>1, <2>2
  <2>3. CASE at[w] = "prepared" /\ inflight' = {batch[w]}
    BY <1>3, <2>1, <2>3 DEF GraphGrows, InflightCurrent, Stored
  <2> QED
    BY <1>5, <2>2, <2>3 DEF Stop
<1>6. ASSUME Settle PROVE GraphGrows /\ InflightCurrent'
  BY <1>6 DEF Settle, SerialInv, InflightCurrent, GraphGrows
<1>7. ASSUME NEW w \in Worker, CommitLedger(w) PROVE GraphGrows /\ InflightCurrent'
  BY <1>2, <1>7 DEF CommitLedger, graphVars
<1>8. ASSUME NEW w \in Worker, NEW t \in Task, Claim(w, t)
      PROVE  GraphGrows /\ InflightCurrent'
  BY <1>2, <1>8 DEF Claim, graphVars
<1>9. ASSUME NEW w \in Worker, Enter(w) \/ Look(w) \/ Export(w) \/ Prepare(w)
      PROVE  GraphGrows /\ InflightCurrent'
  BY <1>2, <1>9 DEF Enter, Look, Export, Prepare, graphVars
<1>10. ASSUME NEW t \in Task, GiveUp(t) PROVE GraphGrows /\ InflightCurrent'
  BY <1>2, <1>10 DEF GiveUp, graphVars
<1>11. ASSUME UNCHANGED vars PROVE GraphGrows /\ InflightCurrent'
  BY <1>2, <1>11 DEF vars
<1>12. GraphGrows /\ InflightCurrent'
  BY <1>4, <1>5, <1>6, <1>7, <1>8, <1>9, <1>10, <1>11 DEF Next, Finished
<1> QED
  BY <1>1, <1>12 DEF SerialInv

LEMMA AlwaysSerial == ASSUME Seed # {} PROVE Spec => []SerialInv
<1>1. Init => SerialInv
  BY SerialInit
<1>2. SerialInv /\ [Next]_vars => SerialInv'
  BY SerialNext
<1> QED
  BY <1>1, <1>2, PTL DEF Spec

\* The graph is the one of a serial construction: every change of it is the
\* commit of one task resolved against the graph of that moment, also when the
\* client of the commit has died.
THEOREM GraphGrowsSerially == ASSUME Seed # {} PROVE Spec => [][GraphGrows]_vars
<1>1. SerialInv /\ [Next]_vars => [GraphGrows]_vars
  BY SerialNext
<1> QED
  BY <1>1, AlwaysSerial, PTL DEF Spec

-----------------------------------------------------------------------------
\* The entities that a source or the seed gives the identifier v.
Holders(v) == {r.id : r \in {x \in Sources \cup Seeded : x.value = v}}

\* Merged rows of the graph agree, and the rows of an agreed identifier are
\* exactly the rows of its holders, all under one id.
Consistent ==
  /\ MergedConsistent(Stored)
  /\ \A v \in Agreed : Settled(Stored, v, Holders(v))

LEMMA ConsistentInit == ASSUME SeedConsistent PROVE Init => Consistent
<1> SUFFICES ASSUME Init PROVE Consistent
  OBVIOUS
<1>1. Stored = Seeded
  BY DEF Init, Stored, Seeded
<1>2. ASSUME NEW v \in Agreed PROVE Settled(Seeded, v, Holders(v))
  BY DEF SeedConsistent, Settled, Holders
<1> QED
  BY <1>1, <1>2 DEF Consistent, SeedConsistent

\* One commit of a fresh resolution keeps the graph consistent.
LEMMA ConsistentNext ==
  ASSUME SeedConsistent, AllRows, Consistent, GraphGrows PROVE Consistent'
<1>1. CASE graph' = graph
  BY <1>1 DEF Consistent, Stored
<1>2. ASSUME NEW t \in Task, graph' = graph \cup {Resolve(Parsed[t], Stored)}
      PROVE  Consistent'
  <2> DEFINE P == Parsed[t]
             E == Stored
  <2>1. IsRows(P) /\ IsRows(E) /\ \A p \in P : p.source = p.id
    BY StoredRows, ParsedAssumption
  <2>2. Stored' = E \cup Resolve(P, E)
    BY <1>2 DEF Stored
  <2>3. MergedConsistent(E \cup Resolve(P, E))
    BY <2>1, MergedStep DEF Consistent
  <2>4. ASSUME NEW v \in Agreed PROVE Settled(E \cup Resolve(P, E), v, Holders(v))
    <3>1. \A p \in P : p.value = v <=> p.id \in Holders(v)
      BY DEF SeedConsistent, Holders, Sources
    <3>2. v # NoValue /\ Settled(E, v, Holders(v))
      BY DEF Agreed, Consistent
    <3> HIDE DEF P, E
    <3> QED
      BY <2>1, <3>1, <3>2, SettledStep
  <2> QED
    BY <2>2, <2>3, <2>4 DEF Consistent
<1> QED
  BY <1>1, <1>2 DEF GraphGrows

LEMMA AlwaysConsistent ==
  ASSUME Seed # {}, SeedConsistent PROVE Spec => [](AllRows /\ Consistent)
<1>1. Init => Consistent
  BY ConsistentInit
<1>2. SerialInv /\ Consistent /\ [Next]_vars => Consistent'
  BY SerialNext, ConsistentNext DEF SerialInv
<1>3. SerialInv => AllRows
  BY DEF SerialInv
<1> QED
  BY <1>1, <1>2, <1>3, AlwaysSerial, PTL DEF Spec

\* MergedAgree for every instance whose namespace starts consistent.
THEOREM MergedAlwaysAgree ==
  ASSUME Seed # {}, SeedConsistent PROVE Spec => []MergedAgree
<1>1. Consistent => MergedAgree
  BY DEF Consistent, MergedAgree
<1> QED
  BY <1>1, AlwaysConsistent, PTL

\* OneIdentity for every instance whose namespace starts consistent: no order of
\* builds, crashes and retries gives an agreed identifier a second canonical id.
THEOREM IdentityAlwaysOne ==
  ASSUME Seed # {}, SeedConsistent PROVE Spec => []OneIdentity
<1>1. AllRows /\ Consistent => OneIdentity
  <2> SUFFICES ASSUME AllRows, Consistent, NEW v \in Agreed
               PROVE  Cardinality({r.id : r \in {x \in Stored : x.value = v}}) <= 1
    BY DEF OneIdentity
  <2> DEFINE ids == {r.id : r \in {x \in Stored : x.value = v}}
             f == [r \in Stored |-> r.id]
  <2>1. IsFiniteSet(Stored)
    BY StoredRows DEF IsRows
  <2>2. IsFiniteSet(ids)
    <3>1. IsFiniteSet({f[r] : r \in Stored})
      BY <2>1, FiniteImage
    <3>2. ids \subseteq {f[r] : r \in Stored}
      OBVIOUS
    <3> QED
      BY <3>1, <3>2, FS_Subset
  <2>3. \A x, y \in ids : x = y
    BY DEF Consistent, Settled
  <2> HIDE DEF ids
  <2>4. Cardinality(ids) <= 1
    BY <2>2, <2>3, AtMostOne
  <2> QED
    BY <2>4 DEF ids
<1> QED
  BY <1>1, AlwaysConsistent, PTL
=============================================================================
