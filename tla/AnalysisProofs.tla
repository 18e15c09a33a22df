--------------------------- MODULE AnalysisProofs ---------------------------
(***************************************************************************)
(* What holds of every typed question, whatever the graphs, requests and   *)
(* programs are: accepted programs never stop on an operand of the wrong   *)
(* type, the plan of a request is accepted exactly when its relations      *)
(* exist, answers are grounded, counts, paths and traces hold on every     *)
(* possible day, cards suffice, and saved states succeed the ones they     *)
(* were made from.                                                         *)
(*                                                                         *)
(* The runs of a program and the claims kept are recursive functions: that *)
(* they exist, and what they contain, is by induction over the number of   *)
(* steps, in the form of sets of numbers (SetInduction).                   *)
(***************************************************************************)
EXTENDS Analysis, FiniteSetTheorems, WellFoundedInduction, TLAPS

-----------------------------------------------------------------------------
\* Induction.

\* A set of numbers has a least member.
LEMMA LeastOf ==
  ASSUME NEW T, T \subseteq Nat, T # {}
  PROVE  \E n \in T : \A m \in T : n <= m
<1>1. \E x \in T : \A y \in T : ~ (<<y, x>> \in OpToRel(<, Nat))
  BY NatLessThanWellFounded, WFMin
<1>2. PICK x \in T : \A y \in T : ~ (<<y, x>> \in OpToRel(<, Nat))
  BY <1>1
<1>3. ASSUME NEW y \in T PROVE x <= y
  <2>1. ~ (<<y, x>> \in OpToRel(<, Nat))
    BY <1>2, <1>3
  <2>2. ~(y < x)
    BY <2>1, Zenon DEF OpToRel
  <2> QED
    BY <2>2
<1> QED
  BY <1>3

\* A set with 0 and the successors of its members has every number.
LEMMA SetInduction ==
  ASSUME NEW T, 0 \in T, \A n \in Nat : n \in T => n + 1 \in T
  PROVE  Nat \subseteq T
<1> SUFFICES ASSUME Nat \ T # {} PROVE FALSE
  OBVIOUS
<1>1. PICK n \in Nat \ T : \A m \in Nat \ T : n <= m
  BY LeastOf
<1>2. n # 0 /\ n - 1 \in Nat /\ n - 1 \notin Nat \ T
  BY <1>1
<1> QED
  BY <1>1, <1>2

-----------------------------------------------------------------------------
\* What the operations return.

LEMMA ResolveType == ASSUME NEW g, NEW q PROVE Resolve(g, q).type \in {"Clarify", "entities"}
  BY DEF Resolve, Fail
LEMMA FilterType == ASSUME NEW g, NEW q, NEW v PROVE Filter(g, q, v).type \in {"Incomplete", "edges"}
  BY DEF Filter, Fail
LEMMA ExpandType == ASSUME NEW g, NEW q, NEW v PROVE Expand(g, q, v).type \in {"ValueError", "Incomplete", "edges"}
  BY DEF Expand, Fail
LEMMA CountType == ASSUME NEW g, NEW q, NEW v PROVE Count(g, q, v).type \in {"ValueError", "Incomplete", "aggregate"}
  BY DEF Count, Fail
LEMMA PathsType == ASSUME NEW g, NEW q, NEW v PROVE Paths(g, q, v).type \in {"Incomplete", "paths"}
  BY DEF Paths, Fail
LEMMA CompareType == ASSUME NEW q, NEW v PROVE Compare(q, v).type \in {"ValueError", "Incomplete", "comparison"}
  BY DEF Compare, Fail
LEMMA AggregateType == ASSUME NEW g, NEW q, NEW v, q.metric \in {"count", "event_trace", "mobility_returns"}
  PROVE Aggregate(g, q, v).type \in {"ValueError", "Incomplete", IF q.metric = "count" THEN "aggregate" ELSE q.metric}
  BY CountType DEF Aggregate, Fail, EventTrace, ReturnMoves

LEMMA PerformTyped ==
  ASSUME NEW g, NEW s, NEW values, NEW known, IsStep(s), Readable(s, values)
  PROVE  Perform(g, s, values, known).type \in {"Clarify", "Incomplete", "ValueError", Binding(s)}
<1>1. CASE s.op = "ResolveEntity"
  BY <1>1, ResolveType DEF Perform, Binding, Outputs
<1>2. CASE s.op = "NormalizeTime"
  BY <1>2 DEF Perform, Binding, Outputs
<1>3. CASE s.op = "FilterInterval"
  BY <1>3, FilterType DEF Perform, Binding, Outputs
<1>4. CASE s.op = "Expand"
  BY <1>4, ExpandType DEF Perform, Binding, Outputs
<1>5. CASE s.op = "Aggregate"
  BY <1>5, AggregateType DEF Perform, Binding, Outputs, IsStep
<1>6. CASE s.op = "PathSearch"
  BY <1>6, PathsType DEF Perform, Binding, Outputs
<1>7. CASE s.op = "CompareWindows"
  BY <1>7, CompareType DEF Perform, Binding, Outputs
<1>8. CASE s.op = "ProjectProvenance"
  BY <1>8 DEF Perform, Binding, Outputs
<1>9. CASE s.op = "ReadState"
  BY <1>9 DEF Perform, Binding, Outputs, Fail
<1>10. CASE s.op = "UpdateState"
  BY <1>10 DEF Perform, Binding, Outputs, Fail
<1> QED
  BY <1>1, <1>2, <1>3, <1>4, <1>5, <1>6, <1>7, <1>8, <1>9, <1>10 DEF IsStep, Outputs

-----------------------------------------------------------------------------
\* The run of a program.

Stepped(g, p, release, prior, n) ==
  Advanced(prior, p.steps[n], Perform(g, p.steps[n], prior.values, prior.state), release)
Opened(known) == [stop |-> None, values |-> << >>, state |-> known]

AreRuns(g, p, release, known, k, run) ==
  run = [n \in 0..k |-> IF n = 0 THEN Opened(known) ELSE Stepped(g, p, release, run[n - 1], n)]

\* The states of a run exist, for any number of steps.
LEMMA RunsExist ==
  ASSUME NEW g, NEW p, NEW release, NEW known, NEW K \in Nat
  PROVE  \E run : AreRuns(g, p, release, known, K, run)
<1> DEFINE T == {k \in Nat : \E run : AreRuns(g, p, release, known, k, run)}
<1>1. 0 \in T
  <2> DEFINE f == [n \in 0..0 |-> Opened(known)]
  <2>1. AreRuns(g, p, release, known, 0, f)
    BY DEF AreRuns
  <2> QED
    BY <2>1
<1>2. ASSUME NEW k \in Nat, k \in T PROVE k + 1 \in T
  <2>1. PICK f : AreRuns(g, p, release, known, k, f)
    BY <1>2
  <2> DEFINE q == [n \in 0..(k + 1) |-> IF n = k + 1 THEN Stepped(g, p, release, f[k], n) ELSE f[n]]
  <2>2. ASSUME NEW n \in 0..(k + 1)
        PROVE  q[n] = IF n = 0 THEN Opened(known) ELSE Stepped(g, p, release, q[n - 1], n)
    <3>1. CASE n = k + 1
      <4>1. n # 0 /\ n - 1 = k /\ k \in 0..(k + 1) /\ k # k + 1
        BY <3>1
      <4> QED
        BY <3>1, <4>1
    <3>2. CASE n # k + 1
      <4>1. n \in 0..k /\ (n # 0 => n - 1 \in 0..k /\ n - 1 \in 0..(k + 1) /\ n - 1 # k + 1)
        BY <3>2
      <4>2. f[n] = IF n = 0 THEN Opened(known) ELSE Stepped(g, p, release, f[n - 1], n)
        BY <2>1, <4>1 DEF AreRuns
      <4>3. q[n] = f[n] /\ (n # 0 => q[n - 1] = f[n - 1])
        BY <3>2, <4>1
      <4> QED
        BY <4>2, <4>3
    <3> QED
      BY <3>1, <3>2
  <2>3. q = [n \in 0..(k + 1) |-> q[n]]
    OBVIOUS
  <2>4. AreRuns(g, p, release, known, k + 1, q)
    <3> HIDE DEF q
    <3> QED
      BY <2>2, <2>3 DEF AreRuns
  <2> QED
    <3> HIDE DEF q
    <3> QED
      BY <2>4
<1>3. Nat \subseteq T
  <2> HIDE DEF T
  <2> QED
    BY <1>1, <1>2, SetInduction
<1> QED
  BY <1>3

\* run is what is known before the first step and after each.
Running(g, p, release, known, run) ==
  /\ run[0] = Opened(known)
  /\ \A n \in 1..Len(p.steps) : run[n] = Stepped(g, p, release, run[n - 1], n)

LEMMA RunsAre ==
  ASSUME NEW g, NEW p, NEW release, NEW known, Len(p.steps) \in Nat
  PROVE  Running(g, p, release, known, Runs(g, p, release, known))
<1> DEFINE K == Len(p.steps)
           run == Runs(g, p, release, known)
<1>1. AreRuns(g, p, release, known, K, run)
  <2>1. run = CHOOSE f : AreRuns(g, p, release, known, K, f)
    BY Zenon DEF Runs, AreRuns, Stepped, Opened
  <2>2. \E f : AreRuns(g, p, release, known, K, f)
    BY RunsExist
  <2> HIDE DEF run, K
  <2> QED
    BY <2>1, <2>2, Zenon
<1>2. 0 \in 0..K /\ \A n \in 1..K : n \in 0..K /\ n # 0
  OBVIOUS
<1> QED
  BY <1>1, <1>2 DEF AreRuns, Running

\* Ids of a program's steps are its own.
Distinct(p) == \A i, j \in 1..Len(p.steps) : p.steps[i].id = p.steps[j].id => i = j

\* Without a stop, the first n steps have the values of their operations.
Accounted(g, p, run, n) ==
  run[n].stop = None =>
    /\ \A m \in 0..n : run[m].stop = None
    /\ DOMAIN run[n].values = {p.steps[i].id : i \in 1..n}
    /\ \A i \in 1..n : LET r == Perform(g, p.steps[i], run[i - 1].values, run[i - 1].state) IN
         run[n].values[p.steps[i].id] = r /\ ~Failed(r)

LEMMA Accounts ==
  ASSUME NEW g, NEW p, NEW release, NEW known, NEW run, Len(p.steps) \in Nat,
         Distinct(p), Running(g, p, release, known, run), NEW n \in 0..Len(p.steps)
  PROVE  Accounted(g, p, run, n)
<1> DEFINE K == Len(p.steps)
           T == {m \in Nat : m <= K => Accounted(g, p, run, m)}
<1>1. 0 \in T
  <2>1. run[0] = Opened(known)
    BY DEF Running
  <2>2. DOMAIN run[0].values = {}
    BY <2>1 DEF Opened
  <2>3. 1..0 = {} /\ 0..0 = {0} /\ 0 <= K /\ run[0].stop = None
    BY <2>1 DEF Opened
  <2>4. Accounted(g, p, run, 0)
    BY <2>2, <2>3 DEF Accounted
  <2> QED
    BY <2>3, <2>4
<1>2. ASSUME NEW m \in Nat, m \in T PROVE m + 1 \in T
  <2> SUFFICES ASSUME m + 1 <= K PROVE Accounted(g, p, run, m + 1)
    OBVIOUS
  <2> SUFFICES ASSUME run[m + 1].stop = None PROVE Accounted(g, p, run, m + 1)
    BY DEF Accounted
  <2> DEFINE s == p.steps[m + 1]
             r == Perform(g, s, run[m].values, run[m].state)
  <2>1. m + 1 \in 1..K /\ (m + 1) - 1 = m /\ m <= K /\ m \in 0..m
    OBVIOUS
  <2>2. run[m + 1] = Advanced(run[m], s, r, release)
    BY <2>1 DEF Running, Stepped
  <2>3. /\ run[m].stop = None /\ ~Failed(r)
        /\ run[m + 1].values = Over([k \in {s.id} |-> r], run[m].values)
    <3> HIDE DEF r, s
    <3>1. CASE run[m].stop # None
      BY <2>2, <3>1 DEF Advanced
    <3>2. CASE run[m].stop = None /\ Failed(r)
      BY <2>2, <3>2, NoneAssumption DEF Advanced, Failed
    <3> QED
      BY <2>2, <3>1, <3>2 DEF Advanced
  <2>4. Accounted(g, p, run, m)
    BY <1>2, <2>1
  <2>5. \A j \in 0..(m + 1) : run[j].stop = None
    <3>1. \A j \in 0..(m + 1) : j \in 0..m \/ j = m + 1
      OBVIOUS
    <3> QED
      BY <2>3, <2>4, <3>1 DEF Accounted
  <2>6. 1..(m + 1) = (1..m) \cup {m + 1}
    OBVIOUS
  <2>7. DOMAIN run[m + 1].values = {p.steps[i].id : i \in 1..(m + 1)}
    <3>1. DOMAIN run[m].values = {p.steps[i].id : i \in 1..m}
      BY <2>3, <2>4 DEF Accounted
    <3> QED
      BY <2>3, <2>6, <3>1 DEF Over
  <2>8. run[m + 1].values[s.id] = r
    BY <2>3 DEF Over
  <2>9. ASSUME NEW i \in 1..m PROVE run[m + 1].values[p.steps[i].id] = run[m].values[p.steps[i].id]
    <3>1. p.steps[i].id \in DOMAIN run[m].values
      BY <2>3, <2>4 DEF Accounted
    <3>2. i \in 1..K /\ i # m + 1
      BY <2>1
    <3>3. p.steps[i].id # s.id
      BY <2>1, <3>2 DEF Distinct
    <3> QED
      BY <2>3, <3>1, <3>3 DEF Over
  <2> QED
    <3>1. ASSUME NEW i \in 1..(m + 1)
          PROVE  LET q == Perform(g, p.steps[i], run[i - 1].values, run[i - 1].state) IN
                   run[m + 1].values[p.steps[i].id] = q /\ ~Failed(q)
      <4>1. CASE i = m + 1
        BY <2>1, <2>3, <2>8, <4>1
      <4>2. CASE i \in 1..m
        BY <2>3, <2>4, <2>9, <4>2 DEF Accounted
      <4> QED
        BY <4>1, <4>2, <2>6
    <3> QED
      BY <2>5, <2>7, <3>1 DEF Accounted
<1>3. Nat \subseteq T
  <2> HIDE DEF T
  <2> QED
    BY <1>1, <1>2, SetInduction
<1> QED
  BY <1>3

-----------------------------------------------------------------------------
\* Accepted programs are typed.

\* What the validator checks of the step i, by the steps j before it.
Bound(p, i) ==
  LET s == p.steps[i] IN
  /\ WellFormed(s)
  /\ \A j \in 1..(i - 1) : p.steps[j].id # s.id
  /\ Refs(s.args) \subseteq {p.steps[j].id : j \in 1..(i - 1)}
  /\ \A j \in 1..(i - 1) : LET b == Binding(p.steps[j])  x == p.steps[j].id IN
       /\ "window" \in DOMAIN s.args /\ s.args.window = x => b = "window"
       /\ s.op = "Expand" /\ s.args.input = x => b \in {"entities", "edges"}
       /\ s.op \in {"FilterInterval", "Aggregate"} /\ s.args.input = x => b = "edges"
       /\ s.op = "PathSearch" /\ s.args.input = x => b = "entities"
       /\ s.op = "CompareWindows" /\ x \in {s.args.left, s.args.right} => b = "aggregate"

LEMMA ProgramLength ==
  ASSUME NEW p, IsProgram(p)
  PROVE  Len(p.steps) \in Nat /\ DOMAIN p.steps = 1..Len(p.steps)
BY DEF IsProgram

LEMMA AcceptedDistinct ==
  ASSUME NEW p, IsProgram(p), Accepted(p) PROVE Distinct(p)
<1> DEFINE K == Len(p.steps)
<1>1. K \in Nat /\ DOMAIN p.steps = 1..K
  BY ProgramLength
<1>2. ASSUME NEW i \in 1..K, NEW j \in 1..(i - 1) PROVE p.steps[i].id # p.steps[j].id
  <2>1. i \in DOMAIN p.steps
    BY <1>1
  <2>2. p.steps[i].id \notin {t.id : t \in {p.steps[k] : k \in 1..(i - 1)}}
    BY <2>1, Zenon DEF Accepted
  <2> QED
    BY <2>2
<1>3. \A i, j \in 1..K : i = j \/ i \in 1..(j - 1) \/ j \in 1..(i - 1)
  BY <1>1
<1> QED
  BY <1>2, <1>3 DEF Distinct

LEMMA AcceptedBound ==
  ASSUME NEW p, IsProgram(p), Accepted(p), NEW i \in 1..Len(p.steps) PROVE Bound(p, i)
<1> DEFINE K == Len(p.steps)
           s == p.steps[i]
           earlier == {p.steps[k] : k \in 1..(i - 1)}
           of(x) == CHOOSE t \in earlier : t.id = x
<1>1. K \in Nat /\ i \in DOMAIN p.steps
  BY ProgramLength
<1>2. /\ WellFormed(s) /\ s.id \notin {t.id : t \in earlier} /\ Refs(s.args) = s.deps
      /\ s.deps \subseteq {t.id : t \in earlier}
      /\ "window" \in DOMAIN s.args => Binding(of(s.args.window)) = "window"
      /\ s.op = "Expand" => Binding(of(s.args.input)) \in {"entities", "edges"}
      /\ s.op \in {"FilterInterval", "Aggregate"} => Binding(of(s.args.input)) = "edges"
      /\ s.op = "PathSearch" => Binding(of(s.args.input)) = "entities"
      /\ s.op = "CompareWindows" => /\ Binding(of(s.args.left)) = "aggregate"
                                    /\ Binding(of(s.args.right)) = "aggregate"
  BY <1>1, Zenon DEF Accepted
<1>3. ASSUME NEW j \in 1..(i - 1) PROVE of(p.steps[j].id) = p.steps[j]
  <2>1. j \in 1..K /\ p.steps[j] \in earlier
    BY <1>1
  <2>2. ASSUME NEW t \in earlier, t.id = p.steps[j].id PROVE t = p.steps[j]
    <3>1. PICK k \in 1..(i - 1) : t = p.steps[k]
      BY <2>2
    <3>2. k \in 1..K
      BY <1>1
    <3> QED
      BY <2>1, <2>2, <3>1, <3>2, AcceptedDistinct DEF Distinct
  <2> HIDE DEF earlier
  <2> QED
    BY <2>1, <2>2
<1>4. \A x : x \in earlier <=> \E j \in 1..(i - 1) : x = p.steps[j]
  OBVIOUS
<1> HIDE DEF earlier, of
<1> QED
  BY <1>2, <1>3, <1>4 DEF Bound

\* The values of the steps so far are of the types the validator gave them.
Typed(p, run, n) ==
  /\ run[n].stop # "KeyError"
  /\ run[n].stop = None => \A i \in 1..n : run[n].values[p.steps[i].id].type = Binding(p.steps[i])

\* In a run that is typed so far, the next step finds the fields it reads.
LEMMA NextReadable ==
  ASSUME NEW p, NEW run, NEW i \in 1..Len(p.steps), Len(p.steps) \in Nat,
         IsStep(p.steps[i]), Bound(p, i), Typed(p, run, i - 1), run[i - 1].stop = None
  PROVE  Readable(p.steps[i], run[i - 1].values)
<1> DEFINE s == p.steps[i]
           v == run[i - 1].values
<1>1. \A j \in 1..(i - 1) : v[p.steps[j].id].type = Binding(p.steps[j])
  BY DEF Typed
<1>2. \A x \in Refs(s.args) : \E j \in 1..(i - 1) : x = p.steps[j].id
  BY DEF Bound
<1>3. "window" \in DOMAIN s.args => s.args.window \in Refs(s.args)
  BY DEF Refs, References
<1>4. ASSUME "window" \in DOMAIN s.args PROVE v[s.args.window].type = "window"
  BY <1>1, <1>2, <1>3, <1>4 DEF Bound
<1>5. ASSUME s.op \in DOMAIN Reads,
             NEW x \in Refs(s.args) \ {s.args[k] : k \in {"window"} \cap DOMAIN s.args}
      PROVE  v[x].type \in Reads[s.op]
  <2>1. PICK j \in 1..(i - 1) : x = p.steps[j].id
    BY <1>2
  <2>2. v[x].type = Binding(p.steps[j])
    BY <1>1, <2>1
  <2>3. PICK k \in References \cap DOMAIN s.args : x = s.args[k]
    BY DEF Refs
  <2>4. k # "window" /\ k \in Slots[s.op]
    BY <2>3 DEF IsStep
  <2>5. /\ s.op = "Expand" /\ s.args.input = x => Binding(p.steps[j]) \in {"entities", "edges"}
        /\ s.op \in {"FilterInterval", "Aggregate"} /\ s.args.input = x => Binding(p.steps[j]) = "edges"
        /\ s.op = "PathSearch" /\ s.args.input = x => Binding(p.steps[j]) = "entities"
        /\ s.op = "CompareWindows" /\ x \in {s.args.left, s.args.right} => Binding(p.steps[j]) = "aggregate"
    BY <2>1, Zenon DEF Bound
  <2>6. CASE s.op \in {"Expand", "FilterInterval", "Aggregate", "PathSearch"}
    <3>1. k = "input"
      BY <2>4, <2>6 DEF Slots
    <3>2. s.args.input = x
      BY <2>3, <3>1
    <3> QED
      BY <2>2, <2>5, <2>6, <3>2 DEF Reads
  <2>7. CASE s.op = "CompareWindows"
    <3>1. k \in {"left", "right"}
      BY <2>4, <2>7 DEF Slots
    <3>2. x \in {s.args.left, s.args.right}
      BY <2>3, <3>1
    <3> QED
      BY <2>2, <2>5, <2>7, <3>2 DEF Reads
  <2> QED
    BY <1>5, <2>6, <2>7 DEF Reads
<1> QED
  BY <1>4, <1>5 DEF Readable

LEMMA RunTyped ==
  ASSUME NEW g, NEW p, NEW release, NEW known, NEW run, IsProgram(p), Accepted(p),
         Running(g, p, release, known, run), NEW n \in 0..Len(p.steps)
  PROVE  Typed(p, run, n)
<1> DEFINE K == Len(p.steps)
           T == {m \in Nat : m <= K => Typed(p, run, m)}
<1>0. K \in Nat /\ DOMAIN p.steps = 1..K
  BY ProgramLength
<1>1. 0 \in T
  <2>1. run[0].stop = None /\ 1..0 = {} /\ 0 <= K
    BY DEF Running, Opened
  <2>2. Typed(p, run, 0)
    BY <2>1, NoneAssumption DEF Typed, Failures
  <2> QED
    BY <2>1, <2>2
<1>2. ASSUME NEW m \in Nat, m \in T PROVE m + 1 \in T
  <2> SUFFICES ASSUME m + 1 <= K PROVE Typed(p, run, m + 1)
    OBVIOUS
  <2> DEFINE s == p.steps[m + 1]
             r == Perform(g, s, run[m].values, run[m].state)
  <2>1. m + 1 \in 1..K /\ (m + 1) - 1 = m /\ m <= K /\ m \in 0..K /\ m + 1 \in 0..K
    BY <1>0
  <2>2. run[m + 1] = Advanced(run[m], s, r, release)
    BY <2>1 DEF Running, Stepped
  <2>3. Typed(p, run, m)
    BY <1>2, <2>1
  <2>4. CASE run[m].stop # None
    BY <2>2, <2>3, <2>4 DEF Advanced, Typed
  <2>5. CASE run[m].stop = None
    <3>1. Bound(p, m + 1) /\ IsStep(s)
      BY <1>0, <2>1, AcceptedBound DEF IsProgram
    <3>2. Readable(s, run[m].values)
      BY <1>0, <2>1, <2>3, <2>5, <3>1, NextReadable
    <3>3. r.type \in {"Clarify", "Incomplete", "ValueError", Binding(s)}
      BY <3>1, <3>2, PerformTyped
    <3>4. Binding(s) # "KeyError"
      BY <3>1 DEF Binding, Outputs, IsStep
    <3> HIDE DEF r
    <3>5. CASE Failed(r)
      BY <2>2, <2>5, <3>3, <3>4, <3>5, NoneAssumption DEF Typed, Advanced, Failed
    <3>6. CASE ~Failed(r)
      <4>1. run[m + 1].stop = None /\ r.type = Binding(s)
        BY <2>2, <2>5, <3>3, <3>6 DEF Advanced, Failed, Failures
      <4>2. Accounted(g, p, run, m + 1) /\ Accounted(g, p, run, m)
        BY <1>0, <2>1, Accounts, AcceptedDistinct
      <4>3. ASSUME NEW i \in 1..(m + 1)
            PROVE  run[m + 1].values[p.steps[i].id].type = Binding(p.steps[i])
        <5>1. CASE i = m + 1
          BY <2>1, <4>1, <4>2, <5>1 DEF Accounted, r
        <5>2. CASE i # m + 1
          <6>1. i \in 1..m
            BY <5>2
          <6>2. run[m].values[p.steps[i].id].type = Binding(p.steps[i])
            BY <2>3, <2>5, <6>1 DEF Typed
          <6>3. run[m + 1].values[p.steps[i].id] = run[m].values[p.steps[i].id]
            BY <2>5, <4>1, <4>2, <6>1 DEF Accounted
          <6> QED
            BY <6>2, <6>3
        <5> QED
          BY <5>1, <5>2
      <4> QED
        BY <4>1, <4>3, NoneAssumption DEF Typed, Failures
    <3> QED
      BY <3>5, <3>6
  <2> QED
    BY <2>4, <2>5
<1>3. Nat \subseteq T
  <2> HIDE DEF T
  <2> QED
    BY <1>1, <1>2, SetInduction
<1> QED
  BY <1>0, <1>3

\* No program that the validator accepts stops on an operand without the fields
\* its operation reads, on any graph and from any state (graph_program.py:139-163).
THEOREM AcceptedNeverWrongType ==
  ASSUME NEW g, NEW p, NEW release, NEW known, IsProgram(p), Accepted(p)
  PROVE  Execute(g, p, release, known).stop # "KeyError"
<1> DEFINE run == Runs(g, p, release, known)
<1>1. Len(p.steps) \in 0..Len(p.steps) /\ Len(p.steps) \in Nat
  BY ProgramLength
<1>2. Running(g, p, release, known, run)
  BY <1>1, RunsAre
<1>3. Typed(p, run, Len(p.steps))
  <2> HIDE DEF run
  <2> QED
    BY <1>1, <1>2, RunTyped
<1> QED
  BY <1>3 DEF Execute, Typed

\* The same of the programs in the validator's run.
THEOREM ProgramsAlwaysTyped == Spec => []ProgramsTyped
<1>1. ProgramsTyped
  BY AcceptedNeverWrongType, ProgramsAssumption DEF ProgramsTyped
<1> QED
  BY <1>1, PTL


-----------------------------------------------------------------------------
\* Sequences, whatever their members are.

Listed(s) == \E S : s \in Seq(S)

LEMMA ListedFacts ==
  ASSUME NEW s, Listed(s)
  PROVE  /\ Len(s) \in Nat /\ DOMAIN s = 1..Len(s)
         /\ s \in Seq({s[i] : i \in DOMAIN s})
BY DEF Listed

LEMMA ListedTuples ==
  ASSUME NEW x, NEW y, NEW z
  PROVE  Listed(<<>>) /\ Listed(<<x>>) /\ Listed(<<x, y>>) /\ Listed(<<x, y, z>>)
<1>1. <<>> \in Seq({}) /\ <<x>> \in Seq({x}) /\ <<x, y>> \in Seq({x, y}) /\ <<x, y, z>> \in Seq({x, y, z})
  OBVIOUS
<1> QED
  BY <1>1 DEF Listed

\* Two sequences in one set.
LEMMA ListedPair ==
  ASSUME NEW s, NEW t, Listed(s), Listed(t)
  PROVE  \E S : s \in Seq(S) /\ t \in Seq(S)
<1>1. PICK A, B : s \in Seq(A) /\ t \in Seq(B)
  BY DEF Listed
<1>2. s \in Seq(A \cup B) /\ t \in Seq(A \cup B)
  BY <1>1
<1> QED
  BY <1>2

LEMMA AppendFacts ==
  ASSUME NEW s, NEW x, Listed(s)
  PROVE  /\ Listed(Append(s, x)) /\ Len(Append(s, x)) = Len(s) + 1
         /\ Append(s, x)[Len(s) + 1] = x
         /\ \A i \in 1..Len(s) : Append(s, x)[i] = s[i]
<1>1. PICK S : s \in Seq(S)
  BY DEF Listed
<1>2. s \in Seq(S \cup {x})
  BY <1>1
<1>3. Append(s, x) \in Seq(S \cup {x})
  BY <1>2
<1> QED
  BY <1>2, <1>3 DEF Listed

LEMMA CatFacts ==
  ASSUME NEW s, NEW t, Listed(s), Listed(t)
  PROVE  /\ Listed(s \o t) /\ Len(s \o t) = Len(s) + Len(t)
         /\ \A i \in 1..(Len(s) + Len(t)) : (s \o t)[i] = IF i <= Len(s) THEN s[i] ELSE t[i - Len(s)]
<1>1. PICK S : s \in Seq(S) /\ t \in Seq(S)
  BY ListedPair
<1>2. s \o t \in Seq(S)
  BY <1>1
<1> QED
  BY <1>1, <1>2 DEF Listed

\* Equal when of one length and the same at each place.
LEMMA SameList ==
  ASSUME NEW s, NEW t, Listed(s), Listed(t), Len(s) = Len(t), \A i \in 1..Len(s) : s[i] = t[i]
  PROVE  s = t
<1>1. PICK S : s \in Seq(S) /\ t \in Seq(S)
  BY ListedPair
<1> QED
  BY <1>1

LEMMA CatOne ==
  ASSUME NEW s, NEW x, Listed(s) PROVE s \o <<x>> = Append(s, x)
<1>1. Listed(<<x>>) /\ Len(<<x>>) = 1 /\ <<x>>[1] = x
  BY ListedTuples
<1>2. Len(s) \in Nat
  BY ListedFacts
<1>3. ASSUME NEW i \in 1..(Len(s) + 1) PROVE (s \o <<x>>)[i] = Append(s, x)[i]
  <2>1. (s \o <<x>>)[i] = IF i <= Len(s) THEN s[i] ELSE <<x>>[i - Len(s)]
    BY <1>1, CatFacts
  <2>2. CASE i = Len(s) + 1
    BY <1>1, <1>2, <2>1, <2>2, AppendFacts
  <2>3. CASE i # Len(s) + 1
    <3>1. i \in 1..Len(s)
      BY <1>2, <2>3
    <3>2. Append(s, x)[i] = s[i]
      BY <3>1, AppendFacts
    <3> QED
      BY <2>1, <3>1, <3>2
  <2> QED
    BY <2>2, <2>3
<1>4. Len(s \o <<x>>) = Len(s) + 1 /\ Listed(s \o <<x>>)
  BY <1>1, CatFacts
<1>5. Len(Append(s, x)) = Len(s) + 1 /\ Listed(Append(s, x))
  BY AppendFacts
<1> QED
  BY <1>3, <1>4, <1>5, SameList

LEMMA CatCat ==
  ASSUME NEW s, NEW t, NEW u, Listed(s), Listed(t), Listed(u)
  PROVE  s \o (t \o u) = (s \o t) \o u
<1> DEFINE a == s \o (t \o u)  b == (s \o t) \o u
<1>1. Len(s) \in Nat /\ Len(t) \in Nat /\ Len(u) \in Nat
  BY ListedFacts
<1>2. Listed(t \o u) /\ Listed(s \o t) /\ Len(t \o u) = Len(t) + Len(u) /\ Len(s \o t) = Len(s) + Len(t)
  BY CatFacts
<1>3. Listed(a) /\ Listed(b) /\ Len(a) = Len(s) + Len(t) + Len(u) /\ Len(b) = Len(s) + Len(t) + Len(u)
  BY <1>1, <1>2, CatFacts
<1>4. ASSUME NEW i \in 1..Len(a) PROVE a[i] = b[i]
  <2>1. a[i] = IF i <= Len(s) THEN s[i] ELSE (t \o u)[i - Len(s)]
    BY <1>1, <1>2, <1>3, CatFacts
  <2>2. b[i] = IF i <= Len(s) + Len(t) THEN (s \o t)[i] ELSE u[i - (Len(s) + Len(t))]
    BY <1>1, <1>2, <1>3, CatFacts
  <2>3. i <= Len(s) + Len(t) => (s \o t)[i] = IF i <= Len(s) THEN s[i] ELSE t[i - Len(s)]
    BY <1>1, <1>3, CatFacts
  <2>4. i > Len(s) => (t \o u)[i - Len(s)] = IF i - Len(s) <= Len(t) THEN t[i - Len(s)] ELSE u[(i - Len(s)) - Len(t)]
    <3>1. i > Len(s) => i - Len(s) \in 1..(Len(t) + Len(u))
      BY <1>1, <1>3
    <3> QED
      BY <3>1, CatFacts
  <2>5. i \in Int /\ (i - Len(s)) - Len(t) = i - (Len(s) + Len(t))
    BY <1>1, <1>3
  <2> HIDE DEF a, b
  <2>6. CASE i <= Len(s)
    <3>1. i <= Len(s) + Len(t)
      BY <1>1, <2>5, <2>6
    <3> QED
      BY <2>1, <2>2, <2>3, <2>6, <3>1
  <2>7. CASE ~(i <= Len(s)) /\ i <= Len(s) + Len(t)
    <3>1. i > Len(s) /\ i - Len(s) <= Len(t)
      BY <1>1, <2>5, <2>7
    <3> QED
      BY <2>1, <2>2, <2>3, <2>4, <2>7, <3>1
  <2>8. CASE ~(i <= Len(s) + Len(t))
    <3>1. i > Len(s) /\ ~(i <= Len(s)) /\ ~(i - Len(s) <= Len(t))
      BY <1>1, <2>5, <2>8
    <3> QED
      BY <2>1, <2>2, <2>4, <2>5, <2>8, <3>1
  <2> QED
    BY <2>6, <2>7, <2>8
<1> HIDE DEF a, b
<1>5. a = b
  BY <1>3, <1>4, SameList
<1> QED
  BY <1>5 DEF a, b

LEMMA CatNone ==
  ASSUME NEW s, Listed(s) PROVE s \o <<>> = s /\ <<>> \o s = s
<1>1. Len(s) \in Nat /\ Listed(<<>>) /\ Len(<<>>) = 0
  BY ListedFacts, ListedTuples
<1>2. s \o <<>> = s
  <2>1. Listed(s \o <<>>) /\ Len(s \o <<>>) = Len(s)
    BY <1>1, CatFacts
  <2>2. ASSUME NEW i \in 1..Len(s) PROVE (s \o <<>>)[i] = s[i]
    BY <1>1, CatFacts
  <2> QED
    BY <2>1, <2>2, SameList
<1>3. <<>> \o s = s
  <2>1. Listed(<<>> \o s) /\ Len(<<>> \o s) = Len(s)
    BY <1>1, CatFacts
  <2>2. ASSUME NEW i \in 1..Len(s) PROVE (<<>> \o s)[i] = s[i]
    <3>1. i \in 1..(0 + Len(s)) /\ ~(i <= 0) /\ i - 0 = i
      BY <1>1
    <3>2. (<<>> \o s)[i] = IF i <= Len(<<>>) THEN <<>>[i] ELSE s[i - Len(<<>>)]
      BY <1>1, <3>1, CatFacts
    <3> QED
      BY <1>1, <3>1, <3>2
  <2> QED
    BY <2>1, <2>2, SameList
<1> QED
  BY <1>2, <1>3

\* The members, in the order of their addition.
LEMMA CatMore ==
  ASSUME NEW s, NEW x, NEW y, NEW z, Listed(s)
  PROVE  /\ s \o <<x, y>> = Append(Append(s, x), y)
         /\ s \o <<x, y, z>> = Append(Append(Append(s, x), y), z)
<1>1. <<x, y>> = <<x>> \o <<y>>
  <2>1. Listed(<<x, y>>) /\ Listed(<<x>> \o <<y>>)
    BY ListedTuples, CatFacts
  <2> DEFINE u == <<x, y>>  v == <<x>> \o <<y>>
  <2>2. Listed(<<x>>) /\ Listed(<<y>>) /\ Len(<<x>>) = 1 /\ Len(<<y>>) = 1
    BY ListedTuples
  <2>3. Len(v) = 2 /\ Len(u) = 2
    BY <2>2, CatFacts
  <2>4. v[1] = x /\ v[2] = y
    BY <2>2, CatFacts
  <2>5. \A i \in 1..Len(u) : u[i] = v[i]
    BY <2>3, <2>4
  <2> HIDE DEF u, v
  <2>6. u = v
    BY <2>1, <2>3, <2>5, SameList DEF u, v
  <2> QED
    BY <2>6 DEF u, v
<1>2. <<x, y, z>> = <<x, y>> \o <<z>>
  <2>1. Listed(<<x, y, z>>) /\ Listed(<<x, y>> \o <<z>>)
    BY ListedTuples, CatFacts
  <2> DEFINE u == <<x, y, z>>  v == <<x, y>> \o <<z>>
  <2>2. Listed(<<x, y>>) /\ Listed(<<z>>) /\ Len(<<x, y>>) = 2 /\ Len(<<z>>) = 1
    BY ListedTuples
  <2>3. Len(v) = 3 /\ Len(u) = 3
    BY <2>2, CatFacts
  <2>4. v[1] = x /\ v[2] = y /\ v[3] = z
    BY <2>2, CatFacts
  <2>5. \A i \in 1..Len(u) : u[i] = v[i]
    BY <2>3, <2>4
  <2> HIDE DEF u, v
  <2>6. u = v
    BY <2>1, <2>3, <2>5, SameList DEF u, v
  <2> QED
    BY <2>6 DEF u, v
<1>3. Listed(<<x>>) /\ Listed(<<y>>) /\ Listed(<<z>>) /\ Listed(<<x, y>>)
  BY ListedTuples
<1>4. s \o <<x, y>> = Append(Append(s, x), y)
  <2>1. s \o (<<x>> \o <<y>>) = (s \o <<x>>) \o <<y>>
    BY <1>3, CatCat
  <2> QED
    BY <1>1, <2>1, CatOne, AppendFacts
<1>5. s \o <<x, y, z>> = Append(Append(Append(s, x), y), z)
  <2>1. s \o (<<x, y>> \o <<z>>) = (s \o <<x, y>>) \o <<z>>
    BY <1>3, CatCat
  <2>2. Listed(s \o <<x, y>>)
    BY <1>3, CatFacts
  <2> QED
    BY <1>2, <1>4, <2>1, <2>2, CatOne
<1> QED
  BY <1>4, <1>5

-----------------------------------------------------------------------------
\* The planned programs.

IdsOf(E) == {s.id : s \in E}
Gives(E, x, types) == \E t \in E : t.id = x /\ Binding(t) \in types

\* A step that the validator accepts after those of E.
Fits(s, E) ==
  /\ WellFormed(s) /\ IsStep(s) /\ s.op # "UpdateState"
  /\ s.id \notin IdsOf(E) /\ s.deps = Refs(s.args) /\ s.deps \subseteq IdsOf(E)
  /\ "window" \in DOMAIN s.args => Gives(E, s.args.window, {"window"})
  /\ s.op = "Expand" => Gives(E, s.args.input, {"entities", "edges"})
  /\ s.op \in {"FilterInterval", "Aggregate"} => Gives(E, s.args.input, {"edges"})
  /\ s.op = "PathSearch" => Gives(E, s.args.input, {"entities"})
  /\ s.op = "CompareWindows" => Gives(E, s.args.left, {"aggregate"}) /\ Gives(E, s.args.right, {"aggregate"})

Prior(ss, i) == {ss[j] : j \in 1..(i - 1)}

\* ss are the steps of E, each after those it needs.
Assembled(ss, E) ==
  /\ Listed(ss) /\ E = {ss[i] : i \in DOMAIN ss}
  /\ \A i \in DOMAIN ss : Fits(ss[i], Prior(ss, i))

LEMMA AssembledNone == Assembled(<<>>, {})
<1> DEFINE none == <<>>
<1>1. Listed(none) /\ DOMAIN none = {}
  <2>1. Listed(none)
    BY ListedTuples
  <2>2. Len(none) = 0 /\ 1..0 = {}
    OBVIOUS
  <2> QED
    BY <2>1, <2>2, ListedFacts
<1> HIDE DEF none
<1>2. Assembled(none, {})
  BY <1>1 DEF Assembled
<1> QED
  BY <1>2 DEF none

LEMMA AssembledMore ==
  ASSUME NEW ss, NEW E, NEW s, Assembled(ss, E), Fits(s, E)
  PROVE  Assembled(Append(ss, s), E \cup {s})
<1> DEFINE K == Len(ss)
           q == Append(ss, s)
<1>1. K \in Nat /\ DOMAIN ss = 1..K
  BY ListedFacts DEF Assembled
<1>2. Listed(q) /\ Len(q) = K + 1 /\ q[K + 1] = s /\ \A i \in 1..K : q[i] = ss[i]
  BY AppendFacts DEF Assembled
<1>3. DOMAIN q = 1..(K + 1)
  BY <1>2, ListedFacts
<1> HIDE DEF q
<1>4. 1..(K + 1) = (1..K) \cup {K + 1}
  BY <1>1
<1>5. E \cup {s} = {q[i] : i \in DOMAIN q}
  BY <1>1, <1>2, <1>3, <1>4 DEF Assembled
<1>6. ASSUME NEW i \in 1..(K + 1) PROVE Prior(q, i) = Prior(ss, i)
  <2>1. \A j \in 1..(i - 1) : j \in 1..K
    BY <1>1
  <2> QED
    BY <1>2, <2>1 DEF Prior
<1>7. Prior(ss, K + 1) = E
  <2>1. 1..((K + 1) - 1) = 1..K
    BY <1>1
  <2> QED
    BY <1>1, <2>1 DEF Prior, Assembled
<1>8. ASSUME NEW i \in 1..(K + 1) PROVE Fits(q[i], Prior(q, i))
  <2>1. CASE i = K + 1
    BY <1>2, <1>6, <1>7, <2>1
  <2>2. CASE i \in 1..K
    BY <1>1, <1>2, <1>6, <2>2 DEF Assembled
  <2> QED
    BY <1>4, <2>1, <2>2
<1>9. Assembled(q, E \cup {s})
  BY <1>2, <1>3, <1>5, <1>8 DEF Assembled
<1> QED
  BY <1>9 DEF q

\* One step, two or three, each after those it needs.
LEMMA AssembledThen ==
  ASSUME NEW ss, NEW E, NEW x, NEW y, NEW z, Assembled(ss, E), Fits(x, E)
  PROVE  /\ Assembled(ss \o <<x>>, E \cup {x})
         /\ Fits(y, E \cup {x}) =>
              /\ Assembled(ss \o <<x, y>>, E \cup {x, y})
              /\ Fits(z, E \cup {x, y}) => Assembled(ss \o <<x, y, z>>, E \cup {x, y, z})
<1>0. Listed(ss)
  BY DEF Assembled
<1>1. ss \o <<x>> = Append(ss, x) /\ Assembled(Append(ss, x), E \cup {x})
  BY <1>0, CatOne, AssembledMore
<1>2. ASSUME Fits(y, E \cup {x}) PROVE Assembled(ss \o <<x, y>>, E \cup {x, y})
  <2>1. ss \o <<x, y>> = Append(Append(ss, x), y)
    BY <1>0, CatMore
  <2>2. Assembled(Append(Append(ss, x), y), (E \cup {x}) \cup {y})
    BY <1>1, <1>2, AssembledMore
  <2>3. (E \cup {x}) \cup {y} = E \cup {x, y}
    OBVIOUS
  <2> QED
    BY <2>1, <2>2, <2>3
<1>3. ASSUME Fits(y, E \cup {x}), Fits(z, E \cup {x, y}) PROVE Assembled(ss \o <<x, y, z>>, E \cup {x, y, z})
  <2>1. ss \o <<x, y, z>> = Append(Append(Append(ss, x), y), z) /\ ss \o <<x, y>> = Append(Append(ss, x), y)
    BY <1>0, CatMore
  <2>2. Assembled(Append(Append(Append(ss, x), y), z), (E \cup {x, y}) \cup {z})
    BY <1>2, <1>3, <2>1, AssembledMore
  <2>3. (E \cup {x, y}) \cup {z} = E \cup {x, y, z}
    OBVIOUS
  <2> QED
    BY <2>1, <2>2, <2>3
<1> QED
  BY <1>1, <1>2, <1>3

LEMMA AssembledAccepted ==
  ASSUME NEW p, NEW E, Assembled(p.steps, E)
  PROVE  IsProgram(p) /\ (p.output \in IdsOf(E) => Accepted(p))
<1> DEFINE ss == p.steps
           K == Len(ss)
<1>1. K \in Nat /\ DOMAIN ss = 1..K /\ ss \in Seq({ss[i] : i \in DOMAIN ss})
  BY ListedFacts DEF Assembled
<1>2. IsProgram(p)
  <2>1. \A i \in DOMAIN ss : Fits(ss[i], Prior(ss, i))
    BY DEF Assembled
  <2>2. \A i \in DOMAIN ss : IsStep(ss[i])
    BY <2>1, Zenon DEF Fits
  <2> QED
    BY <1>1, <2>2 DEF IsProgram
<1>3. ASSUME NEW i \in 1..K, NEW j \in 1..(i - 1) PROVE ss[i].id # ss[j].id
  <2>1. Fits(ss[i], Prior(ss, i)) /\ ss[j] \in Prior(ss, i)
    BY <1>1 DEF Assembled, Prior
  <2> QED
    BY <2>1 DEF Fits, IdsOf
<1>4. ASSUME NEW i \in 1..K, NEW x, NEW types, Gives(Prior(ss, i), x, types)
      PROVE  Binding(CHOOSE t \in Prior(ss, i) : t.id = x) \in types
  <2>1. PICK t \in Prior(ss, i) : t.id = x /\ Binding(t) \in types
    BY <1>4 DEF Gives
  <2>2. ASSUME NEW u \in Prior(ss, i), u.id = x PROVE u = t
    <3>1. PICK j \in 1..(i - 1), k \in 1..(i - 1) : u = ss[j] /\ t = ss[k]
      BY DEF Prior
    <3>2. j \in 1..K /\ k \in 1..K /\ (j = k \/ j \in 1..(k - 1) \/ k \in 1..(j - 1))
      BY <1>1
    <3> QED
      BY <1>3, <2>1, <2>2, <3>1, <3>2
  <2>3. (CHOOSE v \in Prior(ss, i) : v.id = x) = t
    BY <2>1, <2>2
  <2> QED
    BY <2>1, <2>3
<1>5. ASSUME NEW i \in DOMAIN ss
      PROVE  LET s == p.steps[i]
                 earlier == {p.steps[j] : j \in 1..(i - 1)}
                 bound == {t.id : t \in earlier}
                 type(x) == Binding(CHOOSE t \in earlier : t.id = x)
             IN  /\ WellFormed(s)
                 /\ s.id \notin bound /\ Refs(s.args) = s.deps /\ s.deps \subseteq bound
                 /\ "window" \in DOMAIN s.args => type(s.args.window) = "window"
                 /\ s.op = "Expand" => type(s.args.input) \in {"entities", "edges"}
                 /\ s.op \in {"FilterInterval", "Aggregate"} => type(s.args.input) = "edges"
                 /\ s.op = "PathSearch" => type(s.args.input) = "entities"
                 /\ s.op = "CompareWindows" => /\ type(s.args.left) = "aggregate"
                                               /\ type(s.args.right) = "aggregate"
  <2> DEFINE s == ss[i]
             earlier == Prior(ss, i)
             type(x) == Binding(CHOOSE t \in earlier : t.id = x)
  <2>1. earlier = {p.steps[j] : j \in 1..(i - 1)} /\ Fits(s, earlier)
    BY DEF Prior, Assembled
  <2>2. \A x, types : Gives(earlier, x, types) => type(x) \in types
    BY <1>1, <1>4
  <2> HIDE DEF earlier, type
  <2>3. /\ WellFormed(s)
        /\ s.id \notin {t.id : t \in earlier} /\ Refs(s.args) = s.deps /\ s.deps \subseteq {t.id : t \in earlier}
        /\ "window" \in DOMAIN s.args => type(s.args.window) = "window"
        /\ s.op = "Expand" => type(s.args.input) \in {"entities", "edges"}
        /\ s.op \in {"FilterInterval", "Aggregate"} => type(s.args.input) = "edges"
        /\ s.op = "PathSearch" => type(s.args.input) = "entities"
        /\ s.op = "CompareWindows" => type(s.args.left) = "aggregate" /\ type(s.args.right) = "aggregate"
    BY <2>1, <2>2 DEF Fits, IdsOf
  <2> QED
    BY <2>1, <2>3, Zenon DEF type
<1>6. p.output \in IdsOf(E) => p.output \in {s.id : s \in {ss[i] : i \in DOMAIN ss}}
  BY DEF Assembled, IdsOf
<1> QED
  BY <1>2, <1>5, <1>6, Zenon DEF Accepted

LEMMA Stepping ==
  ASSUME NEW id, NEW op, NEW args
  PROVE  LET s == Step(id, op, args) IN s.id = id /\ s.op = op /\ s.args = args /\ s.deps = Refs(args)
BY DEF Step

LEMMA FitsResolve ==
  ASSUME NEW r, r.identifier # None
  PROVE  Fits(Subject(r), {}) /\ Subject(r).id = "subject" /\ Binding(Subject(r)) = "entities"
<1>1. /\ Subject(r).op = "ResolveEntity" /\ Subject(r).id = "subject"
      /\ Subject(r).args.identifier = r.identifier /\ References \cap DOMAIN Subject(r).args = {}
      /\ Subject(r).deps = Refs(Subject(r).args)
  BY DEF Subject, Step, References
<1>2. Refs(Subject(r).args) = {} /\ "window" \notin DOMAIN Subject(r).args
  BY <1>1 DEF Refs, References
<1> QED
  BY <1>1, <1>2 DEF Fits, WellFormed, IsStep, Outputs, Slots, Binding, IdsOf

LEMMA FitsWindow ==
  ASSUME NEW E, NEW id, NEW w, id \notin IdsOf(E)
  PROVE  LET s == Step(id, "NormalizeTime", [period |-> w]) IN
         Fits(s, E) /\ s.id = id /\ Binding(s) = "window"
<1> DEFINE s == Step(id, "NormalizeTime", [period |-> w])
<1>1. /\ s.op = "NormalizeTime" /\ s.id = id /\ References \cap DOMAIN s.args = {}
      /\ s.deps = Refs(s.args)
  BY DEF Step, References
<1>2. Refs(s.args) = {} /\ "window" \notin DOMAIN s.args
  BY <1>1 DEF Refs, References
<1> HIDE DEF s
<1>3. Fits(s, E) /\ s.id = id /\ Binding(s) = "window"
  BY <1>1, <1>2 DEF Fits, WellFormed, IsStep, Outputs, Slots, Binding
<1> QED
  BY <1>3 DEF s

LEMMA FitsExpand ==
  ASSUME NEW E, NEW id, NEW input, NEW direction, id \notin IdsOf(E),
         NEW relation \in {"authorOf", "affiliatedWith", "hasSite", "announcedSite"},
         Gives(E, input, {"entities", "edges"})
  PROVE  LET s == ExpandBy(id, input, relation, direction) IN
         Fits(s, E) /\ s.id = id /\ Binding(s) = "edges"
<1> DEFINE s == ExpandBy(id, input, relation, direction)
<1>1. /\ s.op = "Expand" /\ s.id = id /\ References \cap DOMAIN s.args = {"input"}
      /\ s.deps = Refs(s.args) /\ s.args.input = input /\ s.args.relation = relation
      /\ s.args.headKind = Relations[relation].head
      /\ s.args.tailKind = CHOOSE k \in Relations[relation].tails : TRUE
  BY DEF ExpandBy, Step, References
<1>2. Refs(s.args) = {input} /\ "window" \notin DOMAIN s.args
  BY <1>1 DEF Refs, References
<1>3. relation \in DOMAIN Relations /\ Relations[relation].tails # {}
  BY DEF Relations
<1>4. input \in IdsOf(E)
  BY DEF Gives, IdsOf
<1> HIDE DEF s
<1>5. s.args.tailKind \in Relations[relation].tails
  <2> DEFINE T == Relations[relation].tails
  <2>1. (CHOOSE k \in T : TRUE) \in T
    <3> HIDE DEF T
    <3> QED
      BY <1>3 DEF T
  <2> QED
    BY <1>1, <2>1
<1>6. WellFormed(s)
  BY <1>1, <1>3, <1>5 DEF WellFormed
<1>7. Fits(s, E) /\ s.id = id /\ Binding(s) = "edges"
  BY <1>1, <1>2, <1>4, <1>6 DEF Fits, IsStep, Outputs, Slots, Binding
<1> QED
  BY <1>7 DEF s

LEMMA FitsAggregate ==
  ASSUME NEW E, NEW id, NEW args, id \notin IdsOf(E), References \cap DOMAIN args = {"input", "window"},
         args.metric \in {"count", "event_trace", "mobility_returns"},
         args.metric # "count" => args.subject # None,
         args.attribution = "publication_authorship" => args.unit = "Paper" /\ args.institution # None,
         Gives(E, args.input, {"edges"}), Gives(E, args.window, {"window"})
  PROVE  LET s == Step(id, "Aggregate", args) IN
         /\ Fits(s, E) /\ s.id = id
         /\ Binding(s) = IF args.metric = "count" THEN "aggregate" ELSE args.metric
<1> DEFINE s == Step(id, "Aggregate", args)
<1>1. s.op = "Aggregate" /\ s.id = id /\ s.args = args /\ s.deps = Refs(args)
  BY DEF Step
<1>2. Refs(args) = {args.input, args.window}
  BY DEF Refs
<1>3. args.input \in IdsOf(E) /\ args.window \in IdsOf(E)
  BY DEF Gives, IdsOf
<1> HIDE DEF s
<1>4. WellFormed(s)
  BY <1>1 DEF WellFormed
<1>5. Fits(s, E) /\ s.id = id /\ Binding(s) = IF args.metric = "count" THEN "aggregate" ELSE args.metric
  BY <1>1, <1>2, <1>3, <1>4 DEF Fits, IsStep, Outputs, Slots, Binding
<1> QED
  BY <1>5 DEF s

LEMMA FitsProject ==
  ASSUME NEW E, NEW id, NEW input, id \notin IdsOf(E), input \in IdsOf(E)
  PROVE  LET s == Step(id, "ProjectProvenance", [input |-> input]) IN Fits(s, E) /\ s.id = id
<1> DEFINE s == Step(id, "ProjectProvenance", [input |-> input])
<1>1. /\ s.op = "ProjectProvenance" /\ s.id = id /\ References \cap DOMAIN s.args = {"input"}
      /\ s.deps = Refs(s.args) /\ s.args.input = input
  BY DEF Step, References
<1>2. Refs(s.args) = {input} /\ "window" \notin DOMAIN s.args
  BY <1>1 DEF Refs, References
<1> HIDE DEF s
<1>3. Fits(s, E) /\ s.id = id
  BY <1>1, <1>2 DEF Fits, WellFormed, IsStep, Outputs, Slots
<1> QED
  BY <1>3 DEF s

FamilySteps(r) ==
  LET counted == (IF r.kind = "Institution" THEN {Authors} ELSE {}) \cup {PapersOf(r), PaperCount(r, "after", "window")} IN
  CASE r.family = "identity" -> {}
    [] r.family = "path" -> {Searched(r)}
    [] r.family = "count" -> counted
    [] r.family = "comparison" -> counted \cup {AskedBefore(r), PaperCount(r, "before", "before_window"), Compared}
    [] r.family = "sites" -> {Related("hasSite"), Sited, Announced}
    [] r.family \in {"state", "returns"} -> {Related("affiliatedWith"), TraceOf(r)}
    [] r.family = "timeline" -> {Related("affiliatedWith"), Timeline}
StepSet(r) == {Subject(r), Asked(r)} \cup FamilySteps(r) \cup {Projected(r)}

\* The steps that every plan opens with.
Opening(r) == <<Subject(r), Asked(r)>>

LEMMA OpeningAssembled ==
  ASSUME NEW r, r.identifier # None
  PROVE  /\ Assembled(Opening(r), {Subject(r), Asked(r)})
         /\ Subject(r).id = "subject" /\ Binding(Subject(r)) = "entities"
         /\ Asked(r).id = "window" /\ Binding(Asked(r)) = "window"
<1>1. Fits(Subject(r), {}) /\ Subject(r).id = "subject" /\ Binding(Subject(r)) = "entities"
  BY FitsResolve
<1>2. "window" \notin IdsOf({Subject(r)})
  BY <1>1 DEF IdsOf
<1>3. Fits(Asked(r), {Subject(r)}) /\ Asked(r).id = "window" /\ Binding(Asked(r)) = "window"
  BY <1>2, FitsWindow DEF Asked
<1>4. Assembled(Append(<<>>, Subject(r)), {Subject(r)})
  <2>1. {} \cup {Subject(r)} = {Subject(r)}
    OBVIOUS
  <2> QED
    BY <1>1, <2>1, AssembledNone, AssembledMore
<1>5. Assembled(Append(Append(<<>>, Subject(r)), Asked(r)), {Subject(r)} \cup {Asked(r)})
  BY <1>3, <1>4, AssembledMore
<1>6. Opening(r) = Append(Append(<<>>, Subject(r)), Asked(r))
  <2>1. Listed(<<>>) /\ Listed(Opening(r))
    BY ListedTuples DEF Opening
  <2>2. <<>> \o Opening(r) = Append(Append(<<>>, Subject(r)), Asked(r))
    BY <2>1, CatMore DEF Opening
  <2> QED
    BY <2>1, <2>2, CatNone
<1> QED
  BY <1>1, <1>3, <1>5, <1>6

LEMMA ProjectedLast ==
  ASSUME NEW r, NEW release, NEW E, Assembled(Opening(r) \o Body(r), E), Listed(Body(r)),
         Output(r) \in IdsOf(E), "provenance" \notin IdsOf(E)
  PROVE  LET p == PlanRequest(r, release) IN
         Assembled(p.steps, E \cup {Projected(r)}) /\ IsProgram(p) /\ Accepted(p)
<1> DEFINE p == PlanRequest(r, release)
<1>1. Fits(Projected(r), E) /\ Projected(r).id = "provenance"
  BY FitsProject DEF Projected
<1>2. Assembled(Append(Opening(r) \o Body(r), Projected(r)), E \cup {Projected(r)})
  BY <1>1, AssembledMore
<1>3. p.steps = Append(Opening(r) \o Body(r), Projected(r)) /\ p.output = Output(r)
  <2>1. p.steps = (Opening(r) \o Body(r)) \o <<Projected(r)>> /\ p.output = Output(r)
    BY DEF PlanRequest, Opening
  <2>2. Listed(Opening(r) \o Body(r))
    BY DEF Assembled
  <2> QED
    BY <2>1, <2>2, CatOne
<1> HIDE DEF p
<1>4. Assembled(p.steps, E \cup {Projected(r)})
  BY <1>2, <1>3
<1>5. p.output \in IdsOf(E \cup {Projected(r)})
  BY <1>3 DEF IdsOf
<1>6. IsProgram(p) /\ Accepted(p)
  BY <1>4, <1>5, AssembledAccepted
<1> QED
  BY <1>4, <1>6 DEF p

\* The plan of r is one that the validator accepts, of these steps.
Planned(r, release) ==
  LET p == PlanRequest(r, release) IN Assembled(p.steps, StepSet(r)) /\ IsProgram(p) /\ Accepted(p)

LEMMA PlannedBy ==
  ASSUME NEW r, NEW release, Listed(Body(r)),
         Assembled(Opening(r) \o Body(r), {Subject(r), Asked(r)} \cup FamilySteps(r)),
         Output(r) \in IdsOf({Subject(r), Asked(r)} \cup FamilySteps(r)),
         "provenance" \notin IdsOf({Subject(r), Asked(r)} \cup FamilySteps(r))
  PROVE  Planned(r, release)
BY ProjectedLast DEF Planned, StepSet

LEMMA PlannedIdentity ==
  ASSUME NEW r, NEW release, r.identifier # None, r.family = "identity"
  PROVE  Planned(r, release)
<1> DEFINE E == {Subject(r), Asked(r)}
<1>1. Assembled(Opening(r), E) /\ Subject(r).id = "subject" /\ Asked(r).id = "window"
  BY OpeningAssembled
<1>2. Body(r) = <<>> /\ FamilySteps(r) = {} /\ Output(r) = "subject"
  BY DEF Body, FamilySteps, Output
<1>3. Listed(Body(r)) /\ Opening(r) \o Body(r) = Opening(r) /\ E \cup FamilySteps(r) = E
  BY <1>1, <1>2, ListedTuples, CatNone DEF Assembled
<1>4. "subject" \in IdsOf(E) /\ "provenance" \notin IdsOf(E)
  BY <1>1 DEF IdsOf
<1> QED
  BY <1>1, <1>2, <1>3, <1>4, PlannedBy

LEMMA PlannedPath ==
  ASSUME NEW r, NEW release, r.identifier # None, r.family = "path", r.relations \subseteq DOMAIN Relations
  PROVE  Planned(r, release)
<1> DEFINE E == {Subject(r), Asked(r)}
           s == Searched(r)
<1>1. /\ Assembled(Opening(r), E) /\ Subject(r).id = "subject" /\ Asked(r).id = "window"
      /\ Binding(Subject(r)) = "entities" /\ Binding(Asked(r)) = "window"
  BY OpeningAssembled
<1>2. Body(r) = <<s>> /\ FamilySteps(r) = {s} /\ Output(r) = "paths"
  BY DEF Body, FamilySteps, Output
<1>3. /\ s.op = "PathSearch" /\ s.id = "paths" /\ References \cap DOMAIN s.args = {"input", "window"}
      /\ s.deps = Refs(s.args) /\ s.args.input = "subject" /\ s.args.window = "window"
      /\ s.args.relations = r.relations
  BY DEF Searched, Step, References
<1>4. Refs(s.args) = {"subject", "window"}
  BY <1>3 DEF Refs
<1>5. Gives(E, "subject", {"entities"}) /\ Gives(E, "window", {"window"}) /\ IdsOf(E) = {"subject", "window"}
  BY <1>1 DEF Gives, IdsOf
<1> HIDE DEF s
<1>6. Fits(s, E)
  BY <1>3, <1>4, <1>5 DEF Fits, WellFormed, IsStep, Outputs, Slots
<1>7. Assembled(Opening(r) \o <<s>>, E \cup {s}) /\ Listed(<<s>>)
  BY <1>1, <1>6, AssembledThen, ListedTuples
<1>8. "paths" \in IdsOf(E \cup {s}) /\ "provenance" \notin IdsOf(E \cup {s})
  BY <1>1, <1>3 DEF IdsOf
<1> QED
  BY <1>2, <1>7, <1>8, PlannedBy

\* What the aggregate steps of a plan have in their arguments.
CountsOf(s, id, input, w, unit, institution, topic) ==
  /\ s = Step(id, "Aggregate", s.args) /\ References \cap DOMAIN s.args = {"input", "window"}
  /\ s.args.input = input /\ s.args.window = w /\ s.args.metric = "count" /\ s.args.unit = unit
  /\ s.args.institution = institution /\ s.args.topic = topic /\ s.args.source = None /\ s.args.group = "none"
  /\ s.args.attribution = IF institution # None THEN "publication_authorship" ELSE "recorded_relation"

LEMMA PaperCounting ==
  ASSUME NEW r, NEW id, NEW w, r.kind = "Institution" => r.identifier # None
  PROVE  CountsOf(PaperCount(r, id, w), id, "papers", w, "Paper", Place(r), r.topic)
<1> DEFINE s == PaperCount(r, id, w)
<1>1. DOMAIN s.args = {"input", "window", "unit", "attribution", "institution", "topic", "source", "group",
                       "metric", "subject"}
  BY DEF PaperCount, Step, Counting
<1>2. References \cap DOMAIN s.args = {"input", "window"}
  BY <1>1 DEF References
<1>3. s = Step(id, "Aggregate", s.args)
  BY DEF PaperCount, Step
<1>4. /\ s.args.input = "papers" /\ s.args.window = w /\ s.args.metric = "count" /\ s.args.unit = "Paper"
      /\ s.args.institution = Place(r) /\ s.args.topic = r.topic /\ s.args.source = None /\ s.args.group = "none"
  BY DEF PaperCount, Step, Counting
<1>5. s.args.attribution = IF Place(r) # None THEN "publication_authorship" ELSE "recorded_relation"
  <2>1. s.args.attribution = IF r.kind = "Institution" \/ r.institution # None
                             THEN "publication_authorship" ELSE "recorded_relation"
    BY DEF PaperCount, Step, Counting
  <2>2. Place(r) # None <=> r.kind = "Institution" \/ r.institution # None
    BY DEF Place
  <2> HIDE DEF s
  <2> QED
    BY <2>1, <2>2
<1> HIDE DEF s
<1>6. CountsOf(s, id, "papers", w, "Paper", Place(r), r.topic)
  BY <1>2, <1>3, <1>4, <1>5, Zenon DEF CountsOf
<1> QED
  BY <1>6 DEF s

LEMMA SiteCounting == CountsOf(Sited, "sites", "relations", "window", "Institution", None, None)
<1>1. DOMAIN Sited.args = {"input", "window", "unit", "attribution", "institution", "topic", "source", "group",
                           "metric", "subject"}
  BY DEF Sited, Step, Counting
<1>2. References \cap DOMAIN Sited.args = {"input", "window"}
  BY <1>1 DEF References
<1>3. Sited = Step("sites", "Aggregate", Sited.args)
  BY DEF Sited, Step
<1>4. /\ Sited.args.input = "relations" /\ Sited.args.window = "window" /\ Sited.args.metric = "count"
      /\ Sited.args.unit = "Institution" /\ Sited.args.institution = None /\ Sited.args.topic = None
      /\ Sited.args.source = None /\ Sited.args.group = "none"
  BY DEF Sited, Step, Counting
<1>5. Sited.args.attribution = IF None # None THEN "publication_authorship" ELSE "recorded_relation"
  BY DEF Sited, Step, Counting
<1> QED
  BY <1>2, <1>3, <1>4, <1>5, Zenon DEF CountsOf

TracesOf(r) ==
  LET a == TraceOf(r).args IN
  /\ TraceOf(r) = Step("trace", "Aggregate", a) /\ References \cap DOMAIN a = {"input", "window"}
  /\ a.input = "relations" /\ a.window = "window" /\ a.subject = r.identifier
  /\ a.metric = (IF r.family = "state" THEN "event_trace" ELSE "mobility_returns")
  /\ a.attribution = "recorded_relation"

LEMMA Tracing == ASSUME NEW r PROVE TracesOf(r)
<1> DEFINE s == TraceOf(r)
<1>1. DOMAIN s.args = {"input", "window", "unit", "attribution", "institution", "topic", "source", "group",
                       "metric", "subject"}
  BY DEF TraceOf, Step, Counting
<1>2. References \cap DOMAIN s.args = {"input", "window"}
  BY <1>1 DEF References
<1>3. s = Step("trace", "Aggregate", s.args)
  BY DEF TraceOf, Step
<1>4. /\ s.args.input = "relations" /\ s.args.window = "window" /\ s.args.subject = r.identifier
      /\ s.args.attribution = "recorded_relation"
  BY DEF TraceOf, Step, Counting
<1>5. s.args.metric = IF r.family = "state" THEN "event_trace" ELSE "mobility_returns"
  BY DEF TraceOf, Step, Counting
<1> HIDE DEF s
<1> QED
  BY <1>2, <1>3, <1>4, <1>5, Zenon DEF TracesOf, s

\* The expansion of the subject, from which most families go on.
LEMMA RelatedFits ==
  ASSUME NEW r, r.identifier # None, NEW relation \in {"affiliatedWith", "hasSite"}
  PROVE  LET s == Related(relation) IN
         Fits(s, {Subject(r), Asked(r)}) /\ s.id = "relations" /\ Binding(s) = "edges"
<1> DEFINE O == {Subject(r), Asked(r)}
           s == Related(relation)
<1>1. /\ Subject(r).id = "subject" /\ Asked(r).id = "window" /\ Binding(Subject(r)) = "entities"
  BY OpeningAssembled
<1>2. "relations" \notin IdsOf(O) /\ Gives(O, "subject", {"entities", "edges"})
  BY <1>1 DEF IdsOf, Gives
<1>3. relation \in {"authorOf", "affiliatedWith", "hasSite", "announcedSite"}
  OBVIOUS
<1> HIDE DEF O
<1>4. Fits(s, O) /\ s.id = "relations" /\ Binding(s) = "edges"
  BY <1>2, <1>3, FitsExpand DEF Related
<1> QED
  BY <1>4 DEF O

LEMMA PlannedSites ==
  ASSUME NEW r, NEW release, r.identifier # None, r.family = "sites"
  PROVE  Planned(r, release)
<1> DEFINE x == Related("hasSite")
           O == {Subject(r), Asked(r)}
           E == O \cup {x}
           F == O \cup {x, Sited}
           G == O \cup {x, Sited, Announced}
<1>1. /\ Assembled(Opening(r), O) /\ Subject(r).id = "subject" /\ Asked(r).id = "window"
      /\ Binding(Subject(r)) = "entities" /\ Binding(Asked(r)) = "window"
  BY OpeningAssembled
<1>2. Body(r) = <<x, Sited, Announced>> /\ FamilySteps(r) = {x, Sited, Announced} /\ Output(r) = "sites"
  BY DEF Body, FamilySteps, Output
<1>3. Fits(x, O) /\ x.id = "relations" /\ Binding(x) = "edges"
  BY RelatedFits
<1> HIDE DEF x
<1>4. IdsOf(E) = {"subject", "window", "relations"} /\ Gives(E, "relations", {"edges"}) /\ Gives(E, "window", {"window"})
  BY <1>1, <1>3 DEF IdsOf, Gives
<1>5. Fits(Sited, E) /\ Sited.id = "sites" /\ Binding(Sited) = "aggregate"
  <2>1. CountsOf(Sited, "sites", "relations", "window", "Institution", None, None)
    BY SiteCounting
  <2> DEFINE a == Sited.args
  <2>2. /\ Sited = Step("sites", "Aggregate", a) /\ References \cap DOMAIN a = {"input", "window"} /\ a.metric = "count"
        /\ a.input = "relations" /\ a.window = "window" /\ a.attribution # "publication_authorship"
    BY <2>1 DEF CountsOf
  <2> HIDE DEF a, E
  <2> QED
    BY <1>4, <2>2, FitsAggregate
<1>6. IdsOf(F) = {"subject", "window", "relations", "sites"} /\ Gives(F, "subject", {"entities", "edges"})
  BY <1>1, <1>3, <1>5 DEF IdsOf, Gives
<1>7. Fits(Announced, F) /\ Announced.id = "announcements"
  <2> HIDE DEF F
  <2> QED
    BY <1>6, FitsExpand DEF Announced
<1>8. Assembled(Opening(r) \o <<x, Sited, Announced>>, G) /\ Listed(<<x, Sited, Announced>>)
  BY <1>1, <1>3, <1>5, <1>7, AssembledThen, ListedTuples
<1>9. "sites" \in IdsOf(G) /\ "provenance" \notin IdsOf(G)
  BY <1>1, <1>3, <1>5, <1>7 DEF IdsOf
<1> QED
  BY <1>2, <1>8, <1>9, PlannedBy

LEMMA PlannedTrace ==
  ASSUME NEW r, NEW release, r.identifier # None, r.family \in {"state", "returns", "timeline"}
  PROVE  Planned(r, release)
<1> DEFINE x == Related("affiliatedWith")
           y == IF r.family = "timeline" THEN Timeline ELSE TraceOf(r)
           O == {Subject(r), Asked(r)}
           E == O \cup {x}
           F == O \cup {x, y}
<1>1. /\ Assembled(Opening(r), O) /\ Subject(r).id = "subject" /\ Asked(r).id = "window"
      /\ Binding(Subject(r)) = "entities" /\ Binding(Asked(r)) = "window"
  BY OpeningAssembled
<1>2. /\ Body(r) = <<x, y>> /\ FamilySteps(r) = {x, y}
      /\ Output(r) = IF r.family = "timeline" THEN "timeline" ELSE "trace"
  BY DEF Body, FamilySteps, Output
<1>3. Fits(x, O) /\ x.id = "relations" /\ Binding(x) = "edges"
  BY RelatedFits
<1> HIDE DEF x
<1>4. IdsOf(E) = {"subject", "window", "relations"} /\ Gives(E, "relations", {"edges"}) /\ Gives(E, "window", {"window"})
  BY <1>1, <1>3 DEF IdsOf, Gives
<1>5. Fits(TraceOf(r), E) /\ TraceOf(r).id = "trace"
  <2> DEFINE a == TraceOf(r).args
  <2>1. /\ TraceOf(r) = Step("trace", "Aggregate", a) /\ References \cap DOMAIN a = {"input", "window"}
        /\ a.metric \in {"event_trace", "mobility_returns"} /\ a.subject # None
        /\ a.input = "relations" /\ a.window = "window" /\ a.attribution # "publication_authorship"
    BY Tracing DEF TracesOf
  <2> HIDE DEF a, E
  <2> QED
    BY <1>4, <2>1, FitsAggregate
<1>6. Fits(Timeline, E) /\ Timeline.id = "timeline"
  <2>1. /\ Timeline.op = "FilterInterval" /\ Timeline.id = "timeline"
        /\ References \cap DOMAIN Timeline.args = {"input", "window"}
        /\ Timeline.deps = Refs(Timeline.args) /\ Timeline.args.input = "relations" /\ Timeline.args.window = "window"
    BY DEF Timeline, Step, References
  <2>2. Refs(Timeline.args) = {"relations", "window"}
    BY <2>1 DEF Refs
  <2> HIDE DEF E
  <2> QED
    BY <1>4, <2>1, <2>2 DEF Fits, WellFormed, IsStep, Outputs, Slots
<1>7. Fits(y, E) /\ y.id = IF r.family = "timeline" THEN "timeline" ELSE "trace"
  BY <1>5, <1>6
<1> HIDE DEF y
<1>8. Assembled(Opening(r) \o <<x, y>>, F) /\ Listed(<<x, y>>)
  BY <1>1, <1>3, <1>7, AssembledThen, ListedTuples
<1>9. Output(r) \in IdsOf(F) /\ "provenance" \notin IdsOf(F)
  BY <1>1, <1>2, <1>3, <1>7 DEF IdsOf
<1> QED
  BY <1>2, <1>8, <1>9, PlannedBy

\* The steps of a count of papers.
CountSet(r) == (IF r.kind = "Institution" THEN {Authors} ELSE {}) \cup {PapersOf(r), PaperCount(r, "after", "window")}

\* A count of papers in a window that has been asked for.
LEMMA PaperCountFits ==
  ASSUME NEW r, r.identifier # None, NEW E, NEW id, NEW w, id \notin IdsOf(E),
         Gives(E, "papers", {"edges"}), Gives(E, w, {"window"})
  PROVE  LET s == PaperCount(r, id, w) IN Fits(s, E) /\ s.id = id /\ Binding(s) = "aggregate"
<1> DEFINE s == PaperCount(r, id, w)
           a == s.args
<1>1. CountsOf(s, id, "papers", w, "Paper", Place(r), r.topic)
  BY PaperCounting
<1> HIDE DEF s
<1>2. /\ s = Step(id, "Aggregate", a) /\ References \cap DOMAIN a = {"input", "window"} /\ a.metric = "count"
      /\ a.input = "papers" /\ a.window = w /\ a.unit = "Paper"
      /\ a.attribution = "publication_authorship" => a.institution # None
  BY <1>1 DEF CountsOf
<1> HIDE DEF a
<1>3. Fits(s, E) /\ s.id = id /\ Binding(s) = "aggregate"
  BY <1>2, FitsAggregate
<1> QED
  BY <1>3 DEF s

LEMMA CountAssembled ==
  ASSUME NEW r, r.identifier # None
  PROVE  LET E == {Subject(r), Asked(r)} \cup CountSet(r) IN
         /\ Assembled(Opening(r) \o CountSteps(r), E) /\ Listed(CountSteps(r)) /\ "after" \in IdsOf(E)
         /\ IdsOf(E) \subseteq {"subject", "window", "authors", "papers", "after"}
         /\ Gives(E, "papers", {"edges"}) /\ Gives(E, "after", {"aggregate"})
<1> DEFINE O == {Subject(r), Asked(r)}
           x == PapersOf(r)
           y == PaperCount(r, "after", "window")
           A == IF r.kind = "Institution" THEN {Authors} ELSE {}
           a == IF r.kind = "Institution" THEN <<Authors>> ELSE <<>>
           start == IF r.kind = "Institution" THEN "authors" ELSE "subject"
<1>1. /\ Assembled(Opening(r), O) /\ Subject(r).id = "subject" /\ Asked(r).id = "window"
      /\ Binding(Subject(r)) = "entities" /\ Binding(Asked(r)) = "window"
  BY OpeningAssembled
<1>2. Listed(Opening(r)) /\ Listed(a) /\ Listed(<<x, y>>)
  BY <1>1, ListedTuples DEF Assembled
<1>3. Fits(Authors, O) /\ Authors.id = "authors" /\ Binding(Authors) = "edges"
  <2>1. "authors" \notin IdsOf(O) /\ Gives(O, "subject", {"entities", "edges"})
    BY <1>1 DEF IdsOf, Gives
  <2> HIDE DEF O
  <2> QED
    BY <2>1, FitsExpand DEF Authors
<1>4. Assembled(Opening(r) \o a, O \cup A)
  <2>1. CASE r.kind = "Institution"
    BY <1>1, <1>3, <2>1, AssembledThen
  <2>2. CASE r.kind # "Institution"
    <3>1. Opening(r) \o a = Opening(r) /\ O \cup A = O
      BY <1>2, <2>2, CatNone
    <3> QED
      BY <1>1, <3>1
  <2> QED
    BY <2>1, <2>2
<1> DEFINE E == O \cup A
<1>5. /\ IdsOf(E) \subseteq {"subject", "window", "authors"}
      /\ Gives(E, start, {"entities", "edges"}) /\ Gives(E, "window", {"window"})
  BY <1>1, <1>3 DEF IdsOf, Gives
<1>6. Fits(x, E) /\ x.id = "papers" /\ Binding(x) = "edges"
  <2>1. "papers" \notin IdsOf(E)
    BY <1>5
  <2> HIDE DEF E
  <2> QED
    BY <1>5, <2>1, FitsExpand DEF PapersOf
<1> HIDE DEF x, E, a, A
<1>7. Gives(E \cup {x}, "papers", {"edges"}) /\ Gives(E \cup {x}, "window", {"window"}) /\ "after" \notin IdsOf(E \cup {x})
  BY <1>5, <1>6 DEF Gives, IdsOf
<1>8. Fits(y, E \cup {x}) /\ y.id = "after" /\ Binding(y) = "aggregate"
  BY <1>7, PaperCountFits
<1> HIDE DEF y
<1>9. Assembled((Opening(r) \o a) \o <<x, y>>, E \cup {x, y})
  BY <1>4, <1>6, <1>8, AssembledThen DEF E
<1>10. CountSteps(r) = a \o <<x, y>> /\ O \cup CountSet(r) = E \cup {x, y}
  BY DEF CountSteps, CountSet, a, x, y, A, E
<1>11. Opening(r) \o CountSteps(r) = (Opening(r) \o a) \o <<x, y>> /\ Listed(CountSteps(r))
  BY <1>2, <1>10, CatCat, CatFacts
<1>12. /\ IdsOf(E \cup {x, y}) \subseteq {"subject", "window", "authors", "papers", "after"}
       /\ "after" \in IdsOf(E \cup {x, y})
       /\ Gives(E \cup {x, y}, "papers", {"edges"}) /\ Gives(E \cup {x, y}, "after", {"aggregate"})
  BY <1>5, <1>6, <1>8 DEF IdsOf, Gives
<1> QED
  BY <1>9, <1>10, <1>11, <1>12

LEMMA PlannedCount ==
  ASSUME NEW r, NEW release, r.identifier # None, r.family = "count"
  PROVE  Planned(r, release)
<1> DEFINE E == {Subject(r), Asked(r)} \cup CountSet(r)
<1>1. /\ Assembled(Opening(r) \o CountSteps(r), E) /\ Listed(CountSteps(r)) /\ "after" \in IdsOf(E)
      /\ IdsOf(E) \subseteq {"subject", "window", "authors", "papers", "after"}
  BY CountAssembled
<1>2. Body(r) = CountSteps(r) /\ FamilySteps(r) = CountSet(r) /\ Output(r) = "after"
  BY DEF Body, FamilySteps, Output, CountSet
<1>3. "provenance" \notin IdsOf(E)
  BY <1>1
<1> QED
  BY <1>1, <1>2, <1>3, PlannedBy

LEMMA PlannedComparison ==
  ASSUME NEW r, NEW release, r.identifier # None, r.family = "comparison"
  PROVE  Planned(r, release)
<1> DEFINE E == {Subject(r), Asked(r)} \cup CountSet(r)
           x == AskedBefore(r)
           y == PaperCount(r, "before", "before_window")
           z == Compared
<1>1. /\ Assembled(Opening(r) \o CountSteps(r), E) /\ Listed(CountSteps(r))
      /\ IdsOf(E) \subseteq {"subject", "window", "authors", "papers", "after"}
      /\ Gives(E, "papers", {"edges"}) /\ Gives(E, "after", {"aggregate"})
  BY CountAssembled
<1>2. /\ Body(r) = CountSteps(r) \o <<x, y, z>> /\ FamilySteps(r) = CountSet(r) \cup {x, y, z}
      /\ Output(r) = "comparison"
  BY DEF Body, FamilySteps, Output, CountSet
<1> HIDE DEF E
<1>3. Fits(x, E) /\ x.id = "before_window" /\ Binding(x) = "window"
  <2>1. "before_window" \notin IdsOf(E)
    BY <1>1
  <2> QED
    BY <2>1, FitsWindow DEF AskedBefore
<1> HIDE DEF x
<1>4. Fits(y, E \cup {x}) /\ y.id = "before" /\ Binding(y) = "aggregate"
  <2>1. /\ "before" \notin IdsOf(E \cup {x}) /\ Gives(E \cup {x}, "papers", {"edges"})
        /\ Gives(E \cup {x}, "before_window", {"window"})
    BY <1>1, <1>3 DEF IdsOf, Gives
  <2> QED
    BY <2>1, PaperCountFits
<1> HIDE DEF y
<1>5. Fits(z, E \cup {x, y}) /\ z.id = "comparison"
  <2>1. /\ "comparison" \notin IdsOf(E \cup {x, y}) /\ {"before", "after"} \subseteq IdsOf(E \cup {x, y})
        /\ Gives(E \cup {x, y}, "before", {"aggregate"}) /\ Gives(E \cup {x, y}, "after", {"aggregate"})
    BY <1>1, <1>3, <1>4 DEF IdsOf, Gives
  <2>2. /\ z.op = "CompareWindows" /\ z.id = "comparison" /\ References \cap DOMAIN z.args = {"left", "right"}
        /\ z.deps = Refs(z.args) /\ z.args.left = "before" /\ z.args.right = "after"
    BY DEF Compared, Step, References
  <2>3. Refs(z.args) = {"before", "after"} /\ "window" \notin DOMAIN z.args
    BY <2>2 DEF Refs, References
  <2> HIDE DEF z
  <2> QED
    BY <2>1, <2>2, <2>3 DEF Fits, WellFormed, IsStep, Outputs, Slots
<1> HIDE DEF z
<1>6. Assembled((Opening(r) \o CountSteps(r)) \o <<x, y, z>>, E \cup {x, y, z})
  BY <1>1, <1>3, <1>4, <1>5, AssembledThen
<1>7. Opening(r) \o Body(r) = (Opening(r) \o CountSteps(r)) \o <<x, y, z>> /\ Listed(Body(r))
  <2>1. Listed(Opening(r)) /\ Listed(<<x, y, z>>)
    BY ListedTuples DEF Opening
  <2> QED
    BY <1>1, <1>2, <2>1, CatCat, CatFacts
<1>8. {Subject(r), Asked(r)} \cup FamilySteps(r) = E \cup {x, y, z}
  BY <1>2 DEF E
<1>9. "comparison" \in IdsOf(E \cup {x, y, z}) /\ "provenance" \notin IdsOf(E \cup {x, y, z})
  BY <1>1, <1>3, <1>4, <1>5 DEF IdsOf
<1> QED
  BY <1>2, <1>6, <1>7, <1>8, <1>9, PlannedBy

\* The plan of a request for a known subject is accepted by the validator if the
\* relations it asks for exist, and only then (requests.py against graph_program.py).
THEOREM PlanAccepted ==
  ASSUME NEW r, NEW release, IsRequest(r), r.identifier # None
  PROVE  Accepted(PlanRequest(r, release)) <=> Plannable(r)
<1>1. ASSUME Plannable(r) PROVE Planned(r, release)
  <2>1. r.family \in {"identity", "path", "count", "comparison", "sites", "state", "returns", "timeline"}
    BY DEF IsRequest
  <2> QED
    BY <1>1, <2>1, PlannedIdentity, PlannedPath, PlannedCount, PlannedComparison, PlannedSites, PlannedTrace DEF Plannable
<1>2. ASSUME ~Plannable(r) PROVE ~Accepted(PlanRequest(r, release))
  <2> DEFINE p == PlanRequest(r, release)
             s == Searched(r)
  <2>1. r.family = "path" /\ ~(r.relations \subseteq DOMAIN Relations)
    BY <1>2 DEF Plannable
  <2>2. p.steps = (Opening(r) \o <<s>>) \o <<Projected(r)>>
    BY <2>1 DEF PlanRequest, Opening, Body
  <2>3. Listed(Opening(r)) /\ Len(Opening(r)) = 2 /\ Listed(<<s>>) /\ Len(<<s>>) = 1 /\ <<s>>[1] = s
    BY ListedTuples DEF Opening
  <2>4. Listed(Opening(r) \o <<s>>) /\ Len(Opening(r) \o <<s>>) = 3 /\ (Opening(r) \o <<s>>)[3] = s
    <3> DEFINE one == <<s>>
    <3> HIDE DEF s
    <3>0. Listed(one) /\ Len(one) = 1 /\ one[1] = s /\ Listed(Opening(r)) /\ Len(Opening(r)) = 2
      BY <2>3
    <3> SUFFICES Listed(Opening(r) \o one) /\ Len(Opening(r) \o one) = 3 /\ (Opening(r) \o one)[3] = s
      OBVIOUS
    <3> HIDE DEF one
    <3>1. 3 \in 1..(Len(Opening(r)) + Len(one)) /\ ~(3 <= Len(Opening(r))) /\ 3 - Len(Opening(r)) = 1
      BY <3>0
    <3>2. (Opening(r) \o one)[3] = one[3 - Len(Opening(r))]
      BY <3>0, <3>1, CatFacts
    <3>3. Listed(Opening(r) \o one) /\ Len(Opening(r) \o one) = Len(Opening(r)) + Len(one)
      BY <3>0, CatFacts
    <3>4. Len(Opening(r)) + Len(one) = 3
      BY <3>0
    <3> QED
      BY <3>0, <3>1, <3>2, <3>3, <3>4
  <2>5. Listed(<<Projected(r)>>) /\ Len(<<Projected(r)>>) = 1
    BY ListedTuples
  <2>6. Listed(p.steps) /\ Len(p.steps) = 4 /\ p.steps[3] = s
    <3> HIDE DEF s, p
    <3> QED
      BY <2>2, <2>4, <2>5, CatFacts
  <2>7. 3 \in DOMAIN p.steps
    BY <2>6, ListedFacts
  <2>8. ~WellFormed(s)
    BY <2>1 DEF WellFormed, Searched, Step
  <2> HIDE DEF p, s
  <2>9. Accepted(p) => WellFormed(p.steps[3])
    BY <2>7, Zenon DEF Accepted
  <2> QED
    BY <2>6, <2>8, <2>9 DEF p
<1> QED
  BY <1>1, <1>2 DEF Planned

-----------------------------------------------------------------------------
\* The values of an executed plan.

\* The value of the step s is what its operation returns on the values it refers to.
Performed(g, s, values) ==
  \E v, k :
    LET r == Perform(g, s, v, k) IN
    /\ Readable(s, v) /\ \A x \in Refs(s.args) : v[x] = values[x]
    /\ values[s.id] = r /\ ~Failed(r) /\ r.type = Binding(s)

LEMMA Executing ==
  ASSUME NEW g, NEW p, NEW release, NEW known, NEW E, Assembled(p.steps, E), Accepted(p),
         Execute(g, p, release, known).stop = None
  PROVE  LET e == Execute(g, p, release, known) IN
         /\ DOMAIN e.values = IdsOf(E) /\ e.state = known
         /\ \A s \in E : Performed(g, s, e.values)
<1> DEFINE e == Execute(g, p, release, known)
           run == Runs(g, p, release, known)
           K == Len(p.steps)
<1>1. IsProgram(p) /\ K \in Nat /\ DOMAIN p.steps = 1..K /\ E = {p.steps[i] : i \in DOMAIN p.steps}
  BY AssembledAccepted, ProgramLength DEF Assembled
<1>2. Running(g, p, release, known, run) /\ Distinct(p)
  BY <1>1, RunsAre, AcceptedDistinct
<1>3. e = run[K]
  BY NoneAssumption DEF Execute, Failures
<1> HIDE DEF run, e
<1>4. ASSUME NEW n \in 0..K PROVE Accounted(g, p, run, n) /\ Typed(p, run, n)
  BY <1>1, <1>2, <1>4, Accounts, RunTyped
<1>5. K \in 0..K /\ run[K].stop = None
  BY <1>1, <1>3 DEF e
<1>6. Accounted(g, p, run, K)
  BY <1>4, <1>5
<1>7. DOMAIN e.values = IdsOf(E)
  <2>1. DOMAIN e.values = {p.steps[i].id : i \in 1..K}
    BY <1>3, <1>5, <1>6 DEF Accounted
  <2> QED
    BY <1>1, <2>1 DEF IdsOf
<1>8. ASSUME NEW s \in E PROVE Performed(g, s, e.values)
  <2>1. PICK i \in 1..K : s = p.steps[i]
    BY <1>1
  <2>2. i - 1 \in 0..K /\ 1..(i - 1) \subseteq 1..K
    BY <1>1
  <2> DEFINE v == run[i - 1].values
             k == run[i - 1].state
             r == Perform(g, s, v, k)
  <2>3. run[i - 1].stop = None /\ e.values[s.id] = r /\ ~Failed(r)
    BY <1>3, <1>5, <1>6, <2>1, <2>2 DEF Accounted
  <2>4. Bound(p, i) /\ IsStep(s)
    BY <1>1, <2>1, AcceptedBound DEF IsProgram
  <2>5. Readable(s, v)
    BY <1>1, <1>4, <2>1, <2>2, <2>3, <2>4, NextReadable
  <2>6. ASSUME NEW x \in Refs(s.args) PROVE v[x] = e.values[x]
    <3>1. PICK j \in 1..(i - 1) : x = p.steps[j].id
      BY <2>1, <2>4 DEF Bound
    <3>2. v[x] = Perform(g, p.steps[j], run[j - 1].values, run[j - 1].state)
      <4>1. Accounted(g, p, run, i - 1)
        BY <1>4, <2>2
      <4> QED
        BY <2>3, <3>1, <4>1 DEF Accounted
    <3>3. e.values[x] = Perform(g, p.steps[j], run[j - 1].values, run[j - 1].state)
      <4>1. j \in 1..K
        BY <2>2
      <4> QED
        BY <1>3, <1>5, <1>6, <3>1, <4>1 DEF Accounted
    <3> QED
      BY <3>2, <3>3
  <2>7. r.type = Binding(s)
    <3>1. Typed(p, run, K)
      BY <1>4, <1>5
    <3>2. run[K].values[s.id].type = Binding(s)
      BY <1>5, <2>1, <3>1 DEF Typed
    <3> QED
      BY <1>3, <2>3, <3>2
  <2> QED
    BY <2>3, <2>5, <2>6, <2>7 DEF Performed
<1>9. e.state = known
  <2> DEFINE T == {n \in Nat : n <= K => run[n].state = known}
  <2>1. 0 \in T
    BY <1>2 DEF Running, Opened
  <2>2. ASSUME NEW n \in Nat, n \in T PROVE n + 1 \in T
    <3> SUFFICES ASSUME n + 1 <= K PROVE run[n + 1].state = known
      OBVIOUS
    <3> DEFINE s == p.steps[n + 1]
               r == Perform(g, s, run[n].values, run[n].state)
    <3>1. n + 1 \in 1..K /\ (n + 1) - 1 = n /\ n <= K
      BY <1>1
    <3>2. run[n + 1] = Advanced(run[n], s, r, release)
      BY <1>2, <3>1 DEF Running, Stepped
    <3>3. run[n].state = known
      BY <2>2, <3>1
    <3>4. s.op # "UpdateState"
      <4>1. Fits(s, Prior(p.steps, n + 1))
        BY <1>1, <3>1 DEF Assembled
      <4> QED
        BY <4>1 DEF Fits
    <3> HIDE DEF r, s
    <3> QED
      BY <3>2, <3>3, <3>4 DEF Advanced
  <2>3. Nat \subseteq T
    <3> HIDE DEF T
    <3> QED
      BY <2>1, <2>2, SetInduction
  <2> QED
    BY <1>1, <1>3, <2>3
<1> QED
  BY <1>7, <1>8, <1>9 DEF e

\* The parts of a result that a claim is made of.
Reported(v) == v.complete = TRUE /\ v.type \in DOMAIN Predicates

\* What is not a failure is complete.
LEMMA ResolveDone == ASSUME NEW g, NEW q, Resolve(g, q).type = "entities" PROVE Resolve(g, q).complete = TRUE
  BY DEF Resolve, Fail
LEMMA FilterDone == ASSUME NEW g, NEW q, NEW v, Filter(g, q, v).type = "edges" PROVE Filter(g, q, v).complete = TRUE
  BY DEF Filter, Fail
LEMMA ExpandDone == ASSUME NEW g, NEW q, NEW v, Expand(g, q, v).type = "edges" PROVE Expand(g, q, v).complete = TRUE
  BY DEF Expand, Fail
LEMMA CountDone == ASSUME NEW g, NEW q, NEW v, Count(g, q, v).type = "aggregate" PROVE Count(g, q, v).complete = TRUE
  BY DEF Count, Fail
LEMMA PathsDone == ASSUME NEW g, NEW q, NEW v, Paths(g, q, v).type = "paths" PROVE Paths(g, q, v).complete = TRUE
  BY DEF Paths, Fail
LEMMA CompareDone == ASSUME NEW q, NEW v, Compare(q, v).type = "comparison" PROVE Compare(q, v).complete = TRUE
  BY DEF Compare, Fail
LEMMA AggregateDone ==
  ASSUME NEW g, NEW q, NEW v, ~Failed(Aggregate(g, q, v)) PROVE Aggregate(g, q, v).complete = TRUE
<1>1. Aggregate(g, q, v) = Count(g, q, v) => Aggregate(g, q, v).complete = TRUE
  BY CountDone, CountType DEF Failed, Failures
<1> QED
  BY <1>1 DEF Aggregate, Fail, EventTrace, ReturnMoves, Failed, Failures

\* What each operation does, of the type that the validator expects.
LEMMA PerformsBy ==
  ASSUME NEW g, NEW s, NEW v, NEW k, Readable(s, v), Perform(g, s, v, k).type = Binding(s)
  PROVE  LET r == Perform(g, s, v, k) IN
         /\ s.op = "ResolveEntity" => r = Resolve(g, s.args) /\ r.type = "entities"
         /\ s.op = "FilterInterval" => r = Filter(g, s.args, v) /\ r.type = "edges"
         /\ s.op = "Expand" => r = Expand(g, s.args, v) /\ r.type = "edges"
         /\ s.op = "PathSearch" => r = Paths(g, s.args, v) /\ r.type = "paths"
         /\ s.op = "CompareWindows" => r = Compare(s.args, v) /\ r.type = "comparison"
         /\ s.op = "Aggregate" => r = Aggregate(g, s.args, v)
<1> DEFINE r == Perform(g, s, v, k)
<1>1. s.op = "ResolveEntity" => r = Resolve(g, s.args) /\ r.type = "entities"
  BY DEF Perform, Binding, Outputs
<1>2. s.op = "FilterInterval" => r = Filter(g, s.args, v) /\ r.type = "edges"
  BY DEF Perform, Binding, Outputs
<1>3. s.op = "Expand" => r = Expand(g, s.args, v) /\ r.type = "edges"
  BY DEF Perform, Binding, Outputs
<1>4. s.op = "PathSearch" => r = Paths(g, s.args, v) /\ r.type = "paths"
  BY DEF Perform, Binding, Outputs
<1>5. s.op = "CompareWindows" => r = Compare(s.args, v) /\ r.type = "comparison"
  BY DEF Perform, Binding, Outputs
<1>6. s.op = "Aggregate" => r = Aggregate(g, s.args, v)
  BY DEF Perform
<1> HIDE DEF r
<1> QED
  BY <1>1, <1>2, <1>3, <1>4, <1>5, <1>6, Zenon DEF r

LEMMA PerformReported ==
  ASSUME NEW g, NEW s, NEW values, Performed(g, s, values), IsStep(s),
         s.op \in {"ResolveEntity", "FilterInterval", "Expand", "Aggregate", "PathSearch", "CompareWindows"}
  PROVE  Reported(values[s.id])
<1>1. PICK v, k : /\ Readable(s, v) /\ values[s.id] = Perform(g, s, v, k)
                  /\ Perform(g, s, v, k).type = Binding(s)
  BY DEF Performed
<1> DEFINE r == Perform(g, s, v, k)
<1>2. /\ s.op = "ResolveEntity" => r = Resolve(g, s.args) /\ r.type = "entities"
      /\ s.op = "FilterInterval" => r = Filter(g, s.args, v) /\ r.type = "edges"
      /\ s.op = "Expand" => r = Expand(g, s.args, v) /\ r.type = "edges"
      /\ s.op = "PathSearch" => r = Paths(g, s.args, v) /\ r.type = "paths"
      /\ s.op = "CompareWindows" => r = Compare(s.args, v) /\ r.type = "comparison"
      /\ s.op = "Aggregate" => r = Aggregate(g, s.args, v)
  BY <1>1, PerformsBy
<1>3. s.op = "Aggregate" => /\ r = Aggregate(g, s.args, v)
                            /\ r.type \in {"aggregate", "event_trace", "mobility_returns"}
  <2> HIDE DEF r
  <2> QED
    BY <1>1, <1>2 DEF Binding, Outputs, IsStep, r
<1>4. r.complete = TRUE
  <2> HIDE DEF r
  <2>1. s.op = "ResolveEntity" => r.complete = TRUE
    BY <1>2, ResolveDone
  <2>2. s.op = "FilterInterval" => r.complete = TRUE
    BY <1>2, FilterDone
  <2>3. s.op = "Expand" => r.complete = TRUE
    BY <1>2, ExpandDone
  <2>4. s.op = "PathSearch" => r.complete = TRUE
    BY <1>2, PathsDone
  <2>5. s.op = "CompareWindows" => r.complete = TRUE
    BY <1>2, CompareDone
  <2>6. ASSUME s.op = "Aggregate" PROVE r.complete = TRUE
    <3>1. r = Aggregate(g, s.args, v)
      BY <1>3, <2>6
    <3>2. ~Failed(r)
      BY <1>3, <2>6 DEF Failed, Failures
    <3> QED
      BY <3>1, <3>2, AggregateDone
  <2> QED
    BY <2>1, <2>2, <2>3, <2>4, <2>5, <2>6
<1>5. r.type \in DOMAIN Predicates
  <2> HIDE DEF r
  <2> QED
    BY <1>2, <1>3 DEF Predicates
<1> QED
  BY <1>1, <1>4, <1>5 DEF Reported

\* A result of a window is of the one it was asked for.
LEMMA Windowless ==
  /\ \A g, q : Resolve(g, q).type = "entities" => "window" \notin DOMAIN Resolve(g, q)
  /\ \A g, q, v : Expand(g, q, v).type = "edges" => "window" \notin DOMAIN Expand(g, q, v)
  /\ \A q, v : Compare(q, v).type = "comparison" => "window" \notin DOMAIN Compare(q, v)
<1>1. \A g, q : Resolve(g, q).type = "entities" => "window" \notin DOMAIN Resolve(g, q)
  BY DEF Resolve, Fail
<1>2. \A g, q, v : Expand(g, q, v).type = "edges" => "window" \notin DOMAIN Expand(g, q, v)
  BY DEF Expand, Fail
<1>3. \A q, v : Compare(q, v).type = "comparison" => "window" \notin DOMAIN Compare(q, v)
  BY DEF Compare, Fail
<1> QED
  BY <1>1, <1>2, <1>3
LEMMA FilterWindow == ASSUME NEW g, NEW q, NEW v, Filter(g, q, v).type = "edges"
                      PROVE Filter(g, q, v).window = Windowed(v, q)
  BY DEF Filter, Fail
LEMMA CountWindow == ASSUME NEW g, NEW q, NEW v, Count(g, q, v).type = "aggregate"
                     PROVE Count(g, q, v).window = Windowed(v, q)
  BY DEF Count, Fail
LEMMA PathsWindow == ASSUME NEW g, NEW q, NEW v, Paths(g, q, v).type = "paths"
                     PROVE Paths(g, q, v).window = Windowed(v, q)
  BY DEF Paths, Fail
LEMMA AggregateWindow ==
  ASSUME NEW g, NEW q, NEW v, ~Failed(Aggregate(g, q, v)) PROVE Aggregate(g, q, v).window = Windowed(v, q)
<1>1. Aggregate(g, q, v) = Count(g, q, v) => Aggregate(g, q, v).window = Windowed(v, q)
  BY CountWindow, CountType DEF Failed, Failures
<1> QED
  BY <1>1 DEF Aggregate, Fail, EventTrace, ReturnMoves, Failed, Failures

Claimable == {"ResolveEntity", "FilterInterval", "Expand", "Aggregate", "PathSearch", "CompareWindows"}

LEMMA PerformWindow ==
  ASSUME NEW g, NEW s, NEW values, Performed(g, s, values), IsStep(s), s.op \in Claimable,
         "window" \in DOMAIN values[s.id]
  PROVE  "window" \in DOMAIN s.args /\ values[s.id].window = values[s.args.window].period
<1>1. PICK v, k : /\ Readable(s, v) /\ values[s.id] = Perform(g, s, v, k) /\ ~Failed(Perform(g, s, v, k))
                  /\ Perform(g, s, v, k).type = Binding(s) /\ \A x \in Refs(s.args) : v[x] = values[x]
  BY DEF Performed
<1> DEFINE r == Perform(g, s, v, k)
<1>2. /\ s.op = "ResolveEntity" => r = Resolve(g, s.args) /\ r.type = "entities"
      /\ s.op = "FilterInterval" => r = Filter(g, s.args, v) /\ r.type = "edges"
      /\ s.op = "Expand" => r = Expand(g, s.args, v) /\ r.type = "edges"
      /\ s.op = "PathSearch" => r = Paths(g, s.args, v) /\ r.type = "paths"
      /\ s.op = "CompareWindows" => r = Compare(s.args, v) /\ r.type = "comparison"
      /\ s.op = "Aggregate" => r = Aggregate(g, s.args, v)
  BY <1>1, PerformsBy
<1>3. s.op \in {"FilterInterval", "Aggregate", "PathSearch"}
  <2>0. "window" \in DOMAIN r
    BY <1>1
  <2> HIDE DEF r
  <2>1. s.op # "ResolveEntity"
    BY <1>2, <2>0, Windowless
  <2>2. s.op # "Expand"
    BY <1>2, <2>0, Windowless
  <2>3. s.op # "CompareWindows"
    BY <1>2, <2>0, Windowless
  <2> QED
    BY <2>1, <2>2, <2>3 DEF Claimable
<1>4. "window" \in DOMAIN s.args
  <2>1. "window" \in Slots[s.op]
    BY <1>3 DEF Slots
  <2> QED
    BY <2>1 DEF IsStep
<1>5. v[s.args.window] = values[s.args.window]
  <2>1. s.args.window \in Refs(s.args)
    BY <1>4 DEF Refs, References
  <2> QED
    BY <1>1, <2>1
<1>6. r.window = Windowed(v, s.args)
  <2>0. ~Failed(r)
    BY <1>1
  <2> HIDE DEF r
  <2>1. s.op = "FilterInterval" => r.window = Windowed(v, s.args)
    BY <1>2, FilterWindow
  <2>2. s.op = "PathSearch" => r.window = Windowed(v, s.args)
    BY <1>2, PathsWindow
  <2>3. s.op = "Aggregate" => r.window = Windowed(v, s.args)
    BY <1>2, <2>0, AggregateWindow
  <2> QED
    BY <1>3, <2>1, <2>2, <2>3
<1> QED
  BY <1>1, <1>4, <1>5, <1>6 DEF Windowed

-----------------------------------------------------------------------------
\* Claims: what is drafted is licensed, but for a cause.

\* A step whose result is claimed, and of the window that the request is about.
Claims(r, x) == \E s \in StepSet(r) : /\ s.id = x /\ s.op \in Claimable
                                      /\ x # "before" /\ "window" \in DOMAIN s.args => s.args.window = "window"

LEMMA StepIds ==
  ASSUME NEW r
  PROVE  /\ Subject(r).id = "subject" /\ Subject(r).op = "ResolveEntity" /\ "window" \notin DOMAIN Subject(r).args
         /\ Asked(r).id = "window" /\ Asked(r).op = "NormalizeTime" /\ Asked(r).args.period = r.window
         /\ Timeline.id = "timeline" /\ Timeline.op = "FilterInterval" /\ Timeline.args.window = "window"
         /\ Searched(r).id = "paths" /\ Searched(r).op = "PathSearch" /\ Searched(r).args.window = "window"
         /\ Announced.id = "announcements" /\ Announced.op = "Expand" /\ "window" \notin DOMAIN Announced.args
         /\ Compared.id = "comparison" /\ Compared.op = "CompareWindows" /\ "window" \notin DOMAIN Compared.args
         /\ Sited.id = "sites" /\ Sited.op = "Aggregate" /\ Sited.args.window = "window"
         /\ TraceOf(r).id = "trace" /\ TraceOf(r).op = "Aggregate" /\ TraceOf(r).args.window = "window"
         /\ PaperCount(r, "after", "window").id = "after" /\ PaperCount(r, "after", "window").op = "Aggregate"
         /\ PaperCount(r, "after", "window").args.window = "window"
         /\ PaperCount(r, "before", "before_window").id = "before"
         /\ PaperCount(r, "before", "before_window").op = "Aggregate"
<1>1. /\ Subject(r).id = "subject" /\ Subject(r).op = "ResolveEntity" /\ "window" \notin DOMAIN Subject(r).args
      /\ Asked(r).id = "window" /\ Asked(r).op = "NormalizeTime" /\ Asked(r).args.period = r.window
  BY DEF Subject, Asked, Step
<1>2. /\ Timeline.id = "timeline" /\ Timeline.op = "FilterInterval" /\ Timeline.args.window = "window"
      /\ Searched(r).id = "paths" /\ Searched(r).op = "PathSearch" /\ Searched(r).args.window = "window"
      /\ Compared.id = "comparison" /\ Compared.op = "CompareWindows" /\ "window" \notin DOMAIN Compared.args
  BY DEF Timeline, Searched, Compared, Step
<1>3. Announced.id = "announcements" /\ Announced.op = "Expand" /\ "window" \notin DOMAIN Announced.args
  BY DEF Announced, ExpandBy, Step
<1>4. /\ Sited.id = "sites" /\ Sited.op = "Aggregate" /\ Sited.args.window = "window"
      /\ TraceOf(r).id = "trace" /\ TraceOf(r).op = "Aggregate" /\ TraceOf(r).args.window = "window"
  BY DEF Sited, TraceOf, Counting, Step
<1>5. /\ PaperCount(r, "after", "window").id = "after" /\ PaperCount(r, "after", "window").op = "Aggregate"
      /\ PaperCount(r, "after", "window").args.window = "window"
      /\ PaperCount(r, "before", "before_window").id = "before"
      /\ PaperCount(r, "before", "before_window").op = "Aggregate"
  BY DEF PaperCount, Counting, Step
<1> QED
  BY <1>1, <1>2, <1>3, <1>4, <1>5, Zenon

LEMMA SelectedSteps ==
  ASSUME NEW r, NEW release, IsRequest(r)
  PROVE  LET sel == Selected(r, PlanRequest(r, release)) IN
         /\ Listed(sel) /\ Len(sel) \in 1..3
         /\ \A i, j \in 1..Len(sel) : sel[i] = sel[j] => i = j
         /\ \A i \in 1..Len(sel) : Claims(r, sel[i])
<1> DEFINE p == PlanRequest(r, release)
           sel == Selected(r, p)
<1>1. p.output = Output(r)
  BY DEF PlanRequest
<1>2. CASE r.family = "comparison"
  <2>1. sel = <<"before", "after", "comparison">>
    BY <1>1, <1>2 DEF Selected, Output
  <2>2. Claims(r, "before") /\ Claims(r, "after") /\ Claims(r, "comparison")
    <3>1. {PaperCount(r, "after", "window"), PaperCount(r, "before", "before_window"), Compared} \subseteq StepSet(r)
      BY <1>2 DEF StepSet, FamilySteps
    <3> QED
      BY <3>1, StepIds DEF Claims, Claimable
  <2>3. Listed(sel)
    BY <2>1, ListedTuples
  <2> QED
    BY <2>1, <2>2, <2>3
<1>3. CASE r.family = "sites"
  <2>1. sel = <<"sites", "announcements">>
    BY <1>1, <1>3 DEF Selected, Output
  <2>2. Claims(r, "sites") /\ Claims(r, "announcements")
    <3>1. {Sited, Announced} \subseteq StepSet(r)
      BY <1>3 DEF StepSet, FamilySteps
    <3> QED
      BY <3>1, StepIds DEF Claims, Claimable
  <2>3. Listed(sel)
    BY <2>1, ListedTuples
  <2> QED
    BY <2>1, <2>2, <2>3
<1>4. CASE r.family \notin {"comparison", "sites"}
  <2>1. sel = <<Output(r)>>
    BY <1>1, <1>4 DEF Selected
  <2>2. Claims(r, Output(r))
    <3>1. /\ r.family = "identity" => Subject(r) \in StepSet(r) /\ Output(r) = "subject"
          /\ r.family = "path" => Searched(r) \in StepSet(r) /\ Output(r) = "paths"
          /\ r.family = "count" => PaperCount(r, "after", "window") \in StepSet(r) /\ Output(r) = "after"
          /\ r.family \in {"state", "returns"} => TraceOf(r) \in StepSet(r) /\ Output(r) = "trace"
          /\ r.family = "timeline" => Timeline \in StepSet(r) /\ Output(r) = "timeline"
      BY DEF StepSet, FamilySteps, Output
    <3>2. r.family \in {"identity", "path", "count", "state", "returns", "timeline"}
      BY <1>4 DEF IsRequest
    <3> QED
      BY <3>1, <3>2, StepIds DEF Claims, Claimable
  <2>3. Listed(sel)
    BY <2>1, ListedTuples
  <2> QED
    BY <2>1, <2>2, <2>3
<1> QED
  BY <1>2, <1>3, <1>4

\* A list of the values of a function.
LEMMA ListedFunction ==
  ASSUME NEW n \in Nat, NEW f, DOMAIN f = 1..n, f = [i \in 1..n |-> f[i]]
  PROVE  Listed(f) /\ Len(f) = n
<1> DEFINE S == {f[i] : i \in 1..n}
<1>1. f \in [1..n -> S]
  OBVIOUS
<1>2. f \in Seq(S) /\ Len(f) = n
  <2> HIDE DEF S
  <2> QED
    BY <1>1
<1> QED
  BY <1>2 DEF Listed

Extra(r) == IF r.causal THEN 1 ELSE 0

\* A draft has one candidate for each selected step, and then the cause, if asked.
Drafted(r, sel, pool, d) ==
  /\ Listed(d) /\ Len(d) = Len(sel) + Extra(r)
  /\ \A i \in 1..Len(sel) : d[i] = Candidate(sel[i], pool[sel[i]], r.scope)
  /\ \A i \in (Len(sel) + 1)..Len(d) : Causal(d[i])

LEMMA Drafts ==
  ASSUME NEW r, NEW release, NEW pool, IsRequest(r)
  PROVE  LET p == PlanRequest(r, release) IN Drafted(r, Selected(r, p), pool, Draft(r, p, pool))
<1> DEFINE p == PlanRequest(r, release)
           sel == Selected(r, p)
           n == Len(sel)
           claims == [i \in DOMAIN sel |-> Candidate(sel[i], pool[sel[i]], r.scope)]
           base == claims[Len(claims)]
           cause == [base EXCEPT !.id = Append(@, "causal"), !.predicate = "causal_effect",
                                 !.value = [effect |-> TRUE]]
           more == IF r.causal THEN <<cause>> ELSE <<>>
           d == Draft(r, p, pool)
<1>1. Listed(sel) /\ n \in 1..3 /\ DOMAIN sel = 1..n
  BY SelectedSteps, ListedFacts
<1>2. d = claims \o more
  BY DEF Draft
<1>3. Listed(claims) /\ Len(claims) = n
  <2>1. DOMAIN claims = 1..n /\ claims = [i \in 1..n |-> claims[i]] /\ n \in Nat
    BY <1>1
  <2> HIDE DEF claims, n
  <2> QED
    BY <2>1, ListedFunction
<1>4. Causal(cause)
  <2>1. n \in DOMAIN sel /\ base = Candidate(sel[n], pool[sel[n]], r.scope)
    BY <1>1, <1>3
  <2>2. "predicate" \in DOMAIN base
    <3> HIDE DEF base
    <3> QED
      BY <2>1 DEF Candidate
  <2> HIDE DEF base
  <2> QED
    BY <2>2 DEF Causal
<1>5. Listed(more) /\ Len(more) = Extra(r) /\ (r.causal => more[1] = cause)
  <2> HIDE DEF cause
  <2> DEFINE one == <<cause>>
             none == <<>>
  <2>1. Listed(one) /\ Len(one) = 1 /\ one[1] = cause /\ Listed(none) /\ Len(none) = 0
    BY ListedTuples
  <2>2. more = IF r.causal THEN one ELSE none
    OBVIOUS
  <2> HIDE DEF one, none, more
  <2> QED
    BY <2>1, <2>2 DEF Extra
<1>6. \A i \in 1..n : claims[i] = Candidate(sel[i], pool[sel[i]], r.scope)
  BY <1>1
<1> HIDE DEF claims, more, cause, n, sel, d
<1>7. Listed(d) /\ Len(d) = n + Extra(r)
  BY <1>2, <1>3, <1>5, CatFacts
<1>8. ASSUME NEW i \in 1..n PROVE d[i] = Candidate(sel[i], pool[sel[i]], r.scope)
  <2>1. i \in 1..(n + Extra(r)) /\ i <= n
    BY <1>1 DEF Extra
  <2> QED
    BY <1>2, <1>3, <1>5, <1>6, <2>1, CatFacts
<1>9. ASSUME NEW i \in (n + 1)..Len(d) PROVE Causal(d[i])
  <2>1. r.causal /\ i = n + 1 /\ ~(i <= n) /\ i - n = 1
    <3>1. n + 1 <= n + Extra(r) /\ i <= n + Extra(r)
      BY <1>1, <1>7 DEF Extra
    <3> QED
      BY <1>1, <3>1 DEF Extra
  <2>2. i \in 1..(n + Extra(r))
    BY <1>1, <1>7
  <2> QED
    BY <1>2, <1>3, <1>4, <1>5, <2>1, <2>2, CatFacts
<1> QED
  BY <1>7, <1>8, <1>9 DEF Drafted, n, sel, d

\* What is licensed for the result of the step x.
Granted(c, x, pool) ==
  /\ c.id = <<x, Predicates[pool[x].type], "frozen_release">> /\ c.step = x
  /\ c.scope = "frozen_release" /\ c.evidence = pool[x] /\ ~Causal(c)

LEMMA VerifyCandidate ==
  ASSUME NEW pool, NEW x \in DOMAIN pool, NEW scope, Reported(pool[x])
  PROVE  LET v == Verify(Candidate(x, pool[x], scope), pool) IN
         v.licensed = <<v.licensed[1]>> /\ Granted(v.licensed[1], x, pool)
<1> DEFINE c == Candidate(x, pool[x], scope)
           q == Candidate(x, pool[x], "frozen_release")
           v == Verify(c, pool)
<1>1. /\ c.step = x /\ c.evidence = pool[x] /\ c.scope = scope /\ c.predicate = Predicates[pool[x].type]
      /\ c.id = <<x, Predicates[pool[x].type], scope>> /\ c.predicate = q.predicate /\ c.value = q.value
  BY DEF Candidate
<1>2. /\ q.step = x /\ q.evidence = pool[x] /\ q.scope = "frozen_release" /\ q.predicate = Predicates[pool[x].type]
      /\ q.id = <<x, Predicates[pool[x].type], "frozen_release">>
  BY DEF Candidate
<1> DEFINE o == [q EXCEPT !.original = c.id]
<1>3. /\ o.step = x /\ o.evidence = pool[x] /\ o.scope = "frozen_release" /\ o.predicate = Predicates[pool[x].type]
      /\ o.id = <<x, Predicates[pool[x].type], "frozen_release">>
  BY <1>2 DEF Candidate
<1>4. Predicates[pool[x].type] # "causal_effect"
  BY DEF Reported, Predicates
<1> HIDE DEF c, q, o
<1>5. v.licensed = IF scope # "frozen_release" THEN <<o>> ELSE <<c>>
  <2>1. v = [claim |-> c, label |-> IF scope # "frozen_release" THEN "Partial" ELSE "Supported",
             licensed |-> IF scope # "frozen_release" THEN <<o>> ELSE <<c>>]
    <3>1. ~(c.step \notin DOMAIN pool \/ ~pool[c.step].complete)
      BY <1>1 DEF Reported
    <3>2. ~(c.evidence # pool[c.step]) /\ ~Causal(c)
      BY <1>1, <1>4 DEF Causal
    <3>3. Candidate(c.step, pool[c.step], "frozen_release") = q
      BY <1>1 DEF q
    <3> QED
      BY <1>1, <3>1, <3>2, <3>3 DEF Verify, o
  <2> QED
    BY <2>1
<1>6. Granted(o, x, pool) /\ (scope = "frozen_release" => Granted(c, x, pool))
  BY <1>1, <1>3, <1>4 DEF Granted, Causal
<1> HIDE DEF v
<1>7. v.licensed = <<v.licensed[1]>> /\ Granted(v.licensed[1], x, pool)
  BY <1>5, <1>6
<1> QED
  BY <1>7 DEF v, c

LEMMA VerifyCause ==
  ASSUME NEW c, NEW pool, Causal(c) PROVE Verify(c, pool).licensed = <<>>
  BY DEF Verify

\* The results that license something, after n of them.
KeepStep(vs, prior, n) == IF vs[n].licensed = <<>> THEN prior ELSE Append(prior, vs[n])
AreKept(vs, k, keep) == keep = [n \in 0..k |-> IF n = 0 THEN <<>> ELSE KeepStep(vs, keep[n - 1], n)]

LEMMA KeepExists == ASSUME NEW vs, NEW K \in Nat PROVE \E keep : AreKept(vs, K, keep)
<1> DEFINE T == {k \in Nat : \E keep : AreKept(vs, k, keep)}
<1>1. 0 \in T
  <2> DEFINE f == [n \in 0..0 |-> <<>>]
  <2>1. AreKept(vs, 0, f)
    BY DEF AreKept
  <2> QED
    BY <2>1
<1>2. ASSUME NEW k \in Nat, k \in T PROVE k + 1 \in T
  <2>1. PICK f : AreKept(vs, k, f)
    BY <1>2
  <2> DEFINE q == [n \in 0..(k + 1) |-> IF n = k + 1 THEN KeepStep(vs, f[k], n) ELSE f[n]]
  <2>2. ASSUME NEW n \in 0..(k + 1) PROVE q[n] = IF n = 0 THEN <<>> ELSE KeepStep(vs, q[n - 1], n)
    <3>1. CASE n = k + 1
      <4>1. n # 0 /\ n - 1 = k /\ k \in 0..(k + 1) /\ k # k + 1
        BY <3>1
      <4> QED
        BY <3>1, <4>1
    <3>2. CASE n # k + 1
      <4>1. n \in 0..k /\ (n # 0 => n - 1 \in 0..k /\ n - 1 \in 0..(k + 1) /\ n - 1 # k + 1)
        BY <3>2
      <4>2. f[n] = IF n = 0 THEN <<>> ELSE KeepStep(vs, f[n - 1], n)
        BY <2>1, <4>1 DEF AreKept
      <4>3. q[n] = f[n] /\ (n # 0 => q[n - 1] = f[n - 1])
        BY <3>2, <4>1
      <4> QED
        BY <4>2, <4>3
    <3> QED
      BY <3>1, <3>2
  <2>3. q = [n \in 0..(k + 1) |-> q[n]]
    OBVIOUS
  <2>4. AreKept(vs, k + 1, q)
    <3> HIDE DEF q
    <3> QED
      BY <2>2, <2>3 DEF AreKept
  <2> QED
    <3> HIDE DEF q
    <3> QED
      BY <2>4
<1>3. Nat \subseteq T
  <2> HIDE DEF T
  <2> QED
    BY <1>1, <1>2, SetInduction
<1> QED
  BY <1>3

\* The first m results license something and the others do not: the first m are kept.
Front(vs, m, s) == Listed(s) /\ Len(s) = m /\ \A i \in 1..m : s[i] = vs[i]

LEMMA LicensingFront ==
  ASSUME NEW vs, NEW m \in Nat, Len(vs) \in Nat, m <= Len(vs),
         \A i \in 1..m : vs[i].licensed # <<>>,
         \A i \in (m + 1)..Len(vs) : vs[i].licensed = <<>>
  PROVE  Front(vs, m, Licensing(vs))
<1> DEFINE K == Len(vs)
           Kept(f) == AreKept(vs, K, f)
           keep == CHOOSE f : Kept(f)
<1>1. Kept(keep)
  <2>1. \E f : Kept(f)
    BY KeepExists
  <2> HIDE DEF Kept
  <2> QED
    BY <2>1, Zenon
<1>2. Licensing(vs) = keep[K]
  BY Zenon DEF Licensing, AreKept, KeepStep
<1>3. keep[0] = <<>> /\ \A n \in 1..K : keep[n] = KeepStep(vs, keep[n - 1], n)
  <2>1. 0 \in 0..K /\ \A n \in 1..K : n \in 0..K /\ n # 0
    OBVIOUS
  <2> HIDE DEF keep
  <2> QED
    BY <1>1, <2>1 DEF AreKept
<1> HIDE DEF keep, Kept
<1> DEFINE low(n) == IF n <= m THEN n ELSE m
           T == {n \in Nat : n <= K => Front(vs, low(n), keep[n])}
<1>4. 0 \in T
  <2>0. Listed(keep[0]) /\ Len(keep[0]) = 0
    BY <1>3, ListedTuples
  <2>1. Listed(keep[0]) /\ Len(keep[0]) = 0 /\ 0 <= m /\ 1..0 = {}
    BY <2>0
  <2>2. Front(vs, 0, keep[0]) /\ low(0) = 0
    BY <2>1 DEF Front
  <2> HIDE DEF low
  <2> QED
    BY <2>2
<1>5. ASSUME NEW n \in Nat, n \in T PROVE n + 1 \in T
  <2> SUFFICES ASSUME n + 1 <= K PROVE Front(vs, low(n + 1), keep[n + 1])
    OBVIOUS
  <2>1. n + 1 \in 1..K /\ (n + 1) - 1 = n /\ n <= K
    <3>1. n \in Nat /\ K \in Nat /\ n + 1 <= K
      BY <1>5
    <3> HIDE DEF K, T
    <3> QED
      BY <3>1
  <2>2. keep[n + 1] = KeepStep(vs, keep[n], n + 1) /\ Front(vs, low(n), keep[n])
    <3> HIDE DEF low
    <3> QED
      BY <1>3, <1>5, <2>1
  <2>3. CASE n + 1 <= m
    <3>1. n <= m /\ n + 1 \in 1..m
      BY <2>3
    <3>2. keep[n + 1] = Append(keep[n], vs[n + 1])
      BY <2>2, <3>1 DEF KeepStep
    <3>3. Listed(keep[n]) /\ Len(keep[n]) = n /\ \A i \in 1..n : keep[n][i] = vs[i]
      BY <2>2, <3>1 DEF Front
    <3>4. \A i \in 1..(n + 1) : i \in 1..n \/ i = n + 1
      OBVIOUS
    <3> QED
      BY <2>3, <3>2, <3>3, <3>4, AppendFacts DEF Front
  <2>4. CASE ~(n + 1 <= m)
    <3>1. n + 1 \in (m + 1)..Len(vs) /\ low(n) = m /\ low(n + 1) = m
      BY <2>1, <2>4
    <3>2. keep[n + 1] = keep[n]
      BY <2>2, <3>1 DEF KeepStep
    <3> QED
      BY <2>2, <2>4, <3>1, <3>2
  <2> QED
    BY <2>3, <2>4
<1>6. Nat \subseteq T
  <2> HIDE DEF T
  <2> QED
    BY <1>4, <1>5, SetInduction
<1>7. K \in T /\ low(K) = m
  BY <1>6
<1> HIDE DEF low
<1> QED
  BY <1>2, <1>7

LEMMA PlannablePlanned ==
  ASSUME NEW r, NEW release, IsRequest(r), r.identifier # None, Plannable(r) PROVE Planned(r, release)
<1>1. r.family \in {"identity", "path", "count", "comparison", "sites", "state", "returns", "timeline"}
  BY DEF IsRequest
<1> QED
  BY <1>1, PlannedIdentity, PlannedPath, PlannedCount, PlannedComparison, PlannedSites, PlannedTrace DEF Plannable

\* The values of the plan of a request, each by its own step.
Pooled(g, r, pool) ==
  /\ DOMAIN pool = IdsOf(StepSet(r))
  /\ \A s \in StepSet(r) : IsStep(s) /\ Performed(g, s, pool)

LEMMA PoolOfPlan ==
  ASSUME NEW g, NEW r, NEW release, NEW known, IsRequest(r), r.identifier # None,
         Accepted(PlanRequest(r, release)), Execute(g, PlanRequest(r, release), release, known).stop = None
  PROVE  LET e == Execute(g, PlanRequest(r, release), release, known) IN
         Pooled(g, r, e.values) /\ e.state = known
<1> DEFINE p == PlanRequest(r, release)
<1>1. Plannable(r)
  BY PlanAccepted
<1>2. Assembled(p.steps, StepSet(r)) /\ IsProgram(p)
  BY <1>1, PlannablePlanned DEF Planned
<1>3. \A s \in StepSet(r) : IsStep(s)
  BY <1>2, Zenon DEF Assembled, IsProgram
<1> HIDE DEF p
<1>4. LET e == Execute(g, p, release, known) IN
      DOMAIN e.values = IdsOf(StepSet(r)) /\ e.state = known /\ \A s \in StepSet(r) : Performed(g, s, e.values)
  BY <1>2, Executing DEF p
<1> QED
  BY <1>3, <1>4 DEF Pooled, p

\* A selected step has a result that a claim can be made of.
LEMMA SelectedReported ==
  ASSUME NEW g, NEW r, NEW pool, Pooled(g, r, pool), NEW x, Claims(r, x)
  PROVE  x \in DOMAIN pool /\ Reported(pool[x])
<1>1. PICK s \in StepSet(r) : s.id = x /\ s.op \in Claimable
  BY DEF Claims
<1>2. IsStep(s) /\ Performed(g, s, pool)
  BY DEF Pooled
<1> QED
  BY <1>1, <1>2, PerformReported DEF Pooled, IdsOf, Claimable

\* And it is of the window that was asked for, if it is of one.
LEMMA SelectedWindow ==
  ASSUME NEW g, NEW r, NEW pool, Pooled(g, r, pool), NEW x, Claims(r, x), x # "before",
         "window" \in DOMAIN pool[x]
  PROVE  pool[x].window = r.window
<1>1. PICK s \in StepSet(r) : /\ s.id = x /\ s.op \in Claimable
                              /\ x # "before" /\ "window" \in DOMAIN s.args => s.args.window = "window"
  BY DEF Claims
<1>2. IsStep(s) /\ Performed(g, s, pool)
  BY DEF Pooled
<1>3. "window" \in DOMAIN s.args /\ pool[s.id].window = pool[s.args.window].period
  BY <1>1, <1>2, PerformWindow
<1>4. Asked(r) \in StepSet(r)
  BY DEF StepSet
<1>5. Performed(g, Asked(r), pool)
  BY <1>4 DEF Pooled
<1>6. pool["window"].period = r.window
  <2>1. PICK v, k : pool["window"] = Perform(g, Asked(r), v, k) /\ Readable(Asked(r), v)
    BY <1>5, StepIds DEF Performed
  <2>2. Perform(g, Asked(r), v, k) = [type |-> "window", period |-> Asked(r).args.period]
    BY <2>1, StepIds DEF Perform
  <2> QED
    BY <2>1, <2>2, StepIds
<1> QED
  BY <1>1, <1>3, <1>6

\* The results of the verifier, of which the candidates license a claim each.
Judged(r, sel, pool, vs) ==
  /\ Len(vs) = Len(sel) + Extra(r) /\ Len(sel) \in 1..3
  /\ \A i \in 1..Len(sel) : vs[i].licensed = <<vs[i].licensed[1]>> /\ Granted(vs[i].licensed[1], sel[i], pool)
  /\ \A i \in (Len(sel) + 1)..Len(vs) : vs[i].licensed = <<>>
  /\ Front(vs, Len(sel), Licensing(vs)) /\ DOMAIN vs = 1..Len(vs)
  /\ \A i, j \in 1..Len(sel) : sel[i] = sel[j] => i = j

LEMMA Judging ==
  ASSUME NEW g, NEW r, NEW release, NEW pool, IsRequest(r), Pooled(g, r, pool)
  PROVE  LET p == PlanRequest(r, release)
             d == Draft(r, p, pool)
         IN  /\ Judged(r, Selected(r, p), pool, [i \in DOMAIN d |-> Verify(d[i], pool)])
             /\ Len([i \in DOMAIN d |-> Verify(d[i], pool)]) = Len(d)
<1> DEFINE p == PlanRequest(r, release)
           sel == Selected(r, p)
           n == Len(sel)
           d == Draft(r, p, pool)
           vs == [i \in DOMAIN d |-> Verify(d[i], pool)]
<1>1. /\ n \in 1..3 /\ \A i, j \in 1..n : sel[i] = sel[j] => i = j
      /\ \A i \in 1..n : Claims(r, sel[i])
  BY SelectedSteps
<1>2. Drafted(r, sel, pool, d)
  BY Drafts
<1> HIDE DEF sel, d
<1>3. Len(d) \in Nat /\ DOMAIN d = 1..Len(d) /\ Len(d) = n + Extra(r) /\ n <= Len(d)
  BY <1>1, <1>2, ListedFacts DEF Drafted, Extra
<1>4. Listed(vs) /\ Len(vs) = Len(d) /\ DOMAIN vs = 1..Len(vs)
  <2>1. DOMAIN vs = 1..Len(d) /\ vs = [i \in 1..Len(d) |-> vs[i]]
    BY <1>3
  <2> HIDE DEF vs
  <2> QED
    BY <1>3, <2>1, ListedFunction
<1>5. ASSUME NEW i \in 1..n PROVE vs[i].licensed = <<vs[i].licensed[1]>> /\ Granted(vs[i].licensed[1], sel[i], pool)
  <2>1. i \in DOMAIN d /\ d[i] = Candidate(sel[i], pool[sel[i]], r.scope)
    BY <1>1, <1>2, <1>3 DEF Drafted
  <2>2. vs[i] = Verify(Candidate(sel[i], pool[sel[i]], r.scope), pool)
    BY <2>1
  <2>3. sel[i] \in DOMAIN pool /\ Reported(pool[sel[i]])
    BY <1>1, SelectedReported
  <2> HIDE DEF vs
  <2> QED
    BY <2>2, <2>3, VerifyCandidate
<1>6. ASSUME NEW i \in (n + 1)..Len(vs) PROVE vs[i].licensed = <<>>
  <2>1. i \in DOMAIN d /\ Causal(d[i])
    BY <1>1, <1>2, <1>3, <1>4 DEF Drafted
  <2> QED
    BY <2>1, VerifyCause
<1> HIDE DEF vs
<1>7. Front(vs, n, Licensing(vs))
  <2>1. \A i \in 1..n : vs[i].licensed # <<>>
    <3>1. ASSUME NEW z PROVE <<z>> # <<>>
      OBVIOUS
    <3> QED
      BY <1>5, <3>1
  <2>2. n \in Nat /\ Len(vs) \in Nat /\ n <= Len(vs)
    BY <1>1, <1>3, <1>4
  <2> QED
    BY <1>6, <2>1, <2>2, LicensingFront
<1>8. Judged(r, sel, pool, vs) /\ Len(vs) = Len(d)
  BY <1>1, <1>3, <1>4, <1>5, <1>6, <1>7 DEF Judged
<1> QED
  BY <1>8 DEF vs, d, sel

\* What the state says of the claims that the verifier licensed.
Answerable(sel, pool) ==
  /\ DOMAIN Retained = 1..Len(sel) /\ Len(Retained) = Len(sel) /\ Len(sel) \in 1..3 /\ Retained # <<>>
  /\ \A i \in 1..Len(sel) : LET c == Retained[i].final IN
       /\ Granted(c, sel[i], pool) /\ c.id \in DOMAIN Found /\ Found[c.id] = Witness(c)

LEMMA Answering ==
  ASSUME NEW sel, NEW pool, Judged(request, sel, pool, checked)
  PROVE  Answerable(sel, pool)
<1> DEFINE n == Len(sel)
           kept == Licensing(checked)
           final(i) == checked[i].licensed[1]
<1>1. /\ n \in 1..3 /\ Len(checked) = n + Extra(request) /\ DOMAIN checked = 1..Len(checked)
      /\ \A i, j \in 1..n : sel[i] = sel[j] => i = j
      /\ \A i \in 1..n : checked[i].licensed = <<final(i)>> /\ Granted(final(i), sel[i], pool)
      /\ \A i \in (n + 1)..Len(checked) : checked[i].licensed = <<>>
  BY DEF Judged
<1>2. Listed(kept) /\ Len(kept) = n /\ (\A i \in 1..n : kept[i] = checked[i]) /\ DOMAIN kept = 1..n
  <2>1. Front(checked, n, kept)
    BY DEF Judged
  <2> HIDE DEF kept
  <2> QED
    BY <2>1, ListedFacts DEF Front
<1>3. Retained = [i \in DOMAIN kept |-> [original |-> kept[i].claim, final |-> kept[i].licensed[1]]]
  BY DEF Retained
<1> HIDE DEF kept, n
<1>4. DOMAIN Retained = 1..n /\ \A i \in 1..n : Retained[i].final = final(i)
  BY <1>2, <1>3
<1>5. Len(Retained) = n /\ Retained # <<>>
  <2>1. Retained = [i \in 1..n |-> Retained[i]] /\ n \in Nat
    BY <1>1, <1>2, <1>3
  <2>2. Len(Retained) = n
    BY <1>4, <2>1, ListedFunction
  <2>3. Len(<<>>) = 0
    OBVIOUS
  <2> QED
    BY <1>1, <2>2, <2>3
<1>6. ASSUME NEW c PROVE c \in Licensed <=> \E i \in 1..n : c = final(i)
  <2>1. c \in Licensed <=> \E j \in DOMAIN checked : \E k \in DOMAIN checked[j].licensed : c = checked[j].licensed[k]
    BY DEF Licensed
  <2>2. ASSUME NEW j \in DOMAIN checked, NEW k \in DOMAIN checked[j].licensed
        PROVE  j \in 1..n /\ checked[j].licensed[k] = final(j)
    <3>1. j \in 1..n
      <4>1. DOMAIN <<>> = {}
        OBVIOUS
      <4>2. j \in 1..n \/ j \in (n + 1)..Len(checked)
        BY <1>1
      <4> QED
        BY <1>1, <2>2, <4>1, <4>2
    <3>2. checked[j].licensed = <<final(j)>>
      BY <1>1, <3>1
    <3>3. \A z : DOMAIN <<z>> = {1} /\ <<z>>[1] = z
      OBVIOUS
    <3> HIDE DEF final
    <3> QED
      BY <2>2, <3>1, <3>2, <3>3
  <2>3. ASSUME NEW i \in 1..n PROVE i \in DOMAIN checked /\ 1 \in DOMAIN checked[i].licensed
    <3>1. i \in DOMAIN checked
      BY <1>1 DEF Extra
    <3>2. checked[i].licensed = <<final(i)>>
      BY <1>1
    <3>3. \A z : 1 \in DOMAIN <<z>>
      OBVIOUS
    <3> HIDE DEF final
    <3> QED
      BY <3>1, <3>2, <3>3
  <2> QED
    BY <2>1, <2>2, <2>3
<1>7. ASSUME NEW i \in 1..n PROVE final(i).id \in DOMAIN Found /\ Found[final(i).id] = Witness(final(i))
  <2>1. final(i) \in Licensed
    BY <1>6
  <2>2. ASSUME NEW c \in Licensed, c.id = final(i).id PROVE c = final(i)
    <3>1. PICK j \in 1..n : c = final(j)
      BY <1>6
    <3>2. <<sel[j], Predicates[pool[sel[j]].type], "frozen_release">>
            = <<sel[i], Predicates[pool[sel[i]].type], "frozen_release">>
      <4> HIDE DEF final
      <4> QED
        BY <1>1, <2>2, <3>1 DEF Granted
    <3>3. sel[j] = sel[i]
      BY <3>2
    <3> QED
      BY <1>1, <3>1, <3>3
  <2> HIDE DEF final
  <2>3. (CHOOSE c \in Licensed : c.id = final(i).id) = final(i)
    BY <2>1, <2>2
  <2>4. final(i).id \in {c.id : c \in Licensed}
    BY <2>1
  <2> QED
    BY <2>3, <2>4 DEF Found
<1> HIDE DEF final
<1> QED
  BY <1>1, <1>4, <1>5, <1>7 DEF Answerable, n

-----------------------------------------------------------------------------
\* The inductive invariant.

Fields == {"request", "state", "revision", "plan", "execution", "draft", "checked", "mapping"}
Named(known) == "release_id" \in DOMAIN known /\ known["release_id"] = Release
Standing == IF dialogue.state = Unset THEN [release_id |-> Release] ELSE dialogue.state

\* The answer is about to be saved.
Replying == stage = "save" /\ outcome.type = "Answer"
From(roles) == stage \in roles \/ Replying

Counters == turns \in 0..MaxTurns /\ stage \in Role \cup {"idle", "save"} /\ attempt \in {0, 1} /\ frozen \in Graphs

Checkpoint == /\ dialogue.revision \in Nat /\ (dialogue.state = Unset <=> dialogue.revision = 0)
              /\ dialogue.revision # 0 => Named(dialogue.state)

\* The question, about the graph of the release and the checkpoint as it was read.
Questioned == stage # "idle" =>
  /\ working = frozen /\ DOMAIN work = Fields /\ IsRequest(request) /\ Named(state)
  /\ revision \in Nat /\ revision <= dialogue.revision
  /\ revision = dialogue.revision => state = Standing

\* The subject is an entity of the graph, by its own identifier.
Resolved == From(Role \ {"Manager"}) =>
  /\ request.identifier # None /\ request.name = None
  /\ \E e \in Matches(frozen, request) : e.id = request.identifier
  /\ plan = PlanRequest(request, Release)

Validated == From(Role \ {"Manager", "Planner"}) => Accepted(plan)

Retrieved == From({"Drafting_Bridge", "Verifier", "Evidence_Builder", "Synthesizer"}) =>
  execution = Execute(frozen, plan, Release, state) /\ execution.stop = None

Claimed == From({"Verifier", "Evidence_Builder", "Synthesizer"}) =>
  draft = Draft(request, plan, execution.values)

Checked == From({"Evidence_Builder", "Synthesizer"}) =>
  checked = [i \in DOMAIN draft |-> Verify(draft[i], execution.values)]

Witnessed == From({"Synthesizer"}) =>
  mapping = Found /\ \A id \in DOMAIN mapping : Replays(mapping[id], frozen)

Said == IF stage # "save" THEN outcome = None \/ outcome.type \in {"Refused", "Abstain", "Counted"}
        ELSE /\ outcome.type \in {"Answer", "Abstain", "Clarify"}
             /\ outcome.type # "Answer" => outcome.state = state
             /\ outcome.type = "Answer" => /\ outcome = Answered
                                           /\ \A i \in DOMAIN Retained : Retained[i].final.id \in DOMAIN mapping

IInv == /\ Counters /\ Checkpoint /\ Questioned /\ Resolved /\ Validated /\ Retrieved /\ Claimed
        /\ Checked /\ Witnessed /\ Said

LEMMA InitIInv == Init => IInv
<1> SUFFICES ASSUME Init PROVE IInv
  OBVIOUS
<1>1. Counters /\ Checkpoint
  BY TurnsAssumption DEF Init, Counters, Checkpoint
<1>2. stage = "idle" /\ outcome = None
  BY DEF Init
<1> QED
  BY <1>1, <1>2 DEF IInv, Questioned, Resolved, Validated, Retrieved, Claimed, Checked, Witnessed, Said, From, Replying, Role

\* The one entity that a resolved request means is its own subject.
LEMMA ResolvedSubject ==
  ASSUME NEW g \in Graphs, NEW r, NEW e \in Matches(g, r), ~Failed(Resolve(g, r))
  PROVE  /\ Matches(g, r) = {e} /\ Resolve(g, r).ids = {e.id} /\ e.id # None
<1>1. IsFiniteSet(Matches(g, r))
  <2>1. Matches(g, r) \subseteq g.entities /\ IsFiniteSet(g.entities)
    BY GraphsAssumption DEF Matches, IsGraph
  <2> QED
    BY <2>1, FS_Subset
<1>2. Cardinality(Matches(g, r)) = 1
  BY DEF Resolve, Failed, Failures, Fail
<1>3. PICK x : Matches(g, r) = {x}
  BY <1>1, <1>2, FS_Singleton
<1>4. Matches(g, r) = {e}
  BY <1>3
<1>5. e.id \in Ids(g)
  BY DEF Matches, Ids
<1>6. e.id # None
  BY <1>5, GraphsAssumption DEF IsGraph, Ids
<1>7. Resolve(g, r).ids = {y.id : y \in Matches(g, r)}
  BY <1>2 DEF Resolve
<1> QED
  BY <1>4, <1>6, <1>7

\* The subject's step resolves a request as the request itself does.
LEMMA SubjectMatches ==
  ASSUME NEW g, NEW r PROVE Matches(g, Subject(r).args) = Matches(g, r)
<1>1. LET q == Subject(r).args IN
      /\ q.kind = r.kind /\ q.identifier = r.identifier /\ q.name = r.name
      /\ q.place = r.place /\ q.role = r.role /\ q.source = r.source
  BY DEF Subject, Step
<1> DEFINE q == Subject(r).args
<1> HIDE DEF q
<1> QED
  BY <1>1 DEF Matches, q

\* The request r, about the identifier x.
Renamed(q, r, x) == /\ q.identifier = x /\ q.name = None /\ q.kind = r.kind
                    /\ q.place = r.place /\ q.role = r.role /\ q.source = r.source

LEMMA RequestRenamed ==
  ASSUME NEW r, IsRequest(r), NEW x
  PROVE  LET q == [r EXCEPT !.identifier = x, !.name = None] IN IsRequest(q) /\ Renamed(q, r, x)
<1> DEFINE q == [r EXCEPT !.identifier = x, !.name = None]
<1>1. DOMAIN q = DOMAIN r /\ \A k \in DOMAIN r \ {"identifier", "name"} : q[k] = r[k]
  OBVIOUS
<1>2. q.identifier = x /\ q.name = None
  BY DEF IsRequest
<1> HIDE DEF q
<1>3. /\ q.family = r.family /\ q.kind = r.kind /\ q.place = r.place /\ q.role = r.role /\ q.source = r.source
      /\ q.window = r.window /\ q.before = r.before /\ q.target = r.target /\ q.relations = r.relations
      /\ q.hops = r.hops /\ q.rule = r.rule /\ q.direction = r.direction /\ q.causal = r.causal
      /\ q.previous = r.previous /\ q.scope = r.scope
  BY <1>1 DEF IsRequest
<1>4. IsRequest(q)
  BY <1>1, <1>3 DEF IsRequest
<1>5. Renamed(q, r, x)
  BY <1>2, <1>3 DEF Renamed
<1> QED
  BY <1>4, <1>5 DEF q

\* Its own subject is one that the resolved request may mean.
LEMMA RenamedMatches ==
  ASSUME NEW g, NEW r, IsRequest(r), NEW e \in Matches(g, r), e.id # None
  PROVE  e \in Matches(g, [r EXCEPT !.identifier = e.id, !.name = None])
<1> DEFINE q == [r EXCEPT !.identifier = e.id, !.name = None]
<1>0. Renamed(q, r, e.id)
  BY RequestRenamed
<1> HIDE DEF q
<1>1. /\ q.identifier = e.id /\ q.name = None /\ q.kind = r.kind
      /\ q.place = r.place /\ q.role = r.role /\ q.source = r.source
  BY <1>0 DEF Renamed
<1> DEFINE known(source, x) == [source |-> source, canonical |-> x.id] \in g.identities
           placed(x, role, in) == \E a \in g.assertions : a.head = x.id /\ (role = None \/ a.role = role) /\ a \in in
           at(p) == {a \in g.assertions : a.tail = p /\ a.relation \in {"affiliatedWith", "visitingAt"}}
           Means(x, p) == /\ x.kind = p.kind
                          /\ p.identifier # None => x.id = p.identifier \/ known(p.identifier, x)
                          /\ p.name # None => \E o \in g.observations : o.entity = x.id /\ p.name \in o.names
                          /\ p.place # None => placed(x, p.role, at(p.place))
                          /\ p.source # None => known(p.source, x)
                          /\ p.role # None /\ p.place = None => placed(x, p.role, g.assertions)
<1>2. \A p : Matches(g, p) = {x \in g.entities : Means(x, p)}
  BY DEF Matches
<1> HIDE DEF known, placed, at
<1>3. e \in g.entities /\ Means(e, r)
  <2> HIDE DEF Means
  <2> QED
    BY <1>2
<1>4. Means(e, q)
  BY <1>1, <1>3
<1>5. e \in Matches(g, q)
  <2> HIDE DEF Means
  <2> QED
    BY <1>2, <1>3, <1>4
<1> QED
  BY <1>5 DEF q

Abstains(x) == x.type \in {"Abstain", "Clarify"} /\ x.state = state

LEMMA SayIInv ==
  ASSUME IInv, stage # "idle", Frame, NEW x, Say(x), Abstains(x) PROVE IInv'
<1>1. /\ stage' = "save" /\ outcome' = x /\ UNCHANGED <<frozen, working, dialogue, turns, attempt, work>>
      /\ x.type \in {"Abstain", "Clarify"} /\ x.state = state
  BY DEF Frame, Say, Abstains
<1>2. Counters' /\ Checkpoint' /\ Questioned'
  BY <1>1 DEF IInv, Counters, Checkpoint, Questioned, request, state, revision, Standing
<1>3. ~Replying'
  BY <1>1 DEF Replying
<1>4. Resolved' /\ Validated' /\ Retrieved' /\ Claimed' /\ Checked' /\ Witnessed'
  BY <1>1, <1>3 DEF Resolved, Validated, Retrieved, Claimed, Checked, Witnessed, From, Role
<1>5. Said'
  BY <1>1 DEF Said, state
<1> QED
  BY <1>2, <1>4, <1>5 DEF IInv

LEMMA AbstainedAbstains == Abstains(Abstained)
  BY DEF Abstains, Abstained

\* The locals of a question that has just been asked.
LEMMA FreshFields ==
  ASSUME NEW r, NEW now
  PROVE  LET w == Fresh(r, now) IN
         DOMAIN w = Fields /\ w.request = r /\ w.state = now /\ w.revision = dialogue.revision
  BY DEF Fresh, Fields

LEMMA OpenIInv == ASSUME IInv, Open PROVE IInv'
<1>1. /\ stage = "idle" /\ turns < MaxTurns /\ turns' = turns + 1 /\ attempt' = 0
      /\ UNCHANGED <<frozen, working, dialogue>>
  BY DEF Open
<1> DEFINE now == IF dialogue.state = Unset THEN [release_id |-> Release] ELSE dialogue.state
           previous == IF "resolved_ids" \in DOMAIN now THEN now.resolved_ids ELSE {}
           refused == \/ dialogue.state # Unset /\ dialogue.state.release_id # Release
                      \/ working # frozen
           asked(r) == IF ~r.previous THEN r
                       ELSE [r EXCEPT !.identifier = CHOOSE x \in previous : TRUE, !.name = None]
<1>2. PICK r \in IF turns = 0 THEN Requests ELSE Followups :
        \/ outcome' = [type |-> "Refused"] /\ UNCHANGED <<stage, work>>
        \/ stage' = "Manager" /\ outcome' = None /\ ~refused /\ work' = Fresh(asked(r), now)
  <2>1. PICK r \in IF turns = 0 THEN Requests ELSE Followups :
          IF refused \/ (r.previous /\ Cardinality(previous) # 1)
          THEN outcome' = [type |-> "Refused"] /\ UNCHANGED <<stage, work>>
          ELSE stage' = "Manager" /\ outcome' = None /\ work' = Fresh(asked(r), now)
    BY Zenon DEF Open
  <2> HIDE DEF now, previous, refused, asked
  <2> QED
    BY <2>1
<1>3. Counters'
  <2>1. turns' \in 0..MaxTurns
    BY <1>1, TurnsAssumption DEF IInv, Counters
  <2>2. stage' \in Role \cup {"idle", "save"}
    BY <1>1, <1>2 DEF Role
  <2> QED
    BY <1>1, <2>1, <2>2 DEF IInv, Counters
<1>4. Checkpoint'
  BY <1>1 DEF IInv, Checkpoint
<1>5. stage' \in {"idle", "Manager"} /\ (outcome' = None \/ outcome'.type = "Refused")
  <2> HIDE DEF asked, now, refused
  <2> QED
    BY <1>1, <1>2
<1>6. Resolved' /\ Validated' /\ Retrieved' /\ Claimed' /\ Checked' /\ Witnessed' /\ Said'
  BY <1>5 DEF Resolved, Validated, Retrieved, Claimed, Checked, Witnessed, Said, From, Replying, Role
<1>7. Questioned'
  <2> SUFFICES ASSUME stage' # "idle" PROVE Questioned'
    BY DEF Questioned
  <2>1. ~refused /\ work' = Fresh(asked(r), now)
    <3> HIDE DEF asked, now, refused
    <3> QED
      BY <1>1, <1>2
  <2>2. IsRequest(asked(r))
    <3>1. r \in Requests
      BY RequestsAssumption
    <3>2. IsRequest(r)
      BY <3>1, RequestsAssumption
    <3> HIDE DEF previous
    <3> QED
      BY <3>2, RequestRenamed
  <2>3. Named(now)
    <3>1. CASE dialogue.state = Unset
      BY <3>1 DEF Named
    <3>2. CASE dialogue.state # Unset
      BY <3>2 DEF IInv, Checkpoint
    <3> QED
      BY <3>1, <3>2
  <2>4. working = frozen /\ now = Standing
    BY <2>1 DEF Standing
  <2> HIDE DEF now, asked, refused
  <2>5. /\ DOMAIN work' = Fields /\ request' = asked(r) /\ state' = now /\ revision' = dialogue.revision
    BY <2>1, FreshFields DEF request, state, revision
  <2>6. dialogue.revision \in Nat /\ dialogue.revision <= dialogue.revision
    BY DEF IInv, Checkpoint
  <2>7. Standing' = Standing
    BY <1>1 DEF Standing
  <2> QED
    BY <1>1, <2>2, <2>3, <2>4, <2>5, <2>6, <2>7 DEF Questioned
<1> QED
  BY <1>3, <1>4, <1>6, <1>7 DEF IInv

\* A role's turn leaves the question as it was.
SameQuestion == DOMAIN work' = Fields /\ request' = request /\ state' = state /\ revision' = revision
LEMMA TurnKeeps ==
  ASSUME IInv, stage # "idle", Frame, attempt' \in {0, 1}, stage' \in Role \cup {"idle", "save"},
         stage' # "idle" => SameQuestion
  PROVE  Counters' /\ Checkpoint' /\ Questioned'
<1>1. UNCHANGED <<frozen, working, dialogue, turns>>
  BY DEF Frame
<1>2. Counters' /\ Checkpoint'
  BY <1>1 DEF IInv, Counters, Checkpoint
<1>3. Questioned'
  BY <1>1 DEF IInv, Questioned, SameQuestion, Standing
<1> QED
  BY <1>2, <1>3

\* The outcome between the roles.
LEMMA NothingSaid ==
  ASSUME IInv, stage # "idle", stage # "save", stage' # "save", UNCHANGED outcome PROVE Said' /\ ~Replying /\ ~Replying'
BY DEF IInv, Said, Replying

LEMMA ManagerIInv == ASSUME IInv, Manager PROVE IInv'
<1>1. stage = "Manager" /\ Frame
  BY DEF Manager
<1>2. CASE Say(Abstained)
  BY <1>1, <1>2, SayIInv, AbstainedAbstains
<1>3. CASE Say([type |-> "Clarify", state |-> state])
  <2>1. Abstains([type |-> "Clarify", state |-> state])
    BY DEF Abstains
  <2> QED
    BY <1>1, <1>3, <2>1, SayIInv
<1> DEFINE subject == Resolve(working, request)
           q == [request EXCEPT !.identifier = CHOOSE x \in subject.ids : TRUE, !.name = None]
<1>4. CASE ~Failed(subject) /\ Pass("Planner") /\ work' = [work EXCEPT !.request = q, !.plan = PlanRequest(q, Release)]
  <2>1. /\ working = frozen /\ DOMAIN work = Fields /\ IsRequest(request) /\ frozen \in Graphs
    BY <1>1 DEF IInv, Questioned, Counters
  <2>2. PICK e \in Matches(frozen, request) : TRUE
    <3>1. Matches(frozen, request) # {}
      <4>1. Cardinality(Matches(frozen, request)) = 1
        BY <1>4, <2>1 DEF Resolve, Failed, Failures, Fail
      <4> QED
        BY <4>1, FS_EmptySet
    <3> QED
      BY <3>1
  <2>3. subject.ids = {e.id} /\ e.id # None
    BY <1>4, <2>1, ResolvedSubject
  <2>4. q = [request EXCEPT !.identifier = e.id, !.name = None]
    <3>1. (CHOOSE x \in subject.ids : TRUE) = e.id
      <4> HIDE DEF subject
      <4> QED
        BY <2>3
    <3> QED
      BY <3>1
  <2>5. IsRequest(q) /\ Renamed(q, request, e.id) /\ e \in Matches(frozen, q)
    <3> DEFINE t == [request EXCEPT !.identifier = e.id, !.name = None]
    <3>1. IsRequest(t) /\ Renamed(t, request, e.id)
      BY <2>1, RequestRenamed
    <3>2. e \in Matches(frozen, t)
      BY <2>1, <2>3, RenamedMatches
    <3>3. q = t
      BY <2>4
    <3> HIDE DEF t, q
    <3> QED
      BY <3>1, <3>2, <3>3
  <2> HIDE DEF q, subject
  <2>6. /\ stage' = "Planner" /\ UNCHANGED <<attempt, outcome, frozen, working, dialogue, turns>>
    BY <1>1, <1>4 DEF Pass, Frame
  <2>7. /\ DOMAIN work' = Fields /\ request' = q /\ plan' = PlanRequest(q, Release)
        /\ state' = state /\ revision' = revision
    <3>1. DOMAIN work' = Fields /\ work'.request = q /\ work'.plan = PlanRequest(q, Release)
      BY <1>4, <2>1 DEF Fields
    <3>2. work'.state = work.state /\ work'.revision = work.revision
      BY <1>4, <2>1 DEF Fields
    <3> QED
      BY <3>1, <3>2 DEF request, plan, state, revision
  <2>8. Counters' /\ Checkpoint'
    BY <2>6 DEF IInv, Counters, Checkpoint, Role
  <2>9. Questioned'
    <3>1. Standing' = Standing
      BY <2>6 DEF Standing
    <3> QED
      BY <1>1, <2>5, <2>6, <2>7, <3>1 DEF IInv, Questioned
  <2>10. Said' /\ ~Replying'
    BY <1>1, <2>6, NothingSaid
  <2>11. Resolved'
    BY <2>3, <2>5, <2>6, <2>7 DEF Resolved, Renamed
  <2>12. Validated' /\ Retrieved' /\ Claimed' /\ Checked' /\ Witnessed'
    BY <2>6, <2>10 DEF Validated, Retrieved, Claimed, Checked, Witnessed, From, Role
  <2> QED
    BY <2>8, <2>9, <2>10, <2>11, <2>12 DEF IInv
<1> QED
  <2>1. Say(Abstained) \/ Say([type |-> "Clarify", state |-> state])
          \/ (~Failed(subject) /\ Pass("Planner") /\ work' = [work EXCEPT !.request = q, !.plan = PlanRequest(q, Release)])
    BY Zenon DEF Manager
  <2> QED
    BY <1>2, <1>3, <1>4, <2>1

LEMMA PlannerIInv == ASSUME IInv, Planner PROVE IInv'
<1>1. stage = "Planner" /\ Frame /\ (Say(Abstained) \/ (Accepted(plan) /\ Pass("Retriever") /\ UNCHANGED work))
  BY DEF Planner
<1>2. CASE Say(Abstained)
  BY <1>1, <1>2, SayIInv, AbstainedAbstains
<1>3. CASE Accepted(plan) /\ Pass("Retriever") /\ UNCHANGED work
  <2>1. stage' = "Retriever" /\ UNCHANGED <<attempt, outcome, frozen, work>>
    BY <1>1, <1>3 DEF Pass, Frame
  <2>2. SameQuestion
    BY <1>1, <2>1 DEF IInv, Questioned, SameQuestion, request, state, revision
  <2>3. Counters' /\ Checkpoint' /\ Questioned'
    <3>1. attempt' \in {0, 1} /\ stage' \in Role \cup {"idle", "save"}
      BY <2>1 DEF IInv, Counters, Role
    <3> QED
      BY <1>1, <2>2, <3>1, TurnKeeps
  <2>4. Said' /\ ~Replying'
    BY <1>1, <2>1, NothingSaid
  <2>5. Resolved'
    BY <1>1, <2>1 DEF IInv, Resolved, From, Role, request, plan
  <2>7. Validated'
    BY <1>1, <1>3, <2>1 DEF Validated, plan, Pass
  <2>6. Retrieved' /\ Claimed' /\ Checked' /\ Witnessed'
    BY <2>1, <2>4 DEF Retrieved, Claimed, Checked, Witnessed, From
  <2> QED
    BY <2>3, <2>4, <2>5, <2>6, <2>7 DEF IInv
<1> QED
  BY <1>1, <1>2, <1>3

LEMMA RetriesIInv == ASSUME IInv, PlannerRetries PROVE IInv'
<1>1. /\ stage = "Planner" /\ attempt' = 1 /\ UNCHANGED <<frozen, working, dialogue, turns, stage, outcome, work>>
  BY DEF PlannerRetries
<1>2. Counters' /\ Checkpoint' /\ Questioned'
  BY <1>1 DEF IInv, Counters, Checkpoint, Questioned, request, state, revision, Standing
<1>3. Said' /\ ~Replying'
  BY <1>1, NothingSaid
<1>4. Resolved'
  BY <1>1 DEF IInv, Resolved, From, Role, request, plan
<1>5. Validated' /\ Retrieved' /\ Claimed' /\ Checked' /\ Witnessed'
  BY <1>1, <1>3 DEF Validated, Retrieved, Claimed, Checked, Witnessed, From, Role
<1> QED
  BY <1>2, <1>3, <1>4, <1>5 DEF IInv

LEMMA RetrieverIInv == ASSUME IInv, Retriever PROVE IInv'
<1> DEFINE result == Execute(working, plan, Release, state)
<1>1. /\ stage = "Retriever" /\ Frame
      /\ Say(Abstained) \/ (result.stop = None /\ work' = [work EXCEPT !.execution = result] /\ Pass("Drafting_Bridge"))
  BY Zenon DEF Retriever
<1>2. CASE Say(Abstained)
  BY <1>1, <1>2, SayIInv, AbstainedAbstains
<1>3. CASE result.stop = None /\ work' = [work EXCEPT !.execution = result] /\ Pass("Drafting_Bridge")
  <2>0. working = frozen /\ DOMAIN work = Fields
    BY <1>1 DEF IInv, Questioned
  <2>1. stage' = "Drafting_Bridge" /\ UNCHANGED <<attempt, outcome, frozen>>
    BY <1>1, <1>3 DEF Pass, Frame
  <2>2. SameQuestion /\ plan' = plan /\ execution' = Execute(frozen, plan, Release, state)
    <3> HIDE DEF result
    <3>1. SameQuestion /\ plan' = plan /\ execution' = result
      BY <1>3, <2>0 DEF SameQuestion, Fields, request, state, revision, plan, execution
    <3> QED
      BY <2>0, <3>1 DEF result
  <2>3. Counters' /\ Checkpoint' /\ Questioned'
    <3>1. attempt' \in {0, 1} /\ stage' \in Role \cup {"idle", "save"}
      BY <2>1 DEF IInv, Counters, Role
    <3> QED
      BY <1>1, <2>2, <3>1, TurnKeeps
  <2>4. Said' /\ ~Replying'
    BY <1>1, <2>1, NothingSaid
  <2>5. Resolved'
    BY <1>1, <2>1, <2>2 DEF IInv, Resolved, From, Role, SameQuestion
  <2>6. Validated' /\ Retrieved'
    <3>1. Accepted(plan)
      BY <1>1 DEF IInv, Validated, From, Role
    <3> QED
      BY <1>3, <2>0, <2>1, <2>2, <3>1 DEF Validated, Retrieved, From, SameQuestion
  <2>7. Claimed' /\ Checked' /\ Witnessed'
    BY <2>1, <2>4 DEF Claimed, Checked, Witnessed, From
  <2> QED
    BY <2>3, <2>4, <2>5, <2>6, <2>7 DEF IInv
<1> QED
  BY <1>1, <1>2, <1>3

LEMMA DraftingIInv == ASSUME IInv, DraftingBridge PROVE IInv'
<1>1. /\ stage = "Drafting_Bridge" /\ stage' = "Verifier" /\ Frame /\ UNCHANGED <<attempt, outcome, frozen>>
      /\ work' = [work EXCEPT !.draft = Draft(request, plan, execution.values)]
  BY DEF DraftingBridge, Pass, Frame
<1>2. SameQuestion /\ plan' = plan /\ execution' = execution /\ draft' = Draft(request, plan, execution.values)
  <2>1. DOMAIN work = Fields
    BY <1>1 DEF IInv, Questioned
  <2> DEFINE d == Draft(request, plan, execution.values)
  <2>2. work' = [work EXCEPT !.draft = d]
    BY <1>1
  <2> HIDE DEF d
  <2>3. SameQuestion /\ plan' = plan /\ execution' = execution /\ draft' = d
    BY <2>1, <2>2 DEF SameQuestion, Fields, request, state, revision, plan, execution, draft
  <2> QED
    BY <2>3 DEF d
<1>3. Counters' /\ Checkpoint' /\ Questioned'
  <2>1. attempt' \in {0, 1} /\ stage' \in Role \cup {"idle", "save"}
    BY <1>1 DEF IInv, Counters, Role
  <2> QED
    BY <1>1, <1>2, <2>1, TurnKeeps
<1>4. Said' /\ ~Replying'
  BY <1>1, NothingSaid
<1>5. Resolved' /\ Validated' /\ Retrieved'
  BY <1>1, <1>2 DEF IInv, Resolved, Validated, Retrieved, From, Role, SameQuestion
<1>6. Claimed'
  BY <1>2 DEF Claimed, SameQuestion
<1>7. Checked' /\ Witnessed'
  BY <1>1, <1>4 DEF Checked, Witnessed, From
<1> QED
  BY <1>3, <1>4, <1>5, <1>6, <1>7 DEF IInv

LEMMA VerifierIInv == ASSUME IInv, Verifier PROVE IInv'
<1> DEFINE vs == [i \in DOMAIN draft |-> Verify(draft[i], execution.values)]
<1>1. /\ stage = "Verifier" /\ stage' = "Evidence_Builder" /\ Frame /\ UNCHANGED <<attempt, outcome, frozen>>
      /\ work' = [work EXCEPT !.checked = vs]
  BY DEF Verifier, Pass, Frame
<1>2. /\ SameQuestion /\ plan' = plan /\ execution' = execution /\ draft' = draft /\ checked' = vs
  <2>1. DOMAIN work = Fields
    BY <1>1 DEF IInv, Questioned
  <2> HIDE DEF vs
  <2> QED
    BY <1>1, <2>1 DEF SameQuestion, Fields, request, state, revision, plan, execution, draft, checked
<1>3. Counters' /\ Checkpoint' /\ Questioned'
  <2>1. attempt' \in {0, 1} /\ stage' \in Role \cup {"idle", "save"}
    BY <1>1 DEF IInv, Counters, Role
  <2> QED
    BY <1>1, <1>2, <2>1, TurnKeeps
<1>4. Said' /\ ~Replying'
  BY <1>1, NothingSaid
<1>5. Resolved' /\ Validated' /\ Retrieved'
  BY <1>1, <1>2 DEF IInv, Resolved, Validated, Retrieved, From, Role, SameQuestion
<1>6. Claimed'
  BY <1>1, <1>2 DEF IInv, Claimed, From, SameQuestion
<1>7. Checked'
  BY <1>2 DEF Checked
<1>8. Witnessed'
  BY <1>1, <1>4 DEF Witnessed, From
<1> QED
  BY <1>3, <1>4, <1>5, <1>6, <1>7, <1>8 DEF IInv

\* Nothing that the witnesses are made from has changed.
SameEvidence == /\ SameQuestion /\ plan' = plan /\ execution' = execution /\ draft' = draft /\ checked' = checked
                /\ frozen' = frozen

LEMMA SameFound == ASSUME SameEvidence PROVE Found' = Found /\ Retained' = Retained
<1>1. /\ plan' = plan /\ execution' = execution /\ checked' = checked /\ frozen' = frozen /\ state' = state
  BY DEF SameEvidence, SameQuestion
<1>2. Found' = Found
  BY <1>1 DEF Found, Licensed, Witness
<1>3. Retained' = Retained
  BY <1>1, Zenon DEF Retained
<1> QED
  BY <1>2, <1>3

LEMMA EvidenceIInv == ASSUME IInv, EvidenceBuilder PROVE IInv'
<1>1. /\ stage = "Evidence_Builder" /\ Frame
      /\ \/ Say(Abstained)
         \/ /\ \A id \in DOMAIN Found : Replays(Found[id], frozen)
            /\ work' = [work EXCEPT !.mapping = Found] /\ Pass("Synthesizer")
  BY Zenon DEF EvidenceBuilder
<1>2. CASE Say(Abstained)
  BY <1>1, <1>2, SayIInv, AbstainedAbstains
<1>3. CASE /\ \A id \in DOMAIN Found : Replays(Found[id], frozen)
           /\ work' = [work EXCEPT !.mapping = Found] /\ Pass("Synthesizer")
  <2>1. stage' = "Synthesizer" /\ UNCHANGED <<attempt, outcome, frozen>>
    BY <1>1, <1>3 DEF Pass, Frame
  <2>2. SameEvidence /\ mapping' = Found
    <3>1. DOMAIN work = Fields
      BY <1>1 DEF IInv, Questioned
    <3> DEFINE f == Found
    <3>2. work' = [work EXCEPT !.mapping = f]
      BY <1>3
    <3> HIDE DEF f
    <3>3. SameQuestion /\ mapping' = f
      BY <3>1, <3>2 DEF SameQuestion, Fields, request, state, revision, mapping
    <3>4. plan' = plan /\ execution' = execution /\ draft' = draft /\ checked' = checked
      BY <3>1, <3>2 DEF Fields, plan, execution, draft, checked
    <3> QED
      BY <2>1, <3>3, <3>4 DEF SameEvidence, f
  <2>3. Counters' /\ Checkpoint' /\ Questioned'
    <3>1. attempt' \in {0, 1} /\ stage' \in Role \cup {"idle", "save"}
      BY <2>1 DEF IInv, Counters, Role
    <3> QED
      BY <1>1, <2>2, <3>1, TurnKeeps DEF SameEvidence
  <2>4. Said' /\ ~Replying'
    BY <1>1, <2>1, NothingSaid
  <2>5. Resolved' /\ Validated' /\ Retrieved'
    BY <1>1, <2>1, <2>2 DEF IInv, Resolved, Validated, Retrieved, From, Role, SameQuestion, SameEvidence
  <2>6. Claimed' /\ Checked'
    BY <1>1, <2>2 DEF IInv, Claimed, Checked, From, SameQuestion, SameEvidence
  <2>7. Witnessed'
    <3>1. Found' = Found
      BY <2>2, SameFound
    <3>2. \A id \in DOMAIN mapping' : Replays(mapping'[id], frozen)
      BY <1>3, <2>2, Zenon
    <3> QED
      BY <2>1, <2>2, <3>1, <3>2 DEF Witnessed
  <2> QED
    BY <2>3, <2>4, <2>5, <2>6, <2>7 DEF IInv
<1> QED
  BY <1>1, <1>2, <1>3

\* The verified claims of a question, in every state after the verifier's turn.
LEMMA AnswerableWhen ==
  ASSUME IInv, From({"Evidence_Builder", "Synthesizer"})
  PROVE  /\ Answerable(Selected(request, plan), execution.values) /\ Len(checked) = Len(draft)
         /\ Len(checked) = Len(Selected(request, plan)) + Extra(request)
         /\ Pooled(frozen, request, execution.values) /\ execution.state = state /\ IsRequest(request)
<1>1. stage # "idle" /\ From(Role \ {"Manager"}) /\ From(Role \ {"Manager", "Planner"})
  BY DEF From, Replying, Role
<1>2. From({"Drafting_Bridge", "Verifier", "Evidence_Builder", "Synthesizer"})
        /\ From({"Verifier", "Evidence_Builder", "Synthesizer"})
  BY DEF From
<1>3. IsRequest(request) /\ request.identifier # None /\ plan = PlanRequest(request, Release)
  BY <1>1 DEF IInv, Questioned, Resolved
<1>4. Accepted(plan) /\ execution = Execute(frozen, plan, Release, state) /\ execution.stop = None
  BY <1>1, <1>2 DEF IInv, Validated, Retrieved
<1>5. Pooled(frozen, request, execution.values) /\ execution.state = state
  BY <1>3, <1>4, PoolOfPlan
<1>6. draft = Draft(request, plan, execution.values)
  BY <1>2 DEF IInv, Claimed
<1>7. checked = [i \in DOMAIN draft |-> Verify(draft[i], execution.values)]
  BY DEF IInv, Checked
<1>8. Judged(request, Selected(request, plan), execution.values, checked) /\ Len(checked) = Len(draft)
  BY <1>3, <1>5, <1>6, <1>7, Judging
<1> QED
  BY <1>3, <1>5, <1>8, Answering DEF Judged

LEMMA SynthesizerIInv == ASSUME IInv, Synthesizer PROVE IInv'
<1>1. /\ stage = "Synthesizer" /\ Frame
      /\ Say(Abstained) \/ ((\A i \in DOMAIN Retained : Retained[i].final.id \in DOMAIN mapping) /\ Say(Answered))
  BY Zenon DEF Synthesizer
<1>2. CASE Say(Abstained)
  BY <1>1, <1>2, SayIInv, AbstainedAbstains
<1>3. CASE (\A i \in DOMAIN Retained : Retained[i].final.id \in DOMAIN mapping) /\ Say(Answered)
  <2>1. /\ stage' = "save" /\ outcome' = Answered /\ UNCHANGED <<attempt, work, frozen, working, dialogue, turns>>
    BY <1>1, <1>3 DEF Say, Frame
  <2>2. SameEvidence /\ mapping' = mapping
    BY <1>1, <2>1 DEF IInv, Questioned, SameEvidence, SameQuestion, request, state, revision, plan, execution,
                      draft, checked, mapping
  <2>3. Counters' /\ Checkpoint' /\ Questioned'
    <3>1. attempt' \in {0, 1} /\ stage' \in Role \cup {"idle", "save"}
      BY <2>1 DEF IInv, Counters
    <3> QED
      BY <1>1, <2>2, <3>1, TurnKeeps DEF SameEvidence
  <2>4. Retained # <<>> /\ Answered.type = "Answer"
    <3>1. Retained # <<>>
      BY <1>1, AnswerableWhen DEF From, Answerable
    <3> QED
      BY <3>1 DEF Answered
  <2>5. Resolved' /\ Validated' /\ Retrieved'
    BY <1>1, <2>1, <2>2 DEF IInv, Resolved, Validated, Retrieved, From, Role, SameQuestion, SameEvidence
  <2>6. Claimed' /\ Checked'
    BY <1>1, <2>2 DEF IInv, Claimed, Checked, From, SameQuestion, SameEvidence
  <2>7. Found' = Found /\ Retained' = Retained
    BY <2>2, SameFound
  <2>8. Witnessed'
    <3>1. mapping = Found /\ \A id \in DOMAIN mapping : Replays(mapping[id], frozen)
      BY <1>1 DEF IInv, Witnessed, From
    <3>2. \A id \in DOMAIN mapping' : Replays(mapping'[id], frozen)
      BY <2>2, <3>1, Zenon
    <3> QED
      BY <2>1, <2>2, <2>7, <3>1, <3>2 DEF Witnessed
  <2>9. Said'
    <3>1. Used' = Used
      BY <2>2, <2>7, Zenon DEF Used
    <3>2. Answered' = Answered
      BY <2>2, <2>7, <3>1 DEF Answered, SameEvidence, SameQuestion
    <3>3. outcome'.type = "Answer" /\ outcome' = Answered'
      BY <2>1, <2>4, <3>2
    <3>4. \A i \in DOMAIN Retained' : Retained'[i].final.id \in DOMAIN mapping'
      BY <1>3, <2>2, <2>7
    <3> QED
      BY <2>1, <3>3, <3>4 DEF Said
  <2> QED
    BY <2>3, <2>5, <2>6, <2>8, <2>9 DEF IInv
<1> QED
  BY <1>1, <1>2, <1>3

LEMMA TurnFailsIInv == ASSUME IInv, TurnFails PROVE IInv'
  BY SayIInv, AbstainedAbstains DEF TurnFails

\* Back to idle, with nothing said.
LEMMA IdleIInv ==
  ASSUME IInv, stage' = "idle", outcome' = None \/ outcome'.type \in {"Refused", "Abstain", "Counted"},
         attempt' \in {0, 1}, turns' \in 0..MaxTurns, UNCHANGED frozen, Checkpoint'
  PROVE  IInv'
<1>1. ~Replying'
  BY DEF Replying
<1>2. Counters'
  BY DEF IInv, Counters
<1>3. Questioned' /\ Resolved' /\ Validated' /\ Retrieved' /\ Claimed' /\ Checked' /\ Witnessed' /\ Said'
  BY <1>1 DEF Questioned, Resolved, Validated, Retrieved, Claimed, Checked, Witnessed, Said, From, Role
<1> QED
  BY <1>2, <1>3 DEF IInv

\* A state that is about the release is one that has been set.
LEMMA NamedSet == ASSUME NEW k, Named(k) PROVE k # Unset
<1>1. DOMAIN <<>> = {}
  OBVIOUS
<1> QED
  BY <1>1 DEF Named, Unset

\* What is saved is about the release.
LEMMA SavedNamed == ASSUME IInv, stage = "save" PROVE Named(outcome.state) /\ revision \in Nat
<1>1. Named(state) /\ revision \in Nat
  BY DEF IInv, Questioned
<1>2. CASE outcome.type # "Answer"
  BY <1>1, <1>2 DEF IInv, Said
<1>3. CASE outcome.type = "Answer"
  <2>1. outcome = Answered /\ execution.state = state
    BY <1>3, AnswerableWhen DEF IInv, Said, From, Replying
  <2> DEFINE new == [resolved_ids |-> execution.values["subject"].ids, window |-> request.window,
                     topic_id |-> request.topic, reference_date |-> request.window.reference,
                     prior_witnesses |-> Used]
  <2>2. outcome.state = Over(new, execution.state)
    BY <2>1 DEF Answered
  <2>3. "release_id" \notin DOMAIN new
    OBVIOUS
  <2> HIDE DEF new
  <2> QED
    BY <1>1, <2>1, <2>2, <2>3 DEF Named, Over
<1> QED
  BY <1>1, <1>2, <1>3

LEMMA SaveIInv == ASSUME IInv, Save PROVE IInv'
<1>1. /\ stage = "save" /\ stage' = "idle" /\ outcome' = None /\ attempt' = 0 /\ UNCHANGED <<frozen, working, turns>>
      /\ dialogue' = IF Current THEN [state |-> outcome.state, revision |-> revision + 1] ELSE dialogue
  BY DEF Save
<1>2. Named(outcome.state) /\ revision \in Nat
  BY <1>1, SavedNamed
<1>3. Checkpoint'
  <2>1. CASE Current
    <3>1. dialogue'.state = outcome.state /\ dialogue'.revision = revision + 1
      BY <1>1, <2>1
    <3>2. outcome.state # Unset
      BY <1>2, NamedSet
    <3>3. dialogue'.revision \in Nat /\ dialogue'.revision # 0
      BY <1>2, <3>1
    <3> QED
      BY <1>2, <3>1, <3>2, <3>3 DEF Checkpoint
  <2>2. CASE ~Current
    BY <1>1, <2>2 DEF IInv, Checkpoint
  <2> QED
    BY <2>1, <2>2
<1> QED
  BY <1>1, <1>3, IdleIInv DEF IInv, Counters

LEMMA CrashIInv == ASSUME IInv, Crash PROVE IInv'
<1>1. stage' = "idle" /\ outcome' = None /\ attempt' = 0 /\ UNCHANGED <<frozen, dialogue, turns>>
  BY DEF Crash
<1>2. Checkpoint' /\ turns' \in 0..MaxTurns
  BY <1>1 DEF IInv, Checkpoint, Counters
<1> QED
  BY <1>1, <1>2, IdleIInv

LEMMA AskCountIInv == ASSUME IInv, AskCount PROVE IInv'
<1>1. /\ stage = "idle" /\ turns < MaxTurns /\ turns' = turns + 1
      /\ UNCHANGED <<frozen, working, dialogue, stage, attempt, work>>
  BY DEF AskCount
<1>2. outcome'.type \in {"Refused", "Abstain", "Counted"}
  <2>1. PICK r, counted : outcome' \in
             IF working # frozen THEN {[type |-> "Refused"]}
             ELSE {[type |-> "Abstain", state |-> None]}
                  \cup IF Failed(counted) \/ CountPapers(working, r.identifier, r.window) # counted.papers
                       THEN {} ELSE {[type |-> "Counted", author |-> r.identifier, window |-> r.window,
                                      papers |-> counted.papers]}
    BY Zenon DEF AskCount
  <2> QED
    BY <2>1
<1>3. Checkpoint' /\ turns' \in 0..MaxTurns /\ attempt' \in {0, 1}
  BY <1>1, TurnsAssumption DEF IInv, Checkpoint, Counters
<1> QED
  BY <1>1, <1>2, <1>3, IdleIInv

LEMMA BuildIInv == ASSUME IInv, Build PROVE IInv'
<1>1. stage = "idle" /\ UNCHANGED <<frozen, dialogue, turns, stage, attempt, outcome>>
  BY DEF Build
<1>2. Checkpoint' /\ turns' \in 0..MaxTurns /\ attempt' \in {0, 1}
  BY <1>1 DEF IInv, Checkpoint, Counters
<1>3. outcome' = None \/ outcome'.type \in {"Refused", "Abstain", "Counted"}
  BY <1>1 DEF IInv, Said
<1> QED
  BY <1>1, <1>2, <1>3, IdleIInv

LEMMA ElsewhereIInv == ASSUME IInv, Elsewhere PROVE IInv'
<1>1. /\ stage # "idle" /\ UNCHANGED <<frozen, working, turns, stage, attempt, outcome, work>>
      /\ dialogue'.revision = dialogue.revision + 1
      /\ dialogue'.state = [release_id |-> Release, resolved_ids |-> {Other}, prior_witnesses |-> <<>>]
  BY DEF Elsewhere
<1>2. Counters'
  BY <1>1 DEF IInv, Counters
<1>3. Checkpoint'
  <2>1. Named(dialogue'.state)
    BY <1>1 DEF Named
  <2>2. dialogue'.state # Unset
    BY <2>1, NamedSet
  <2>3. dialogue'.revision \in Nat /\ dialogue'.revision # 0
    BY <1>1 DEF IInv, Checkpoint
  <2> QED
    BY <2>1, <2>2, <2>3 DEF Checkpoint
<1>4. Questioned'
  <2>1. request' = request /\ state' = state /\ revision' = revision
    BY <1>1 DEF request, state, revision
  <2>2. revision' <= dialogue'.revision /\ revision' # dialogue'.revision
    BY <1>1, <2>1 DEF IInv, Questioned, Checkpoint
  <2> QED
    BY <1>1, <2>1, <2>2 DEF IInv, Questioned
<1>5. SameEvidence /\ mapping' = mapping /\ (Replying' <=> Replying)
  BY <1>1 DEF IInv, Questioned, SameEvidence, SameQuestion, request, state, revision, plan, execution,
              draft, checked, mapping, Replying
<1>6. Found' = Found /\ Retained' = Retained
  BY <1>5, SameFound
<1>7. Resolved' /\ Validated' /\ Retrieved' /\ Claimed' /\ Checked'
  BY <1>1, <1>5 DEF IInv, Resolved, Validated, Retrieved, Claimed, Checked, From, SameQuestion, SameEvidence
<1>8. Witnessed'
  BY <1>1, <1>5, <1>6 DEF IInv, Witnessed, From
<1>9. Said'
  <2>1. Used' = Used
    BY <1>5, <1>6, Zenon DEF Used
  <2>2. Answered' = Answered
    BY <1>5, <1>6, <2>1 DEF Answered, SameEvidence, SameQuestion
  <2> QED
    BY <1>1, <1>5, <1>6, <2>2 DEF IInv, Said, SameEvidence, SameQuestion
<1> QED
  BY <1>2, <1>3, <1>4, <1>7, <1>8, <1>9 DEF IInv

LEMMA SameIInv == ASSUME IInv, UNCHANGED vars PROVE IInv'
<1>1. UNCHANGED <<frozen, working, dialogue, turns, stage, attempt, work, outcome>>
  BY DEF vars
<1>2. stage # "idle" => SameEvidence /\ mapping' = mapping /\ (Replying' <=> Replying)
  BY <1>1 DEF IInv, Questioned, SameEvidence, SameQuestion, request, state, revision, plan, execution,
              draft, checked, mapping, Replying
<1>3. CASE stage = "idle"
  BY <1>1, <1>3, IdleIInv DEF IInv, Counters, Checkpoint, Said
<1>4. CASE stage # "idle"
  <2>1. Found' = Found /\ Retained' = Retained
    BY <1>2, <1>4, SameFound
  <2>2. Counters' /\ Checkpoint' /\ Questioned'
    BY <1>1 DEF IInv, Counters, Checkpoint, Questioned, request, state, revision, Standing
  <2>3. Resolved' /\ Validated' /\ Retrieved' /\ Claimed' /\ Checked' /\ Witnessed'
    BY <1>1, <1>2, <1>4, <2>1
    DEF IInv, Resolved, Validated, Retrieved, Claimed, Checked, Witnessed, From, SameQuestion, SameEvidence
  <2>4. Said'
    <3>1. Used' = Used
      BY <1>2, <1>4, <2>1, Zenon DEF Used
    <3>2. Answered' = Answered
      BY <1>2, <1>4, <2>1, <3>1 DEF Answered, SameEvidence, SameQuestion
    <3> QED
      BY <1>1, <1>2, <1>4, <2>1, <3>2 DEF IInv, Said, SameEvidence, SameQuestion
  <2> QED
    BY <2>2, <2>3, <2>4 DEF IInv
<1> QED
  BY <1>3, <1>4

LEMMA NextIInv == ASSUME IInv, [Next]_vars PROVE IInv'
<1>1. CASE Open
  BY <1>1, OpenIInv
<1>2. CASE Manager
  BY <1>2, ManagerIInv
<1>3. CASE Planner
  BY <1>3, PlannerIInv
<1>4. CASE PlannerRetries
  BY <1>4, RetriesIInv
<1>5. CASE Retriever
  BY <1>5, RetrieverIInv
<1>6. CASE DraftingBridge
  BY <1>6, DraftingIInv
<1>7. CASE Verifier
  BY <1>7, VerifierIInv
<1>8. CASE EvidenceBuilder
  BY <1>8, EvidenceIInv
<1>9. CASE Synthesizer
  BY <1>9, SynthesizerIInv
<1>10. CASE TurnFails
  BY <1>10, TurnFailsIInv
<1>11. CASE AskCount
  BY <1>11, AskCountIInv
<1>12. CASE Save
  BY <1>12, SaveIInv
<1>13. CASE Crash
  BY <1>13, CrashIInv
<1>14. CASE Build
  BY <1>14, BuildIInv
<1>15. CASE Elsewhere
  BY <1>15, ElsewhereIInv
<1>16. CASE Finished \/ UNCHANGED vars
  BY <1>16, SameIInv DEF Finished
<1> QED
  BY <1>1, <1>2, <1>3, <1>4, <1>5, <1>6, <1>7, <1>8, <1>9, <1>10, <1>11, <1>12, <1>13, <1>14, <1>15, <1>16, Zenon DEF Next

\* The inductive invariant holds in every state.
THEOREM AlwaysIInv == Spec => []IInv
<1>1. Init => IInv
  BY InitIInv
<1>2. IInv /\ [Next]_vars => IInv'
  BY NextIInv
<1> QED
  BY <1>1, <1>2, PTL DEF Spec

\* The state is well formed, and the planner and the validator agree on every plan.
THEOREM AnalysisTypes == Spec => []TypeOK
<1>1. IInv => TypeOK
  <2> SUFFICES ASSUME IInv PROVE TypeOK
    OBVIOUS
  <2>1. /\ turns \in 0..MaxTurns /\ stage \in Role \cup {"idle", "save"} /\ attempt \in {0, 1}
        /\ dialogue.revision \in Nat /\ (dialogue.state = Unset <=> dialogue.revision = 0)
        /\ stage = "save" => outcome.type \in {"Answer", "Abstain", "Clarify"}
    BY DEF IInv, Counters, Checkpoint, Said
  <2>2. ASSUME stage \in Role \ {"Manager"} PROVE Accepted(plan) <=> Plannable(request)
    <3>1. IsRequest(request) /\ request.identifier # None /\ plan = PlanRequest(request, Release)
      BY <2>2 DEF IInv, Questioned, Resolved, From, Role
    <3> QED
      BY <3>1, PlanAccepted
  <2>3. ASSUME stage \in {"Evidence_Builder", "Synthesizer"} PROVE Len(checked) = Len(draft)
    BY <2>3, AnswerableWhen DEF From
  <2> QED
    BY <2>1, <2>2, <2>3 DEF TypeOK
<1> QED
  BY <1>1, AlwaysIInv, PTL

\* Every claim of an answer is witnessed from the frozen graph, of the subject and
\* the window asked about, and no cause is claimed (claims.py:132-157).
THEOREM AnswersGrounded == Spec => []AnswerGrounded
<1>1. IInv => AnswerGrounded
  <2> SUFFICES ASSUME IInv, outcome # None, outcome.type = "Answer" PROVE AnswerGrounded
    BY DEF AnswerGrounded
  <2> DEFINE sel == Selected(request, plan)
             pool == execution.values
             n == Len(sel)
  <2>1. stage = "save" /\ outcome = Answered /\ \A i \in DOMAIN Retained : Retained[i].final.id \in DOMAIN mapping
    BY DEF IInv, Said
  <2>2. From({"Evidence_Builder", "Synthesizer"}) /\ From({"Synthesizer"}) /\ From(Role \ {"Manager"})
    BY <2>1 DEF From, Replying
  <2>3. mapping = Found /\ \A id \in DOMAIN mapping : Replays(mapping[id], frozen)
    BY <2>2 DEF IInv, Witnessed
  <2>4. /\ Answerable(sel, pool) /\ Len(checked) = n + Extra(request) /\ IsRequest(request)
        /\ Pooled(frozen, request, pool)
    BY <2>2, AnswerableWhen
  <2>5. plan = PlanRequest(request, Release)
    BY <2>2 DEF IInv, Resolved
  <2>6. \A i \in 1..n : Claims(request, sel[i])
    BY <2>4, <2>5, SelectedSteps
  <2>7. /\ DOMAIN Retained = 1..n /\ Len(Retained) = n /\ n \in 1..3
        /\ \A i \in 1..n : LET c == Retained[i].final IN
             Granted(c, sel[i], pool) /\ c.id \in DOMAIN Found /\ Found[c.id] = Witness(c)
    BY <2>4, Zenon DEF Answerable
  <2>8. pool["subject"].ids = {request.identifier}
    <3>1. Subject(request) \in StepSet(request) /\ Subject(request).id = "subject"
            /\ Subject(request).op = "ResolveEntity"
      BY StepIds DEF StepSet
    <3>2. Performed(frozen, Subject(request), pool)
      BY <2>4, <3>1 DEF Pooled
    <3>3. PICK v, k : /\ Readable(Subject(request), v) /\ pool["subject"] = Perform(frozen, Subject(request), v, k)
                      /\ ~Failed(pool["subject"])
      BY <3>1, <3>2, Zenon DEF Performed
    <3>4. pool["subject"] = Resolve(frozen, Subject(request).args)
      BY <3>1, <3>3 DEF Perform
    <3>5. PICK e \in Matches(frozen, request) : e.id = request.identifier
      BY <2>2 DEF IInv, Resolved
    <3>6. e \in Matches(frozen, Subject(request).args)
      BY <3>5, SubjectMatches
    <3>7. frozen \in Graphs
      BY DEF IInv, Counters
    <3> HIDE DEF pool
    <3> QED
      BY <3>3, <3>4, <3>5, <3>6, <3>7, ResolvedSubject
  <2>9. outcome.refused = Cardinality({i \in 1..1 : request.causal})
    <3>1. outcome.refused = Len(checked) - Len(Retained)
      BY <2>1 DEF Answered
    <3>2. outcome.refused = Extra(request)
      BY <2>4, <2>7, <3>1 DEF Extra
    <3>3. CASE request.causal
      <4>1. {i \in 1..1 : request.causal} = {1}
        BY <3>3
      <4> QED
        BY <3>2, <3>3, <4>1, FS_Singleton DEF Extra
    <3>4. CASE ~request.causal
      <4>1. {i \in 1..1 : request.causal} = {}
        BY <3>4
      <4> QED
        BY <3>2, <3>4, <4>1, FS_EmptySet DEF Extra
    <3> QED
      BY <3>3, <3>4
  <2>10. ASSUME NEW i \in 1..n
         PROVE  LET c == Retained[i].final
                    w == Used[i]
                IN  /\ ~Causal(c) /\ c.scope = "frozen_release" /\ w.claim = c
                    /\ Replays(w, frozen)
                    /\ w.execution.values["subject"].ids = {request.identifier}
                    /\ c.step # "before" /\ "window" \in DOMAIN c.evidence => c.evidence.window = request.window
    <3> DEFINE c == Retained[i].final
               w == Used[i]
    <3>1. w = Witness(c) /\ Granted(c, sel[i], pool) /\ c.id \in DOMAIN mapping
      BY <2>1, <2>3, <2>7 DEF Used
    <3>2. w.claim = c /\ w.execution = execution
      BY <3>1 DEF Witness
    <3>3. Replays(w, frozen)
      <4>1. w = mapping[c.id] /\ c.id \in DOMAIN mapping
        BY <2>1, <2>7 DEF Used
      <4> HIDE DEF c, w
      <4> QED
        BY <2>3, <4>1, Zenon
    <3>4. ~Causal(c) /\ c.scope = "frozen_release" /\ c.step = sel[i] /\ c.evidence = pool[sel[i]]
      BY <3>1 DEF Granted
    <3>5. c.step # "before" /\ "window" \in DOMAIN c.evidence => c.evidence.window = request.window
      BY <2>4, <2>6, <3>4, SelectedWindow
    <3> HIDE DEF c, w
    <3>6. w.execution.values["subject"].ids = {request.identifier}
      BY <2>8, <3>2
    <3>7. ~Causal(c) /\ c.scope = "frozen_release" /\ w.claim = c
      BY <3>2, <3>4
    <3> QED
      BY <3>3, <3>5, <3>6, <3>7, Zenon DEF c, w
  <2>11. outcome.claims = Retained /\ outcome.state.prior_witnesses = Used
    <3> DEFINE new == [resolved_ids |-> execution.values["subject"].ids, window |-> request.window,
                       topic_id |-> request.topic, reference_date |-> request.window.reference,
                       prior_witnesses |-> Used]
    <3>1. outcome.claims = Retained /\ outcome.state = Over(new, execution.state)
      BY <2>1 DEF Answered
    <3>2. "prior_witnesses" \in DOMAIN new /\ new.prior_witnesses = Used
      OBVIOUS
    <3> HIDE DEF new
    <3> QED
      BY <3>1, <3>2 DEF Over
  <2> HIDE DEF sel, pool, n
  <2> QED
    BY <2>7, <2>9, <2>10, <2>11, Zenon DEF AnswerGrounded
<1> QED
  BY <1>1, AlwaysIInv, PTL

\* A saved state succeeds the one it was made from (durable.py:266-284).
THEOREM StatesSucceed == Spec => StateSucceeds
<1>1. ASSUME IInv, Save, dialogue' # dialogue
      PROVE  /\ dialogue'.revision = dialogue.revision + 1 /\ dialogue'.state.release_id = Release
             /\ LET before == IF dialogue.state = Unset THEN [release_id |-> Release] ELSE dialogue.state IN
                IF outcome.type = "Answer"
                THEN \A i \in DOMAIN dialogue'.state.prior_witnesses :
                       dialogue'.state.prior_witnesses[i].stateBefore = before
                ELSE dialogue'.state = before
  <2>1. /\ stage = "save" /\ revision = dialogue.revision
        /\ dialogue'.state = outcome.state /\ dialogue'.revision = revision + 1
    BY <1>1 DEF Save, Current
  <2>2. Named(outcome.state) /\ state = Standing
    BY <1>1, <2>1, SavedNamed DEF IInv, Questioned
  <2>3. outcome.type # "Answer" => outcome.state = state
    BY <1>1, <2>1 DEF IInv, Said
  <2>4. ASSUME outcome.type = "Answer", NEW i \in DOMAIN outcome.state.prior_witnesses
        PROVE  outcome.state.prior_witnesses[i].stateBefore = state
    <3> DEFINE new == [resolved_ids |-> execution.values["subject"].ids, window |-> request.window,
                       topic_id |-> request.topic, reference_date |-> request.window.reference,
                       prior_witnesses |-> Used]
    <3>1. outcome = Answered
      BY <1>1, <2>1, <2>4 DEF IInv, Said
    <3>2. outcome.state = Over(new, execution.state)
      BY <3>1 DEF Answered
    <3>3. "prior_witnesses" \in DOMAIN new /\ new.prior_witnesses = Used
      OBVIOUS
    <3>4. outcome.state.prior_witnesses = Used
      <4> HIDE DEF new
      <4> QED
        BY <3>2, <3>3 DEF Over
    <3>5. i \in DOMAIN Retained /\ Used[i] = mapping[Retained[i].final.id]
      BY <2>4, <3>4 DEF Used
    <3>6. Retained[i].final.id \in DOMAIN mapping
      BY <1>1, <2>1, <2>4, <3>5 DEF IInv, Said
    <3>7. mapping = Found
      BY <1>1, <2>1, <2>4 DEF IInv, Witnessed, From, Replying
    <3>8. PICK c : Found[Retained[i].final.id] = Witness(c)
      BY <3>6, <3>7, Zenon DEF Found
    <3> QED
      BY <3>4, <3>5, <3>7, <3>8 DEF Witness
  <2> QED
    BY <2>1, <2>2, <2>3, <2>4 DEF Named, Standing
<1> QED
  BY <1>1, AlwaysIInv, PTL DEF StateSucceeds

-----------------------------------------------------------------------------
\* Counts, whatever the days.

\* What the bounds of a range say of a day that it may be.
LEMMA PossibleBounds ==
  ASSUME NEW t, IsRange(t), NEW d \in Possible(t, Days)
  PROVE  /\ d \in Int
         /\ Known(t.lower) => t.lower \in Int /\ t.lower <= d
         /\ Known(t.upper) => t.upper \in Int /\ d <= t.upper
<1>1. d \in Int /\ ~After(t, d) /\ ~Before(t, d)
  BY DaysAssumption DEF Possible
<1>2. Known(t.lower) => t.lower \in Int /\ t.lower <= d
  BY <1>1 DEF After, IsRange, Known
<1>3. Known(t.upper) => t.upper \in Int /\ d <= t.upper
  BY <1>1 DEF Before, IsRange, Known
<1> QED
  BY <1>1, <1>2, <1>3

\* A date that is inside or outside of a window is so on every day it may have been on.
LEMMA WithinBounds ==
  ASSUME NEW t, IsRange(t), NEW w, w.start \in Int, w.end \in Int, NEW d \in Possible(t, Days)
  PROVE  (Membership(t, w) = "inside" => In(d, w)) /\ (Membership(t, w) = "outside" => ~In(d, w))
<1>1. d \in Int
  BY PossibleBounds
<1>2. Known(t.lower) => t.lower \in Int /\ t.lower <= d
  BY PossibleBounds
<1>3. Known(t.upper) => t.upper \in Int /\ d <= t.upper
  BY PossibleBounds
<1>4. ASSUME Membership(t, w) = "inside" PROVE In(d, w)
  <2>1. Bounded(t) /\ w.start <= t.lower /\ t.upper <= w.end
    BY <1>4 DEF Membership
  <2> QED
    BY <1>1, <1>2, <1>3, <2>1 DEF Bounded, In
<1>5. ASSUME Membership(t, w) = "outside" PROVE ~In(d, w)
  <2>1. Before(t, w.start) \/ After(t, w.end)
    BY <1>5 DEF Membership
  <2> QED
    BY <1>1, <1>2, <1>3, <2>1 DEF Before, After, In
<1> QED
  BY <1>4, <1>5

LEMMA PairFinite == ASSUME NEW x, NEW y, x # y PROVE IsFiniteSet({x, y}) /\ Cardinality({x, y}) = 2
<1>1. IsFiniteSet({x}) /\ Cardinality({x}) = 1
  BY FS_Singleton
<1>2. IsFiniteSet({x} \cup {y}) /\ Cardinality({x} \cup {y}) = 1 + 1
  BY <1>1, FS_AddElement
<1>3. {x, y} = {x} \cup {y}
  OBVIOUS
<1> QED
  BY <1>2, <1>3

\* Attestations that do not disagree say one thing.
LEMMA OneStatus ==
  ASSUME NEW S, IsFiniteSet(S), ~Disagreeing(S), NEW x \in S
  PROVE  S = {x} /\ x # "indeterminate"
<1>1. Cardinality(S) \in Nat /\ ~(Cardinality(S) > 1) /\ "indeterminate" \notin S
  BY FS_CardinalityType DEF Disagreeing
<1>2. ASSUME NEW y \in S, y # x PROVE FALSE
  <2>1. {x, y} \subseteq S /\ Cardinality({x, y}) = 2
    BY <1>2, PairFinite
  <2>2. Cardinality({x, y}) <= Cardinality(S)
    BY <2>1, FS_Subset
  <2> QED
    BY <1>1, <2>1, <2>2
<1> QED
  BY <1>1, <1>2

Statuses(rows, w) == {Membership(r.time, w) : r \in rows}

LEMMA StatusesFinite ==
  ASSUME NEW rows, NEW w PROVE IsFiniteSet(Statuses(rows, w))
<1>1. Statuses(rows, w) \subseteq {"inside", "outside"} \cup {"indeterminate"}
  BY DEF Statuses, Membership
<1>2. IsFiniteSet({"inside", "outside"})
  BY PairFinite
<1>3. IsFiniteSet({"inside", "outside"} \cup {"indeterminate"})
  BY <1>2, FS_AddElement
<1> QED
  BY <1>1, <1>3, FS_Subset

\* The rows a count attributes to its institution and its topic.
Attributed(g, args, rows) ==
  {r \in rows : /\ args.attribution = "publication_authorship" => args.institution \in r.institutions
                /\ args.topic # None => \E a \in g.assertions :
                     a.head = r.tail /\ a.relation = "classifiedAs" /\ a.tail = args.topic}
OfPaper(rows, p) == {r \in rows : r.tail = p}

\* What a count of tails returns, and that no object of it has dates that disagree.
LEMMA CountReturns ==
  ASSUME NEW g, NEW args, NEW v, Count(g, args, v).type = "aggregate",
         args.source = None, v[args.input].target = "tail"
  PROVE  LET c == Count(g, args, v)
             w == Windowed(v, args)
             kept == Attributed(g, args, Rows(g, Considered(v[args.input])))
         IN  /\ c.ids = {o \in {r.tail : r \in kept} : Statuses(OfPaper(kept, o), w) = {"inside"}}
             /\ c.inputs = Considered(v[args.input]) /\ c.window = w
             /\ c.policy = <<args.unit, args.attribution, args.institution, args.topic, args.source>>
             /\ \A r \in kept : ~Disagreeing(Statuses(OfPaper(kept, r.tail), w))
<1> DEFINE source == v[args.input]
           w == Windowed(v, args)
           rows == {a \in Rows(g, Considered(source)) : args.source # None => a.source = args.source}
           authored == args.attribution = "publication_authorship"
           attributed == {r \in rows : authored => args.institution \in r.institutions}
           kept == {r \in attributed : args.topic # None => \E a \in g.assertions :
                      a.head = r[source.target] /\ a.relation = "classifiedAs" /\ a.tail = args.topic}
           group(o) == {r \in kept : r[source.target] = o}
           objects == {r[source.target] : r \in kept}
           statuses(o) == {Membership(r.time, w) : r \in group(o)}
           selected == {o \in objects : statuses(o) = {"inside"}}
           c == Count(g, args, v)
           mine == Attributed(g, args, Rows(g, Considered(source)))
<1>1. /\ c.ids = selected /\ c.inputs = Considered(source) /\ c.window = w
      /\ c.policy = <<args.unit, args.attribution, args.institution, args.topic, args.source>>
      /\ \A o \in objects : ~Disagreeing(statuses(o))
  BY DEF Count, Fail
<1>2. kept = mine
  BY DEF Attributed
<1>3. objects = {r.tail : r \in mine}
  BY <1>2
<1>4. \A o : statuses(o) = Statuses(OfPaper(mine, o), w)
  BY <1>2 DEF Statuses, OfPaper
<1> HIDE DEF c, kept, mine, objects, statuses, selected, w
<1>5. selected = {o \in {r.tail : r \in mine} : Statuses(OfPaper(mine, o), w) = {"inside"}}
  BY <1>3, <1>4 DEF selected
<1>6. \A r \in mine : ~Disagreeing(Statuses(OfPaper(mine, r.tail), w))
  BY <1>1, <1>3, <1>4
<1> QED
  BY <1>1, <1>5, <1>6 DEF c, mine, w

\* What the steps of a plan that are not claimed have for a value.
LEMMA NormalizedValue ==
  ASSUME NEW g, NEW s, NEW values, Performed(g, s, values), s.op = "NormalizeTime"
  PROVE  values[s.id].period = s.args.period
<1>1. PICK v, k : Readable(s, v) /\ values[s.id] = Perform(g, s, v, k)
  BY DEF Performed
<1>2. Perform(g, s, v, k) = [type |-> "window", period |-> s.args.period]
  BY <1>1 DEF Perform
<1> QED
  BY <1>1, <1>2

LEMMA ExpandTarget ==
  ASSUME NEW g, NEW q, NEW v, Expand(g, q, v).type = "edges", q.direction = "out"
  PROVE  Expand(g, q, v).target = "tail"
  BY DEF Expand, Fail

LEMMA ExpandedValue ==
  ASSUME NEW g, NEW s, NEW values, Performed(g, s, values), s.op = "Expand", s.args.direction = "out"
  PROVE  values[s.id].target = "tail"
<1>1. PICK v, k : /\ Readable(s, v) /\ values[s.id] = Perform(g, s, v, k)
                  /\ Perform(g, s, v, k).type = Binding(s)
  BY DEF Performed
<1>2. Perform(g, s, v, k) = Expand(g, s.args, v) /\ Expand(g, s.args, v).type = "edges"
  BY <1>1, PerformsBy
<1> QED
  BY <1>1, <1>2, ExpandTarget

\* An aggregate reads its input and its window.
LEMMA AggregatedValue ==
  ASSUME NEW g, NEW s, NEW values, Performed(g, s, values), IsStep(s), s.op = "Aggregate"
  PROVE  \E v : /\ values[s.id] = Aggregate(g, s.args, v) /\ ~Failed(Aggregate(g, s.args, v))
                /\ v[s.args.input] = values[s.args.input] /\ v[s.args.window] = values[s.args.window]
<1>1. PICK v, k : /\ Readable(s, v) /\ values[s.id] = Perform(g, s, v, k) /\ ~Failed(Perform(g, s, v, k))
                  /\ Perform(g, s, v, k).type = Binding(s) /\ \A x \in Refs(s.args) : v[x] = values[x]
  BY DEF Performed
<1>2. Perform(g, s, v, k) = Aggregate(g, s.args, v)
  BY <1>1, PerformsBy
<1>3. References \cap DOMAIN s.args = {"input", "window"}
  BY DEF IsStep, Slots
<1>4. s.args.input \in Refs(s.args) /\ s.args.window \in Refs(s.args)
  BY <1>3, Zenon DEF Refs
<1> QED
  BY <1>1, <1>2, <1>4

-----------------------------------------------------------------------------
\* The counts of a plan.

PlanCounts(r, s) ==
  \E input, w, unit, institution, topic :
    /\ CountsOf(s, s.id, input, w, unit, institution, topic)
    /\ \E x \in StepSet(r) : x.id = input /\ x.op = "Expand" /\ x.args.direction = "out"
    /\ \E x \in StepSet(r) : x.id = w /\ x.op = "NormalizeTime" /\ IsWindow(x.args.period)

LEMMA ExpandsOut ==
  ASSUME NEW r
  PROVE  /\ PapersOf(r).id = "papers" /\ PapersOf(r).op = "Expand" /\ PapersOf(r).args.direction = "out"
         /\ \A relation : LET x == Related(relation) IN
              x.id = "relations" /\ x.op = "Expand" /\ x.args.direction = "out"
  BY DEF PapersOf, Related, ExpandBy, Step

LEMMA AggregateBinding ==
  ASSUME NEW s, IsStep(s), Binding(s) = "aggregate" PROVE s.op = "Aggregate"
  BY DEF Binding, Outputs, IsStep

LEMMA CountsAreOf ==
  ASSUME NEW r, IsRequest(r), r.identifier # None, r.family \in {"count", "comparison", "sites"},
         NEW s \in StepSet(r), IsStep(s), Binding(s) = "aggregate"
  PROVE  PlanCounts(r, s)
<1>1. s.op = "Aggregate"
  BY AggregateBinding
<1>2. Asked(r) \in StepSet(r) /\ Asked(r).id = "window" /\ Asked(r).op = "NormalizeTime"
        /\ IsWindow(Asked(r).args.period)
  BY StepIds DEF StepSet, IsRequest
<1>3. CASE r.family \in {"count", "comparison"}
  <2>1. PapersOf(r) \in StepSet(r)
    BY <1>3 DEF StepSet, FamilySteps
  <2>2. s = PaperCount(r, "after", "window") \/ (r.family = "comparison" /\ s = PaperCount(r, "before", "before_window"))
    <3>1. s \in {Subject(r), Asked(r), Projected(r), Authors, PapersOf(r), AskedBefore(r), Compared}
            \/ s = PaperCount(r, "after", "window")
            \/ (r.family = "comparison" /\ s = PaperCount(r, "before", "before_window"))
      BY <1>3 DEF StepSet, FamilySteps
    <3>2. Authors.op = "Expand" /\ AskedBefore(r).op = "NormalizeTime" /\ Projected(r).op = "ProjectProvenance"
      BY DEF Authors, AskedBefore, Projected, ExpandBy, Step
    <3> QED
      BY <1>1, <3>1, <3>2, ExpandsOut, StepIds
  <2>3. CASE s = PaperCount(r, "after", "window")
    <3>1. CountsOf(s, s.id, "papers", "window", "Paper", Place(r), r.topic)
      BY <2>3, PaperCounting, StepIds
    <3> QED
      BY <1>2, <2>1, <3>1, ExpandsOut DEF PlanCounts
  <2>4. CASE r.family = "comparison" /\ s = PaperCount(r, "before", "before_window")
    <3>1. CountsOf(s, s.id, "papers", "before_window", "Paper", Place(r), r.topic)
      BY <2>4, PaperCounting, StepIds
    <3>2. AskedBefore(r) \in StepSet(r) /\ AskedBefore(r).id = "before_window" /\ AskedBefore(r).op = "NormalizeTime"
          /\ IsWindow(AskedBefore(r).args.period)
      BY <2>4 DEF StepSet, FamilySteps, AskedBefore, Step, IsRequest
    <3> QED
      BY <2>1, <3>1, <3>2, ExpandsOut DEF PlanCounts
  <2> QED
    BY <2>2, <2>3, <2>4
<1>4. CASE r.family = "sites"
  <2>1. Related("hasSite") \in StepSet(r) /\ s \in {Subject(r), Asked(r), Projected(r), Related("hasSite"), Sited, Announced}
    BY <1>4 DEF StepSet, FamilySteps
  <2>2. Projected(r).op = "ProjectProvenance"
    BY DEF Projected, Step
  <2>3. s = Sited
    BY <1>1, <2>1, <2>2, ExpandsOut, StepIds
  <2>4. CountsOf(s, s.id, "relations", "window", "Institution", None, None)
    BY <2>3, SiteCounting, StepIds
  <2> QED
    BY <1>2, <2>1, <2>4, ExpandsOut DEF PlanCounts
<1> QED
  BY <1>3, <1>4

LEMMA ExecutedPool ==
  ASSUME IInv, stage = "Drafting_Bridge"
  PROVE  /\ Pooled(frozen, request, execution.values) /\ IsRequest(request) /\ request.identifier # None
         /\ frozen \in Graphs
<1>1. stage # "idle" /\ From(Role \ {"Manager"}) /\ From(Role \ {"Manager", "Planner"})
        /\ From({"Drafting_Bridge", "Verifier", "Evidence_Builder", "Synthesizer"})
  BY DEF From, Role
<1>2. IsRequest(request) /\ request.identifier # None /\ plan = PlanRequest(request, Release) /\ frozen \in Graphs
  BY <1>1 DEF IInv, Questioned, Resolved, Counters
<1>3. Accepted(plan) /\ execution = Execute(frozen, plan, Release, state) /\ execution.stop = None
  BY <1>1 DEF IInv, Validated, Retrieved
<1> QED
  BY <1>2, <1>3, PoolOfPlan

\* What a counted step of a plan returns.
CountedBy(value) ==
  LET rows == Attributed(frozen, [attribution |-> value.policy[2], institution |-> value.policy[3], topic |-> value.policy[4]],
                         Rows(frozen, value.inputs))
  IN  /\ IsWindow(value.window)
      /\ value.ids = {o \in {r.tail : r \in rows} : Statuses(OfPaper(rows, o), value.window) = {"inside"}}
      /\ \A r \in rows : ~Disagreeing(Statuses(OfPaper(rows, r.tail), value.window))

LEMMA AttributedBy ==
  ASSUME NEW g, NEW a, NEW b, NEW rows, a.attribution = b.attribution, a.institution = b.institution, a.topic = b.topic
  PROVE  Attributed(g, a, rows) = Attributed(g, b, rows)
  BY DEF Attributed

\* c is the count of tails that args ask for, from the edges in source.
Tallies(c, args, source, w) ==
  LET rows == Attributed(frozen, args, Rows(frozen, Considered(source)))
  IN  /\ c.type = "aggregate" /\ c.inputs = Considered(source) /\ c.window = w
      /\ c.policy = <<args.unit, args.attribution, args.institution, args.topic, args.source>>
      /\ c.ids = {o \in {z.tail : z \in rows} : Statuses(OfPaper(rows, o), w) = {"inside"}}
      /\ \A z \in rows : ~Disagreeing(Statuses(OfPaper(rows, z.tail), w))

\* The value of a count of tails in a plan.
LEMMA CountValue ==
  ASSUME NEW r, NEW pool, Pooled(frozen, r, pool), NEW s \in StepSet(r), NEW input, NEW w, NEW unit, NEW institution,
         NEW topic, CountsOf(s, s.id, input, w, unit, institution, topic), pool[input].target = "tail"
  PROVE  Tallies(pool[s.id], s.args, pool[input], pool[w].period)
<1>1. IsStep(s) /\ Performed(frozen, s, pool)
  BY DEF Pooled
<1>2. s.op = "Aggregate"
  BY DEF CountsOf, Step
<1>3. /\ s.args.input = input /\ s.args.window = w /\ s.args.metric = "count" /\ s.args.source = None
      /\ s.args.unit = unit /\ s.args.institution = institution /\ s.args.topic = topic
  BY DEF CountsOf
<1>4. PICK v : /\ pool[s.id] = Aggregate(frozen, s.args, v) /\ ~Failed(Aggregate(frozen, s.args, v))
               /\ v[input] = pool[input] /\ v[w] = pool[w]
  BY <1>1, <1>2, <1>3, AggregatedValue
<1> DEFINE c == Count(frozen, s.args, v)
           rows == Attributed(frozen, s.args, Rows(frozen, Considered(v[input])))
<1>5. pool[s.id] = c /\ c.type = "aggregate"
  <2>1. pool[s.id] = c /\ ~Failed(c)
    BY <1>3, <1>4 DEF Aggregate
  <2>2. c.type \in {"ValueError", "Incomplete", "aggregate"}
    BY CountType
  <2> HIDE DEF c
  <2> QED
    BY <2>1, <2>2 DEF Failed, Failures
<1>6. Windowed(v, s.args) = pool[w].period
  BY <1>3, <1>4 DEF Windowed
<1>7. Count(frozen, s.args, v).type = "aggregate" /\ s.args.source = None /\ v[s.args.input].target = "tail"
  BY <1>3, <1>4, <1>5
<1>8. /\ c.ids = {o \in {z.tail : z \in rows} : Statuses(OfPaper(rows, o), Windowed(v, s.args)) = {"inside"}}
      /\ c.inputs = Considered(v[input]) /\ c.window = Windowed(v, s.args)
      /\ c.policy = <<s.args.unit, s.args.attribution, s.args.institution, s.args.topic, s.args.source>>
      /\ \A z \in rows : ~Disagreeing(Statuses(OfPaper(rows, z.tail), Windowed(v, s.args)))
  <2> HIDE DEF c
  <2> QED
    BY <1>3, <1>7, CountReturns DEF c
<1>9. rows = Attributed(frozen, s.args, Rows(frozen, Considered(pool[input])))
  BY <1>4
<1> HIDE DEF c, rows
<1> QED
  BY <1>4, <1>5, <1>6, <1>8, <1>9 DEF Tallies

LEMMA StepsCount ==
  ASSUME NEW r, IsRequest(r), r.identifier # None, r.family \in {"count", "comparison", "sites"},
         NEW pool, Pooled(frozen, r, pool), NEW x \in DOMAIN pool, pool[x].type = "aggregate"
  PROVE  CountedBy(pool[x])
<1>1. PICK s \in StepSet(r) : s.id = x
  BY DEF Pooled, IdsOf
<1>2. IsStep(s) /\ Performed(frozen, s, pool)
  BY DEF Pooled
<1>3. Binding(s) = "aggregate"
  BY <1>1, <1>2 DEF Performed
<1>4. PICK input, w, unit, institution, topic :
        /\ CountsOf(s, s.id, input, w, unit, institution, topic)
        /\ \E y \in StepSet(r) : y.id = input /\ y.op = "Expand" /\ y.args.direction = "out"
        /\ \E y \in StepSet(r) : y.id = w /\ y.op = "NormalizeTime" /\ IsWindow(y.args.period)
  BY <1>2, <1>3, CountsAreOf DEF PlanCounts
<1>5. pool[input].target = "tail" /\ IsWindow(pool[w].period)
  BY <1>4, ExpandedValue, NormalizedValue DEF Pooled
<1> DEFINE c == pool[x]
           rows == Attributed(frozen, s.args, Rows(frozen, Considered(pool[input])))
           b == [attribution |-> c.policy[2], institution |-> c.policy[3], topic |-> c.policy[4]]
<1>6. /\ c.inputs = Considered(pool[input]) /\ c.window = pool[w].period
      /\ c.policy = <<s.args.unit, s.args.attribution, s.args.institution, s.args.topic, s.args.source>>
      /\ c.ids = {o \in {z.tail : z \in rows} : Statuses(OfPaper(rows, o), c.window) = {"inside"}}
      /\ \A z \in rows : ~Disagreeing(Statuses(OfPaper(rows, z.tail), c.window))
  <2>1. Tallies(pool[s.id], s.args, pool[input], pool[w].period)
    BY <1>4, <1>5, CountValue
  <2> QED
    BY <1>1, <2>1 DEF Tallies
<1>7. rows = Attributed(frozen, b, Rows(frozen, c.inputs))
  <2>1. b.attribution = s.args.attribution /\ b.institution = s.args.institution /\ b.topic = s.args.topic
    BY <1>6
  <2> HIDE DEF b, c
  <2> QED
    BY <1>6, <2>1, AttributedBy
<1> HIDE DEF rows, c
<1> QED
  BY <1>5, <1>6, <1>7 DEF CountedBy, b, c

THEOREM CountsExact == Spec => []CountExact
<1>1. IInv => CountExact
  <2> SUFFICES ASSUME IInv, Executed({"count", "comparison", "sites"}),
                      NEW step \in DOMAIN execution.values, execution.values[step].type = "aggregate",
                      NEW r \in Counted(step), NEW d \in Possible(r.time, Days)
               PROVE  In(d, execution.values[step].window) <=> r.tail \in execution.values[step].ids
    BY DEF CountExact
  <2> DEFINE value == execution.values[step]
             w == value.window
             rows == Attributed(frozen, [attribution |-> value.policy[2], institution |-> value.policy[3],
                                         topic |-> value.policy[4]], Rows(frozen, value.inputs))
  <2>1. CountedBy(value)
    BY ExecutedPool, StepsCount DEF Executed
  <2>2. r \in rows
    BY DEF Counted, Attributed
  <2>3. /\ value.ids = {o \in {z.tail : z \in rows} : Statuses(OfPaper(rows, o), w) = {"inside"}}
        /\ IsWindow(w) /\ ~Disagreeing(Statuses(OfPaper(rows, r.tail), w))
    BY <2>1, <2>2 DEF CountedBy
  <2>4. IsRange(r.time)
    <3>1. frozen \in Graphs /\ r \in frozen.assertions
      BY DEF IInv, Counters, Counted, Rows
    <3> QED
      BY <3>1, GraphsAssumption DEF IsGraph
  <2>5. Membership(r.time, w) \in Statuses(OfPaper(rows, r.tail), w)
    BY <2>2 DEF Statuses, OfPaper
  <2>6. /\ Statuses(OfPaper(rows, r.tail), w) = {Membership(r.time, w)}
        /\ Membership(r.time, w) # "indeterminate"
    BY <2>3, <2>5, OneStatus, StatusesFinite
  <2>7. r.tail \in value.ids <=> Membership(r.time, w) = "inside"
    <3> HIDE DEF rows, w, value
    <3> QED
      BY <2>2, <2>3, <2>6
  <2>8. Membership(r.time, w) \in {"inside", "outside"}
    BY <2>6 DEF Membership
  <2>9. w.start \in Int /\ w.end \in Int
    BY <2>3 DEF IsWindow
  <2> QED
    BY <2>4, <2>7, <2>8, <2>9, WithinBounds
<1> QED
  BY <1>1, AlwaysIInv, PTL

-----------------------------------------------------------------------------
\* The typed count of papers and the fixed one.

\* An id that is a paper's, by the signature of the relation.
LEMMA PaperTails ==
  ASSUME NEW g \in Graphs, NEW author, NEW a \in Authorships(g, author), a.tail \in Ids(g)
  PROVE  [id |-> a.tail, kind |-> "Paper"] \in g.entities
<1>1. a \in g.assertions /\ a.relation = "authorOf"
  BY DEF Authorships
<1>2. PICK e \in g.entities : e.id = a.tail
  BY DEF Ids
<1>3. "authorOf" \in DOMAIN Relations /\ Relations["authorOf"].tails = {"Paper"}
  BY DEF Relations
<1>4. e.kind = "Paper" /\ e = [id |-> e.id, kind |-> e.kind]
  BY <1>1, <1>2, <1>3, GraphsAssumption DEF IsGraph
<1> QED
  BY <1>2, <1>4

\* When the fixed count has an answer, and which.
Fixed(g, author, w) ==
  LET rows == Authorships(g, author) IN
  /\ [id |-> author, kind |-> "Author"] \in g.entities
  /\ \A a \in rows : a.tail \in Ids(g) /\ ~Disagreeing(Statuses(OfPaper(rows, a.tail), w))
FixedPapers(g, author, w) ==
  LET rows == Authorships(g, author) IN {o \in {a.tail : a \in rows} : Statuses(OfPaper(rows, o), w) = {"inside"}}

LEMMA FixedCounts ==
  ASSUME NEW g \in Graphs, NEW author, NEW w
  PROVE  LET fixed == CountFromRelease(g, author, w) IN
         /\ Failed(fixed) <=> ~Fixed(g, author, w)
         /\ ~Failed(fixed) => fixed.papers = FixedPapers(g, author, w)
<1> DEFINE rows == Authorships(g, author)
           statuses(p) == {Membership(a.time, w) : a \in {x \in rows : x.tail = p}}
           fixed == CountFromRelease(g, author, w)
           bad == \/ [id |-> author, kind |-> "Author"] \notin g.entities
                  \/ \E a \in rows : \/ [id |-> a.tail, kind |-> "Paper"] \notin g.entities
                                     \/ Disagreeing(statuses(a.tail))
           papers == {a.tail : a \in {x \in rows : statuses(x.tail) = {"inside"}}}
<1>1. fixed = IF bad THEN Fail("Incomplete") ELSE [type |-> "count", papers |-> papers]
  BY DEF CountFromRelease
<1>2. ASSUME NEW p PROVE statuses(p) = Statuses(OfPaper(rows, p), w)
  BY DEF Statuses, OfPaper
<1>3. ASSUME NEW a \in rows PROVE [id |-> a.tail, kind |-> "Paper"] \in g.entities <=> a.tail \in Ids(g)
  <2>1. ASSUME [id |-> a.tail, kind |-> "Paper"] \in g.entities PROVE a.tail \in Ids(g)
    <3>1. [id |-> a.tail, kind |-> "Paper"].id = a.tail
      OBVIOUS
    <3> QED
      BY <2>1, <3>1, Zenon DEF Ids
  <2> QED
    BY <2>1, PaperTails
<1> HIDE DEF statuses, fixed, rows, papers
<1>4. bad <=> ~Fixed(g, author, w)
  BY <1>2, <1>3 DEF Fixed, rows
<1>5. papers = FixedPapers(g, author, w)
  <2>1. papers = {o \in {a.tail : a \in rows} : statuses(o) = {"inside"}}
    BY DEF papers
  <2>2. papers = {o \in {a.tail : a \in rows} : Statuses(OfPaper(rows, o), w) = {"inside"}}
    BY <1>2, <2>1
  <2> QED
    BY <2>2 DEF FixedPapers, rows
<1> HIDE DEF bad
<1>6. Failed(fixed) <=> bad
  BY <1>1 DEF Failed, Failures, Fail
<1>7. ~bad => fixed.papers = papers
  BY <1>1
<1> QED
  BY <1>4, <1>5, <1>6, <1>7, Zenon DEF fixed

\* What an expansion from entities returns.
Expanded(g, relation, starts) == {a \in g.assertions : a.relation = relation /\ a.head \in starts}
LEMMA ExpandFacts ==
  ASSUME NEW g, NEW q, NEW v, Expand(g, q, v).type = "edges", q.direction = "out", v[q.input].type = "entities"
  PROVE  LET rows == Expanded(g, q.relation, v[q.input].ids) IN
         /\ Considered(Expand(g, q, v)) = {a.id : a \in rows}
         /\ \A a \in rows : a.tail \in Ids(g)
<1> DEFINE rows == Expanded(g, q.relation, v[q.input].ids)
           e == Expand(g, q, v)
<1>1. /\ e = [type |-> "edges", ids |-> {a.id : a \in rows}, target |-> "tail", complete |-> TRUE, kind |-> q.tailKind]
      /\ ~\E a \in rows : {a.head, a.tail} \ Ids(g) # {}
  BY DEF Expand, Fail, Expanded
<1>2. "filtered" \notin DOMAIN e /\ e.ids = {a.id : a \in rows}
  BY <1>1
<1>3. Considered(e) = {a.id : a \in rows}
  <2> HIDE DEF e, rows
  <2> QED
    BY <1>2 DEF Considered
<1>4. \A a \in rows : a.tail \in Ids(g)
  BY <1>1
<1> QED
  BY <1>3, <1>4

\* Assertions are the ones of their ids.
LEMMA RowsOf ==
  ASSUME NEW g \in Graphs, NEW S, S \subseteq g.assertions PROVE Rows(g, {a.id : a \in S}) = S
  BY GraphsAssumption DEF Rows, IsGraph

LEMMA SubjectValue ==
  ASSUME IInv, stage = "Drafting_Bridge"
  PROVE  LET v == execution.values["subject"] IN
         /\ v.type = "entities" /\ v.ids = {request.identifier}
         /\ [id |-> request.identifier, kind |-> request.kind] \in frozen.entities
<1> DEFINE s == Subject(request)
           pool == execution.values
<1>1. Pooled(frozen, request, pool) /\ frozen \in Graphs
  BY ExecutedPool
<1>2. s \in StepSet(request) /\ s.id = "subject" /\ s.op = "ResolveEntity"
  BY StepIds DEF StepSet
<1>3. PICK v, k : /\ Readable(s, v) /\ pool["subject"] = Perform(frozen, s, v, k) /\ ~Failed(pool["subject"])
                  /\ Perform(frozen, s, v, k).type = Binding(s)
  BY <1>1, <1>2 DEF Pooled, Performed
<1>4. pool["subject"] = Resolve(frozen, s.args) /\ pool["subject"].type = "entities"
  BY <1>2, <1>3, PerformsBy
<1>5. PICK e \in Matches(frozen, request) : e.id = request.identifier
  BY DEF IInv, Resolved, From, Role
<1>6. e \in Matches(frozen, s.args)
  BY <1>5, SubjectMatches
<1>7. pool["subject"].ids = {request.identifier}
  <2> HIDE DEF pool, s
  <2> QED
    BY <1>1, <1>3, <1>4, <1>5, <1>6, ResolvedSubject
<1>8. e \in frozen.entities /\ e.kind = request.kind
  BY <1>5 DEF Matches
<1>9. e = [id |-> e.id, kind |-> e.kind]
  BY <1>1, <1>8, GraphsAssumption DEF IsGraph
<1> QED
  BY <1>4, <1>5, <1>7, <1>8, <1>9

\* The count of one author's papers, by the plan of a request.
PlainCount(r) == r.family = "count" /\ r.kind = "Author" /\ r.topic = None /\ r.institution = None

LEMMA PlainSteps ==
  ASSUME NEW r, PlainCount(r)
  PROVE  /\ CountsOf(PaperCount(r, "after", "window"), "after", "papers", "window", "Paper", None, None)
         /\ PapersOf(r).args.relation = "authorOf" /\ PapersOf(r).args.input = "subject"
         /\ References \cap DOMAIN PapersOf(r).args = {"input"}
<1>1. Place(r) = None /\ r.topic = None
  BY DEF PlainCount, Place
<1>2. CountsOf(PaperCount(r, "after", "window"), "after", "papers", "window", "Paper", Place(r), r.topic)
  BY PaperCounting DEF PlainCount
<1>3. PapersOf(r) = ExpandBy("papers", "subject", "authorOf", "out")
  BY DEF PapersOf, PlainCount
<1>4. PapersOf(r).args.relation = "authorOf" /\ PapersOf(r).args.input = "subject"
  BY <1>3 DEF ExpandBy, Step
<1>5. DOMAIN PapersOf(r).args = {"input", "relation", "direction", "headKind", "tailKind"}
  BY <1>3 DEF ExpandBy, Step
<1> QED
  BY <1>1, <1>2, <1>4, <1>5 DEF References

LEMMA TypedAsFixed ==
  ASSUME IInv, Executed({"count"}), PlainCount(request)
  PROVE  LET after == execution.values["after"] IN
         Fixed(frozen, request.identifier, request.window)
           /\ after.ids = FixedPapers(frozen, request.identifier, request.window)
<1> DEFINE pool == execution.values
           r == request
           s == PaperCount(r, "after", "window")
           rows == Authorships(frozen, r.identifier)
<1>1. /\ Pooled(frozen, r, pool) /\ frozen \in Graphs /\ pool["subject"].type = "entities"
      /\ pool["subject"].ids = {r.identifier} /\ [id |-> r.identifier, kind |-> "Author"] \in frozen.entities
  BY ExecutedPool, SubjectValue DEF Executed, PlainCount
<1>2. PapersOf(r) \in StepSet(r) /\ s \in StepSet(r) /\ Asked(r) \in StepSet(r)
  BY DEF StepSet, FamilySteps, PlainCount
<1>3. PICK v, k : /\ Readable(PapersOf(r), v) /\ pool["papers"] = Perform(frozen, PapersOf(r), v, k)
                  /\ Perform(frozen, PapersOf(r), v, k).type = Binding(PapersOf(r))
                  /\ \A x \in Refs(PapersOf(r).args) : v[x] = pool[x]
  BY <1>1, <1>2, ExpandsOut DEF Pooled, Performed
<1>4. pool["papers"] = Expand(frozen, PapersOf(r).args, v) /\ Expand(frozen, PapersOf(r).args, v).type = "edges"
  BY <1>3, PerformsBy, ExpandsOut
<1>5. "subject" \in Refs(PapersOf(r).args)
  BY PlainSteps, Zenon DEF Refs
<1>6. v["subject"] = pool["subject"]
  BY <1>3, <1>5
<1>7. Expanded(frozen, "authorOf", {r.identifier}) = rows
  BY DEF Expanded, Authorships
<1>8. Considered(pool["papers"]) = {a.id : a \in rows} /\ \A a \in rows : a.tail \in Ids(frozen)
  <2> DEFINE q == PapersOf(r).args
  <2>1. q.input = "subject" /\ q.relation = "authorOf" /\ q.direction = "out"
    BY PlainSteps, ExpandsOut
  <2>2. Expand(frozen, q, v).type = "edges" /\ pool["papers"] = Expand(frozen, q, v)
    BY <1>4
  <2>3. v[q.input].type = "entities" /\ v[q.input].ids = {r.identifier}
    BY <1>1, <1>6, <2>1
  <2> HIDE DEF rows, pool, q
  <2>4. /\ Considered(Expand(frozen, q, v)) = {a.id : a \in Expanded(frozen, q.relation, v[q.input].ids)}
        /\ \A a \in Expanded(frozen, q.relation, v[q.input].ids) : a.tail \in Ids(frozen)
    BY <2>1, <2>2, <2>3, ExpandFacts
  <2> QED
    BY <1>7, <2>1, <2>2, <2>3, <2>4
<1>9. Rows(frozen, Considered(pool["papers"])) = rows
  <2>1. rows \subseteq frozen.assertions
    BY DEF Authorships
  <2> QED
    BY <1>1, <1>8, <2>1, RowsOf
<1>10. /\ pool["papers"].target = "tail" /\ pool["window"].period = r.window
  BY <1>1, <1>2, ExpandedValue, NormalizedValue, ExpandsOut, StepIds DEF Pooled
<1>11. CountsOf(s, s.id, "papers", "window", "Paper", None, None) /\ s.id = "after"
  BY PlainSteps, StepIds
<1>12. Tallies(pool["after"], s.args, pool["papers"], r.window)
  BY <1>1, <1>2, <1>10, <1>11, CountValue
<1>13. Attributed(frozen, s.args, rows) = rows
  BY <1>11 DEF Attributed, CountsOf
<1> HIDE DEF pool, r, s, rows
<1>14. /\ pool["after"].ids = {o \in {z.tail : z \in rows} : Statuses(OfPaper(rows, o), r.window) = {"inside"}}
       /\ \A z \in rows : ~Disagreeing(Statuses(OfPaper(rows, z.tail), r.window))
  BY <1>9, <1>12, <1>13 DEF Tallies
<1> QED
  BY <1>1, <1>8, <1>14 DEF Fixed, FixedPapers, pool, r, rows

\* A step that does not fail adds its result.
LEMMA Advances ==
  ASSUME NEW prior, prior.stop = None, NEW r, ~Failed(r), NEW s, s.op # "UpdateState", NEW release
  PROVE  LET next == Advanced(prior, s, r, release) IN
         /\ next.stop = None /\ next.values[s.id] = r /\ next.state = prior.state
         /\ \A x \in DOMAIN prior.values : x # s.id => next.values[x] = prior.values[x]
         /\ DOMAIN next.values = {s.id} \cup DOMAIN prior.values
<1> DEFINE one == [k \in {s.id} |-> r]
           values == Over(one, prior.values)
<1>1. Advanced(prior, s, r, release) = [stop |-> None, values |-> values, state |-> prior.state]
  BY DEF Advanced
<1>2. DOMAIN values = {s.id} \cup DOMAIN prior.values
  BY DEF Over
<1>3. values[s.id] = r
  BY DEF Over
<1>4. \A x \in DOMAIN prior.values : x # s.id => values[x] = prior.values[x]
  BY DEF Over
<1> HIDE DEF values
<1> QED
  BY <1>1, <1>2, <1>3, <1>4

LEMMA CountOfRequest ==
  ASSUME NEW author, NEW w, \E r \in Requests : r.family = "count" /\ r.kind = "Author"
  PROVE  LET r == CountOf(author, w) IN
         /\ PlainCount(r) /\ r.identifier = author /\ r.window = w
         /\ r.name = None /\ r.place = None /\ r.role = None /\ r.source = None
<1> DEFINE q == CHOOSE r \in Requests : r.family = "count" /\ r.kind = "Author"
<1>1. q \in Requests /\ q.family = "count" /\ q.kind = "Author"
  OBVIOUS
<1>2. DOMAIN q = {"family", "kind", "identifier", "name", "place", "role", "source", "window", "before", "topic",
                  "institution", "target", "relations", "hops", "rule", "direction", "causal", "previous", "scope"}
  BY <1>1, RequestsAssumption DEF IsRequest
<1>3. CountOf(author, w) = [q EXCEPT !.identifier = author, !.window = w, !.name = None, !.place = None,
                              !.role = None, !.source = None, !.topic = None, !.institution = None]
  BY DEF CountOf
<1> HIDE DEF q
<1> QED
  BY <1>1, <1>2, <1>3 DEF PlainCount

\* Short sequences, element by element.
LEMMA NoneListed == Listed(<<>>) /\ Len(<<>>) = 0
  BY ListedTuples
LEMMA OneListed == ASSUME NEW x PROVE Listed(<<x>>) /\ Len(<<x>>) = 1 /\ <<x>>[1] = x
<1>1. Listed(<<x>>)
  BY ListedTuples
<1> QED
  BY <1>1
LEMMA TwoListed == ASSUME NEW x, NEW y PROVE Listed(<<x, y>>) /\ Len(<<x, y>>) = 2 /\ <<x, y>>[1] = x /\ <<x, y>>[2] = y
<1>1. Listed(<<x, y>>)
  BY ListedTuples
<1> QED
  BY <1>1

LEMMA FiveListed ==
  ASSUME NEW a, NEW b, NEW c, NEW d, NEW e
  PROVE  LET f == <<a, b>> \o (<<>> \o <<c, d>>) \o <<e>> IN
         Len(f) = 5 /\ f[1] = a /\ f[2] = b /\ f[3] = c /\ f[4] = d /\ f[5] = e
<1> DEFINE x == <<a, b>>  u == <<c, d>>  w == <<>>  z == <<e>>  m == w \o u  n == x \o m  f == n \o z
<1>1. Listed(x) /\ Len(x) = 2 /\ x[1] = a /\ x[2] = b
  BY TwoListed
<1>2. Listed(u) /\ Len(u) = 2 /\ u[1] = c /\ u[2] = d
  BY TwoListed
<1>3. Listed(w) /\ Len(w) = 0
  BY NoneListed
<1>4. Listed(z) /\ Len(z) = 1 /\ z[1] = e
  BY OneListed
<1> HIDE DEF x, u, w, z
<1>5. Listed(m) /\ Len(m) = 2 /\ m[1] = c /\ m[2] = d
  BY <1>2, <1>3, CatFacts
<1> HIDE DEF m
<1>6. Listed(n) /\ Len(n) = 4 /\ n[1] = a /\ n[2] = b /\ n[3] = c /\ n[4] = d
  <2>0. /\ Listed(n) /\ Len(n) = Len(x) + Len(m)
        /\ \A i \in 1..(Len(x) + Len(m)) : n[i] = IF i <= Len(x) THEN x[i] ELSE m[i - Len(x)]
    BY <1>1, <1>5, CatFacts, Zenon
  <2> HIDE DEF n
  <2>1. Listed(n) /\ Len(n) = 4 /\ \A i \in 1..4 : n[i] = IF i <= 2 THEN x[i] ELSE m[i - 2]
    BY <1>1, <1>5, <2>0
  <2> QED
    BY <1>1, <1>5, <2>1
<1> HIDE DEF n
<1>7. Len(f) = 5 /\ f[1] = a /\ f[2] = b /\ f[3] = c /\ f[4] = d /\ f[5] = e
  <2>0. /\ Listed(f) /\ Len(f) = Len(n) + Len(z)
        /\ \A i \in 1..(Len(n) + Len(z)) : f[i] = IF i <= Len(n) THEN n[i] ELSE z[i - Len(n)]
    BY <1>4, <1>6, CatFacts, Zenon
  <2> HIDE DEF f
  <2>1. Len(f) = 5 /\ \A i \in 1..5 : f[i] = IF i <= 4 THEN n[i] ELSE z[i - 4]
    BY <1>4, <1>6, <2>0
  <2> QED
    BY <1>4, <1>6, <2>1
<1> HIDE DEF f
<1> QED
  BY <1>7 DEF f, n, m, x, u, w, z

LEMMA PlainPlan ==
  ASSUME NEW r, PlainCount(r), NEW release
  PROVE  LET p == PlanRequest(r, release) IN
         /\ Len(p.steps) = 5 /\ p.release = release
         /\ p.steps[1] = Subject(r) /\ p.steps[2] = Asked(r) /\ p.steps[3] = PapersOf(r)
         /\ p.steps[4] = PaperCount(r, "after", "window") /\ p.steps[5] = Projected(r)
<1> DEFINE a == Subject(r)  b == Asked(r)  c == PapersOf(r)  d == PaperCount(r, "after", "window")  e == Projected(r)
           p == PlanRequest(r, release)
<1>1. p.steps = <<a, b>> \o Body(r) \o <<e>> /\ p.release = release
  BY DEF PlanRequest
<1>2. Body(r) = CountSteps(r)
  BY DEF Body, PlainCount
<1>3. CountSteps(r) = <<>> \o <<c, d>>
  BY DEF CountSteps, PlainCount
<1> HIDE DEF a, b, c, d, e, p
<1> DEFINE f == <<a, b>> \o (<<>> \o <<c, d>>) \o <<e>>
<1>4. p.steps = f
  BY <1>1, <1>2, <1>3
<1>5. Len(f) = 5 /\ f[1] = a /\ f[2] = b /\ f[3] = c /\ f[4] = d /\ f[5] = e
  BY FiveListed
<1> HIDE DEF f
<1> QED
  BY <1>1, <1>4, <1>5 DEF a, b, c, d, e, p

LEMMA PlainResolve ==
  ASSUME NEW g \in Graphs, NEW author, author # None, [id |-> author, kind |-> "Author"] \in g.entities,
         NEW q, q.kind = "Author", q.identifier = author, q.name = None, q.place = None, q.role = None, q.source = None
  PROVE  LET r == Resolve(g, q) IN
         ~Failed(r) /\ r.type = "entities" /\ r.ids = {author} /\ r.kind = "Author"
<1> DEFINE e == [id |-> author, kind |-> "Author"]
<1>1. e.id = author /\ e.kind = "Author" /\ e \in g.entities
  OBVIOUS
<1> HIDE DEF e
<1>2. e \in Matches(g, q)
  BY <1>1 DEF Matches
<1>3. ASSUME NEW f \in Matches(g, q) PROVE f = e
  <2>1. f \in g.entities /\ (f.id = author \/ [source |-> author, canonical |-> f.id] \in g.identities)
    BY DEF Matches
  <2>2. author \in Ids(g)
    BY <1>1 DEF Ids
  <2>3. [source |-> author, canonical |-> f.id].source = author
    OBVIOUS
  <2>4. [source |-> author, canonical |-> f.id] \notin g.identities
    BY <2>2, <2>3, GraphsAssumption, Zenon DEF IsGraph
  <2> QED
    BY <1>1, <2>1, <2>4, GraphsAssumption DEF IsGraph
<1>4. Matches(g, q) = {e}
  BY <1>2, <1>3
<1>5. Cardinality(Matches(g, q)) = 1
  BY <1>4, FS_Singleton
<1>6. {x.id : x \in Matches(g, q)} = {author}
  BY <1>1, <1>4
<1>7. Resolve(g, q).type = "entities" /\ Resolve(g, q).ids = {author} /\ Resolve(g, q).kind = "Author"
  BY <1>5, <1>6 DEF Resolve
<1> QED
  BY <1>7 DEF Failed, Failures

LEMMA PlainExpand ==
  ASSUME NEW g \in Graphs, NEW author, NEW w, Fixed(g, author, w), Cardinality(Authorships(g, author)) <= MaxEdges,
         NEW q, q.relation = "authorOf", q.direction = "out", q.headKind = "Author", q.tailKind = "Paper",
         NEW v, v[q.input].type = "entities", v[q.input].ids = {author}, v[q.input].kind = "Author"
  PROVE  LET r == Expand(g, q, v) IN
         /\ r = [type |-> "edges", ids |-> {a.id : a \in Authorships(g, author)}, target |-> "tail",
                 complete |-> TRUE, kind |-> "Paper"]
         /\ ~Failed(r)
<1> DEFINE rows == {a \in g.assertions : a.relation = q.relation /\ a.head \in v[q.input].ids}
           fits == ~(Cardinality(rows) > MaxEdges) /\ ~\E a \in rows : {a.head, a.tail} \ Ids(g) # {}
           e == [type |-> "edges", ids |-> {a.id : a \in rows}, target |-> "tail", complete |-> TRUE, kind |-> q.tailKind]
<1>1. rows = Authorships(g, author)
  BY DEF Authorships
<1>2. Expand(g, q, v) = e \/ ~fits
  BY DEF Expand
<1>3. IsFiniteSet(rows)
  <2>1. rows \subseteq g.assertions /\ IsFiniteSet(g.assertions)
    BY GraphsAssumption DEF IsGraph
  <2> QED
    BY <2>1, FS_Subset
<1>4. ~(Cardinality(rows) > MaxEdges)
  <2>1. Cardinality(rows) \in Nat
    BY <1>3, FS_CardinalityType
  <2>2. Cardinality(rows) <= MaxEdges
    BY <1>1, Zenon
  <2> HIDE DEF rows
  <2> QED
    BY <2>1, <2>2, BoundsAssumption
<1>5. author \in Ids(g)
  <2>1. [id |-> author, kind |-> "Author"].id = author
    OBVIOUS
  <2> QED
    BY <2>1, Zenon DEF Fixed, Ids
<1>6. ASSUME NEW a \in rows PROVE a.head = author /\ a.tail \in Ids(g)
  BY <1>1 DEF Fixed
<1> HIDE DEF rows
<1>7. fits
  BY <1>4, <1>5, <1>6
<1>8. Expand(g, q, v) = [type |-> "edges", ids |-> {a.id : a \in Authorships(g, author)}, target |-> "tail",
                         complete |-> TRUE, kind |-> "Paper"]
  BY <1>1, <1>2, <1>7
<1> QED
  BY <1>8 DEF Failed, Failures

\* A count that no policy restricts, of rows whose dates do not disagree.
LEMMA PlainTally ==
  ASSUME NEW g \in Graphs, NEW author, NEW w, Fixed(g, author, w),
         NEW s, NEW id, CountsOf(s, id, "papers", "window", "Paper", None, None),
         NEW v, v["window"].period = w,
         v["papers"] = [type |-> "edges", ids |-> {a.id : a \in Authorships(g, author)}, target |-> "tail",
                        complete |-> TRUE, kind |-> "Paper"]
  PROVE  LET r == Aggregate(g, s.args, v) IN
         ~Failed(r) /\ r.type = "aggregate" /\ r.ids = FixedPapers(g, author, w)
<1> DEFINE all == Authorships(g, author)
           args == s.args
           source == v[args.input]
           u == Windowed(v, args)
           rows == {a \in Rows(g, Considered(source)) : args.source # None => a.source = args.source}
           authored == args.attribution = "publication_authorship"
           attributed == {r \in rows : authored => args.institution \in r.institutions}
           kept == {r \in attributed : args.topic # None => \E a \in g.assertions :
                      a.head = r[source.target] /\ a.relation = "classifiedAs" /\ a.tail = args.topic}
           group(o) == {r \in kept : r[source.target] = o}
           objects == {r[source.target] : r \in kept}
           statuses(o) == {Membership(r.time, u) : r \in group(o)}
           selected == {o \in objects : statuses(o) = {"inside"}}
           c == Count(g, args, v)
<1>1. /\ args.input = "papers" /\ args.window = "window" /\ args.metric = "count" /\ args.unit = "Paper"
      /\ args.topic = None /\ args.source = None /\ args.group = "none" /\ args.attribution = "recorded_relation"
  BY DEF CountsOf
<1>2. Aggregate(g, args, v) = c
  BY <1>1 DEF Aggregate
<1>0. source = v["papers"] /\ u = w
  BY <1>1 DEF Windowed
<1>3. Considered(source) = {a.id : a \in all} /\ source.target = "tail" /\ source.kind = "Paper" /\ "window" \notin DOMAIN source
  BY <1>0 DEF Considered
<1>4. Rows(g, Considered(source)) = all
  <2>1. all \subseteq g.assertions
    BY DEF Authorships
  <2> HIDE DEF all, source
  <2> QED
    BY <1>3, <2>1, RowsOf
<1>5. kept = all
  BY <1>1, <1>4
<1>6. objects = {a.tail : a \in all} /\ \A o : statuses(o) = Statuses(OfPaper(all, o), w)
  <2>1. objects = {a.tail : a \in all}
    <3> HIDE DEF kept, all, source
    <3> QED
      BY <1>3, <1>5
  <2>2. ASSUME NEW o PROVE statuses(o) = Statuses(OfPaper(all, o), w)
    <3>1. group(o) = OfPaper(all, o)
      <4> HIDE DEF kept
      <4> QED
        BY <1>3, <1>5 DEF OfPaper
    <3> HIDE DEF group, u
    <3> QED
      BY <1>0, <3>1 DEF Statuses
  <2> QED
    BY <2>1, <2>2
<1>7. \A o \in objects : ~Disagreeing(statuses(o))
  BY <1>6 DEF Fixed
<1> DEFINE years(o) == UNION {{Year(r.time.lower), Year(r.time.upper)} : r \in group(o)}
<1>8. c.type = "aggregate" /\ c.ids = selected
  <2>1. ~(source.kind # args.unit \/ ("window" \in DOMAIN source /\ source.window # u))
    BY <1>1, <1>3
  <2>2. ~(args.source # None /\ args.source \notin g.sources)
    BY <1>1
  <2>3. ~(authored /\ \E r \in rows : r.relation # "authorOf" \/ source.target # "tail")
    BY <1>1
  <2>4. ~(\/ args.topic # None /\ args.topic \notin Ids(g) /\ attributed # {}
          \/ \E o \in objects : Disagreeing(statuses(o))
          \/ args.group = "year" /\ \E o \in selected : Cardinality(years(o)) # 1)
    BY <1>1, <1>7
  <2> QED
    BY <2>1, <2>2, <2>3, <2>4 DEF Count
<1>9. selected = FixedPapers(g, author, w)
  <2> HIDE DEF objects, statuses, all
  <2>1. selected = {o \in {a.tail : a \in all} : Statuses(OfPaper(all, o), w) = {"inside"}}
    BY <1>6
  <2> QED
    BY <2>1 DEF FixedPapers, all
<1> HIDE DEF c, selected
<1> QED
  BY <1>2, <1>8, <1>9 DEF Failed, Failures, args

\* The run of a program goes on with a step that does not fail.
LEMMA GoesOn ==
  ASSUME NEW g, NEW p, NEW release, NEW known, NEW run, Running(g, p, release, known, run),
         NEW n \in 1..Len(p.steps), run[n - 1].stop = None, NEW s, p.steps[n] = s, s.op # "UpdateState",
         NEW r, r = Perform(g, s, run[n - 1].values, run[n - 1].state), ~Failed(r)
  PROVE  /\ run[n].stop = None /\ run[n].values[s.id] = r
         /\ \A x \in DOMAIN run[n - 1].values : x # s.id => run[n].values[x] = run[n - 1].values[x]
         /\ DOMAIN run[n].values = {s.id} \cup DOMAIN run[n - 1].values
<1> DEFINE prior == run[n - 1]
<1>1. run[n] = Advanced(prior, s, r, release)
  BY DEF Running, Stepped
<1> HIDE DEF prior
<1>2. prior.stop = None
  BY DEF prior
<1>3. LET next == Advanced(prior, s, r, release) IN
      /\ next.stop = None /\ next.values[s.id] = r /\ next.state = prior.state
      /\ \A x \in DOMAIN prior.values : x # s.id => next.values[x] = prior.values[x]
      /\ DOMAIN next.values = {s.id} \cup DOMAIN prior.values
  BY <1>2, Advances
<1> QED
  BY <1>1, <1>3 DEF prior

\* What the steps of the plan read.
LEMMA PlainReads ==
  ASSUME NEW r, PlainCount(r)
  PROVE  /\ Refs(Subject(r).args) = {} /\ "window" \notin DOMAIN Subject(r).args
         /\ Refs(PapersOf(r).args) = {"subject"} /\ "window" \notin DOMAIN PapersOf(r).args
         /\ LET s == PaperCount(r, "after", "window") IN
            Refs(s.args) = {"papers", "window"} /\ "window" \in DOMAIN s.args /\ s.args.window = "window"
         /\ "window" \notin DOMAIN Asked(r).args /\ "window" \notin DOMAIN Projected(r).args
         /\ Projected(r).id = "provenance" /\ Projected(r).op = "ProjectProvenance"
<1>1. /\ DOMAIN Subject(r).args = {"kind", "identifier", "name", "place", "role", "source"}
      /\ DOMAIN Asked(r).args = {"period"} /\ DOMAIN Projected(r).args = {"input"}
      /\ Projected(r).id = "provenance" /\ Projected(r).op = "ProjectProvenance"
  BY DEF Subject, Asked, Projected, Step
<1>2. References \cap DOMAIN PapersOf(r).args = {"input"} /\ PapersOf(r).args.input = "subject"
  BY PlainSteps
<1> DEFINE s == PaperCount(r, "after", "window")
<1>3. /\ References \cap DOMAIN s.args = {"input", "window"} /\ s.args.input = "papers" /\ s.args.window = "window"
  BY PlainSteps DEF CountsOf
<1>4. Refs(Subject(r).args) = {}
  BY <1>1 DEF Refs, References
<1>5. Refs(PapersOf(r).args) = {"subject"}
  BY <1>2 DEF Refs
<1> HIDE DEF s
<1>6. Refs(s.args) = {"papers", "window"}
  <2>1. Refs(s.args) = {s.args[k] : k \in {"input", "window"}}
    BY <1>3, Zenon DEF Refs
  <2> QED
    BY <1>3, <2>1
<1>7. "window" \in DOMAIN s.args /\ "window" \notin DOMAIN PapersOf(r).args
  BY <1>2, <1>3 DEF References
<1> QED
  BY <1>1, <1>3, <1>4, <1>5, <1>6, <1>7 DEF s

LEMMA PlainArguments ==
  ASSUME NEW r, PlainCount(r)
  PROVE  /\ LET q == PapersOf(r).args IN
            q.relation = "authorOf" /\ q.direction = "out" /\ q.headKind = "Author" /\ q.tailKind = "Paper"
         /\ LET q == Subject(r).args IN
            /\ q.kind = "Author" /\ q.identifier = r.identifier /\ q.name = r.name /\ q.place = r.place
            /\ q.role = r.role /\ q.source = r.source
<1>1. PapersOf(r) = ExpandBy("papers", "subject", "authorOf", "out")
  BY DEF PapersOf, PlainCount
<1>2. Relations["authorOf"].head = "Author" /\ Relations["authorOf"].tails = {"Paper"}
  BY DEF Relations
<1>3. (CHOOSE k \in {"Paper"} : TRUE) = "Paper"
  OBVIOUS
<1>4. LET q == PapersOf(r).args IN
      q.relation = "authorOf" /\ q.direction = "out" /\ q.headKind = "Author" /\ q.tailKind = "Paper"
  BY <1>1, <1>2, <1>3 DEF ExpandBy, Step
<1>5. LET q == Subject(r).args IN
      /\ q.kind = "Author" /\ q.identifier = r.identifier /\ q.name = r.name /\ q.place = r.place
      /\ q.role = r.role /\ q.source = r.source
  BY DEF Subject, Step, PlainCount
<1> QED
  BY <1>4, <1>5

\* The typed program has the answer of the fixed count.
LEMMA TypedCounts ==
  ASSUME NEW g \in Graphs, NEW author, author # None, NEW w, Fixed(g, author, w),
         Cardinality(Authorships(g, author)) <= MaxEdges,
         NEW r, PlainCount(r), r.identifier = author, r.window = w, r.name = None, r.place = None, r.role = None,
         r.source = None
  PROVE  LET typed == Execute(g, PlanRequest(r, Release), Release, <<>>) IN
         typed.stop = None /\ typed.values["after"].ids = FixedPapers(g, author, w)
<1> DEFINE p == PlanRequest(r, Release)
           run == Runs(g, p, Release, <<>>)
           a == Subject(r)  b == Asked(r)  c == PapersOf(r)  d == PaperCount(r, "after", "window")  e == Projected(r)
           perform(n) == Perform(g, p.steps[n], run[n - 1].values, run[n - 1].state)
<1>1. /\ Len(p.steps) = 5 /\ p.release = Release
      /\ p.steps[1] = a /\ p.steps[2] = b /\ p.steps[3] = c /\ p.steps[4] = d /\ p.steps[5] = e
  BY PlainPlan
<1>2. Running(g, p, Release, <<>>, run)
  <2>1. Len(p.steps) \in Nat
    BY <1>1
  <2> QED
    BY <2>1, RunsAre
<1>3. Execute(g, p, Release, <<>>) = run[5]
  <2>1. "release_id" \notin DOMAIN <<>>
    OBVIOUS
  <2> HIDE DEF p
  <2> QED
    BY <1>1, <2>1 DEF Execute
<1>4. run[0].stop = None
  BY <1>2 DEF Running, Opened
<1>5. /\ a.id = "subject" /\ a.op = "ResolveEntity" /\ b.id = "window" /\ b.op = "NormalizeTime" /\ b.args.period = w
      /\ c.id = "papers" /\ c.op = "Expand" /\ d.id = "after" /\ d.op = "Aggregate"
      /\ e.id = "provenance" /\ e.op = "ProjectProvenance"
  BY StepIds, ExpandsOut, PlainReads
<1>6. 1 \in 1..Len(p.steps) /\ 2 \in 1..Len(p.steps) /\ 3 \in 1..Len(p.steps) /\ 4 \in 1..Len(p.steps) /\ 5 \in 1..Len(p.steps)
      /\ 1 - 1 = 0 /\ 2 - 1 = 1 /\ 3 - 1 = 2 /\ 4 - 1 = 3 /\ 5 - 1 = 4
  BY <1>1
<1> DEFINE v0 == run[0].values  v1 == run[1].values  v2 == run[2].values  v3 == run[3].values  v4 == run[4].values
           k0 == run[0].state  k1 == run[1].state  k2 == run[2].state  k3 == run[3].state  k4 == run[4].state
           subject == Perform(g, a, v0, k0)
           asked == Perform(g, b, v1, k1)
           papers == Perform(g, c, v2, k2)
           after == Perform(g, d, v3, k3)
           last == Perform(g, e, v4, k4)
<1> HIDE DEF run, p, a, b, c, d, e
<1>7. /\ ~Failed(subject) /\ subject.type = "entities" /\ subject.ids = {author} /\ subject.kind = "Author"
  <2>1. Readable(a, v0)
    BY <1>5, PlainReads DEF Readable, Reads, a
  <2>2. subject = Resolve(g, a.args)
    BY <1>5, <2>1 DEF Perform
  <2>3. /\ a.args.kind = "Author" /\ a.args.identifier = author /\ a.args.name = None /\ a.args.place = None
        /\ a.args.role = None /\ a.args.source = None
    BY PlainArguments DEF a
  <2>4. [id |-> author, kind |-> "Author"] \in g.entities
    BY DEF Fixed
  <2>5. LET x == Resolve(g, a.args) IN
        ~Failed(x) /\ x.type = "entities" /\ x.ids = {author} /\ x.kind = "Author"
    BY <2>3, <2>4, PlainResolve
  <2> QED
    BY <2>2, <2>5
<1>8. /\ run[1].stop = None /\ v1["subject"] = subject /\ "subject" \in DOMAIN v1
  BY <1>1, <1>2, <1>4, <1>5, <1>6, <1>7, GoesOn
<1>9. ~Failed(asked) /\ asked.type = "window" /\ asked.period = w
  <2>1. Readable(b, v1)
    BY <1>5, PlainReads DEF Readable, Reads, b
  <2>2. asked = [type |-> "window", period |-> w]
    BY <1>5, <2>1 DEF Perform
  <2> QED
    BY <2>2 DEF Failed, Failures
<1>10. /\ run[2].stop = None /\ v2["window"] = asked /\ v2["subject"] = subject /\ {"subject", "window"} \subseteq DOMAIN v2
  <2>1. b.op # "UpdateState" /\ b.id = "window"
    BY <1>5
  <2>2. asked = Perform(g, b, run[2 - 1].values, run[2 - 1].state) /\ run[2 - 1].stop = None /\ 2 \in 1..Len(p.steps)
    BY <1>6, <1>8
  <2> HIDE DEF asked
  <2>3. /\ run[2].stop = None /\ run[2].values[b.id] = asked
        /\ \A x \in DOMAIN run[2 - 1].values : x # b.id => run[2].values[x] = run[2 - 1].values[x]
        /\ DOMAIN run[2].values = {b.id} \cup DOMAIN run[2 - 1].values
    BY <1>1, <1>2, <1>9, <2>1, <2>2, GoesOn
  <2> HIDE DEF subject
  <2> QED
    BY <1>6, <1>8, <2>1, <2>3
<1> HIDE DEF subject, asked
<1>11. /\ papers = [type |-> "edges", ids |-> {x.id : x \in Authorships(g, author)}, target |-> "tail",
                    complete |-> TRUE, kind |-> "Paper"]
       /\ ~Failed(papers)
  <2>1. Readable(c, v2)
    BY <1>5, <1>7, <1>10, PlainReads DEF Readable, Reads, c
  <2>2. papers = Expand(g, c.args, v2)
    BY <1>5, <2>1 DEF Perform
  <2>3. /\ c.args.relation = "authorOf" /\ c.args.direction = "out" /\ c.args.headKind = "Author" /\ c.args.tailKind = "Paper"
        /\ c.args.input = "subject"
    BY PlainArguments, PlainSteps DEF c
  <2>4. LET x == v2[c.args.input] IN x.type = "entities" /\ x.ids = {author} /\ x.kind = "Author"
    BY <1>7, <1>10, <2>3
  <2> DEFINE q == c.args
  <2>6. /\ q.relation = "authorOf" /\ q.direction = "out" /\ q.headKind = "Author" /\ q.tailKind = "Paper"
        /\ v2[q.input].type = "entities" /\ v2[q.input].ids = {author} /\ v2[q.input].kind = "Author"
    BY <2>3, <2>4
  <2> HIDE DEF q, v2
  <2>5. LET x == Expand(g, q, v2) IN
        /\ x = [type |-> "edges", ids |-> {y.id : y \in Authorships(g, author)}, target |-> "tail",
                complete |-> TRUE, kind |-> "Paper"]
        /\ ~Failed(x)
    BY <2>6, PlainExpand
  <2> QED
    BY <2>2, <2>5 DEF q
<1>12. /\ run[3].stop = None /\ v3["papers"] = papers /\ v3["window"] = asked /\ {"papers", "window"} \subseteq DOMAIN v3
  BY <1>1, <1>2, <1>5, <1>6, <1>10, <1>11, GoesOn
<1>13. /\ ~Failed(after) /\ after.type = "aggregate" /\ after.ids = FixedPapers(g, author, w)
  <2>1. Readable(d, v3)
    BY <1>5, <1>9, <1>11, <1>12, PlainReads DEF Readable, Reads, d
  <2>2. after = Aggregate(g, d.args, v3)
    BY <1>5, <2>1 DEF Perform
  <2>3. CountsOf(d, "after", "papers", "window", "Paper", None, None)
    BY PlainSteps DEF d
  <2>4. /\ v3["window"].period = w
        /\ v3["papers"] = [type |-> "edges", ids |-> {x.id : x \in Authorships(g, author)}, target |-> "tail",
                           complete |-> TRUE, kind |-> "Paper"]
    BY <1>9, <1>11, <1>12
  <2> HIDE DEF v3
  <2>5. LET x == Aggregate(g, d.args, v3) IN
        ~Failed(x) /\ x.type = "aggregate" /\ x.ids = FixedPapers(g, author, w)
    BY <2>3, <2>4, PlainTally
  <2> QED
    BY <2>2, <2>5
<1>14. run[4].stop = None /\ v4["after"] = after /\ "after" \in DOMAIN v4
  BY <1>1, <1>2, <1>5, <1>6, <1>12, <1>13, GoesOn
<1>15. ~Failed(last)
  <2>1. Readable(e, v4)
    BY <1>5, PlainReads DEF Readable, Reads, e
  <2>2. last.type = "provenance"
    BY <1>5, <2>1 DEF Perform
  <2> QED
    BY <2>2 DEF Failed, Failures
<1>16. run[5].stop = None /\ run[5].values["after"] = after
  BY <1>1, <1>2, <1>5, <1>6, <1>14, <1>15, GoesOn
<1> HIDE DEF after
<1> QED
  BY <1>3, <1>13, <1>16 DEF p

\* What the fixed count has said is what the release says.
Tallied ==
  outcome # None /\ outcome.type = "Counted" =>
    /\ Fixed(frozen, outcome.author, outcome.window)
    /\ outcome.papers = FixedPapers(frozen, outcome.author, outcome.window)
    /\ outcome.author # None /\ \E r \in Requests : r.family = "count" /\ r.kind = "Author"

LEMMA AskCountTallied == ASSUME IInv, AskCount PROVE Tallied'
<1>0. UNCHANGED frozen /\ stage = "idle"
  BY DEF AskCount
<1>1. PICK r \in {x \in Requests : x.family = "count" /\ x.kind = "Author" /\ x.identifier # None} :
        LET counted == CountFromRelease(frozen, r.identifier, r.window)
            good == [type |-> "Counted", author |-> r.identifier, window |-> r.window, papers |-> counted.papers]
        IN  outcome' \in
              IF working # frozen THEN {[type |-> "Refused"]}
              ELSE {[type |-> "Abstain", state |-> None]}
                   \cup IF Failed(counted) \/ CountPapers(working, r.identifier, r.window) # counted.papers
                        THEN {} ELSE {good}
  BY Zenon DEF AskCount
<1> DEFINE counted == CountFromRelease(frozen, r.identifier, r.window)
<1>2. frozen \in Graphs
  BY DEF IInv, Counters
<1>3. /\ Failed(counted) <=> ~Fixed(frozen, r.identifier, r.window)
      /\ ~Failed(counted) => counted.papers = FixedPapers(frozen, r.identifier, r.window)
  BY <1>2, FixedCounts
<1> HIDE DEF counted
<1>4. \/ outcome' = [type |-> "Refused"] \/ outcome' = [type |-> "Abstain", state |-> None]
      \/ /\ ~Failed(counted)
         /\ outcome' = [type |-> "Counted", author |-> r.identifier, window |-> r.window, papers |-> counted.papers]
  BY <1>1 DEF counted
<1> QED
  BY <1>0, <1>1, <1>3, <1>4 DEF Tallied

\* Nothing else says a count.
LEMMA SaysTallied == ASSUME NEW x, Say(x), x.type # "Counted" PROVE Tallied'
  BY DEF Say, Tallied
LEMMA KeepsTallied == ASSUME Tallied, UNCHANGED <<frozen, outcome>> PROVE Tallied'
  BY DEF Tallied
LEMMA DropsTallied == ASSUME outcome' = None \/ outcome'.type # "Counted" PROVE Tallied'
  BY DEF Tallied

LEMMA NextTallied == ASSUME IInv, Tallied, [Next]_vars PROVE Tallied'
<1>0. Abstained.type # "Counted" /\ Answered.type # "Counted"
  BY DEF Abstained, Answered
<1>1. CASE Open
  <2>1. outcome' = None \/ outcome' = [type |-> "Refused"]
    BY <1>1 DEF Open
  <2> QED
    BY <2>1, DropsTallied
<1>2. CASE Manager
  <2>1. Say(Abstained) \/ Say([type |-> "Clarify", state |-> state]) \/ UNCHANGED <<frozen, outcome>>
    BY <1>2 DEF Manager, Pass, Frame
  <2> QED
    BY <1>0, <2>1, SaysTallied, KeepsTallied
<1>3. CASE Planner
  <2>1. Say(Abstained) \/ UNCHANGED <<frozen, outcome>>
    BY <1>3 DEF Planner, Pass, Frame
  <2> QED
    BY <1>0, <2>1, SaysTallied, KeepsTallied
<1>4. CASE PlannerRetries
  BY <1>4, KeepsTallied DEF PlannerRetries
<1>5. CASE Retriever
  <2>1. Say(Abstained) \/ UNCHANGED <<frozen, outcome>>
    BY <1>5 DEF Retriever, Pass, Frame
  <2> QED
    BY <1>0, <2>1, SaysTallied, KeepsTallied
<1>6. CASE DraftingBridge
  BY <1>6, KeepsTallied DEF DraftingBridge, Pass, Frame
<1>7. CASE Verifier
  BY <1>7, KeepsTallied DEF Verifier, Pass, Frame
<1>8. CASE EvidenceBuilder
  <2>1. Say(Abstained) \/ UNCHANGED <<frozen, outcome>>
    BY <1>8 DEF EvidenceBuilder, Pass, Frame
  <2> QED
    BY <1>0, <2>1, SaysTallied, KeepsTallied
<1>9. CASE Synthesizer
  <2>1. Say(Abstained) \/ Say(Answered)
    BY <1>9 DEF Synthesizer
  <2> QED
    BY <1>0, <2>1, SaysTallied
<1>10. CASE TurnFails
  BY <1>0, <1>10, SaysTallied DEF TurnFails
<1>11. CASE AskCount
  BY <1>11, AskCountTallied
<1>12. CASE Save
  BY <1>12, DropsTallied DEF Save
<1>13. CASE Crash
  BY <1>13, DropsTallied DEF Crash
<1>14. CASE Build
  BY <1>14, KeepsTallied DEF Build
<1>15. CASE Elsewhere
  BY <1>15, KeepsTallied DEF Elsewhere
<1>16. CASE Finished \/ UNCHANGED vars
  BY <1>16, KeepsTallied DEF Finished, vars
<1> QED
  BY <1>1, <1>2, <1>3, <1>4, <1>5, <1>6, <1>7, <1>8, <1>9, <1>10, <1>11, <1>12, <1>13, <1>14, <1>15, <1>16, Zenon DEF Next

\* The typed program and the fixed count have one answer, in the turns of both.
THEOREM CountsAlwaysAgree == Spec => []CountsAgree
<1>1. IInv /\ Tallied => CountsAgree
  <2> SUFFICES ASSUME IInv, Tallied PROVE CountsAgree
    OBVIOUS
  <2> DEFINE here == Executed({"count"}) /\ request.kind = "Author" /\ request.topic = None /\ request.institution = None
             fixed == CountFromRelease(frozen, request.identifier, request.window)
             there == outcome # None /\ outcome.type = "Counted" /\ Cardinality(Authorships(frozen, outcome.author)) <= MaxEdges
             r == CountOf(outcome.author, outcome.window)
             typed == Execute(frozen, PlanRequest(r, Release), Release, <<>>)
  <2>0. frozen \in Graphs
    BY DEF IInv, Counters
  <2>1. ASSUME here PROVE ~Failed(fixed) /\ fixed.papers = execution.values["after"].ids
    <3>1. PlainCount(request) /\ Executed({"count"})
      BY <2>1 DEF Executed, PlainCount
    <3>2. /\ Fixed(frozen, request.identifier, request.window)
          /\ execution.values["after"].ids = FixedPapers(frozen, request.identifier, request.window)
      BY <3>1, TypedAsFixed
    <3>3. /\ Failed(fixed) <=> ~Fixed(frozen, request.identifier, request.window)
          /\ ~Failed(fixed) => fixed.papers = FixedPapers(frozen, request.identifier, request.window)
      BY <2>0, FixedCounts
    <3> QED
      BY <3>2, <3>3
  <2>2. ASSUME there PROVE typed.stop = None /\ typed.values["after"].ids = outcome.papers
    <3>1. /\ Fixed(frozen, outcome.author, outcome.window)
          /\ outcome.papers = FixedPapers(frozen, outcome.author, outcome.window)
          /\ outcome.author # None /\ \E x \in Requests : x.family = "count" /\ x.kind = "Author"
      BY <2>2 DEF Tallied
    <3>2. /\ PlainCount(r) /\ r.identifier = outcome.author /\ r.window = outcome.window
          /\ r.name = None /\ r.place = None /\ r.role = None /\ r.source = None
      BY <3>1, CountOfRequest
    <3>3. Cardinality(Authorships(frozen, outcome.author)) <= MaxEdges
      BY <2>2
    <3> HIDE DEF r
    <3>4. typed.stop = None /\ typed.values["after"].ids = FixedPapers(frozen, outcome.author, outcome.window)
      BY <2>0, <3>1, <3>2, <3>3, TypedCounts
    <3> QED
      BY <3>1, <3>4
  <2> HIDE DEF here, fixed, there, typed
  <2> QED
    BY <2>1, <2>2, Zenon DEF CountsAgree, here, fixed, there, r, typed
<1>2. Init => Tallied
  BY DEF Init, Tallied
<1>3. IInv /\ Tallied /\ [Next]_vars => Tallied'
  BY NextTallied
<1>4. Spec => []Tallied
  BY <1>2, <1>3, AlwaysIInv, PTL DEF Spec
<1> QED
  BY <1>1, <1>4, AlwaysIInv, PTL

-----------------------------------------------------------------------------
\* Traces and return moves, whatever the days.

LEMMA ExactRange == ASSUME NEW d \in Int \cup {NoDay} PROVE IsRange(Exact(d))
<1>1. CASE Known(d)
  <2>1. Exact(d) = [lower |-> d, upper |-> d, precision |-> "day", end |-> "bounded"]
    BY <1>1 DEF Exact, Parse
  <2> QED
    BY <1>1, <2>1 DEF IsRange, Valid, Known
<1>2. CASE ~Known(d)
  <2>1. Exact(d) = Unknown
    BY <1>2 DEF Exact
  <2> QED
    BY <2>1 DEF IsRange, Valid, Known, Unknown
<1> QED
  BY <1>1, <1>2

LEMMA EndPoints ==
  ASSUME NEW g \in Graphs, NEW a \in g.assertions
  PROVE  IsRange(a.time) /\ IsRange(Start(a)) /\ IsRange(End(a))
<1>2. /\ IsRange(a.time) /\ (a.start = NoRange \/ IsRange(a.start)) /\ (a.end = NoRange \/ IsRange(a.end))
  BY GraphsAssumption DEF IsGraph
<1>3. {a.time.lower, a.time.upper} \subseteq Int \cup {NoDay}
  BY <1>2 DEF IsRange
<1>4. IsRange(Exact(a.time.lower)) /\ IsRange(Exact(a.time.upper))
  BY <1>3, ExactRange
<1>5. IsRange(Unknown)
  BY DEF IsRange, Valid, Known, Unknown
<1>6. IsRange(Start(a))
  BY <1>2, <1>4 DEF Start
<1>7. IsRange(End(a))
  BY <1>2, <1>4, <1>5 DEF End
<1> QED
  BY <1>2, <1>6, <1>7

\* The days of a trace are days.
LEMMA TraceDays ==
  ASSUME NEW g \in Graphs, NEW author, NEW w, IsWindow(w), NEW at \in TraceDates(g, author, w)
  PROVE  at \in Int
<1> DEFINE ranges == {Start(a) : a \in Employment(g, author)} \cup {End(a) : a \in Employment(g, author)}
                       \cup {a.time : a \in Authorships(g, author)}
           days == ({t.lower : t \in ranges} \cup {t.upper : t \in ranges}) \ {NoDay}
<1>1. at \in {w.start, w.end} \cup days
  BY DEF TraceDates
<1>2. Employment(g, author) \subseteq g.assertions /\ Authorships(g, author) \subseteq g.assertions
  BY DEF Employment, Authorships
<1>3. \A t \in ranges : IsRange(t)
  BY <1>2, EndPoints
<1> HIDE DEF ranges
<1>4. days \subseteq Int
  BY <1>3 DEF IsRange
<1> QED
  BY <1>1, <1>4 DEF IsWindow

\* The periods of an appointment that TraceSound looks at.
Terms(a, w) == {p \in Periods(a, Days) : a.time.end = "ongoing" => p[2] >= w.reference}

LEMMA TermBounds ==
  ASSUME NEW a, NEW w, NEW p \in Terms(a, w)
  PROVE  /\ p[1] \in Possible(Start(a), Days) /\ p[2] \in Possible(End(a), Days) /\ p[1] <= p[2]
         /\ a.time.end = "ongoing" => p[2] >= w.reference
  BY DEF Terms, Periods

LEMMA ActiveThroughout ==
  ASSUME NEW g \in Graphs, NEW a \in g.assertions, NEW w, IsWindow(w), NEW at \in Int, NEW p \in Terms(a, w)
  PROVE  /\ ActiveStatus(a, at, w.reference) = "active" => p[1] <= at /\ at <= p[2]
         /\ p[1] <= at /\ at <= p[2] => ActiveStatus(a, at, w.reference) # "inactive"
<1> DEFINE s == Start(a)  e == End(a)
<1>1. /\ p[1] \in Possible(s, Days) /\ p[2] \in Possible(e, Days) /\ p[1] <= p[2]
      /\ a.time.end = "ongoing" => p[2] >= w.reference
  BY TermBounds
<1>2. IsRange(s) /\ IsRange(e)
  BY EndPoints
<1> HIDE DEF s, e
<1>3. /\ p[1] \in Int /\ (Known(s.lower) => s.lower \in Int /\ s.lower <= p[1])
      /\ (Known(s.upper) => s.upper \in Int /\ p[1] <= s.upper)
  BY <1>1, <1>2, PossibleBounds
<1>4. /\ p[2] \in Int /\ (Known(e.lower) => e.lower \in Int /\ e.lower <= p[2])
      /\ (Known(e.upper) => e.upper \in Int /\ p[2] <= e.upper)
  BY <1>1, <1>2, PossibleBounds
<1>5. w.reference \in Int
  BY DEF IsWindow
<1>6. ASSUME ActiveStatus(a, at, w.reference) = "active" PROVE p[1] <= at /\ at <= p[2]
  <2>1. /\ ~(at > w.reference) /\ Known(s.upper) /\ at >= s.upper
        /\ (Known(e.lower) /\ at <= e.lower) \/ a.time.end = "ongoing"
    BY <1>6 DEF ActiveStatus, s, e
  <2> QED
    BY <1>1, <1>3, <1>4, <1>5, <2>1
<1>7. ASSUME p[1] <= at, at <= p[2], ActiveStatus(a, at, w.reference) = "inactive" PROVE FALSE
  <2>1. After(s, at) \/ Before(e, at)
    BY <1>7 DEF ActiveStatus, s, e
  <2> QED
    BY <1>3, <1>4, <1>7, <2>1 DEF After, Before
<1> QED
  BY <1>6, <1>7

LEMMA RecordedThroughout ==
  ASSUME NEW t, IsRange(t), NEW at \in Int, NEW d \in Possible(t, Days)
  PROVE  (Recorded(t, at) = "recorded" => d <= at) /\ (d <= at => Recorded(t, at) # "future")
<1>1. /\ d \in Int /\ (Known(t.lower) => t.lower \in Int /\ t.lower <= d)
      /\ (Known(t.upper) => t.upper \in Int /\ d <= t.upper)
  BY PossibleBounds
<1>2. ASSUME Recorded(t, at) = "recorded" PROVE d <= at
  <2>1. Known(t.upper) /\ t.upper <= at
    BY <1>2 DEF Recorded
  <2> QED
    BY <1>1, <2>1
<1>3. ASSUME d <= at, Recorded(t, at) = "future" PROVE FALSE
  <2>1. After(t, at)
    BY <1>3 DEF Recorded
  <2> QED
    BY <1>1, <1>3, <2>1 DEF After
<1> QED
  BY <1>2, <1>3

\* What StateAt says of an appointment and of a paper.
LEMMA SaysOf ==
  ASSUME NEW g, NEW author, NEW w, NEW at
  PROVE  LET s == StateAt(g, author, w, at)
             apps == Employment(g, author)
             rows == Authorships(g, author)
         IN  /\ \A i \in s.active : \E a \in apps : a.tail = i /\ ActiveStatus(a, at, w.reference) = "active"
             /\ \A a \in apps : ActiveStatus(a, at, w.reference) # "inactive" => a.tail \in s.active \cup s.uncertain
             /\ \A a \in rows : a.tail \in s.papers => Recorded(a.time, at) = "recorded"
             /\ \A a \in rows : Recorded(a.time, at) # "future" => a.tail \in s.papers \cup s.uncertainPapers
<1> DEFINE s == StateAt(g, author, w, at)
           apps == Employment(g, author)
           rows == Authorships(g, author)
           with(status) == {a.tail : a \in {x \in apps : ActiveStatus(x, at, w.reference) = status}}
           says(p) == {Recorded(a.time, at) : a \in {x \in rows : x.tail = p}}
           all == {a.tail : a \in rows}
           papers == {p \in all : says(p) = {"recorded"}}
           other == {p \in all \ papers : says(p) # {"future"}}
<1>1. s.active = with("active") /\ s.uncertain = with("unknown") /\ s.papers = papers /\ s.uncertainPapers = other
  BY DEF StateAt
<1> HIDE DEF s
<1>2. \A i \in with("active") : \E a \in apps : a.tail = i /\ ActiveStatus(a, at, w.reference) = "active"
  OBVIOUS
<1>3. ASSUME NEW a \in apps, ActiveStatus(a, at, w.reference) # "inactive" PROVE a.tail \in with("active") \cup with("unknown")
  <2>1. ActiveStatus(a, at, w.reference) \in {"active", "unknown"}
    BY <1>3 DEF ActiveStatus
  <2> QED
    BY <2>1
<1>4. \A a \in rows : Recorded(a.time, at) \in says(a.tail) /\ a.tail \in all
  OBVIOUS
<1> HIDE DEF rows, apps, with, says, all
<1>5. ASSUME NEW a \in rows, a.tail \in papers PROVE Recorded(a.time, at) = "recorded"
  BY <1>4, <1>5
<1>6. ASSUME NEW a \in rows, Recorded(a.time, at) # "future" PROVE a.tail \in papers \cup other
  <2>1. a.tail \in all /\ says(a.tail) # {"future"}
    BY <1>4, <1>6
  <2> QED
    BY <2>1
<1> HIDE DEF papers, other
<1> QED
  BY <1>1, <1>2, <1>3, <1>5, <1>6 DEF s, apps, rows

\* The trace of a day says what holds in every term and on every possible day.
SaidRight(g, author, w, at, s) ==
  LET apps == Employment(g, author)
      active(a) == {p[1] <= at /\ at <= p[2] : p \in Terms(a, w)}
  IN  /\ \A i \in s.active : \E a \in apps : a.tail = i /\ FALSE \notin active(a)
      /\ \A a \in apps : TRUE \in active(a) => a.tail \in s.active \cup s.uncertain
      /\ \A a \in Authorships(g, author) : \A d \in Possible(a.time, Days) :
           /\ a.tail \in s.papers => d <= at
           /\ d <= at => a.tail \in s.papers \cup s.uncertainPapers

LEMMA StatesRight ==
  ASSUME NEW g \in Graphs, NEW author, NEW w, IsWindow(w), NEW at \in Int
  PROVE  SaidRight(g, author, w, at, StateAt(g, author, w, at))
<1> DEFINE s == StateAt(g, author, w, at)
           apps == Employment(g, author)
           rows == Authorships(g, author)
           active(a) == {p[1] <= at /\ at <= p[2] : p \in Terms(a, w)}
<1>1. /\ \A i \in s.active : \E a \in apps : a.tail = i /\ ActiveStatus(a, at, w.reference) = "active"
      /\ \A a \in apps : ActiveStatus(a, at, w.reference) # "inactive" => a.tail \in s.active \cup s.uncertain
      /\ \A a \in rows : a.tail \in s.papers => Recorded(a.time, at) = "recorded"
      /\ \A a \in rows : Recorded(a.time, at) # "future" => a.tail \in s.papers \cup s.uncertainPapers
  BY SaysOf
<1>2. apps \subseteq g.assertions /\ rows \subseteq g.assertions
  BY DEF Employment, Authorships
<1> HIDE DEF s, apps, rows
<1>3. ASSUME NEW a \in apps PROVE
        /\ ActiveStatus(a, at, w.reference) = "active" => \A p \in Terms(a, w) : p[1] <= at /\ at <= p[2]
        /\ (\E p \in Terms(a, w) : p[1] <= at /\ at <= p[2]) => ActiveStatus(a, at, w.reference) # "inactive"
  BY <1>2, ActiveThroughout
<1>4. ASSUME NEW i \in s.active PROVE \E a \in apps : a.tail = i /\ FALSE \notin active(a)
  <2>1. PICK a \in apps : a.tail = i /\ ActiveStatus(a, at, w.reference) = "active"
    BY <1>1
  <2>2. \A p \in Terms(a, w) : p[1] <= at /\ at <= p[2]
    BY <1>3, <2>1
  <2>3. FALSE \notin active(a)
    BY <2>2, Zenon
  <2> QED
    BY <2>1, <2>3
<1>5. ASSUME NEW a \in apps, TRUE \in active(a) PROVE a.tail \in s.active \cup s.uncertain
  <2>1. \E p \in Terms(a, w) : p[1] <= at /\ at <= p[2]
    BY <1>5, Zenon
  <2> QED
    BY <1>1, <1>3, <2>1
<1>6. ASSUME NEW a \in rows, NEW d \in Possible(a.time, Days)
      PROVE  /\ a.tail \in s.papers => d <= at
             /\ d <= at => a.tail \in s.papers \cup s.uncertainPapers
  <2>1. IsRange(a.time)
    BY <1>2, EndPoints
  <2>2. (Recorded(a.time, at) = "recorded" => d <= at) /\ (d <= at => Recorded(a.time, at) # "future")
    BY <2>1, RecordedThroughout
  <2> QED
    BY <1>1, <2>2
<1> HIDE DEF active
<1> QED
  BY <1>4, <1>5, <1>6, Zenon DEF SaidRight, s, apps, rows, active

\* What is known of three appointments that are considered, and of the certain among them.
Considers(w, a, b, c) ==
  /\ a # b /\ b # c /\ a # c /\ a.tail = c.tail /\ b.tail # a.tail
  /\ \A x \in {a, b, c} : Bounded(Start(x)) /\ ~After(Start(x), w.end) /\ ~Before(Start(x), w.start)
  /\ Start(a).lower <= Start(b).upper /\ Start(b).lower <= Start(c).upper
  /\ <<Start(a).lower, Start(a).upper>> # <<Start(c).lower, Start(c).upper>>
Certain(w, a, b, c) ==
  /\ Start(a).upper < Start(b).lower /\ Start(b).upper < Start(c).lower
  /\ Departed(a, b) /\ Departed(b, c)
  /\ Start(a).lower >= w.start /\ Start(c).upper <= w.end
Elapses(a, c) ==
  <<IF Start(c).lower > Start(a).upper THEN Start(c).lower - Start(a).upper ELSE 0, Start(c).upper - Start(a).lower>>
Move(a, b, c) == [assertions |-> <<a.id, b.id, c.id>>, elapsed |-> Elapses(a, c)]

LEMMA ReturnsOf ==
  ASSUME NEW g, NEW author, NEW w
  PROVE  LET apps == Employment(g, author)
             moves == ReturnMoves(g, author, w)
         IN  /\ \A x \in moves.returns : \E a, b, c \in apps :
                  x = Move(a, b, c) /\ Considers(w, a, b, c) /\ Certain(w, a, b, c)
             /\ \A a, b, c \in apps : Considers(w, a, b, c) => Move(a, b, c) \in moves.returns \cup moves.ambiguous
<1> DEFINE apps == Employment(g, author)
           considered == {m \in apps \X apps \X apps :
             LET s == [i \in 1..3 |-> Start(m[i])] IN
             /\ m[1] # m[2] /\ m[2] # m[3] /\ m[1] # m[3]
             /\ m[1].tail = m[3].tail /\ m[2].tail # m[1].tail
             /\ \A i \in 1..3 : Bounded(s[i]) /\ ~After(s[i], w.end) /\ ~Before(s[i], w.start)
             /\ s[1].lower <= s[2].upper /\ s[2].lower <= s[3].upper
             /\ <<s[1].lower, s[1].upper>> # <<s[3].lower, s[3].upper>>}
           certain == {m \in considered : LET s == [i \in 1..3 |-> Start(m[i])] IN
             /\ s[1].upper < s[2].lower /\ s[2].upper < s[3].lower
             /\ Departed(m[1], m[2]) /\ Departed(m[2], m[3])
             /\ s[1].lower >= w.start /\ s[3].upper <= w.end}
           elapsed(m) == LET s == [i \in 1..3 |-> Start(m[i])] IN
             <<IF s[3].lower > s[1].upper THEN s[3].lower - s[1].upper ELSE 0, s[3].upper - s[1].lower>>
           say(m) == [assertions |-> <<m[1].id, m[2].id, m[3].id>>, elapsed |-> elapsed(m)]
           moves == ReturnMoves(g, author, w)
<1>1. moves.returns = {say(m) : m \in certain} /\ moves.ambiguous = {say(m) : m \in considered \ certain}
  BY DEF ReturnMoves
<1>2. \A m \in apps \X apps \X apps : m[1] \in apps /\ m[2] \in apps /\ m[3] \in apps
  OBVIOUS
<1>3. ASSUME NEW a \in apps, NEW b \in apps, NEW c \in apps
      PROVE  <<a, b, c>> \in apps \X apps \X apps /\ <<a, b, c>>[1] = a /\ <<a, b, c>>[2] = b /\ <<a, b, c>>[3] = c
  OBVIOUS
<1>4. ASSUME NEW m PROVE LET s == [i \in 1..3 |-> Start(m[i])] IN
                         s[1] = Start(m[1]) /\ s[2] = Start(m[2]) /\ s[3] = Start(m[3])
  OBVIOUS
<1> HIDE DEF apps
<1>5. ASSUME NEW m \in apps \X apps \X apps PROVE m \in considered <=> Considers(w, m[1], m[2], m[3])
  BY <1>4 DEF Considers
<1>6. ASSUME NEW m \in considered PROVE m \in certain <=> Certain(w, m[1], m[2], m[3])
  BY <1>4 DEF Certain
<1>7. ASSUME NEW m PROVE say(m) = Move(m[1], m[2], m[3])
  BY <1>4 DEF Move, Elapses
<1>8. considered \subseteq apps \X apps \X apps /\ certain \subseteq considered
  OBVIOUS
<1> HIDE DEF considered, certain, say, moves
<1>9. ASSUME NEW x \in moves.returns
      PROVE  \E a, b, c \in apps : x = Move(a, b, c) /\ Considers(w, a, b, c) /\ Certain(w, a, b, c)
  <2>1. PICK m \in certain : x = say(m)
    BY <1>1
  <2>2. m \in considered /\ m \in apps \X apps \X apps
    BY <1>8
  <2>3. x = Move(m[1], m[2], m[3]) /\ Considers(w, m[1], m[2], m[3]) /\ Certain(w, m[1], m[2], m[3])
    BY <1>5, <1>6, <1>7, <2>1, <2>2
  <2> QED
    BY <1>2, <2>2, <2>3
<1>10. ASSUME NEW a \in apps, NEW b \in apps, NEW c \in apps, Considers(w, a, b, c)
       PROVE  Move(a, b, c) \in moves.returns \cup moves.ambiguous
  <2> DEFINE m == <<a, b, c>>
  <2>1. m \in apps \X apps \X apps /\ m[1] = a /\ m[2] = b /\ m[3] = c
    BY <1>3
  <2> HIDE DEF m
  <2>2. m \in considered /\ say(m) = Move(a, b, c)
    BY <1>5, <1>7, <1>10, <2>1
  <2> QED
    BY <1>1, <2>2
<1> QED
  BY <1>9, <1>10 DEF moves, apps

\* Three terms, each before the next, from and to a start in the window.
Moved(w, p, q, r) == p[2] < q[1] /\ q[2] < r[1] /\ In(p[1], w) /\ In(r[1], w)

LEMMA TermInts ==
  ASSUME NEW g \in Graphs, NEW a \in g.assertions, NEW w, NEW p \in Terms(a, w)
  PROVE  /\ p[1] \in Int /\ p[2] \in Int /\ p[1] <= p[2] /\ IsRange(Start(a)) /\ IsRange(End(a))
         /\ Known(Start(a).lower) => Start(a).lower \in Int /\ Start(a).lower <= p[1]
         /\ Known(Start(a).upper) => Start(a).upper \in Int /\ p[1] <= Start(a).upper
         /\ Known(End(a).upper) => End(a).upper \in Int /\ p[2] <= End(a).upper
<1> DEFINE s == Start(a)  e == End(a)
<1>1. p[1] \in Possible(s, Days) /\ p[2] \in Possible(e, Days) /\ p[1] <= p[2]
  BY TermBounds
<1>2. IsRange(s) /\ IsRange(e)
  BY EndPoints
<1> HIDE DEF s, e
<1>3. /\ p[1] \in Int /\ (Known(s.lower) => s.lower \in Int /\ s.lower <= p[1])
      /\ (Known(s.upper) => s.upper \in Int /\ p[1] <= s.upper)
  BY <1>1, <1>2, PossibleBounds
<1>4. p[2] \in Int /\ (Known(e.upper) => e.upper \in Int /\ p[2] <= e.upper)
  BY <1>1, <1>2, PossibleBounds
<1> QED
  BY <1>1, <1>2, <1>3, <1>4 DEF s, e

LEMMA CertainMoved ==
  ASSUME NEW g \in Graphs, NEW a \in g.assertions, NEW b \in g.assertions, NEW c \in g.assertions,
         NEW w, IsWindow(w), Considers(w, a, b, c), Certain(w, a, b, c),
         NEW p \in Terms(a, w), NEW q \in Terms(b, w), NEW r \in Terms(c, w)
  PROVE  /\ Moved(w, p, q, r)
         /\ Elapses(a, c)[1] <= r[1] - p[1] /\ r[1] - p[1] <= Elapses(a, c)[2]
<1> DEFINE al == Start(a).lower  au == Start(a).upper  bl == Start(b).lower  bu == Start(b).upper
           cl == Start(c).lower  cu == Start(c).upper  ae == End(a).upper  be == End(b).upper
<1>1. /\ Known(al) /\ Known(au) /\ Known(bl) /\ Known(bu) /\ Known(cl) /\ Known(cu)
  BY DEF Considers, Bounded
<1>2. /\ Known(ae) /\ ae < bl /\ Known(be) /\ be < cl /\ al >= w.start /\ cu <= w.end
  BY DEF Certain, Departed, Before
<1>3. /\ p[1] \in Int /\ p[2] \in Int /\ p[1] <= p[2] /\ al \in Int /\ al <= p[1] /\ au \in Int /\ p[1] <= au
      /\ ae \in Int /\ p[2] <= ae
  BY <1>1, <1>2, TermInts
<1>4. /\ q[1] \in Int /\ q[2] \in Int /\ q[1] <= q[2] /\ bl \in Int /\ bl <= q[1] /\ be \in Int /\ q[2] <= be
  BY <1>1, <1>2, TermInts
<1>5. /\ r[1] \in Int /\ cl \in Int /\ cl <= r[1] /\ cu \in Int /\ r[1] <= cu
  BY <1>1, <1>2, TermInts
<1>6. w.start \in Int /\ w.end \in Int
  BY DEF IsWindow
<1> HIDE DEF al, au, bl, bu, cl, cu, ae, be
<1>7. p[2] < q[1] /\ q[2] < r[1] /\ w.start <= p[1] /\ p[1] <= w.end /\ w.start <= r[1] /\ r[1] <= w.end
  BY <1>2, <1>3, <1>4, <1>5, <1>6
<1>8. Elapses(a, c) = <<IF cl > au THEN cl - au ELSE 0, cu - al>>
  BY DEF Elapses, al, au, cl, cu
<1>9. (IF cl > au THEN cl - au ELSE 0) <= r[1] - p[1] /\ r[1] - p[1] <= cu - al
  BY <1>3, <1>4, <1>5, <1>7
<1> QED
  BY <1>7, <1>8, <1>9 DEF Moved, In

LEMMA MovedConsidered ==
  ASSUME NEW g \in Graphs, NEW a \in g.assertions, NEW b \in g.assertions, NEW c \in g.assertions,
         NEW w, IsWindow(w), a.tail = c.tail, b.tail # a.tail,
         Bounded(Start(a)), Bounded(Start(b)), Bounded(Start(c)),
         <<Start(a).lower, Start(a).upper>> # <<Start(c).lower, Start(c).upper>>,
         NEW p \in Terms(a, w), NEW q \in Terms(b, w), NEW r \in Terms(c, w), Moved(w, p, q, r)
  PROVE  Considers(w, a, b, c)
<1> DEFINE al == Start(a).lower  au == Start(a).upper  bl == Start(b).lower  bu == Start(b).upper
           cl == Start(c).lower  cu == Start(c).upper
<1>1. /\ Known(al) /\ Known(au) /\ Known(bl) /\ Known(bu) /\ Known(cl) /\ Known(cu)
  BY DEF Bounded
<1>3. /\ p[1] \in Int /\ p[2] \in Int /\ p[1] <= p[2] /\ al \in Int /\ al <= p[1] /\ au \in Int /\ p[1] <= au
  BY <1>1, TermInts
<1>4. /\ q[1] \in Int /\ q[2] \in Int /\ q[1] <= q[2] /\ bl \in Int /\ bl <= q[1] /\ bu \in Int /\ q[1] <= bu
  BY <1>1, TermInts
<1>5. /\ r[1] \in Int /\ cl \in Int /\ cl <= r[1] /\ cu \in Int /\ r[1] <= cu
  BY <1>1, TermInts
<1>6. w.start \in Int /\ w.end \in Int
  BY DEF IsWindow
<1>7. p[2] < q[1] /\ q[2] < r[1] /\ w.start <= p[1] /\ p[1] <= w.end /\ w.start <= r[1] /\ r[1] <= w.end
  BY DEF Moved, In
<1>8. a # b /\ b # c /\ a # c
  OBVIOUS
<1>9. ASSUME NEW x \in {a, b, c} PROVE ~After(Start(x), w.end) /\ ~Before(Start(x), w.start)
  <2> HIDE DEF al, au, bl, bu, cl, cu
  <2>1. ~(al > w.end) /\ ~(bl > w.end) /\ ~(cl > w.end) /\ ~(au < w.start) /\ ~(bu < w.start) /\ ~(cu < w.start)
    BY <1>3, <1>4, <1>5, <1>6, <1>7
  <2> QED
    BY <2>1 DEF After, Before, al, au, bl, bu, cl, cu
<1>10. al <= bu /\ bl <= cu
  <2> HIDE DEF al, au, bl, bu, cl, cu
  <2> QED
    BY <1>3, <1>4, <1>5, <1>7
<1>11. \A x \in {a, b, c} : Bounded(Start(x))
  OBVIOUS
<1> QED
  BY <1>8, <1>9, <1>10, <1>11 DEF Considers

\* The result of a trace is the trace of the author asked about, in the window asked about.
LEMMA TraceValue ==
  ASSUME IInv, Executed({"state", "returns"})
  PROVE  LET result == execution.values["trace"] IN
         /\ IsWindow(request.window) /\ frozen \in Graphs
         /\ request.family = "state" => result = EventTrace(frozen, request.identifier, request.window)
         /\ request.family = "returns" => result = ReturnMoves(frozen, request.identifier, request.window)
<1> DEFINE pool == execution.values
           r == request
           s == TraceOf(r)
<1>1. Pooled(frozen, r, pool) /\ IsRequest(r) /\ frozen \in Graphs
  BY ExecutedPool DEF Executed
<1>2. s \in StepSet(r) /\ Asked(r) \in StepSet(r) /\ r.family \in {"state", "returns"}
  BY DEF StepSet, FamilySteps, Executed
<1>3. s.id = "trace" /\ s.op = "Aggregate" /\ Asked(r).id = "window" /\ Asked(r).op = "NormalizeTime"
      /\ Asked(r).args.period = r.window
  BY StepIds
<1>4. IsStep(s) /\ Performed(frozen, s, pool) /\ Performed(frozen, Asked(r), pool)
  BY <1>1, <1>2 DEF Pooled
<1>5. s.args.window = "window" /\ s.args.subject = r.identifier
      /\ s.args.metric = IF r.family = "state" THEN "event_trace" ELSE "mobility_returns"
  BY Tracing DEF TracesOf
<1>6. pool["window"].period = r.window
  BY <1>3, <1>4, NormalizedValue
<1> HIDE DEF pool, r, s
<1>7. PICK v : pool["trace"] = Aggregate(frozen, s.args, v) /\ ~Failed(Aggregate(frozen, s.args, v)) /\ v["window"] = pool["window"]
  BY <1>3, <1>4, <1>5, AggregatedValue
<1>8. Windowed(v, s.args) = r.window
  BY <1>5, <1>6, <1>7 DEF Windowed
<1>9. Failed(Fail("ValueError"))
  BY DEF Failed, Fail, Failures
<1>10. \/ Aggregate(frozen, s.args, v) = Fail("ValueError")
       \/ Aggregate(frozen, s.args, v) = IF s.args.metric = "event_trace" THEN EventTrace(frozen, r.identifier, r.window)
                                         ELSE ReturnMoves(frozen, r.identifier, r.window)
  BY <1>5, <1>8 DEF Aggregate
<1> QED
  BY <1>1, <1>5, <1>7, <1>9, <1>10 DEF pool, r, IsRequest

\* What TraceSound says of the moves by three appointments.
SaidMoves(w, m, result) ==
  LET worlds == Terms(m[1], w) \X Terms(m[2], w) \X Terms(m[3], w)
      said(found) == {x \in found : x.assertions = <<m[1].id, m[2].id, m[3].id>>}
      moved(t) == t[1][2] < t[2][1] /\ t[2][2] < t[3][1] /\ In(t[1][1], w) /\ In(t[3][1], w)
      range(i) == <<Start(m[i]).lower, Start(m[i]).upper>>
  IN  /\ \A x \in said(result.returns) : \A t \in worlds :
           /\ moved(t)
           /\ x.elapsed[1] <= t[3][1] - t[1][1] /\ t[3][1] - t[1][1] <= x.elapsed[2]
      /\ (\A i \in 1..3 : Bounded(Start(m[i]))) /\ range(1) # range(3) /\ (\E t \in worlds : moved(t))
           => said(result.returns \cup result.ambiguous) # {}

LEMMA MovesRight ==
  ASSUME NEW g \in Graphs, NEW author, NEW w, IsWindow(w),
         NEW m \in [1..3 -> Employment(g, author)], m[1].tail = m[3].tail, m[1].tail # m[2].tail
  PROVE  SaidMoves(w, m, ReturnMoves(g, author, w))
<1> DEFINE apps == Employment(g, author)
           a == m[1]  b == m[2]  c == m[3]
           result == ReturnMoves(g, author, w)
           worlds == Terms(a, w) \X Terms(b, w) \X Terms(c, w)
           said(found) == {x \in found : x.assertions = <<a.id, b.id, c.id>>}
           moved(t) == t[1][2] < t[2][1] /\ t[2][2] < t[3][1] /\ In(t[1][1], w) /\ In(t[3][1], w)
           range(i) == <<Start(m[i]).lower, Start(m[i]).upper>>
<1>1. apps \subseteq g.assertions
  BY DEF Employment
<1>2. a \in apps /\ b \in apps /\ c \in apps
  OBVIOUS
<1>3. /\ \A x \in result.returns : \E i, j, k \in apps :
           x = Move(i, j, k) /\ Considers(w, i, j, k) /\ Certain(w, i, j, k)
      /\ \A i, j, k \in apps : Considers(w, i, j, k) => Move(i, j, k) \in result.returns \cup result.ambiguous
  BY ReturnsOf
<1> HIDE DEF apps, result
<1>4. ASSUME NEW t \in worlds
      PROVE  t[1] \in Terms(a, w) /\ t[2] \in Terms(b, w) /\ t[3] \in Terms(c, w) /\ (moved(t) <=> Moved(w, t[1], t[2], t[3]))
  BY DEF Moved
<1>5. ASSUME NEW x \in said(result.returns), NEW t \in worlds
      PROVE  moved(t) /\ x.elapsed[1] <= t[3][1] - t[1][1] /\ t[3][1] - t[1][1] <= x.elapsed[2]
  <2>1. PICK i, j, k \in apps : x = Move(i, j, k) /\ Considers(w, i, j, k) /\ Certain(w, i, j, k)
    BY <1>3
  <2>0. /\ i \in g.assertions /\ j \in g.assertions /\ k \in g.assertions
        /\ a \in g.assertions /\ b \in g.assertions /\ c \in g.assertions
    BY <1>1, <1>2
  <2>2. i = a /\ j = b /\ k = c
    <3>1. Move(i, j, k).assertions = <<a.id, b.id, c.id>>
      BY <2>1
    <3>2. <<i.id, j.id, k.id>> = <<a.id, b.id, c.id>>
      BY <3>1 DEF Move
    <3> HIDE DEF a, b, c
    <3>3. i.id = a.id /\ j.id = b.id /\ k.id = c.id
      BY <3>2
    <3> QED
      BY <2>0, <3>3, GraphsAssumption DEF IsGraph
  <2>3. x.elapsed = Elapses(a, c)
    BY <2>1, <2>2 DEF Move
  <2>4. Considers(w, a, b, c) /\ Certain(w, a, b, c) /\ a \in g.assertions /\ b \in g.assertions /\ c \in g.assertions
    BY <1>1, <1>2, <2>1, <2>2
  <2>5. t[1] \in Terms(a, w) /\ t[2] \in Terms(b, w) /\ t[3] \in Terms(c, w)
    BY <1>4
  <2> DEFINE p == t[1]  q == t[2]  r == t[3]
  <2>6. p \in Terms(a, w) /\ q \in Terms(b, w) /\ r \in Terms(c, w)
    BY <2>5
  <2> HIDE DEF p, q, r
  <2>7. Moved(w, p, q, r) /\ Elapses(a, c)[1] <= r[1] - p[1] /\ r[1] - p[1] <= Elapses(a, c)[2]
    BY <2>4, <2>6, CertainMoved
  <2> QED
    BY <1>4, <2>3, <2>7 DEF p, q, r
<1>6. ASSUME \A i \in 1..3 : Bounded(Start(m[i])), range(1) # range(3), NEW t \in worlds, moved(t)
      PROVE  said(result.returns \cup result.ambiguous) # {}
  <2>1. /\ Bounded(Start(a)) /\ Bounded(Start(b)) /\ Bounded(Start(c))
        /\ <<Start(a).lower, Start(a).upper>> # <<Start(c).lower, Start(c).upper>>
    BY <1>6
  <2>2. a \in g.assertions /\ b \in g.assertions /\ c \in g.assertions /\ a.tail = c.tail /\ b.tail # a.tail
    BY <1>1, <1>2
  <2> DEFINE p == t[1]  q == t[2]  r == t[3]
  <2>3. p \in Terms(a, w) /\ q \in Terms(b, w) /\ r \in Terms(c, w) /\ Moved(w, p, q, r)
    BY <1>4, <1>6
  <2> HIDE DEF p, q, r, a, b, c
  <2>4. Considers(w, a, b, c)
    BY <2>1, <2>2, <2>3, MovedConsidered
  <2>5. Move(a, b, c) \in result.returns \cup result.ambiguous
    BY <1>2, <1>3, <2>4
  <2>6. Move(a, b, c).assertions = <<a.id, b.id, c.id>>
    BY DEF Move
  <2> QED
    BY <2>5, <2>6
<1> HIDE DEF worlds, said, moved, range
<1> QED
  BY <1>5, <1>6, Zenon DEF SaidMoves, worlds, said, moved, range, result

\* Whatever the days and the periods were, a trace and a return move say only what was.
THEOREM TracesSound == Spec => []TraceSound
<1>1. IInv => TraceSound
  <2> SUFFICES ASSUME IInv, Executed({"state", "returns"}) PROVE TraceSound
    BY DEF TraceSound
  <2> DEFINE author == request.identifier
             w == request.window
             apps == Employment(frozen, author)
             result == execution.values["trace"]
  <2>1. /\ IsWindow(w) /\ frozen \in Graphs
        /\ request.family = "state" => result = EventTrace(frozen, author, w)
        /\ request.family = "returns" => result = ReturnMoves(frozen, author, w)
    BY TraceValue
  <2> HIDE DEF author, w, result
  <2>2. ASSUME request.family = "state", NEW at \in DOMAIN result.states
        PROVE  SaidRight(frozen, author, w, at, result.states[at])
    <3>1. result.states = [d \in TraceDates(frozen, author, w) |-> StateAt(frozen, author, w, d)]
      BY <2>1, <2>2 DEF EventTrace
    <3>2. at \in TraceDates(frozen, author, w) /\ result.states[at] = StateAt(frozen, author, w, at)
      BY <2>2, <3>1
    <3>3. at \in Int
      BY <2>1, <3>2, TraceDays
    <3> QED
      BY <2>1, <3>2, <3>3, StatesRight
  <2>3. ASSUME request.family = "returns",
               NEW m \in {x \in [1..3 -> apps] : x[1].tail = x[3].tail /\ x[1].tail # x[2].tail}
        PROVE  SaidMoves(w, m, result)
    <3>1. m \in [1..3 -> Employment(frozen, author)] /\ m[1].tail = m[3].tail /\ m[1].tail # m[2].tail
      OBVIOUS
    <3> QED
      BY <2>1, <2>3, <3>1, MovesRight
  <2> QED
    BY <2>2, <2>3, Zenon DEF TraceSound, SaidRight, SaidMoves, Terms, author, w, result
<1> QED
  BY <1>1, AlwaysIInv, PTL

-----------------------------------------------------------------------------
\* Paths, whatever the days.

Roots(starts) == {[at |-> e, edges |-> <<>>, through |-> {e}, last |-> NoDay] : e \in starts}
Further(g, q, w, ps) ==
  {Go(q, c) : c \in {x \in Taken(g, q, w, ps) : x[2][Toward(q)] \notin {q.target} \cup x[1].through}}

AreLevels(g, q, w, starts, k, level) ==
  level = [n \in 0..k |-> IF n = 0 THEN Roots(starts) ELSE Further(g, q, w, level[n - 1])]

\* The levels of a search exist, for any number of hops.
LEMMA LevelsExist ==
  ASSUME NEW g, NEW q, NEW w, NEW starts, NEW K \in Nat
  PROVE  \E level : AreLevels(g, q, w, starts, K, level)
<1> DEFINE T == {k \in Nat : \E level : AreLevels(g, q, w, starts, k, level)}
<1>1. 0 \in T
  <2> DEFINE f == [n \in 0..0 |-> Roots(starts)]
  <2>1. AreLevels(g, q, w, starts, 0, f)
    BY DEF AreLevels
  <2> QED
    BY <2>1
<1>2. ASSUME NEW k \in Nat, k \in T PROVE k + 1 \in T
  <2>1. PICK f : AreLevels(g, q, w, starts, k, f)
    BY <1>2
  <2> DEFINE h == [n \in 0..(k + 1) |-> IF n = k + 1 THEN Further(g, q, w, f[k]) ELSE f[n]]
  <2>2. ASSUME NEW n \in 0..(k + 1)
        PROVE  h[n] = IF n = 0 THEN Roots(starts) ELSE Further(g, q, w, h[n - 1])
    <3>1. CASE n = k + 1
      <4>1. n # 0 /\ n - 1 = k /\ k \in 0..(k + 1) /\ k # k + 1
        BY <3>1
      <4> QED
        BY <3>1, <4>1
    <3>2. CASE n # k + 1
      <4>1. n \in 0..k /\ (n # 0 => n - 1 \in 0..k /\ n - 1 \in 0..(k + 1) /\ n - 1 # k + 1)
        BY <3>2
      <4>2. f[n] = IF n = 0 THEN Roots(starts) ELSE Further(g, q, w, f[n - 1])
        BY <2>1, <4>1 DEF AreLevels
      <4>3. h[n] = f[n] /\ (n # 0 => h[n - 1] = f[n - 1])
        BY <3>2, <4>1
      <4> QED
        BY <4>2, <4>3
    <3> QED
      BY <3>1, <3>2
  <2>3. h = [n \in 0..(k + 1) |-> h[n]]
    OBVIOUS
  <2>4. AreLevels(g, q, w, starts, k + 1, h)
    <3> HIDE DEF h
    <3> QED
      BY <2>2, <2>3 DEF AreLevels
  <2> QED
    <3> HIDE DEF h
    <3> QED
      BY <2>4
<1>3. Nat \subseteq T
  <2> HIDE DEF T
  <2> QED
    BY <1>1, <1>2, SetInduction
<1> QED
  BY <1>3

LEMMA LevelsAre ==
  ASSUME NEW g, NEW q, NEW w, NEW starts, q.hops \in Nat
  PROVE  LET level == Levels(g, q, w, starts) IN
         level[0] = Roots(starts) /\ \A n \in 1..q.hops : level[n] = Further(g, q, w, level[n - 1])
<1> DEFINE level == Levels(g, q, w, starts)
<1>1. AreLevels(g, q, w, starts, q.hops, level)
  <2>1. level = CHOOSE f : AreLevels(g, q, w, starts, q.hops, f)
    BY Zenon DEF Levels, AreLevels, Roots, Further
  <2>2. \E f : AreLevels(g, q, w, starts, q.hops, f)
    BY LevelsExist
  <2> HIDE DEF level
  <2> QED
    BY <2>1, <2>2, Zenon
<1>2. 0 \in 0..q.hops /\ \A n \in 1..q.hops : n \in 0..q.hops /\ n # 0
  OBVIOUS
<1> QED
  BY <1>1, <1>2 DEF AreLevels

\* The events of a partial path are in the window, and certainly in order if they have to be.
Sound(g, q, w, es, last) ==
  /\ Listed(es)
  /\ \A i \in 1..Len(es) : es[i] \in g.assertions /\ Membership(es[i].time, w) = "inside"
  /\ q.rule = "nondecreasing" =>
       /\ \A i, j \in 1..Len(es) : i < j => es[i].time.upper <= es[j].time.lower
       /\ Len(es) > 0 => last = es[Len(es)].time.upper

\* The dates of what is in a window.
LEMMA InsideBounds ==
  ASSUME NEW g \in Graphs, NEW a \in g.assertions, NEW w, Membership(a.time, w) = "inside"
  PROVE  /\ Known(a.time.lower) /\ Known(a.time.upper) /\ a.time.lower \in Int /\ a.time.upper \in Int
         /\ a.time.lower <= a.time.upper /\ w.start <= a.time.lower /\ a.time.upper <= w.end
<1>1. Bounded(a.time) /\ w.start <= a.time.lower /\ a.time.upper <= w.end
  BY DEF Membership
<1>2. IsRange(a.time)
  BY EndPoints
<1> QED
  BY <1>1, <1>2 DEF Bounded, IsRange, Known, Valid

LEMMA GoSound ==
  ASSUME NEW g \in Graphs, NEW q, NEW w, NEW ps, NEW c \in Taken(g, q, w, ps), Sound(g, q, w, c[1].edges, c[1].last)
  PROVE  LET p == Go(q, c) IN Sound(g, q, w, p.edges, p.last) /\ Len(p.edges) = Len(c[1].edges) + 1
<1> DEFINE es == c[1].edges  a == c[2]  fs == Append(es, a)  n == Len(es)
<1>1. /\ Go(q, c).edges = fs /\ Go(q, c).last = a.time.upper
  BY DEF Go
<1>2. a \in g.assertions /\ Membership(a.time, w) = "inside" /\ ~Misordered(q, c[1], a)
  BY DEF Taken, Tried
<1>3. Listed(es) /\ n \in Nat
  BY ListedFacts DEF Sound
<1>4. /\ Listed(fs) /\ Len(fs) = n + 1 /\ fs[n + 1] = a /\ \A i \in 1..n : fs[i] = es[i]
  BY <1>3, AppendFacts
<1> HIDE DEF es, a, fs, n
<1>5. /\ \A i \in 1..n : es[i] \in g.assertions /\ Membership(es[i].time, w) = "inside"
      /\ q.rule = "nondecreasing" =>
           /\ \A i, j \in 1..n : i < j => es[i].time.upper <= es[j].time.lower
           /\ n > 0 => c[1].last = es[n].time.upper
  BY DEF Sound, es, n
<1>6. ASSUME NEW i \in 1..(n + 1) PROVE fs[i] \in g.assertions /\ Membership(fs[i].time, w) = "inside"
  <2>1. CASE i = n + 1
    BY <1>2, <1>4, <2>1
  <2>2. CASE i # n + 1
    <3>1. i \in 1..n
      BY <1>3, <2>2
    <3> QED
      BY <1>4, <1>5, <3>1
  <2> QED
    BY <2>1, <2>2
<1>7. ASSUME q.rule = "nondecreasing", NEW i \in 1..(n + 1), NEW j \in 1..(n + 1), i < j
      PROVE  fs[i].time.upper <= fs[j].time.lower
  <2>1. CASE j # n + 1
    <3>1. i \in 1..n /\ j \in 1..n
      BY <1>3, <1>7, <2>1
    <3> QED
      BY <1>4, <1>5, <1>7, <3>1
  <2>2. CASE j = n + 1
    <3>1. i \in 1..n /\ n \in 1..n /\ n > 0 /\ (i = n \/ i < n)
      BY <1>3, <1>7, <2>2
    <3>2. /\ es[i] \in g.assertions /\ Membership(es[i].time, w) = "inside"
          /\ es[n] \in g.assertions /\ Membership(es[n].time, w) = "inside"
      BY <1>5, <3>1
    <3> DEFINE iu == es[i].time.upper  nl == es[n].time.lower  nu == es[n].time.upper  al == a.time.lower
    <3>3. iu \in Int /\ nl \in Int /\ nu \in Int /\ nl <= nu /\ Known(nu) /\ al \in Int
      BY <1>2, <3>2, InsideBounds
    <3>4. c[1].last = nu /\ (i < n => iu <= nl)
      BY <1>5, <1>7, <3>1
    <3>5. ~(al < nu)
      BY <1>2, <1>7, <3>3, <3>4 DEF Misordered, OutOfOrder
    <3>6. fs[i].time.upper = iu /\ fs[j].time.lower = al
      BY <1>4, <2>2, <3>1
    <3>7. i = n => iu = nu
      OBVIOUS
    <3> HIDE DEF iu, nl, nu, al
    <3>8. iu <= al
      BY <3>1, <3>3, <3>4, <3>5, <3>7
    <3> QED
      BY <3>6, <3>8
  <2> QED
    BY <2>1, <2>2
<1>8. Sound(g, q, w, fs, a.time.upper)
  BY <1>4, <1>6, <1>7 DEF Sound
<1> QED
  BY <1>1, <1>4, <1>8 DEF n, es

\* So they are on every level.
LEMMA LevelsSound ==
  ASSUME NEW g \in Graphs, NEW q, NEW w, NEW starts, q.hops \in Nat, NEW n \in 0..q.hops
  PROVE  \A p \in Levels(g, q, w, starts)[n] : Sound(g, q, w, p.edges, p.last)
<1> DEFINE level == Levels(g, q, w, starts)
           K == q.hops
           T == {m \in Nat : m <= K => \A p \in level[m] : Sound(g, q, w, p.edges, p.last)}
<1>0. level[0] = Roots(starts) /\ \A m \in 1..K : level[m] = Further(g, q, w, level[m - 1])
  BY LevelsAre
<1> HIDE DEF level
<1>1. 0 \in T
  <2>1. ASSUME NEW p \in level[0] PROVE Sound(g, q, w, p.edges, p.last)
    <3>1. p.edges = <<>> /\ Listed(<<>>) /\ Len(<<>>) = 0
      BY <1>0, <2>1, NoneListed DEF Roots
    <3> QED
      BY <3>1 DEF Sound
  <2> QED
    BY <2>1
<1>2. ASSUME NEW m \in Nat, m \in T PROVE m + 1 \in T
  <2> SUFFICES ASSUME m + 1 <= K, NEW p \in level[m + 1] PROVE Sound(g, q, w, p.edges, p.last)
    OBVIOUS
  <2>1. m <= K /\ m + 1 \in 1..K /\ (m + 1) - 1 = m
    OBVIOUS
  <2>2. \A x \in level[m] : Sound(g, q, w, x.edges, x.last)
    BY <1>2, <2>1
  <2>3. level[m + 1] = Further(g, q, w, level[m])
    BY <1>0, <2>1
  <2>4. PICK c \in Taken(g, q, w, level[m]) : p = Go(q, c)
    BY <2>3 DEF Further
  <2>5. c[1] \in level[m]
    BY <2>4 DEF Taken, Tried
  <2> QED
    BY <2>2, <2>4, <2>5, GoSound
<1>3. Nat \subseteq T
  <2> HIDE DEF T
  <2> QED
    BY <1>1, <1>2, SetInduction
<1>4. n \in Nat /\ n <= K
  OBVIOUS
<1> HIDE DEF K
<1> QED
  BY <1>3, <1>4 DEF level


\* What a path search expands and what it finds.
Explored(g, q, w, starts) == UNION {Levels(g, q, w, starts)[n] : n \in 0..(q.hops - 1)}
Finding(g, q, w, starts) ==
  {Go(q, c) : c \in {x \in Taken(g, q, w, Explored(g, q, w, starts)) : x[2][Toward(q)] = q.target}}
Listing(p) == [assertions |-> [i \in DOMAIN p.edges |-> p.edges[i].id], elapsed |-> Elapsed(p.edges)]

\* Of every event that is tried it is known whether it is in the window.
Decided(g, q, w, ps) == \A c \in Tried(g, q, ps) : Membership(c[2].time, w) # "indeterminate"

LEMMA PathsReturn ==
  ASSUME NEW g, NEW q, NEW v, Paths(g, q, v).type = "paths"
  PROVE  LET w == Windowed(v, q)
             starts == v[q.input].ids
         IN  /\ Paths(g, q, v).paths = {Listing(p) : p \in Finding(g, q, w, starts)}
             /\ Decided(g, q, w, Explored(g, q, w, starts))
<1> DEFINE w == Windowed(v, q)
           level == Levels(g, q, w, v[q.input].ids)
           expanded == UNION {level[n] : n \in 0..(q.hops - 1)}
           found == {Go(q, c) : c \in {x \in Taken(g, q, w, expanded) : x[2][Toward(q)] = q.target}}
           result == [type |-> "paths", complete |-> TRUE, window |-> w, hops |-> q.hops, rule |-> q.rule,
            paths |-> {[assertions |-> [i \in DOMAIN p.edges |-> p.edges[i].id],
                        elapsed |-> Elapsed(p.edges)] : p \in found},
            inputs |-> {c[2].id : c \in Tried(g, q, expanded)}]
           fails == \/ q.target \notin Ids(g)
                    \/ \E c \in Tried(g, q, expanded) :
                         \/ Membership(c[2].time, w) = "indeterminate"
                         \/ /\ Membership(c[2].time, w) = "inside"
                            /\ \/ c[2][Toward(q)] \notin Ids(g)
                               \/ Misordered(q, c[1], c[2]) /\ c[2].time.upper >= c[1].last
                    \/ Cardinality(UNION {level[n] : n \in 0..q.hops}) > MaxSearch
                    \/ Cardinality(found) > MaxPaths
<1>1. Paths(g, q, v) = IF fails THEN Fail("Incomplete") ELSE result
  BY Zenon DEF Paths
<1>2. Fail("Incomplete").type # "paths"
  BY DEF Fail
<1>3. ~fails
  <2> HIDE DEF fails, result
  <2> QED
    BY <1>1, <1>2
<1>4. Decided(g, q, w, expanded)
  <2> HIDE DEF level, expanded, found, w
  <2> QED
    BY <1>3, Zenon DEF Decided
<1>5. Paths(g, q, v).paths = {Listing(p) : p \in found}
  <2>1. result.paths = {[assertions |-> [i \in DOMAIN p.edges |-> p.edges[i].id],
                        elapsed |-> Elapsed(p.edges)] : p \in found}
    <3> HIDE DEF found, expanded, level, w
    <3> QED
      OBVIOUS
  <2>2. Paths(g, q, v).paths = result.paths
    <3> HIDE DEF fails, result
    <3> QED
      BY <1>1, <1>3
  <2> QED
    BY <2>1, <2>2, Zenon DEF Listing
<1>6. expanded = Explored(g, q, w, v[q.input].ids)
  BY Zenon DEF Explored
<1>7. found = Finding(g, q, w, v[q.input].ids)
  BY <1>6, Zenon DEF Finding
<1> QED
  <2> HIDE DEF found, expanded, level
  <2> QED
    BY <1>4, <1>5, <1>6, <1>7, Zenon

LEMMA SearchArguments ==
  ASSUME NEW r
  PROVE  LET s == Searched(r)
             q == s.args
         IN  /\ s.id = "paths" /\ s.op = "PathSearch" /\ Refs(q) = {"subject", "window"}
             /\ q.input = "subject" /\ q.window = "window" /\ q.target = r.target /\ q.relations = r.relations
             /\ q.hops = r.hops /\ q.rule = r.rule /\ q.direction = r.direction
<1> DEFINE s == Searched(r)  q == s.args
<1>1. /\ s.id = "paths" /\ s.op = "PathSearch" /\ References \cap DOMAIN q = {"input", "window"}
      /\ q.input = "subject" /\ q.window = "window"
  BY DEF Searched, Step, References
<1>2. /\ q.target = r.target /\ q.relations = r.relations
      /\ q.hops = r.hops /\ q.rule = r.rule /\ q.direction = r.direction
  BY DEF Searched, Step
<1> HIDE DEF s, q
<1>3. Refs(q) = {"subject", "window"}
  BY <1>1 DEF Refs
<1> QED
  BY <1>1, <1>2, <1>3 DEF s, q

\* The value of the search in the plan of a path request.
LEMMA SearchValue ==
  ASSUME IInv, Executed({"path"})
  PROVE  LET q == Searched(request).args
             w == request.window
             starts == {request.identifier}
         IN  /\ IsRequest(request) /\ frozen \in Graphs
             /\ execution.values["paths"].paths = {Listing(p) : p \in Finding(frozen, q, w, starts)}
             /\ Decided(frozen, q, w, Explored(frozen, q, w, starts))
<1> DEFINE pool == execution.values
           r == request
           s == Searched(r)
<1>1. Pooled(frozen, r, pool) /\ IsRequest(r) /\ frozen \in Graphs
  BY ExecutedPool DEF Executed
<1>2. s \in StepSet(r) /\ Asked(r) \in StepSet(r)
  BY DEF StepSet, FamilySteps, Executed
<1>3. s.id = "paths" /\ s.op = "PathSearch" /\ Asked(r).id = "window" /\ Asked(r).op = "NormalizeTime"
      /\ Asked(r).args.period = r.window
  BY StepIds, SearchArguments
<1>4. IsStep(s) /\ Performed(frozen, s, pool) /\ Performed(frozen, Asked(r), pool)
  BY <1>1, <1>2 DEF Pooled
<1>5. s.args.input = "subject" /\ s.args.window = "window" /\ Refs(s.args) = {"subject", "window"}
  BY SearchArguments
<1>6. pool["window"].period = r.window
  BY <1>3, <1>4, NormalizedValue
<1>7. pool["subject"].ids = {r.identifier}
  BY SubjectValue DEF Executed
<1>8. PICK v, k : /\ Readable(s, v) /\ pool[s.id] = Perform(frozen, s, v, k)
                  /\ Perform(frozen, s, v, k).type = Binding(s) /\ \A x \in Refs(s.args) : v[x] = pool[x]
  BY <1>4 DEF Performed
<1>9. pool["paths"] = Paths(frozen, s.args, v) /\ Paths(frozen, s.args, v).type = "paths"
  BY <1>3, <1>8, PerformsBy
<1>10. Windowed(v, s.args) = r.window /\ v[s.args.input].ids = {r.identifier}
  <2> HIDE DEF pool, s
  <2> QED
    BY <1>5, <1>6, <1>7, <1>8 DEF Windowed
<1>11. /\ Paths(frozen, s.args, v).paths =
            {Listing(p) : p \in Finding(frozen, s.args, Windowed(v, s.args), v[s.args.input].ids)}
       /\ Decided(frozen, s.args, Windowed(v, s.args), Explored(frozen, s.args, Windowed(v, s.args), v[s.args.input].ids))
  <2> DEFINE q == s.args
  <2>1. Paths(frozen, q, v).type = "paths"
    BY <1>9
  <2> HIDE DEF q
  <2> QED
    BY <2>1, PathsReturn, Zenon DEF q
<1>12. pool["paths"].paths = {Listing(p) : p \in Finding(frozen, s.args, r.window, {r.identifier})}
  <2> HIDE DEF pool, s, r
  <2> QED
    BY <1>9, <1>10, <1>11
<1>13. Decided(frozen, s.args, r.window, Explored(frozen, s.args, r.window, {r.identifier}))
  <2> HIDE DEF pool, s, r
  <2> QED
    BY <1>10, <1>11
<1> QED
  BY <1>1, <1>12, <1>13


LEMMA FoundSound ==
  ASSUME NEW g \in Graphs, NEW q, NEW w, NEW starts, q.hops \in Nat, NEW p \in Finding(g, q, w, starts)
  PROVE  Sound(g, q, w, p.edges, p.last) /\ Len(p.edges) \in Nat \ {0}
<1> DEFINE expanded == Explored(g, q, w, starts)
<1>1. PICK c \in Taken(g, q, w, expanded) : p = Go(q, c)
  BY DEF Finding
<1>2. c[1] \in expanded
  BY <1>1 DEF Taken, Tried
<1>3. PICK n \in 0..(q.hops - 1) : c[1] \in Levels(g, q, w, starts)[n]
  BY <1>2 DEF Explored
<1>4. n \in 0..q.hops
  BY <1>3
<1>5. Sound(g, q, w, c[1].edges, c[1].last)
  BY <1>3, <1>4, LevelsSound
<1> HIDE DEF expanded
<1>6. Sound(g, q, w, p.edges, p.last) /\ Len(p.edges) = Len(c[1].edges) + 1
  BY <1>1, <1>5, GoSound
<1>7. Len(c[1].edges) \in Nat
  BY <1>5, ListedFacts DEF Sound
<1> QED
  BY <1>6, <1>7

\* On whatever days its events were, a sound path is in the window and in
\* order, and its elapsed days bound the true ones.
LEMMA SoundThroughout ==
  ASSUME NEW g \in Graphs, NEW q, NEW w, w.start \in Int, w.end \in Int, NEW es, NEW last,
         Sound(g, q, w, es, last), NEW n \in Nat \ {0}, Len(es) = n, NEW d,
         \A i \in 1..n : d[i] \in Possible(es[i].time, Days)
  PROVE  /\ \A i \in 1..n : In(d[i], w)
         /\ q.rule = "nondecreasing" =>
              /\ \A i, j \in 1..n : i < j => d[i] <= d[j]
              /\ Elapsed(es)[1] <= d[n] - d[1] /\ (d[n] - d[1] <= Elapsed(es)[2] \/ n = 1)
<1>1. ASSUME NEW i \in 1..n
      PROVE  /\ es[i] \in g.assertions /\ Membership(es[i].time, w) = "inside" /\ IsRange(es[i].time)
             /\ d[i] \in Int /\ es[i].time.lower \in Int /\ es[i].time.upper \in Int
             /\ es[i].time.lower <= d[i] /\ d[i] <= es[i].time.upper /\ In(d[i], w)
  <2>1. es[i] \in g.assertions /\ Membership(es[i].time, w) = "inside"
    BY DEF Sound
  <2>2. IsRange(es[i].time)
    BY <2>1, EndPoints
  <2>3. /\ Known(es[i].time.lower) /\ Known(es[i].time.upper)
        /\ es[i].time.lower \in Int /\ es[i].time.upper \in Int
    BY <2>1, InsideBounds
  <2>4. d[i] \in Possible(es[i].time, Days)
    OBVIOUS
  <2>5. d[i] \in Int /\ es[i].time.lower <= d[i] /\ d[i] <= es[i].time.upper
    BY <2>2, <2>3, <2>4, PossibleBounds
  <2>6. In(d[i], w)
    BY <2>1, <2>2, <2>4, WithinBounds
  <2> QED
    BY <2>1, <2>2, <2>3, <2>5, <2>6
<1>2. ASSUME q.rule = "nondecreasing", NEW i \in 1..n, NEW j \in 1..n, i < j PROVE d[i] <= d[j]
  <2>1. es[i].time.upper <= es[j].time.lower
    BY <1>2 DEF Sound
  <2> DEFINE iu == es[i].time.upper  jl == es[j].time.lower  di == d[i]  dj == d[j]
  <2>2. iu \in Int /\ jl \in Int /\ di \in Int /\ dj \in Int /\ di <= iu /\ jl <= dj /\ iu <= jl
    BY <1>1, <2>1
  <2> HIDE DEF iu, jl, di, dj
  <2>3. di <= dj
    BY <2>2
  <2> QED
    BY <2>3 DEF di, dj
<1>3. ASSUME q.rule = "nondecreasing"
      PROVE  Elapsed(es)[1] <= d[n] - d[1] /\ (d[n] - d[1] <= Elapsed(es)[2] \/ n = 1)
  <2> DEFINE au == es[1].time.upper  al == es[1].time.lower  bu == es[n].time.upper  bl == es[n].time.lower
             x == d[1]  y == d[n]
  <2>1. 1 \in 1..n /\ n \in 1..n
    OBVIOUS
  <2>2. /\ au \in Int /\ al \in Int /\ bu \in Int /\ bl \in Int /\ x \in Int /\ y \in Int
        /\ al <= x /\ x <= au /\ bl <= y /\ y <= bu
    BY <1>1, <2>1
  <2>3. CASE n = 1
    <3>1. Elapsed(es) = <<0, 0>>
      BY <2>3 DEF Elapsed
    <3>2. y = x
      BY <2>3
    <3> HIDE DEF x, y
    <3>3. 0 <= y - x
      BY <2>2, <3>2
    <3>4. Elapsed(es)[1] <= y - x
      BY <3>1, <3>3
    <3> QED
      BY <2>3, <3>4 DEF x, y
  <2>4. CASE n # 1
    <3> DEFINE from(z) == IF z > 0 THEN z ELSE 0
    <3>1. Elapsed(es) = <<from(bl - au), from(bu - al)>>
      BY <2>4 DEF Elapsed
    <3>2. x <= y
      <4>1. 1 < n
        BY <2>4
      <4> QED
        BY <1>2, <1>3, <2>1, <4>1
    <3> HIDE DEF au, al, bu, bl, x, y
    <3>3. from(bl - au) <= y - x /\ y - x <= from(bu - al)
      BY <2>2, <3>2
    <3> HIDE DEF from
    <3>4. Elapsed(es)[1] <= y - x /\ y - x <= Elapsed(es)[2]
      BY <3>1, <3>3
    <3> QED
      BY <3>4 DEF x, y
  <2> QED
    BY <2>3, <2>4
<1> QED
  BY <1>1, <1>2, <1>3


\* The events of a path held so that they are in the window and, if they have to be, in order.
HoldsOn(q, w, d) ==
  /\ \A i \in DOMAIN d : In(d[i], w)
  /\ q.rule = "nondecreasing" => Ordered(d)

LEMMA SaidSound ==
  ASSUME NEW g \in Graphs, NEW q, NEW w, w.start \in Int, w.end \in Int, NEW starts, q.hops \in Nat,
         NEW p \in Finding(g, q, w, starts), NEW x, x = Listing(p), NEW path,
         path = [i \in DOMAIN x.assertions |-> CHOOSE a \in g.assertions : a.id = x.assertions[i]],
         NEW d \in Worlds(path)
  PROVE  /\ HoldsOn(q, w, d)
         /\ q.rule = "nondecreasing" =>
              x.elapsed[1] <= d[Len(d)] - d[1] /\ (d[Len(d)] - d[1] <= x.elapsed[2] \/ Len(d) = 1)
<1> DEFINE es == p.edges
           n == Len(es)
<1>1. Sound(g, q, w, es, p.last) /\ n \in Nat \ {0}
  BY FoundSound
<1>2. DOMAIN es = 1..n
  BY <1>1, ListedFacts DEF Sound
<1>3. /\ x.assertions = [i \in 1..n |-> es[i].id] /\ x.elapsed = Elapsed(es)
  BY <1>2 DEF Listing
<1> HIDE DEF es, n
<1>4. DOMAIN x.assertions = 1..n /\ DOMAIN path = 1..n
  BY <1>3
<1>5. ASSUME NEW i \in 1..n PROVE path[i] = es[i]
  <2>1. es[i] \in g.assertions
    BY <1>1 DEF Sound, n, es
  <2>2. x.assertions[i] = es[i].id
    BY <1>3
  <2>3. path[i] = CHOOSE a \in g.assertions : a.id = es[i].id
    BY <1>4, <2>2
  <2>4. \A a, b \in g.assertions : a.id = b.id => a = b
    BY GraphsAssumption DEF IsGraph
  <2> QED
    BY <2>1, <2>3, <2>4
<1>6. d \in [1..n -> Days] /\ \A i \in 1..n : d[i] \in Possible(path[i].time, Days)
  BY <1>4 DEF Worlds
<1>7. \A i \in 1..n : d[i] \in Possible(es[i].time, Days)
  BY <1>5, <1>6
<1>8. DOMAIN d = 1..n /\ d = [i \in 1..n |-> d[i]]
  BY <1>6
<1>9. Len(d) = n
  BY <1>1, <1>8, ListedFunction
<1>10. /\ \A i \in 1..n : In(d[i], w)
       /\ q.rule = "nondecreasing" =>
            /\ \A i, j \in 1..n : i < j => d[i] <= d[j]
            /\ Elapsed(es)[1] <= d[n] - d[1] /\ (d[n] - d[1] <= Elapsed(es)[2] \/ n = 1)
  <2>1. Len(es) = n /\ Sound(g, q, w, es, p.last)
    BY <1>1 DEF n
  <2> QED
    BY <1>1, <1>7, <2>1, SoundThroughout
<1> QED
  BY <1>3, <1>8, <1>9, <1>10 DEF HoldsOn, Ordered

-----------------------------------------------------------------------------
\* A walk of which it is certain that it is in the window and in order is found.

\* s is a walk of n edges from start.
Walked(g, q, start, s, n) ==
  /\ n \in 1..q.hops /\ \A i \in 1..n : s[i] \in g.assertions /\ s[i].relation \in q.relations
  /\ s[1][Origin(q)] = start /\ s[n][Toward(q)] = q.target
  /\ \A i \in 1..(n - 1) : /\ s[i][Toward(q)] = s[i + 1][Origin(q)]
                           /\ s[i][Toward(q)] \notin {q.target} \cup {s[j][Origin(q)] : j \in 1..i}

\* It is certainly in the window, and in order if it has to be.
Certainly(q, w, s, n) ==
  \A d \in [1..n -> Days] : (\A i \in 1..n : d[i] \in Possible(s[i].time, Days)) =>
     /\ \A i \in 1..n : In(d[i], w)
     /\ q.rule = "nondecreasing" => \A i, j \in 1..n : i < j => d[i] <= d[j]


\* A day that an event may have been on.
SomeDay(t) == IF Known(t.lower) THEN t.lower ELSE IF Known(t.upper) THEN t.upper ELSE CHOOSE d \in Days : TRUE

\* The bounds of an assertion are among its days, and there is always a day.
LEMMA DaysOf ==
  ASSUME NEW g \in Graphs, NEW a \in g.assertions
  PROVE  LET t == a.time IN
         /\ IsRange(t)
         /\ Known(t.lower) => t.lower \in Possible(t, Days)
         /\ Known(t.upper) => t.upper \in Possible(t, Days)
         /\ Days # {} => SomeDay(t) \in Possible(t, Days)
         /\ \A w : Membership(t, w) # "indeterminate" => Days # {}
<1> DEFINE t == a.time
<1>1. IsRange(t) /\ {t.lower, t.upper} \ {NoDay} \subseteq Days
  BY EndPoints, DaysAssumption
<1> HIDE DEF t
<1>2. /\ Known(t.lower) => t.lower \in Days /\ t.lower \in Int
      /\ Known(t.upper) => t.upper \in Days /\ t.upper \in Int
      /\ Known(t.lower) /\ Known(t.upper) => t.lower <= t.upper
  BY <1>1 DEF IsRange, Valid, Known
<1>3. Known(t.lower) => t.lower \in Possible(t, Days)
  BY <1>2 DEF Possible, After, Before
<1>4. Known(t.upper) => t.upper \in Possible(t, Days)
  BY <1>2 DEF Possible, After, Before
<1>5. ~Known(t.lower) /\ ~Known(t.upper) => Possible(t, Days) = Days
  BY DEF Possible, After, Before
<1>6. Days # {} => SomeDay(t) \in Possible(t, Days)
  BY <1>3, <1>4, <1>5 DEF SomeDay
<1>7. ASSUME NEW w, Membership(t, w) # "indeterminate" PROVE Days # {}
  <2>1. Known(t.lower) \/ Known(t.upper)
    BY <1>7 DEF Membership, Before, After, Bounded
  <2> QED
    BY <1>2, <2>1
<1> QED
  BY <1>1, <1>3, <1>4, <1>6, <1>7 DEF t

LEMMA CertainInside ==
  ASSUME NEW g \in Graphs, NEW q, NEW w, w.start \in Int, w.end \in Int, NEW n \in Nat, NEW s,
         \A i \in 1..n : s[i] \in g.assertions, Certainly(q, w, s, n),
         NEW k \in 1..n, Membership(s[k].time, w) # "indeterminate"
  PROVE  Membership(s[k].time, w) = "inside"
<1> DEFINE d == [i \in 1..n |-> SomeDay(s[i].time)]
<1>1. Days # {}
  BY DaysOf
<1>2. ASSUME NEW i \in 1..n PROVE d[i] \in Possible(s[i].time, Days) /\ d[i] \in Days
  <2>1. SomeDay(s[i].time) \in Possible(s[i].time, Days)
    BY <1>1, DaysOf
  <2> QED
    BY <2>1 DEF Possible
<1>3. d \in [1..n -> Days]
  BY <1>2
<1> HIDE DEF d
<1>4. In(d[k], w)
  BY <1>2, <1>3 DEF Certainly
<1>5. IsRange(s[k].time)
  BY DaysOf
<1>6. Membership(s[k].time, w) # "outside"
  BY <1>2, <1>4, <1>5, WithinBounds
<1>7. Membership(s[k].time, w) \in {"outside", "inside", "indeterminate"}
  BY DEF Membership
<1> QED
  BY <1>6, <1>7

LEMMA CertainOrder ==
  ASSUME NEW g \in Graphs, NEW q, NEW w, q.rule = "nondecreasing", NEW n \in Nat, NEW s,
         \A i \in 1..n : s[i] \in g.assertions, Certainly(q, w, s, n), NEW k \in 1..n, k + 1 \in 1..n,
         Membership(s[k].time, w) = "inside", Membership(s[k + 1].time, w) = "inside"
  PROVE  s[k].time.upper <= s[k + 1].time.lower
<1> DEFINE d == [i \in 1..n |-> IF i = k THEN s[k].time.upper ELSE IF i = k + 1 THEN s[k + 1].time.lower
                                ELSE SomeDay(s[i].time)]
<1>1. Known(s[k].time.upper) /\ Known(s[k + 1].time.lower) /\ Days # {}
  BY InsideBounds, DaysOf
<1>2. s[k].time.upper \in Possible(s[k].time, Days) /\ s[k + 1].time.lower \in Possible(s[k + 1].time, Days)
  BY <1>1, DaysOf
<1>3. ASSUME NEW i \in 1..n PROVE d[i] \in Possible(s[i].time, Days) /\ d[i] \in Days
  <2>1. SomeDay(s[i].time) \in Possible(s[i].time, Days)
    BY <1>1, DaysOf
  <2>2. d[i] \in Possible(s[i].time, Days)
    BY <1>2, <2>1
  <2> QED
    BY <2>2 DEF Possible
<1>4. d \in [1..n -> Days]
  BY <1>3
<1>5. d[k] = s[k].time.upper /\ d[k + 1] = s[k + 1].time.lower /\ k < k + 1
  BY k # k + 1
<1> HIDE DEF d
<1>6. d[k] <= d[k + 1]
  BY <1>3, <1>4, <1>5 DEF Certainly
<1> QED
  BY <1>5, <1>6


\* p is where the search is after the first k edges of the walk s.
Follows(q, w, s, k, p) ==
  /\ Listed(p.edges) /\ Len(p.edges) = k /\ \A i \in 1..k : p.edges[i] = s[i]
  /\ p.at = s[k + 1][Origin(q)] /\ p.through = {s[j][Origin(q)] : j \in 1..(k + 1)}
  /\ p.last = IF k = 0 THEN NoDay ELSE s[k].time.upper
  /\ k > 0 => Membership(s[k].time, w) = "inside"

\* The search takes the next edge.
LEMMA TakesNext ==
  ASSUME NEW g \in Graphs, NEW q, NEW w, w.start \in Int, w.end \in Int, NEW start, NEW s, NEW n \in Nat,
         Walked(g, q, start, s, n), Certainly(q, w, s, n), NEW k \in 0..(n - 1), NEW ps, NEW p \in ps,
         Follows(q, w, s, k, p), Decided(g, q, w, ps)
  PROVE  <<p, s[k + 1]>> \in Taken(g, q, w, ps) /\ Membership(s[k + 1].time, w) = "inside"
<1> DEFINE a == s[k + 1]
           c == <<p, a>>
<1>1. k + 1 \in 1..n /\ \A i \in 1..n : s[i] \in g.assertions
  BY DEF Walked
<1>2. a \in g.assertions /\ a.relation \in q.relations /\ a[Origin(q)] = p.at
  BY <1>1 DEF Walked, Follows
<1>3. c[1] = p /\ c[2] = a
  OBVIOUS
<1> HIDE DEF c
<1>4. c \in Tried(g, q, ps)
  <2>1. c \in ps \X {b \in g.assertions : b.relation \in q.relations}
    BY <1>2 DEF c
  <2> QED
    BY <1>2, <1>3, <2>1 DEF Tried
<1>5. Membership(a.time, w) # "indeterminate"
  BY <1>3, <1>4 DEF Decided
<1>6. Membership(a.time, w) = "inside"
  BY <1>1, <1>5, CertainInside
<1>7. ~Misordered(q, p, a)
  <2>1. CASE q.rule # "nondecreasing" \/ k = 0
    BY <2>1 DEF Misordered, OutOfOrder, Follows, Known
  <2>2. CASE q.rule = "nondecreasing" /\ k # 0
    <3>1. k \in 1..n /\ p.last = s[k].time.upper /\ Membership(s[k].time, w) = "inside"
      BY <1>1, <2>2 DEF Follows
    <3>2. s[k].time.upper <= a.time.lower
      BY <1>1, <1>6, <2>2, <3>1, CertainOrder
    <3>3. s[k].time.upper \in Int /\ a.time.lower \in Int
      BY <1>1, <1>6, <3>1, InsideBounds
    <3>4. ~(a.time.lower < p.last)
      BY <3>1, <3>2, <3>3
    <3> QED
      BY <3>4 DEF Misordered, OutOfOrder
  <2> QED
    BY <2>1, <2>2
<1>8. c \in Taken(g, q, w, ps)
  BY <1>3, <1>4, <1>6, <1>7 DEF Taken
<1> QED
  BY <1>6, <1>8 DEF c

\* So it is after all of its first edges, in turn.
LEMMA FollowsOn ==
  ASSUME NEW g \in Graphs, NEW q, NEW w, w.start \in Int, w.end \in Int, NEW start, NEW s, NEW n \in Nat,
         q.hops \in Nat, Walked(g, q, start, s, n), Certainly(q, w, s, n),
         Decided(g, q, w, Explored(g, q, w, {start})),
         NEW k \in 0..(n - 1)
  PROVE  \E p \in Levels(g, q, w, {start})[k] : Follows(q, w, s, k, p)
<1> DEFINE level == Levels(g, q, w, {start})
           K == n - 1
           T == {m \in Nat : m <= K => \E p \in level[m] : Follows(q, w, s, m, p)}
<1>0. level[0] = Roots({start}) /\ \A m \in 1..q.hops : level[m] = Further(g, q, w, level[m - 1])
  BY LevelsAre
<1>1. n \in 1..q.hops
  BY DEF Walked
<1>2. ASSUME NEW m \in 0..(q.hops - 1) PROVE Decided(g, q, w, level[m])
  <2>1. level[m] \subseteq Explored(g, q, w, {start})
    BY DEF Explored
  <2> HIDE DEF level
  <2>2. Tried(g, q, level[m]) \subseteq Tried(g, q, Explored(g, q, w, {start}))
    BY <2>1 DEF Tried
  <2> QED
    BY <2>2 DEF Decided
<1> HIDE DEF level
<1>3. 0 \in T
  <2> DEFINE p == [at |-> start, edges |-> <<>>, through |-> {start}, last |-> NoDay]
  <2>1. p \in level[0]
    BY <1>0 DEF Roots
  <2>2. Listed(<<>>) /\ Len(<<>>) = 0
    BY NoneListed
  <2>3. s[1][Origin(q)] = start
    BY DEF Walked
  <2>4. p.through = {s[j][Origin(q)] : j \in 1..1}
    <3>1. 1..1 = {1}
      OBVIOUS
    <3> QED
      BY <2>3, <3>1
  <2>5. Follows(q, w, s, 0, p)
    BY <2>2, <2>3, <2>4 DEF Follows
  <2> QED
    BY <2>1, <2>5
<1>4. ASSUME NEW m \in Nat, m \in T PROVE m + 1 \in T
  <2> SUFFICES ASSUME m + 1 <= K PROVE \E p \in level[m + 1] : Follows(q, w, s, m + 1, p)
    OBVIOUS
  <2>1. m \in 0..(n - 1) /\ m \in 0..(q.hops - 1) /\ m + 1 \in 1..q.hops /\ m + 1 \in 1..(n - 1)
        /\ (m + 1) - 1 = m /\ m <= K
    BY <1>1
  <2>2. PICK p \in level[m] : Follows(q, w, s, m, p)
    BY <1>4, <2>1
  <2> DEFINE a == s[m + 1]
             c == <<p, a>>
             x == Go(q, c)
             to == a[Toward(q)]
  <2>3. c \in Taken(g, q, w, level[m]) /\ Membership(a.time, w) = "inside"
    BY <1>2, <2>1, <2>2, TakesNext
  <2>4. to = s[(m + 1) + 1][Origin(q)] /\ to \notin {q.target} \cup {s[j][Origin(q)] : j \in 1..(m + 1)}
    BY <2>1 DEF Walked
  <2>5. to \notin {q.target} \cup p.through
    BY <2>2, <2>4 DEF Follows
  <2>6. c[1] = p /\ c[2] = a
    OBVIOUS
  <2>7. x \in level[m + 1]
    <3>1. level[m + 1] = Further(g, q, w, level[m])
      BY <1>0, <2>1
    <3> HIDE DEF c, a
    <3> QED
      BY <2>3, <2>5, <2>6, <3>1 DEF Further, to
  <2>8. /\ x.at = to /\ x.edges = Append(p.edges, a) /\ x.through = p.through \cup {to} /\ x.last = a.time.upper
    BY DEF Go
  <2> HIDE DEF x, c
  <2>9. Listed(p.edges) /\ Len(p.edges) = m /\ \A i \in 1..m : p.edges[i] = s[i]
    BY <2>2 DEF Follows
  <2>10. /\ Listed(x.edges) /\ Len(x.edges) = m + 1 /\ x.edges[m + 1] = a
         /\ \A i \in 1..m : x.edges[i] = p.edges[i]
    BY <2>8, <2>9, AppendFacts
  <2>11. \A i \in 1..(m + 1) : x.edges[i] = s[i]
    <3>1. \A i \in 1..(m + 1) : i = m + 1 \/ i \in 1..m
      OBVIOUS
    <3> QED
      BY <2>9, <2>10, <3>1
  <2>12. x.through = {s[j][Origin(q)] : j \in 1..((m + 1) + 1)}
    <3>1. p.through = {s[j][Origin(q)] : j \in 1..(m + 1)}
      BY <2>2 DEF Follows
    <3>2. 1..((m + 1) + 1) = 1..(m + 1) \cup {(m + 1) + 1}
      OBVIOUS
    <3> HIDE DEF to
    <3> QED
      BY <2>4, <2>8, <3>1, <3>2
  <2>13. m + 1 # 0 /\ (m + 1 > 0)
    OBVIOUS
  <2>14. Follows(q, w, s, m + 1, x)
    BY <2>3, <2>4, <2>8, <2>10, <2>11, <2>12, <2>13 DEF Follows
  <2> QED
    BY <2>7, <2>14
<1>5. Nat \subseteq T
  <2> HIDE DEF T
  <2> QED
    BY <1>3, <1>4, SetInduction
<1>6. k \in Nat /\ k <= K
  OBVIOUS
<1> HIDE DEF K
<1> QED
  BY <1>5, <1>6 DEF level

\* A certain walk, and a search that decided all it tried.
CertainWalk(g, q, w, start, s, n) ==
  Walked(g, q, start, s, n) /\ Certainly(q, w, s, n) /\ Decided(g, q, w, Explored(g, q, w, {start}))

Finds(g, q, w, start, s, n) ==
  \E p \in Finding(g, q, w, {start}) : Listing(p).assertions = [i \in 1..n |-> s[i].id]

\* The walk is found.
LEMMA CertainFound ==
  ASSUME NEW g \in Graphs, NEW q, NEW w, w.start \in Int, w.end \in Int, NEW start, NEW s, NEW n \in Nat,
         q.hops \in Nat, CertainWalk(g, q, w, start, s, n)
  PROVE  Finds(g, q, w, start, s, n)
<1> DEFINE expanded == Explored(g, q, w, {start})
           K == n - 1
<1>0. Walked(g, q, start, s, n) /\ Certainly(q, w, s, n) /\ Decided(g, q, w, expanded)
  BY DEF CertainWalk
<1>1. n \in 1..q.hops
  BY <1>0 DEF Walked
<1>2. K \in 0..(n - 1) /\ K \in 0..(q.hops - 1) /\ K + 1 = n /\ K \in Nat
  BY <1>1
<1>3. PICK p \in Levels(g, q, w, {start})[K] : Follows(q, w, s, K, p)
  BY <1>0, <1>2, FollowsOn
<1>4. p \in expanded
  BY <1>2, <1>3 DEF Explored
<1> HIDE DEF expanded, K
<1> DEFINE a == s[n]
           c == <<p, a>>
           x == Go(q, c)
<1>5. c \in Taken(g, q, w, expanded)
  <2>1. <<p, s[K + 1]>> \in Taken(g, q, w, expanded)
    BY <1>0, <1>2, <1>3, <1>4, TakesNext
  <2> QED
    BY <1>2, <2>1
<1>6. c[1] = p /\ c[2] = a /\ a[Toward(q)] = q.target
  BY <1>0 DEF Walked
<1>7. x.edges = Append(p.edges, a)
  BY DEF Go
<1>8. x \in Finding(g, q, w, {start})
  <2> HIDE DEF c, a
  <2> QED
    BY <1>5, <1>6 DEF Finding, expanded
<1> HIDE DEF x, c
<1>9. Listed(p.edges) /\ Len(p.edges) = K /\ \A i \in 1..K : p.edges[i] = s[i]
  BY <1>3 DEF Follows
<1>10. /\ Listed(x.edges) /\ Len(x.edges) = K + 1 /\ x.edges[K + 1] = a
       /\ \A i \in 1..K : x.edges[i] = p.edges[i]
  BY <1>7, <1>9, AppendFacts
<1>11. DOMAIN x.edges = 1..n
  BY <1>2, <1>10, ListedFacts
<1>12. \A i \in 1..n : x.edges[i] = s[i]
  <2>1. \A i \in 1..n : i = K + 1 \/ i \in 1..K
    BY <1>2
  <2> QED
    BY <1>2, <1>9, <1>10, <2>1
<1>13. Listing(x).assertions = [i \in 1..n |-> s[i].id]
  BY <1>11, <1>12 DEF Listing
<1> QED
  BY <1>8, <1>13 DEF Finds


LEMMA WalksWalked ==
  ASSUME NEW q, q = Searched(request).args, IsRequest(request), NEW s \in Walks
  PROVE  \E n \in Nat : /\ Walked(frozen, q, request.identifier, s, n) /\ DOMAIN s = 1..n
                        /\ \A d \in [1..n -> Days] : (\A i \in 1..n : d[i] \in Possible(s[i].time, Days)) => d \in Worlds(s)
<1> DEFINE edges == {a \in frozen.assertions : a.relation \in request.relations}
           from(a) == IF request.direction = "out" THEN a.head ELSE a.tail
           to(a) == IF request.direction = "out" THEN a.tail ELSE a.head
<1>1. /\ s \in UNION {[1..n -> edges] : n \in 1..request.hops}
      /\ from(s[1]) = request.identifier /\ to(s[Len(s)]) = request.target
      /\ \A i \in 1..(Len(s) - 1) :
           to(s[i]) = from(s[i + 1]) /\ to(s[i]) \notin {request.target} \cup {from(s[j]) : j \in 1..i}
  BY DEF Walks
<1>2. PICK n \in 1..request.hops : s \in [1..n -> edges]
  BY <1>1
<1>3. n \in Nat /\ n \in 1..q.hops
  BY <1>2, SearchArguments DEF IsRequest
<1>4. DOMAIN s = 1..n /\ s = [i \in 1..n |-> s[i]]
  BY <1>2
<1>5. Len(s) = n
  BY <1>3, <1>4, ListedFunction
<1>6. q.relations = request.relations /\ q.target = request.target /\ q.direction = request.direction
  BY SearchArguments
<1>7. \A i \in 1..n : s[i] \in frozen.assertions /\ s[i].relation \in q.relations
  BY <1>2, <1>6
<1>8. \A a : from(a) = a[Origin(q)] /\ to(a) = a[Toward(q)]
  BY <1>6 DEF Origin, Toward
<1> HIDE DEF from, to, edges
<1>9. Walked(frozen, q, request.identifier, s, n)
  <2>1. s[1][Origin(q)] = request.identifier /\ s[n][Toward(q)] = q.target
    BY <1>1, <1>5, <1>6, <1>8
  <2>2. ASSUME NEW i \in 1..(n - 1)
        PROVE  s[i][Toward(q)] = s[i + 1][Origin(q)] /\ s[i][Toward(q)] \notin {q.target} \cup {s[j][Origin(q)] : j \in 1..i}
    <3>1. to(s[i]) = from(s[i + 1]) /\ to(s[i]) \notin {request.target} \cup {from(s[j]) : j \in 1..i}
      BY <1>1, <1>5
    <3>2. {from(s[j]) : j \in 1..i} = {s[j][Origin(q)] : j \in 1..i}
      BY <1>8
    <3> QED
      BY <1>6, <1>8, <3>1, <3>2
  <2> QED
    BY <1>3, <1>7, <2>1, <2>2 DEF Walked
<1>10. ASSUME NEW d \in [1..n -> Days], \A i \in 1..n : d[i] \in Possible(s[i].time, Days) PROVE d \in Worlds(s)
  BY <1>4, <1>10 DEF Worlds
<1> QED
  BY <1>3, <1>4, <1>9, <1>10

\* A listed path is in the window and in order on whatever days its events
\* were, and a walk of which that is certain is listed (PathsSound).
THEOREM PathsAlwaysSound == Spec => []PathsSound
<1>1. IInv => PathsSound
  <2> SUFFICES ASSUME IInv, Executed({"path"}) PROVE PathsSound
    BY DEF PathsSound
  <2> DEFINE q == Searched(request).args
             w == request.window
             result == execution.values["paths"]
             start == request.identifier
             holds(path, d) == /\ \A i \in DOMAIN d : In(d[i], request.window)
                               /\ request.rule = "nondecreasing" => Ordered(d)
  <2>1. /\ IsRequest(request) /\ frozen \in Graphs
        /\ result.paths = {Listing(p) : p \in Finding(frozen, q, w, {start})}
        /\ Decided(frozen, q, w, Explored(frozen, q, w, {start}))
    BY SearchValue
  <2>2. w.start \in Int /\ w.end \in Int /\ q.hops \in Nat /\ q.rule = request.rule
    BY <2>1, SearchArguments DEF IsRequest, IsWindow
  <2> HIDE DEF q, w, result, start
  <2>3. \A path, d : holds(path, d) <=> HoldsOn(q, w, d)
    BY <2>2 DEF HoldsOn, w
  <2> HIDE DEF holds
  <2>4. ASSUME NEW x \in result.paths,
               NEW d \in Worlds([i \in DOMAIN x.assertions |-> Assertion(x.assertions[i])])
        PROVE  /\ HoldsOn(q, w, d)
               /\ request.rule = "nondecreasing" =>
                    x.elapsed[1] <= d[Len(d)] - d[1] /\ (d[Len(d)] - d[1] <= x.elapsed[2] \/ Len(d) = 1)
    <3>1. PICK p \in Finding(frozen, q, w, {start}) : x = Listing(p)
      BY <2>1
    <3> DEFINE path == [i \in DOMAIN x.assertions |-> Assertion(x.assertions[i])]
    <3>2. path = [i \in DOMAIN x.assertions |-> CHOOSE a \in frozen.assertions : a.id = x.assertions[i]]
      BY DEF Assertion
    <3>3. d \in Worlds(path)
      OBVIOUS
    <3> HIDE DEF path
    <3> QED
      BY <2>1, <2>2, <3>1, <3>2, <3>3, SaidSound
  <2>5. ASSUME NEW s \in Walks, \A d \in Worlds(s) : HoldsOn(q, w, d)
        PROVE  \E x \in result.paths : x.assertions = [i \in DOMAIN s |-> s[i].id]
    <3>1. PICK n \in Nat :
            /\ Walked(frozen, q, start, s, n) /\ DOMAIN s = 1..n
            /\ \A d \in [1..n -> Days] : (\A i \in 1..n : d[i] \in Possible(s[i].time, Days)) => d \in Worlds(s)
      BY <2>1, WalksWalked DEF q, start
    <3>2. Certainly(q, w, s, n)
      <4> SUFFICES ASSUME NEW d \in [1..n -> Days], \A i \in 1..n : d[i] \in Possible(s[i].time, Days)
                   PROVE  /\ \A i \in 1..n : In(d[i], w)
                          /\ q.rule = "nondecreasing" => \A i, j \in 1..n : i < j => d[i] <= d[j]
        BY DEF Certainly
      <4>1. HoldsOn(q, w, d) /\ DOMAIN d = 1..n
        BY <2>5, <3>1
      <4> QED
        BY <4>1 DEF HoldsOn, Ordered
    <3>3. PICK p \in Finding(frozen, q, w, {start}) : Listing(p).assertions = [i \in 1..n |-> s[i].id]
      <4>1. /\ frozen \in Graphs /\ w.start \in Int /\ w.end \in Int /\ q.hops \in Nat /\ n \in Nat
        BY <2>1, <2>2, <3>1
      <4>2. CertainWalk(frozen, q, w, start, s, n)
        BY <2>1, <3>1, <3>2 DEF CertainWalk
      <4>3. Finds(frozen, q, w, start, s, n)
        BY <4>1, <4>2, CertainFound
      <4> QED
        BY <4>3 DEF Finds
    <3> QED
      BY <2>1, <3>1, <3>3
  <2>6. ASSUME NEW x \in result.paths
        PROVE  \A d \in Worlds([i \in DOMAIN x.assertions |-> Assertion(x.assertions[i])]) :
                 /\ holds([i \in DOMAIN x.assertions |-> Assertion(x.assertions[i])], d)
                 /\ request.rule = "nondecreasing" =>
                      x.elapsed[1] <= d[Len(d)] - d[1] /\ (d[Len(d)] - d[1] <= x.elapsed[2] \/ Len(d) = 1)
    BY <2>3, <2>4, Zenon
  <2>7. ASSUME NEW s \in Walks, \A d \in Worlds(s) : holds(s, d)
        PROVE  \E x \in result.paths : x.assertions = [i \in DOMAIN s |-> s[i].id]
    BY <2>3, <2>5, <2>7, Zenon
  <2>8. /\ \A x \in result.paths :
             LET path == [i \in DOMAIN x.assertions |-> Assertion(x.assertions[i])] IN
             \A d \in Worlds(path) :
               /\ holds(path, d)
               /\ request.rule = "nondecreasing" =>
                    x.elapsed[1] <= d[Len(d)] - d[1] /\ (d[Len(d)] - d[1] <= x.elapsed[2] \/ Len(d) = 1)
        /\ \A path \in Walks : (\A d \in Worlds(path) : holds(path, d)) =>
             \E x \in result.paths : x.assertions = [i \in DOMAIN path |-> path[i].id]
    BY <2>6, <2>7, Zenon
  <2> QED
    BY <2>8, Zenon DEF PathsSound, result, holds
<1> QED
  BY <1>1, AlwaysIInv, PTL
-----------------------------------------------------------------------------
\* Results from the records that the cards refer to.

\* h is the graph g cut down to the records of F.
IsCut(h, g, F) ==
  /\ h.entities = g.entities /\ h.identities = g.identities /\ h.sources = g.sources
  /\ h.assertions = Rows(g, F) /\ h.observations = {o \in g.observations : o.id \in F}

LEMMA CutRows ==
  ASSUME NEW g, NEW h, NEW F, IsCut(h, g, F), NEW ids, ids \subseteq F
  PROVE  Rows(h, ids) = Rows(g, ids)
BY DEF IsCut, Rows

\* A set of assertions that is kept as a whole.
LEMMA CutIds == ASSUME NEW g, NEW h, NEW F, IsCut(h, g, F) PROVE Ids(h) = Ids(g)
BY DEF IsCut, Ids

\* A resolution by identifier reads no assertion, and returns the observations.
LEMMA CutResolve ==
  ASSUME NEW g, NEW h, NEW F, IsCut(h, g, F), NEW q, q.name = None, q.place = None, q.role = None,
         Resolve(g, q).type = "entities", Resolve(g, q).inputs \subseteq F
  PROVE  Resolve(h, q) = Resolve(g, q)
<1>1. Matches(h, q) = Matches(g, q)
  BY DEF Matches, IsCut
<1> DEFINE ids == {e.id : e \in Matches(g, q)}
           read(x) == {o.id : o \in {z \in x.observations : z.entity \in ids}}
           result(x) == [type |-> "entities", ids |-> ids, kind |-> q.kind, complete |-> TRUE, inputs |-> read(x)]
<1>2. Resolve(g, q) = IF Cardinality(Matches(g, q)) # 1 THEN Fail("Clarify") ELSE result(g)
  BY Zenon DEF Resolve
<1>3. Resolve(h, q) = IF Cardinality(Matches(g, q)) # 1 THEN Fail("Clarify") ELSE result(h)
  BY <1>1, Zenon DEF Resolve
<1>4. Cardinality(Matches(g, q)) = 1
  <2> HIDE DEF result
  <2> QED
    BY <1>2 DEF Fail
<1>5. read(g) \subseteq F
  <2>1. Resolve(g, q) = result(g)
    <3> HIDE DEF result
    <3> QED
      BY <1>2, <1>4
  <2>2. result(g).inputs = read(g)
    <3> HIDE DEF read, ids
    <3> QED
      OBVIOUS
  <2> HIDE DEF result, read
  <2> QED
    BY <2>1, <2>2
<1>6. read(h) = read(g)
  <2> HIDE DEF ids
  <2> QED
    BY <1>5 DEF IsCut
<1> QED
  <2> HIDE DEF read, ids
  <2> QED
    BY <1>2, <1>3, <1>4, <1>6

\* An expansion from operands that are kept, if its own assertions are kept.
LEMMA CutExpand ==
  ASSUME NEW g, NEW h, NEW F, IsCut(h, g, F), NEW q, NEW v, Expand(g, q, v).type = "edges",
         v[q.input].type = "edges" => v[q.input].ids \subseteq F,
         v[q.input].type \in {"entities", "edges"}, Expand(g, q, v).ids \subseteq F
  PROVE  Expand(h, q, v) = Expand(g, q, v)
<1> DEFINE initial == v[q.input]
           out == q.direction = "out"
           origin == IF out THEN "head" ELSE "tail"
           target == IF out THEN "tail" ELSE "head"
           starts(x) == IF initial.type = "entities" THEN initial.ids
                        ELSE {a[initial.target] : a \in Rows(x, initial.ids)}
           rows(x) == {a \in x.assertions : a.relation = q.relation /\ a[origin] \in starts(x)}
           result(x) == [type |-> "edges", ids |-> {a.id : a \in rows(x)}, target |-> target, complete |-> TRUE,
                         kind |-> IF out THEN q.tailKind ELSE q.headKind]
           wrong == initial.kind # (IF out THEN q.headKind ELSE q.tailKind)
           lost(x) == Cardinality(rows(x)) > MaxEdges \/ \E a \in rows(x) : {a.head, a.tail} \ Ids(x) # {}
           value(x) == CASE wrong -> Fail("ValueError") [] lost(x) -> Fail("Incomplete") [] OTHER -> result(x)
<1>1. Expand(g, q, v) = value(g) /\ Expand(h, q, v) = value(h)
  BY Zenon DEF Expand
<1>2. starts(h) = starts(g)
  <2>1. CASE initial.type = "entities"
    BY <2>1
  <2>2. CASE initial.type = "edges"
    <3>1. Rows(h, initial.ids) = Rows(g, initial.ids)
      BY <2>2, CutRows
    <3> QED
      BY <2>2, <3>1
  <2> QED
    BY <2>1, <2>2
<1>3. ~wrong /\ ~lost(g) /\ value(g) = result(g)
  <2> HIDE DEF wrong, lost, result
  <2> QED
    BY <1>1 DEF Fail
<1>4. {a.id : a \in rows(g)} \subseteq F
  <2>1. result(g).ids = {a.id : a \in rows(g)}
    <3> HIDE DEF rows
    <3> QED
      OBVIOUS
  <2> HIDE DEF result, rows, value
  <2> QED
    BY <1>1, <1>3, <2>1
<1>5. rows(h) = rows(g)
  <2> HIDE DEF starts, origin
  <2> QED
    BY <1>2, <1>4 DEF IsCut, Rows
<1>6. lost(h) = lost(g) /\ result(h) = result(g)
  <2>1. Ids(h) = Ids(g)
    BY CutIds
  <2> HIDE DEF rows
  <2> QED
    BY <1>5, <2>1
<1> QED
  <2> HIDE DEF wrong, lost, result
  <2> QED
    BY <1>1, <1>6

LEMMA CutFilter ==
  ASSUME NEW g, NEW h, NEW F, IsCut(h, g, F), NEW q, NEW v, v[q.input].ids \subseteq F
  PROVE  Filter(h, q, v) = Filter(g, q, v)
<1>1. Rows(h, v[q.input].ids) = Rows(g, v[q.input].ids)
  BY CutRows
<1> QED
  BY <1>1, Zenon DEF Filter

\* A count without a topic reads its operands only.
LEMMA CutCount ==
  ASSUME NEW g, NEW h, NEW F, IsCut(h, g, F), NEW q, NEW v, q.topic = None, Considered(v[q.input]) \subseteq F
  PROVE  Count(h, q, v) = Count(g, q, v)
<1> DEFINE source == v[q.input]
           w == Windowed(v, q)
           authored == q.attribution = "publication_authorship"
           rows(x) == {a \in Rows(x, Considered(source)) : q.source # None => a.source = q.source}
           attributed(x) == {r \in rows(x) : authored => q.institution \in r.institutions}
           kept(x) == {r \in attributed(x) : q.topic # None => \E a \in x.assertions :
                 a.head = r[source.target] /\ a.relation = "classifiedAs" /\ a.tail = q.topic}
           group(x, o) == {r \in kept(x) : r[source.target] = o}
           objects(x) == {r[source.target] : r \in kept(x)}
           statuses(x, o) == {Membership(r.time, w) : r \in group(x, o)}
           selected(x) == {o \in objects(x) : statuses(x, o) = {"inside"}}
           years(x, o) == UNION {{Year(r.time.lower), Year(r.time.upper)} : r \in group(x, o)}
           wrong(x) == \E r \in rows(x) : r.relation # "authorOf" \/ source.target # "tail"
           lost(x) == \/ q.topic # None /\ q.topic \notin Ids(x) /\ attributed(x) # {}
                      \/ \E o \in objects(x) : Disagreeing(statuses(x, o))
                      \/ q.group = "year" /\ \E o \in selected(x) : Cardinality(years(x, o)) # 1
           of(x, y) == {o \in selected(x) : years(x, o) = {y}}
           span(x) == UNION {years(x, o) : o \in selected(x)}
           series(x) == IF q.group # "year" THEN {} ELSE {<<y, Cardinality(of(x, y))>> : y \in span(x)}
           result(x) == [type |-> "aggregate", value |-> Cardinality(selected(x)), ids |-> selected(x),
                     inputs |-> Considered(source), complete |-> TRUE, window |-> w,
                     policy |-> <<q.unit, q.attribution, q.institution, q.topic, q.source>>,
                     series |-> series(x)]
           value(x) == CASE source.kind # q.unit \/ ("window" \in DOMAIN source /\ source.window # w) -> Fail("ValueError")
                         [] q.source # None /\ q.source \notin x.sources -> Fail("Incomplete")
                         [] authored /\ wrong(x) -> Fail("ValueError")
                         [] lost(x) -> Fail("Incomplete")
                         [] OTHER -> result(x)
<1>1. Count(g, q, v) = value(g) /\ Count(h, q, v) = value(h)
  BY Zenon DEF Count
<1>2. rows(h) = rows(g)
  <2>1. Rows(h, Considered(source)) = Rows(g, Considered(source))
    BY CutRows
  <2> HIDE DEF source
  <2> QED
    BY <2>1
<1>3. attributed(h) = attributed(g)
  <2> HIDE DEF rows, authored
  <2> QED
    BY <1>2
<1>4. kept(h) = kept(g)
  <2> HIDE DEF attributed, source
  <2> QED
    BY <1>3
<1>5. objects(h) = objects(g) /\ \A o : group(h, o) = group(g, o)
  <2> HIDE DEF kept
  <2> QED
    BY <1>4
<1>6. \A o : statuses(h, o) = statuses(g, o) /\ years(h, o) = years(g, o)
  <2> HIDE DEF group
  <2> QED
    BY <1>5
<1>7. selected(h) = selected(g)
  <2> HIDE DEF objects, statuses
  <2> QED
    BY <1>5, <1>6
<1>8. wrong(h) = wrong(g)
  <2> HIDE DEF rows
  <2> QED
    BY <1>2
<1>9. lost(h) = lost(g)
  <2>1. Ids(h) = Ids(g)
    BY CutIds
  <2> HIDE DEF attributed, objects, statuses, selected, years
  <2> QED
    BY <1>3, <1>5, <1>6, <1>7, <2>1
<1>10. result(h) = result(g)
  <2>1. span(h) = span(g) /\ \A y : of(h, y) = of(g, y)
    <3> HIDE DEF selected, years
    <3> QED
      BY <1>6, <1>7
  <2>2. series(h) = series(g)
    <3> HIDE DEF of, span
    <3> QED
      BY <2>1
  <2> HIDE DEF selected, series
  <2> QED
    BY <1>7, <2>2
<1>11. h.sources = g.sources
  BY DEF IsCut
<1>12. value(h) = value(g)
  <2> HIDE DEF wrong, lost, result
  <2> QED
    BY <1>8, <1>9, <1>10, <1>11
<1> QED
  <2> HIDE DEF value
  <2> QED
    BY <1>1, <1>12

\* A trace reads all that it returns as its operands.
LEMMA CutTrace ==
  ASSUME NEW g, NEW h, NEW F, IsCut(h, g, F), NEW author, NEW w, EventTrace(g, author, w).inputs \subseteq F
  PROVE  Employment(h, author) = Employment(g, author) /\ EventTrace(h, author, w) = EventTrace(g, author, w)
<1>1. \A a \in Consulted(g, author, w) : a \in g.assertions => a \in h.assertions
  <2>1. {a.id : a \in Consulted(g, author, w)} \subseteq F
    BY DEF EventTrace
  <2> QED
    BY <2>1 DEF IsCut, Rows
<1>2. h.assertions \subseteq g.assertions
  BY DEF IsCut, Rows
<1>3. Employment(g, author) \subseteq Consulted(g, author, w) /\ Authorships(g, author) \subseteq Consulted(g, author, w)
  BY DEF Consulted
<1>4. Employment(h, author) = Employment(g, author) /\ Authorships(h, author) = Authorships(g, author)
  BY <1>1, <1>2, <1>3 DEF Employment, Authorships
<1>5. TraceDates(h, author, w) = TraceDates(g, author, w)
  BY <1>4, Zenon DEF TraceDates
<1> DEFINE dates == TraceDates(g, author, w)
           papers == UNION {StateAt(g, author, w, at).papers : at \in dates}
<1>6. \A a \in g.assertions : /\ a.relation = "authorOf" /\ a.tail \in papers => a \in h.assertions
                              /\ a.relation \in {"classifiedAs", "fundedBy", "citedByPatent"} /\ a.head \in papers
                                   => a \in h.assertions
  <2>1. {a \in g.assertions : \/ a.relation = "authorOf" /\ a.tail \in papers
                              \/ /\ a.relation \in {"classifiedAs", "fundedBy", "citedByPatent"}
                                 /\ a.head \in papers} \subseteq Consulted(g, author, w)
    <3> HIDE DEF dates
    <3> QED
      BY DEF Consulted, dates
  <2> HIDE DEF papers
  <2> QED
    BY <1>1, <2>1
<1>7. ASSUME NEW at \in dates PROVE StateAt(h, author, w, at) = StateAt(g, author, w, at)
  <2> DEFINE with(x, status) == {a.tail : a \in {z \in Employment(x, author) : ActiveStatus(z, at, w.reference) = status}}
             says(x, p) == {Recorded(a.time, at) : a \in {z \in Authorships(x, author) : z.tail = p}}
             all(x) == {a.tail : a \in Authorships(x, author)}
             done(x) == {p \in all(x) : says(x, p) = {"recorded"}}
             from(x, relation) == {a \in x.assertions : a.head \in done(x) /\ a.relation = relation}
             result(x) == [active |-> with(x, "active"), uncertain |-> with(x, "unknown"),
                papers |-> done(x), uncertainPapers |-> {p \in all(x) \ done(x) : says(x, p) # {"future"}},
                collaborators |-> {a.head : a \in {z \in x.assertions : z.relation = "authorOf"
                                                     /\ z.tail \in done(x) /\ z.head # author}},
                topics |-> {a.tail : a \in from(x, "classifiedAs")}, grants |-> {a.tail : a \in from(x, "fundedBy")},
                patents |-> {a.tail : a \in {z \in from(x, "citedByPatent") : Recorded(z.time, at) = "recorded"}}]
  <2>1. StateAt(h, author, w, at) = result(h) /\ StateAt(g, author, w, at) = result(g)
    BY Zenon DEF StateAt
  <2>2. with(h, "active") = with(g, "active") /\ with(h, "unknown") = with(g, "unknown") /\ all(h) = all(g)
    BY <1>4, Zenon
  <2>3. \A p : says(h, p) = says(g, p)
    BY <1>4, Zenon
  <2>4. done(h) = done(g)
    <3> HIDE DEF all, says
    <3> QED
      BY <2>2, <2>3
  <2>5. done(g) \subseteq papers
    <3>1. result(g).papers = done(g)
      <4> HIDE DEF with, says, all, done, from
      <4> QED
        OBVIOUS
    <3> HIDE DEF result, done, dates
    <3> QED
      BY <2>1, <3>1
  <2>6. \A k \in {"classifiedAs", "fundedBy", "citedByPatent"} : from(h, k) = from(g, k)
    <3> HIDE DEF done, papers
    <3> QED
      BY <1>2, <1>6, <2>4, <2>5
  <2>7. {z \in h.assertions : z.relation = "authorOf" /\ z.tail \in done(h) /\ z.head # author}
          = {z \in g.assertions : z.relation = "authorOf" /\ z.tail \in done(g) /\ z.head # author}
    <3> HIDE DEF done, papers
    <3> QED
      BY <1>2, <1>6, <2>4, <2>5
  <2>8. result(h) = result(g)
    <3>1. /\ from(h, "classifiedAs") = from(g, "classifiedAs") /\ from(h, "fundedBy") = from(g, "fundedBy")
          /\ from(h, "citedByPatent") = from(g, "citedByPatent")
      BY <2>6
    <3> HIDE DEF with, says, all, done, from
    <3> QED
      BY <2>2, <2>3, <2>4, <2>7, <3>1
  <2> HIDE DEF result
  <2> QED
    BY <2>1, <2>8
<1>8. Consulted(h, author, w) = Consulted(g, author, w)
  <2>1. UNION {StateAt(h, author, w, at).papers : at \in TraceDates(h, author, w)} = papers
    <3> HIDE DEF dates
    <3> QED
      BY <1>5, <1>7 DEF dates
  <2> DEFINE more(x) == {a \in x.assertions : \/ a.relation = "authorOf" /\ a.tail \in papers
                                              \/ /\ a.relation \in {"classifiedAs", "fundedBy", "citedByPatent"}
                                                 /\ a.head \in papers}
  <2>2. more(h) = more(g)
    <3> HIDE DEF papers
    <3> QED
      BY <1>2, <1>6
  <2>3. Consulted(g, author, w) = Employment(g, author) \cup Authorships(g, author) \cup more(g)
    BY Zenon DEF Consulted
  <2>4. Consulted(h, author, w) = Employment(h, author) \cup Authorships(h, author) \cup more(h)
    <3> HIDE DEF papers
    <3> QED
      BY <2>1, Zenon DEF Consulted
  <2> HIDE DEF more
  <2> QED
    BY <1>4, <2>2, <2>3, <2>4
<1>9. EventTrace(h, author, w) = EventTrace(g, author, w)
  <2>1. [at \in dates |-> StateAt(h, author, w, at)] = [at \in dates |-> StateAt(g, author, w, at)]
    <3> HIDE DEF dates
    <3> QED
      BY <1>7
  <2> QED
    BY <1>5, <1>8, <2>1, Zenon DEF EventTrace
<1> QED
  BY <1>4, <1>9

LEMMA CutMoves ==
  ASSUME NEW g, NEW h, NEW F, IsCut(h, g, F), NEW author, NEW w, EventTrace(g, author, w).inputs \subseteq F
  PROVE  ReturnMoves(h, author, w) = ReturnMoves(g, author, w)
<1>1. Employment(h, author) = Employment(g, author) /\ EventTrace(h, author, w) = EventTrace(g, author, w)
  BY CutTrace
<1> QED
  BY <1>1, Zenon DEF ReturnMoves
\* A search returns as its operands all assertions that it tried.
LEMMA CutTried ==
  ASSUME NEW g, NEW h, NEW F, IsCut(h, g, F), NEW q, NEW ps, {c[2].id : c \in Tried(g, q, ps)} \subseteq F
  PROVE  Tried(h, q, ps) = Tried(g, q, ps)
<1> DEFINE of(x) == {a \in x.assertions : a.relation \in q.relations}
<1>1. Tried(g, q, ps) = {c \in ps \X of(g) : c[2][Origin(q)] = c[1].at}
      /\ Tried(h, q, ps) = {c \in ps \X of(h) : c[2][Origin(q)] = c[1].at}
  BY Zenon DEF Tried
<1>2. ASSUME NEW a \in of(g), a.id \in F PROVE a \in of(h)
  BY <1>2 DEF IsCut, Rows
<1>3. of(h) \subseteq of(g)
  BY DEF IsCut, Rows
<1> HIDE DEF of
<1>4. ASSUME NEW c \in Tried(g, q, ps) PROVE c \in Tried(h, q, ps)
  <2>1. c[2].id \in F /\ c \in ps \X of(g) /\ c[2][Origin(q)] = c[1].at
    BY <1>1, <1>4
  <2>2. c \in ps \X of(h)
    BY <1>2, <2>1
  <2> QED
    BY <1>1, <2>1, <2>2
<1>5. ASSUME NEW c \in Tried(h, q, ps) PROVE c \in Tried(g, q, ps)
  BY <1>1, <1>3, <1>5
<1> QED
  BY <1>4, <1>5

LEMMA CutTaken ==
  ASSUME NEW g, NEW h, NEW F, IsCut(h, g, F), NEW q, NEW w, NEW ps, {c[2].id : c \in Tried(g, q, ps)} \subseteq F
  PROVE  Taken(h, q, w, ps) = Taken(g, q, w, ps) /\ Further(h, q, w, ps) = Further(g, q, w, ps)
<1>1. Tried(h, q, ps) = Tried(g, q, ps)
  BY CutTried
<1>2. Taken(h, q, w, ps) = Taken(g, q, w, ps)
  BY <1>1, Zenon DEF Taken
<1> QED
  BY <1>2, Zenon DEF Further

LEMMA CutLevels ==
  ASSUME NEW g, NEW h, NEW F, IsCut(h, g, F), NEW q, q.hops \in Nat, NEW w, NEW starts,
         {c[2].id : c \in Tried(g, q, Explored(g, q, w, starts))} \subseteq F, NEW n \in 0..q.hops
  PROVE  Levels(h, q, w, starts)[n] = Levels(g, q, w, starts)[n]
<1> DEFINE l == Levels(g, q, w, starts)
           m == Levels(h, q, w, starts)
           T == {k \in Nat : k <= q.hops => m[k] = l[k]}
<1>1. l[0] = Roots(starts) /\ \A k \in 1..q.hops : l[k] = Further(g, q, w, l[k - 1])
  BY LevelsAre
<1>2. m[0] = Roots(starts) /\ \A k \in 1..q.hops : m[k] = Further(h, q, w, m[k - 1])
  BY LevelsAre
<1>3. ASSUME NEW k \in 0..(q.hops - 1) PROVE {c[2].id : c \in Tried(g, q, l[k])} \subseteq F
  <2>1. l[k] \subseteq Explored(g, q, w, starts)
    BY Zenon DEF Explored
  <2> HIDE DEF l
  <2>2. Tried(g, q, l[k]) \subseteq Tried(g, q, Explored(g, q, w, starts))
    BY <2>1 DEF Tried
  <2> QED
    BY <2>2
<1> HIDE DEF l, m
<1>4. 0 \in T
  BY <1>1, <1>2
<1>5. ASSUME NEW k \in Nat, k \in T PROVE k + 1 \in T
  <2> SUFFICES ASSUME k + 1 <= q.hops PROVE m[k + 1] = l[k + 1]
    OBVIOUS
  <2>1. k \in 0..(q.hops - 1) /\ k + 1 \in 1..q.hops /\ (k + 1) - 1 = k /\ k <= q.hops
    OBVIOUS
  <2>2. m[k] = l[k]
    BY <1>5, <2>1
  <2>3. Further(h, q, w, l[k]) = Further(g, q, w, l[k])
    BY <1>3, <2>1, CutTaken
  <2> QED
    BY <1>1, <1>2, <2>1, <2>2, <2>3
<1>6. Nat \subseteq T
  <2> HIDE DEF T
  <2> QED
    BY <1>4, <1>5, SetInduction
<1>7. m[n] = l[n]
  BY <1>6
<1> QED
  BY <1>7 DEF l, m

LEMMA CutPaths ==
  ASSUME NEW g, NEW h, NEW F, IsCut(h, g, F), NEW q, q.hops \in Nat, NEW v,
         Paths(g, q, v).type = "paths", Paths(g, q, v).inputs \subseteq F
  PROVE  Paths(h, q, v) = Paths(g, q, v)
<1> DEFINE w == Windowed(v, q)
           starts == v[q.input].ids
           level(x) == Levels(x, q, w, starts)
           expanded(x) == UNION {level(x)[n] : n \in 0..(q.hops - 1)}
           all(x) == UNION {level(x)[n] : n \in 0..q.hops}
           tried(x) == Tried(x, q, expanded(x))
           found(x) == {Go(q, c) : c \in {z \in Taken(x, q, w, expanded(x)) : z[2][Toward(q)] = q.target}}
           lost(x) == \/ q.target \notin Ids(x)
                      \/ \E c \in tried(x) :
                           \/ Membership(c[2].time, w) = "indeterminate"
                           \/ /\ Membership(c[2].time, w) = "inside"
                              /\ \/ c[2][Toward(q)] \notin Ids(x)
                                 \/ Misordered(q, c[1], c[2]) /\ c[2].time.upper >= c[1].last
                      \/ Cardinality(all(x)) > MaxSearch
                      \/ Cardinality(found(x)) > MaxPaths
           listed(x) == {[assertions |-> [i \in DOMAIN p.edges |-> p.edges[i].id],
                          elapsed |-> Elapsed(p.edges)] : p \in found(x)}
           result(x) == [type |-> "paths", complete |-> TRUE, window |-> w, hops |-> q.hops, rule |-> q.rule,
                         paths |-> listed(x), inputs |-> {c[2].id : c \in tried(x)}]
           value(x) == IF lost(x) THEN Fail("Incomplete") ELSE result(x)
<1>1. Paths(g, q, v) = value(g) /\ Paths(h, q, v) = value(h)
  BY Zenon DEF Paths
<1>2. {c[2].id : c \in tried(g)} \subseteq F
  <2>1. value(g) = result(g)
    <3> HIDE DEF lost, result
    <3> QED
      BY <1>1 DEF Fail
  <2>2. result(g).inputs = {c[2].id : c \in tried(g)}
    <3> HIDE DEF tried, listed, w
    <3> QED
      OBVIOUS
  <2> HIDE DEF result, value, tried
  <2> QED
    BY <1>1, <2>1, <2>2
<1>3. expanded(g) = Explored(g, q, w, starts)
  BY Zenon DEF Explored
<1>4. \A n \in 0..q.hops : level(h)[n] = level(g)[n]
  <2> SUFFICES ASSUME NEW n \in 0..q.hops PROVE level(h)[n] = level(g)[n]
    BY Zenon
  <2>1. {c[2].id : c \in Tried(g, q, Explored(g, q, w, starts))} \subseteq F
    <3> HIDE DEF expanded, w, starts
    <3> QED
      BY <1>2, <1>3
  <2> HIDE DEF w, starts
  <2> QED
    BY <2>1, CutLevels
<1>5. expanded(h) = expanded(g) /\ all(h) = all(g)
  <2>1. \A n \in 0..(q.hops - 1) : n \in 0..q.hops
    OBVIOUS
  <2> HIDE DEF level
  <2> QED
    BY <1>4, <2>1
<1>6. tried(h) = tried(g) /\ Taken(h, q, w, expanded(g)) = Taken(g, q, w, expanded(g))
  <2> HIDE DEF expanded, w
  <2> QED
    BY <1>2, <1>5, CutTried, CutTaken
<1>7. found(h) = found(g)
  <2> HIDE DEF expanded, w
  <2> QED
    BY <1>5, <1>6, Zenon
<1>8. listed(h) = listed(g)
  <2> HIDE DEF found
  <2> QED
    BY <1>7, Zenon
<1>9. lost(h) = lost(g)
  <2>1. Ids(h) = Ids(g)
    BY CutIds
  <2> HIDE DEF tried, found, all, w
  <2> QED
    BY <1>5, <1>6, <1>7, <2>1, Zenon
<1>10. result(h) = result(g)
  <2> HIDE DEF tried, listed, w
  <2> QED
    BY <1>6, <1>8, Zenon
<1> QED
  <2> HIDE DEF lost, result
  <2> QED
    BY <1>1, <1>9, <1>10
\* The records that a step's result rests on are among F.
Rests(v, F) == Operands(v) \subseteq F

\* A resolution that reads no assertion, a count without a topic.
Carded(s) ==
  /\ s.op \notin {"ProjectProvenance", "ReadState", "UpdateState"}
  /\ s.op = "ResolveEntity" => s.args.name = None /\ s.args.place = None /\ s.args.role = None
  /\ s.op = "Aggregate" => s.args.topic = None
  /\ s.op = "PathSearch" => s.args.hops \in Nat
  /\ s.op \in {"FilterInterval", "Aggregate", "PathSearch"} => s.args.input # s.args.window

LEMMA RestsEdges ==
  ASSUME NEW v, NEW F, Rests(v, F), v.type = "edges"
  PROVE  v.ids \subseteq F /\ Considered(v) \subseteq F
BY DEF Rests, Operands

LEMMA RestsInputs ==
  ASSUME NEW v, NEW F, Rests(v, F), "inputs" \in DOMAIN v
  PROVE  v.inputs \subseteq F
BY DEF Rests, Operands

LEMMA PathsInputs ==
  ASSUME NEW g, NEW q, NEW v, Paths(g, q, v).type = "paths" PROVE "inputs" \in DOMAIN Paths(g, q, v)
BY DEF Paths, Fail

\* The input of a filter or an aggregate is a set of edges.
LEMMA ReadsEdges ==
  ASSUME NEW s, IsStep(s), NEW v, Readable(s, v), s.op \in {"FilterInterval", "Aggregate"}, s.args.input # s.args.window,
         NEW F, \A x \in Refs(s.args) : Rests(v[x], F)
  PROVE  v[s.args.input].type = "edges" /\ Rests(v[s.args.input], F)
<1>1. References \cap DOMAIN s.args = {"input", "window"}
  BY DEF IsStep, Slots
<1>2. s.args.input \in Refs(s.args)
  BY <1>1, Zenon DEF Refs
<1>3. s.args.input \notin {s.args[k] : k \in {"window"} \cap DOMAIN s.args}
  OBVIOUS
<1>4. v[s.args.input].type \in Reads[s.op] /\ s.op \in DOMAIN Reads
  BY <1>2, <1>3 DEF Readable, Reads
<1> QED
  BY <1>2, <1>4 DEF Reads

\* Every operation has the same result on the cut graph, if the operands of what
\* it refers to and of its result are kept.
LEMMA CutPerform ==
  ASSUME NEW g, NEW h, NEW F, IsCut(h, g, F), NEW s, IsStep(s), Carded(s), NEW v, NEW k,
         Readable(s, v), ~Failed(Perform(g, s, v, k)), Perform(g, s, v, k).type = Binding(s),
         Rests(Perform(g, s, v, k), F), \A x \in Refs(s.args) : Rests(v[x], F)
  PROVE  Perform(h, s, v, k) = Perform(g, s, v, k)
<1>0. /\ "input" \in Slots[s.op] => s.args.input \in Refs(s.args)
      /\ References \cap DOMAIN s.args = Slots[s.op]
  BY Zenon DEF IsStep, Refs
<1>1. CASE s.op = "ResolveEntity"
  <2>1. Perform(g, s, v, k) = Resolve(g, s.args) /\ Resolve(g, s.args).type = "entities"
    BY <1>1, PerformsBy
  <2>2. Resolve(g, s.args).inputs \subseteq F
    <3>1. "inputs" \in DOMAIN Resolve(g, s.args)
      BY <2>1 DEF Resolve, Fail
    <3> QED
      BY <2>1, <3>1, RestsInputs
  <2>3. Resolve(h, s.args) = Resolve(g, s.args)
    BY <1>1, <2>1, <2>2, CutResolve DEF Carded
  <2>4. Perform(h, s, v, k) = Resolve(h, s.args)
    BY <1>1 DEF Perform
  <2> QED
    BY <2>1, <2>3, <2>4
<1>2. CASE s.op = "NormalizeTime"
  BY <1>2 DEF Perform
<1>3. CASE s.op = "FilterInterval"
  <2>1. Perform(g, s, v, k) = Filter(g, s.args, v) /\ Perform(h, s, v, k) = Filter(h, s.args, v)
    BY <1>3 DEF Perform
  <2>2. v[s.args.input].ids \subseteq F
    BY <1>3, ReadsEdges, RestsEdges DEF Carded
  <2> QED
    BY <2>1, <2>2, CutFilter
<1>4. CASE s.op = "Expand"
  <2>1. Perform(g, s, v, k) = Expand(g, s.args, v) /\ Expand(g, s.args, v).type = "edges"
    BY <1>4, PerformsBy
  <2>2. Perform(h, s, v, k) = Expand(h, s.args, v)
    BY <1>4 DEF Perform
  <2>3. v[s.args.input].type \in {"entities", "edges"} /\ Rests(v[s.args.input], F)
    <3>1. s.args.input \in Refs(s.args) /\ "window" \notin DOMAIN s.args
      BY <1>0, <1>4 DEF Slots, References
    <3> QED
      BY <1>4, <3>1 DEF Readable, Reads
  <2>4. v[s.args.input].type = "edges" => v[s.args.input].ids \subseteq F
    BY <2>3, RestsEdges
  <2>5. Expand(g, s.args, v).ids \subseteq F
    BY <2>1, RestsEdges
  <2> QED
    BY <2>1, <2>2, <2>3, <2>4, <2>5, CutExpand
<1>5. CASE s.op = "Aggregate"
  <2> DEFINE q == s.args
             w == Windowed(v, q)
             wrong(x) == \/ \E a \in Rows(x, v[q.input].ids) : a.head # q.subject \/ a.relation # "affiliatedWith"
                         \/ [id |-> q.subject, kind |-> "Author"] \notin x.entities
                         \/ q.metric = "mobility_returns" /\ Cardinality(Employment(x, q.subject)) > MaxEvents
             traced(x) == IF wrong(x) THEN Fail("ValueError")
                          ELSE IF q.metric = "event_trace" THEN EventTrace(x, q.subject, w)
                          ELSE ReturnMoves(x, q.subject, w)
  <2>1. \A x : Perform(x, s, v, k) = IF q.metric = "count" THEN Count(x, q, v) ELSE traced(x)
    <3> SUFFICES ASSUME NEW x PROVE Perform(x, s, v, k) = IF q.metric = "count" THEN Count(x, q, v) ELSE traced(x)
      BY Zenon
    <3>1. Perform(x, s, v, k) = Aggregate(x, q, v)
      BY <1>5 DEF Perform
    <3>2. Aggregate(x, q, v) = IF q.metric = "count" THEN Count(x, q, v) ELSE traced(x)
      BY Zenon DEF Aggregate
    <3> HIDE DEF traced
    <3> QED
      BY <3>1, <3>2
  <2>2. v[q.input].type = "edges" /\ v[q.input].ids \subseteq F /\ Considered(v[q.input]) \subseteq F
    BY <1>5, ReadsEdges, RestsEdges DEF Carded
  <2>3. CASE q.metric = "count"
    <3>1. Count(h, q, v) = Count(g, q, v)
      BY <1>5, <2>2, CutCount DEF Carded
    <3> HIDE DEF traced
    <3> QED
      BY <2>1, <2>3, <3>1
  <2>4. CASE q.metric # "count"
    <3>1. traced(g) = Perform(g, s, v, k) /\ ~Failed(traced(g)) /\ Rests(traced(g), F) /\ Perform(h, s, v, k) = traced(h)
      <4> HIDE DEF traced
      <4> QED
        BY <2>1, <2>4
    <3>2. ~wrong(g)
      <4> HIDE DEF wrong, w
      <4> QED
        BY <3>1 DEF Fail, Failed, Failures
    <3>3. EventTrace(g, q.subject, w).inputs \subseteq F
      <4>1. CASE q.metric = "event_trace"
        <5>1. traced(g) = EventTrace(g, q.subject, w)
          <6> HIDE DEF wrong, w
          <6> QED
            BY <3>2, <4>1
        <5>2. "inputs" \in DOMAIN EventTrace(g, q.subject, w)
          BY DEF EventTrace
        <5> HIDE DEF traced, w
        <5> QED
          BY <3>1, <5>1, <5>2, RestsInputs
      <4>2. CASE q.metric # "event_trace"
        <5>1. traced(g) = ReturnMoves(g, q.subject, w)
          <6> HIDE DEF wrong, w
          <6> QED
            BY <3>2, <4>2
        <5>2. "inputs" \in DOMAIN ReturnMoves(g, q.subject, w)
                /\ ReturnMoves(g, q.subject, w).inputs = EventTrace(g, q.subject, w).inputs
          BY DEF ReturnMoves
        <5> HIDE DEF traced, w
        <5> QED
          BY <3>1, <5>1, <5>2, RestsInputs
      <4> QED
        BY <4>1, <4>2
    <3>4. /\ Employment(h, q.subject) = Employment(g, q.subject)
          /\ EventTrace(h, q.subject, w) = EventTrace(g, q.subject, w)
          /\ ReturnMoves(h, q.subject, w) = ReturnMoves(g, q.subject, w)
      <4> HIDE DEF w, q
      <4> QED
        BY <3>3, CutTrace, CutMoves
    <3>5. Rows(h, v[q.input].ids) = Rows(g, v[q.input].ids) /\ h.entities = g.entities
      BY <2>2, CutRows DEF IsCut
    <3>6. wrong(h) = wrong(g)
      <4> HIDE DEF q
      <4> QED
        BY <3>4, <3>5, Zenon
    <3>7. traced(h) = traced(g)
      <4> HIDE DEF wrong, w, q
      <4> QED
        BY <3>4, <3>6
    <3> HIDE DEF traced
    <3> QED
      BY <3>1, <3>7
  <2> QED
    BY <2>3, <2>4
<1>6. CASE s.op = "PathSearch"
  <2>1. Perform(g, s, v, k) = Paths(g, s.args, v) /\ Paths(g, s.args, v).type = "paths"
    BY <1>6, PerformsBy
  <2>2. Perform(h, s, v, k) = Paths(h, s.args, v)
    BY <1>6 DEF Perform
  <2>3. Paths(g, s.args, v).inputs \subseteq F
    <3>1. "inputs" \in DOMAIN Paths(g, s.args, v)
      BY <2>1, PathsInputs
    <3> QED
      BY <2>1, <3>1, RestsInputs
  <2> QED
    BY <1>6, <2>1, <2>2, <2>3, CutPaths DEF Carded
<1>7. CASE s.op = "CompareWindows"
  BY <1>7 DEF Perform
<1> QED
  BY <1>1, <1>2, <1>3, <1>4, <1>5, <1>6, <1>7 DEF Carded, IsStep, Outputs
-----------------------------------------------------------------------------
\* The plan of a request whose proof is within its cards.

Plain(r) == r.name = None /\ r.topic = None /\ r.place = None /\ r.role = None

LEMMA PlanCarded ==
  ASSUME NEW r, IsRequest(r), Plain(r), NEW s \in StepSet(r), s.id # "provenance"
  PROVE  Carded(s)
<1>1. Carded(Subject(r)) /\ Carded(Asked(r))
  BY DEF Plain, Carded, Subject, Asked, Step
<1>2. Carded(Searched(r))
  BY DEF IsRequest, Carded, Searched, Step
<1>3. Carded(Authors) /\ Carded(PapersOf(r)) /\ Carded(Announced)
        /\ \A relation : Carded(Related(relation))
  BY DEF Carded, Authors, PapersOf, Announced, Related, ExpandBy, Step
<1>4. Carded(Timeline) /\ Carded(Compared) /\ Carded(AskedBefore(r))
  BY DEF Carded, Timeline, Compared, AskedBefore, Step
<1>5. Carded(PaperCount(r, "after", "window")) /\ Carded(PaperCount(r, "before", "before_window"))
  BY DEF Carded, Plain, PaperCount, Counting, Step
<1>6. Carded(Sited) /\ Carded(TraceOf(r))
  BY DEF Carded, Sited, TraceOf, Counting, Step
<1>7. Projected(r).id = "provenance"
  BY DEF Projected, Step
<1>8. s \in {Subject(r), Asked(r)} \cup FamilySteps(r)
  BY <1>7 DEF StepSet
<1>9. CASE s \in FamilySteps(r)
  <2>1. r.family \in {"identity", "path", "count", "comparison", "sites", "state", "returns", "timeline"}
    BY DEF IsRequest
  <2>2. s \in {Searched(r), Authors, PapersOf(r), PaperCount(r, "after", "window"), AskedBefore(r),
               PaperCount(r, "before", "before_window"), Compared, Related("hasSite"), Sited, Announced,
               Related("affiliatedWith"), TraceOf(r), Timeline}
    BY <1>9, <2>1 DEF FamilySteps
  <2> QED
    BY <1>2, <1>3, <1>4, <1>5, <1>6, <2>2
<1> QED
  BY <1>1, <1>8, <1>9

LEMMA BodyListed == ASSUME NEW r, IsRequest(r) PROVE Listed(Body(r))
<1>1. r.family \in {"identity", "path", "count", "comparison", "sites", "state", "returns", "timeline"}
  BY DEF IsRequest
<1>2. Listed(CountSteps(r))
  <2>1. Listed(IF r.kind = "Institution" THEN <<Authors>> ELSE <<>>)
    BY ListedTuples
  <2>2. Listed(<<PapersOf(r), PaperCount(r, "after", "window")>>)
    BY ListedTuples
  <2> QED
    BY <2>1, <2>2, CatFacts DEF CountSteps
<1>3. Listed(CountSteps(r) \o <<AskedBefore(r), PaperCount(r, "before", "before_window"), Compared>>)
  <2>1. Listed(<<AskedBefore(r), PaperCount(r, "before", "before_window"), Compared>>)
    BY ListedTuples
  <2> QED
    BY <1>2, <2>1, CatFacts
<1>4. /\ Listed(<<>>) /\ Listed(<<Searched(r)>>) /\ Listed(<<Related("hasSite"), Sited, Announced>>)
      /\ Listed(<<Related("affiliatedWith"), TraceOf(r)>>) /\ Listed(<<Related("affiliatedWith"), Timeline>>)
  BY ListedTuples
<1> QED
  BY <1>1, <1>2, <1>3, <1>4 DEF Body

\* The provenance is the last step, and the only one without a card's facts.
LEMMA PlanEnds ==
  ASSUME NEW r, NEW release, IsRequest(r)
  PROVE  LET p == PlanRequest(r, release) IN
         Len(p.steps) \in Nat \ {0} /\ p.steps[Len(p.steps)] = Projected(r)
<1> DEFINE p == PlanRequest(r, release)
           front == Opening(r) \o Body(r)
<1>1. Listed(front)
  <2>1. Listed(Opening(r))
    BY ListedTuples DEF Opening
  <2> QED
    BY <2>1, BodyListed, CatFacts
<1>2. p.steps = front \o <<Projected(r)>>
  BY DEF PlanRequest, Opening
<1> HIDE DEF p, front
<1>3. p.steps = Append(front, Projected(r))
  BY <1>1, <1>2, CatOne
<1>4. Len(front) \in Nat
  BY <1>1, ListedFacts
<1>5. Len(p.steps) = Len(front) + 1 /\ p.steps[Len(front) + 1] = Projected(r)
  BY <1>1, <1>3, AppendFacts
<1> QED
  BY <1>4, <1>5 DEF p
\* In a run that goes through, the step i reads what is known at its end.
RunPerformed(g, p, run, i) ==
  LET s == p.steps[i]
      v == run[i - 1].values
      known == run[Len(p.steps)].values
      r == Perform(g, s, v, run[i - 1].state)
  IN  /\ run[i - 1].stop = None /\ Readable(s, v) /\ s.id \in DOMAIN known
      /\ known[s.id] = r /\ ~Failed(r) /\ r.type = Binding(s)
      /\ \A x \in Refs(s.args) : x \in DOMAIN known /\ v[x] = known[x]

LEMMA RunPerforms ==
  ASSUME NEW g, NEW p, NEW release, NEW known, NEW run, IsProgram(p), Accepted(p),
         Running(g, p, release, known, run), run[Len(p.steps)].stop = None, NEW i \in 1..Len(p.steps)
  PROVE  RunPerformed(g, p, run, i)
<1> DEFINE K == Len(p.steps)
           s == p.steps[i]
           v == run[i - 1].values
           k == run[i - 1].state
           r == Perform(g, s, v, k)
           end == run[K].values
<1>1. K \in Nat /\ DOMAIN p.steps = 1..K /\ Distinct(p)
  BY ProgramLength, AcceptedDistinct
<1>2. i - 1 \in 0..K /\ 1..(i - 1) \subseteq 1..K /\ K \in 0..K
  BY <1>1
<1>3. ASSUME NEW n \in 0..K PROVE Accounted(g, p, run, n) /\ Typed(p, run, n)
  BY <1>1, <1>3, Accounts, RunTyped
<1>4. Accounted(g, p, run, K)
  BY <1>2, <1>3
<1>5. run[i - 1].stop = None /\ end[s.id] = r /\ ~Failed(r) /\ DOMAIN end = {p.steps[j].id : j \in 1..K}
  BY <1>2, <1>4 DEF Accounted
<1>6. Bound(p, i) /\ IsStep(s)
  BY <1>1, AcceptedBound DEF IsProgram
<1>7. Readable(s, v)
  BY <1>1, <1>2, <1>3, <1>5, <1>6, NextReadable
<1>8. ASSUME NEW x \in Refs(s.args) PROVE x \in DOMAIN end /\ v[x] = end[x]
  <2>1. PICK j \in 1..(i - 1) : x = p.steps[j].id
    BY <1>6 DEF Bound
  <2>2. v[x] = Perform(g, p.steps[j], run[j - 1].values, run[j - 1].state)
    <3>1. Accounted(g, p, run, i - 1)
      BY <1>2, <1>3
    <3> QED
      BY <1>5, <2>1, <3>1 DEF Accounted
  <2>3. j \in 1..K
    BY <1>2
  <2>4. end[x] = Perform(g, p.steps[j], run[j - 1].values, run[j - 1].state)
    BY <1>4, <2>1, <2>3 DEF Accounted
  <2> QED
    BY <1>5, <2>1, <2>2, <2>3, <2>4
<1>9. r.type = Binding(s)
  <2>1. Typed(p, run, K)
    BY <1>2, <1>3
  <2>2. end[s.id].type = Binding(s)
    BY <2>1 DEF Typed
  <2> QED
    BY <1>5, <2>2
<1>10. s.id \in DOMAIN end
  BY <1>5
<1> HIDE DEF s, v, k, r, end
<1> QED
  BY <1>5, <1>7, <1>8, <1>9, <1>10 DEF RunPerformed, s, v, k, r, end, K

LEMMA CutRun ==
  ASSUME NEW g, NEW h, NEW F, IsCut(h, g, F), NEW r, IsRequest(r), r.identifier # None, Plain(r), NEW release, NEW known,
         Accepted(PlanRequest(r, release)), Execute(g, PlanRequest(r, release), release, known).stop = None,
         \A x \in DOMAIN Execute(g, PlanRequest(r, release), release, known).values :
           Rests(Execute(g, PlanRequest(r, release), release, known).values[x], F)
  PROVE  LET e == Execute(g, PlanRequest(r, release), release, known)
             d == Execute(h, PlanRequest(r, release), release, known)
         IN  d.stop = None /\ \A x \in DOMAIN e.values \ {"provenance"} : d.values[x] = e.values[x]
<1> DEFINE p == PlanRequest(r, release)
           e == Execute(g, p, release, known)
           d == Execute(h, p, release, known)
           K == Len(p.steps)
           run == Runs(g, p, release, known)
           cut == Runs(h, p, release, known)
<1>1. Assembled(p.steps, StepSet(r)) /\ IsProgram(p)
  BY PlanAccepted, PlannablePlanned DEF Planned
<1>2. K \in Nat \ {0} /\ p.steps[K] = Projected(r) /\ DOMAIN p.steps = 1..K /\ Distinct(p)
  BY <1>1, PlanEnds, ProgramLength, AcceptedDistinct
<1>3. Accepted(p) /\ e.stop = None /\ \A x \in DOMAIN e.values : Rests(e.values[x], F)
  OBVIOUS
<1>4. Projected(r).id = "provenance" /\ Projected(r).op = "ProjectProvenance"
  BY DEF Projected, Step
<1> HIDE DEF p
<1>5. Running(g, p, release, known, run) /\ Running(h, p, release, known, cut)
  BY <1>2, RunsAre
<1>6. e = run[K] /\ d = cut[K]
  BY <1>3, NoneAssumption DEF Execute, Failures
<1> HIDE DEF run, cut, e, d
<1>7. ASSUME NEW i \in 1..K PROVE RunPerformed(g, p, run, i)
  BY <1>1, <1>3, <1>5, <1>6, RunPerforms
<1> DEFINE T == {n \in Nat : n < K => cut[n] = run[n]}
<1>8. 0 \in T
  BY <1>5 DEF Running
<1>9. ASSUME NEW n \in Nat, n \in T PROVE n + 1 \in T
  <2> SUFFICES ASSUME n + 1 < K PROVE cut[n + 1] = run[n + 1]
    OBVIOUS
  <2> DEFINE s == p.steps[n + 1]
             v == run[n].values
             k == run[n].state
  <2>1. n + 1 \in 1..K /\ (n + 1) - 1 = n /\ n < K /\ K \in 1..K
    BY <1>2
  <2>2. cut[n] = run[n]
    BY <1>9, <2>1
  <2>3. /\ Readable(s, v) /\ s.id \in DOMAIN e.values /\ e.values[s.id] = Perform(g, s, v, k)
        /\ ~Failed(Perform(g, s, v, k)) /\ Perform(g, s, v, k).type = Binding(s)
        /\ \A x \in Refs(s.args) : x \in DOMAIN e.values /\ v[x] = e.values[x]
    BY <1>6, <1>7, <2>1 DEF RunPerformed
  <2>4. s \in StepSet(r) /\ IsStep(s) /\ s.id # "provenance"
    <3>1. s \in StepSet(r) /\ IsStep(s)
      BY <1>1, <1>2, <2>1 DEF Assembled, IsProgram
    <3>2. n + 1 # K
      BY <1>2
    <3>3. s.id # p.steps[K].id
      BY <1>2, <2>1, <3>2 DEF Distinct
    <3> QED
      BY <1>2, <1>4, <3>1, <3>3
  <2>5. Carded(s)
    BY <2>4, PlanCarded
  <2>6. Rests(Perform(g, s, v, k), F) /\ \A x \in Refs(s.args) : Rests(v[x], F)
    BY <1>3, <2>3
  <2> HIDE DEF s, v, k
  <2>7. Perform(h, s, v, k) = Perform(g, s, v, k)
    BY <2>3, <2>4, <2>5, <2>6, CutPerform
  <2>8. /\ run[n + 1] = Advanced(run[n], s, Perform(g, s, v, k), release)
        /\ cut[n + 1] = Advanced(cut[n], s, Perform(h, s, cut[n].values, cut[n].state), release)
    BY <1>5, <2>1 DEF Running, Stepped, s, v, k
  <2> QED
    BY <2>2, <2>7, <2>8 DEF v, k
<1>10. Nat \subseteq T
  <2> HIDE DEF T
  <2> QED
    BY <1>8, <1>9, SetInduction
<1>11. K \in 1..K /\ K - 1 \in Nat /\ cut[K - 1] = run[K - 1]
  <2>1. K - 1 \in Nat /\ K - 1 < K /\ K \in 1..K
    BY <1>2
  <2> QED
    BY <1>10, <2>1
<1> HIDE DEF T
<1> DEFINE s == p.steps[K]
           v == run[K - 1].values
           k == run[K - 1].state
           last(x) == Perform(x, s, v, k)
<1>12. run[K - 1].stop = None /\ Readable(s, v) /\ s = Projected(r)
  BY <1>2, <1>7, <1>11 DEF RunPerformed
<1>13. \A x : last(x) = [type |-> "provenance", of |-> v[s.args.input], graph |-> x, complete |-> TRUE]
  BY <1>4, <1>12 DEF Perform
<1>14. ~Failed(last(g)) /\ ~Failed(last(h))
  <2>1. \A x : last(x).type = "provenance"
    <3> HIDE DEF last
    <3> QED
      BY <1>13
  <2> HIDE DEF last
  <2> QED
    BY <2>1 DEF Failed, Failures
<1>15. run[K] = Advanced(run[K - 1], s, last(g), release) /\ cut[K] = Advanced(run[K - 1], s, last(h), release)
  BY <1>5, <1>11 DEF Running, Stepped
<1>16. /\ run[K].values = Over([i \in {s.id} |-> last(g)], v)
       /\ cut[K].values = Over([i \in {s.id} |-> last(h)], v) /\ cut[K].stop = None
  <2> HIDE DEF last, s, K
  <2> QED
    BY <1>12, <1>14, <1>15 DEF Advanced
<1>17. ASSUME NEW x \in DOMAIN e.values \ {"provenance"} PROVE d.values[x] = e.values[x]
  <2>1. s.id = "provenance"
    BY <1>4, <1>12
  <2> HIDE DEF last, s, v, K
  <2>2. x \in DOMAIN v /\ run[K].values[x] = v[x] /\ cut[K].values[x] = v[x]
    BY <1>6, <1>16, <1>17, <2>1 DEF Over
  <2> QED
    BY <1>6, <2>2
<1> QED
  BY <1>6, <1>16, <1>17 DEF e, d, p
-----------------------------------------------------------------------------
\* The facts among the obligations of a proof are the records its results rest on.

Facted(obligations) == {o[2] : o \in {x \in obligations : x[1] = "fact"}}

LEMMA FactsAre ==
  ASSUME NEW p, NEW pool, NEW c, NEW g
  PROVE  LET used == UNION {Operands(pool[s]) : s \in {p.steps[i].id : i \in DOMAIN p.steps}}
         IN  Facted(ProofSelection(p, pool, c, g).obligations) = used
<1> DEFINE steps == {p.steps[i].id : i \in DOMAIN p.steps}
           used == UNION {Operands(pool[s]) : s \in steps}
           general == {<<"release_integrity">>, <<"counterevidence">>, <<"claim_entailment">>}
           derived(s) == {<<"typed_derivation", s>>, <<"complete_operands", s>>}
           facts(source) == {<<"fact", id>> : id \in {x \in used : RecordSource(g, x) = source}}
           sources == {RecordSource(g, id) : id \in used}
           byStep == UNION {derived(s) : s \in steps}
           found == UNION {facts(x) : x \in sources}
           known == {<<"fact", id>> : id \in used}
           obligations == general \cup byStep \cup found
<1>1. ProofSelection(p, pool, c, g).obligations = obligations
  BY Zenon DEF ProofSelection
<1>2. \A x \in general : x[1] # "fact"
  OBVIOUS
<1>3. \A s : \A x \in derived(s) : x[1] # "fact"
  OBVIOUS
<1>4. \A x \in byStep : x[1] # "fact"
  <2> HIDE DEF derived, steps
  <2> QED
    BY <1>3
<1>5. found = known
  <2> HIDE DEF used
  <2> QED
    OBVIOUS
<1> HIDE DEF general, derived, steps, facts, sources, used, byStep, found
<1>10. obligations = general \cup byStep \cup known
  BY <1>5
<1> HIDE DEF obligations
<1>6. ASSUME NEW x \in Facted(obligations) PROVE x \in used
  <2>1. PICK o \in obligations : o[1] = "fact" /\ x = o[2]
    BY <1>6 DEF Facted
  <2>2. o \in known
    <3> HIDE DEF known
    <3> QED
      BY <1>2, <1>4, <1>10, <2>1
  <2>3. PICK id \in used : o = <<"fact", id>>
    BY <2>2
  <2> QED
    BY <2>1, <2>3
<1>7. ASSUME NEW x \in used PROVE x \in Facted(obligations)
  <2>1. <<"fact", x>> \in known
    BY <1>7
  <2>2. <<"fact", x>> \in obligations
    <3> HIDE DEF known
    <3> QED
      BY <1>10, <2>1
  <2>3. \A y : <<"fact", y>>[1] = "fact" /\ <<"fact", y>>[2] = y
    OBVIOUS
  <2> QED
    BY <2>2, <2>3 DEF Facted
<1>8. Facted(obligations) = used
  BY <1>6, <1>7
<1> QED
  BY <1>1, <1>8 DEF used, steps

\* What is licensed is granted on a selected result.
LEMMA LicensedGranted ==
  ASSUME NEW sel, NEW pool, Judged(request, sel, pool, checked), NEW c \in Licensed
  PROVE  \E i \in 1..Len(sel) : Granted(c, sel[i], pool)
<1> DEFINE n == Len(sel)
<1>1. /\ n \in 1..3 /\ Len(checked) = n + Extra(request) /\ DOMAIN checked = 1..Len(checked)
      /\ \A i \in 1..n : /\ checked[i].licensed = <<checked[i].licensed[1]>>
                         /\ Granted(checked[i].licensed[1], sel[i], pool)
      /\ \A i \in (n + 1)..Len(checked) : checked[i].licensed = <<>>
  BY DEF Judged
<1> HIDE DEF n
<1>2. PICK j \in DOMAIN checked : \E k \in DOMAIN checked[j].licensed : c = checked[j].licensed[k]
  BY DEF Licensed
<1>3. PICK k \in DOMAIN checked[j].licensed : c = checked[j].licensed[k]
  BY <1>2
<1>4. j \in 1..n \/ j \in (n + 1)..Len(checked)
  BY <1>1
<1>5. DOMAIN <<>> = {} /\ \A z : DOMAIN <<z>> = {1} /\ <<z>>[1] = z
  OBVIOUS
<1>6. j \in 1..n
  BY <1>1, <1>3, <1>4, <1>5
<1>7. c = checked[j].licensed[1]
  <2>1. checked[j].licensed = <<checked[j].licensed[1]>>
    BY <1>1, <1>6
  <2>2. k = 1
    BY <1>3, <1>5, <2>1
  <2> QED
    BY <1>3, <2>2
<1>8. Granted(c, sel[j], pool)
  BY <1>1, <1>6, <1>7
<1> QED
  BY <1>6, <1>8 DEF n

\* A claim is never of the provenance.
LEMMA ClaimedOther ==
  ASSUME NEW r, NEW release, IsRequest(r), r.identifier # None, Plannable(r), NEW x, Claims(r, x)
  PROVE  x # "provenance"
<1> DEFINE p == PlanRequest(r, release)
<1>1. PICK s \in StepSet(r) : s.id = x /\ s.op \in Claimable
  BY DEF Claims
<1>2. Projected(r) \in StepSet(r) /\ Projected(r).id = "provenance" /\ Projected(r).op \notin Claimable
  BY DEF StepSet, Projected, Step, Claimable
<1>3. Assembled(p.steps, StepSet(r)) /\ IsProgram(p) /\ Accepted(p)
  BY PlannablePlanned DEF Planned
<1> HIDE DEF p
<1>4. Distinct(p) /\ StepSet(r) = {p.steps[i] : i \in 1..Len(p.steps)}
  BY <1>3, AcceptedDistinct, ProgramLength DEF Assembled
<1> QED
  BY <1>1, <1>2, <1>4 DEF Distinct

LEMMA PoolIds ==
  ASSUME NEW r, NEW release, IsRequest(r), r.identifier # None, Plannable(r)
  PROVE  LET p == PlanRequest(r, release) IN IdsOf(StepSet(r)) = {p.steps[i].id : i \in DOMAIN p.steps}
<1> DEFINE p == PlanRequest(r, release)
<1>1. StepSet(r) = {p.steps[i] : i \in DOMAIN p.steps}
  BY PlannablePlanned DEF Planned, Assembled
<1> HIDE DEF p
<1>2. IdsOf(StepSet(r)) = {p.steps[i].id : i \in DOMAIN p.steps}
  BY <1>1 DEF IdsOf
<1> QED
  BY <1>2 DEF p

LEMMA WhenJudged ==
  ASSUME IInv, From({"Evidence_Builder", "Synthesizer"})
  PROVE  /\ IsRequest(request) /\ Pooled(frozen, request, execution.values)
         /\ Judged(request, Selected(request, plan), execution.values, checked)
<1>1. stage # "idle" /\ From(Role \ {"Manager"}) /\ From(Role \ {"Manager", "Planner"})
  BY DEF From, Replying, Role
<1>2. From({"Drafting_Bridge", "Verifier", "Evidence_Builder", "Synthesizer"})
        /\ From({"Verifier", "Evidence_Builder", "Synthesizer"})
  BY DEF From
<1>3. IsRequest(request) /\ request.identifier # None /\ plan = PlanRequest(request, Release)
  BY <1>1 DEF IInv, Questioned, Resolved
<1>4. Accepted(plan) /\ execution = Execute(frozen, plan, Release, state) /\ execution.stop = None
  BY <1>1, <1>2 DEF IInv, Validated, Retrieved
<1>5. Pooled(frozen, request, execution.values)
  BY <1>3, <1>4, PoolOfPlan
<1>6. draft = Draft(request, plan, execution.values)
  BY <1>2 DEF IInv, Claimed
<1>7. checked = [i \in DOMAIN draft |-> Verify(draft[i], execution.values)]
  BY DEF IInv, Checked
<1>8. Judged(request, Selected(request, plan), execution.values, checked)
  BY <1>3, <1>5, <1>6, <1>7, Judging
<1> QED
  BY <1>3, <1>5, <1>8

\* The cards of a witness refer to every record that its result needs: on the
\* frozen graph cut down to them, the same program returns the same result for
\* the claim, if the request has neither a topic nor an identity context nor a
\* role (general_witness.py:11-45).
THEOREM CardsAlwaysSuffice == Spec => []CardsSuffice
<1>1. IInv => CardsSuffice
  <2> SUFFICES ASSUME IInv, NEW w \in Witnesses, request.topic = None, request.place = None, request.role = None
               PROVE  FromCards(w)
    BY DEF CardsSuffice
  <2> DEFINE sel == Selected(request, plan)
             pool == execution.values
             n == Len(sel)
             F == Facted(w.obligations)
             h == Referred(w)
  <2>1. stage = "Synthesizer" /\ \E id \in DOMAIN mapping : w = mapping[id]
    BY DEF Witnesses
  <2>2. From({"Evidence_Builder", "Synthesizer"}) /\ From({"Synthesizer"}) /\ From(Role \ {"Manager"})
        /\ From(Role \ {"Manager", "Planner"}) /\ From({"Drafting_Bridge", "Verifier", "Evidence_Builder", "Synthesizer"})
    BY <2>1 DEF From, Role
  <2>3. mapping = Found
    BY <2>2 DEF IInv, Witnessed
  <2>4. /\ IsRequest(request) /\ Pooled(frozen, request, pool) /\ Judged(request, sel, pool, checked)
    BY <2>2, WhenJudged
  <2>5. /\ plan = PlanRequest(request, Release) /\ request.identifier # None /\ request.name = None
        /\ Accepted(plan) /\ execution = Execute(frozen, plan, Release, state) /\ execution.stop = None
    BY <2>2 DEF IInv, Resolved, Validated, Retrieved
  <2>6. PICK c \in Licensed : w = Witness(c)
    <3>1. PICK id \in {c.id : c \in Licensed} : w = Witness(CHOOSE c \in Licensed : c.id = id)
      BY <2>1, <2>3 DEF Found
    <3> QED
      BY <3>1
  <2>7. PICK i \in 1..n : Granted(c, sel[i], pool)
    <3> HIDE DEF sel, pool
    <3> QED
      BY <2>4, <2>6, LicensedGranted
  <2>8. w.program = plan /\ w.stateBefore = state /\ w.claim = c
          /\ w.obligations = ProofSelection(plan, pool, c, frozen).obligations
    <3> DEFINE selection == ProofSelection(plan, pool, c, frozen)
    <3>1. w = [program |-> plan, stateBefore |-> state, execution |-> execution, claim |-> c,
               obligations |-> selection.obligations, selected |-> selection.cover.selected]
      BY <2>6, Zenon DEF Witness
    <3> HIDE DEF selection
    <3> QED
      BY <3>1 DEF selection
  <2>9. Claims(request, sel[i]) /\ sel[i] \in DOMAIN pool /\ sel[i] # "provenance"
    <3>1. Claims(request, sel[i])
      BY <2>4, <2>5, SelectedSteps
    <3>2. sel[i] # "provenance"
      BY <2>4, <2>5, <3>1, PlanAccepted, ClaimedOther
    <3> QED
      BY <2>4, <3>1, <3>2, SelectedReported
  <2>10. \A x \in DOMAIN pool : Rests(pool[x], F)
    <3> DEFINE ids == {plan.steps[j].id : j \in DOMAIN plan.steps}
    <3>1. DOMAIN pool = ids
      <4>1. Plannable(request)
        BY <2>4, <2>5, PlanAccepted
      <4>2. IdsOf(StepSet(request)) = ids
        BY <2>4, <2>5, <4>1, PoolIds
      <4> HIDE DEF ids, pool
      <4> QED
        BY <2>4, <4>2 DEF Pooled
    <3>2. F = UNION {Operands(pool[x]) : x \in ids}
      <4> HIDE DEF pool
      <4>1. F = Facted(ProofSelection(plan, pool, c, frozen).obligations)
        BY <2>8
      <4>2. Facted(ProofSelection(plan, pool, c, frozen).obligations) = UNION {Operands(pool[x]) : x \in ids}
        BY Zenon, FactsAre
      <4> QED
        BY <4>1, <4>2
    <3> HIDE DEF F, ids, pool
    <3> QED
      BY <3>1, <3>2 DEF Rests
  <2>11. IsCut(h, frozen, F)
    BY GraphsAssumption DEF IInv, Counters, IsCut, Referred, Facted, Rows, IsGraph
  <2>12. Plain(request)
    BY <2>5 DEF Plain
  <2> DEFINE again == Execute(h, plan, Release, state)
  <2>13. again.stop = None /\ \A x \in DOMAIN pool \ {"provenance"} : again.values[x] = pool[x]
    <3> HIDE DEF F, h
    <3> QED
      BY <2>4, <2>5, <2>10, <2>11, <2>12, CutRun
  <2>14. again.values[sel[i]] = pool[sel[i]]
    BY <2>9, <2>13
  <2>15. c.step = sel[i] /\ c.evidence = pool[sel[i]]
    BY <2>7 DEF Granted
  <2> HIDE DEF again, h, sel, pool, F
  <2> QED
    BY <2>8, <2>13, <2>14, <2>15 DEF FromCards, again, h
<1> QED
  BY <1>1, AlwaysIInv, PTL
=============================================================================
