---------------------------- MODULE GraphProgram ----------------------------
(***************************************************************************)
(* Typed temporal programs over a frozen graph: the validator and the      *)
(* deterministic executor (analysis/graph_program.py), and the programs    *)
(* that typed requests are planned into (analysis/requests.py).            *)
(*                                                                         *)
(* A graph has sets of entities [id, kind], of assertions [id, head, tail, *)
(* relation, kind, source, institutions, role, time, start, end], of       *)
(* observations [id, entity, names], of identities [source, canonical] and *)
(* of source names.  A program is [release, steps, output], a step         *)
(* [id, op, args, deps].  An operation's result is a record with a type;   *)
(* an exception is a result of a type in Failures.                         *)
(***************************************************************************)
EXTENDS Dates, Sequences

CONSTANTS None,        \* an argument that is not given
          MaxEdges,    \* the default max_edges of an Expand
          MaxPaths,    \* the default max_paths of a PathSearch
          MaxSearch,   \* the bound on search states (10000 in the code)
          MaxEvents,   \* the bound on employment events of a mobility trace
          YearLength   \* days in a year

Failures == {"Clarify", "Incomplete", "ValueError", "KeyError"}

ASSUME NoneAssumption == None \notin Failures
ASSUME BoundsAssumption == MaxEdges \in Nat

Fail(kind) == [type |-> kind]
Failed(r) == r.type \in Failures

\* A record or function with what another one adds or replaces in it.
Over(new, old) == [k \in DOMAIN new \cup DOMAIN old |-> IF k \in DOMAIN new THEN new[k] ELSE old[k]]

Year(d) == d \div YearLength
Ids(g) == {e.id : e \in g.entities}
Rows(g, ids) == {a \in g.assertions : a.id \in ids}
Windowed(values, args) == values[args.window].period

\* Signatures of the relations the programs here use (schema.py RELATIONS).
Relations == [authorOf |-> [head |-> "Author", tails |-> {"Paper"}],
              affiliatedWith |-> [head |-> "Author", tails |-> {"Institution"}],
              classifiedAs |-> [head |-> "Paper", tails |-> {"Topic"}],
              citesPaper |-> [head |-> "Paper", tails |-> {"Paper"}],
              advisorOf |-> [head |-> "Author", tails |-> {"Author"}],
              hasSite |-> [head |-> "Institution", tails |-> {"Institution"}],
              announcedSite |-> [head |-> "Institution", tails |-> {"Institution"}]]

-----------------------------------------------------------------------------
\* The validator.

Outputs == [ResolveEntity |-> "entities", NormalizeTime |-> "window", FilterInterval |-> "edges",
            Expand |-> "edges", PathSearch |-> "paths", Aggregate |-> "aggregate",
            CompareWindows |-> "comparison", ProjectProvenance |-> "provenance",
            ReadState |-> "state", UpdateState |-> "state"]

\* Faulty variant of Binding: an event trace counts as an aggregate.
BindingByOperator(s) == Outputs[s.op]

Binding(s) == IF s.op = "Aggregate" /\ s.args.metric # "count" THEN s.args.metric ELSE Outputs[s.op]

References == {"input", "window", "left", "right"}
Refs(args) == {args[k] : k \in References \cap DOMAIN args}

\* The arguments of each operator that refer to steps.
Slots == [ResolveEntity |-> {}, NormalizeTime |-> {}, FilterInterval |-> {"input", "window"},
          Expand |-> {"input"}, PathSearch |-> {"input", "window"}, Aggregate |-> {"input", "window"},
          CompareWindows |-> {"left", "right"}, ProjectProvenance |-> {"input"},
          ReadState |-> {}, UpdateState |-> {"input"}]

\* What the contracts of a program and of its steps leave to the validator.
IsStep(s) == /\ s.op \in DOMAIN Outputs /\ References \cap DOMAIN s.args = Slots[s.op]
             /\ s.op = "Aggregate" => s.args.metric \in {"count", "event_trace", "mobility_returns"}
IsProgram(p) == /\ p.steps \in Seq({p.steps[i] : i \in DOMAIN p.steps})
                /\ \A i \in DOMAIN p.steps : IsStep(p.steps[i])

\* The validators of the arguments.
WellFormed(s) ==
  /\ s.op = "ResolveEntity" => s.args.identifier # None \/ s.args.name # None
  /\ s.op = "Expand" => /\ s.args.relation \in DOMAIN Relations
                        /\ s.args.headKind = Relations[s.args.relation].head
                        /\ s.args.tailKind \in Relations[s.args.relation].tails
  /\ s.op = "PathSearch" => s.args.relations \subseteq DOMAIN Relations
  /\ s.op = "Aggregate" => /\ s.args.metric # "count" => s.args.subject # None
                           /\ s.args.attribution = "publication_authorship"
                                => s.args.unit = "Paper" /\ s.args.institution # None

Accepted(p) ==
  /\ \A i \in DOMAIN p.steps :
       LET s == p.steps[i]
           earlier == {p.steps[j] : j \in 1..(i - 1)}
           bound == {t.id : t \in earlier}
           type(x) == Binding(CHOOSE t \in earlier : t.id = x)
       IN  /\ WellFormed(s)
           /\ s.id \notin bound /\ Refs(s.args) = s.deps /\ s.deps \subseteq bound
           /\ "window" \in DOMAIN s.args => type(s.args.window) = "window"
           /\ s.op = "Expand" => type(s.args.input) \in {"entities", "edges"}
           /\ s.op \in {"FilterInterval", "Aggregate"} => type(s.args.input) = "edges"
           /\ s.op = "PathSearch" => type(s.args.input) = "entities"
           /\ s.op = "CompareWindows" => /\ type(s.args.left) = "aggregate"
                                         /\ type(s.args.right) = "aggregate"
  /\ p.output \in {s.id : s \in {p.steps[i] : i \in DOMAIN p.steps}}

-----------------------------------------------------------------------------
\* The operations.

\* The entities that a ResolveEntity may mean.
Matches(g, q) ==
  LET known(source, e) == [source |-> source, canonical |-> e.id] \in g.identities
      placed(e, in) == \E a \in g.assertions :
        a.head = e.id /\ (q.role = None \/ a.role = q.role) /\ a \in in
  IN  {e \in g.entities :
        /\ e.kind = q.kind
        /\ q.identifier # None => e.id = q.identifier \/ known(q.identifier, e)
        /\ q.name # None => \E o \in g.observations : o.entity = e.id /\ q.name \in o.names
        /\ q.place # None => placed(e, {a \in g.assertions : /\ a.tail = q.place
                                          /\ a.relation \in {"affiliatedWith", "visitingAt"}})
        /\ q.source # None => known(q.source, e)
        /\ q.role # None /\ q.place = None => placed(e, g.assertions)}

Resolve(g, q) ==
  LET ids == {e.id : e \in Matches(g, q)} IN
  IF Cardinality(Matches(g, q)) # 1 THEN Fail("Clarify")
  ELSE [type |-> "entities", ids |-> ids, kind |-> q.kind, complete |-> TRUE,
        inputs |-> {o.id : o \in {x \in g.observations : x.entity \in ids}}]

Expand(g, args, values) ==
  LET initial == values[args.input]
      out == args.direction = "out"
      origin == IF out THEN "head" ELSE "tail"
      target == IF out THEN "tail" ELSE "head"
      starts == IF initial.type = "entities" THEN initial.ids
                ELSE {a[initial.target] : a \in Rows(g, initial.ids)}
      rows == {a \in g.assertions : a.relation = args.relation /\ a[origin] \in starts}
  IN  CASE initial.kind # (IF out THEN args.headKind ELSE args.tailKind) -> Fail("ValueError")
        [] \/ Cardinality(rows) > MaxEdges
           \/ \E a \in rows : {a.head, a.tail} \ Ids(g) # {} -> Fail("Incomplete")
        [] OTHER -> [type |-> "edges", ids |-> {a.id : a \in rows}, target |-> target, complete |-> TRUE,
                     kind |-> IF out THEN args.tailKind ELSE args.headKind]

Filter(g, args, values) ==
  LET prior == values[args.input]
      w == Windowed(values, args)
      status(a) == IF args.mode = "contained" THEN Membership(a.time, w) ELSE Overlap(a.time, w)
      rows == Rows(g, prior.ids)
  IN  IF \E a \in rows : status(a) = "indeterminate" THEN Fail("Incomplete")
      ELSE [type |-> "edges", ids |-> {a.id : a \in {x \in rows : status(x) = "inside"}},
            filtered |-> prior.ids, window |-> w, target |-> prior.target, complete |-> TRUE, kind |-> prior.kind]

\* The rows an aggregate counts from: those before a filter, if there was one.
Considered(source) == IF "filtered" \in DOMAIN source THEN source.filtered ELSE source.ids

\* Faulty variant of Disagreeing: attestations may differ.
DisagreeingUnknownOnly(statuses) == "indeterminate" \in statuses

Disagreeing(statuses) == "indeterminate" \in statuses \/ Cardinality(statuses) > 1

Count(g, args, values) ==
  LET source == values[args.input]
      w == Windowed(values, args)
      rows == {a \in Rows(g, Considered(source)) : args.source # None => a.source = args.source}
      authored == args.attribution = "publication_authorship"
      attributed == {r \in rows : authored => args.institution \in r.institutions}
      kept == {r \in attributed : args.topic # None => \E a \in g.assertions :
                 a.head = r[source.target] /\ a.relation = "classifiedAs" /\ a.tail = args.topic}
      group(o) == {r \in kept : r[source.target] = o}
      objects == {r[source.target] : r \in kept}
      statuses(o) == {Membership(r.time, w) : r \in group(o)}
      selected == {o \in objects : statuses(o) = {"inside"}}
      years(o) == UNION {{Year(r.time.lower), Year(r.time.upper)} : r \in group(o)}
  IN  CASE source.kind # args.unit \/ ("window" \in DOMAIN source /\ source.window # w) -> Fail("ValueError")
        [] args.source # None /\ args.source \notin g.sources -> Fail("Incomplete")
        [] authored /\ \E r \in rows : r.relation # "authorOf" \/ source.target # "tail" -> Fail("ValueError")
        [] \/ args.topic # None /\ args.topic \notin Ids(g) /\ attributed # {}
           \/ \E o \in objects : Disagreeing(statuses(o))
           \/ args.group = "year" /\ \E o \in selected : Cardinality(years(o)) # 1 -> Fail("Incomplete")
        [] OTHER -> [type |-> "aggregate", value |-> Cardinality(selected), ids |-> selected,
                     inputs |-> Considered(source), complete |-> TRUE, window |-> w,
                     policy |-> <<args.unit, args.attribution, args.institution, args.topic, args.source>>,
                     series |-> IF args.group # "year" THEN {}
                                ELSE {<<y, Cardinality({o \in selected : years(o) = {y}})>> :
                                        y \in UNION {years(o) : o \in selected}}]

Aggregate(g, args, values) ==
  IF args.metric = "count" THEN Count(g, args, values)
  ELSE IF \/ \E a \in Rows(g, values[args.input].ids) : a.head # args.subject \/ a.relation # "affiliatedWith"
          \/ [id |-> args.subject, kind |-> "Author"] \notin g.entities
          \/ args.metric = "mobility_returns" /\ Cardinality(Employment(g, args.subject)) > MaxEvents
       THEN Fail("ValueError")
       ELSE IF args.metric = "event_trace" THEN EventTrace(g, args.subject, Windowed(values, args))
       ELSE ReturnMoves(g, args.subject, Windowed(values, args))

\* Faulty variant of OutOfOrder: only the latest possible days are compared.
OutOfOrderLate(t, last) == Known(last) /\ t.upper < last

\* The event may be before the latest day of the one before it.
OutOfOrder(t, last) == Known(last) /\ t.lower < last

\* The search, breadth first: a partial path is where it is, the edges it took,
\* the entities it went through and the latest day of its last event.
Origin(q) == IF q.direction = "out" THEN "head" ELSE "tail"
Toward(q) == IF q.direction = "out" THEN "tail" ELSE "head"
Misordered(q, p, a) == q.rule = "nondecreasing" /\ OutOfOrder(a.time, p.last)
Tried(g, q, ps) == {c \in ps \X {a \in g.assertions : a.relation \in q.relations} : c[2][Origin(q)] = c[1].at}
Taken(g, q, w, ps) == {c \in Tried(g, q, ps) : Membership(c[2].time, w) = "inside" /\ ~Misordered(q, c[1], c[2])}
Go(q, c) == [at |-> c[2][Toward(q)], edges |-> Append(c[1].edges, c[2]),
             through |-> c[1].through \cup {c[2][Toward(q)]}, last |-> c[2].time.upper]

\* The partial paths of each length.
Levels(g, q, w, starts) ==
  LET level[n \in 0..q.hops] ==
        IF n = 0 THEN {[at |-> e, edges |-> <<>>, through |-> {e}, last |-> NoDay] : e \in starts}
        ELSE {Go(q, c) : c \in {x \in Taken(g, q, w, level[n - 1]) :
                                  x[2][Toward(q)] \notin {q.target} \cup x[1].through}}
  IN  level

Elapsed(es) ==
  LET a == es[1].time  b == es[Len(es)].time  from(x) == IF x > 0 THEN x ELSE 0
  IN  IF Len(es) = 1 THEN <<0, 0>> ELSE <<from(b.lower - a.upper), from(b.upper - a.lower)>>

Paths(g, args, values) ==
  LET w == Windowed(values, args)
      level == Levels(g, args, w, values[args.input].ids)
      expanded == UNION {level[n] : n \in 0..(args.hops - 1)}
      found == {Go(args, c) : c \in {x \in Taken(g, args, w, expanded) : x[2][Toward(args)] = args.target}}
  IN  IF \/ args.target \notin Ids(g)
         \/ \E c \in Tried(g, args, expanded) :
              \/ Membership(c[2].time, w) = "indeterminate"
              \/ /\ Membership(c[2].time, w) = "inside"
                 /\ \/ c[2][Toward(args)] \notin Ids(g)
                    \/ Misordered(args, c[1], c[2]) /\ c[2].time.upper >= c[1].last
         \/ Cardinality(UNION {level[n] : n \in 0..args.hops}) > MaxSearch
         \/ Cardinality(found) > MaxPaths
      THEN Fail("Incomplete")
      ELSE [type |-> "paths", complete |-> TRUE, window |-> w, hops |-> args.hops, rule |-> args.rule,
            paths |-> {[assertions |-> [i \in DOMAIN p.edges |-> p.edges[i].id],
                        elapsed |-> Elapsed(p.edges)] : p \in found},
            inputs |-> {c[2].id : c \in Tried(g, args, expanded)}]

Compare(args, values) ==
  LET l == values[args.left]
      r == values[args.right]
      pattern(w) == <<w.start % YearLength, w.end % YearLength, Year(w.end) - Year(w.start)>>
  IN  CASE \/ l.policy # r.policy
           \/ l.window.reference # r.window.reference \/ l.window.end >= r.window.start
           \/ args.matched /\ pattern(l.window) # pattern(r.window) -> Fail("ValueError")
        [] args.operation = "ratio" /\ l.value = 0 -> Fail("Incomplete")
        [] OTHER -> [type |-> "comparison", operation |-> args.operation, complete |-> TRUE,
                     numerator |-> IF args.operation = "ratio" THEN r.value ELSE r.value - l.value,
                     denominator |-> IF args.operation = "ratio" THEN l.value ELSE 1,
                     before |-> l, after |-> r]

\* What UpdateState stores, if the value has the key's type.
Stored(key, v) ==
  CASE key = "resolved_ids" /\ v.type = "entities" -> {v.ids}
    [] key = "topic_id" /\ v.type = "entities" -> {x \in v.ids : v.kind = "Topic" /\ v.ids = {x}}
    [] key = "window" /\ v.type = "window" -> {v.period}
    [] key = "reference_date" /\ v.type = "window" -> {v.period.reference}
    [] v.type = "state" -> {v.value : k \in {key} \cap {v.key}}
    [] OTHER -> {}

\* The result types an operation finds the fields it reads in (a KeyError else).
Reads == [Expand |-> {"entities", "edges"}, FilterInterval |-> {"edges"}, Aggregate |-> {"edges"},
          PathSearch |-> {"entities", "edges", "aggregate"}, CompareWindows |-> {"aggregate"}]

Readable(s, values) ==
  /\ "window" \in DOMAIN s.args => values[s.args.window].type = "window"
  /\ s.op \in DOMAIN Reads => \A x \in Refs(s.args) \ {s.args[k] : k \in {"window"} \cap DOMAIN s.args} :
                                values[x].type \in Reads[s.op]

Perform(g, s, values, state) ==
  IF ~Readable(s, values) THEN Fail("KeyError") ELSE
  CASE s.op = "ResolveEntity" -> Resolve(g, s.args)
    [] s.op = "NormalizeTime" -> [type |-> "window", period |-> s.args.period]
    [] s.op = "FilterInterval" -> Filter(g, s.args, values)
    [] s.op = "Expand" -> Expand(g, s.args, values)
    [] s.op = "Aggregate" -> Aggregate(g, s.args, values)
    [] s.op = "PathSearch" -> Paths(g, s.args, values)
    [] s.op = "CompareWindows" -> Compare(s.args, values)
    [] s.op = "ProjectProvenance" -> [type |-> "provenance", of |-> values[s.args.input],
                                      graph |-> g, complete |-> TRUE]
    [] s.op = "ReadState" -> IF s.args.key \notin DOMAIN state THEN Fail("Clarify")
                             ELSE [type |-> "state", key |-> s.args.key, value |-> state[s.args.key]]
    [] s.op = "UpdateState" -> IF Stored(s.args.key, values[s.args.input]) = {} THEN Fail("ValueError")
                               ELSE [type |-> "state", key |-> s.args.key,
                                     value |-> CHOOSE v \in Stored(s.args.key, values[s.args.input]) : TRUE]

\* What is known after a step s with the result r.
Advanced(prior, s, r, release) ==
  IF prior.stop # None THEN prior
  ELSE IF Failed(r) THEN [prior EXCEPT !.stop = r.type]
  ELSE [stop |-> None, values |-> Over([k \in {s.id} |-> r], prior.values),
        state |-> IF s.op # "UpdateState" THEN prior.state
                  ELSE Over([k \in {s.args.key} |-> r.value], Over([release_id |-> release], prior.state))]

\* What is known after each number of steps, in order.
Runs(g, p, release, state) ==
  LET run[n \in 0..Len(p.steps)] ==
        IF n = 0 THEN [stop |-> None, values |-> << >>, state |-> state]
        ELSE LET prior == run[n - 1]
             IN  Advanced(prior, p.steps[n], Perform(g, p.steps[n], prior.values, prior.state), release)
  IN  run

\* Executor.execute: the steps until one raises.
Execute(g, p, release, state) ==
  IF p.release # release \/ ("release_id" \in DOMAIN state /\ state["release_id"] # release)
  THEN [stop |-> "ValueError", values |-> << >>, state |-> state]
  ELSE Runs(g, p, release, state)[Len(p.steps)]

-----------------------------------------------------------------------------
\* The programs of the request families.

\* Faulty variant of Step: the window is not declared as a dependency.
StepUndeclared(id, op, args) == [id |-> id, op |-> op, args |-> args, deps |-> Refs(args) \ {"window"}]

Step(id, op, args) == [id |-> id, op |-> op, args |-> args, deps |-> Refs(args)]
ExpandBy(id, input, relation, direction) ==
  Step(id, "Expand", [input |-> input, relation |-> relation, direction |-> direction,
                      headKind |-> Relations[relation].head,
                      tailKind |-> CHOOSE k \in Relations[relation].tails : TRUE])
Counting(input, window, unit) ==
  [input |-> input, window |-> window, unit |-> unit, attribution |-> "recorded_relation",
   institution |-> None, topic |-> None, source |-> None, group |-> "none",
   metric |-> "count", subject |-> None]

Subject(r) == Step("subject", "ResolveEntity", [kind |-> r.kind, identifier |-> r.identifier, name |-> r.name,
                     place |-> r.place, role |-> r.role, source |-> r.source])
Asked(r) == Step("window", "NormalizeTime", [period |-> r.window])

\* Expansions from the subject, and what is done with them.
Authors == ExpandBy("authors", "subject", "affiliatedWith", "in")
PapersOf(r) == ExpandBy("papers", IF r.kind = "Institution" THEN "authors" ELSE "subject", "authorOf", "out")
Related(relation) == ExpandBy("relations", "subject", relation, "out")
Announced == ExpandBy("announcements", "subject", "announcedSite", "out")
Sited == Step("sites", "Aggregate", Counting("relations", "window", "Institution"))
TraceOf(r) == Step("trace", "Aggregate", [Counting("relations", "window", "Institution") EXCEPT
  !.subject = r.identifier, !.metric = IF r.family = "state" THEN "event_trace" ELSE "mobility_returns"])
Timeline == Step("timeline", "FilterInterval", [input |-> "relations", window |-> "window", mode |-> "overlap"])
Searched(r) == Step("paths", "PathSearch",
  [input |-> "subject", target |-> r.target, relations |-> r.relations, window |-> "window",
   hops |-> r.hops, rule |-> r.rule, direction |-> r.direction])

\* Counts of papers, in one window or in two.
Place(r) == IF r.institution # None THEN r.institution ELSE IF r.kind = "Institution" THEN r.identifier ELSE None
PaperCount(r, id, window) ==
  Step(id, "Aggregate", [Counting("papers", window, "Paper") EXCEPT
    !.topic = r.topic, !.institution = Place(r),
    !.attribution = IF r.kind = "Institution" \/ r.institution # None THEN "publication_authorship" ELSE @])
AskedBefore(r) == Step("before_window", "NormalizeTime", [period |-> r.before])
Compared == Step("comparison", "CompareWindows",
                 [left |-> "before", right |-> "after", operation |-> "ratio", matched |-> TRUE])
CountSteps(r) == (IF r.kind = "Institution" THEN <<Authors>> ELSE <<>>) \o <<PapersOf(r), PaperCount(r, "after", "window")>>

\* The steps of a family, between those that all have.
Body(r) ==
  CASE r.family = "identity" -> <<>>
    [] r.family = "path" -> <<Searched(r)>>
    [] r.family = "count" -> CountSteps(r)
    [] r.family = "comparison" -> CountSteps(r) \o <<AskedBefore(r), PaperCount(r, "before", "before_window"), Compared>>
    [] r.family = "sites" -> <<Related("hasSite"), Sited, Announced>>
    [] r.family \in {"state", "returns"} -> <<Related("affiliatedWith"), TraceOf(r)>>
    [] r.family = "timeline" -> <<Related("affiliatedWith"), Timeline>>

Output(r) == CASE r.family = "identity" -> "subject" [] r.family = "path" -> "paths" [] r.family = "count" -> "after"
               [] r.family \in {"state", "returns"} -> "trace" [] OTHER -> r.family
Projected(r) == Step("provenance", "ProjectProvenance", [input |-> Output(r)])

PlanRequest(r, release) ==
  [release |-> release, output |-> Output(r), steps |-> <<Subject(r), Asked(r)>> \o Body(r) \o <<Projected(r)>>]
=============================================================================
