----------------------------- MODULE MCAnalysis -----------------------------
(* Small instances of Analysis: one author, two institutions, two papers. *)
EXTENDS Analysis, TLC

Range(lower, upper, precision) ==
  [lower |-> lower, upper |-> upper, precision |-> precision,
   end |-> IF Known(lower) /\ Known(upper) THEN "bounded" ELSE "unknown"]
Day(d) == Exact(d)
Between(l, u) == Range(l, u, "year")
Since(l) == [lower |-> l, upper |-> NoDay, precision |-> "interval", end |-> "ongoing"]

Says(id, head, relation, tail, time) ==
  [id |-> id, head |-> head, relation |-> relation, tail |-> tail, time |-> time,
   kind |-> "recorded", source |-> "s1", institutions |-> {}, role |-> None, start |-> NoRange, end |-> NoRange]
Job(id, place, start, end) ==
  [Says(id, "au", "affiliatedWith", place, Period(start, end)) EXCEPT
     !.kind = "employment", !.start = start, !.end = end, !.source = "s2"]

Entities == {[id |-> "au", kind |-> "Author"], [id |-> "av", kind |-> "Author"],
             [id |-> "i1", kind |-> "Institution"], [id |-> "i2", kind |-> "Institution"],
             [id |-> "p1", kind |-> "Paper"], [id |-> "p2", kind |-> "Paper"], [id |-> "p3", kind |-> "Paper"],
             [id |-> "t", kind |-> "Topic"]}
Observed == {[id |-> "oa", entity |-> "au", names |-> {"Ann"}, source |-> "s1"],
             [id |-> "ov", entity |-> "av", names |-> {"Ann"}, source |-> "s2"]}

Graph(assertions) ==
  [entities |-> Entities, assertions |-> assertions, observations |-> Observed,
   identities |-> {[source |-> "orcid", canonical |-> "au"]}, sources |-> {"s1", "s2"}]

\* Publications, with dates that are known, wide, open or in disagreement.
Papers == {Says("a1", "au", "authorOf", "p1", Day(3)),
           [Says("a2", "au", "authorOf", "p2", Between(5, 7)) EXCEPT !.institutions = {"i1"}],
           Says("a3", "au", "authorOf", "p1", Day(7)),
           Says("a4", "au", "authorOf", "p2", Unknown),
           [Says("a5", "av", "authorOf", "p1", Day(2)) EXCEPT !.institutions = {"i1"}],
           Says("c1", "p1", "classifiedAs", "t", Unknown)}
\* Appointments, away and back.
Jobs == {[Job("j1", "i1", Day(1), Between(2, 3)) EXCEPT !.role = "fellow"], Job("j2", "i2", Between(3, 4), Day(5)),
         Job("j3", "i2", Between(4, 4), Unknown), Job("j4", "i1", Between(6, 7), Unknown),
         [Job("j5", "i1", Day(2), Unknown) EXCEPT !.time = Since(2), !.start = NoRange, !.end = NoRange]}
\* Citations, for the paths.
Cites == {Says("x1", "p1", "citesPaper", "p2", Between(1, 4)), Says("x2", "p2", "citesPaper", "p3", Day(3)),
          Says("x3", "p2", "citesPaper", "p3", Between(3, 5)), Says("x4", "p1", "citesPaper", "p3", Day(2)),
          Says("x5", "p1", "citesPaper", "p2", Day(2))}
Sites == {Says("s1", "i1", "hasSite", "i2", Day(2)), Says("s2", "i1", "announcedSite", "i2", Unknown)}

Small(pool, n) == {s \in SUBSET pool : Cardinality(s) <= n}
MCGraphs == {Graph(s) : s \in Small(Papers, 3) \cup Small(Jobs, 3) \cup Small(Cites, 3)
                              \cup {Sites, {CHOOSE j \in Jobs : j.id = "j1"} \cup {a \in Papers : a.id \in {"a2", "a5"}}}}
MCLate == Says("late", "au", "authorOf", "p3", Day(4))
MCDays == 0..7

Base == [family |-> "identity", kind |-> "Author", identifier |-> "au", name |-> None, place |-> None,
         role |-> None, source |-> None, window |-> [start |-> 2, end |-> 6, reference |-> 7],
         before |-> None, topic |-> None, institution |-> None, target |-> None, relations |-> {},
         hops |-> 2, rule |-> "nondecreasing", direction |-> "out", causal |-> FALSE, previous |-> FALSE,
         scope |-> "frozen_release"]
Narrow == [start |-> 4, end |-> 7, reference |-> 7]
MCRequests ==
  {Base, [Base EXCEPT !.identifier = None, !.name = "Ann"], [Base EXCEPT !.identifier = "orcid"],
   [Base EXCEPT !.identifier = None],
   [Base EXCEPT !.identifier = None, !.name = "Ann", !.place = "i1"],
   [Base EXCEPT !.identifier = None, !.name = "Ann", !.role = "fellow"],
   [Base EXCEPT !.family = "count"], [Base EXCEPT !.family = "count", !.previous = TRUE, !.causal = TRUE],
   [Base EXCEPT !.family = "count", !.topic = "t", !.scope = "real_world"],
   [Base EXCEPT !.family = "comparison", !.window = Narrow, !.before = [start |-> 0, end |-> 3, reference |-> 7]],
   [Base EXCEPT !.family = "count", !.kind = "Institution", !.identifier = "i1"],
   [Base EXCEPT !.family = "sites", !.kind = "Institution", !.identifier = "i1", !.causal = TRUE],
   [Base EXCEPT !.family = "path", !.kind = "Paper", !.identifier = "p1", !.target = "p3",
                !.relations = {"citesPaper"}, !.window = [start |-> 0, end |-> 7, reference |-> 7]],
   [Base EXCEPT !.family = "path", !.kind = "Paper", !.identifier = "p3", !.target = "p1", !.direction = "in",
                !.relations = {"citesPaper"}, !.window = [start |-> 0, end |-> 7, reference |-> 7]],
   [Base EXCEPT !.family = "path", !.target = "p3", !.relations = {"wrote"}],
   [Base EXCEPT !.family = "timeline"], [Base EXCEPT !.family = "state"],
   [Base EXCEPT !.family = "returns", !.window = [start |-> 0, end |-> 7, reference |-> 7]]}
MCFollowups == {r \in MCRequests : r.previous}

\* Programs of a resolved author, a window, its expansion and two more steps.
Opening == <<Step("e", "ResolveEntity", [kind |-> "Author", identifier |-> "au", name |-> None, place |-> None,
                                         role |-> None, source |-> None]),
             Step("w", "NormalizeTime", [period |-> Base.window]),
             ExpandBy("r", "e", "affiliatedWith", "out")>>
Traced(metric) == [Counting("r", "w", "Institution") EXCEPT !.metric = metric, !.subject = "au"]
Third == {Step("x", "Aggregate", Traced(m)) : m \in {"count", "event_trace", "mobility_returns"}}
         \cup {Step("x", "FilterInterval", [input |-> i, window |-> v, mode |-> "overlap"]) : i \in {"r", "e"}, v \in {"w", "e"}}
         \cup {ExpandBy("x", "e", "authorOf", "out"), Step("x", "ReadState", [key |-> "window"]),
               Step("x", "UpdateState", [input |-> "w", key |-> "window"])}
Fourth == {Step("y", "CompareWindows", [left |-> i, right |-> "x", operation |-> "difference", matched |-> TRUE]) : i \in {"x", "r"}}
          \cup {Step("y", "Aggregate", Counting("x", "w", "Institution")), ExpandBy("y", "x", "authorOf", "out"),
                Step("y", "PathSearch", [input |-> "x", target |-> "i1", relations |-> {"affiliatedWith"}, window |-> "w",
                       hops |-> 2, rule |-> "within_window", direction |-> "out"]),
                Step("y", "ProjectProvenance", [input |-> "x"]), Step("y", "UpdateState", [input |-> "x", key |-> "window"])}
MCPrograms == {[release |-> Release, output |-> "y", steps |-> Opening \o <<x, y>>] : x \in Third, y \in Fourth}
=============================================================================
