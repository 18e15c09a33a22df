-------------------------------- MODULE Dates --------------------------------
(***************************************************************************)
(* Uncertain dates (core/contracts.py) and what the analysis says about    *)
(* appointments and publications from them (analysis/temporal.py).         *)
(*                                                                         *)
(* A day is an integer.  A time range bounds one unknown day; a range of   *)
(* precision "interval" bounds a period instead.  An assertion has a time, *)
(* and start and end: the recorded uncertainty of its end points, or       *)
(* NoRange.                                                                *)
(***************************************************************************)
EXTENDS Integers, FiniteSets

CONSTANTS NoDay,    \* a bound that is not known
          NoRange   \* no recorded end point uncertainty

Known(d) == d # NoDay
Unknown == [lower |-> NoDay, upper |-> NoDay, precision |-> "unknown", end |-> "unknown"]

\* TimeRange.valid.
Valid(t) ==
  /\ Known(t.lower) /\ Known(t.upper) => t.lower <= t.upper
  /\ t.end = "ongoing" => Known(t.lower) /\ ~Known(t.upper)
  /\ t.end = "bounded" => Known(t.lower) /\ Known(t.upper)
  /\ t.precision = "day" => t.lower = t.upper

\* TimeRange.parse of a year, a month or a day, by its first and last day; of
\* nothing and of prose.
Parse(raw) ==
  IF raw.kind \in {"year", "month", "day"}
  THEN [lower |-> raw.first, upper |-> raw.last, precision |-> raw.kind, end |-> "bounded"]
  ELSE Unknown

Exact(d) == IF Known(d) THEN Parse([kind |-> "day", first |-> d, last |-> d]) ELSE Unknown

\* The period of an affiliation from its two dates (sources.py:83-87).
Period(start, end) ==
  [lower |-> start.lower, upper |-> end.upper, precision |-> "interval",
   end |-> IF Known(start.lower) /\ Known(end.upper) THEN "bounded" ELSE "unknown"]

Before(t, d) == Known(t.upper) /\ t.upper < d
After(t, d) == Known(t.lower) /\ t.lower > d
Bounded(t) == Known(t.lower) /\ Known(t.upper)

Membership(t, w) ==
  IF Before(t, w.start) \/ After(t, w.end) THEN "outside"
  ELSE IF Bounded(t) /\ w.start <= t.lower /\ t.upper <= w.end THEN "inside" ELSE "indeterminate"

\* Of a period: it meets the window (graph_program.py:191-196).
Overlap(t, w) ==
  IF Before(t, w.start) \/ After(t, w.end) THEN "outside"
  ELSE IF Bounded(t) THEN "inside" ELSE "indeterminate"

-----------------------------------------------------------------------------
\* Appointments.

Start(a) == IF a.start # NoRange THEN a.start
            ELSE IF a.time.precision = "interval" THEN Exact(a.time.lower) ELSE a.time
End(a) == IF a.end # NoRange THEN a.end
          ELSE IF a.time.precision = "interval" THEN Exact(a.time.upper) ELSE Unknown

\* Faulty variant of ActiveStatus: active from the first possible day on.
ActiveStatusEarly(a, at, reference) ==
  IF at > reference THEN "unknown"
  ELSE IF After(Start(a), at) \/ Before(End(a), at) THEN "inactive"
  ELSE IF Known(Start(a).lower) /\ Known(End(a).lower) /\ at <= End(a).lower THEN "active" ELSE "unknown"

ActiveStatus(a, at, reference) ==
  IF at > reference THEN "unknown"
  ELSE IF After(Start(a), at) \/ Before(End(a), at) THEN "inactive"
  ELSE IF /\ Known(Start(a).upper) /\ at >= Start(a).upper
          /\ (Known(End(a).lower) /\ at <= End(a).lower) \/ a.time.end = "ongoing"
       THEN "active" ELSE "unknown"

Employment(g, author) ==
  {a \in g.assertions : /\ a.head = author /\ a.kind = "employment"
                        /\ a.relation \in {"affiliatedWith", "visitingAt", "emeritusAt"}}
Authorships(g, author) == {a \in g.assertions : a.head = author /\ a.relation = "authorOf"}

\* The days an event trace looks at.
TraceDates(g, author, w) ==
  LET ranges == {Start(a) : a \in Employment(g, author)} \cup {End(a) : a \in Employment(g, author)}
                  \cup {a.time : a \in Authorships(g, author)}
      days == ({t.lower : t \in ranges} \cup {t.upper : t \in ranges}) \ {NoDay}
  IN  {w.start, w.end} \cup {d \in days : w.start <= d /\ d <= w.end}

Recorded(t, at) == IF Known(t.upper) /\ t.upper <= at THEN "recorded"
                   ELSE IF After(t, at) THEN "future" ELSE "unknown"

\* What the trace says of one day.
StateAt(g, author, w, at) ==
  LET with(status) == {a.tail : a \in {x \in Employment(g, author) :
                                         ActiveStatus(x, at, w.reference) = status}}
      says(p) == {Recorded(a.time, at) : a \in {x \in Authorships(g, author) : x.tail = p}}
      all == {a.tail : a \in Authorships(g, author)}
      papers == {p \in all : says(p) = {"recorded"}}
      from(relation) == {a \in g.assertions : a.head \in papers /\ a.relation = relation}
  IN  [active |-> with("active"), uncertain |-> with("unknown"),
       papers |-> papers, uncertainPapers |-> {p \in all \ papers : says(p) # {"future"}},
       collaborators |-> {a.head : a \in {x \in g.assertions : x.relation = "authorOf"
                                            /\ x.tail \in papers /\ x.head # author}},
       topics |-> {a.tail : a \in from("classifiedAs")}, grants |-> {a.tail : a \in from("fundedBy")},
       patents |-> {a.tail : a \in {x \in from("citedByPatent") : Recorded(x.time, at) = "recorded"}}]

\* The assertions the trace read, the operands of its witness.
Consulted(g, author, w) ==
  LET papers == UNION {StateAt(g, author, w, at).papers : at \in TraceDates(g, author, w)} IN
  Employment(g, author) \cup Authorships(g, author)
    \cup {a \in g.assertions : \/ a.relation = "authorOf" /\ a.tail \in papers
                               \/ /\ a.relation \in {"classifiedAs", "fundedBy", "citedByPatent"}
                                  /\ a.head \in papers}

EventTrace(g, author, w) ==
  [type |-> "event_trace", complete |-> TRUE, window |-> w,
   states |-> [at \in TraceDates(g, author, w) |-> StateAt(g, author, w, at)],
   inputs |-> {a.id : a \in Consulted(g, author, w)}]

\* Every day a may have ended is before every day b may have started.
Departed(a, b) == Before(End(a), Start(b).lower)

\* A-to-B-to-A by three appointments, in order.
ReturnMoves(g, author, w) ==
  LET apps == Employment(g, author)
      considered == {m \in apps \X apps \X apps :
        LET s == [i \in 1..3 |-> Start(m[i])] IN
        /\ m[1] # m[2] /\ m[2] # m[3] /\ m[1] # m[3]
        /\ m[1].tail = m[3].tail /\ m[2].tail # m[1].tail
        /\ \A i \in 1..3 : Bounded(s[i]) /\ ~After(s[i], w.end) /\ ~Before(s[i], w.start)
        /\ s[1].lower <= s[2].upper /\ s[2].lower <= s[3].upper
        /\ <<s[1].lower, s[1].upper>> # <<s[3].lower, s[3].upper>>}
      certain == {m \in considered : LET s == [i \in 1..3 |-> Start(m[i])] IN
        /\ s[1].upper < s[2].lower /\ s[2].upper < s[3].lower
        /\ Departed(m[1], m[2]) /\ Departed(m[2], m[3])
        /\ s[1].lower >= w.start /\ s[3].upper <= w.end}
      elapsed(m) == LET s == [i \in 1..3 |-> Start(m[i])] IN
        <<IF s[3].lower > s[1].upper THEN s[3].lower - s[1].upper ELSE 0, s[3].upper - s[1].lower>>
      say(m) == [assertions |-> <<m[1].id, m[2].id, m[3].id>>, elapsed |-> elapsed(m)]
  IN  [type |-> "mobility_returns", complete |-> TRUE, window |-> w,
       returns |-> {say(m) : m \in certain}, ambiguous |-> {say(m) : m \in considered \ certain},
       inputs |-> EventTrace(g, author, w).inputs]

-----------------------------------------------------------------------------
\* Reference definitions, for the checks: the days an event may have been on,
\* and the periods an appointment may have had.

Possible(t, days) == {d \in days : ~After(t, d) /\ ~Before(t, d)}
Periods(a, days) == {p \in Possible(Start(a), days) \X Possible(End(a), days) : p[1] <= p[2]}
In(d, w) == w.start <= d /\ d <= w.end
=============================================================================
