------------------------------ MODULE Analysis ------------------------------
(***************************************************************************)
(* A typed question about a frozen release, answered by seven roles in     *)
(* turn (analysis/workflow.py), as the chat command runs it (cli.py): the  *)
(* subject is resolved, a program planned and executed on the working      *)
(* graph, its results drafted as claims, verified, given witnesses that    *)
(* replay on the frozen graph, and rendered.  The dialogue keeps the       *)
(* resolved entities and the witnesses, a checkpoint saved by compare and  *)
(* set, from one question to the next.                                     *)
(*                                                                         *)
(* One service holds the application lock of its graph for a whole         *)
(* command, so its questions are one at a time and its graph changes only  *)
(* between them; another service with the same ledger may save the same    *)
(* dialogue at any moment.  A digest is the value it is the digest of.     *)
(***************************************************************************)
EXTENDS GraphProgram

CONSTANTS Release,     \* the release the dialogue is about
          Graphs,      \* graphs to freeze
          Requests,    \* typed requests
          Followups,   \* those asked after the first (bound)
          Late,        \* an assertion integrated after the release
          Programs,    \* programs for the validator, for the properties
          Other,       \* the entity that another service's question is about
          MaxTurns,    \* bound on questions
          Days         \* the days events may have been on, for the properties

\* A window (contracts.py:83-93), and what AnalysisRequest.valid leaves of requests.
IsWindow(w) == {w.start, w.end, w.reference} \subseteq Int /\ w.start <= w.end

IsRequest(r) ==
  /\ DOMAIN r = {"family", "kind", "identifier", "name", "place", "role", "source", "window", "before", "topic",
                 "institution", "target", "relations", "hops", "rule", "direction", "causal", "previous", "scope"}
  /\ r.family \in {"identity", "path", "count", "comparison", "sites", "state", "returns", "timeline"}
  /\ IsWindow(r.window) /\ (r.family = "comparison" => IsWindow(r.before))
  /\ r.family = "path" => r.target # None /\ r.relations # {}
  /\ r.family \in {"count", "comparison"} => r.kind \in {"Author", "Institution"}
  /\ r.family = "sites" => r.kind = "Institution"
  /\ r.family \in {"timeline", "state", "returns"} => r.kind = "Author"
  /\ r.hops \in 1..6 /\ r.rule \in {"nondecreasing", "within_window"} /\ r.direction \in {"out", "in"}
  /\ {r.causal, r.previous} \subseteq BOOLEAN /\ r.scope \in {"frozen_release", "real_world"}

\* What a frozen graph is: every id names one entity or assertion, sources have
\* names of their own, dates are valid, and relations have their signature.
IsRange(t) == Valid(t) /\ {t.lower, t.upper} \subseteq Int \cup {NoDay}
IsGraph(g) ==
  /\ DOMAIN g = {"entities", "assertions", "observations", "identities", "sources"}
  /\ IsFiniteSet(g.entities) /\ IsFiniteSet(g.assertions)
  /\ \A e \in g.entities : e = [id |-> e.id, kind |-> e.kind] /\ e.id # None
  /\ \A e, f \in g.entities : e.id = f.id => e = f
  /\ \A a, b \in g.assertions : a.id = b.id => a = b
  /\ \A i \in g.identities : i.source \notin Ids(g)
  /\ \A a \in g.assertions : \A t \in {a.time, a.start, a.end} : t = NoRange \/ IsRange(t)
  /\ \A a \in g.assertions : /\ a.time # NoRange
                             /\ a.relation \in DOMAIN Relations => \A e \in g.entities :
                                  e.id = a.tail => e.kind \in Relations[a.relation].tails

ASSUME RequestsAssumption == (\A r \in Requests : IsRequest(r)) /\ Followups \subseteq Requests
ASSUME ProgramsAssumption == \A p \in Programs : IsProgram(p)
ASSUME GraphsAssumption == \A g \in Graphs : IsGraph(g)
ASSUME TurnsAssumption == MaxTurns \in Nat
ASSUME DaysAssumption == /\ Days \subseteq Int
                         /\ \A g \in Graphs : \A a \in g.assertions : {a.time.lower, a.time.upper} \ {NoDay} \subseteq Days

VARIABLES frozen,      \* the graph of the release
          working,     \* the graph in the database
          dialogue,    \* the checkpoint: [state, revision], state Unset before the first
          turns,       \* questions asked (bound)
          stage,       \* the role whose turn is next, "save" or "idle"
          attempt,     \* failed attempts of the planner
          work,        \* the locals of analyze
          outcome

vars == <<frozen, working, dialogue, turns, stage, attempt, work, outcome>>

\* The question and the checkpoint as it was read, then what each role made.
request == work.request
state == work.state
revision == work.revision
plan == work.plan
execution == work.execution
draft == work.draft
checked == work.checked
mapping == work.mapping

Unset == <<>>   \* a local that is not assigned yet
Fresh(r, now) == [request |-> r, state |-> now, revision |-> dialogue.revision, plan |-> Unset,
                  execution |-> Unset, draft |-> Unset, checked |-> Unset, mapping |-> Unset]

-----------------------------------------------------------------------------
\* Claims (analysis/claims.py).

Predicates == [aggregate |-> "recorded_count", comparison |-> "recorded_comparison",
               paths |-> "recorded_paths", edges |-> "recorded_facts", entities |-> "recorded_identity",
               event_trace |-> "recorded_state", mobility_returns |-> "recorded_returns"]

Candidate(step, result, scope) ==
  [id |-> <<step, Predicates[result.type], scope>>, predicate |-> Predicates[result.type],
   step |-> step, scope |-> scope, original |-> None, evidence |-> result,
   value |-> IF result.type = "aggregate" THEN [count |-> result.value] ELSE result]

Causal(c) == c.predicate = "causal_effect"

\* Faulty variant of Verify: evidence of the association supports its cause.
VerifyAssociation(c, pool) ==
  LET expected == Candidate(c.step, pool[c.step], "frozen_release")
      says(label, licensed) == [claim |-> c, label |-> label, licensed |-> licensed]
  IN  IF c.scope # "frozen_release" THEN says("Partial", <<[expected EXCEPT !.original = c.id]>>)
      ELSE says("Supported", <<c>>)

Verify(c, pool) ==
  LET expected == Candidate(c.step, pool[c.step], "frozen_release")
      says(label, licensed) == [claim |-> c, label |-> label, licensed |-> licensed]
  IN  IF c.step \notin DOMAIN pool \/ ~pool[c.step].complete THEN says("NEI", <<>>)
      ELSE IF c.evidence # pool[c.step] THEN says("Unsupported", <<>>)
      ELSE IF Causal(c) THEN says("NEI", <<>>)
      ELSE IF c.predicate # expected.predicate \/ c.value # expected.value THEN says("Contradicted", <<>>)
      ELSE IF c.scope # "frozen_release" THEN says("Partial", <<[expected EXCEPT !.original = c.id]>>)
      ELSE says("Supported", <<c>>)

\* The claims drafted for a request: of its output, of both counts of a
\* comparison, of the announcements beside the sites, and of a cause if asked.
Selected(r, p) == CASE r.family = "comparison" -> <<"before", "after", p.output>>
                    [] r.family = "sites" -> <<p.output, "announcements">>
                    [] OTHER -> <<p.output>>

Draft(r, p, pool) ==
  LET selected == Selected(r, p)
      claims == [i \in DOMAIN selected |-> Candidate(selected[i], pool[selected[i]], r.scope)]
      base == claims[Len(claims)]
  IN  claims \o IF r.causal THEN <<[base EXCEPT !.id = Append(@, "causal"), !.predicate = "causal_effect",
                                                !.value = [effect |-> TRUE]]>> ELSE <<>>

-----------------------------------------------------------------------------
\* Witnesses (analysis/general_witness.py).

\* Faulty variant of Operands: an expansion's own assertions are left out.
OperandsInputsOnly(v) == IF "inputs" \in DOMAIN v THEN v.inputs ELSE {}

\* The records a step's result rests on.
Operands(v) == (IF "inputs" \in DOMAIN v THEN v.inputs ELSE {})
                 \cup (IF v.type = "edges" THEN v.ids \cup Considered(v) ELSE {})

Records(g) == g.assertions \cup g.observations
RecordSource(g, id) == (CHOOSE x \in Records(g) : x.id = id).source

\* The weighted greedy cover; every card costs one.
GreedyCover(obligations, offers) ==
  LET gain(k, remaining) == Cardinality(offers[k] \cap remaining)
      best(remaining) == CHOOSE k \in DOMAIN offers :
        \A other \in DOMAIN offers : gain(k, remaining) >= gain(other, remaining)
      pick[n \in 0..Cardinality(DOMAIN offers)] ==
        IF n = 0 THEN [remaining |-> obligations, selected |-> {}]
        ELSE LET prior == pick[n - 1]
                 k == best(prior.remaining)
             IN  IF prior.remaining = {} THEN prior
                 ELSE [remaining |-> prior.remaining \ offers[k], selected |-> prior.selected \cup {k}]
  IN  pick[Cardinality(DOMAIN offers)]

\* The proof obligations of a claim, and the evidence cards that cover them.
ProofSelection(p, pool, c, g) ==
  LET steps == {p.steps[i].id : i \in DOMAIN p.steps}
      used == UNION {Operands(pool[s]) : s \in steps}
      general == {<<"release_integrity">>, <<"counterevidence">>, <<"claim_entailment">>}
      derived(s) == {<<"typed_derivation", s>>, <<"complete_operands", s>>}
      facts(source) == {<<"fact", id>> : id \in {x \in used : RecordSource(g, x) = source}}
      sources == {RecordSource(g, id) : id \in used}
      obligations == general \cup (UNION {derived(s) : s \in steps}) \cup (UNION {facts(x) : x \in sources})
      cards == {<<o>> : o \in general} \cup {<<"step", s>> : s \in steps} \cup {<<"source", x>> : x \in sources}
      offers == [k \in cards |-> CASE k[1] = "step" -> derived(k[2]) [] k[1] = "source" -> facts(k[2])
                                   [] OTHER -> {k[1]}]
  IN  [available |-> used \subseteq {x.id : x \in Records(g)}, obligations |-> obligations,
       cover |-> GreedyCover(obligations, offers), offers |-> offers]

\* The claim again on the results: it is supported, and its proof the same.
ClaimReplays(w, g, pool) ==
  LET selection == ProofSelection(w.program, pool, w.claim, g)
  IN  /\ Verify(w.claim, pool).label = "Supported"
      /\ selection.available /\ selection.cover.remaining = {}
      /\ w.obligations = selection.obligations /\ w.selected = selection.cover.selected

\* Replay: the program again on the frozen graph, and the claim on its results.
Replays(w, g) ==
  LET again == Execute(g, w.program, Release, w.stateBefore) IN
  again = w.execution /\ ClaimReplays(w, g, again.values)

Witness(c) ==
  LET selection == ProofSelection(plan, execution.values, c, frozen)
  IN  [program |-> plan, stateBefore |-> state, execution |-> execution, claim |-> c,
       obligations |-> selection.obligations, selected |-> selection.cover.selected]

-----------------------------------------------------------------------------
\* The fixed count of one author's papers (analysis/witness.py), which the ask
\* command answers by the same roles.

\* Faulty variant of CountFromRelease: a paper counts by one of its dates.
CountFromReleaseAnyDate(g, author, w) ==
  LET rows == Authorships(g, author)
      statuses(p) == {Membership(a.time, w) : a \in {x \in rows : x.tail = p}}
  IN  IF \E a \in rows : "indeterminate" \in statuses(a.tail) THEN Fail("Incomplete")
      ELSE [type |-> "count", papers |-> {a.tail : a \in {x \in rows : "inside" \in statuses(x.tail)}}]

CountFromRelease(g, author, w) ==
  LET rows == Authorships(g, author)
      statuses(p) == {Membership(a.time, w) : a \in {x \in rows : x.tail = p}}
  IN  IF \/ [id |-> author, kind |-> "Author"] \notin g.entities
         \/ \E a \in rows : \/ [id |-> a.tail, kind |-> "Paper"] \notin g.entities
                            \/ Disagreeing(statuses(a.tail))
      THEN Fail("Incomplete")
      ELSE [type |-> "count", papers |-> {a.tail : a \in {x \in rows : statuses(x.tail) = {"inside"}}}]

\* The database's own count, by the stored bounds.
CountPapers(g, author, w) ==
  {a.tail : a \in {x \in Authorships(g, author) :
     Bounded(x.time) /\ x.time.lower >= w.start /\ x.time.upper <= w.end}}

-----------------------------------------------------------------------------
\* The roles.

Init ==
  /\ frozen \in Graphs /\ working = frozen
  /\ dialogue = [state |-> Unset, revision |-> 0]
  /\ turns = 0 /\ stage = "idle" /\ attempt = 0 /\ outcome = None
  /\ work = Unset

Frame == UNCHANGED <<frozen, working, dialogue, turns>>
Say(result) == outcome' = result /\ stage' = "save" /\ UNCHANGED <<attempt, work>>
Pass(role) == stage' = role /\ UNCHANGED <<attempt, outcome>>

\* chat reads the checkpoint.  A changed graph or release ends the command with
\* an error; without one previous entity the outcome has no state to save, and
\* the command fails on it.
Open ==
  /\ stage = "idle" /\ turns < MaxTurns /\ turns' = turns + 1
  /\ \E r \in IF turns = 0 THEN Requests ELSE Followups :
       LET now == IF dialogue.state = Unset THEN [release_id |-> Release] ELSE dialogue.state
           previous == IF "resolved_ids" \in DOMAIN now THEN now.resolved_ids ELSE {}
           refused == \/ dialogue.state # Unset /\ dialogue.state.release_id # Release
                      \/ working # frozen
                      \/ r.previous /\ Cardinality(previous) # 1
       IN  IF refused
           THEN outcome' = [type |-> "Refused"] /\ UNCHANGED <<stage, work>>
           ELSE /\ stage' = "Manager" /\ outcome' = None
                /\ work' = Fresh(IF ~r.previous THEN r
                                 ELSE [r EXCEPT !.identifier = CHOOSE x \in previous : TRUE, !.name = None], now)
  /\ attempt' = 0 /\ UNCHANGED <<frozen, working, dialogue>>

Abstained == [type |-> "Abstain", state |-> state]

\* A request that names nobody is not a ResolveEntity at all.
Manager ==
  /\ stage = "Manager" /\ Frame
  /\ LET subject == Resolve(working, request) IN
     IF request.identifier = None /\ request.name = None THEN Say(Abstained)
     ELSE IF Failed(subject) THEN Say([type |-> "Clarify", state |-> state])
     ELSE /\ LET resolved == [request EXCEPT !.identifier = CHOOSE x \in subject.ids : TRUE, !.name = None]
             IN  work' = [work EXCEPT !.request = resolved, !.plan = PlanRequest(resolved, Release)]
          /\ Pass("Planner")

Planner ==
  /\ stage = "Planner" /\ Frame
  /\ IF Accepted(plan) THEN Pass("Retriever") /\ UNCHANGED work ELSE Say(Abstained)

\* The planner's first failure is repaired by a second attempt.
PlannerRetries ==
  /\ stage = "Planner" /\ attempt = 0 /\ attempt' = 1
  /\ UNCHANGED <<frozen, working, dialogue, turns, stage, outcome, work>>

Retriever ==
  /\ stage = "Retriever" /\ Frame
  /\ LET result == Execute(working, plan, Release, state) IN
     IF result.stop # None THEN Say(Abstained)
     ELSE work' = [work EXCEPT !.execution = result] /\ Pass("Drafting_Bridge")

DraftingBridge ==
  /\ stage = "Drafting_Bridge" /\ Frame /\ Pass("Verifier")
  /\ work' = [work EXCEPT !.draft = Draft(request, plan, execution.values)]

Verifier ==
  /\ stage = "Verifier" /\ Frame /\ Pass("Evidence_Builder")
  /\ work' = [work EXCEPT !.checked = [i \in DOMAIN draft |-> Verify(draft[i], execution.values)]]

\* Every licensed claim gets a witness, which is replayed before it is kept.
Licensed == UNION {{v.licensed[i] : i \in DOMAIN v.licensed} : v \in {checked[j] : j \in DOMAIN checked}}
Found == [id \in {c.id : c \in Licensed} |-> Witness(CHOOSE c \in Licensed : c.id = id)]

EvidenceBuilder ==
  /\ stage = "Evidence_Builder" /\ Frame
  /\ IF \E id \in DOMAIN Found : ~Replays(Found[id], frozen) THEN Say(Abstained)
     ELSE work' = [work EXCEPT !.mapping = Found] /\ Pass("Synthesizer")

\* The results that license a claim, in order.
Licensing(vs) ==
  LET keep[n \in 0..Len(vs)] == IF n = 0 THEN <<>>
                                ELSE IF vs[n].licensed = <<>> THEN keep[n - 1]
                                ELSE Append(keep[n - 1], vs[n])
  IN  keep[Len(vs)]

\* What is said: the claims as drafted and as licensed, and the new state.
Retained == LET kept == Licensing(checked) IN
  [i \in DOMAIN kept |-> [original |-> kept[i].claim, final |-> kept[i].licensed[1]]]
Used == [i \in DOMAIN Retained |-> mapping[Retained[i].final.id]]
Answered == [type |-> IF Retained = <<>> THEN "Abstain" ELSE "Answer", claims |-> Retained,
             refused |-> Len(checked) - Len(Retained),
             state |-> Over([resolved_ids |-> execution.values["subject"].ids, window |-> request.window,
                             topic_id |-> request.topic, reference_date |-> request.window.reference,
                             prior_witnesses |-> Used], execution.state)]

Synthesizer ==
  /\ stage = "Synthesizer" /\ Frame
  /\ IF \E i \in DOMAIN Retained : \/ Verify(Retained[i].final, execution.values).label # "Supported"
                                    \/ Retained[i].final.id \notin DOMAIN mapping
     THEN Say(Abstained)
     ELSE Say(Answered)

\* A turn without exactly one successful tool call, or any other exception.
TurnFails ==
  /\ stage \notin {"idle", "save"} /\ Frame /\ Say(Abstained)

\* Faulty variant of Current: the checkpoint is saved whatever it is by now.
CurrentAlways == TRUE

Current == dialogue.revision = revision

\* The answer's state becomes the checkpoint, if it is the one that was read.
Save ==
  /\ stage = "save" /\ stage' = "idle"
  /\ dialogue' = IF Current THEN [state |-> outcome.state, revision |-> revision + 1] ELSE dialogue
  /\ work' = Unset /\ outcome' = None /\ attempt' = 0
  /\ UNCHANGED <<frozen, working, turns>>

Crash ==
  /\ stage # "idle" /\ stage' = "idle"
  /\ work' = Unset /\ outcome' = None /\ attempt' = 0
  /\ UNCHANGED <<frozen, working, dialogue, turns>>

\* The ask command for the fixed count: any failing role abstains; the database
\* and the release must agree.
AskCount ==
  /\ stage = "idle" /\ turns < MaxTurns /\ turns' = turns + 1
  /\ \E r \in {x \in Requests : x.family = "count" /\ x.kind = "Author" /\ x.identifier # None} :
       LET counted == CountFromRelease(frozen, r.identifier, r.window)
           good == [type |-> "Counted", author |-> r.identifier, window |-> r.window, papers |-> counted.papers]
       IN  outcome' \in
             IF working # frozen THEN {[type |-> "Refused"]}
             ELSE {[type |-> "Abstain", state |-> None]}
                  \cup IF Failed(counted) \/ CountPapers(working, r.identifier, r.window) # counted.papers
                       THEN {} ELSE {good}
  /\ UNCHANGED <<frozen, working, dialogue, stage, attempt, work>>

\* A build integrates an assertion, between commands.
Build ==
  /\ stage = "idle" /\ turns > 0 /\ working = frozen
  /\ working' = [frozen EXCEPT !.assertions = @ \cup {Late}]
  /\ UNCHANGED <<frozen, dialogue, turns, stage, attempt, outcome, work>>

\* Another service saves the same dialogue, about an entity of its own.
Elsewhere ==
  /\ stage # "idle" /\ dialogue.revision < MaxTurns
  /\ dialogue' = [revision |-> dialogue.revision + 1,
                  state |-> [release_id |-> Release, resolved_ids |-> {Other}, prior_witnesses |-> <<>>]]
  /\ UNCHANGED <<frozen, working, turns, stage, attempt, outcome, work>>

Finished == stage = "idle" /\ turns = MaxTurns /\ UNCHANGED vars

Next == \/ Open \/ Manager \/ Planner \/ PlannerRetries \/ Retriever \/ DraftingBridge \/ Verifier
        \/ EvidenceBuilder \/ Synthesizer \/ TurnFails \/ AskCount \/ Save \/ Crash \/ Build \/ Elsewhere \/ Finished

Spec == Init /\ [][Next]_vars

-----------------------------------------------------------------------------
\* Properties.

Role == {"Manager", "Planner", "Retriever", "Drafting_Bridge", "Verifier", "Evidence_Builder", "Synthesizer"}

Plannable(r) == r.family = "path" => r.relations \subseteq DOMAIN Relations

\* Each local is assigned from its role's turn on; the plan of every request whose
\* relations exist is one the validator accepts (requests.py against graph_program.py).
TypeOK ==
  /\ turns \in 0..MaxTurns /\ stage \in Role \cup {"idle", "save"} /\ attempt \in {0, 1}
  /\ dialogue.revision \in Nat /\ (dialogue.state = Unset <=> dialogue.revision = 0)
  /\ stage = "save" => outcome.type \in {"Answer", "Abstain", "Clarify"}
  /\ stage \in Role \ {"Manager"} => (Accepted(plan) <=> Plannable(request))
  /\ stage \in {"Evidence_Builder", "Synthesizer"} => Len(checked) = Len(draft)

\* An accepted program never stops on an operand without the fields that its
\* operation reads (graph_program.py:139-163, "wrong type").
ProgramsTyped ==
  turns = 0 => \A p \in Programs : Accepted(p) => Execute(frozen, p, Release, << >>).stop # "KeyError"

\* Every claim of an answer has a witness that replays from the frozen graph
\* alone, a result of the subject and window asked about; no cause is claimed,
\* and what is not claimed is counted as refused (claims.py:132-157).
AnswerGrounded ==
  outcome # None /\ outcome.type = "Answer" =>
    /\ outcome.refused = Cardinality({i \in 1..1 : request.causal})
    /\ \A i \in DOMAIN outcome.claims :
         LET c == outcome.claims[i].final
             w == outcome.state.prior_witnesses[i]
         IN  /\ ~Causal(c) /\ c.scope = "frozen_release" /\ w.claim = c
             /\ Replays(w, frozen)
             /\ w.execution.values["subject"].ids = {request.identifier}
             /\ c.step # "before" /\ "window" \in DOMAIN c.evidence => c.evidence.window = request.window

\* The rows that a counted step counts from.
Counted(step) ==
  {r \in Rows(frozen, execution.values[step].inputs) :
     LET policy == execution.values[step].policy IN
     /\ policy[2] = "publication_authorship" => policy[3] \in r.institutions
     /\ policy[4] # None => \E a \in frozen.assertions :
          a.head = r.tail /\ a.relation = "classifiedAs" /\ a.tail = policy[4]}

Executed(family) == stage = "Drafting_Bridge" /\ request.family \in family

\* A count is the same on whatever days, within their recorded bounds, its
\* papers were published: every date of a paper that is counted is in the
\* window, and none of one that is not (graph_program.py:264-271).
CountExact ==
  Executed({"count", "comparison", "sites"}) =>
    \A step \in {s \in DOMAIN execution.values : execution.values[s].type = "aggregate"} :
      \A r \in Counted(step) : \A d \in Possible(r.time, Days) :
        In(d, execution.values[step].window) <=> r.tail \in execution.values[step].ids

\* The typed request for what the fixed count answers.
CountOf(author, w) ==
  [CHOOSE r \in Requests : r.family = "count" /\ r.kind = "Author" EXCEPT
     !.identifier = author, !.window = w, !.name = None, !.place = None, !.role = None, !.source = None,
     !.topic = None, !.institution = None]

\* The typed program and the fixed count agree: on the papers, and on whether there
\* is an answer, unless an Expand may not return that many authorships
\* (witness.py:47-69 against graph_program.py:216-306).
CountsAgree ==
  /\ Executed({"count"}) /\ request.kind = "Author" /\ request.topic = None /\ request.institution = None =>
       LET fixed == CountFromRelease(frozen, request.identifier, request.window) IN
       ~Failed(fixed) /\ fixed.papers = execution.values["after"].ids
  /\ outcome # None /\ outcome.type = "Counted" /\ Cardinality(Authorships(frozen, outcome.author)) <= MaxEdges =>
       LET typed == Execute(frozen, PlanRequest(CountOf(outcome.author, outcome.window), Release), Release, << >>)
       IN  typed.stop = None /\ typed.values["after"].ids = outcome.papers

\* Ways of the events of a path to have happened, within their bounds.
Worlds(path) == {d \in [DOMAIN path -> Days] : \A i \in DOMAIN path : d[i] \in Possible(path[i].time, Days)}
Ordered(d) == \A i, j \in DOMAIN d : i < j => d[i] <= d[j]
Assertion(id) == CHOOSE a \in frozen.assertions : a.id = id

\* The walks of a path request from its subject to its target, along its direction.
Walks ==
  LET edges == {a \in frozen.assertions : a.relation \in request.relations}
      from(a) == IF request.direction = "out" THEN a.head ELSE a.tail
      to(a) == IF request.direction = "out" THEN a.tail ELSE a.head
  IN  {s \in UNION {[1..n -> edges] : n \in 1..request.hops} :
         /\ from(s[1]) = request.identifier /\ to(s[Len(s)]) = request.target
         /\ \A i \in 1..(Len(s) - 1) :
              to(s[i]) = from(s[i + 1]) /\ to(s[i]) \notin {request.target} \cup {from(s[j]) : j \in 1..i}}

\* A listed path is in the window and in order on whatever days its events
\* were, and its elapsed days bound the true ones; a walk of which that is
\* certain is listed (graph_program.py:298-331).
PathsSound ==
  Executed({"path"}) =>
    LET result == execution.values["paths"]
        holds(path, d) == /\ \A i \in DOMAIN d : In(d[i], request.window)
                          /\ request.rule = "nondecreasing" => Ordered(d)
    IN  /\ \A p \in result.paths :
             LET path == [i \in DOMAIN p.assertions |-> Assertion(p.assertions[i])] IN
             \A d \in Worlds(path) :
               /\ holds(path, d)
               /\ request.rule = "nondecreasing" =>
                    p.elapsed[1] <= d[Len(d)] - d[1] /\ (d[Len(d)] - d[1] <= p.elapsed[2] \/ Len(d) = 1)
        /\ \A path \in Walks : (\A d \in Worlds(path) : holds(path, d)) =>
             \E p \in result.paths : p.assertions = [i \in DOMAIN path |-> path[i].id]

\* A result without the walk in it denies the walk: on no days were its events
\* in order ("Overlapping uncertainty cannot prove the required order.",
\* graph_program.py:313).
PathsComplete ==
  Executed({"path"}) =>
    \A path \in Walks :
      (\E d \in Worlds(path) : (\A i \in DOMAIN d : In(d[i], request.window)) /\ Ordered(d)) =>
        \E p \in execution.values["paths"].paths : p.assertions = [i \in DOMAIN path |-> path[i].id]

\* A trace says of an affiliation and of a paper only what holds in every period
\* and on every day their records allow; a return move was one in all of them,
\* and a possible one is at least ambiguous (temporal.py).
TraceSound ==
  Executed({"state", "returns"}) =>
    LET author == request.identifier
        w == request.window
        trace == EventTrace(frozen, author, w)
        apps == Employment(frozen, author)
        periods(a) == {p \in Periods(a, Days) : a.time.end = "ongoing" => p[2] >= w.reference}
        active(a, at) == {p[1] <= at /\ at <= p[2] : p \in periods(a)}
        moved(t) == t[1][2] < t[2][1] /\ t[2][2] < t[3][1] /\ In(t[1][1], w) /\ In(t[3][1], w)
        result == execution.values["trace"]
    IN  /\ request.family = "state" =>
             \A at \in DOMAIN result.states : LET s == result.states[at] IN
               /\ \A i \in s.active : \E a \in apps : a.tail = i /\ FALSE \notin active(a, at)
               /\ \A a \in apps : TRUE \in active(a, at) => a.tail \in s.active \cup s.uncertain
               /\ \A a \in Authorships(frozen, author) : \A d \in Possible(a.time, Days) :
                    /\ a.tail \in s.papers => d <= at
                    /\ d <= at => a.tail \in s.papers \cup s.uncertainPapers
        /\ request.family = "returns" =>
             \A m \in {x \in [1..3 -> apps] : x[1].tail = x[3].tail /\ x[1].tail # x[2].tail} :
               LET worlds == periods(m[1]) \X periods(m[2]) \X periods(m[3])
                   said(found) == {x \in found : x.assertions = <<m[1].id, m[2].id, m[3].id>>}
                   range(i) == <<Start(m[i]).lower, Start(m[i]).upper>>
               IN  /\ \A x \in said(result.returns) : \A t \in worlds :
                        /\ moved(t)
                        /\ x.elapsed[1] <= t[3][1] - t[1][1] /\ t[3][1] - t[1][1] <= x.elapsed[2]
                   /\ (\A i \in 1..3 : Bounded(Start(m[i]))) /\ range(1) # range(3) /\ (\E t \in worlds : moved(t))
                        => said(result.returns \cup result.ambiguous) # {}

\* The claim's result does not depend on a record of the release that no card
\* of its witness refers to.
Referred(w) ==
  LET facts == {o[2] : o \in {x \in w.obligations : x[1] = "fact"}} IN
  [frozen EXCEPT !.assertions = Rows(frozen, facts), !.observations = {o \in @ : o.id \in facts}]
FromCards(w) ==
  LET again == Execute(Referred(w), w.program, Release, w.stateBefore) IN
  again.stop = None /\ again.values[w.claim.step] = w.claim.evidence

Witnesses == IF stage = "Synthesizer" THEN {mapping[id] : id \in DOMAIN mapping} ELSE {}

\* The cards of a witness refer to every record that its result needs, if the
\* request has neither a topic nor an identity context nor a role, which are
\* decided by all assertions (general_witness.py:11-45).
CardsSuffice ==
  \A w \in Witnesses : request.topic = None /\ request.place = None /\ request.role = None => FromCards(w)

\* A saved state is about the release, and the witnesses it keeps were made
\* from the very state it replaces: no answer of another service is lost
\* between them (durable.py:266-284).
StateSucceeds ==
  [][Save /\ dialogue' # dialogue =>
       /\ dialogue'.revision = dialogue.revision + 1 /\ dialogue'.state.release_id = Release
       /\ LET before == IF dialogue.state = Unset THEN [release_id |-> Release] ELSE dialogue.state IN
          IF outcome.type = "Answer"
          THEN \A i \in DOMAIN dialogue'.state.prior_witnesses :
                 dialogue'.state.prior_witnesses[i].stateBefore = before
          ELSE dialogue'.state = before]_vars
=============================================================================
