----------------------------- MODULE Construction -----------------------------
(***************************************************************************)
(* Graph construction end to end: workers claim tasks, enter the host's    *)
(* writer lock, resolve identities against the graph, prepare the write    *)
(* intent and commit (construction/worker.py, build in workflows.py,       *)
(* Graph.integrate, export and has_namespace in core/graph.py).            *)
(*                                                                         *)
(* The lease protocol is the one of TaskLedger, in coarse steps: a lease   *)
(* may lapse whenever integrate does not hold its row.  What is added here *)
(* is what a batch depends on: it is the resolution of the task's records  *)
(* against the graph the worker read.                                      *)
(***************************************************************************)
EXTENDS Resolution

CONSTANTS
  Task,         \* construction tasks
  Worker,       \* worker processes on the graph's host
  Parsed,       \* Parsed[t]: the records extraction finds in the source of t
  Seed,         \* batches in the namespace at the start
  MaxAttempts,
  NoTask, NoWorker, NoBatch

\* A source yields finitely many records, under the ids of their own entities.
ASSUME ParsedAssumption ==
  \A t \in Task : IsRows(Parsed[t]) /\ \A r \in Parsed[t] : r.id = r.source

ASSUME SeedAssumption == IsFiniteSet(Seed) /\ \A b \in Seed : IsRows(b)

VARIABLES
  outcome,      \* per task: "open", "done", "failed"
  attempts,
  holder,       \* the worker whose token the task row carries
  intent,       \* the durable write intent of the task
  at,           \* where the build of a worker stands
  job,          \* its task
  batch,        \* its resolved batch
  graph,        \* committed KDBatch contents
  inflight      \* at most one commit whose client is gone; it holds the KDStore lock

ledgerVars == <<outcome, attempts, holder, intent>>
buildVars == <<at, job, batch>>
graphVars == <<graph, inflight>>
vars == <<outcome, attempts, holder, intent, at, job, batch, graph, inflight>>

\* Places of a build: claimed and waiting for the lock; in the lock, before and
\* after has_namespace; resolved; prepared; graph committed in an open integrate.
Places == {"idle", "waiting", "entered", "exporting", "resolved", "prepared", "written"}

\* Builds inside wait_for_writer(application.lock).
Inside == {w \in Worker : at[w] \notin {"idle", "waiting"}}

Stored == UNION graph

Init == /\ outcome = [t \in Task |-> "open"]
        /\ attempts = [t \in Task |-> 0]
        /\ holder = [t \in Task |-> NoWorker]
        /\ intent = [t \in Task |-> NoBatch]
        /\ at = [w \in Worker |-> "idle"]
        /\ job = [w \in Worker |-> NoTask]
        /\ batch = [w \in Worker |-> NoBatch]
        /\ graph = Seed
        /\ inflight = {}

-----------------------------------------------------------------------------
\* No lease, or one that may lapse: its row is not locked by integrate.
Reclaimable(t) == /\ outcome[t] = "open"
                  /\ \A w \in Worker : ~(at[w] = "written" /\ job[w] = t)

Claim(w, t) ==
  /\ at[w] = "idle"
  /\ Reclaimable(t)
  /\ attempts[t] < MaxAttempts
  /\ attempts' = [attempts EXCEPT ![t] = @ + 1]
  /\ holder' = [holder EXCEPT ![t] = w]
  /\ at' = [at EXCEPT ![w] = "waiting"]
  /\ job' = [job EXCEPT ![w] = t]
  /\ UNCHANGED <<outcome, intent, batch, graphVars>>

\* The sweep of a claim, once the budget is spent.
GiveUp(t) ==
  /\ Reclaimable(t)
  /\ attempts[t] >= MaxAttempts
  /\ outcome' = [outcome EXCEPT ![t] = "failed"]
  /\ UNCHANGED <<attempts, holder, intent, buildVars, graphVars>>

\* Faulty variant of Enter: the host lock is not taken.
EnterUnlocked(w) ==
  /\ at[w] = "waiting"
  /\ at' = [at EXCEPT ![w] = "entered"]
  /\ UNCHANGED <<ledgerVars, job, batch, graphVars>>

\* wait_for_writer gets the host lock.
Enter(w) ==
  /\ at[w] = "waiting"
  /\ Inside = {}
  /\ at' = [at EXCEPT ![w] = "entered"]
  /\ UNCHANGED <<ledgerVars, job, batch, graphVars>>

\* has_namespace, a read that waits for nobody.  In an empty namespace the
\* batch is resolved against nothing.
Look(w) ==
  /\ at[w] = "entered"
  /\ \/ /\ graph # {}
        /\ at' = [at EXCEPT ![w] = "exporting"]
        /\ UNCHANGED batch
     \/ /\ graph = {}
        /\ at' = [at EXCEPT ![w] = "resolved"]
        /\ batch' = [batch EXCEPT ![w] = Resolve(Parsed[job[w]], {})]
  /\ UNCHANGED <<ledgerVars, job, graphVars>>

\* Faulty variant of Export: reads without the KDStore lock.
ExportUncoordinated(w) ==
  /\ at[w] = "exporting"
  /\ at' = [at EXCEPT ![w] = "resolved"]
  /\ batch' = [batch EXCEPT ![w] = Resolve(Parsed[job[w]], Stored)]
  /\ UNCHANGED <<ledgerVars, job, graphVars>>

\* graph.export waits for the KDStore lock, so for a commit still in flight.
Export(w) ==
  /\ at[w] = "exporting"
  /\ inflight = {}
  /\ at' = [at EXCEPT ![w] = "resolved"]
  /\ batch' = [batch EXCEPT ![w] = Resolve(Parsed[job[w]], Stored)]
  /\ UNCHANGED <<ledgerVars, job, graphVars>>

Fenced(w) == outcome[job[w]] = "open" /\ holder[job[w]] = w

\* A stale lease or another batch under the durable intent raises: see Stop.
Prepare(w) ==
  /\ at[w] = "resolved"
  /\ Fenced(w)
  /\ intent[job[w]] \in {NoBatch, batch[w]}
  /\ intent' = [intent EXCEPT ![job[w]] = batch[w]]
  /\ at' = [at EXCEPT ![w] = "prepared"]
  /\ UNCHANGED <<outcome, attempts, holder, job, batch, graphVars>>

\* integrate: the fence, then the graph commit under the KDStore lock, or the
\* batch is found there.
CommitGraph(w) ==
  /\ at[w] = "prepared"
  /\ Fenced(w)
  /\ batch[w] \in graph \/ inflight = {}
  /\ graph' = graph \cup {batch[w]}
  /\ at' = [at EXCEPT ![w] = "written"]
  /\ UNCHANGED <<ledgerVars, job, batch, inflight>>

Leave(w) == /\ at' = [at EXCEPT ![w] = "idle"]
            /\ job' = [job EXCEPT ![w] = NoTask]
            /\ batch' = [batch EXCEPT ![w] = NoBatch]

CommitLedger(w) ==
  /\ at[w] = "written"
  /\ outcome' = [outcome EXCEPT ![job[w]] = "done"]
  /\ Leave(w)
  /\ UNCHANGED <<attempts, holder, intent, graphVars>>

\* An exception or the death of the process, at any place: integrate rolls
\* back, the host lock is free.  A graph commit that lost its client may be
\* on its way.  The release of the lease adds nothing: leases may lapse.
Stop(w) ==
  /\ at[w] # "idle"
  /\ Leave(w)
  /\ \/ UNCHANGED inflight
     \/ /\ at[w] = "prepared" /\ Fenced(w)
        /\ batch[w] \notin graph /\ inflight = {}
        /\ inflight' = {batch[w]}
  /\ UNCHANGED <<ledgerVars, graph>>

\* Neo4j ends the transaction of the lost client: committed or rolled back.
Settle ==
  /\ inflight # {}
  /\ graph' \in {graph, graph \cup inflight}
  /\ inflight' = {}
  /\ UNCHANGED <<ledgerVars, buildVars>>

Finished == /\ \A t \in Task : outcome[t] # "open"
            /\ \A w \in Worker : at[w] = "idle"
            /\ inflight = {}
            /\ UNCHANGED vars

Next == \/ \E w \in Worker : \/ \E t \in Task : Claim(w, t)
                             \/ Enter(w) \/ Look(w) \/ Export(w) \/ Prepare(w)
                             \/ CommitGraph(w) \/ CommitLedger(w) \/ Stop(w)
        \/ \E t \in Task : GiveUp(t)
        \/ Settle
        \/ Finished

Spec == Init /\ [][Next]_vars

-----------------------------------------------------------------------------
\* Properties.

\* Between the resolution of a batch and its commit nothing reaches the graph
\* that would have resolved it differently: the host lock keeps other builds
\* out and "this also waits for an in-flight commit after a killed client
\* releases its file lock" (graph.py:124-125).
ResolutionCurrent ==
  \A w \in Worker : at[w] \in {"resolved", "prepared"} =>
    batch[w] = Resolve(Parsed[job[w]], Stored)

\* The graphs between builds, where the next properties look at them: every
\* graph that is reached is the graph of such a state.
Between == inflight = {} /\ \A w \in Worker : at[w] = "idle"

Sources == UNION {Parsed[t] : t \in Task}
Seeded == UNION Seed

\* Identifiers that every source gives for the entities that have them.
Agreed == {v \in {r.value : r \in Sources} \ {NoValue} :
             \A r, s \in Sources : r.value = v /\ s.id = r.id => s.value = v}

\* The namespace at the start agrees with itself and, on the identifiers that
\* the sources agree about, with the sources.
SeedConsistent ==
  /\ MergedConsistent(Seeded)
  /\ \A v \in Agreed :
       /\ \A r, s \in Sources \cup Seeded : r.value = v /\ s.id = r.id => s.value = v
       /\ \A r, s \in Seeded : r.value = v /\ s.value = v => r.id = s.id

\* Whatever the order of builds, crashes and retries, the records of an agreed
\* identifier end under one canonical id.
OneIdentity ==
  Between => \A v \in Agreed : Cardinality({r.id : r \in {x \in Stored : x.value = v}}) <= 1

\* "Exact-identifier transitive expansion must not hide a conflicting ID" (resolution.py:33):
\* records of other sources merged into one canonical id never disagree.
MergedAgree == Between => MergedConsistent(Stored)

\* The expansion loop finds the connected component of each entity, for every
\* graph that construction reaches and every source still to be built.
ExpansionComplete ==
  Between => \A t \in Task : LET rows == Stored \cup Parsed[t] IN
    \A e \in Ids(Parsed[t]) : Candidates(rows, e) = Component(rows, e)

\* "At-least-once delivery with an idempotent graph commit" (docs/USAGE.md:125):
\* a build repeated right after its own commit resolves to the same batch.
RepeatIdempotent ==
  Between => \A t \in Task : LET b == Resolve(Parsed[t], Stored) IN
    Resolve(Parsed[t], Stored \cup b) = b
=============================================================================
