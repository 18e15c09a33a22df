------------------------------ MODULE TaskLedger ------------------------------
(***************************************************************************)
(* The durable task ledger of core/durable.py and the worker that uses it  *)
(* (construction/worker.py, the Integration turn of workflows.py): fenced  *)
(* leases, retry budget, durable write intent, and the graph commit that   *)
(* runs inside the ledger transaction.                                     *)
(*                                                                         *)
(* Every ledger call is one database transaction, so it is one action,     *)
(* except integrate: it holds its task's row (PostgreSQL) or the whole     *)
(* file (SQLite, BEGIN IMMEDIATE) while the graph commits, and is four     *)
(* steps: open, graph commit, ledger commit, and the rollback in Raise and *)
(* Crash.  Rows are read by the fence and used under the same lock.        *)
(*                                                                         *)
(* Time.  A lease expires by comparing its expiry with the time.time() of  *)
(* the process that looks, and processes run on different hosts.  lapsed[t]*)
(* is the set of workers whose clock has passed the expiry in row t: no    *)
(* bound on time and no bound on the skew between hosts.                   *)
(*                                                                         *)
(* Tokens.  claim draws a fresh uuid token exactly when it increments the  *)
(* generation, so equal generations of a task mean equal tokens and one    *)
(* number, token[w], stands for both in a worker's copy of its lease.      *)
(***************************************************************************)
EXTENDS Naturals, FiniteSets

CONSTANTS
  Task,         \* the payload digests that may be enqueued
  Worker,       \* worker processes, each with its host's clock
  Batch,        \* content-addressed graph batches
  Resolved,     \* Resolved[t]: batches a build of t may resolve to; {}: a task without a graph write
  MaxAttempts,  \* max_attempts of every claim
  SharedNode,   \* TRUE: PostgreSQL row locks; FALSE: SQLite whole-file lock
  NoTask, NoBatch, NoOwner

ASSUME LedgerAssumption ==
  /\ MaxAttempts \in 1..10
  /\ SharedNode \in BOOLEAN
  /\ Resolved \in [Task -> SUBSET Batch]
  /\ NoTask \notin Task
  /\ NoBatch \notin Batch
  /\ NoOwner \notin Worker

VARIABLES
  \* kdiff_task, kdiff_intent
  state,        \* "absent" until the row exists
  owner,
  generation,
  attempts,
  lapsed,
  intent,       \* batch_id of the kdiff_intent row
  receipt,      \* the batch the stored result names, once the intent is committed
  \* the worker processes
  phase,
  lease,        \* the task of the lease a worker holds a copy of
  token,        \* the generation in that copy
  batch,        \* the batch its build prepared
  \* Neo4j
  graph,        \* committed KDBatch nodes
  inflight      \* batches of graph transactions that lost their client

rowVars == <<state, owner, generation, attempts, lapsed>>
intentVars == <<intent, receipt>>
workerVars == <<phase, lease, token, batch>>
graphVars == <<graph, inflight>>
vars == <<state, owner, generation, attempts, lapsed, intent, receipt,
          phase, lease, token, batch, graph, inflight>>

States == {"absent", "pending", "leased", "done", "failed"}
Phases == {"idle", "working", "integrating", "written", "committed", "releasing"}

Init == /\ state = [t \in Task |-> "absent"]
        /\ owner = [t \in Task |-> NoOwner]
        /\ generation = [t \in Task |-> 0]
        /\ attempts = [t \in Task |-> 0]
        /\ lapsed = [t \in Task |-> {}]
        /\ intent = [t \in Task |-> NoBatch]
        /\ receipt = [t \in Task |-> NoBatch]
        /\ phase = [w \in Worker |-> "idle"]
        /\ lease = [w \in Worker |-> NoTask]
        /\ token = [w \in Worker |-> 0]
        /\ batch = [w \in Worker |-> NoBatch]
        /\ graph = {}
        /\ inflight = {}

-----------------------------------------------------------------------------
\* Locks.  Only integrate keeps a transaction open across steps.

InTx == {w \in Worker : phase[w] \in {"integrating", "written"}}
Locked == {lease[w] : w \in InTx}

\* A transaction that writes the rows S can run now.
Free(S) == IF SharedNode THEN Locked \cap S = {} ELSE InTx = {}

-----------------------------------------------------------------------------
\* Enqueue, claim and the retry budget.

\* INSERT ... ON CONFLICT DO NOTHING: an existing row is never requeued.
Enqueue(t) ==
  /\ Free({t})
  /\ state[t] = "absent"
  /\ state' = [state EXCEPT ![t] = "pending"]
  /\ UNCHANGED <<owner, generation, attempts, lapsed, intentVars, workerVars, graphVars>>

\* Rows a claim of worker w may take or give up: not leased, or leased past w's clock.
Lapsed(w) == {t \in Task : \/ state[t] = "pending"
                           \/ state[t] = "leased" /\ w \in lapsed[t]}

\* Faulty variants of Swept: one attempt late, one attempt early.
SweptStrictly(w) == {t \in Lapsed(w) : attempts[t] > MaxAttempts}
SweptEarly(w) == {t \in Lapsed(w) : attempts[t] + 1 >= MaxAttempts}

\* Rows the first statement of claim gives up: 'retry_limit'.
Swept(w) == {t \in Lapsed(w) : attempts[t] >= MaxAttempts}

\* Faulty variants of Claimable: without SKIP LOCKED, without the budget.
ClaimableUnlocked(w) == {t \in Lapsed(w) : attempts[t] < MaxAttempts}
ClaimableUnbounded(w) == Lapsed(w) \ Locked

\* FOR UPDATE SKIP LOCKED passes over a row whose integrate is still open.
Claimable(w) == {t \in Lapsed(w) \ Locked : attempts[t] < MaxAttempts}

\* The sweep and the grant of one claim call.
Claim(w, t) ==
  /\ phase[w] = "idle"
  /\ Free(Swept(w))
  /\ t \in Claimable(w)
  /\ state' = [u \in Task |-> IF u = t THEN "leased"
                              ELSE IF u \in Swept(w) THEN "failed" ELSE state[u]]
  /\ owner' = [owner EXCEPT ![t] = w]
  /\ generation' = [generation EXCEPT ![t] = @ + 1]
  /\ attempts' = [attempts EXCEPT ![t] = @ + 1]
  /\ lapsed' = [lapsed EXCEPT ![t] = {}]
  /\ phase' = [phase EXCEPT ![w] = "working"]
  /\ lease' = [lease EXCEPT ![w] = t]
  /\ token' = [token EXCEPT ![w] = generation[t] + 1]
  /\ batch' = [batch EXCEPT ![w] = NoBatch]
  /\ UNCHANGED <<intentVars, graphVars>>

\* claim(task_id) finds nothing to grant and returns None; its sweep still commits.
ClaimNothing(w) ==
  /\ phase[w] = "idle"
  /\ Swept(w) # {}
  /\ Free(Swept(w))
  /\ state' = [t \in Task |-> IF t \in Swept(w) THEN "failed" ELSE state[t]]
  /\ UNCHANGED <<owner, generation, attempts, lapsed, intentVars, workerVars, graphVars>>

-----------------------------------------------------------------------------
\* Calls under the fence.

\* The lease copy of w is the current, unexpired lease of its row.
Current(w) == LET t == lease[w] IN
  /\ state[t] = "leased"
  /\ owner[t] = w
  /\ generation[t] = token[w]
  /\ w \notin lapsed[t]

\* A new expiry is ahead of the clock of the worker that wrote it.
Heartbeat(w) ==
  /\ phase[w] = "working"
  /\ Free({lease[w]})
  /\ Current(w)
  /\ lapsed' = [lapsed EXCEPT ![lease[w]] = {}]
  /\ UNCHANGED <<state, owner, generation, attempts, intentVars, workerVars, graphVars>>

\* Faulty variant of Prepare: a new batch replaces the intent.
PrepareUpsert(w, b) ==
  /\ phase[w] = "working" /\ batch[w] = NoBatch /\ Free({lease[w]}) /\ Current(w)
  /\ b \in Resolved[lease[w]]
  /\ intent' = [intent EXCEPT ![lease[w]] = b]
  /\ batch' = [batch EXCEPT ![w] = b]
  /\ UNCHANGED <<rowVars, receipt, phase, lease, token, graphVars>>

\* The build resolved to b: insert the intent, or find the same one there.
Prepare(w, b) ==
  /\ phase[w] = "working"
  /\ batch[w] = NoBatch
  /\ Free({lease[w]})
  /\ Current(w)
  /\ b \in Resolved[lease[w]]
  /\ intent[lease[w]] \in {NoBatch, b}
  /\ intent' = [intent EXCEPT ![lease[w]] = b]
  /\ batch' = [batch EXCEPT ![w] = b]
  /\ UNCHANGED <<rowVars, receipt, phase, lease, token, graphVars>>

\* integrate passes the fence and finds its intent: the row stays locked.
OpenIntegrate(w) ==
  /\ phase[w] = "working"
  /\ batch[w] # NoBatch
  /\ Free({lease[w]})
  /\ Current(w)
  /\ intent[lease[w]] = batch[w]
  /\ phase' = [phase EXCEPT ![w] = "integrating"]
  /\ UNCHANGED <<rowVars, intentVars, lease, token, batch, graphVars>>

\* The callback: graph.integrate commits the batch, or finds it there.
CommitGraph(w) ==
  /\ phase[w] = "integrating"
  /\ graph' = graph \cup {batch[w]}
  /\ phase' = [phase EXCEPT ![w] = "written"]
  /\ UNCHANGED <<rowVars, intentVars, lease, token, batch, inflight>>

\* Faulty variant of CommitLedger: does not wait for the graph.
CommitLedgerFirst(w) ==
  /\ w \in InTx
  /\ receipt' = [receipt EXCEPT ![lease[w]] = batch[w]]
  /\ state' = [state EXCEPT ![lease[w]] = "done"]
  /\ lapsed' = [lapsed EXCEPT ![lease[w]] = {}]
  /\ phase' = [phase EXCEPT ![w] = "committed"]
  /\ UNCHANGED <<owner, generation, attempts, intent, lease, token, batch, graphVars>>

\* Receipt and task row commit together and the lock is gone.
CommitLedger(w) ==
  /\ phase[w] = "written"
  /\ receipt' = [receipt EXCEPT ![lease[w]] = batch[w]]
  /\ state' = [state EXCEPT ![lease[w]] = "done"]
  /\ lapsed' = [lapsed EXCEPT ![lease[w]] = {}]
  /\ phase' = [phase EXCEPT ![w] = "committed"]
  /\ UNCHANGED <<owner, generation, attempts, intent, lease, token, batch, graphVars>>

\* complete: a task without a graph write ends by its result alone.
Complete(w) ==
  /\ phase[w] = "working"
  /\ Resolved[lease[w]] = {}
  /\ Free({lease[w]})
  /\ Current(w)
  /\ state' = [state EXCEPT ![lease[w]] = "done"]
  /\ lapsed' = [lapsed EXCEPT ![lease[w]] = {}]
  /\ phase' = [phase EXCEPT ![w] = "committed"]
  /\ UNCHANGED <<owner, generation, attempts, intentVars, lease, token, batch, graphVars>>

\* 'Stale or expired task lease', 'Task input changed after durable preparation',
\* 'Graph write requires a durable prepared intent': rolled back, worker fails.
Refused(w) ==
  /\ phase[w] = "working"
  /\ Free({lease[w]})
  /\ \/ ~Current(w)
     \/ /\ batch[w] = NoBatch
        /\ \E b \in Resolved[lease[w]] : intent[lease[w]] \notin {NoBatch, b}
  /\ phase' = [phase EXCEPT ![w] = "releasing"]
  /\ UNCHANGED <<rowVars, intentVars, lease, token, batch, graphVars>>

-----------------------------------------------------------------------------
\* How a worker ends.

Forget(w) == /\ phase' = [phase EXCEPT ![w] = "idle"]
             /\ lease' = [lease EXCEPT ![w] = NoTask]
             /\ token' = [token EXCEPT ![w] = 0]
             /\ batch' = [batch EXCEPT ![w] = NoBatch]

Return(w) ==
  /\ phase[w] = "committed"
  /\ Forget(w)
  /\ UNCHANGED <<rowVars, intentVars, graphVars>>

\* A graph commit whose client failed or died may still be on its way.
LoseGraphCommit(w) ==
  \/ UNCHANGED inflight
  \/ phase[w] = "integrating" /\ inflight' = inflight \cup {batch[w]}

\* Any exception: the open transaction rolls back, then the worker releases.
Raise(w) ==
  /\ phase[w] \in {"working", "integrating", "written", "committed"}
  /\ LoseGraphCommit(w)
  /\ phase' = [phase EXCEPT ![w] = "releasing"]
  /\ UNCHANGED <<rowVars, intentVars, lease, token, batch, graph>>

\* Faulty variant of Release: outside the fence.
ReleaseUnfenced(w) ==
  /\ phase[w] = "releasing" /\ Free({lease[w]})
  /\ state' = [state EXCEPT ![lease[w]] = "pending"]
  /\ owner' = [owner EXCEPT ![lease[w]] = NoOwner]
  /\ lapsed' = [lapsed EXCEPT ![lease[w]] = {}]
  /\ Forget(w)
  /\ UNCHANGED <<generation, attempts, intentVars, graphVars>>

\* Back to pending; the attempt stays counted and the intent stays.
Release(w) ==
  /\ phase[w] = "releasing"
  /\ Free({lease[w]})
  /\ Current(w)
  /\ state' = [state EXCEPT ![lease[w]] = "pending"]
  /\ owner' = [owner EXCEPT ![lease[w]] = NoOwner]
  /\ lapsed' = [lapsed EXCEPT ![lease[w]] = {}]
  /\ Forget(w)
  /\ UNCHANGED <<generation, attempts, intentVars, graphVars>>

\* A committed or reclaimed task cannot be released by this worker.
ReleaseRefused(w) ==
  /\ phase[w] = "releasing"
  /\ Free({lease[w]})
  /\ ~Current(w)
  /\ Forget(w)
  /\ UNCHANGED <<rowVars, intentVars, graphVars>>

\* The process dies, or a busy database makes even its release fail: the row
\* keeps its lease until it lapses.
Crash(w) ==
  /\ phase[w] # "idle"
  /\ LoseGraphCommit(w)
  /\ Forget(w)
  /\ UNCHANGED <<rowVars, intentVars, graph>>

-----------------------------------------------------------------------------
\* The environment.

\* The clock of w passes the expiry of row t.
Lapse(t, w) ==
  /\ state[t] = "leased"
  /\ w \notin lapsed[t]
  /\ lapsed' = [lapsed EXCEPT ![t] = @ \cup {w}]
  /\ UNCHANGED <<state, owner, generation, attempts, intentVars, workerVars, graphVars>>

\* Neo4j ends a transaction that lost its client: committed or rolled back.
SettleInflight(b) ==
  /\ b \in inflight
  /\ inflight' = inflight \ {b}
  /\ graph' \in {graph, graph \cup {b}}
  /\ UNCHANGED <<rowVars, intentVars, workerVars>>

Step(w) == \/ \E b \in Batch : Prepare(w, b)
           \/ OpenIntegrate(w) \/ CommitGraph(w) \/ CommitLedger(w)
           \/ Complete(w) \/ Refused(w) \/ Return(w)
           \/ Raise(w) \/ Release(w) \/ ReleaseRefused(w) \/ Crash(w)

Invoke(w) == ClaimNothing(w) \/ \E t \in Task : Claim(w, t)

Settled(t) == state[t] \in {"done", "failed"}

\* Nothing is left to do: every task has ended and every worker has returned.
Finished == /\ \A t \in Task : Settled(t)
            /\ \A w \in Worker : phase[w] = "idle"
            /\ inflight = {}
            /\ UNCHANGED vars

Next == \/ \E t \in Task : Enqueue(t)
        \/ \E w \in Worker : Invoke(w) \/ Step(w) \/ Heartbeat(w)
        \/ \E t \in Task, w \in Worker : Lapse(t, w)
        \/ \E b \in Batch : SettleInflight(b)
        \/ Finished

Spec == Init /\ [][Next]_vars

(***************************************************************************)
(* Fairness.  Every wait of a worker ends by itself: model calls, graph    *)
(* transactions and lock waits have timeouts, so a worker that holds a     *)
(* lease goes on, raises or dies.  Clocks advance.  Workers keep being     *)
(* invoked ("a later worker invocation", docs/USAGE.md:125).  Nothing is   *)
(* assumed about which of a worker's steps it takes, about heartbeats or   *)
(* about tasks being enqueued.                                             *)
(***************************************************************************)
Fairness == /\ \A w \in Worker : WF_vars(Step(w))
            /\ \A t \in Task, w \in Worker : WF_vars(Lapse(t, w))
            /\ WF_vars(\E w \in Worker : Invoke(w))

LiveSpec == Spec /\ Fairness

-----------------------------------------------------------------------------
\* Properties.

\* Types; an attempt count never passes the budget.
TypeOK ==
  /\ state \in [Task -> States]
  /\ owner \in [Task -> Worker \cup {NoOwner}]
  /\ generation \in [Task -> Nat]
  /\ attempts \in [Task -> 0..MaxAttempts]
  /\ lapsed \in [Task -> SUBSET Worker]
  /\ intent \in [Task -> Batch \cup {NoBatch}]
  /\ receipt \in [Task -> Batch \cup {NoBatch}]
  /\ phase \in [Worker -> Phases]
  /\ lease \in [Worker -> Task \cup {NoTask}]
  /\ token \in [Worker -> Nat]
  /\ batch \in [Worker -> Batch \cup {NoBatch}]
  /\ graph \subseteq Batch
  /\ inflight \subseteq Batch

\* "Reapers cannot replace its fencing token in this critical section"
\* (durable.py:221-222): from the fence to the commit or rollback of integrate
\* the row stays leased to that worker under the same token, whatever clocks,
\* sweeps, claims and stale workers do meanwhile.
CriticalSectionOwned ==
  \A w \in InTx : LET t == lease[w] IN
    /\ t \in Task
    /\ state[t] = "leased"
    /\ owner[t] = w
    /\ generation[t] = token[w]
    /\ intent[t] = batch[w]

\* The crash window: a row says done only when the graph holds the batch of
\* its durable intent, and the stored receipt names that batch.
DoneMeansApplied ==
  \A t \in Task : state[t] = "done" /\ Resolved[t] # {} =>
    /\ intent[t] \in graph
    /\ receipt[t] = intent[t]

\* Every batch in the graph, or on its way there from a dead client, is the
\* durably prepared batch of some task: retries by other workers, whatever
\* they resolve to, never put a second batch of a task there.
GraphOnlyPrepared ==
  graph \cup inflight \subseteq {intent[t] : t \in Task}

\* A task is given up only after its whole budget was granted, and never under
\* a worker that is between fence and commit.
FailedOnlyExhausted ==
  \A t \in Task : state[t] = "failed" =>
    /\ attempts[t] = MaxAttempts
    /\ t \notin Locked

\* What RedisDelivery.acknowledge relies on (durable.py:360-365): from its commit
\* on, no zombie's release, reclaim or sweep takes the done row, its owner or its
\* generation from the worker that committed it.
CommittedStaysMine ==
  \A w \in Worker : phase[w] = "committed" =>
    /\ state[lease[w]] = "done"
    /\ owner[lease[w]] = w
    /\ generation[lease[w]] = token[w]

\* What one task looks like from outside.
Outcome == [t \in Task |-> IF state[t] \in {"pending", "leased"} THEN "open" ELSE state[t]]

Abstract == INSTANCE TaskOutcome WITH outcome <- Outcome, chosen <- intent, applied <- graph

\* The ledger implements TaskOutcome: one chosen batch per task, only chosen
\* batches in the graph, done only once applied, done and failed never left.
ImplementsOutcome == Abstract!Spec

\* Every submitted task ends done or failed, whatever fails on the way.
EveryTaskSettles == \A t \in Task : state[t] # "absent" ~> Settled(t)

\* "handles the graph-commit/acknowledgment crash window" (docs/USAGE.md:125) read
\* as: when the ledger says failed, the graph does not hold the task's batch.
FailedLeavesNoGraphWrite ==
  \A t \in Task : state[t] = "failed" => intent[t] \notin graph
=============================================================================
