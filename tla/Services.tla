------------------------------ MODULE Services ------------------------------
(***************************************************************************)
(* The owned service launchers (deployment/metadata.py, deployment/vllm.py,*)
(* deploy/local/run.py), nested as the job script nests them, and what a   *)
(* job leaves behind to be resumed: the frozen release of the graph and    *)
(* the export of the task ledger.                                          *)
(*                                                                         *)
(* Launcher i starts its server, waits for it, restores, starts its        *)
(* application, which is launcher i + 1 and for the last one the program,  *)
(* and stops its server when that has ended.  A signal reaches the         *)
(* outermost launcher, whose handler passes it on to a running application *)
(* and starts a timer after which it kills.  Time is counted in units in   *)
(* which the Patience of the launchers differs; a launcher polls, so what  *)
(* it is due to do happens before the next unit.                           *)
(*                                                                         *)
(* The program works on tasks: it leases one and prepares its intent, adds *)
(* the task's batch to the graph, and completes task and intent together.  *)
(***************************************************************************)
EXTENDS Naturals, Sequences, FiniteSets

CONSTANTS Chain,           \* the kinds of the launchers, outermost first
          Patience,        \* from a signal to the kill, by kind
          Task,
          MaxGeneration,   \* bound on jobs
          Nothing          \* no release, no export

N == Len(Chain)

\* The metadata launcher is the outermost and the graph's the innermost.
ASSUME ChainAssumption ==
  /\ N >= 1 /\ Chain \in Seq({"metadata", "vllm", "neo4j"}) /\ MaxGeneration \in Nat \ {0}
  /\ \A i \in 1..N : /\ (Chain[i] = "neo4j") = (i = N)
                     /\ Chain[i] = "metadata" => i = 1
                     /\ Chain[i] = "vllm" => i = N - 1
                     /\ Patience[Chain[i]] \in Nat

VARIABLES generation,
          phase,     \* of each launcher
          alarm,     \* of each: 0, or 1 more than the time since its signal
          server,    \* of each its own: "off", "up" or "term" (signalled)
          app,       \* the program: "off", "running", "term" (signalled) or "ended"
          ledger,    \* of each task: [state, holder], holder the generation of a lease
          intent,    \* of each task: "none", "prepared" or "committed"
          graph,     \* the tasks whose batch is in the graph
          out,       \* what this generation has left: [release, tasks, intents]
          results    \* what the last generation with a checkpoint left

services == <<phase, alarm, server>>
data == <<ledger, intent, graph>>
vars == <<generation, services, app, data, out, results>>

Phases == {"off", "starting", "restoring", "running", "freezing", "exporting", "exported", "stopping",
           "stopped", "killed"}

NoTasks == [t \in Task |-> [state |-> "pending", holder |-> 0]]
NoIntents == [t \in Task |-> "none"]
Empty == [release |-> Nothing, tasks |-> Nothing, intents |-> Nothing]

Init ==
  /\ generation = 1 /\ app = "off"
  /\ phase = [i \in 1..N |-> IF i = 1 THEN "starting" ELSE "off"]
  /\ alarm = [i \in 1..N |-> 0] /\ server = [i \in 1..N |-> IF i = 1 THEN "up" ELSE "off"]
  /\ ledger = NoTasks /\ intent = NoIntents /\ graph = {}
  /\ out = Empty /\ results = Empty

-----------------------------------------------------------------------------
\* The launchers.

Go(i, p) == phase' = [phase EXCEPT ![i] = p]
IsKind(i, kind) == Chain[i] = kind

\* The launchers that a signal to launcher i reaches, each by the handler of the
\* one before it; the program gets it from the last one.
Reached(i) == {j \in i..N : \A k \in i..(j - 1) : phase[k] = "running"}
               \ {j \in 1..N : phase[j] \in {"off", "stopped", "killed"}}

\* The servers that the signal reaches as well: the metadata launcher signals
\* the group of its application, in which the database is, too.
Struck(i) == {j \in 1..N : /\ IsKind(i, "metadata") /\ phase[i] = "running"
                          /\ IsKind(j, "neo4j") /\ server[j] = "up"}

\* The handlers.  One that has no application yet only remembers the signal.
Stop(i) ==
  /\ server' = [j \in 1..N |-> IF j \in Struck(i) THEN "term" ELSE server[j]]
  /\ alarm' = [j \in 1..N |-> IF j \in Reached(i) /\ alarm[j] = 0 THEN 1 ELSE alarm[j]]
  /\ app' = IF app = "running" /\ N \in Reached(i) /\ phase[N] = "running" THEN "term" ELSE app

\* Before the walltime, the job script signals the outermost launcher.
Signal ==
  /\ phase[1] \notin {"stopped", "killed"} /\ alarm[1] = 0 /\ Stop(1)
  /\ UNCHANGED <<generation, phase, data, out, results>>

\* The innermost command timeout, the shortest, expires first.
Timeout ==
  /\ phase[N] = "running" /\ alarm[N] = 0 /\ Stop(N)
  /\ UNCHANGED <<generation, phase, data, out, results>>

\* A signalled server ends in its own time.
ServerEnds(i) ==
  /\ server[i] = "term" /\ server' = [server EXCEPT ![i] = "off"]
  /\ UNCHANGED <<generation, phase, alarm, app, data, out, results>>

\* The server answers; or it exits, is late, or the start was interrupted.
Ready(i) ==
  /\ phase[i] = "starting"
  /\ \/ alarm[i] = 0 /\ Go(i, "restoring")
     \/ Go(i, "stopping")
  /\ UNCHANGED <<generation, alarm, server, app, data, out, results>>

\* Faulty variant of Requeue: a leased row is restored as it was exported.
RequeueLeases(row) == row

\* Faulty variant of Requeue: the row keeps the holder of its lease.
RequeueHolder(row) == IF row.state = "leased" THEN [row EXCEPT !.state = "pending"] ELSE row

\* A row of the ledger's export, restored.
Requeue(row) == IF row.state = "leased" THEN [state |-> "pending", holder |-> 0] ELSE row

\* The application is started, after the ledger or the graph is restored from
\* the results of an earlier generation; a signal since the server answered
\* does not keep it from being started, unless it ends the server.
Start(i) ==
  /\ phase[i] = "restoring" /\ server[i] # "off"
  /\ phase' = [j \in 1..N |-> CASE j = i -> "running" [] j = i + 1 -> "starting" [] OTHER -> phase[j]]
  /\ server' = [j \in 1..N |-> IF j = i + 1 THEN "up" ELSE server[j]]
  /\ app' = IF i = N THEN "running" ELSE app
  /\ IF results = Empty THEN UNCHANGED data
     ELSE /\ ledger' = IF IsKind(i, "metadata") THEN [t \in Task |-> Requeue(results.tasks[t])] ELSE ledger
          /\ intent' = IF IsKind(i, "metadata") THEN results.intents ELSE intent
          /\ graph' = IF IsKind(i, "neo4j") THEN results.release ELSE graph
  /\ UNCHANGED <<generation, alarm, out, results>>

\* A failed restore: the metadata launcher exports what there is.  Without one,
\* only a server that is gone fails.
RestoreFails(i) ==
  /\ phase[i] = "restoring" /\ (results # Empty \/ server[i] # "up")
  /\ Go(i, IF IsKind(i, "metadata") THEN "exporting" ELSE "stopping")
  /\ UNCHANGED <<generation, alarm, server, app, data, out, results>>

Over(i) == IF i = N THEN app = "ended" ELSE phase[i + 1] \in {"stopped", "killed"}

\* The application has ended.
Ended(i) ==
  /\ phase[i] = "running" /\ Over(i)
  /\ Go(i, CASE IsKind(i, "neo4j") -> "freezing" [] IsKind(i, "metadata") -> "exporting" [] OTHER -> "stopping")
  /\ UNCHANGED <<generation, alarm, server, app, data, out, results>>

\* Faulty variant of Due: the outermost launcher waits without a limit.
DueInner(i) == i > 1 /\ phase[i] = "running" /\ alarm[i] > Patience[Chain[i]] /\ ~Over(i)

Due(i) == phase[i] = "running" /\ alarm[i] > Patience[Chain[i]] /\ ~Over(i)

\* What a kill ends.  The metadata launcher kills the group of its application:
\* a vllm launcher, the neo4j launcher that it started in the same group, and
\* the database; the program and the model server have groups of their own.
Group(i) == IF IsKind(i, "vllm") THEN {i + 1} ELSE (i + 1)..N

Kill(i) ==
  /\ Due(i)
  /\ phase' = [j \in 1..N |-> IF i < N /\ j \in Group(i) /\ phase[j] # "off" THEN "killed" ELSE phase[j]]
  /\ server' = [j \in 1..N |-> IF IsKind(i, "metadata") /\ IsKind(j, "neo4j") THEN "off" ELSE server[j]]
  /\ app' = IF i = N THEN "ended" ELSE app
  /\ UNCHANGED <<generation, alarm, data, out, results>>

\* The checkpoint of the graph, if it has the namespace; or freezing fails, as
\* it does without the database.
Freeze(i) ==
  /\ phase[i] = "freezing" /\ Go(i, "stopping")
  /\ \/ graph # {} /\ server[i] # "off" /\ out' = [out EXCEPT !.release = graph]
     \/ UNCHANGED out
  /\ UNCHANGED <<generation, alarm, server, app, data, results>>

\* The export reads the tables in turn, each as it is committed by then.
ExportTasks ==
  /\ phase[1] = "exporting" /\ Go(1, "exported")
  /\ out' = [out EXCEPT !.tasks = ledger]
  /\ UNCHANGED <<generation, alarm, server, app, data, results>>

ExportIntents ==
  /\ phase[1] = "exported" /\ Go(1, "stopping")
  /\ out' = [out EXCEPT !.intents = intent]
  /\ UNCHANGED <<generation, alarm, server, app, data, results>>

\* An export that fails stops the servers all the same.
ExportFails ==
  /\ phase[1] \in {"exporting", "exported"} /\ Go(1, "stopping")
  /\ UNCHANGED <<generation, alarm, server, app, data, out, results>>

StopServer(i) ==
  /\ phase[i] = "stopping" /\ Go(i, "stopped")
  /\ server' = [server EXCEPT ![i] = "off"]
  /\ UNCHANGED <<generation, alarm, app, data, out, results>>

\* A unit of time, once every launcher has done what it is due to do.
Tick ==
  /\ \E i \in 1..N : phase[i] = "running" /\ alarm[i] \in 1..Patience[Chain[i]]
  /\ \A i \in 1..N : ~Due(i) /\ ~(phase[i] = "running" /\ Over(i))
  /\ alarm' = [i \in 1..N |-> IF phase[i] = "running" /\ alarm[i] \in 1..Patience[Chain[i]]
                              THEN alarm[i] + 1 ELSE alarm[i]]
  /\ UNCHANGED <<generation, phase, server, app, data, out, results>>

-----------------------------------------------------------------------------
\* The program.

Works == app \in {"running", "term"}
Mine(t) == ledger[t] = [state |-> "leased", holder |-> generation]
Metadata == IsKind(1, "metadata") => server[1] # "off"    \* else the ledger is a file
Neo4j == server[N] # "off"
Unserved == <<generation, services, out, results>>

Lease(t) ==
  /\ Works /\ Metadata /\ ledger[t].state = "pending" /\ \A u \in Task : ~Mine(u)
  /\ ledger' = [ledger EXCEPT ![t] = [state |-> "leased", holder |-> generation]]
  /\ intent' = [intent EXCEPT ![t] = "prepared"]
  /\ UNCHANGED <<Unserved, app, graph>>

Write(t) ==
  /\ Works /\ Neo4j /\ Mine(t) /\ t \notin graph
  /\ graph' = graph \cup {t}
  /\ UNCHANGED <<Unserved, app, ledger, intent>>

\* Faulty variant of Complete: the ledger is completed before the graph.
CompleteEarly(t) ==
  /\ Works /\ Metadata /\ Mine(t)
  /\ ledger' = [ledger EXCEPT ![t] = [state |-> "done", holder |-> generation]]
  /\ intent' = [intent EXCEPT ![t] = "committed"]
  /\ UNCHANGED <<Unserved, app, graph>>

Complete(t) ==
  /\ Works /\ Metadata /\ Mine(t) /\ t \in graph
  /\ ledger' = [ledger EXCEPT ![t] = [state |-> "done", holder |-> generation]]
  /\ intent' = [intent EXCEPT ![t] = "committed"]
  /\ UNCHANGED <<Unserved, app, graph>>

\* The program ends by itself; interrupted, it releases its lease if it can.
AppEnds ==
  /\ Works /\ app' = "ended"
  /\ \/ UNCHANGED ledger
     \/ /\ Metadata /\ app = "term"
        /\ ledger' = [t \in Task |-> IF Mine(t) THEN [state |-> "pending", holder |-> 0] ELSE ledger[t]]
  /\ UNCHANGED <<Unserved, intent, graph>>

-----------------------------------------------------------------------------
\* Generations.

Whole(o) == Nothing \notin {o.release, o.tasks, o.intents}

\* Faulty variant of Left: any export is resumed, with the release of before.
LeftAny == IF out.tasks # Nothing /\ out.intents # Nothing /\ results # Empty
           THEN [out EXCEPT !.release = results.release] ELSE IF Whole(out) THEN out ELSE results

\* A job is resumed from the last results directory that has a checkpoint.
Left == IF Whole(out) THEN out ELSE results

\* A new job, in fresh directories, once the old one has ended.
Resume ==
  /\ phase[1] = "stopped" /\ ~Works /\ generation < MaxGeneration
  /\ generation' = generation + 1 /\ results' = Left /\ out' = Empty /\ app' = "off"
  /\ phase' = [i \in 1..N |-> IF i = 1 THEN "starting" ELSE "off"]
  /\ alarm' = [i \in 1..N |-> 0] /\ server' = [i \in 1..N |-> IF i = 1 THEN "up" ELSE "off"]
  /\ ledger' = NoTasks /\ intent' = NoIntents /\ graph' = {}

Finished == phase[1] = "stopped" /\ ~Works /\ generation = MaxGeneration /\ UNCHANGED vars

Launch(i) == Ready(i) \/ Start(i) \/ RestoreFails(i) \/ Ended(i) \/ Kill(i) \/ Freeze(i) \/ StopServer(i)
Export == ExportTasks \/ ExportIntents \/ ExportFails
Program == (\E t \in Task : Lease(t) \/ Write(t) \/ Complete(t)) \/ AppEnds

Next == \/ Signal \/ Timeout \/ Tick \/ (\E i \in 1..N : Launch(i) \/ ServerEnds(i)) \/ Export \/ Program
        \/ Resume \/ Finished

\* The launchers poll, their waits for a server and for its end are bounded.
Fairness == WF_vars(Tick) /\ WF_vars(Export) /\ \A i \in 1..N : WF_vars(Launch(i))
Spec == Init /\ [][Next]_vars
LiveSpec == Spec /\ Fairness

-----------------------------------------------------------------------------
\* Properties.

TypeOK ==
  /\ generation \in 1..MaxGeneration /\ app \in {"off", "running", "term", "ended"}
  /\ phase \in [1..N -> Phases] /\ server \in [1..N -> {"off", "up", "term"}] /\ graph \subseteq Task
  /\ \A i \in 1..N : alarm[i] \in 0..(Patience[Chain[i]] + 1)
  /\ \A t \in Task : /\ ledger[t].state \in {"pending", "leased", "done"} /\ ledger[t].holder \in 0..generation
                     /\ (ledger[t].state = "pending") = (ledger[t].holder = 0)
                     /\ intent[t] \in {"none", "prepared", "committed"}
  /\ \A i \in 2..N : phase[i] # "off" => phase[i - 1] \notin {"off", "starting", "restoring"}

Done(tasks) == {t \in Task : tasks[t].state = "done"}

\* What a job is resumed from agrees, although graph and ledger are saved by two
\* launchers at two times and either may be killed: a task the export calls done
\* has its batch in the release and its intent committed, and is not done again
\* nor lost by the jobs resumed from it; the release is the graph the program
\* left, not one it still wrote to (run.py:144-150, metadata.py:140-144).
ResultsAgree ==
  /\ out.release # Nothing /\ app = "ended" => out.release = graph
  /\ Whole(out) => \A t \in Done(out.tasks) : t \in out.release /\ out.intents[t] = "committed"
  /\ results # Empty =>
       /\ Done(results.tasks) \subseteq results.release
       /\ app # "off" => results.release \subseteq graph /\ Done(results.tasks) \subseteq Done(ledger)

\* A lease is always one of this job's program: the export fences the holders
\* of the leases that it has (durable.py:321-322).
LeasesCurrent == \A t \in Task : ledger[t].state = "leased" => ledger[t].holder = generation

\* Results are only ever replaced by results that hold at least as much; a failed
\* restore, whose ledger is exported empty, replaces none (metadata.py:140-144).
ResultsGrow ==
  [][results' # results /\ results # Empty =>
       /\ results.release \subseteq results'.release
       /\ Done(results.tasks) \subseteq Done(results'.tasks)]_vars

\* Once signalled, at any moment, a job ends (run.py:140, metadata.py:128).
SignalStops == alarm[1] # 0 ~> phase[1] = "stopped"
=============================================================================
