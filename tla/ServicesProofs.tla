--------------------------- MODULE ServicesProofs ---------------------------
(***************************************************************************)
(* What a job is resumed from agrees, for any chain of launchers that the  *)
(* job scripts nest, any tasks and any number of jobs.  The argument: a    *)
(* launcher that has left its application behind knows that none of the    *)
(* inner ones goes on (Nested); the graph is frozen only after the program *)
(* has ended (Frozen), so that ledger and intents, exported afterwards,    *)
(* are the last ones too (Exported); and every job starts its program on a *)
(* ledger and a graph restored from one checkpoint (Restored).             *)
(***************************************************************************)
EXTENDS Services, TLAPS

Rows(g) == [Task -> {r \in [state : {"pending", "leased", "done"}, holder : 0..g] :
                       r.state = "pending" <=> r.holder = 0}]
Intents == [Task -> {"none", "prepared", "committed"}]
Outs(g) == [release : (SUBSET Task) \cup {Nothing}, tasks : Rows(g) \cup {Nothing},
            intents : Intents \cup {Nothing}]

Typed ==
  /\ generation \in 1..MaxGeneration
  /\ app \in {"off", "running", "term", "ended"}
  /\ phase \in [1..N -> Phases]
  /\ alarm \in [1..N -> Nat] /\ \A i \in 1..N : alarm[i] <= Patience[Chain[i]] + 1
  /\ server \in [1..N -> {"off", "up", "term"}]
  /\ ledger \in Rows(generation) /\ intent \in Intents /\ graph \subseteq Task
  /\ out \in Outs(generation)
  /\ results \in Outs(generation) /\ (results # Empty => Whole(results))

Live(i) == phase[i] \notin {"off", "stopped", "killed"}

\* An inner launcher is started by a running one; once that is past running, none of
\* the inner ones goes on.
Nested ==
  /\ \A i \in 1..N : phase[i] # "off" =>
       \A k \in 1..(i - 1) : phase[k] \notin {"off", "starting", "restoring"}
  /\ \A i \in 1..N : phase[i] # "running" => \A j \in (i + 1)..N : ~Live(j)
  /\ phase[1] # "off"
  /\ \A i \in 1..N : phase[i] \in {"exporting", "exported"} => IsKind(i, "metadata")
  /\ \A i \in 1..N : phase[i] = "freezing" => i = N

\* The program runs under the last launcher.
Hosted ==
  /\ phase[N] \in {"off", "starting", "restoring"} => app = "off"
  /\ phase[N] = "running" => app # "off"
  /\ phase[N] = "freezing" => app = "ended"

\* The ledger is behind the graph and its intents.
Behind ==
  /\ \A t \in Done(ledger) : intent[t] = "committed"
  /\ app # "off" => Done(ledger) \subseteq graph
  /\ app = "off" => Done(ledger) \subseteq IF results = Empty THEN {} ELSE Done(results.tasks)

\* The release is the graph that the program has left, ...
Frozen ==
  out.release # Nothing => /\ app = "ended" /\ out.release = graph
                           /\ phase[N] \notin {"off", "starting", "restoring", "running", "freezing"}

\* ... and with a release, what is exported is what the program has left.
Exported ==
  /\ out.tasks # Nothing => /\ phase[1] \in {"exported", "stopping", "stopped"} /\ IsKind(1, "metadata")
                            /\ out.release # Nothing => out.tasks = ledger
  /\ out.intents # Nothing => /\ phase[1] \in {"stopping", "stopped"} /\ IsKind(1, "metadata")
                              /\ out.release # Nothing => out.intents = intent

\* What the earlier job has left, and this one has restored.
Restored ==
  results # Empty =>
    /\ IsKind(1, "metadata")
    /\ Done(results.tasks) \subseteq results.release
    /\ \A t \in Done(results.tasks) : results.intents[t] = "committed"
    /\ \A i \in 2..N : phase[i] # "off" => Done(results.tasks) \subseteq Done(ledger)
    /\ app # "off" => results.release \subseteq graph /\ Done(results.tasks) \subseteq Done(ledger)

IInv == Typed /\ Nested /\ Hosted /\ Behind /\ Frozen /\ Exported /\ Restored /\ LeasesCurrent

-----------------------------------------------------------------------------
LEMMA ChainFacts ==
  /\ N \in Nat /\ N >= 1 /\ IsKind(N, "neo4j")
  /\ \A i \in 1..N : /\ IsKind(i, "neo4j") <=> i = N
                     /\ IsKind(i, "metadata") => i = 1
                     /\ IsKind(i, "vllm") => i = N - 1
                     /\ Patience[Chain[i]] \in Nat
BY ChainAssumption DEF N, IsKind

LEMMA InitHolds == Init => IInv
<1> SUFFICES ASSUME Init PROVE IInv
  OBVIOUS
<1>1. Typed
  <2>1. NoTasks \in Rows(1) /\ NoIntents \in Intents /\ Empty \in Outs(1)
    BY DEF NoTasks, NoIntents, Empty, Rows, Intents, Outs
  <2>2. phase \in [1..N -> Phases] /\ alarm \in [1..N -> Nat] /\ server \in [1..N -> {"off", "up", "term"}]
    BY DEF Init, Phases
  <2>3. \A i \in 1..N : alarm[i] <= Patience[Chain[i]] + 1
    BY ChainFacts DEF Init
  <2> QED BY <2>1, <2>2, <2>3, ChainAssumption DEF Init, Typed
<1>2. Nested /\ Hosted
  BY ChainFacts DEF Init, Nested, Hosted, Live
<1>3. Done(ledger) = {} /\ LeasesCurrent
  BY DEF Init, Done, NoTasks, LeasesCurrent
<1>4. Behind /\ Frozen /\ Exported /\ Restored
  BY <1>3 DEF Init, Behind, Frozen, Exported, Restored, Empty
<1> QED BY <1>1, <1>2, <1>3, <1>4 DEF IInv

-----------------------------------------------------------------------------
\* Types.

LEMMA RowsGrow == ASSUME NEW g \in Nat PROVE Rows(g) \subseteq Rows(g + 1) /\ Outs(g) \subseteq Outs(g + 1)
<1>1. 0..g \subseteq 0..(g + 1)
  OBVIOUS
<1>2. Rows(g) \subseteq Rows(g + 1)
  BY <1>1 DEF Rows
<1> QED BY <1>2 DEF Outs

LEMMA TypedKept == ASSUME IInv, [Next]_vars PROVE Typed'
<1>0. Typed
  BY DEF IInv
<1> USE ChainFacts
<1>g. generation \in Nat \ {0}
  BY <1>0, ChainAssumption DEF Typed
<1>s. ASSUME NEW i \in 1..N, Stop(i), UNCHANGED <<generation, phase, data, out, results>> PROVE Typed'
  <2>1. alarm' \in [1..N -> Nat] /\ \A j \in 1..N : alarm'[j] <= Patience[Chain[j]] + 1
    BY <1>s, <1>0 DEF Stop, Typed
  <2>2. app' \in {"off", "running", "term", "ended"}
    BY <1>s, <1>0 DEF Stop, Typed
  <2>3. server' \in [1..N -> {"off", "up", "term"}]
    BY <1>s, <1>0 DEF Stop, Typed
  <2> QED BY <1>s, <1>0, <2>1, <2>2, <2>3 DEF Typed, data
<1>1. CASE Signal
  BY <1>1, <1>s DEF Signal
<1>2. CASE Timeout
  BY <1>2, <1>s DEF Timeout
<1>3. CASE Tick
  <2>1. alarm' \in [1..N -> Nat] /\ \A j \in 1..N : alarm'[j] <= Patience[Chain[j]] + 1
    BY <1>3, <1>0 DEF Tick, Typed
  <2> QED BY <1>3, <1>0, <2>1 DEF Typed, Tick, data
<1>e. ASSUME NEW i \in 1..N, ServerEnds(i) PROVE Typed'
  <2>1. server' \in [1..N -> {"off", "up", "term"}]
    BY <1>e, <1>0 DEF ServerEnds, Typed
  <2> QED BY <1>e, <1>0, <2>1 DEF ServerEnds, Typed, data
<1>4. ASSUME NEW i \in 1..N, Launch(i) PROVE Typed'
  <2>p. ASSUME NEW q \in Phases, Go(i, q) PROVE phase' \in [1..N -> Phases]
    BY <2>p, <1>0 DEF Go, Typed
  <2>1. CASE Ready(i)
    <3>1. phase' \in [1..N -> Phases]
      BY <2>1, <2>p DEF Ready, Phases
    <3> QED BY <2>1, <1>0, <3>1 DEF Ready, Typed, data
  <2>2. CASE Start(i)
    <3>1. phase' \in [1..N -> Phases] /\ server' \in [1..N -> {"off", "up", "term"}]
      BY <2>2, <1>0 DEF Start, Typed, Phases
    <3>2. app' \in {"off", "running", "term", "ended"}
      BY <2>2, <1>0 DEF Start, Typed
    <3>3. ledger' \in Rows(generation) /\ intent' \in Intents /\ graph' \subseteq Task
      <4>1. CASE results = Empty
        BY <2>2, <1>0, <4>1 DEF Start, Typed, data
      <4>2. CASE results # Empty
        <5>1. results.tasks \in Rows(generation) /\ results.intents \in Intents /\ results.release \subseteq Task
          BY <1>0, <4>2 DEF Typed, Outs, Whole
        <5>2. [t \in Task |-> Requeue(results.tasks[t])] \in Rows(generation)
          BY <5>1, <1>g DEF Rows, Requeue
        <5> QED BY <2>2, <1>0, <4>2, <5>1, <5>2 DEF Start, Typed
      <4> QED BY <4>1, <4>2
    <3>4. UNCHANGED <<generation, alarm, out, results>>
      BY <2>2 DEF Start
    <3> QED BY <3>1, <3>2, <3>3, <3>4, <1>0 DEF Typed
  <2>3. CASE RestoreFails(i)
    <3>1. phase' \in [1..N -> Phases]
      BY <2>3, <2>p DEF RestoreFails, Phases
    <3> QED BY <2>3, <1>0, <3>1 DEF RestoreFails, Typed, data
  <2>4. CASE Ended(i)
    <3>1. phase' \in [1..N -> Phases]
      BY <2>4, <2>p DEF Ended, Phases
    <3> QED BY <2>4, <1>0, <3>1 DEF Ended, Typed, data
  <2>5. CASE Kill(i)
    <3>1. phase' \in [1..N -> Phases] /\ server' \in [1..N -> {"off", "up", "term"}]
      BY <2>5, <1>0 DEF Kill, Typed, Phases
    <3>2. app' \in {"off", "running", "term", "ended"}
      BY <2>5, <1>0 DEF Kill, Typed
    <3> QED BY <2>5, <1>0, <3>1, <3>2 DEF Kill, Typed, data
  <2>6. CASE Freeze(i)
    <3>1. phase' \in [1..N -> Phases]
      BY <2>6, <2>p DEF Freeze, Phases
    <3>2. out' \in Outs(generation)
      BY <2>6, <1>0 DEF Freeze, Typed, Outs
    <3> QED BY <2>6, <1>0, <3>1, <3>2 DEF Freeze, Typed, data
  <2>7. CASE StopServer(i)
    <3>1. phase' \in [1..N -> Phases]
      BY <2>7, <2>p DEF StopServer, Phases
    <3>2. server' \in [1..N -> {"off", "up", "term"}]
      BY <2>7, <1>0 DEF StopServer, Typed
    <3> QED BY <2>7, <1>0, <3>1, <3>2 DEF StopServer, Typed, data
  <2> QED BY <1>4, <2>1, <2>2, <2>3, <2>4, <2>5, <2>6, <2>7 DEF Launch
<1>5. CASE Export
  <2>1. phase' \in [1..N -> Phases]
    BY <1>5, <1>0 DEF Export, ExportTasks, ExportIntents, ExportFails, Go, Typed, Phases
  <2>2. out' \in Outs(generation)
    BY <1>5, <1>0 DEF Export, ExportTasks, ExportIntents, ExportFails, Typed, Outs
  <2> QED BY <1>5, <1>0, <2>1, <2>2 DEF Export, ExportTasks, ExportIntents, ExportFails, Typed, data
<1>6. CASE Program
  <2>1. UNCHANGED <<generation, phase, alarm, server, out, results>>
    BY <1>6 DEF Program, Lease, Write, Complete, AppEnds, Unserved, services
  <2>2. app' \in {"off", "running", "term", "ended"} /\ graph' \subseteq Task
    BY <1>6, <1>0 DEF Program, Lease, Write, Complete, AppEnds, Typed
  <2>3. ledger' \in Rows(generation) /\ intent' \in Intents
    <3>1. ASSUME NEW t \in Task, Lease(t) PROVE ledger' \in Rows(generation) /\ intent' \in Intents
      BY <3>1, <1>0, <1>g DEF Lease, Typed, Rows, Intents
    <3>2. ASSUME NEW t \in Task, Complete(t) PROVE ledger' \in Rows(generation) /\ intent' \in Intents
      BY <3>2, <1>0, <1>g DEF Complete, Typed, Rows, Intents
    <3>3. ASSUME AppEnds PROVE ledger' \in Rows(generation) /\ intent' \in Intents
      BY <3>3, <1>0, <1>g DEF AppEnds, Typed, Rows, Intents
    <3> QED BY <1>6, <1>0, <3>1, <3>2, <3>3 DEF Program, Write, Typed
  <2> QED BY <1>0, <2>1, <2>2, <2>3 DEF Typed
<1>7. CASE Resume
  <2>1. generation' \in 1..MaxGeneration
    BY <1>7, <1>0, <1>g, ChainAssumption DEF Resume, Typed
  <2>2. NoTasks \in Rows(generation') /\ NoIntents \in Intents /\ Empty \in Outs(generation')
    BY <2>1, ChainAssumption DEF NoTasks, NoIntents, Empty, Rows, Intents, Outs
  <2>3. results' \in Outs(generation') /\ (results' # Empty => Whole(results'))
    BY <1>7, <1>0, <1>g, RowsGrow DEF Resume, Typed, Left
  <2>4. /\ phase' \in [1..N -> Phases] /\ alarm' \in [1..N -> Nat] /\ server' \in [1..N -> {"off", "up", "term"}]
        /\ \A i \in 1..N : alarm'[i] <= Patience[Chain[i]] + 1
    BY <1>7 DEF Resume, Phases
  <2> QED BY <1>7, <2>1, <2>2, <2>3, <2>4 DEF Resume, Typed
<1>8. CASE UNCHANGED vars
  BY <1>8, <1>0 DEF vars, services, data, Typed
<1> QED BY <1>1, <1>2, <1>3, <1>e, <1>4, <1>5, <1>6, <1>7, <1>8 DEF Next, Finished

-----------------------------------------------------------------------------
\* The launchers and the program in them.

\* A launcher that is not running yet has started nothing.
LEMMA NotStarted ==
  ASSUME IInv, NEW i \in 1..N, phase[i] \in {"off", "starting", "restoring"}
  PROVE  \A j \in (i + 1)..N : phase[j] = "off"
<1> SUFFICES ASSUME NEW j \in (i + 1)..N, phase[j] # "off" PROVE FALSE
  OBVIOUS
<1>1. j \in 1..N /\ i \in 1..(j - 1)
  BY ChainFacts
<1> QED BY <1>1 DEF IInv, Nested

\* A step of launcher i that does not start an application.
LEMMA NestedMoves ==
  ASSUME IInv, NEW i \in 1..N, NEW q \in Phases, Go(i, q), app' = app,
         Live(i), q \notin {"off", "running", "killed"},
         q \in {"starting", "restoring"} => phase[i] \in {"starting", "restoring"},
         phase[i] = "running" => Over(i),
         q \in {"exporting", "exported"} => IsKind(i, "metadata"),
         q = "freezing" => i = N /\ phase[i] = "running"
  PROVE  Nested' /\ Hosted'
<1> USE ChainFacts
<1>0. phase \in [1..N -> Phases] /\ Nested /\ Hosted
  BY DEF IInv, Typed
<1>1. phase'[i] = q /\ \A j \in 1..N : j # i => phase'[j] = phase[j]
  BY <1>0 DEF Go
<1>2. ASSUME NEW j \in 1..N, phase'[j] # "off", NEW k \in 1..(j - 1)
      PROVE  phase'[k] \notin {"off", "starting", "restoring"}
  <2>1. phase[j] # "off"
    BY <1>1, <1>2 DEF Live
  <2>2. phase[k] \notin {"off", "starting", "restoring"}
    BY <2>1, <1>0, <1>2 DEF Nested
  <2> QED BY <2>2, <1>1
<1>3. ASSUME NEW k \in 1..N, phase'[k] # "running", NEW j \in (k + 1)..N
      PROVE  ~Live(j)'
  <2>1. CASE phase[k] # "running"
    <3>1. ~Live(j) /\ j # i
      BY <2>1, <1>0, <1>3 DEF Nested, Live
    <3> QED BY <3>1, <1>1 DEF Live
  <2>2. CASE phase[k] = "running"
    <3>1. k = i /\ Over(i)
      BY <2>2, <1>1, <1>3
    <3>2. phase[i + 1] \in {"stopped", "killed"}
      BY <3>1 DEF Over
    <3>3. j = i + 1 \/ j \in ((i + 1) + 1)..N
      BY <3>1
    <3>4. ~Live(j)
      BY <3>1, <3>2, <3>3, <1>0 DEF Nested, Live
    <3> QED BY <3>1, <3>4, <1>1 DEF Live
  <2> QED BY <2>1, <2>2
<1>4. Nested'
  BY <1>0, <1>1, <1>2, <1>3 DEF Nested
<1>5. Hosted'
  <2>1. CASE i # N
    BY <2>1, <1>0, <1>1 DEF Hosted
  <2>2. CASE i = N
    BY <2>2, <1>0, <1>1 DEF Hosted, Over
  <2> QED BY <2>1, <2>2
<1> QED BY <1>4, <1>5

LEMMA NestedKept == ASSUME IInv, [Next]_vars PROVE Nested' /\ Hosted'
<1> USE ChainFacts
<1>0. phase \in [1..N -> Phases] /\ Nested /\ Hosted
  BY DEF IInv, Typed
<1>1. ASSUME phase' = phase, app' = app \/ (app # "off" /\ app' = "term" /\ phase[N] = "running")
                                       \/ (app \notin {"off", "ended"} /\ app' = "ended")
      PROVE  Nested' /\ Hosted'
  BY <1>1, <1>0 DEF Nested, Hosted, Live
<1>2. ASSUME Signal \/ Timeout PROVE Nested' /\ Hosted'
  <2>1. phase' = phase /\ (app' = app \/ (app = "running" /\ app' = "term" /\ phase[N] = "running"))
    BY <1>2 DEF Signal, Timeout, Stop
  <2> QED BY <2>1, <1>1
<1>3. ASSUME Tick \/ Program \/ (\E i \in 1..N : ServerEnds(i)) PROVE Nested' /\ Hosted'
  BY <1>3, <1>1 DEF Tick, ServerEnds, Program, Lease, Write, Complete, AppEnds, Unserved, Works, services
<1>4. ASSUME NEW i \in 1..N, Launch(i) PROVE Nested' /\ Hosted'
  <2>1. CASE Ready(i)
    <3>1. \E q \in {"restoring", "stopping"} : Go(i, q)
      BY <2>1 DEF Ready
    <3> QED BY <3>1, <2>1, NestedMoves DEF Ready, Live, Phases
  <2>2. CASE Start(i)
    <3>1. \A j \in (i + 1)..N : phase[j] = "off"
      BY <2>2, NotStarted DEF Start
    <3>0. i # i + 1
      OBVIOUS
    <3>2. phase'[i] = "running"
      BY <3>0, <2>2, Zenon DEF Start
    <3>3. \A j \in 1..N : j = i + 1 => phase'[j] = "starting"
      BY <3>0, <2>2, Zenon DEF Start
    <3>4. \A j \in 1..N : j # i /\ j # i + 1 => phase'[j] = phase[j]
      BY <2>2, Zenon DEF Start
    <3>5. phase[i] = "restoring" /\ app' = IF i = N THEN "running" ELSE app
      BY <2>2 DEF Start
    <3>6. ASSUME NEW j \in 1..N, phase'[j] # "off", NEW k \in 1..(j - 1)
          PROVE  phase'[k] \notin {"off", "starting", "restoring"}
      <4>1. j <= i + 1
        BY <3>1, <3>4, <3>6
      <4>2. CASE k = i
        BY <4>2, <3>2
      <4>3. CASE k # i
        <5>1. k \in 1..(i - 1)
          BY <4>1, <4>3
        <5> QED BY <5>1, <3>4, <3>5, <1>0 DEF Nested
      <4> QED BY <4>2, <4>3
    <3>7. ASSUME NEW k \in 1..N, phase'[k] # "running", NEW j \in (k + 1)..N
          PROVE  ~Live(j)'
      <4>2. phase[k] # "running"
        BY <3>1, <3>4, <3>5, <3>7
      <4>3. ~Live(j) /\ j # i
        BY <4>2, <3>5, <1>0 DEF Nested, Live
      <4>4. CASE j = i + 1
        <5>1. k < i
          BY <4>4, <3>2, <3>7
        <5> QED BY <5>1, <4>2, <3>5, <1>0 DEF Nested, Live
      <4> QED BY <4>3, <4>4, <3>4 DEF Live
    <3>8. Nested'
      <4>1. phase'[1] # "off"
        BY <3>2, <3>3, <3>4, <1>0 DEF Nested
      <4>2. \A j \in 1..N : phase'[j] \in {"running", "starting"} \/ phase'[j] = phase[j]
        BY <3>2, <3>3, <3>4
      <4> QED BY <4>1, <4>2, <3>6, <3>7, <1>0 DEF Nested
    <3>9. Hosted'
      <4>1. CASE i = N
        BY <4>1, <3>2, <3>5 DEF Hosted
      <4>2. CASE i # N
        <5>1. phase[N] = "off" /\ app = "off"
          BY <4>2, <3>1, <1>0 DEF Hosted
        <5>2. phase'[N] \in {"starting", "off"} /\ app' = "off"
          BY <5>1, <4>2, <3>3, <3>4, <3>5
        <5> QED BY <5>2 DEF Hosted
      <4> QED BY <4>1, <4>2
    <3> QED BY <3>8, <3>9
  <2>3. CASE RestoreFails(i)
    <3>1. \E q \in {"exporting", "stopping"} : Go(i, q) /\ (q = "exporting" => IsKind(i, "metadata"))
      BY <2>3 DEF RestoreFails
    <3> QED BY <3>1, <2>3, NestedMoves DEF RestoreFails, Live, Phases
  <2>4. CASE Ended(i)
    <3>1. \E q \in {"freezing", "exporting", "stopping"} :
            Go(i, q) /\ (q = "exporting" => IsKind(i, "metadata")) /\ (q = "freezing" => IsKind(i, "neo4j"))
      BY <2>4, Zenon DEF Ended
    <3> QED BY <3>1, <2>4, NestedMoves DEF Ended, Live, Phases
  <2>5. CASE Kill(i)
    <3>1. phase[i] = "running" /\ ~Over(i) /\ app' = IF i = N THEN "ended" ELSE app
      BY <2>5 DEF Kill, Due
    <3>2. \A j \in 1..N : phase'[j] = phase[j] \/ (phase[j] # "off" /\ phase'[j] = "killed" /\ i < N /\ j \in Group(i))
      BY <2>5 DEF Kill
    <3>3. \A j \in Group(i) : j > i
      BY DEF Group
    <3>4. ASSUME NEW k \in 1..N, phase'[k] # "running", NEW j \in (k + 1)..N
          PROVE  ~Live(j)'
      <4>1. CASE phase[k] # "running"
        BY <4>1, <3>2, <1>0 DEF Nested, Live
      <4>2. CASE phase[k] = "running"
        <5>1. k \in Group(i) /\ i < N
          BY <4>2, <3>2, <3>4
        <5>2. CASE IsKind(i, "vllm")
          BY <5>1, <5>2, <3>4 DEF Group
        <5>3. CASE ~IsKind(i, "vllm")
          <6>1. j \in Group(i)
            BY <5>1, <5>3, <3>3 DEF Group
          <6> QED BY <6>1, <5>1, <2>5 DEF Kill, Live
        <5> QED BY <5>2, <5>3
      <4> QED BY <4>1, <4>2
    <3>5. Nested'
      <4>1. phase'[1] # "off" /\ \A j \in 1..N : phase'[j] \in {"killed", phase[j]}
        BY <3>2, <1>0 DEF Nested
      <4>2. \A j \in 1..N : phase'[j] # "off" => phase[j] # "off"
        BY <3>2
      <4> QED BY <4>1, <4>2, <3>4, <1>0 DEF Nested
    <3>6. Hosted'
      <4>1. phase'[N] \in {"killed", phase[N]}
        BY <3>2
      <4>2. i = N => phase[N] = "running"
        BY <3>1
      <4> QED BY <4>1, <4>2, <3>1, <1>0 DEF Hosted
    <3> QED BY <3>5, <3>6
  <2>6. CASE Freeze(i)
    BY <2>6, NestedMoves DEF Freeze, Live, Phases
  <2>7. CASE StopServer(i)
    BY <2>7, NestedMoves DEF StopServer, Live, Phases
  <2> QED BY <1>4, <2>1, <2>2, <2>3, <2>4, <2>5, <2>6, <2>7 DEF Launch
<1>5. ASSUME Export PROVE Nested' /\ Hosted'
  <2>1. \E q \in {"exported", "stopping"} :
          Go(1, q) /\ phase[1] \in {"exporting", "exported"} /\ app' = app
    BY <1>5 DEF Export, ExportTasks, ExportIntents, ExportFails
  <2>2. IsKind(1, "metadata") /\ 1 \in 1..N
    BY <2>1, <1>0 DEF Nested
  <2> QED BY <2>1, <2>2, NestedMoves DEF Live, Phases
<1>6. ASSUME Resume PROVE Nested' /\ Hosted'
  BY <1>6 DEF Resume, Nested, Hosted, Live
<1>7. CASE UNCHANGED vars
  BY <1>7, <1>1 DEF vars, services
<1> QED BY <1>2, <1>3, <1>4, <1>5, <1>6, <1>7 DEF Next, Finished

-----------------------------------------------------------------------------
\* What is written, saved and restored.

Agree == Behind /\ Frozen /\ Exported /\ Restored /\ LeasesCurrent

\* A step that only moves launchers on, or the program.
LEMMA AgreeKeptMoving ==
  ASSUME IInv, UNCHANGED <<generation, data, out, results>>,
         app' = app \/ (app \notin {"off", "ended"} /\ app' # "off"),
         \A i \in 1..N : phase[i] \notin {"off", "starting", "restoring", "running", "freezing"}
                          => phase'[i] \notin {"off", "starting", "restoring", "running", "freezing"},
         phase[1] \in {"exported", "stopping", "stopped"} => phase'[1] \in {"exported", "stopping", "stopped"},
         phase[1] \in {"stopping", "stopped"} => phase'[1] \in {"stopping", "stopped"},
         \A i \in 2..N : phase'[i] # "off" => phase[i] # "off"
  PROVE  Agree'
<1> USE ChainFacts
<1>0. Done(ledger)' = Done(ledger) /\ Done(results.tasks)' = Done(results.tasks)
  BY DEF data, Done
<1>1. Behind'
  BY <1>0 DEF IInv, Behind, data
<1>2. Frozen'
  BY DEF IInv, Frozen, data
<1>3. Exported'
  BY DEF IInv, Exported, data, IsKind
<1>4. Restored'
  BY <1>0 DEF IInv, Restored, data, IsKind
<1>5. LeasesCurrent'
  BY DEF IInv, LeasesCurrent, data
<1> QED BY <1>1, <1>2, <1>3, <1>4, <1>5 DEF Agree

\* Launcher i starts its application, after its restore.
LEMMA AgreeKeptStart == ASSUME IInv, NEW i \in 1..N, Start(i) PROVE Agree'
<1> USE ChainFacts
<1>0. Typed /\ Nested /\ Hosted /\ Agree
  BY DEF IInv, Agree
<1>1. /\ phase[i] = "restoring" /\ app' = (IF i = N THEN "running" ELSE app)
      /\ UNCHANGED <<generation, alarm, out, results>>
  BY DEF Start
<1>2. \A j \in (i + 1)..N : phase[j] = "off"
  BY <1>1, NotStarted
<1>3. app = "off"
  <2>1. phase[N] \in {"off", "restoring"}
    BY <1>1, <1>2
  <2> QED BY <2>1, <1>0 DEF Hosted
<1>i. i # i + 1
  OBVIOUS
<1>4. /\ phase'[i] = "running"
      /\ \A j \in 1..N : j # i /\ j # i + 1 => phase'[j] = phase[j]
  BY <1>i, Zenon DEF Start
<1>5. out.release = Nothing /\ out.tasks = Nothing /\ out.intents = Nothing
  <2>1. out.release = Nothing
    BY <1>3, <1>0 DEF Agree, Frozen
  <2>2. phase[1] \in {"restoring", "running"} \/ ~Live(i)
    BY <1>0, <1>1 DEF Nested
  <2>3. phase[1] \notin {"exported", "stopping", "stopped"}
    BY <2>2, <1>1 DEF Live
  <2> QED BY <2>1, <2>3, <1>0 DEF Agree, Exported
<1>6. Frozen' /\ Exported'
  BY <1>5, <1>1 DEF Frozen, Exported
<1>7. CASE results = Empty
  <2>1. UNCHANGED <<ledger, intent, graph>> /\ Done(ledger) = {}
    BY <1>7, <1>3, <1>0 DEF Start, data, Agree, Behind
  <2>2. Done(ledger)' = {} /\ results' = Empty
    BY <2>1, <1>7, <1>1 DEF Done
  <2>3. Behind' /\ Restored'
    BY <2>2, <1>7, <1>1 DEF Behind, Restored
  <2>4. LeasesCurrent'
    BY <2>1, <1>0, <1>1 DEF Agree, LeasesCurrent
  <2> QED BY <1>6, <2>3, <2>4 DEF Agree
<1>8. CASE results # Empty
  <2>0. /\ IsKind(1, "metadata") /\ Done(results.tasks) \subseteq results.release /\ results' = results
        /\ \A t \in Done(results.tasks) : results.intents[t] = "committed"
        /\ N # 1 /\ Done(results.tasks)' = Done(results.tasks)
    <3>1. IsKind(1, "metadata") => N # 1
      BY DEF IsKind
    <3>2. Done(results.tasks)' = Done(results.tasks)
      BY <1>1 DEF Done
    <3> QED BY <3>1, <3>2, <1>8, <1>0, <1>1 DEF Agree, Restored
  <2>1. CASE i = 1
    <3>1. /\ ledger' = [t \in Task |-> Requeue(results.tasks[t])] /\ intent' = results.intents /\ graph' = graph
          /\ app' = "off"
      BY <2>0, <2>1, <1>1, <1>3, <1>8 DEF Start
    <3>2. Done(ledger)' = Done(results.tasks)
      BY <3>1 DEF Done, Requeue
    <3>3. Behind' /\ Restored'
      BY <3>1, <3>2, <2>0, <1>8 DEF Behind, Restored, IsKind
    <3>4. LeasesCurrent'
      BY <3>1 DEF LeasesCurrent, Requeue
    <3> QED BY <1>6, <3>3, <3>4 DEF Agree
  <2>2. CASE i # 1
    <3>1. /\ UNCHANGED <<ledger, intent>> /\ graph' = (IF i = N THEN results.release ELSE graph)
      BY <2>2, <1>8 DEF Start
    <3>2. Done(ledger)' = Done(ledger) /\ Done(results.tasks) = Done(ledger)
      <4>1. Done(results.tasks) \subseteq Done(ledger)
        BY <2>2, <1>1, <1>8, <1>0 DEF Agree, Restored
      <4>2. Done(ledger) \subseteq Done(results.tasks)
        BY <1>3, <1>8, <1>0 DEF Agree, Behind
      <4> QED BY <4>1, <4>2, <3>1 DEF Done
    <3>3. Behind'
      BY <3>1, <3>2, <2>0, <1>1, <1>3, <1>8, <1>0 DEF Agree, Behind
    <3>4. Restored'
      BY <3>1, <3>2, <2>0, <1>1, <1>3, <1>8 DEF Restored, IsKind
    <3>5. LeasesCurrent'
      BY <3>1, <1>0, <1>1 DEF Agree, LeasesCurrent
    <3> QED BY <1>6, <3>3, <3>4, <3>5 DEF Agree
  <2> QED BY <2>1, <2>2
<1> QED BY <1>7, <1>8

\* The graph is frozen: no export came before, since the launchers are nested.
LEMMA AgreeKeptFreeze == ASSUME IInv, NEW i \in 1..N, Freeze(i) PROVE Agree'
<1> USE ChainFacts
<1>0. Typed /\ Nested /\ Hosted /\ Agree
  BY DEF IInv, Agree
<1>1. i = N /\ phase[N] = "freezing" /\ app = "ended" /\ phase'[N] = "stopping"
  BY <1>0 DEF Freeze, Go, Typed, Nested, Hosted
<1>2. /\ \A j \in 1..N : j # N => phase'[j] = phase[j]
      /\ UNCHANGED <<generation, app, data, results>>
      /\ out'.tasks = out.tasks /\ out'.intents = out.intents
      /\ out'.release = graph \/ out' = out
  BY <1>0, <1>1 DEF Freeze, Go, Typed, Outs
<1>3. out.tasks = Nothing /\ out.intents = Nothing
  <2>1. phase[1] \in {"freezing", "running"}
    BY <1>0, <1>1 DEF Nested, Live
  <2> QED BY <2>1, <1>0 DEF Agree, Exported
<1>4. Frozen' /\ Exported'
  BY <1>0, <1>1, <1>2, <1>3 DEF Agree, Frozen, Exported, data
<1>5. Done(ledger)' = Done(ledger) /\ Done(results.tasks)' = Done(results.tasks)
  BY <1>2 DEF data, Done
<1>6. Behind' /\ LeasesCurrent'
  BY <1>0, <1>2, <1>5 DEF Agree, Behind, LeasesCurrent, data
<1>7. Restored'
  BY <1>0, <1>1, <1>2, <1>5 DEF Agree, Restored, data, IsKind
<1> QED BY <1>4, <1>6, <1>7 DEF Agree

\* The ledger is exported: with a release, no launcher and no program goes on.
LEMMA AgreeKeptExport == ASSUME IInv, ExportTasks \/ ExportIntents PROVE Agree'
<1> USE ChainFacts
<1>0. Typed /\ Nested /\ Agree
  BY DEF IInv, Agree
<1>1. /\ \A j \in 1..N : j # 1 => phase'[j] = phase[j]
      /\ UNCHANGED <<generation, app, data, results>>
      /\ out'.release = out.release
  BY <1>0 DEF ExportTasks, ExportIntents, Go, Typed, Outs
<1>2. IsKind(1, "metadata") /\ N # 1
  BY <1>0 DEF Nested, ExportTasks, ExportIntents, IsKind
<1>3. CASE ExportTasks
  <2>1. phase'[1] = "exported" /\ out'.tasks = ledger /\ out'.intents = out.intents /\ out.intents = Nothing
    BY <1>3, <1>0 DEF ExportTasks, Go, Typed, Outs, Agree, Exported
  <2> QED BY <2>1, <1>0, <1>1, <1>2 DEF Agree, Exported, Frozen, Behind, Restored, LeasesCurrent, data, Done, IsKind
<1>4. CASE ExportIntents
  <2>1. phase'[1] = "stopping" /\ out'.intents = intent /\ out'.tasks = out.tasks
    BY <1>4, <1>0 DEF ExportIntents, Go, Typed, Outs
  <2> QED BY <2>1, <1>0, <1>1, <1>2 DEF Agree, Exported, Frozen, Behind, Restored, LeasesCurrent, data, Done, IsKind
<1> QED BY <1>3, <1>4

\* The program works, so that there is no release.
LEMMA AgreeKeptProgram == ASSUME IInv, Program PROVE Agree'
<1> USE ChainFacts
<1>0. Typed /\ Agree
  BY DEF IInv, Agree
<1>1. /\ Works /\ app' \in {"running", "term", "ended"} /\ app \notin {"off", "ended"}
      /\ UNCHANGED <<generation, phase, out, results>>
  BY DEF Program, Lease, Write, Complete, AppEnds, Unserved, Works, services
<1>2. out.release = Nothing
  BY <1>0, <1>1 DEF Agree, Frozen
<1>3. Frozen' /\ Exported'
  BY <1>0, <1>1, <1>2 DEF Agree, Frozen, Exported, IsKind
<1>4. /\ graph \subseteq graph' /\ LeasesCurrent'
      /\ Done(ledger) \subseteq Done(ledger)' /\ Done(ledger)' \subseteq graph'
      /\ \A t \in Done(ledger)' : intent'[t] = "committed"
  <2>0. /\ ledger \in Rows(generation) /\ intent \in Intents /\ Done(ledger) \subseteq graph
        /\ \A t \in Done(ledger) : intent[t] = "committed"
        /\ LeasesCurrent
    BY <1>0, <1>1 DEF Typed, Agree, Behind
  <2>1. ASSUME NEW t \in Task, Lease(t) PROVE <1>4!:
    BY <2>1, <2>0 DEF Lease, Done, Rows, Intents, LeasesCurrent, Unserved
  <2>2. ASSUME NEW t \in Task, Write(t) PROVE <1>4!:
    BY <2>2, <2>0 DEF Write, Done, LeasesCurrent, Unserved
  <2>3. ASSUME NEW t \in Task, Complete(t) PROVE <1>4!:
    BY <2>3, <2>0 DEF Complete, Done, Rows, Intents, LeasesCurrent, Unserved
  <2>4. ASSUME AppEnds PROVE <1>4!:
    BY <2>4, <2>0 DEF AppEnds, Mine, Done, Rows, LeasesCurrent, Unserved
  <2> QED BY <2>1, <2>2, <2>3, <2>4 DEF Program
<1>5. Behind' /\ Restored'
  <2>1. Done(results.tasks)' = Done(results.tasks)
    BY <1>1 DEF Done
  <2> QED BY <2>1, <1>0, <1>1, <1>4 DEF Agree, Behind, Restored, IsKind
<1> QED BY <1>3, <1>4, <1>5 DEF Agree

\* A checkpoint is what the program has left, and no less than it started from.
LEMMA Checkpoint ==
  ASSUME IInv, Whole(out)
  PROVE  /\ IsKind(1, "metadata") /\ app = "ended"
         /\ out.release = graph /\ out.tasks = ledger /\ out.intents = intent
         /\ Done(ledger) \subseteq graph /\ \A t \in Done(ledger) : intent[t] = "committed"
BY DEF IInv, Whole, Frozen, Exported, Behind

LEMMA AgreeKeptResume == ASSUME IInv, Resume PROVE Agree'
<1> USE ChainFacts
<1>1. /\ out' = Empty /\ app' = "off" /\ results' = Left /\ ledger' = NoTasks
      /\ \A i \in 2..N : phase'[i] = "off"
  BY DEF Resume
<1>2. Done(ledger)' = {}
  BY <1>1 DEF Done, NoTasks
<1>3. Frozen' /\ Exported' /\ Behind' /\ LeasesCurrent'
  BY <1>1, <1>2 DEF Frozen, Exported, Behind, LeasesCurrent, Empty, NoTasks
<1>4. Restored'
  <2>1. CASE Whole(out)
    <3>1. results' = out
      BY <2>1, <1>1 DEF Left
    <3> QED BY <3>1, <2>1, <1>1, Checkpoint DEF Restored, Done, IsKind
  <2>2. CASE ~Whole(out)
    <3>1. results' = results
      BY <2>2, <1>1 DEF Left
    <3> QED BY <3>1, <1>1 DEF IInv, Restored, Done, IsKind
  <2> QED BY <2>1, <2>2
<1> QED BY <1>3, <1>4 DEF Agree

LEMMA AgreeKept == ASSUME IInv, [Next]_vars PROVE Agree'
<1> USE ChainFacts
<1>0. phase \in [1..N -> Phases] /\ Nested
  BY DEF IInv, Typed
<1>m. ASSUME NEW i \in 1..N, NEW q \in Phases, Go(i, q), UNCHANGED <<generation, app, data, out, results>>,
             \/ phase[i] \in {"starting", "restoring", "running", "freezing"}
             \/ q \in {"stopping", "stopped"} /\ phase[i] \in {"exporting", "exported", "stopping"},
             phase[i] # "off"
      PROVE  Agree'
  <2>1. phase'[i] = q /\ \A j \in 1..N : j # i => phase'[j] = phase[j]
    BY <1>m, <1>0 DEF Go
  <2> QED BY <2>1, <1>m, AgreeKeptMoving
<1>1. CASE Signal \/ Timeout
  BY <1>1, AgreeKeptMoving DEF Signal, Timeout, Stop
<1>2. CASE Tick \/ \E i \in 1..N : ServerEnds(i)
  BY <1>2, AgreeKeptMoving DEF Tick, ServerEnds
<1>3. ASSUME NEW i \in 1..N, Launch(i) PROVE Agree'
  <2>1. CASE Ready(i)
    <3>1. \E q \in {"restoring", "stopping"} : Go(i, q)
      BY <2>1 DEF Ready
    <3> QED BY <3>1, <2>1, <1>m DEF Ready, Phases
  <2>2. CASE RestoreFails(i)
    BY <2>2, <1>m DEF RestoreFails, Phases
  <2>3. CASE Ended(i)
    <3>1. \E q \in {"freezing", "exporting", "stopping"} : Go(i, q)
      BY <2>3, Zenon DEF Ended
    <3> QED BY <3>1, <2>3, <1>m DEF Ended, Phases
  <2>4. CASE Kill(i)
    <3>1. /\ \A j \in 1..N : phase'[j] = phase[j] \/ (phase[j] # "off" /\ phase'[j] = "killed" /\ j \in Group(i))
          /\ phase[i] = "running" /\ app' = IF i = N THEN "ended" ELSE app
          /\ UNCHANGED <<generation, data, out, results>>
      BY <2>4 DEF Kill, Due
    <3>2. phase'[1] = phase[1]
      BY <3>1 DEF Group
    <3>3. i = N => app \notin {"off", "ended"}
      BY <2>4, <3>1 DEF IInv, Hosted, Kill, Due, Over
    <3> QED BY <3>1, <3>2, <3>3, AgreeKeptMoving
  <2>5. CASE StopServer(i)
    BY <2>5, <1>m DEF StopServer, Phases
  <2> QED BY <1>3, <2>1, <2>2, <2>3, <2>4, <2>5, AgreeKeptStart, AgreeKeptFreeze DEF Launch
<1>4. CASE ExportFails
  BY <1>4, <1>m DEF ExportFails, Phases
<1>5. CASE UNCHANGED vars
  BY <1>5, AgreeKeptMoving DEF vars, services
<1> QED BY <1>1, <1>2, <1>3, <1>4, <1>5, AgreeKeptExport, AgreeKeptProgram, AgreeKeptResume
        DEF Next, Export, Finished

LEMMA Inductive == Spec => []IInv
<1>1. IInv /\ [Next]_vars => IInv'
  BY TypedKept, NestedKept, AgreeKept DEF IInv, Agree
<1> QED BY <1>1, InitHolds, PTL DEF Spec

-----------------------------------------------------------------------------
\* Types: every variable, for any chain and any number of tasks and jobs.
THEOREM TypeCorrect == Spec => []TypeOK
<1>1. IInv => TypeOK
  <2> SUFFICES ASSUME IInv PROVE TypeOK
    OBVIOUS
  <2>1. \A i \in 2..N : phase[i] # "off" => phase[i - 1] \notin {"off", "starting", "restoring"}
    BY ChainFacts DEF IInv, Nested
  <2>2. \A i \in 1..N : alarm[i] \in 0..(Patience[Chain[i]] + 1)
    BY ChainFacts DEF IInv, Typed
  <2>3. \A t \in Task : /\ ledger[t].state \in {"pending", "leased", "done"} /\ ledger[t].holder \in 0..generation
                        /\ (ledger[t].state = "pending") = (ledger[t].holder = 0)
                        /\ intent[t] \in {"none", "prepared", "committed"}
    BY DEF IInv, Typed, Rows, Intents
  <2> QED BY <2>1, <2>2, <2>3 DEF IInv, Typed, TypeOK
<1> QED BY <1>1, Inductive, PTL

\* No lease of an earlier job survives its export (durable.py:321-322).
THEOREM LeasesFenced == Spec => []LeasesCurrent
<1>1. IInv => LeasesCurrent
  BY DEF IInv
<1> QED BY <1>1, Inductive, PTL

\* Release, ledger and intents of a checkpoint agree, and what a job works on is
\* restored from one checkpoint (run.py:144-150, metadata.py:140-144).
THEOREM CheckpointsAgree == Spec => []ResultsAgree
<1>1. IInv => ResultsAgree
  BY Checkpoint DEF IInv, Frozen, Restored, ResultsAgree
<1> QED BY <1>1, Inductive, PTL

\* No checkpoint is replaced by one that lacks a batch or a done task of it.
THEOREM CheckpointsGrow == Spec => ResultsGrow
<1>1. IInv /\ [Next]_vars => [results' # results /\ results # Empty =>
        /\ results.release \subseteq results'.release
        /\ Done(results.tasks) \subseteq Done(results'.tasks)]_vars
  <2> SUFFICES ASSUME IInv, Next, results' # results, results # Empty
               PROVE  results.release \subseteq results'.release /\ Done(results.tasks) \subseteq Done(results'.tasks)
    OBVIOUS
  <2>1. Resume
    BY DEF Next, Signal, Timeout, Tick, ServerEnds, Launch, Ready, Start, RestoreFails, Ended, Kill, Freeze, StopServer,
           Export, ExportTasks, ExportIntents, ExportFails, Program, Lease, Write, Complete, AppEnds, Unserved,
           Finished, vars
  <2>2. Whole(out) /\ results' = out
    BY <2>1 DEF Resume, Left
  <2> QED BY <2>2, Checkpoint DEF IInv, Restored
<1> QED BY <1>1, Inductive, PTL DEF Spec, ResultsGrow
=============================================================================
