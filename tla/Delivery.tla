------------------------------ MODULE Delivery ------------------------------
(***************************************************************************)
(* Redis delivery of source batches to workers (core/durable.py            *)
(* RedisDelivery, construction/worker.py), with what brings tasks in.      *)
(*                                                                         *)
(* An invocation of a worker pushes every unsettled task, as the ledger    *)
(* has it by then, on the pending list, and takes deliveries one by one:   *)
(* each is moved from the right end of the list to a list of this          *)
(* invocation, claimed by its id in the ledger, built, and acknowledged.   *)
(* Redis and the ledger are two servers: every call is a step, and the     *)
(* worker may die before any.  The lists of ended invocations, which       *)
(* nobody reads, are left out, and what the ledger calls owner and token   *)
(* is the worker, until its invocation ends or it acknowledges.  The detail *)
(* of fences, intents and graph commits is that of TaskLedger.             *)
(***************************************************************************)
EXTENDS Intake

CONSTANTS Worker, MaxTasks, MaxAttempts,
          MaxCrashes,   \* bound on deaths of workers
          Gone          \* the holder of a lease whose worker has ended

VARIABLES pending,      \* the pending list, its left end first
          lapsed,       \* the tasks whose lease is over by the clock
          intent,       \* of tasks: the content of the batch they prepared
          made,         \* of done tasks: the content their batch was made from
          worker,       \* of each: its locals
          crashes

deliveryVars == <<pending, lapsed, intent, made, worker, crashes>>
vars == <<intakeVars, deliveryVars>>
intakeOnly == <<file, edits, producer, expander, frontier>>

\* An invocation handles at least one batch.
ASSUME DeliveryAssumption == /\ MaxTasks \in Nat \ {0} /\ MaxAttempts \in Nat
                             /\ Worker \cap {Gone, None} = {}

Off == [pc |-> "off", todo |-> {}, task |-> None, handled |-> 0, built |-> None]

DeliveryInit ==
  /\ Init /\ pending = <<>> /\ lapsed = {} /\ intent = << >> /\ made = << >>
  /\ worker = [w \in Worker |-> Off] /\ crashes = 0

Unsettled(t) == row[t].state \in {"pending", "leased"}
Free(t) == row[t].state = "pending" \/ (row[t].state = "leased" /\ t \in lapsed)
Claimable(t) == Free(t) /\ row[t].attempts < MaxAttempts

Does(w, locals) == worker' = [worker EXCEPT ![w] = locals]
In(w, pc) == worker[w].pc = pc
Task(w) == worker[w].task
Noted(f, t, content) == [u \in DOMAIN f \cup {t} |-> IF u = t THEN content ELSE f[u]]

\* The rows after the sweep that every claim starts with.
Swept == [t \in DOMAIN row |-> IF Free(t) /\ row[t].attempts >= MaxAttempts
                               THEN [row[t] EXCEPT !.state = "failed"] ELSE row[t]]

Fenced(w) == row[Task(w)].state = "leased" /\ row[Task(w)].holder = w /\ Task(w) \notin lapsed

\* Faulty variant of Left: the next invocation goes on as the same owner.
LeftHeld(w) == row

\* The rows once the invocation of w is over; released, its task is pending.
Left(w) == [t \in DOMAIN row |-> IF row[t].holder = w THEN [row[t] EXCEPT !.holder = Gone] ELSE row[t]]
Released(w) == IF ~Fenced(w) THEN Left(w)
               ELSE [Left(w) EXCEPT ![Task(w)].state = "pending", ![Task(w)].holder = None]

-----------------------------------------------------------------------------
\* Faulty variant of Reconstructed: only what is pending in the ledger.
ReconstructedPending == {t \in DOMAIN row : t[1] = "construction" /\ row[t].state = "pending"}

\* The deliveries of reconstruct(kind='construction').
Reconstructed == {t \in DOMAIN row : t[1] = "construction" /\ Unsettled(t)}

\* A new invocation reads the status of the ledger (bound: when there is a task
\* that can be claimed or given up), ...
Begin(w) ==
  /\ In(w, "off") /\ \E t \in DOMAIN row : t[1] = "construction" /\ Free(t)
  /\ Does(w, [worker[w] EXCEPT !.pc = "push", !.todo = Reconstructed])
  /\ UNCHANGED <<intakeVars, pending, lapsed, intent, made, crashes>>

\* ... and pushes the deliveries, in the order of the rows (bound: all at once).
RowBefore(t, u) == \E i, j \in DOMAIN created : i < j /\ created[i] = t /\ created[j] = u

Push(w) ==
  /\ In(w, "push")
  /\ \E pushed \in [1..Cardinality(worker[w].todo) -> worker[w].todo] :
       /\ \A i, j \in DOMAIN pushed : i < j => RowBefore(pushed[j], pushed[i])
       /\ pending' = pushed \o pending
  /\ Does(w, [worker[w] EXCEPT !.pc = "ready", !.todo = {}])
  /\ UNCHANGED <<intakeVars, lapsed, intent, made, crashes>>

\* BLMOVE: nothing within a second ends the invocation.
Move(w) ==
  /\ In(w, "ready")
  /\ IF pending = <<>> THEN Does(w, Off) /\ UNCHANGED pending
     ELSE /\ pending' = Front(pending)
          /\ Does(w, [worker[w] EXCEPT !.pc = "moved", !.task = Last(pending)])
  /\ UNCHANGED <<intakeVars, lapsed, intent, made, crashes>>

\* The claim: a stale delivery is removed and ends the invocation.
Claim(w) ==
  /\ In(w, "moved")
  /\ IF Claimable(Task(w))
     THEN /\ row' = [Swept EXCEPT ![Task(w)] = [state |-> "leased", holder |-> w, attempts |-> @.attempts + 1]]
          /\ lapsed' = lapsed \ {Task(w)} /\ Does(w, [worker[w] EXCEPT !.pc = "claimed"])
     ELSE row' = Swept /\ Does(w, Off) /\ UNCHANGED lapsed
  /\ UNCHANGED <<intakeOnly, artifacts, created, pending, intent, made, crashes>>

\* An exception releases the task, unless it is reclaimed or done, and is raised.
Raises(w) ==
  /\ row' = Released(w) /\ Does(w, Off)
  /\ UNCHANGED <<intent, made, lapsed>>

\* The source has to be what was submitted.
CheckSource(w) ==
  /\ In(w, "claimed")
  /\ IF file[Task(w)[2]] = Task(w)[3]
     THEN Does(w, [worker[w] EXCEPT !.pc = "waiting"]) /\ UNCHANGED <<row, intent, made, lapsed>>
     ELSE Raises(w)
  /\ UNCHANGED <<intakeOnly, artifacts, created, pending, crashes>>

\* Once it is the only writer, the worker captures the source, builds from it
\* and prepares the batch, unless it fails after the capture.
Build(w) ==
  /\ In(w, "waiting") /\ \A v \in Worker : ~In(v, "building")
  /\ LET content == file[Task(w)[2]] IN
     /\ store' = store \cup {content}
     /\ stamp' = [stamp EXCEPT ![content] = IF @ = None THEN w ELSE @]
     /\ \/ /\ Fenced(w) /\ (Task(w) \in DOMAIN intent => intent[Task(w)] = content)
           /\ Does(w, [worker[w] EXCEPT !.pc = "building", !.built = content])
           /\ intent' = Noted(intent, Task(w), content) /\ UNCHANGED <<row, made, lapsed>>
        \/ Raises(w)
  /\ UNCHANGED <<intakeOnly, created, pending, crashes>>

\* The batch is integrated and the task done, by one transaction.
Integrate(w) ==
  /\ In(w, "building")
  /\ IF Fenced(w)
     THEN /\ row' = [row EXCEPT ![Task(w)].state = "done"]
          /\ made' = Noted(made, Task(w), worker[w].built)
          /\ Does(w, [worker[w] EXCEPT !.pc = "built"]) /\ UNCHANGED <<intent, lapsed>>
     ELSE Raises(w)
  /\ UNCHANGED <<intakeOnly, artifacts, created, pending, crashes>>

Mine(w) == row[Task(w)].state = "done" /\ row[Task(w)].holder = w

\* The delivery is acknowledged, and the next one taken if there may be one.
Acknowledge(w) ==
  /\ In(w, "built")
  /\ IF Mine(w)
     THEN LET handled == worker[w].handled + 1 IN
          /\ Does(w, IF handled = MaxTasks THEN Off ELSE [Off EXCEPT !.pc = "ready", !.handled = handled])
          /\ row' = Left(w) /\ UNCHANGED <<intent, made, lapsed>>
     ELSE Raises(w)
  /\ UNCHANGED <<intakeOnly, artifacts, created, pending, crashes>>

\* A changed runtime, a wait too long, a failing role or server.
BuildFails(w) ==
  /\ worker[w].pc \in {"claimed", "waiting", "building", "built"} /\ Raises(w)
  /\ UNCHANGED <<intakeOnly, artifacts, created, pending, crashes>>

\* The worker dies, or a call outside the build raises.
Crash(w) ==
  /\ ~In(w, "off") /\ crashes < MaxCrashes /\ crashes' = crashes + 1
  /\ row' = Left(w) /\ Does(w, Off)
  /\ UNCHANGED <<intakeOnly, artifacts, created, pending, lapsed, intent, made>>

\* A lease is over by the clock.
Lapse(t) ==
  /\ row[t].state = "leased" /\ t \notin lapsed /\ lapsed' = lapsed \cup {t}
  /\ UNCHANGED <<intakeVars, pending, intent, made, worker, crashes>>

Step(w) == \/ Push(w) \/ Move(w) \/ Claim(w) \/ CheckSource(w) \/ Build(w) \/ Integrate(w) \/ Acknowledge(w)
           \/ BuildFails(w)

Finished ==
  /\ \A w \in Worker : In(w, "off")
  /\ \A t \in DOMAIN row : t[1] = "construction" => ~Unsettled(t)
  /\ UNCHANGED vars

Next ==
  \/ Finished
  \/ IntakeNext /\ UNCHANGED deliveryVars
  \/ \E w \in Worker : Begin(w) \/ Step(w) \/ Crash(w)
  \/ \E t \in DOMAIN row : Lapse(t)

\* Workers are invoked again ("on a later worker invocation", docs/USAGE.md:125),
\* each of their waits ends, and clocks advance.
Fairness == /\ \A w \in Worker : WF_vars(Begin(w)) /\ WF_vars(Step(w))
            /\ WF_vars(\E t \in DOMAIN row : Lapse(t))

Spec == DeliveryInit /\ [][Next]_vars
LiveSpec == Spec /\ Fairness

-----------------------------------------------------------------------------
\* Properties.

\* Types; a lease is held by a worker that knows of it or by none; the pending
\* list has source batches only, other tasks of the ledger are not delivered.
TypeOK ==
  /\ \A w \in Worker : /\ worker[w].pc \in {"off", "push", "ready", "moved", "claimed", "waiting", "building", "built"}
                       /\ worker[w].handled \in 0..(MaxTasks - 1)
                       /\ worker[w].pc \in {"off", "push", "ready"} => \A t \in DOMAIN row : row[t].holder # w
  /\ ToSet(created) = DOMAIN row /\ IsInjective(created)
  /\ \A t \in DOMAIN row : row[t].attempts \in 0..MaxAttempts
  /\ ToSet(pending) \subseteq {t \in DOMAIN row : t[1] = "construction"}
  /\ DOMAIN made = {t \in DOMAIN row : row[t].state = "done"} /\ DOMAIN made \subseteq DOMAIN intent

\* Every task that is queued is done or given up in the end, although a
\* delivery may be lost with its worker, and a stale one ends an invocation
\* with tasks still to be claimed (durable.py:350-355, worker.py:80).
EveryTaskDelivered == <>[](\A t \in DOMAIN row : t[1] = "construction" => ~Unsettled(t))

\* "Changed inputs need a new task." (docs/USAGE.md:113): a task that is done
\* was made from the content it was submitted for.
DoneAsSubmitted == \A t \in DOMAIN made : made[t] = t[3]
=============================================================================
