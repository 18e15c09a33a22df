--------------------------- MODULE TaskLedgerProofs ---------------------------
(***************************************************************************)
(* Proofs about TaskLedger, for every set of tasks, workers and batches,   *)
(* every retry budget and both lock disciplines.                           *)
(***************************************************************************)
EXTENDS TaskLedger, TLAPS

USE LedgerAssumption

\* A worker holds a lease copy exactly while it is not idle.
LeaseHeld == \A w \in Worker : phase[w] # "idle" => lease[w] \in Task

\* Between fence and commit the worker has a batch.
WriterHasBatch == \A w \in InTx : batch[w] \in Batch

\* After the callback the graph holds that batch.
WrittenApplied == \A w \in Worker : phase[w] = "written" => batch[w] \in graph

-----------------------------------------------------------------------------
\* Type correctness needs LeaseHeld (a lease copy indexes rows) and WriterHasBatch
\* (CommitGraph adds that batch to the graph).

TypeInv == TypeOK /\ LeaseHeld /\ WriterHasBatch

LEMMA TypeInit == Init => TypeInv
  BY DEF Init, TypeInv, TypeOK, LeaseHeld, WriterHasBatch, InTx, States, Phases

LEMMA TypeNext == TypeInv /\ [Next]_vars => TypeInv'
<1> SUFFICES ASSUME TypeInv, [Next]_vars PROVE TypeInv'
  OBVIOUS
<1> USE DEF TypeInv, TypeOK, LeaseHeld, WriterHasBatch, InTx, States, Phases,
            rowVars, intentVars, workerVars, graphVars
<1>1. ASSUME NEW t \in Task, Enqueue(t) PROVE TypeInv'
  BY <1>1 DEF Enqueue
<1>2. ASSUME NEW w \in Worker, NEW t \in Task, Claim(w, t) PROVE TypeInv'
  BY <1>2 DEF Claim, Claimable, Lapsed, Swept
<1>3. ASSUME NEW w \in Worker, ClaimNothing(w) PROVE TypeInv'
  BY <1>3 DEF ClaimNothing
<1>4. ASSUME NEW w \in Worker, Heartbeat(w) PROVE TypeInv'
  BY <1>4 DEF Heartbeat
<1>5. ASSUME NEW w \in Worker, NEW b \in Batch, Prepare(w, b) PROVE TypeInv'
  BY <1>5 DEF Prepare
<1>6. ASSUME NEW w \in Worker, OpenIntegrate(w) PROVE TypeInv'
  BY <1>6 DEF OpenIntegrate
<1>7. ASSUME NEW w \in Worker, CommitGraph(w) PROVE TypeInv'
  BY <1>7 DEF CommitGraph
<1>8. ASSUME NEW w \in Worker, CommitLedger(w) PROVE TypeInv'
  BY <1>8 DEF CommitLedger
<1>9. ASSUME NEW w \in Worker, Complete(w) PROVE TypeInv'
  BY <1>9 DEF Complete
<1>10. ASSUME NEW w \in Worker, Refused(w) PROVE TypeInv'
  BY <1>10 DEF Refused
<1>11. ASSUME NEW w \in Worker, Return(w) PROVE TypeInv'
  BY <1>11 DEF Return, Forget
<1>12. ASSUME NEW w \in Worker, Raise(w) PROVE TypeInv'
  BY <1>12 DEF Raise, LoseGraphCommit
<1>13. ASSUME NEW w \in Worker, Release(w) PROVE TypeInv'
  BY <1>13 DEF Release, Forget
<1>14. ASSUME NEW w \in Worker, ReleaseRefused(w) PROVE TypeInv'
  BY <1>14 DEF ReleaseRefused, Forget
<1>15. ASSUME NEW w \in Worker, Crash(w) PROVE TypeInv'
  BY <1>15 DEF Crash, LoseGraphCommit, Forget
<1>16. ASSUME NEW t \in Task, NEW w \in Worker, Lapse(t, w) PROVE TypeInv'
  BY <1>16 DEF Lapse
<1>17. ASSUME NEW b \in Batch, SettleInflight(b) PROVE TypeInv'
  BY <1>17 DEF SettleInflight
<1>18. CASE Finished \/ UNCHANGED vars
  BY <1>18 DEF Finished, vars
<1>19. QED
  BY <1>1, <1>2, <1>3, <1>4, <1>5, <1>6, <1>7, <1>8, <1>9, <1>10, <1>11, <1>12, <1>13,
     <1>14, <1>15, <1>16, <1>17, <1>18 DEF Next, Step, Invoke

\* Every reachable row, lease copy and graph has its type, and no task is ever
\* granted more attempts than the budget of claim.
THEOREM TypeCorrect == Spec => []TypeOK
<1>1. TypeInv => TypeOK
  BY DEF TypeInv
<1>2. QED
  BY <1>1, TypeInit, TypeNext, PTL DEF Spec

-----------------------------------------------------------------------------
\* The inductive invariant.

IInv == /\ TypeInv
        /\ WrittenApplied
        /\ CriticalSectionOwned
        /\ DoneMeansApplied
        /\ GraphOnlyPrepared
        /\ FailedOnlyExhausted
        /\ CommittedStaysMine

LEMMA SafetyInit == Init => IInv
  BY TypeInit DEF Init, IInv, WrittenApplied, CriticalSectionOwned, DoneMeansApplied,
     GraphOnlyPrepared, FailedOnlyExhausted, CommittedStaysMine, InTx

LEMMA SafetyNext == IInv /\ [Next]_vars => IInv'
<1> SUFFICES ASSUME IInv, [Next]_vars PROVE IInv'
  OBVIOUS
<1>0. TypeInv'
  BY TypeNext DEF IInv
<1> DEFINE Rest == /\ WrittenApplied /\ CriticalSectionOwned /\ DoneMeansApplied
                   /\ GraphOnlyPrepared /\ FailedOnlyExhausted /\ CommittedStaysMine
<1> SUFFICES Rest'
  BY <1>0 DEF IInv
<1> USE DEF IInv, TypeInv, TypeOK, LeaseHeld, WriterHasBatch, WrittenApplied, CriticalSectionOwned,
            DoneMeansApplied, GraphOnlyPrepared, FailedOnlyExhausted, CommittedStaysMine, InTx, Locked, Free,
            States, Phases, rowVars, intentVars, workerVars, graphVars
<1>1. ASSUME NEW t \in Task, Enqueue(t) PROVE Rest'
  BY <1>1 DEF Enqueue
<1>2. ASSUME NEW w \in Worker, NEW t \in Task, Claim(w, t) PROVE Rest'
  BY <1>2 DEF Claim, Claimable, Lapsed, Swept
<1>3. ASSUME NEW w \in Worker, ClaimNothing(w) PROVE Rest'
  BY <1>3 DEF ClaimNothing, Lapsed, Swept
<1>4. ASSUME NEW w \in Worker, Heartbeat(w) PROVE Rest'
  BY <1>4 DEF Heartbeat, Current
<1>5. ASSUME NEW w \in Worker, NEW b \in Batch, Prepare(w, b) PROVE Rest'
  BY <1>5 DEF Prepare, Current
<1>6. ASSUME NEW w \in Worker, OpenIntegrate(w) PROVE Rest'
  BY <1>6 DEF OpenIntegrate, Current
<1>7. ASSUME NEW w \in Worker, CommitGraph(w) PROVE Rest'
  BY <1>7 DEF CommitGraph
<1>8. ASSUME NEW w \in Worker, CommitLedger(w) PROVE Rest'
  BY <1>8 DEF CommitLedger
<1>9. ASSUME NEW w \in Worker, Complete(w) PROVE Rest'
  BY <1>9 DEF Complete, Current
<1>10. ASSUME NEW w \in Worker, Refused(w) PROVE Rest'
  BY <1>10 DEF Refused
<1>11. ASSUME NEW w \in Worker, Return(w) PROVE Rest'
  BY <1>11 DEF Return, Forget
<1>12. ASSUME NEW w \in Worker, Raise(w) PROVE Rest'
  BY <1>12 DEF Raise, LoseGraphCommit
<1>13. ASSUME NEW w \in Worker, Release(w) PROVE Rest'
  BY <1>13 DEF Release, Forget, Current
<1>14. ASSUME NEW w \in Worker, ReleaseRefused(w) PROVE Rest'
  BY <1>14 DEF ReleaseRefused, Forget
<1>15. ASSUME NEW w \in Worker, Crash(w) PROVE Rest'
  BY <1>15 DEF Crash, LoseGraphCommit, Forget
<1>16. ASSUME NEW t \in Task, NEW w \in Worker, Lapse(t, w) PROVE Rest'
  BY <1>16 DEF Lapse
<1>17. ASSUME NEW b \in Batch, SettleInflight(b) PROVE Rest'
  BY <1>17 DEF SettleInflight
<1>18. CASE Finished \/ UNCHANGED vars
  BY <1>18 DEF Finished, vars
<1>19. QED
  BY <1>1, <1>2, <1>3, <1>4, <1>5, <1>6, <1>7, <1>8, <1>9, <1>10, <1>11, <1>12, <1>13,
     <1>14, <1>15, <1>16, <1>17, <1>18 DEF Next, Step, Invoke

\* The inductive invariant holds in every reachable state.
THEOREM Safety == Spec => []IInv
  BY SafetyInit, SafetyNext, PTL DEF Spec

\* The row lock of integrate is enough: no clock, sweep, claim or stale worker
\* takes a task from the worker between its fence and its commit or rollback.
THEOREM SectionOwned == Spec => []CriticalSectionOwned
<1>1. IInv => CriticalSectionOwned
  BY DEF IInv
<1>2. QED
  BY <1>1, Safety, PTL

\* No crash or exception between graph commit and ledger commit, on either side,
\* leaves a done row whose batch the graph lacks or whose receipt names another.
THEOREM DoneApplied == Spec => []DoneMeansApplied
<1>1. IInv => DoneMeansApplied
  BY DEF IInv
<1>2. QED
  BY <1>1, Safety, PTL

\* Retries that resolve to another batch are refused before they reach the graph,
\* and a commit that outlives its client is a prepared one.
THEOREM OnlyPreparedInGraph == Spec => []GraphOnlyPrepared
<1>1. IInv => GraphOnlyPrepared
  BY DEF IInv
<1>2. QED
  BY <1>1, Safety, PTL

\* A sweep fails a task only when every attempt of its budget was granted, and
\* never one that is between fence and commit.
THEOREM GiveUpOnlyExhausted == Spec => []FailedOnlyExhausted
<1>1. IInv => FailedOnlyExhausted
  BY DEF IInv
<1>2. QED
  BY <1>1, Safety, PTL

\* The worker that committed a task finds its own done row when it acknowledges.
THEOREM AcknowledgeableUntilReturn == Spec => []CommittedStaysMine
<1>1. IInv => CommittedStaysMine
  BY DEF IInv
<1>2. QED
  BY <1>1, Safety, PTL

-----------------------------------------------------------------------------
\* Refinement: every step of the ledger is a step of TaskOutcome or leaves the
\* outcome, the chosen batches and the graph as they are.

LEMMA OutcomeInit == Init => Abstract!Init
  BY DEF Init, Abstract!Init, Outcome

LEMMA OutcomeNext == IInv /\ [Next]_vars => [Abstract!Next]_(Abstract!vars)
<1> SUFFICES ASSUME IInv, [Next]_vars PROVE Abstract!Next \/ UNCHANGED Abstract!vars
  OBVIOUS
<1> USE DEF IInv, TypeInv, TypeOK, LeaseHeld, WriterHasBatch, InTx, States, Phases, Outcome,
            rowVars, intentVars, workerVars, graphVars, Abstract!vars
<1>1. ASSUME NEW t \in Task, Enqueue(t) PROVE Abstract!Submit(t)
  BY <1>1 DEF Enqueue, Abstract!Submit
<1>2. ASSUME NEW w \in Worker, NEW t \in Task, Claim(w, t) PROVE Abstract!GiveUp(Swept(w))
  BY <1>2 DEF Claim, Claimable, Lapsed, Swept, Abstract!GiveUp
<1>3. ASSUME NEW w \in Worker, ClaimNothing(w) PROVE Abstract!GiveUp(Swept(w))
  BY <1>3 DEF ClaimNothing, Lapsed, Swept, Abstract!GiveUp
<1>4. ASSUME NEW w \in Worker, NEW b \in Batch, Prepare(w, b)
      PROVE Abstract!Choose(lease[w], b) \/ UNCHANGED Abstract!vars
  BY <1>4 DEF Prepare, Current, Abstract!Choose
<1>5. ASSUME NEW w \in Worker, CommitGraph(w) PROVE Abstract!Apply(lease[w])
  BY <1>5 DEF CommitGraph, CriticalSectionOwned, Abstract!Apply
<1>6. ASSUME NEW w \in Worker, CommitLedger(w) PROVE Abstract!Finish(lease[w])
  BY <1>6 DEF CommitLedger, CriticalSectionOwned, WrittenApplied, Abstract!Finish
<1>7. ASSUME NEW w \in Worker, Complete(w) PROVE Abstract!Finish(lease[w])
  BY <1>7 DEF Complete, Current, Abstract!Finish
<1>8. ASSUME NEW w \in Worker, Release(w) PROVE UNCHANGED Abstract!vars
  BY <1>8 DEF Release, Current
<1>9. ASSUME NEW w \in Worker,
             \/ Heartbeat(w) \/ OpenIntegrate(w) \/ Refused(w) \/ Return(w)
             \/ Raise(w) \/ ReleaseRefused(w) \/ Crash(w)
      PROVE UNCHANGED Abstract!vars
  BY <1>9 DEF Heartbeat, OpenIntegrate, Refused, Return, Raise, ReleaseRefused, Crash
<1>10. ASSUME NEW t \in Task, NEW w \in Worker, Lapse(t, w) PROVE UNCHANGED Abstract!vars
  BY <1>10 DEF Lapse
<1>11. ASSUME NEW b \in Batch, SettleInflight(b)
       PROVE \/ \E t \in Task : Abstract!Apply(t)
             \/ UNCHANGED Abstract!vars
  <2>1. PICK t \in Task : intent[t] = b
    BY <1>11 DEF SettleInflight, GraphOnlyPrepared
  <2>2. Abstract!Apply(t) \/ UNCHANGED Abstract!vars
    BY <1>11, <2>1 DEF SettleInflight, Abstract!Apply
  <2>3. QED
    BY <2>2
<1>12. CASE Finished \/ UNCHANGED vars
  BY <1>12 DEF Finished, vars
<1>13. ASSUME NEW w \in Worker PROVE Swept(w) \in SUBSET Task
  BY DEF Swept, Lapsed
<1>14. ASSUME NEW w \in Worker, CommitGraph(w) \/ CommitLedger(w) \/ Complete(w)
       PROVE lease[w] \in Task
  BY <1>14 DEF CommitGraph, CommitLedger, Complete
<1>15. ASSUME NEW w \in Worker, NEW b \in Batch, Prepare(w, b)
       PROVE lease[w] \in Task
  BY <1>15 DEF Prepare
<1> HIDE DEF IInv, TypeInv, TypeOK, LeaseHeld, WriterHasBatch, InTx, States, Phases, Outcome,
             rowVars, intentVars, workerVars, graphVars, Abstract!vars
<1>16. ASSUME NEW w \in Worker, Step(w) PROVE Abstract!Next \/ UNCHANGED Abstract!vars
  <2>1. ASSUME NEW b \in Batch, Prepare(w, b) PROVE Abstract!Next \/ UNCHANGED Abstract!vars
    BY <1>4, <1>15, <2>1 DEF Abstract!Next
  <2>2. CASE CommitGraph(w) \/ CommitLedger(w) \/ Complete(w)
    BY <1>5, <1>6, <1>7, <1>14, <2>2 DEF Abstract!Next
  <2>3. QED
    BY <1>16, <2>1, <2>2, <1>8, <1>9 DEF Step
<1>17. ASSUME NEW w \in Worker, Invoke(w) PROVE Abstract!Next
  BY <1>17, <1>2, <1>3, <1>13 DEF Invoke, Abstract!Next
<1>18. ASSUME NEW t \in Task, Enqueue(t) PROVE Abstract!Next
  BY <1>18, <1>1 DEF Abstract!Next
<1>19. ASSUME NEW b \in Batch, SettleInflight(b) PROVE Abstract!Next \/ UNCHANGED Abstract!vars
  BY <1>19, <1>11 DEF Abstract!Next
<1>20. QED
  BY <1>9, <1>10, <1>12, <1>16, <1>17, <1>18, <1>19 DEF Next

\* The ledger, its workers and the graph implement TaskOutcome.
THEOREM Refinement == Spec => ImplementsOutcome
  BY OutcomeInit, OutcomeNext, Safety, PTL DEF Spec, ImplementsOutcome, Abstract!Spec
=============================================================================
