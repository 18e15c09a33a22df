----------------------------- MODULE TaskOutcome -----------------------------
(***************************************************************************)
(* What the durable task ledger promises a reader of its rows and of the   *)
(* graph, with workers, leases, clocks, retries and crashes left out.      *)
(*                                                                         *)
(* A task is submitted once.  At most one batch is ever chosen for it, and *)
(* only chosen batches are ever applied to the graph.  The task ends in    *)
(* exactly one of two ways: done, when the chosen batch is in the graph,   *)
(* or failed.  Neither end is ever left.                                   *)
(***************************************************************************)
CONSTANTS Task,      \* the tasks that may be submitted
          Batch,     \* the graph batches workers may build
          NoBatch,   \* no batch is chosen yet
          Resolved   \* Resolved[t]: the batches a worker may build for task t

VARIABLES outcome,   \* outcome[t]: how far task t has come
          chosen,    \* chosen[t]: the one batch task t may write
          applied    \* the batches in the graph

vars == <<outcome, chosen, applied>>

Init == /\ outcome = [t \in Task |-> "absent"]
        /\ chosen = [t \in Task |-> NoBatch]
        /\ applied = {}

Submit(t) == /\ outcome[t] = "absent"
             /\ outcome' = [outcome EXCEPT ![t] = "open"]
             /\ UNCHANGED <<chosen, applied>>

Choose(t, b) == /\ outcome[t] = "open"
                /\ chosen[t] = NoBatch
                /\ b \in Resolved[t]
                /\ chosen' = [chosen EXCEPT ![t] = b]
                /\ UNCHANGED <<outcome, applied>>

\* The graph may take a chosen batch at any time, even after the task failed:
\* a commit request can outlive the client that sent it.
Apply(t) == /\ chosen[t] \in Batch
            /\ applied' = applied \cup {chosen[t]}
            /\ UNCHANGED <<outcome, chosen>>

\* A task that writes no batch is done by its worker's word alone.
Finish(t) == /\ outcome[t] = "open"
             /\ Resolved[t] = {} \/ chosen[t] \in applied
             /\ outcome' = [outcome EXCEPT ![t] = "done"]
             /\ UNCHANGED <<chosen, applied>>

\* One sweep may give up on several tasks at once.
GiveUp(S) == /\ \A t \in S : outcome[t] = "open"
             /\ outcome' = [t \in Task |-> IF t \in S THEN "failed" ELSE outcome[t]]
             /\ UNCHANGED <<chosen, applied>>

Next == \/ \E t \in Task : Submit(t) \/ Apply(t) \/ Finish(t)
        \/ \E t \in Task, b \in Batch : Choose(t, b)
        \/ \E S \in SUBSET Task : GiveUp(S)

Spec == Init /\ [][Next]_vars
=============================================================================
