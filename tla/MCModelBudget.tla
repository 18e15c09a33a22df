---------------------------- MODULE MCModelBudget ----------------------------
(* Agendas of calls for ModelBudget. *)
EXTENDS ModelBudget

Call(run, kind) == [run |-> run, kind |-> kind]

\* A check and an analysis with its Planner.
Short == << Call(0, "check"), Call(1, "turn"), Call(1, "planner"), Call(1, "turn") >>

\* run_job: the probe, the five turns of build, the seven of analyze.
Job == << Call(0, "check"), Call(0, "tool"), Call(0, "final"), Call(0, "check") >>
       \o [i \in 1..5 |-> Call(1, "turn")]
       \o [i \in 1..7 |-> Call(2, IF i = 2 THEN "planner" ELSE "turn")]

\* A job has as many calls as any profile may allow (client.py:27).
ASSUME JobCalls == Len(Job) = 16

\* Usage at its limits, small, and beyond the reservation.
ShortUsage == {<<0, 1>>, <<1, 1>>, <<2, 1>>, <<3, 1>>, <<1, 2>>}
=============================================================================
