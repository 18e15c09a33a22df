----------------------------- MODULE ModelBudget -----------------------------
(***************************************************************************)
(* The budget of one scope (inference/limits.py) and the model calls that  *)
(* share it: the capability probe (inference/probe.py) and the role turns  *)
(* of builds and analyses (agents.py).  Calls of a scope run one after     *)
(* another; each may be answered, answered without usable accounting, or   *)
(* fail while the provider processes, and bills, it all the same.          *)
(*                                                                         *)
(* Tokens are counted in units; prices are per unit, zero where the        *)
(* provider is not paid.                                                   *)
(***************************************************************************)
EXTENDS Integers, Sequences

CONSTANTS
  Agenda,      \* the calls of the scope: records [run, kind]
  CallLimits,                     \* max_model_calls of the profiles considered
  MaxTokens, MaxCost,             \* max_total_tokens, max_cost_usd
  Window, OutputCap,              \* context_window, max_output_tokens
  InPrice, OutPrice,
  Prompt,      \* upper estimates reserve may compute for a prompt
  Usage        \* <<prompt tokens, completion tokens>> a provider may process

\* An agent turn, a Planner turn (repaired once), and the calls of the probe,
\* where a failed "tool" call skips its "final" one.
Kinds == {"turn", "planner", "check", "tool", "final"}

ASSUME BudgetAssumption ==
  /\ Agenda \in Seq([run : Nat, kind : Kinds]) /\ Agenda # <<>>
  /\ CallLimits \subseteq Nat \ {0} /\ MaxTokens \in Nat /\ MaxCost \in Nat
  /\ Window \in Nat /\ OutputCap \in Nat /\ InPrice \in Nat /\ OutPrice \in Nat
  /\ Prompt \subseteq Nat /\ Usage \subseteq Nat \X Nat

VARIABLES
  at,              \* "ready", "admit", "calling", "tools", "answered" or "failed"
  item,            \* position in the agenda
  repaired,        \* the Planner's one repair is used
  passed,          \* every capability check so far succeeded
  turns,           \* AgentRun.calls of the current run
  limit,           \* max_model_calls of the scope's profile
  calls, reservedTokens, reservedUsd, actualTokens, actualUsd,  \* RunBudget
  events,          \* its tickets: [input, status]
  refused,         \* a call was refused for the number of calls alone
  billed,          \* [tokens, usd] the provider really processed
  overrun          \* the provider processed a call beyond its reservation

counters == <<limit, calls, reservedTokens, reservedUsd, actualTokens, actualUsd, events>>
place == <<at, item, repaired, passed, turns>>
vars == <<place, counters, refused, billed, overrun>>

Statuses == {"reserved", "completed", "missing_usage", "failed_usage_unknown"}
Tickets == [input : Nat, status : Statuses]

Init == /\ at = "ready" /\ item = 1
        /\ repaired = FALSE /\ passed = TRUE
        /\ turns = 0
        /\ limit \in CallLimits
        /\ calls = 0 /\ reservedTokens = 0 /\ reservedUsd = 0
        /\ actualTokens = 0 /\ actualUsd = 0
        /\ events = <<>>
        /\ refused = FALSE
        /\ billed = [tokens |-> 0, usd |-> 0]
        /\ overrun = FALSE

Kind == Agenda[item].kind
Cost(in, out) == in * InPrice + out * OutPrice
Within(in, u) == u[1] <= in /\ u[2] <= OutputCap

\* An exception leaves the call.  Only a ValueError of a Planner turn is
\* caught, once; otherwise the probe, build or analysis ends.
Raise(isValueError) ==
  IF isValueError /\ Kind = "planner" /\ ~repaired
  THEN at' = "ready" /\ repaired' = TRUE /\ UNCHANGED <<item, passed, turns>>
  ELSE at' = "failed" /\ UNCHANGED <<item, repaired, passed, turns>>

\* The next call of the agenda, skipping `skipped' ones; a new run counts its
\* own turns, and a job goes on from the probe only if all checks passed.
Proceed(skipped, ok) ==
  LET next == item + 1 + skipped
      over == next > Len(Agenda)
  IN /\ passed' = (passed /\ ok)
     /\ item' = IF over THEN item ELSE next
     /\ turns' = IF over \/ Agenda[next].run = Agenda[item].run THEN turns ELSE 0
     /\ at' = CASE (over \/ Agenda[next].run # Agenda[item].run) /\ ~passed' -> "failed"
                [] over -> "answered"
                [] OTHER -> "ready"
     /\ UNCHANGED repaired

-----------------------------------------------------------------------------
\* AgentRun.turn counts the turn; the probe calls its client directly.
Start ==
  /\ at = "ready"
  /\ \/ Kind \notin {"turn", "planner"} /\ at' = "admit" /\ UNCHANGED <<item, repaired, passed, turns>>
     \/ /\ Kind \in {"turn", "planner"} /\ turns < limit
        /\ at' = "admit" /\ turns' = turns + 1 /\ UNCHANGED <<item, repaired, passed>>
     \/ Kind \in {"turn", "planner"} /\ turns >= limit /\ Raise(TRUE)
  /\ UNCHANGED <<counters, refused, billed, overrun>>

\* Faulty variant of Affordable: compares before adding the call at hand.
AffordableLate(p) ==
  /\ p + OutputCap <= Window
  /\ reservedTokens <= MaxTokens
  /\ reservedUsd + Cost(p, OutputCap) <= MaxCost

\* The context window, the token limit and, for a paid provider, the cost limit.
Affordable(p) ==
  /\ p + OutputCap <= Window
  /\ reservedTokens + p + OutputCap <= MaxTokens
  /\ reservedUsd + Cost(p, OutputCap) <= MaxCost

\* Faulty variant of Admitted: one call short of the limit.
AdmittedShort(p) == Affordable(p) /\ calls + 1 < limit

\* What reserve lets through.
Admitted(p) == Affordable(p) /\ calls < limit

Reserve(p) ==
  /\ at = "admit" /\ Admitted(p)
  /\ calls' = calls + 1
  /\ reservedTokens' = reservedTokens + p + OutputCap
  /\ reservedUsd' = reservedUsd + Cost(p, OutputCap)
  /\ events' = Append(events, [input |-> p, status |-> "reserved"])
  /\ at' = "calling"
  /\ UNCHANGED <<item, repaired, passed, turns, limit, actualTokens, actualUsd, refused, billed, overrun>>

Refuse(p) ==
  /\ at = "admit" /\ ~Admitted(p)
  /\ Raise(TRUE)
  /\ refused' = (refused \/ Affordable(p))
  /\ UNCHANGED <<counters, billed, overrun>>

-----------------------------------------------------------------------------
Ticket == events[Len(events)]
Mark(status) == events' = [events EXCEPT ![Len(events)].status = status]

\* The provider processes the call, within its reservation or not.
Bill(u) == /\ billed' = [tokens |-> billed.tokens + u[1] + u[2], usd |-> billed.usd + Cost(u[1], u[2])]
           /\ overrun' = (overrun \/ ~Within(Ticket.input, u))

\* Faulty variant of Answer: an excess raises but does not disable the client.
AnswerUndisabled(u) ==
  /\ at = "calling" /\ u[1] + u[2] > 0
  /\ Bill(u)
  /\ actualTokens' = actualTokens + u[1] + u[2]
  /\ actualUsd' = actualUsd + Cost(u[1], u[2])
  /\ Mark("completed")
  /\ IF Within(Ticket.input, u)
     THEN at' = "tools" /\ UNCHANGED <<item, repaired, passed, turns>>
     ELSE Raise(TRUE)
  /\ UNCHANGED <<limit, calls, reservedTokens, reservedUsd, refused>>

\* finish with usable accounting; an excess disables all further calls.
Answer(u) ==
  /\ at = "calling" /\ u[1] + u[2] > 0
  /\ Bill(u)
  /\ actualTokens' = actualTokens + u[1] + u[2]
  /\ actualUsd' = actualUsd + Cost(u[1], u[2])
  /\ Mark("completed")
  /\ IF Within(Ticket.input, u)
     THEN at' = "tools" /\ UNCHANGED <<item, repaired, passed, turns, calls>>
     ELSE calls' = limit /\ Raise(TRUE)
  /\ UNCHANGED <<limit, reservedTokens, reservedUsd, refused>>

\* finish with negative or empty accounting.
AnswerUnaccounted(u) ==
  /\ at = "calling"
  /\ Bill(u)
  /\ Mark("missing_usage")
  /\ Raise(TRUE)
  /\ UNCHANGED <<limit, calls, reservedTokens, reservedUsd, actualTokens, actualUsd, refused>>

\* Faulty variant of NoAnswer: a timeout gives its reservation back.
NoAnswerRefunded(u) ==
  /\ at = "calling"
  /\ Bill(u)
  /\ Mark("failed_usage_unknown")
  /\ reservedTokens' = reservedTokens - Ticket.input - OutputCap
  /\ \E isValueError \in BOOLEAN : Raise(isValueError)
  /\ UNCHANGED <<limit, calls, reservedUsd, actualTokens, actualUsd, refused>>

\* Faulty variant of NoAnswer: the ticket of a failed call counts as complete.
NoAnswerCompleted(u) ==
  /\ at = "calling"
  /\ Bill(u)
  /\ Mark("completed")
  /\ \E isValueError \in BOOLEAN : Raise(isValueError)
  /\ UNCHANGED <<limit, calls, reservedTokens, reservedUsd, actualTokens, actualUsd, refused>>

\* A timeout of the call or of the turn, a cancellation, or any error of the client.
NoAnswer(u) ==
  /\ at = "calling"
  /\ Bill(u)
  /\ Mark("failed_usage_unknown")
  /\ \E isValueError \in BOOLEAN : Raise(isValueError)
  /\ UNCHANGED <<limit, calls, reservedTokens, reservedUsd, actualTokens, actualUsd, refused>>

\* The answer of a probe call is judged.
Judge ==
  /\ at = "tools" /\ Kind \in {"check", "tool", "final"}
  /\ \E ok \in BOOLEAN : Proceed(IF Kind = "tool" /\ ~ok THEN 1 ELSE 0, ok)
  /\ UNCHANGED <<counters, refused, billed, overrun>>

\* The tool calls of a turn yielded one validated result, or not.
Tools ==
  /\ at = "tools" /\ Kind \in {"turn", "planner"}
  /\ Proceed(0, TRUE) \/ \E isValueError \in BOOLEAN : Raise(isValueError)
  /\ UNCHANGED <<counters, refused, billed, overrun>>

Finished == at \in {"answered", "failed"} /\ UNCHANGED vars

Next == \/ Start
        \/ \E p \in Prompt : Reserve(p) \/ Refuse(p)
        \/ \E u \in Usage : Answer(u) \/ AnswerUnaccounted(u) \/ NoAnswer(u)
        \/ Judge \/ Tools
        \/ Finished

Spec == Init /\ [][Next]_vars

-----------------------------------------------------------------------------
\* Properties.

\* Types, and the limits of the profile (limits.py:50-58).
TypeOK ==
  /\ at \in {"ready", "admit", "calling", "tools", "answered", "failed"}
  /\ item \in 1..Len(Agenda)
  /\ repaired \in BOOLEAN /\ passed \in BOOLEAN /\ refused \in BOOLEAN /\ overrun \in BOOLEAN
  /\ limit \in CallLimits /\ turns \in 0..limit
  /\ calls \in 0..limit
  /\ reservedTokens \in 0..MaxTokens
  /\ reservedUsd \in 0..MaxCost
  /\ actualTokens \in Nat /\ actualUsd \in Nat
  /\ events \in Seq(Tickets)
  /\ billed \in [tokens : Nat, usd : Nat]

\* "Keep the entire reservation on unknown usage, including timeouts"
\* (limits.py:126): while the provider keeps within what was admitted, it never
\* processed more than the limits, answers that never arrived included.
SpendCovered == ~overrun => /\ billed.tokens <= reservedTokens /\ reservedTokens <= MaxTokens
                            /\ billed.usd <= reservedUsd /\ reservedUsd <= MaxCost

\* report: without a call of unknown usage the reported tokens and cost are the
\* real ones, an excess included (limits.py:81-86).
UsageKnown == \A i \in DOMAIN events : events[i].status = "completed"
ReportTrue == UsageKnown => actualTokens = billed.tokens /\ actualUsd = billed.usd

\* "further calls disabled" (limits.py:79): once an accounted call exceeded what
\* was admitted, no call is admitted any more, not even for the Planner's repair.
Exceeded == overrun /\ UsageKnown
NoCallAfterExcess == [][Exceeded => events' = events]_vars

\* A limit of as many calls as the agenda has admits all of them, unless the
\* Planner was repaired: 16 calls for the job of 4 capability checks, 5 build
\* turns and 7 analysis turns (run_job.py:36-57).
AgendaFits == limit >= Len(Agenda) /\ refused => repaired
=============================================================================
