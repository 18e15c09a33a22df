-------------------------- MODULE ModelBudgetProofs --------------------------
(***************************************************************************)
(* The budget for every agenda, profile, prompt and usage: the limits hold, *)
(* reservations cover what the provider processed, a report without        *)
(* unknown usage is true, and an excess ends the spending.                 *)
(***************************************************************************)
EXTENDS ModelBudget, SequenceTheorems, TLAPS

\* A call under way has the last ticket.
CallHasTicket == at = "calling" => Len(events) > 0 /\ Ticket.status = "reserved"

\* What is reserved for the call under way is not spent yet.
Pending == IF at = "calling" THEN Ticket.input + OutputCap ELSE 0
PendingUsd == IF at = "calling" THEN Cost(Ticket.input, OutputCap) ELSE 0
Slack == ~overrun => /\ billed.tokens + Pending <= reservedTokens
                     /\ billed.usd + PendingUsd <= reservedUsd

\* The tickets that are not under way are all completed.
Settled == IF at = "calling" THEN Len(events) - 1 ELSE Len(events)
PriorKnown == \A i \in 1..Settled : events[i].status = "completed"
PriorTrue == PriorKnown => actualTokens = billed.tokens /\ actualUsd = billed.usd

\* An accounted excess has used up the calls.
Disabled == overrun /\ PriorKnown => calls = limit /\ at # "calling"

\* Without a repair every item of the agenda costs one call.
Paced == ~repaired /\ at # "failed" =>
  calls < item + (IF at \in {"calling", "tools", "answered"} THEN 1 ELSE 0)

IInv == TypeOK /\ CallHasTicket /\ Slack /\ PriorTrue /\ Disabled

-----------------------------------------------------------------------------
LEMMA Products == ASSUME NEW a \in Nat, NEW b \in Nat, NEW c \in Nat, a <= b
                  PROVE  a * c \in Nat /\ b * c \in Nat /\ a * c <= b * c
  BY SMT

\* Prices are not negative: less usage never costs more (limits.py:56, 74).
LEMMA CostMonotone ==
  ASSUME NEW i1 \in Nat, NEW o1 \in Nat, NEW i2 \in Nat, NEW o2 \in Nat, i1 <= i2, o1 <= o2
  PROVE  Cost(i1, o1) \in Nat /\ Cost(i2, o2) \in Nat /\ Cost(i1, o1) <= Cost(i2, o2)
<1>1. InPrice \in Nat /\ OutPrice \in Nat
  BY BudgetAssumption
<1>2. i1 * InPrice \in Nat /\ i2 * InPrice \in Nat /\ i1 * InPrice <= i2 * InPrice
  BY <1>1, Products
<1>3. o1 * OutPrice \in Nat /\ o2 * OutPrice \in Nat /\ o1 * OutPrice <= o2 * OutPrice
  BY <1>1, Products
<1> QED BY <1>2, <1>3 DEF Cost

LEMMA CostNat == ASSUME NEW in \in Nat, NEW out \in Nat PROVE Cost(in, out) \in Nat
<1>1. InPrice \in Nat /\ OutPrice \in Nat
  BY BudgetAssumption
<1>2. in * InPrice \in Nat /\ out * OutPrice \in Nat
  BY <1>1, SMT
<1> QED BY <1>2 DEF Cost

\* Where an exception leaves the scope.
LEMMA Raised ==
  ASSUME TypeOK, NEW e \in BOOLEAN, Raise(e)
  PROVE  /\ at' \in {"ready", "failed"} /\ item' = item /\ turns' = turns
         /\ repaired' \in BOOLEAN /\ passed' = passed
<1>1. CASE e /\ Kind = "planner" /\ ~repaired
  BY <1>1, Zenon DEF Raise
<1>2. CASE ~(e /\ Kind = "planner" /\ ~repaired)
  BY <1>2, Zenon DEF Raise, TypeOK
<1> QED BY <1>1, <1>2

\* Where the next call of the agenda leaves it.
LEMMA Proceeded ==
  ASSUME TypeOK, NEW k \in Nat, NEW ok \in BOOLEAN, Proceed(k, ok)
  PROVE  /\ at' \in {"ready", "failed", "answered"} /\ item' \in 1..Len(Agenda)
         /\ turns' \in {turns, 0} /\ repaired' = repaired /\ passed' \in BOOLEAN
<1> DEFINE next == item + 1 + k
           over == next > Len(Agenda)
           leaves == over \/ Agenda[next].run # Agenda[item].run
<1>1. /\ passed' = (passed /\ ok)
      /\ item' = IF over THEN item ELSE next
      /\ turns' = IF over \/ Agenda[next].run = Agenda[item].run THEN turns ELSE 0
      /\ at' = CASE leaves /\ ~passed' -> "failed" [] over -> "answered" [] OTHER -> "ready"
      /\ UNCHANGED repaired
  BY DEF Proceed
<1>2. item' \in 1..Len(Agenda)
  <2>1. item \in 1..Len(Agenda) /\ Len(Agenda) \in Nat
    BY BudgetAssumption DEF TypeOK
  <2> QED BY <1>1, <2>1
<1>3. at' \in {"ready", "failed", "answered"}
  <2>1. CASE leaves /\ ~passed'
    BY <1>1, <2>1
  <2>2. CASE ~(leaves /\ ~passed')
    BY <1>1, <2>2
  <2> QED BY <2>1, <2>2
<1>4. turns' \in {turns, 0}
  BY <1>1
<1>5. passed' \in BOOLEAN
  BY <1>1, Zenon DEF TypeOK
<1> QED BY <1>1, <1>2, <1>3, <1>4, <1>5

\* A call under way has a ticket of the right type.
LEMMA TicketTyped ==
  ASSUME TypeOK, CallHasTicket, at = "calling"
  PROVE  Len(events) \in Nat \ {0} /\ Ticket \in Tickets /\ Ticket.input \in Nat
<1>1. events \in Seq(Tickets) /\ Len(events) > 0
  BY DEF TypeOK, CallHasTicket
<1>2. Len(events) \in Nat /\ Ticket \in Tickets
  BY <1>1 DEF Ticket
<1> QED BY <1>1, <1>2 DEF Tickets

\* What marking the last ticket does to the tickets.
LEMMA Marked ==
  ASSUME TypeOK, at = "calling", CallHasTicket, NEW s \in Statuses, Mark(s)
  PROVE  /\ events' \in Seq(Tickets) /\ Len(events') = Len(events)
         /\ events'[Len(events)].status = s
         /\ \A i \in 1..(Len(events) - 1) : events'[i] = events[i]
<1> DEFINE n == Len(events)
           t == [Ticket EXCEPT !.status = s]
<1>1. n \in Nat \ {0} /\ Ticket \in Tickets /\ events \in Seq(Tickets)
  BY TicketTyped DEF TypeOK
<1>2. t \in Tickets /\ t.status = s
  BY <1>1 DEF Tickets
<1>3. events' = [events EXCEPT ![n] = t]
  BY DEF Mark, Ticket
<1> HIDE DEF t, n
<1>4. n \in 1..Len(events)
  BY <1>1 DEF n
<1> QED BY <1>1, <1>2, <1>3, <1>4, ExceptSeq DEF n

-----------------------------------------------------------------------------
LEMMA Initially == Init => IInv
<1> SUFFICES ASSUME Init PROVE IInv
  OBVIOUS
<1>1. TypeOK
  <2>1. Len(Agenda) \in Nat /\ Len(Agenda) > 0
    BY BudgetAssumption
  <2>2. limit \in CallLimits /\ limit \in Nat
    BY BudgetAssumption DEF Init
  <2>3. <<>> \in Seq(Tickets)
    OBVIOUS
  <2>4. repaired \in BOOLEAN /\ passed \in BOOLEAN /\ refused \in BOOLEAN /\ overrun \in BOOLEAN
    BY Zenon DEF Init
  <2>5. /\ at \in {"ready", "admit", "calling", "tools", "answered", "failed"}
        /\ item \in 1..Len(Agenda) /\ turns \in 0..limit /\ calls \in 0..limit
        /\ reservedTokens \in 0..MaxTokens /\ reservedUsd \in 0..MaxCost
        /\ actualTokens \in Nat /\ actualUsd \in Nat /\ billed \in [tokens : Nat, usd : Nat]
    BY <2>1, <2>2, BudgetAssumption DEF Init
  <2> QED BY <2>2, <2>3, <2>4, <2>5 DEF Init, TypeOK
<1>2. CallHasTicket /\ Slack /\ PriorTrue /\ Disabled
  BY DEF Init, CallHasTicket, Slack, Pending, PendingUsd, PriorTrue, PriorKnown, Settled, Disabled
<1> QED BY <1>1, <1>2 DEF IInv

\* A step between calls: nothing is reserved, billed or accounted.
LEMMA Between ==
  ASSUME IInv, at # "calling", at' # "calling",
         UNCHANGED <<counters, billed, overrun>>,
         at' \in {"ready", "admit", "answered", "failed"}, item' \in 1..Len(Agenda),
         repaired' \in BOOLEAN, passed' \in BOOLEAN, refused' \in BOOLEAN, turns' \in 0..limit
  PROVE  IInv'
  BY DEF IInv, TypeOK, counters, CallHasTicket, Slack, Pending, PendingUsd, PriorTrue,
         PriorKnown, Settled, Disabled

\* A call comes to its end: billed, marked, and accounted only when completed.
LEMMA Ended ==
  ASSUME IInv, at = "calling", NEW u \in Usage, Bill(u), NEW s \in Statuses \ {"reserved"}, Mark(s),
         at' \in {"ready", "failed", "tools"}, item' = item, turns' = turns,
         repaired' \in BOOLEAN, passed' = passed,
         UNCHANGED <<limit, reservedTokens, reservedUsd, refused>>,
         IF s = "completed"
         THEN /\ actualTokens' = actualTokens + u[1] + u[2]
              /\ actualUsd' = actualUsd + Cost(u[1], u[2])
              /\ calls' = IF Within(Ticket.input, u) THEN calls ELSE limit
         ELSE UNCHANGED <<calls, actualTokens, actualUsd>>
  PROVE  IInv'
<1> USE DEF IInv
<1>1. u[1] \in Nat /\ u[2] \in Nat /\ OutputCap \in Nat /\ limit \in Nat
  BY BudgetAssumption DEF TypeOK
<1>2. /\ events' \in Seq(Tickets) /\ Len(events') = Len(events) /\ Len(events) \in Nat \ {0}
      /\ events'[Len(events)].status = s
      /\ \A i \in 1..(Len(events) - 1) : events'[i] = events[i]
      /\ Ticket.input \in Nat
  BY Marked, TicketTyped
<1>3. /\ Cost(u[1], u[2]) \in Nat
      /\ Within(Ticket.input, u) => Cost(u[1], u[2]) <= Cost(Ticket.input, OutputCap)
      /\ Cost(Ticket.input, OutputCap) \in Nat
  <2>1. Cost(u[1], u[2]) \in Nat /\ Cost(Ticket.input, OutputCap) \in Nat
    BY <1>1, <1>2, CostNat
  <2>2. ASSUME Within(Ticket.input, u) PROVE Cost(u[1], u[2]) <= Cost(Ticket.input, OutputCap)
    <3>1. u[1] <= Ticket.input /\ u[2] <= OutputCap
      BY <2>2 DEF Within
    <3> QED BY <3>1, <1>1, <1>2, CostMonotone
  <2> QED BY <2>1, <2>2
<1>4. /\ billed' = [tokens |-> billed.tokens + u[1] + u[2], usd |-> billed.usd + Cost(u[1], u[2])]
      /\ overrun' = (overrun \/ ~Within(Ticket.input, u))
  BY DEF Bill
<1>5. TypeOK'
  <2>1. /\ billed' \in [tokens : Nat, usd : Nat]
        /\ actualTokens' \in Nat /\ actualUsd' \in Nat
        /\ calls' \in 0..limit
    <3>1. billed.tokens \in Nat /\ billed.usd \in Nat
          /\ actualTokens \in Nat /\ actualUsd \in Nat /\ calls \in 0..limit
      BY DEF TypeOK
    <3>2. billed' \in [tokens : Nat, usd : Nat]
      BY <1>1, <1>3, <1>4, <3>1
    <3>3. calls' \in {calls, limit}
      OBVIOUS
    <3>4. actualTokens' \in {actualTokens, actualTokens + u[1] + u[2]}
          /\ actualUsd' \in {actualUsd, actualUsd + Cost(u[1], u[2])}
      OBVIOUS
    <3> QED BY <1>1, <1>3, <3>1, <3>2, <3>3, <3>4
  <2>2. overrun' \in BOOLEAN
    BY <1>4, Zenon DEF TypeOK, Within
  <2>3. passed' \in BOOLEAN /\ refused' \in BOOLEAN
    BY Zenon DEF TypeOK
  <2> QED BY <1>2, <2>1, <2>2, <2>3 DEF TypeOK
<1>6. CallHasTicket'
  BY DEF CallHasTicket
<1>7. Slack'
  <2> SUFFICES ASSUME ~overrun' PROVE billed'.tokens <= reservedTokens /\ billed'.usd <= reservedUsd
    <3>1. Pending' = 0 /\ PendingUsd' = 0
      BY DEF Pending, PendingUsd
    <3>2. billed'.tokens \in Nat /\ billed'.usd \in Nat
      BY <1>5 DEF TypeOK
    <3> QED BY <3>1, <3>2 DEF Slack
  <2>1. Within(Ticket.input, u) /\ ~overrun
    BY <1>4
  <2>2. billed.tokens + (Ticket.input + OutputCap) <= reservedTokens
        /\ billed.usd + Cost(Ticket.input, OutputCap) <= reservedUsd
    BY <2>1 DEF Slack, Pending, PendingUsd
  <2>3. u[1] <= Ticket.input /\ u[2] <= OutputCap
    BY <2>1 DEF Within
  <2>4. billed.tokens \in Nat /\ billed.usd \in Nat /\ reservedTokens \in Nat /\ reservedUsd \in Nat
    BY BudgetAssumption DEF TypeOK
  <2>5. billed'.tokens = billed.tokens + u[1] + u[2] /\ billed'.usd = billed.usd + Cost(u[1], u[2])
    BY <1>4
  <2>6. billed'.tokens <= reservedTokens
    BY <2>2, <2>3, <2>4, <2>5, <1>1, <1>2
  <2>7. billed'.usd <= reservedUsd
    BY <2>1, <2>2, <2>4, <2>5, <1>3
  <2> QED BY <2>6, <2>7
<1>8. PriorKnown' => s = "completed" /\ PriorKnown
  BY <1>2 DEF PriorKnown, Settled
<1>9. PriorTrue'
  BY <1>8, <1>4 DEF PriorTrue
<1>10. Disabled'
  BY <1>8, <1>4 DEF Disabled
<1> QED BY <1>5, <1>6, <1>7, <1>9, <1>10

LEMMA Preserved == IInv /\ [Next]_vars => IInv'
<1> SUFFICES ASSUME IInv, [Next]_vars PROVE IInv'
  OBVIOUS
<1>0. TypeOK /\ Len(Agenda) \in Nat
  BY BudgetAssumption DEF IInv
<1>1. CASE Start
  <2>1. at = "ready" /\ UNCHANGED <<counters, refused, billed, overrun>>
    BY <1>1 DEF Start
  <2>2. CASE at' = "admit" /\ turns' \in {turns, turns + 1} /\ turns' \in 0..limit
             /\ UNCHANGED <<item, repaired, passed>>
    BY <2>1, <2>2, <1>0, Between DEF TypeOK
  <2>3. CASE Raise(TRUE)
    <3>1. /\ at' \in {"ready", "failed"} /\ item' = item /\ turns' = turns
          /\ repaired' \in BOOLEAN /\ passed' = passed
      BY <2>3, <1>0, Raised
    <3> QED BY <2>1, <3>1, <1>0, Between DEF TypeOK
  <2>4. limit \in Nat /\ turns \in 0..limit
    BY <1>0, BudgetAssumption DEF TypeOK
  <2>5. CASE at' = "admit" /\ UNCHANGED <<item, repaired, passed, turns>>
    BY <2>2, <2>4, <2>5
  <2>6. CASE turns < limit /\ at' = "admit" /\ turns' = turns + 1 /\ UNCHANGED <<item, repaired, passed>>
    BY <2>2, <2>4, <2>6
  <2> QED BY <1>1, <2>3, <2>5, <2>6, Zenon DEF Start
<1>2. ASSUME NEW p \in Prompt, Reserve(p) PROVE IInv'
  <2>1. p \in Nat /\ OutputCap \in Nat /\ limit \in Nat /\ MaxTokens \in Nat /\ MaxCost \in Nat
    BY <1>0, BudgetAssumption DEF TypeOK
  <2>2. Cost(p, OutputCap) \in Nat
    BY <2>1, CostMonotone
  <2>3. /\ events' \in Seq(Tickets) /\ Len(events') = Len(events) + 1
        /\ events'[Len(events) + 1] = [input |-> p, status |-> "reserved"]
        /\ \A i \in 1..Len(events) : events'[i] = events[i]
        /\ Len(events) \in Nat
    BY <1>2, <1>0, <2>1 DEF Reserve, TypeOK, Tickets, Statuses
  <2>4. /\ calls < limit /\ calls' = calls + 1
        /\ reservedTokens' = reservedTokens + p + OutputCap /\ reservedTokens' <= MaxTokens
        /\ reservedUsd' = reservedUsd + Cost(p, OutputCap) /\ reservedUsd' <= MaxCost
        /\ at = "admit" /\ at' = "calling"
        /\ UNCHANGED <<item, repaired, passed, turns, limit, actualTokens, actualUsd, refused, billed, overrun>>
    BY <1>2 DEF Reserve, Admitted, Affordable
  <2>5. TypeOK'
    <3>1. /\ calls' \in 0..limit' /\ reservedTokens' \in 0..MaxTokens /\ reservedUsd' \in 0..MaxCost
          /\ item' \in 1..Len(Agenda) /\ limit' \in CallLimits /\ turns' \in 0..limit'
      BY <1>0, <2>1, <2>2, <2>4 DEF TypeOK
    <3>2. repaired' \in BOOLEAN /\ passed' \in BOOLEAN /\ refused' \in BOOLEAN /\ overrun' \in BOOLEAN
      BY <1>0, <2>4, Zenon DEF TypeOK
    <3> QED BY <1>0, <2>3, <2>4, <3>1, <3>2 DEF TypeOK
  <2>6. Ticket' = [input |-> p, status |-> "reserved"]
    BY <2>3 DEF Ticket
  <2>7. CallHasTicket'
    BY <2>3, <2>6 DEF CallHasTicket
  <2>8. Slack'
    <3>1. Pending' = p + OutputCap /\ PendingUsd' = Cost(p, OutputCap)
      BY <2>4, <2>6 DEF Pending, PendingUsd, Cost
    <3>2. Pending = 0 /\ PendingUsd = 0
      BY <2>4 DEF Pending, PendingUsd
    <3>3. ~overrun => billed.tokens + 0 <= reservedTokens /\ billed.usd + 0 <= reservedUsd
      BY <3>2 DEF IInv, Slack
    <3>4. billed.tokens \in Nat /\ billed.usd \in Nat /\ reservedTokens \in Nat /\ reservedUsd \in Nat
      BY <1>0, <2>1 DEF TypeOK
    <3>5. ~overrun => billed.tokens + (p + OutputCap) <= reservedTokens'
                      /\ billed.usd + Cost(p, OutputCap) <= reservedUsd'
      BY <3>3, <3>4, <2>1, <2>2, <2>4
    <3> QED BY <3>1, <3>5, <2>4 DEF Slack
  <2>9. PriorKnown' <=> PriorKnown
    BY <2>3, <2>4 DEF PriorKnown, Settled
  <2>10. PriorTrue' /\ Disabled'
    <3>1. ~(overrun /\ PriorKnown)
      BY <2>1, <2>4, <1>0 DEF IInv, Disabled, TypeOK
    <3> QED BY <3>1, <2>9, <2>4 DEF IInv, PriorTrue, Disabled
  <2> QED BY <2>5, <2>7, <2>8, <2>10 DEF IInv
<1>3. ASSUME NEW p \in Prompt, Refuse(p) PROVE IInv'
  <2>1. /\ at' \in {"ready", "failed"} /\ item' = item /\ turns' = turns
        /\ repaired' \in BOOLEAN /\ passed' = passed
    BY <1>3, <1>0, Raised DEF Refuse
  <2>2. refused' \in BOOLEAN
    BY <1>3, <1>0 DEF Refuse, TypeOK
  <2> QED BY <1>3, <1>0, <2>1, <2>2, Between DEF Refuse, TypeOK
<1>4. ASSUME NEW u \in Usage, Answer(u) PROVE IInv'
  <2>1. /\ at' \in {"ready", "failed", "tools"} /\ item' = item /\ turns' = turns
        /\ repaired' \in BOOLEAN /\ passed' = passed
    BY <1>4, <1>0, Raised DEF Answer, TypeOK
  <2>2. calls' = IF Within(Ticket.input, u) THEN calls ELSE limit
    BY <1>4 DEF Answer
  <2> QED BY <1>4, <2>1, <2>2, Ended DEF Answer, Statuses
<1>5. ASSUME NEW u \in Usage, AnswerUnaccounted(u) PROVE IInv'
  <2>1. /\ at' \in {"ready", "failed"} /\ item' = item /\ turns' = turns
        /\ repaired' \in BOOLEAN /\ passed' = passed
    BY <1>5, <1>0, Raised DEF AnswerUnaccounted
  <2> QED BY <1>5, <2>1, Ended DEF AnswerUnaccounted, Statuses
<1>6. ASSUME NEW u \in Usage, NoAnswer(u) PROVE IInv'
  <2>1. /\ at' \in {"ready", "failed"} /\ item' = item /\ turns' = turns
        /\ repaired' \in BOOLEAN /\ passed' = passed
    BY <1>6, <1>0, Raised DEF NoAnswer
  <2> QED BY <1>6, <2>1, Ended DEF NoAnswer, Statuses
<1>7. CASE Judge \/ Tools
  <2>1. /\ at = "tools" /\ at' \in {"ready", "failed", "answered"} /\ item' \in 1..Len(Agenda)
        /\ turns' \in {turns, 0} /\ repaired' \in BOOLEAN /\ passed' \in BOOLEAN
        /\ UNCHANGED <<counters, refused, billed, overrun>>
    <3>1. ASSUME NEW k \in {0, 1}, NEW ok \in BOOLEAN, Proceed(k, ok)
          PROVE  /\ at' \in {"ready", "failed", "answered"} /\ item' \in 1..Len(Agenda)
                 /\ turns' \in {turns, 0} /\ repaired' \in BOOLEAN /\ passed' \in BOOLEAN
      BY <3>1, <1>0, Proceeded DEF TypeOK
    <3>2. ASSUME NEW e \in BOOLEAN, Raise(e)
          PROVE  /\ at' \in {"ready", "failed", "answered"} /\ item' \in 1..Len(Agenda)
                 /\ turns' \in {turns, 0} /\ repaired' \in BOOLEAN /\ passed' \in BOOLEAN
      BY <3>2, <1>0, Raised DEF TypeOK
    <3> QED BY <1>7, <3>1, <3>2 DEF Judge, Tools
  <2>2. turns' \in 0..limit
    BY <2>1, <1>0, BudgetAssumption DEF TypeOK
  <2> QED BY <2>1, <2>2, <1>0, Between DEF TypeOK
<1>8. CASE Finished \/ UNCHANGED vars
  <2>1. UNCHANGED vars
    BY <1>8 DEF Finished
  <2> QED BY <2>1 DEF vars, place, counters, IInv, TypeOK, CallHasTicket, Ticket, Slack, Pending,
             PendingUsd, PriorTrue, PriorKnown, Settled, Disabled
<1> QED BY <1>1, <1>2, <1>3, <1>4, <1>5, <1>6, <1>7, <1>8 DEF Next

LEMMA Inductive == Spec => []IInv
<1> QED BY Initially, Preserved, PTL DEF Spec

\* The limits of calls, tokens and cost hold (limits.py:50-58).
THEOREM LimitsHold == Spec => []TypeOK
<1>1. IInv => TypeOK
  BY DEF IInv
<1> QED BY <1>1, Inductive, PTL

\* Reservations, which keep within the limits, cover what the provider
\* processed, lost answers included (limits.py:126).
THEOREM ReservationsCover == Spec => []SpendCovered
<1>1. IInv => SpendCovered
  <2> SUFFICES ASSUME IInv, ~overrun PROVE SpendCovered
    BY DEF SpendCovered
  <2>1. /\ billed.tokens + Pending <= reservedTokens /\ billed.usd + PendingUsd <= reservedUsd
        /\ billed.tokens \in Nat /\ billed.usd \in Nat
        /\ reservedTokens \in 0..MaxTokens /\ reservedUsd \in 0..MaxCost
    BY DEF IInv, Slack, TypeOK
  <2>2. Pending \in Nat /\ PendingUsd \in Nat
    <3>1. CASE at = "calling"
      <4>1. Ticket.input \in Nat /\ OutputCap \in Nat
        BY <3>1, BudgetAssumption, TicketTyped DEF IInv
      <4>2. Cost(Ticket.input, OutputCap) \in Nat
        BY <4>1, CostNat
      <4> QED BY <3>1, <4>1, <4>2 DEF Pending, PendingUsd
    <3>2. CASE at # "calling"
      BY <3>2 DEF Pending, PendingUsd
    <3> QED BY <3>1, <3>2
  <2> QED BY <2>1, <2>2, BudgetAssumption DEF SpendCovered
<1> QED BY <1>1, Inductive, PTL

\* A report without unknown usage states the real tokens and cost (limits.py:81-86).
THEOREM ReportsTrue == Spec => []ReportTrue
<1>1. IInv => ReportTrue
  <2> SUFFICES ASSUME IInv, UsageKnown PROVE PriorKnown
    BY DEF IInv, PriorTrue, ReportTrue
  <2> QED BY DEF IInv, TypeOK, UsageKnown, PriorKnown, Settled
<1> QED BY <1>1, Inductive, PTL

\* After an accounted excess no call is admitted (limits.py:77-79).
THEOREM ExcessEnds == Spec => NoCallAfterExcess
<1>1. IInv /\ [Next]_vars => [Exceeded => events' = events]_vars
  <2> SUFFICES ASSUME IInv, Next, Exceeded PROVE events' = events
    OBVIOUS
  <2>1. PriorKnown
    BY DEF IInv, TypeOK, Exceeded, UsageKnown, PriorKnown, Settled
  <2>2. calls = limit /\ at # "calling"
    BY <2>1 DEF IInv, Disabled, Exceeded
  <2>3. \A p \in Prompt : ~Reserve(p)
    BY <2>2, BudgetAssumption DEF Reserve, Admitted, IInv, TypeOK
  <2>4. \A u \in Usage : ~Answer(u) /\ ~AnswerUnaccounted(u) /\ ~NoAnswer(u)
    BY <2>2 DEF Answer, AnswerUnaccounted, NoAnswer
  <2> QED BY <2>3, <2>4 DEF Next, Start, Refuse, Judge, Tools, Finished, vars, counters
<1> QED BY <1>1, Inductive, PTL DEF Spec, NoCallAfterExcess

-----------------------------------------------------------------------------
\* A step keeps the pace, and refuses no call of an agenda that fits the limit.
LEMMA PaceKept == IInv /\ Paced /\ AgendaFits /\ [Next]_vars => Paced' /\ AgendaFits'
<1> SUFFICES ASSUME IInv, Paced, AgendaFits, [Next]_vars PROVE Paced' /\ AgendaFits'
  OBVIOUS
<1>0. /\ TypeOK /\ Len(Agenda) \in Nat /\ item \in 1..Len(Agenda)
      /\ limit \in Nat /\ calls \in 0..limit
  BY BudgetAssumption DEF IInv, TypeOK
<1>r. ASSUME NEW e \in BOOLEAN, Raise(e), limit' = limit, refused' => refused \/ repaired
      PROVE  Paced' /\ AgendaFits'
  <2>1. (at' = "failed" \/ repaired') /\ (repaired => repaired')
    BY <1>r DEF Raise
  <2> QED BY <2>1, <1>r DEF Paced, AgendaFits
<1>p. ASSUME NEW k \in Nat, NEW ok \in BOOLEAN, Proceed(k, ok), at = "tools", UNCHANGED <<counters, refused>>
      PROVE  Paced' /\ AgendaFits'
  <2>1. repaired' = repaired /\ limit' = limit /\ calls' = calls
    BY <1>p DEF Proceed, counters
  <2>2. at' \in {"failed", "answered"} \/ item' = item + 1 + k
    BY <1>p DEF Proceed
  <2>3. item' \in {item, item + 1 + k}
    BY <1>p DEF Proceed
  <2>4. at' \in {"failed", "answered", "ready"}
    BY <1>p, <1>0, Proceeded
  <2>5. ~repaired => calls < item + 1
    BY <1>p DEF Paced
  <2>6. Paced'
    <3>1. ~repaired' => calls' < item + 1
      BY <2>1, <2>5
    <3>2. CASE at' = "answered"
      <4>1. ~repaired' => calls' < item' + 1
        <5> SUFFICES ASSUME ~repaired' PROVE calls' < item' + 1
          OBVIOUS
        <5>1. calls < item + 1 /\ calls' = calls
          BY <3>1, <2>1
        <5>2. CASE item' = item
          BY <5>1, <5>2, <1>0
        <5>3. CASE item' = item + 1 + k
          BY <5>1, <5>3, <1>0
        <5> QED BY <2>3, <5>2, <5>3
      <4> QED BY <4>1, <3>2 DEF Paced
    <3>3. CASE at' = "ready"
      <4>1. ~repaired' => calls' < item' + 0
        BY <3>1, <3>3, <2>2, <2>1, <1>0, <1>p
      <4> QED BY <4>1, <3>3 DEF Paced
    <3>4. CASE at' = "failed"
      BY <3>4 DEF Paced
    <3> QED BY <2>4, <3>2, <3>3, <3>4
  <2> QED BY <2>1, <2>6, <1>p DEF AgendaFits
<1>1. CASE Start
  <2>1. \/ at = "ready" /\ at' = "admit" /\ UNCHANGED <<item, repaired, counters, refused>>
        \/ Raise(TRUE) /\ UNCHANGED <<counters, refused>>
    BY <1>1 DEF Start
  <2>2. limit' = limit /\ calls' = calls /\ refused' = refused
    BY <2>1 DEF counters
  <2>3. CASE at = "ready" /\ at' = "admit" /\ UNCHANGED <<item, repaired>>
    BY <2>2, <2>3 DEF Paced, AgendaFits
  <2>4. CASE Raise(TRUE)
    BY <2>2, <2>4, <1>r, Zenon
  <2> QED BY <2>1, <2>3, <2>4
<1>2. ASSUME NEW p \in Prompt, Reserve(p) PROVE Paced' /\ AgendaFits'
  BY <1>2, <1>0 DEF Reserve, Paced, AgendaFits
<1>3. ASSUME NEW p \in Prompt, Refuse(p) PROVE Paced' /\ AgendaFits'
  <2>1. at = "admit" /\ Raise(TRUE) /\ limit' = limit /\ (refused' => refused \/ ~(calls < limit))
    BY <1>3, Zenon DEF Refuse, counters, Admitted
  <2>2. CASE limit >= Len(Agenda)
    <3>1. ~repaired => calls < limit
      <4> SUFFICES ASSUME ~repaired PROVE calls < limit
        OBVIOUS
      <4>1. calls < item
        BY <2>1, <1>0 DEF Paced
      <4> QED BY <4>1, <2>2, <1>0
    <3>2. refused' => refused \/ repaired
      BY <3>1, <2>1
    <3> QED BY <3>2, <2>1, <1>r
  <2>3. CASE ~(limit >= Len(Agenda))
    <3>1. Paced'
      BY <2>1 DEF Raise, Paced
    <3> QED BY <3>1, <2>1, <2>3 DEF AgendaFits
  <2> QED BY <2>2, <2>3
<1>4. ASSUME NEW u \in Usage, Answer(u) PROVE Paced' /\ AgendaFits'
  <2>1. CASE at' = "tools" /\ UNCHANGED <<item, repaired, calls>>
    BY <2>1, <1>4, <1>0 DEF Answer, Paced, AgendaFits
  <2>2. CASE Raise(TRUE)
    BY <2>2, <1>4, <1>r DEF Answer
  <2> QED BY <1>4, <2>1, <2>2 DEF Answer
<1>5. ASSUME NEW u \in Usage, AnswerUnaccounted(u) \/ NoAnswer(u) PROVE Paced' /\ AgendaFits'
  <2>1. PICK e \in BOOLEAN : Raise(e)
    BY <1>5 DEF AnswerUnaccounted, NoAnswer
  <2>2. limit' = limit /\ refused' = refused
    BY <1>5 DEF AnswerUnaccounted, NoAnswer
  <2> QED BY <2>1, <2>2, <1>r
<1>6. CASE Judge \/ Tools
  <2>1. at = "tools" /\ UNCHANGED <<counters, refused>> /\ limit' = limit
    BY <1>6 DEF Judge, Tools, counters
  <2>2. CASE \E k \in {0, 1}, ok \in BOOLEAN : Proceed(k, ok)
    BY <2>1, <2>2, <1>p
  <2>3. CASE \E e \in BOOLEAN : Raise(e)
    BY <2>1, <2>3, <1>r
  <2> QED BY <1>6, <2>2, <2>3 DEF Judge, Tools
<1>7. CASE Finished \/ UNCHANGED vars
  BY <1>7 DEF Finished, vars, place, counters, Paced, AgendaFits
<1> QED BY <1>1, <1>2, <1>3, <1>4, <1>5, <1>6, <1>7 DEF Next

\* As long as the Planner is not repaired, no call of an agenda that fits the
\* limit is refused for the number of calls (limits.py:52).
THEOREM AgendaAdmitted == Spec => []AgendaFits
<1>1. Init => Paced /\ AgendaFits
  BY DEF Init, Paced, AgendaFits
<1> QED BY <1>1, PaceKept, Inductive, PTL DEF Spec
=============================================================================
